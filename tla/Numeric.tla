------------------------------- MODULE Numeric -------------------------------
(***************************************************************************)
(* The integer arithmetic the control code is built on: the bisecting      *)
(* interpolation, the shift-and-add divisions, and the conversions between *)
(* timer ticks and microseconds.  Pure operators; widths are those of the  *)
(* argument types, and every intermediate value fits them.                 *)
(***************************************************************************)
EXTENDS Integers

FirstOfUpper(mid) == mid + 1

\* The loop of map, on s = <<x, in_min, in_max, out_min, out_max>>: clamp, then
\* bisect both ranges.
Bisect[s \in Int \X Int \X Int \X Int \X Int] ==
  IF s[1] >= s[3] THEN s[5]
  ELSE IF s[1] <= s[2] \/ s[4] = s[5] THEN s[4]
  ELSE LET inMid  == (s[2] + s[3]) \div 2
           outMid == (s[4] + s[5]) \div 2
       IN IF s[2] = inMid THEN outMid
          ELSE IF s[1] <= inMid THEN Bisect[<<s[1], s[2], inMid, s[4], outMid>>]
          ELSE Bisect[<<s[1], FirstOfUpper(inMid), s[3], outMid, s[5]>>]

Interp(x, inMin, inMax, outMin, outMax) == Bisect[<<x, inMin, inMax, outMin, outMax>>]

AbsDif(a, b) == IF a >= b THEN a - b ELSE b - a

\* A value of `bits` bits loses what does not fit.
Wrap(n, bits) == n % 2^bits

------------------------------------------------------------------------------
(* Exact divisions without a divide instruction *)

Shr(n, bits) == n \div 2^bits

\* q += q >> 4, then >> 8, then >> 16
Spread(q) ==
  LET a == q + Shr(q, 4)
      b == a + Shr(a, 8)
  IN b + Shr(b, 16)

Correction(r, by) == Shr(by * r, 5)

Div3(n) == LET q == Spread(Shr(n, 2) + Shr(n, 4))
           IN q + Correction(n - 3 * q, 11)

Div3Signed(n) == IF n < 0 THEN -Div3(-n) ELSE Div3(n)

Fifths(q) == Shr(Spread(q), 2)

Div5(n) == LET q == Fifths(Shr(n, 1) + Shr(n, 2))
           IN q + Correction(n - 5 * q, 7)

Div10(n)   == Shr(Div5(n), 1)
Div2000(n) == Div5(Div5(Div5(Shr(n, 4))))

------------------------------------------------------------------------------
(* Ticks of a timer that runs at `khz` and microseconds *)

UsToTicks(us, khz) == (us * khz) \div 1000

\* The sum of six step intervals as an electrical period.
SixIntervalsToUs(sum, khz) ==
  IF khz = 2000 THEN Shr(sum + 4, 1) ELSE (sum * 1000 + khz \div 2) \div khz

\* An electrical period as the average interval of its six steps.
PeriodToAverage(us, khz) ==
  IF khz = 2000 THEN Div3Signed(us) ELSE (us * khz) \div 6000
==============================================================================
