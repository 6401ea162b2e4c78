---------------------------- MODULE Numeric_proofs ----------------------------
(***************************************************************************)
(* What map (functions.rs) returns, for every five integers, and what the  *)
(* divisions of fast_math.rs return, for every argument of 32 bits.        *)
(*                                                                         *)
(* Bisect is a recursive function: that it is one at all is shown first,   *)
(* by counting up to the width of the input range.                         *)
(***************************************************************************)
EXTENDS Numeric, WellFoundedInduction, TLAPS

------------------------------------------------------------------------------
(* Counting up to a number, by least elements *)

\* Every nonempty set of natural numbers has a least element.
LEMMA LeastElement ==
  ASSUME NEW T \in SUBSET Nat, T # {}
  PROVE  \E x \in T : \A y \in T : x <= y
<1> DEFINE below == {p \in Nat \X Nat : p[1] < p[2]}
<1>1. IsWellFoundedOn(below, Nat)
  BY NatLessThanWellFounded DEF OpToRel
<1>2. \E x \in T : \A y \in T : <<y, x>> \notin below
  BY <1>1, WFMin, T \subseteq Nat
<1>3. \A x, y \in Nat : <<y, x>> \notin below => x <= y
  OBVIOUS
<1> HIDE DEF below
<1> QED
  BY <1>2, <1>3

\* A set that holds 0 and, up to n, the successor of each of its numbers.
LEMMA Counting ==
  ASSUME NEW n \in Nat, NEW T, 0 \in T, \A k \in 0 .. n - 1 : k \in T => k + 1 \in T
  PROVE  0 .. n \subseteq T
<1> SUFFICES ASSUME (0 .. n) \ T # {} PROVE FALSE
  OBVIOUS
<1>1. PICK x \in (0 .. n) \ T : \A y \in (0 .. n) \ T : x <= y
  BY LeastElement, (0 .. n) \ T \in SUBSET Nat
<1>2. x \in 1 .. n /\ x - 1 \in 0 .. n - 1
  BY <1>1
<1>3. x - 1 \in T
  BY <1>1, <1>2
<1>4. x \in T
  BY <1>2, <1>3
<1> QED
  BY <1>1, <1>4

------------------------------------------------------------------------------
(* The bisection is a function *)

MapArguments == Int \X Int \X Int \X Int \X Int

LowerHalf(s) == <<s[1], s[2], (s[2] + s[3]) \div 2, s[4], (s[4] + s[5]) \div 2>>
UpperHalf(s) == <<s[1], (s[2] + s[3]) \div 2 + 1, s[3], (s[4] + s[5]) \div 2, s[5]>>

\* One turn of the loop, going on with the function f.
HalfStep(f, s) ==
  IF s[1] >= s[3] THEN s[5]
  ELSE IF s[1] <= s[2] \/ s[4] = s[5] THEN s[4]
  ELSE IF s[2] = (s[2] + s[3]) \div 2 THEN (s[4] + s[5]) \div 2
  ELSE IF s[1] <= (s[2] + s[3]) \div 2 THEN f[LowerHalf(s)] ELSE f[UpperHalf(s)]

\* Where the loop goes on.
GoesOn(s) == s[2] < s[1] /\ s[1] < s[3]

Narrow(n) == {s \in MapArguments : GoesOn(s) => s[3] - s[2] <= n}

\* f is the bisection of the input ranges up to n.
Bisects(f, n) == \A s \in Narrow(n) : f[s] = HalfStep(f, s)

\* The two halves are arguments, and narrower; where the loop ends f is not asked.
LEMMA Halves ==
  ASSUME NEW s \in MapArguments
  PROVE  /\ s[1] \in Int /\ s[2] \in Int /\ s[3] \in Int /\ s[4] \in Int /\ s[5] \in Int
         /\ (s[2] + s[3]) \div 2 \in Int /\ (s[4] + s[5]) \div 2 \in Int
         /\ LowerHalf(s) \in MapArguments /\ UpperHalf(s) \in MapArguments
         /\ ~GoesOn(s) => \A f, g : HalfStep(f, s) = HalfStep(g, s) /\ HalfStep(f, s) \in Int
         /\ GoesOn(s) => s[3] - s[2] >= 2
         /\ GoesOn(s) => \A n \in Nat :
              s[3] - s[2] <= n + 1 => LowerHalf(s) \in Narrow(n) /\ UpperHalf(s) \in Narrow(n)
<1>1. /\ s[1] \in Int /\ s[2] \in Int /\ s[3] \in Int /\ s[4] \in Int /\ s[5] \in Int
  BY DEF MapArguments
<1>2. (s[2] + s[3]) \div 2 \in Int /\ (s[4] + s[5]) \div 2 \in Int
  BY <1>1
<1>3. LowerHalf(s) \in MapArguments /\ UpperHalf(s) \in MapArguments
  BY <1>1, <1>2 DEF MapArguments, LowerHalf, UpperHalf
<1>4. ~GoesOn(s) => \A f, g : HalfStep(f, s) = HalfStep(g, s) /\ HalfStep(f, s) \in Int
  BY <1>1 DEF HalfStep, GoesOn
<1>5. GoesOn(s) => s[3] - s[2] >= 2
  BY <1>1 DEF GoesOn
<1>6. ASSUME GoesOn(s), NEW n \in Nat, s[3] - s[2] <= n + 1
      PROVE  LowerHalf(s) \in Narrow(n) /\ UpperHalf(s) \in Narrow(n)
  <2> DEFINE a == s[2]
             b == s[3]
             m == (a + b) \div 2
  <2>1. a \in Int /\ b \in Int /\ m \in Int /\ b - a >= 2 /\ b - a <= n + 1
    BY <1>1, <1>2, <1>5, <1>6
  <2>2. m >= a + 1 /\ m <= b - 1
    BY <2>1
  <2>3. m - a <= n /\ b - (m + 1) <= n
    BY <2>1, <2>2
  <2> HIDE DEF m
  <2>4. LowerHalf(s)[2] = a /\ LowerHalf(s)[3] = m /\ UpperHalf(s)[2] = m + 1 /\ UpperHalf(s)[3] = b
    BY DEF LowerHalf, UpperHalf, m
  <2> QED
    BY <1>3, <2>3, <2>4 DEF Narrow
<1> QED
  BY <1>1, <1>2, <1>3, <1>4, <1>5, <1>6

\* A turn of the loop asks f for narrower ranges alone.
LEMMA TurnsAgree ==
  ASSUME NEW n \in Nat, NEW s \in Narrow(n + 1), NEW f, NEW g, \A t \in Narrow(n) : f[t] = g[t]
  PROVE  HalfStep(f, s) = HalfStep(g, s)
<1>1. s \in MapArguments /\ (GoesOn(s) => s[3] - s[2] <= n + 1)
  BY DEF Narrow
<1>2. CASE ~GoesOn(s)
  BY <1>1, <1>2, Halves
<1>3. CASE GoesOn(s)
  <2>1. LowerHalf(s) \in Narrow(n) /\ UpperHalf(s) \in Narrow(n)
    BY <1>1, <1>3, Halves
  <2> QED
    BY <2>1 DEF HalfStep
<1> QED
  BY <1>2, <1>3

LEMMA TurnReturns ==
  ASSUME NEW s \in MapArguments, NEW f \in [MapArguments -> Int]
  PROVE  HalfStep(f, s) \in Int
BY Halves DEF HalfStep

\* There is a bisection of the ranges up to n.
LEMMA SomeBisects ==
  ASSUME NEW n \in Nat
  PROVE  \E f \in [MapArguments -> Int] : Bisects(f, n)
<1> DEFINE T == {k \in Nat : \E f \in [MapArguments -> Int] : Bisects(f, k)}
<1>1. 0 \in T
  <2> DEFINE f == [s \in MapArguments |-> HalfStep([t \in MapArguments |-> 0], s)]
  <2>1. f \in [MapArguments -> Int]
    BY TurnReturns
  <2>2. ASSUME NEW s \in Narrow(0) PROVE f[s] = HalfStep(f, s)
    <3>1. s \in MapArguments /\ ~GoesOn(s)
      BY Halves DEF Narrow
    <3> QED
      BY <3>1, Halves
  <2> QED
    BY <2>1, <2>2 DEF Bisects
<1>2. ASSUME NEW k \in 0 .. n - 1, k \in T PROVE k + 1 \in T
  <2>1. PICK f \in [MapArguments -> Int] : Bisects(f, k)
    BY <1>2
  <2> DEFINE g == [s \in MapArguments |-> HalfStep(f, s)]
  <2>2. g \in [MapArguments -> Int]
    BY TurnReturns
  <2>3. \A t \in Narrow(k) : f[t] = g[t]
    BY <2>1 DEF Bisects, Narrow
  <2>4. ASSUME NEW s \in Narrow(k + 1) PROVE g[s] = HalfStep(g, s)
    <3>1. HalfStep(f, s) = HalfStep(g, s)
      <4> HIDE DEF g
      <4> QED
        BY <2>3, <1>2, TurnsAgree
    <3> QED
      BY <3>1 DEF Narrow
  <2>5. Bisects(g, k + 1)
    BY <2>4 DEF Bisects
  <2> QED
    BY <2>2, <2>5, <1>2
<1> QED
  <2> HIDE DEF T
  <2>1. 0 .. n \subseteq T
    BY <1>1, <1>2, Counting
  <2> QED
    BY <2>1 DEF T

\* Two of them agree as far as both go.
LEMMA BisectsAgree ==
  ASSUME NEW n \in Nat, NEW f, NEW g, Bisects(f, n), Bisects(g, n)
  PROVE  \A s \in Narrow(n) : f[s] = g[s]
<1> DEFINE T == {k \in Nat : k <= n => \A s \in Narrow(k) : f[s] = g[s]}
<1>0. ASSUME NEW k \in 0 .. n, NEW s \in Narrow(k) PROVE s \in Narrow(n) /\ s \in MapArguments
  BY <1>0, Halves DEF Narrow
<1>1. 0 \in T
  <2> SUFFICES ASSUME NEW s \in Narrow(0) PROVE f[s] = g[s]
    OBVIOUS
  <2>1. s \in MapArguments /\ ~GoesOn(s) /\ s \in Narrow(n)
    BY Halves, <1>0 DEF Narrow
  <2> QED
    BY <2>1, Halves DEF Bisects
<1>2. ASSUME NEW k \in 0 .. n - 1, k \in T PROVE k + 1 \in T
  <2> SUFFICES ASSUME NEW s \in Narrow(k + 1) PROVE f[s] = g[s]
    OBVIOUS
  <2>1. HalfStep(f, s) = HalfStep(g, s)
    BY <1>2, TurnsAgree
  <2>2. s \in Narrow(n)
    BY <1>0
  <2> QED
    BY <2>1, <2>2 DEF Bisects
<1> QED
  <2> HIDE DEF T
  <2>1. 0 .. n \subseteq T
    BY <1>1, <1>2, Counting
  <2>2. n \in T
    BY <2>1
  <2> QED
    BY <2>2 DEF T

\* Each argument has the value that a bisection up to its width gives it.
LEMMA BisectExists == \E f \in [MapArguments -> Int] : f = [s \in MapArguments |-> HalfStep(f, s)]
<1> DEFINE Width(s) == IF GoesOn(s) THEN s[3] - s[2] ELSE 0
           Own(n) == CHOOSE f \in [MapArguments -> Int] : Bisects(f, n)
           F == [s \in MapArguments |-> Own(Width(s))[s]]
<1>1. \A n \in Nat : Own(n) \in [MapArguments -> Int] /\ Bisects(Own(n), n)
  BY SomeBisects
<1>2. \A s \in MapArguments : Width(s) \in Nat /\ s \in Narrow(Width(s))
  BY Halves DEF Narrow
<1>3. ASSUME NEW n \in Nat, NEW m \in 0 .. n, NEW s \in Narrow(m) PROVE Own(n)[s] = Own(m)[s]
  <2>1. Bisects(Own(n), m)
    <3>1. Narrow(m) \subseteq Narrow(n)
      BY Halves DEF Narrow
    <3> QED
      BY <1>1, <3>1 DEF Bisects
  <2>2. Bisects(Own(m), m)
    BY <1>1
  <2> HIDE DEF Own
  <2> QED
    BY <2>1, <2>2, BisectsAgree
<1> HIDE DEF Own, Width
<1>4. F \in [MapArguments -> Int]
  BY <1>1, <1>2
<1>5. ASSUME NEW s \in MapArguments PROVE F[s] = HalfStep(F, s)
  <2> DEFINE n == Width(s)
             f == Own(n)
  <2>1. n \in Nat /\ Bisects(f, n) /\ s \in Narrow(n)
    BY <1>1, <1>2
  <2>2. F[s] = HalfStep(f, s)
    BY <2>1 DEF Bisects
  <2>3. CASE ~GoesOn(s)
    BY <2>2, <2>3, Halves
  <2>4. CASE GoesOn(s)
    <3>1. n - 1 \in Nat /\ LowerHalf(s) \in Narrow(n - 1) /\ UpperHalf(s) \in Narrow(n - 1)
      BY <2>4, Halves DEF Width
    <3>2. ASSUME NEW t \in Narrow(n - 1) PROVE f[t] = F[t]
      <4>1. t \in MapArguments /\ Width(t) \in 0 .. n /\ t \in Narrow(Width(t))
        BY <1>2, <2>1, <3>1 DEF Narrow, Width
      <4> QED
        BY <4>1, <2>1, <1>3
    <3> QED
      BY <3>1, <3>2, <2>2 DEF HalfStep
  <2> QED
    BY <2>3, <2>4
<1> QED
  BY <1>4, <1>5

\* So Bisect is the function that its definition describes.
LEMMA BisectIs ==
  /\ Bisect = [s \in MapArguments |-> HalfStep(Bisect, s)]
  /\ Bisect \in [MapArguments -> Int]
<1>1. \E f : f = [s \in MapArguments |-> HalfStep(f, s)]
  BY BisectExists
<1>2. Bisect = [s \in MapArguments |-> HalfStep(Bisect, s)]
  BY <1>1 DEF Bisect, MapArguments, HalfStep, LowerHalf, UpperHalf, FirstOfUpper
<1>3. PICK f \in [MapArguments -> Int] : f = [s \in MapArguments |-> HalfStep(f, s)]
  BY BisectExists
<1>4. ASSUME NEW s \in MapArguments PROVE Bisect[s] \in Int
  <2>1. PICK n \in Nat : s \in Narrow(n)
    <3>1. CASE GoesOn(s)
      <4>1. s[3] - s[2] \in Nat
        BY <3>1, Halves
      <4> QED
        BY <4>1 DEF Narrow
    <3>2. CASE ~GoesOn(s)
      BY <3>2 DEF Narrow
    <3> QED
      BY <3>1, <3>2
  <2>2. Bisects(f, n)
    BY <1>3 DEF Bisects, Narrow
  <2>3. Bisects(Bisect, n)
    BY <1>2 DEF Bisects, Narrow
  <2>4. Bisect[s] = f[s]
    BY <2>1, <2>2, <2>3, BisectsAgree
  <2> QED
    BY <2>4
<1> QED
  BY <1>2, <1>4

------------------------------------------------------------------------------
(* What map returns *)

\* Every argument is narrow enough for some count.
LEMMA SomeWidth ==
  ASSUME NEW s \in MapArguments
  PROVE  \E n \in Nat : s \in Narrow(n)
<1>1. CASE GoesOn(s)
  <2>1. s[3] - s[2] \in Nat
    BY <1>1, Halves
  <2> QED
    BY <2>1 DEF Narrow
<1>2. CASE ~GoesOn(s)
  BY <1>2 DEF Narrow
<1> QED
  BY <1>1, <1>2

\* The value of s lies between the ends of its output range, rising or falling.
Inside(s) ==
  /\ s[4] <= s[5] => s[4] <= Bisect[s] /\ Bisect[s] <= s[5]
  /\ s[5] <= s[4] => s[5] <= Bisect[s] /\ Bisect[s] <= s[4]

\* One turn of the loop for Bisect itself, by its cases.
LEMMA BisectTurns ==
  ASSUME NEW s \in MapArguments
  PROVE  /\ Bisect[s] \in Int
         /\ s[1] >= s[3] => Bisect[s] = s[5]
         /\ s[1] < s[3] /\ s[1] <= s[2] => Bisect[s] = s[4]
         /\ GoesOn(s) /\ s[4] = s[5] => Bisect[s] = s[4]
         /\ GoesOn(s) /\ s[4] # s[5] =>
              Bisect[s] = IF s[1] <= (s[2] + s[3]) \div 2 THEN Bisect[LowerHalf(s)]
                                                          ELSE Bisect[UpperHalf(s)]
<1>1. Bisect[s] = HalfStep(Bisect, s) /\ Bisect[s] \in Int
  BY BisectIs
<1>2. GoesOn(s) => s[2] # (s[2] + s[3]) \div 2
  <2> DEFINE a == s[2]
             b == s[3]
  <2>1. a \in Int /\ b \in Int /\ (GoesOn(s) => b - a >= 2)
    BY Halves
  <2> QED
    BY <2>1
<1> QED
  BY <1>1, <1>2, Halves DEF HalfStep, GoesOn

LEMMA InsideAll ==
  ASSUME NEW s \in MapArguments
  PROVE  Inside(s)
<1>1. PICK n \in Nat : s \in Narrow(n)
  BY SomeWidth
<1> DEFINE T == {k \in Nat : \A t \in Narrow(k) : Inside(t)}
<1>2. ASSUME NEW t \in MapArguments, ~GoesOn(t) \/ t[4] = t[5] PROVE Inside(t)
  BY <1>2, BisectTurns, Halves DEF Inside, GoesOn
<1>3. 0 \in T
  <2> SUFFICES ASSUME NEW t \in Narrow(0) PROVE Inside(t)
    OBVIOUS
  <2> QED
    BY <1>2, Halves DEF Narrow
<1>4. ASSUME NEW k \in 0 .. n - 1, k \in T PROVE k + 1 \in T
  <2> SUFFICES ASSUME NEW t \in Narrow(k + 1), GoesOn(t), t[4] # t[5] PROVE Inside(t)
    BY <1>2 DEF Narrow
  <2> DEFINE c == t[4]
             d == t[5]
             m == (c + d) \div 2
  <2>1. t \in MapArguments /\ t[3] - t[2] <= k + 1
    BY DEF Narrow
  <2>2. c \in Int /\ d \in Int /\ m \in Int /\ LowerHalf(t) \in MapArguments /\ UpperHalf(t) \in MapArguments
    BY <2>1, Halves
  <2>3. Inside(LowerHalf(t)) /\ Inside(UpperHalf(t))
    BY <2>1, <1>4, Halves
  <2>4. /\ LowerHalf(t)[4] = c /\ LowerHalf(t)[5] = m /\ UpperHalf(t)[4] = m /\ UpperHalf(t)[5] = d
    BY DEF LowerHalf, UpperHalf
  <2>5. (c <= d => c <= m /\ m <= d) /\ (d <= c => d <= m /\ m <= c)
    BY <2>2
  <2>6. Bisect[t] = Bisect[LowerHalf(t)] \/ Bisect[t] = Bisect[UpperHalf(t)]
    BY <2>1, BisectTurns
  <2>7. Bisect[LowerHalf(t)] \in Int /\ Bisect[UpperHalf(t)] \in Int
    BY <2>2, BisectTurns
  <2> HIDE DEF m
  <2> QED
    BY <2>2, <2>3, <2>4, <2>5, <2>6, <2>7 DEF Inside
<1> QED
  <2> HIDE DEF T
  <2>1. 0 .. n \subseteq T
    BY <1>3, <1>4, Counting
  <2>2. n \in T
    BY <2>1
  <2> QED
    BY <2>2, <1>1 DEF T

\* map clamps: at or above the upper end of the input it returns the one end of the
\* output, else at or below the lower end the other; it never leaves the output
\* range, which may fall.
THEOREM MapClamps ==
  ASSUME NEW x \in Int, NEW inMin \in Int, NEW inMax \in Int, NEW outMin \in Int, NEW outMax \in Int
  PROVE  /\ Interp(x, inMin, inMax, outMin, outMax) \in Int
         /\ x >= inMax => Interp(x, inMin, inMax, outMin, outMax) = outMax
         /\ x < inMax /\ x <= inMin => Interp(x, inMin, inMax, outMin, outMax) = outMin
         /\ outMin <= outMax => Interp(x, inMin, inMax, outMin, outMax) \in outMin .. outMax
         /\ outMax <= outMin => Interp(x, inMin, inMax, outMin, outMax) \in outMax .. outMin
<1> DEFINE s == <<x, inMin, inMax, outMin, outMax>>
<1>1. s \in MapArguments
  BY DEF MapArguments
<1>2. s[1] = x /\ s[2] = inMin /\ s[3] = inMax /\ s[4] = outMin /\ s[5] = outMax
  OBVIOUS
<1>3. Interp(x, inMin, inMax, outMin, outMax) = Bisect[s]
  BY DEF Interp
<1> HIDE DEF s
<1> QED
  BY <1>1, <1>2, <1>3, BisectTurns, InsideAll DEF Inside

\* The same ranges at another input.
Fed(s, y) == <<y, s[2], s[3], s[4], s[5]>>

\* From the input of s on, the value moves only towards the far end of the output.
Onward(s) ==
  \A y \in Int : y >= s[1] =>
    /\ s[4] <= s[5] => Bisect[s] <= Bisect[Fed(s, y)]
    /\ s[5] <= s[4] => Bisect[Fed(s, y)] <= Bisect[s]

LEMMA OnwardAll ==
  ASSUME NEW s \in MapArguments
  PROVE  Onward(s)
<1>1. PICK n \in Nat : s \in Narrow(n)
  BY SomeWidth
<1> DEFINE T == {k \in Nat : \A t \in Narrow(k) : Onward(t)}
<1>2. ASSUME NEW t \in MapArguments, NEW y \in Int
      PROVE  /\ Fed(t, y) \in MapArguments /\ Fed(t, y)[1] = y
             /\ Fed(t, y)[2] = t[2] /\ Fed(t, y)[3] = t[3]
             /\ Fed(t, y)[4] = t[4] /\ Fed(t, y)[5] = t[5]
             /\ LowerHalf(Fed(t, y)) = Fed(LowerHalf(t), y)
             /\ UpperHalf(Fed(t, y)) = Fed(UpperHalf(t), y)
  BY Halves DEF Fed, MapArguments, LowerHalf, UpperHalf
<1>3. ASSUME NEW t \in MapArguments, ~GoesOn(t) \/ t[4] = t[5] PROVE Onward(t)
  <2> SUFFICES ASSUME NEW y \in Int, y >= t[1]
               PROVE  /\ t[4] <= t[5] => Bisect[t] <= Bisect[Fed(t, y)]
                      /\ t[5] <= t[4] => Bisect[Fed(t, y)] <= Bisect[t]
    BY DEF Onward
  <2>1. Inside(t) /\ Inside(Fed(t, y)) /\ Bisect[t] \in Int /\ Bisect[Fed(t, y)] \in Int
    BY <1>2, InsideAll, BisectTurns
  <2>2. /\ Fed(t, y) \in MapArguments /\ Fed(t, y)[1] = y /\ Fed(t, y)[3] = t[3]
        /\ Fed(t, y)[4] = t[4] /\ Fed(t, y)[5] = t[5]
    BY <1>2
  <2>3. t[1] \in Int /\ t[2] \in Int /\ t[3] \in Int /\ t[4] \in Int /\ t[5] \in Int
    BY Halves
  <2>4. CASE t[1] >= t[3]
    <3>1. Bisect[t] = t[5]
      BY <2>4, BisectTurns
    <3>2. Bisect[Fed(t, y)] = t[5]
      <4>1. y >= t[3]
        BY <2>3, <2>4
      <4> QED
        BY <4>1, <2>2, BisectTurns
    <3> QED
      BY <3>1, <3>2, <2>3
  <2>5. CASE t[1] < t[3] /\ t[1] <= t[2]
    BY <2>1, <2>5, <1>2, BisectTurns DEF Inside
  <2>6. CASE t[4] = t[5]
    <3>1. t[4] <= Bisect[t] /\ Bisect[t] <= t[4]
      BY <2>3, <2>1, <2>6 DEF Inside
    <3>2. t[4] <= Bisect[Fed(t, y)] /\ Bisect[Fed(t, y)] <= t[4]
      BY <2>3, <2>1, <2>6, <2>2 DEF Inside
    <3> QED
      BY <2>3, <2>1, <3>1, <3>2
  <2> QED
    BY <1>3, <2>4, <2>5, <2>6, Halves DEF GoesOn
<1>4. 0 \in T
  <2> SUFFICES ASSUME NEW t \in Narrow(0) PROVE Onward(t)
    OBVIOUS
  <2> QED
    BY <1>3, Halves DEF Narrow
<1>5. ASSUME NEW k \in 0 .. n - 1, k \in T PROVE k + 1 \in T
  <2> SUFFICES ASSUME NEW t \in Narrow(k + 1), GoesOn(t), t[4] # t[5], NEW y \in Int, y >= t[1]
               PROVE  /\ t[4] <= t[5] => Bisect[t] <= Bisect[Fed(t, y)]
                      /\ t[5] <= t[4] => Bisect[Fed(t, y)] <= Bisect[t]
    BY <1>3 DEF Narrow, Onward
  <2> DEFINE c == t[4]
             d == t[5]
             m == (c + d) \div 2
             mid == (t[2] + t[3]) \div 2
             u == Fed(t, y)
  <2>1. t \in MapArguments /\ t[3] - t[2] <= k + 1 /\ u \in MapArguments
    BY <1>2 DEF Narrow
  <2>2. /\ c \in Int /\ d \in Int /\ m \in Int /\ mid \in Int /\ t[1] \in Int
        /\ LowerHalf(t) \in Narrow(k) /\ UpperHalf(t) \in Narrow(k)
        /\ LowerHalf(t) \in MapArguments /\ UpperHalf(t) \in MapArguments
    BY <2>1, <1>5, Halves
  <2>3. /\ LowerHalf(t)[1] = t[1] /\ UpperHalf(t)[1] = t[1]
        /\ LowerHalf(t)[4] = c /\ LowerHalf(t)[5] = m /\ UpperHalf(t)[4] = m /\ UpperHalf(t)[5] = d
    BY DEF LowerHalf, UpperHalf
  <2>4. (c <= d => c <= m /\ m <= d) /\ (d <= c => d <= m /\ m <= c)
    BY <2>2
  <2>5. Bisect[t] = IF t[1] <= mid THEN Bisect[LowerHalf(t)] ELSE Bisect[UpperHalf(t)]
    BY <2>1, BisectTurns
  <2>6. /\ LowerHalf(u) = Fed(LowerHalf(t), y) /\ UpperHalf(u) = Fed(UpperHalf(t), y)
        /\ u[1] = y /\ u[2] = t[2] /\ u[3] = t[3] /\ u[4] = c /\ u[5] = d
        /\ Fed(LowerHalf(t), y) \in MapArguments /\ Fed(UpperHalf(t), y) \in MapArguments
    BY <2>1, <2>2, <1>2
  <2>7. /\ Bisect[LowerHalf(t)] \in Int /\ Bisect[UpperHalf(t)] \in Int
        /\ Bisect[Fed(LowerHalf(t), y)] \in Int /\ Bisect[Fed(UpperHalf(t), y)] \in Int
        /\ Inside(t) /\ Bisect[t] \in Int
    BY <2>1, <2>2, <2>6, BisectTurns, InsideAll
  <2>8. CASE y >= t[3]
    <3>1. Bisect[u] = d
      BY <2>1, <2>6, <2>8, BisectTurns
    <3> QED
      BY <3>1, <2>7 DEF Inside
  <2>9. CASE y < t[3]
    <3>1. Bisect[u] = IF y <= mid THEN Bisect[Fed(LowerHalf(t), y)] ELSE Bisect[Fed(UpperHalf(t), y)]
      <4>1. GoesOn(u) /\ u[4] # u[5]
        BY <2>1, <2>6, <2>9, Halves DEF GoesOn
      <4> QED
        BY <4>1, <2>1, <2>6, BisectTurns
    <3>2. Onward(LowerHalf(t)) /\ Onward(UpperHalf(t))
      BY <2>2, <1>5
    <3>3. Inside(LowerHalf(t)) /\ Inside(Fed(UpperHalf(t), y))
      BY <2>2, <2>6, InsideAll
    <3>4. Fed(UpperHalf(t), y)[4] = m /\ Fed(UpperHalf(t), y)[5] = d
      BY <2>3 DEF Fed
    <3> DEFINE l  == Bisect[LowerHalf(t)]
               h  == Bisect[UpperHalf(t)]
               ly == Bisect[Fed(LowerHalf(t), y)]
               hy == Bisect[Fed(UpperHalf(t), y)]
    <3>5. (c <= m => l <= ly) /\ (m <= c => ly <= l) /\ (m <= d => h <= hy) /\ (d <= m => hy <= h)
      BY <3>2, <2>3, y >= t[1] DEF Onward
    <3>6. (c <= m => l <= m) /\ (m <= c => m <= l) /\ (m <= d => m <= hy) /\ (d <= m => hy <= m)
      BY <3>3, <3>4, <2>3 DEF Inside
    <3>7. l \in Int /\ h \in Int /\ ly \in Int /\ hy \in Int
      BY <2>7
    <3>8. Bisect[t] = IF t[1] <= mid THEN l ELSE h
      BY <2>5
    <3>9. Bisect[u] = IF y <= mid THEN ly ELSE hy
      BY <3>1
    <3> HIDE DEF c, d, m, mid, u, l, h, ly, hy
    <3>10. (t[1] <= mid /\ y <= mid) \/ (t[1] <= mid /\ ~(y <= mid)) \/ (~(t[1] <= mid) /\ ~(y <= mid))
      BY <2>2
    <3>11. (c <= d => Bisect[t] <= Bisect[u]) /\ (d <= c => Bisect[u] <= Bisect[t])
      BY <3>5, <3>6, <3>7, <3>8, <3>9, <3>10, <2>2, <2>4
    <3> QED
      BY <3>11 DEF c, d, u
  <2> QED
    BY <2>8, <2>9, <2>1, Halves DEF u
<1> QED
  <2> HIDE DEF T
  <2>1. 0 .. n \subseteq T
    BY <1>4, <1>5, Counting
  <2>2. n \in T
    BY <2>1
  <2> QED
    BY <2>2, <1>1 DEF T

\* map never turns back: a larger input gives no value further from the far end of
\* the output range.
THEOREM MapMonotone ==
  ASSUME NEW x \in Int, NEW y \in Int, x <= y,
         NEW inMin \in Int, NEW inMax \in Int, NEW outMin \in Int, NEW outMax \in Int
  PROVE  /\ outMin <= outMax =>
              Interp(x, inMin, inMax, outMin, outMax) <= Interp(y, inMin, inMax, outMin, outMax)
         /\ outMax <= outMin =>
              Interp(y, inMin, inMax, outMin, outMax) <= Interp(x, inMin, inMax, outMin, outMax)
<1> DEFINE s == <<x, inMin, inMax, outMin, outMax>>
<1>1. s \in MapArguments
  BY DEF MapArguments
<1>2. s[1] = x /\ s[4] = outMin /\ s[5] = outMax /\ Fed(s, y) = <<y, inMin, inMax, outMin, outMax>>
  BY DEF Fed
<1>3. Onward(s)
  BY <1>1, OnwardAll
<1> QED
  BY <1>2, <1>3 DEF Interp, Onward

------------------------------------------------------------------------------
(* The divisions without a divide instruction *)

\* An argument of the widest type the code divides.
FitsU32(n) == n \in Nat /\ n < 4294967296

\* The shifts as divisions by the powers of two.
LEMMA Shifts ==
  ASSUME NEW n \in Int
  PROVE  /\ Shr(n, 1) = n \div 2 /\ Shr(n, 2) = n \div 4 /\ Shr(n, 4) = n \div 16
         /\ Shr(n, 5) = n \div 32 /\ Shr(n, 8) = n \div 256 /\ Shr(n, 16) = n \div 65536
<1> DEFINE P(s) == 2^s
<1>1. P(1) = 2 /\ P(2) = 4 /\ P(4) = 16 /\ P(5) = 32 /\ P(8) = 256 /\ P(16) = 65536
  OBVIOUS
<1>2. \A b : Shr(n, b) = n \div P(b)
  BY DEF Shr
<1> HIDE DEF P
<1> QED
  BY <1>1, <1>2

\* The first two of the three shift-and-adds.
Spread4(q) == q + q \div 16
Spread8(q) == Spread4(q) + Spread4(q) \div 256

\* Each of them loses less than one.
LEMMA SpreadBounds ==
  ASSUME NEW q \in Nat
  PROVE  /\ Spread4(q) \in Nat /\ Spread8(q) \in Nat /\ Spread(q) \in Nat
         /\ 16 * Spread4(q) <= 17 * q /\ 17 * q <= 16 * Spread4(q) + 15
         /\ 256 * Spread8(q) <= 257 * Spread4(q) /\ 257 * Spread4(q) <= 256 * Spread8(q) + 255
         /\ 65536 * Spread(q) <= 65537 * Spread8(q)
         /\ 65537 * Spread8(q) <= 65536 * Spread(q) + 65535
<1>1. Spread4(q) \in Nat /\ 16 * Spread4(q) <= 17 * q /\ 17 * q <= 16 * Spread4(q) + 15
  BY DEF Spread4
<1>2. PICK a \in Nat : a = Spread4(q)
  BY <1>1
<1>3. Shr(q, 4) = q \div 16 /\ Shr(a, 8) = a \div 256
  BY Shifts
<1>4. PICK b \in Nat : b = a + a \div 256
  OBVIOUS
<1>5. b = Spread8(q) /\ 256 * b <= 257 * a /\ 257 * a <= 256 * b + 255
  BY <1>2, <1>4 DEF Spread8
<1>6. Spread(q) = b + b \div 65536
  <2>1. a = q + Shr(q, 4) /\ b = a + Shr(a, 8)
    BY <1>2, <1>3, <1>4 DEF Spread4
  <2>2. Spread(q) = b + Shr(b, 16)
    BY <2>1 DEF Spread
  <2>3. Shr(b, 16) = b \div 65536
    BY Shifts
  <2> QED
    BY <2>2, <2>3
<1>7. PICK c \in Nat : c = b + b \div 65536
  OBVIOUS
<1>8. 65536 * c <= 65537 * b /\ 65537 * b <= 65536 * c + 65535
  BY <1>7
<1> QED
  BY <1>1, <1>2, <1>5, <1>6, <1>7, <1>8

\* The estimates are never too large, and too small by so little that the product
\* with 11/32, or 7/32, of what is left is the rest of the quotient.
LEMMA DivideByThree ==
  ASSUME NEW n, FitsU32(n)
  PROVE  Div3(n) = n \div 3 /\ 3 * Spread(Shr(n, 2) + Shr(n, 4)) <= n
<1>q. PICK q \in Nat : q = n \div 4 + n \div 16
  BY DEF FitsU32
<1>1. 16 * q <= 5 * n /\ 5 * n <= 16 * q + 27
  BY <1>q DEF FitsU32
<1>a. PICK a \in Nat : a = Spread4(q)
  BY SpreadBounds
<1>b. PICK b \in Nat : b = Spread8(q)
  BY SpreadBounds
<1>c. PICK c \in Nat : c = Spread(q)
  BY SpreadBounds
<1>2. /\ 16 * a <= 17 * q /\ 17 * q <= 16 * a + 15
      /\ 256 * b <= 257 * a /\ 257 * a <= 256 * b + 255
      /\ 65536 * c <= 65537 * b /\ 65537 * b <= 65536 * c + 65535
  BY <1>a, <1>b, <1>c, SpreadBounds
<1>3. Shr(n, 2) + Shr(n, 4) = q
  BY <1>q, Shifts DEF FitsU32
<1>4. Div3(n) = c + (11 * (n - 3 * c)) \div 32
  <2>1. Div3(n) = c + Shr(11 * (n - 3 * c), 5)
    BY <1>c, <1>3 DEF Div3, Correction
  <2>2. 11 * (n - 3 * c) \in Int
    BY DEF FitsU32
  <2>3. Shr(11 * (n - 3 * c), 5) = (11 * (n - 3 * c)) \div 32
    BY <2>2, Shifts
  <2> QED
    BY <2>1, <2>3
<1>5. 3 * c <= n /\ n < 3 * c + 32 /\ n \in Nat
  BY <1>1, <1>2 DEF FitsU32
<1>6. \A r \in Int : 0 <= r /\ r < 32 => (11 * r) \div 32 = r \div 3
  OBVIOUS
<1>7. c + (11 * (n - 3 * c)) \div 32 = n \div 3
  <2>1. (11 * (n - 3 * c)) \div 32 = (n - 3 * c) \div 3
    BY <1>5, <1>6
  <2> QED
    BY <2>1, <1>5
<1> QED
  BY <1>c, <1>3, <1>4, <1>5, <1>7

\* The same for five, whose estimate is shifted down once more.
LEMMA DivideByFive ==
  ASSUME NEW n, FitsU32(n)
  PROVE  /\ Div5(n) = n \div 5 /\ FitsU32(Div5(n))
         /\ 5 * Fifths(Shr(n, 1) + Shr(n, 2)) <= n
<1>q. PICK q \in Nat : q = n \div 2 + n \div 4
  BY DEF FitsU32
<1>1. 4 * q <= 3 * n /\ 3 * n <= 4 * q + 5
  BY <1>q DEF FitsU32
<1>a. PICK a \in Nat : a = Spread4(q)
  BY SpreadBounds
<1>b. PICK b \in Nat : b = Spread8(q)
  BY SpreadBounds
<1>d. PICK d \in Nat : d = Spread(q)
  BY SpreadBounds
<1>2. /\ 16 * a <= 17 * q /\ 17 * q <= 16 * a + 15
      /\ 256 * b <= 257 * a /\ 257 * a <= 256 * b + 255
      /\ 65536 * d <= 65537 * b /\ 65537 * b <= 65536 * d + 65535
  BY <1>a, <1>b, <1>d, SpreadBounds
<1>c. PICK c \in Nat : c = d \div 4
  OBVIOUS
<1>3. Fifths(Shr(n, 1) + Shr(n, 2)) = c
  <2>1. Shr(n, 1) + Shr(n, 2) = q
    BY <1>q, Shifts DEF FitsU32
  <2>2. Shr(d, 2) = d \div 4
    BY Shifts
  <2> QED
    BY <1>c, <1>d, <2>1, <2>2 DEF Fifths
<1>4. Div5(n) = c + (7 * (n - 5 * c)) \div 32
  <2>1. Div5(n) = c + Shr(7 * (n - 5 * c), 5)
    BY <1>3 DEF Div5, Correction
  <2>2. 7 * (n - 5 * c) \in Int
    BY DEF FitsU32
  <2>3. Shr(7 * (n - 5 * c), 5) = (7 * (n - 5 * c)) \div 32
    BY <2>2, Shifts
  <2> QED
    BY <2>1, <2>3
<1>5. 5 * c <= n /\ n < 5 * c + 14 /\ n \in Nat /\ n < 4294967296
  BY <1>1, <1>2, <1>c DEF FitsU32
<1>6. \A r \in Int : 0 <= r /\ r < 14 => (7 * r) \div 32 = r \div 5
  OBVIOUS
<1>7. c + (7 * (n - 5 * c)) \div 32 = n \div 5
  <2>1. (7 * (n - 5 * c)) \div 32 = (n - 5 * c) \div 5
    BY <1>5, <1>6
  <2> QED
    BY <2>1, <1>5
<1>8. n \div 5 \in Nat /\ n \div 5 < 4294967296
  BY <1>5
<1> QED
  BY <1>3, <1>4, <1>5, <1>7, <1>8 DEF FitsU32

\* On a core without a divide instruction the quotients are computed by shifts, adds
\* and a small product (fast_math.rs): they are the exact ones, for every argument of
\* 32 bits, rounded towards zero when it is signed; the remainder of an estimate is
\* never negative, so the unsigned subtraction does not wrap.
THEOREM ExactDivisions ==
  ASSUME NEW n, FitsU32(n)
  PROVE  /\ Div3(n) = n \div 3 /\ Div10(n) = n \div 10 /\ Div2000(n) = n \div 2000
         /\ Div3Signed(n) = n \div 3 /\ Div3Signed(-n) = -(n \div 3)
         /\ 3 * Spread(Shr(n, 2) + Shr(n, 4)) <= n /\ 5 * Fifths(Shr(n, 1) + Shr(n, 2)) <= n
<1>1. n \in Nat
  BY DEF FitsU32
<1>2. Div3(n) = n \div 3
  BY DivideByThree
<1>3. Div10(n) = n \div 10
  <2>1. Div10(n) = (n \div 5) \div 2
    BY <1>1, DivideByFive, Shifts DEF Div10
  <2> QED
    BY <2>1, <1>1
<1>4. Div2000(n) = n \div 2000
  <2>1. PICK m \in Nat : m = n \div 16
    BY <1>1
  <2>2. Shr(n, 4) = m /\ FitsU32(m)
    BY <2>1, Shifts DEF FitsU32
  <2>3. Div5(m) = m \div 5 /\ FitsU32(m \div 5)
    BY <2>2, DivideByFive
  <2>4. Div5(m \div 5) = (m \div 5) \div 5 /\ FitsU32((m \div 5) \div 5)
    BY <2>3, DivideByFive
  <2>5. Div5((m \div 5) \div 5) = ((m \div 5) \div 5) \div 5
    BY <2>4, DivideByFive
  <2>6. Div2000(n) = ((m \div 5) \div 5) \div 5
    BY <2>2, <2>3, <2>4, <2>5 DEF Div2000
  <2>7. ((m \div 5) \div 5) \div 5 = n \div 2000
    BY <2>1, <1>1
  <2> QED
    BY <2>6, <2>7
<1>5. Div3Signed(n) = n \div 3 /\ Div3Signed(-n) = -(n \div 3)
  <2>1. Div3Signed(n) = n \div 3
    BY <1>1, <1>2 DEF Div3Signed
  <2>2. PICK m \in Int : m = -n
    BY <1>1
  <2>3. -m = n /\ (m < 0 <=> n # 0) /\ (n = 0 => m = n /\ n \div 3 = -(n \div 3))
    BY <1>1, <2>2
  <2>4. Div3Signed(m) = -(n \div 3)
    <3>1. CASE m < 0
      BY <3>1, <2>3, <1>2 DEF Div3Signed
    <3>2. CASE ~(m < 0)
      BY <3>2, <2>3, <1>2 DEF Div3Signed
    <3> QED
      BY <3>1, <3>2
  <2> QED
    BY <2>1, <2>2, <2>4
<1>6. 3 * Spread(Shr(n, 2) + Shr(n, 4)) <= n /\ 5 * Fifths(Shr(n, 1) + Shr(n, 2)) <= n
  BY DivideByThree, DivideByFive
<1> QED
  BY <1>2, <1>3, <1>4, <1>5, <1>6
==============================================================================
