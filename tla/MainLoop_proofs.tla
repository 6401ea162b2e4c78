--------------------------- MODULE MainLoop_proofs ---------------------------
(***************************************************************************)
(* What the main loop owes to time. For every timeout, arming and cutoff   *)
(* limit: the controller is reset only after a silence that really         *)
(* lasted. For every width of the clock, LED period and current: however   *)
(* late a pass is, it accounts for every tick once.                        *)
(***************************************************************************)
EXTENDS SignalGuard, MainServices, TLAPS

------------------------------------------------------------------------------
(* Signal loss *)

\* Where the main loop may stand.
Places == {"input", "read", "judge", "voltage", "reset"}

\* The timeout counts no tick that the silence does not; what the main loop read
\* is judged by the silence of that moment; a reset is asked for in JudgePass only
\* and carried out in the same pass.
LossCounted ==
  /\ timeout \in Nat /\ silence \in Nat /\ mainSaw \in Nat
  /\ timeout <= silence /\ silence <= UnarmedLimit + 1
  /\ lossReal \in BOOLEAN /\ needsReset \in BOOLEAN /\ mainAt \in Places
  /\ mainAt = "judge" /\ mainSaw > DisarmLimit => lossReal
  /\ needsReset => mainAt \in {"voltage", "reset"}
  /\ needsReset => lossReal

\* The limits are numbers, and the one of an armed controller is the smaller.
LEMMA LimitsOrdered ==
  DisarmLimit \in Nat /\ UnarmedLimit \in Nat /\ DisarmLimit < UnarmedLimit
BY GuardAssumption DEF GuardAssumption

\* A capped counter grows by at most one and never beyond its limit.
LEMMA UpToBounds ==
  ASSUME NEW limit \in Nat, NEW n \in Nat, n <= limit
  PROVE  UpTo(limit, n) \in Nat /\ n <= UpTo(limit, n) /\ UpTo(limit, n) <= limit
BY DEF UpTo

\* The start satisfies it.
LEMMA LossCountedInit == GuardInit => LossCounted
<1> SUFFICES ASSUME GuardInit PROVE LossCounted
  OBVIOUS
<1>1. lossReal \in BOOLEAN /\ needsReset \in BOOLEAN /\ ~needsReset
  BY DEF GuardInit
<1>2. /\ timeout = 0 /\ silence = 0 /\ mainSaw = 0 /\ mainAt = "input"
      /\ mainAt \in Places
  BY DEF GuardInit, Places
<1> QED
  BY <1>1, <1>2, LimitsOrdered DEF LossCounted

\* The frame interrupt resets timeout and silence together.
LEMMA FramePreserves == LossCounted /\ (Detected \/ GuardFrame) => LossCounted'
<1> SUFFICES ASSUME LossCounted, Detected \/ GuardFrame PROVE LossCounted'
  OBVIOUS
<1> USE LimitsOrdered DEF LossCounted, Places, judgeVars
<1>1. CASE Detected
  BY <1>1 DEF Detected
<1>2. CASE GuardFrame
  BY <1>2 DEF GuardFrame
<1> QED
  BY <1>1, <1>2

\* A tick that counts the timeout counts the silence; an AllOff tick only the silence.
LEMMA TickPreserves == LossCounted /\ GuardTick => LossCounted'
<1> SUFFICES ASSUME LossCounted, GuardTick PROVE LossCounted'
  OBVIOUS
<1> USE LimitsOrdered DEF LossCounted, Places
<1>1. CASE TickBegins
  BY <1>1 DEF TickBegins, UpTo, frameVars, judgeVars
<1>2. CASE TickEnds
  BY <1>2 DEF TickEnds, Increment, UpTo, judgeVars
<1> QED
  BY <1>1, <1>2 DEF GuardTick

\* The pass of the main loop: read, judge, reset.
LEMMA MainPreserves == LossCounted /\ GuardMain => LossCounted'
<1> SUFFICES ASSUME LossCounted, GuardMain PROVE LossCounted'
  OBVIOUS
<1> USE LimitsOrdered DEF LossCounted, Places
<1>1. CASE InputPass
  BY <1>1 DEF InputPass, frameVars
<1>2. CASE ReadPass
  <2>1. lossReal' \in BOOLEAN /\ lossReal' = (silence > DisarmLimit)
    BY <1>2 DEF ReadPass
  <2>2. ~needsReset /\ needsReset' = needsReset
    BY <1>2 DEF ReadPass
  <2>3. /\ timeout' = timeout /\ silence' = silence /\ mainSaw' = timeout
        /\ mainAt' = "judge"
    BY <1>2 DEF ReadPass, frameVars
  <2>4. timeout > DisarmLimit => silence > DisarmLimit
    OBVIOUS
  <2> QED
    BY <2>1, <2>2, <2>3, <2>4
<1>3. CASE JudgePass
  <2>1. ~needsReset /\ lossReal' \in BOOLEAN /\ needsReset' \in BOOLEAN
    BY <1>3 DEF JudgePass
  <2>2. /\ timeout' = timeout /\ silence' = silence /\ mainSaw' = 0
        /\ mainAt' = "voltage"
    BY <1>3 DEF JudgePass
  <2>3. needsReset' => mainSaw > DisarmLimit \/ mainSaw > UnarmedLimit
    <3> HIDE DEF LossCounted, Places
    <3> QED
      BY <1>3, <2>1, Zenon DEF JudgePass
  <2>4. mainSaw > UnarmedLimit => mainSaw > DisarmLimit
    OBVIOUS
  <2>5. needsReset' => lossReal'
    BY <1>3, <2>3, <2>4 DEF JudgePass
  <2> QED
    BY <2>1, <2>2, <2>5
<1>4. CASE VoltagePass
  BY <1>4 DEF VoltagePass, frameVars
<1>5. CASE Restart
  <2>1. ~needsReset' /\ needsReset' \in BOOLEAN /\ lossReal' \in BOOLEAN
    BY <1>5 DEF Restart
  <2>2. timeout' = 0 /\ silence' = 0 /\ mainSaw' = 0 /\ mainAt' = "input"
    BY <1>5 DEF Restart
  <2> QED
    BY <2>1, <2>2
<1> QED
  BY <1>1, <1>2, <1>3, <1>4, <1>5 DEF GuardMain

\* Every step preserves it.
LEMMA LossCountedNext == LossCounted /\ [GuardNext]_guardVars => LossCounted'
<1> SUFFICES ASSUME LossCounted, [GuardNext]_guardVars PROVE LossCounted'
  OBVIOUS
<1>1. CASE UNCHANGED guardVars
  BY <1>1 DEF LossCounted, guardVars, frameVars, judgeVars
<1> QED
  BY <1>1, FramePreserves, TickPreserves, MainPreserves DEF GuardNext

\* The count of the tick, the read of the main loop and the reset agree with the
\* silence on the wire, whatever preempts what.
THEOREM GuardInvariant == GuardSpec => []LossCounted
BY LossCountedInit, LossCountedNext, PTL DEF GuardSpec

\* The controller is not reset under a pilot whose frames keep coming: the increment
\* of the tick and the stale read of the main loop never make a loss out of less
\* than SIGNAL_TIMEOUT_DISARM ticks without a frame (isr_logic.rs, main_state.rs).
THEOREM NoFalseReset == GuardSpec => []NoFalseLoss
<1>1. LossCounted => NoFalseLoss
  BY DEF LossCounted, NoFalseLoss
<1> QED
  BY <1>1, GuardInvariant, PTL

------------------------------------------------------------------------------
(* Remainders *)

\* The remainder under a name of its own, for lemmas to be instantiated at it.
Remainder(n, k) == n % k

\* The quotient and the remainder of a division are the only ones.
LEMMA ModIs ==
  ASSUME NEW n \in Int, NEW k \in Nat \ {0}, NEW q \in Int, NEW r \in 0 .. k - 1,
         n = k * q + r
  PROVE  n % k = r
<1>1. n % k \in 0 .. k - 1 /\ n \div k \in Int /\ n = k * (n \div k) + (n % k)
  OBVIOUS
<1>2. CASE q = n \div k
  BY <1>1, <1>2
<1>3. CASE q < n \div k
  <2>1. (n \div k) - q >= 1
    BY <1>1, <1>3
  <2>2. k * ((n \div k) - q) >= k
    BY <1>1, <2>1
  <2>3. k * ((n \div k) - q) = k * (n \div k) - k * q
    BY <1>1
  <2> QED
    BY <1>1, <2>2, <2>3
<1>4. CASE n \div k < q
  <2>1. q - (n \div k) >= 1
    BY <1>1, <1>4
  <2>2. k * (q - (n \div k)) >= k
    BY <1>1, <2>1
  <2>3. k * (q - (n \div k)) = k * q - k * (n \div k)
    BY <1>1
  <2> QED
    BY <1>1, <2>2, <2>3
<1> QED
  BY <1>1, <1>2, <1>3, <1>4

\* The remainder of a number less than one modulus away.
LEMMA ModNear ==
  ASSUME NEW k \in Nat \ {0}, NEW n \in Int, -k <= n, n < 2 * k
  PROVE  Remainder(n, k) = IF n < 0 THEN n + k ELSE IF n < k THEN n ELSE n - k
<1>1. CASE n < 0
  BY <1>1, n = k * (-1) + (n + k), n + k \in 0 .. k - 1, ModIs DEF Remainder
<1>2. CASE 0 <= n /\ n < k
  BY <1>2, n = k * 0 + n, n \in 0 .. k - 1, ModIs DEF Remainder
<1>3. CASE k <= n
  BY <1>3, n = k * 1 + (n - k), n - k \in 0 .. k - 1, ModIs DEF Remainder
<1> QED
  BY <1>1, <1>2, <1>3

\* Remainders of sums.
LEMMA ModSum ==
  ASSUME NEW k \in Nat \ {0}, NEW b \in Int, NEW s \in Int, NEW t \in Int,
         s - Remainder(b, k) = t - b
  PROVE  Remainder(t, k) = Remainder(s, k)
<1> DEFINE r == b % k
           q == b \div k
           u == s % k
           p == s \div k
<1>1. r \in 0 .. k - 1 /\ q \in Int /\ b = k * q + r
  OBVIOUS
<1>2. s - r = t - b
  BY DEF Remainder
<1> HIDE DEF r, q
<1>3. u \in 0 .. k - 1 /\ p \in Int /\ s = k * p + u
  OBVIOUS
<1> HIDE DEF u, p
<1>4. t = k * (p + q) + u
  <2>1. k * (p + q) = k * p + k * q
    BY <1>1, <1>3
  <2> QED
    BY <1>1, <1>2, <1>3, <2>1
<1>5. t % k = u
  <2> DEFINE w == p + q
  <2>1. w \in Int /\ t = k * w + u
    BY <1>1, <1>3, <1>4
  <2> HIDE DEF w
  <2> QED
    BY <1>3, <2>1, ModIs
<1> QED
  BY <1>5 DEF u, Remainder

------------------------------------------------------------------------------
(* The periodic services *)

\* Ticks that the main loop has not accounted for.
Owed == IF seen = -1 THEN 0 ELSE Elapsed

ServicesTypes ==
  /\ clock \in 0 .. ClockMod - 1 /\ seen \in -1 .. ClockMod - 1
  /\ kiloHertz \in 0 .. CounterLimit /\ sinceMeasured \in Nat
  /\ ledPhase \in 0 .. 2 * LedHalf - 1 /\ total \in 0 .. 2 * LedHalf - 1
  /\ charge \in 0 .. FullCharge /\ drawn \in 0 .. FullCharge /\ current \in Int

\* What main has accounted for and what it owes make up the history.
OwedAccounts ==
  /\ total = (ledPhase + Owed) % (2 * LedHalf)
  /\ drawn = Clamp(charge + Owed * Larger(current, 0), 0, FullCharge)
  /\ sinceMeasured = IF kiloHertz >= PerMeasure THEN PerMeasure ELSE kiloHertz

AccountsStand == ServicesTypes /\ OwedAccounts

\* The clock's modulus, the LED's period and the limits are numbers.
LEMMA ServicesConstants ==
  /\ ClockMod \in Nat \ {0, 1} /\ LedHalf \in Nat \ {0} /\ 2 * LedHalf \in Nat \ {0}
  /\ PerMeasure \in Nat \ {0} /\ CounterLimit \in Nat /\ CounterLimit >= PerMeasure
  /\ FullCharge \in Nat /\ Currents \subseteq Int
BY ServicesAssumption DEF ServicesAssumption

\* What is owed is less than a turn of the clock.
LEMMA OwedRange ==
  ASSUME ServicesTypes
  PROVE  Owed \in 0 .. ClockMod - 1
<1>1. CASE seen = -1
  BY <1>1, ServicesConstants DEF Owed
<1>2. CASE seen # -1
  <2>1. clock - seen \in Int
    BY <1>2 DEF ServicesTypes
  <2> QED
    BY <1>2, <2>1, ServicesConstants DEF Owed, Elapsed
<1> QED
  BY <1>1, <1>2

\* At the start nothing is owed.
LEMMA AccountsStandInit == ServicesInit => AccountsStand
<1> SUFFICES ASSUME ServicesInit PROVE AccountsStand
  OBVIOUS
<1>1. Owed = 0 /\ 0 % (2 * LedHalf) = 0
  <2>1. 0 % (2 * LedHalf) = 0
    BY ServicesConstants, ModNear DEF Remainder
  <2> QED
    BY <2>1 DEF ServicesInit, Owed
<1>2. clock \in 0 .. ClockMod - 1
  BY ServicesConstants DEF ServicesInit
<1> QED
  BY <1>1, <1>2, ServicesConstants
  DEF ServicesInit, AccountsStand, ServicesTypes, OwedAccounts, Clamp, Larger

\* A tick owes one more, unless main has not come round yet.
LEMMA TickOwes ==
  ASSUME AccountsStand, InTime, ClockTick
  PROVE  Owed' = (IF seen = -1 THEN 0 ELSE Owed + 1) /\ clock' \in 0 .. ClockMod - 1
<1>1. /\ clock \in 0 .. ClockMod - 1 /\ seen \in -1 .. ClockMod - 1 /\ seen' = seen
      /\ clock' = (clock + 1) % ClockMod /\ ClockMod \in Nat \ {0, 1}
  BY ServicesConstants DEF AccountsStand, ServicesTypes, ClockTick, measureVars
<1>2. clock' = IF clock + 1 < ClockMod THEN clock + 1 ELSE clock + 1 - ClockMod
  <2> DEFINE n == clock + 1
  <2>1. n \in Int /\ ClockMod \in Nat \ {0} /\ -ClockMod <= n /\ n < 2 * ClockMod /\ 0 <= n
    BY <1>1
  <2> HIDE DEF n
  <2>2. Remainder(n, ClockMod) = IF n < ClockMod THEN n ELSE n - ClockMod
    BY <2>1, ModNear
  <2> QED
    BY <1>1, <2>2 DEF n, Remainder
<1>3. clock' \in 0 .. ClockMod - 1
  BY <1>1, <1>2
<1>4. CASE seen = -1
  BY <1>1, <1>3, <1>4 DEF Owed
<1>5. CASE seen # -1
  <2>1. (clock - seen) % ClockMod = IF clock < seen THEN clock - seen + ClockMod ELSE clock - seen
    <3> DEFINE n == clock - seen
    <3>1. n \in Int /\ ClockMod \in Nat \ {0} /\ -ClockMod <= n /\ n < ClockMod
      BY <1>1, <1>5
    <3>2. n < 0 <=> clock < seen
      BY <1>1, <1>5
    <3> HIDE DEF n
    <3>3. Remainder(n, ClockMod) = IF n < 0 THEN n + ClockMod ELSE n
      BY <3>1, ModNear
    <3> QED
      BY <3>2, <3>3 DEF n, Remainder
  <2>2. (clock' - seen) % ClockMod = IF clock' < seen THEN clock' - seen + ClockMod ELSE clock' - seen
    <3> DEFINE n == clock' - seen
    <3>1. n \in Int /\ ClockMod \in Nat \ {0} /\ -ClockMod <= n /\ n < ClockMod
      BY <1>1, <1>3, <1>5
    <3>2. n < 0 <=> clock' < seen
      BY <1>1, <1>3, <1>5
    <3> HIDE DEF n
    <3>3. Remainder(n, ClockMod) = IF n < 0 THEN n + ClockMod ELSE n
      BY <3>1, ModNear
    <3> QED
      BY <3>2, <3>3 DEF n, Remainder
  <2>3. clock + 1 - seen # ClockMod /\ clock + 1 - seen # 0
    <3>1. (clock + 1 - seen) % ClockMod # 0
      BY <1>5 DEF InTime
    <3>2. ClockMod % ClockMod = 0 /\ 0 % ClockMod = 0
      BY <1>1, ModNear DEF Remainder
    <3> QED
      BY <3>1, <3>2
  <2>4. Owed = (clock - seen) % ClockMod /\ Owed' = (clock' - seen) % ClockMod
    BY <1>1, <1>5 DEF Owed, Elapsed
  <2> QED
    BY <1>1, <1>2, <1>3, <1>5, <2>1, <2>2, <2>3, <2>4
<1> QED
  BY <1>4, <1>5

\* A tick adds to the history what the services will owe.
LEMMA TickAccounts ==
  ASSUME AccountsStand, InTime, ClockTick
  PROVE  AccountsStand'
<1> DEFINE l == Larger(current, 0)
           k == 2 * LedHalf
<1>1. ServicesTypes /\ OwedAccounts
  BY DEF AccountsStand
<1>2. /\ UNCHANGED <<seen, ledPhase, charge, current>>
      /\ kiloHertz' = Saturated(kiloHertz, CounterLimit)
      /\ sinceMeasured' = Saturated(sinceMeasured, PerMeasure)
      /\ IF seen = -1 THEN UNCHANGED <<total, drawn>>
         ELSE total' = (total + 1) % k /\ drawn' = Clamp(drawn + l, 0, FullCharge)
  BY DEF ClockTick, measureVars
<1>3. /\ clock' \in 0 .. ClockMod - 1 /\ Owed' = IF seen = -1 THEN 0 ELSE Owed + 1
      /\ Owed \in Nat /\ (seen = -1 => Owed = 0)
  <2>1. Owed \in Nat
    BY <1>1, OwedRange, ServicesConstants
  <2>2. seen = -1 => Owed = 0
    BY DEF Owed
  <2> QED
    BY <2>1, <2>2, TickOwes
<1>4. /\ kiloHertz' \in 0 .. CounterLimit /\ sinceMeasured' \in Nat
      /\ sinceMeasured' = IF kiloHertz' >= PerMeasure THEN PerMeasure ELSE kiloHertz'
  BY <1>1, <1>2, ServicesConstants DEF ServicesTypes, OwedAccounts, Saturated
<1>5. total' \in 0 .. k - 1 /\ total' = (ledPhase + Owed') % k
  <2>1. CASE seen = -1
    BY <1>1, <1>2, <1>3, <2>1 DEF ServicesTypes, OwedAccounts
  <2>2. CASE seen # -1
    <3>1. k \in Nat \ {0} /\ ledPhase \in Int /\ total \in Int
      BY <1>1, ServicesConstants DEF ServicesTypes
    <3>2. total' = (1 + ((ledPhase + Owed) % k)) % k
      BY <1>1, <1>2, <2>2, <3>1 DEF OwedAccounts
    <3> HIDE DEF k
    <3>3. (1 + ((ledPhase + Owed) % k)) % k = (1 + (ledPhase + Owed)) % k
      <4> DEFINE n == ledPhase + Owed
                 t == 1 + n
                 s == 1 + (n % k)
      <4>1. n \in Int /\ t \in Int /\ s \in Int /\ s - Remainder(n, k) = t - n
        BY <1>3, <3>1 DEF Remainder
      <4> HIDE DEF n, s, t
      <4>2. Remainder(t, k) = Remainder(s, k)
        BY <3>1, <4>1, ModSum
      <4> QED
        BY <4>2 DEF n, s, t, Remainder
    <3>4. 1 + (ledPhase + Owed) = ledPhase + Owed'
      BY <1>3, <2>2, <3>1
    <3>5. (ledPhase + Owed') % k \in 0 .. k - 1
      BY <1>3, <2>2, <3>1
    <3> QED
      BY <3>2, <3>3, <3>4, <3>5
  <2> QED
    BY <2>1, <2>2
<1>6. /\ drawn' \in 0 .. FullCharge
      /\ drawn' = Clamp(charge + Owed' * l, 0, FullCharge)
  <2>1. CASE seen = -1
    BY <1>1, <1>2, <1>3, <2>1 DEF ServicesTypes, OwedAccounts
  <2>2. CASE seen # -1
    <3>1. l \in Nat /\ charge \in Nat /\ FullCharge \in Nat
      BY <1>1, ServicesConstants DEF ServicesTypes, Larger
    <3>2. drawn' = Clamp(Clamp(charge + Owed * l, 0, FullCharge) + l, 0, FullCharge)
      BY <1>1, <1>2, <2>2 DEF OwedAccounts
    <3> HIDE DEF l
    <3>3. drawn' = Clamp(charge + (Owed + 1) * l, 0, FullCharge)
      <4> DEFINE p == Owed * l
      <4>1. p \in Nat /\ (Owed + 1) * l = p + l
        BY <1>3, <3>1
      <4>2. drawn' = Clamp(Clamp(charge + p, 0, FullCharge) + l, 0, FullCharge)
        BY <3>2
      <4> HIDE DEF p
      <4>3. drawn' = Clamp(charge + (p + l), 0, FullCharge)
        BY <3>1, <4>1, <4>2 DEF Clamp
      <4> QED
        BY <4>1, <4>3
    <3>4. (Owed + 1) * l \in Nat
      BY <1>3, <3>1
    <3>5. drawn' \in 0 .. FullCharge
      BY <3>1, <3>3, <3>4 DEF Clamp
    <3> QED
      BY <1>3, <2>2, <3>3, <3>5
  <2> QED
    BY <2>1, <2>2
<1>7. ServicesTypes'
  BY <1>1, <1>2, <1>3, <1>4, <1>5, <1>6 DEF ServicesTypes
<1>8. OwedAccounts'
  BY <1>2, <1>4, <1>5, <1>6 DEF OwedAccounts
<1> QED
  BY <1>7, <1>8 DEF AccountsStand

\* A pass pays what is owed: the charge and the LED are those of the history.
LEMMA PassPays ==
  ASSUME AccountsStand, MainPassServices
  PROVE  /\ charge' = drawn /\ ledPhase' = total
         /\ kiloHertz >= PerMeasure => sinceMeasured >= PerMeasure
<1> DEFINE l == Larger(current, 0)
           k == 2 * LedHalf
<1>1. ServicesTypes /\ OwedAccounts
  BY DEF AccountsStand
<1>2. charge' = ChargeAfter(Owed) /\ ledPhase' = LedAfter(Owed)
  BY DEF MainPassServices, Owed
<1>3. Owed \in Nat
  BY <1>1, OwedRange, ServicesConstants
<1>4. charge' = drawn
  <2>1. /\ current \in Int /\ charge \in 0 .. FullCharge /\ FullCharge \in Nat
        /\ drawn = Clamp(charge + Owed * l, 0, FullCharge)
    BY <1>1, ServicesConstants DEF ServicesTypes, OwedAccounts
  <2>2. CASE Owed = 0 \/ current <= 0
    <3>1. Owed * l = 0 /\ charge' = charge
      BY <1>2, <1>3, <2>1, <2>2 DEF ChargeAfter, Larger
    <3> QED
      BY <2>1, <3>1 DEF Clamp
  <2>3. CASE Owed # 0 /\ current > 0
    <3>1. l = current /\ Owed * l \in Nat /\ current * Owed = Owed * l
      BY <1>3, <2>1, <2>3 DEF Larger
    <3>2. charge' = IF charge = FullCharge THEN charge ELSE Clamp(charge + Owed * l, 0, FullCharge)
      BY <1>2, <2>1, <2>3, <3>1 DEF ChargeAfter
    <3> QED
      BY <2>1, <3>1, <3>2 DEF Clamp
  <2> QED
    BY <1>3, <2>1, <2>2, <2>3
<1>5. ledPhase' = total
  <2>1. /\ k \in Nat \ {0} /\ ledPhase \in 0 .. k - 1 /\ total = (ledPhase + Owed) % k
    BY <1>1, ServicesConstants DEF ServicesTypes, OwedAccounts
  <2>2. Owed % k \in 0 .. k - 1
    BY <1>3, <2>1
  <2>3. ledPhase' = IF ledPhase + (Owed % k) >= k THEN ledPhase + (Owed % k) - k
                                                  ELSE ledPhase + (Owed % k)
    <3>1. ledPhase' = LedAfter(Owed)
      BY <1>2
    <3> QED
      BY <1>3, <2>1, <2>2, <3>1 DEF LedAfter
  <2> HIDE DEF k
  <2>4. (ledPhase + (Owed % k)) % k = (ledPhase + Owed) % k
    <3> DEFINE s == ledPhase + (Owed % k)
               t == ledPhase + Owed
    <3>1. s \in Int /\ t \in Int /\ Owed \in Int /\ s - Remainder(Owed, k) = t - Owed
      BY <1>3, <2>1, <2>2 DEF Remainder
    <3> HIDE DEF s, t
    <3>2. Remainder(t, k) = Remainder(s, k)
      BY <2>1, <3>1, ModSum
    <3> QED
      BY <3>2 DEF s, t, Remainder
  <2>5. (ledPhase + (Owed % k)) % k = ledPhase'
    BY <2>1, <2>2, <2>3, ModNear DEF Remainder
  <2> QED
    BY <2>1, <2>4, <2>5
<1>6. kiloHertz >= PerMeasure => sinceMeasured >= PerMeasure
  BY <1>1, ServicesConstants DEF OwedAccounts
<1> QED
  BY <1>4, <1>5, <1>6

\* After it nothing is owed.
LEMMA PassAccounts ==
  ASSUME AccountsStand, MainPassServices
  PROVE  AccountsStand'
<1>1. ServicesTypes /\ OwedAccounts
  BY DEF AccountsStand
<1>2. charge' = drawn /\ ledPhase' = total
  BY PassPays
<1>3. /\ seen' = clock /\ UNCHANGED <<clock, total, drawn>>
      /\ \/ kiloHertz >= PerMeasure /\ kiloHertz' = 0 /\ sinceMeasured' = 0 /\ current' \in Currents
         \/ UNCHANGED <<kiloHertz, sinceMeasured, current>>
  BY DEF MainPassServices, Measure
<1>4. /\ clock \in 0 .. ClockMod - 1 /\ total \in 0 .. 2 * LedHalf - 1
      /\ drawn \in 0 .. FullCharge /\ current \in Int /\ kiloHertz \in 0 .. CounterLimit
      /\ sinceMeasured \in Nat
  BY <1>1 DEF ServicesTypes
<1>5. Owed' = 0
  <2>1. 0 % ClockMod = 0
    BY ServicesConstants, ModNear DEF Remainder
  <2> QED
    BY <1>3, <1>4, <2>1 DEF Owed, Elapsed
<1>6. current' \in Int
  BY <1>3, <1>4, ServicesConstants
<1>7. (total + 0) % (2 * LedHalf) = total
  BY <1>4, ServicesConstants, ModNear DEF Remainder
<1>8. Clamp(drawn + 0 * Larger(current', 0), 0, FullCharge) = drawn
  <2>1. Larger(current', 0) \in Int
    BY <1>6 DEF Larger
  <2>2. drawn + 0 * Larger(current', 0) = drawn
    BY <1>4, <2>1, ServicesConstants
  <2> QED
    BY <1>4, <2>2, ServicesConstants DEF Clamp
<1>9. ServicesTypes'
  BY <1>2, <1>3, <1>4, <1>6, ServicesConstants DEF ServicesTypes
<1>10. OwedAccounts'
  <2>1. sinceMeasured' = IF kiloHertz' >= PerMeasure THEN PerMeasure ELSE kiloHertz'
    BY <1>1, <1>3, ServicesConstants DEF OwedAccounts
  <2> QED
    BY <1>2, <1>3, <1>5, <1>7, <1>8, <2>1 DEF OwedAccounts
<1> QED
  BY <1>9, <1>10 DEF AccountsStand

\* What main has accounted for and what it still owes make up the ticks that were, in
\* every state (MainState::tick, ConsumedCharge::accumulate).
THEOREM ServicesInvariant == ServicesSpec => []AccountsStand
<1>1. AccountsStand /\ [ServicesNext]_serviceVars => AccountsStand'
  <2> SUFFICES ASSUME AccountsStand, [ServicesNext]_serviceVars PROVE AccountsStand'
    OBVIOUS
  <2>1. CASE InTime /\ ClockTick
    BY <2>1, TickAccounts
  <2>2. CASE MainPassServices
    BY <2>2, PassAccounts
  <2>3. CASE UNCHANGED serviceVars
    <3>1. Owed' = Owed
      BY <2>3 DEF serviceVars, clockVars, measureVars, Owed, Elapsed
    <3> QED
      BY <2>3, <3>1
      DEF serviceVars, clockVars, measureVars, clockHistory, AccountsStand, ServicesTypes, OwedAccounts
  <2> QED
    BY <2>1, <2>2, <2>3 DEF ServicesNext
<1> QED
  BY <1>1, AccountsStandInit, PTL DEF ServicesSpec

\* However late the main loop is and wherever the clock wraps, charge and LED account
\* for every tick once, and measurements keep their distance (MainState::tick).
THEOREM TicksAccounted == ServicesSpec => ClockAccounts
<1>1. AccountsStand => [MainPassServices =>
         /\ charge' = drawn /\ ledPhase' = total
         /\ current' # current => sinceMeasured >= PerMeasure]_serviceVars
  <2> SUFFICES ASSUME AccountsStand, MainPassServices
               PROVE  /\ charge' = drawn /\ ledPhase' = total
                      /\ current' # current => sinceMeasured >= PerMeasure
    OBVIOUS
  <2>1. current' # current => kiloHertz >= PerMeasure
    BY DEF MainPassServices, Measure
  <2> QED
    BY <2>1, PassPays
<1> QED
  BY <1>1, ServicesInvariant, PTL DEF ServicesSpec, ClockAccounts
==============================================================================
