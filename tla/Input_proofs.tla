----------------------------- MODULE Input_proofs -----------------------------
(***************************************************************************)
(* What the stick asks for.                                                *)
(*                                                                         *)
(* The two safety properties of the direction, for all sticks, input       *)
(* modes, settings and interleavings of frames, ticks and the main loop:   *)
(* a throttle goes with the direction of its stick, and a turning motor    *)
(* is turned round only when the discipline of its mode has allowed it.    *)
(*                                                                         *)
(* The calibration of a servo input, for all positions of the stick: what  *)
(* it saves covers the travel it was shown.                                *)
(***************************************************************************)
EXTENDS Direction, ServoInput, Numeric_proofs

--------------------------------------------------------------------------------
(* The direction *)

\* The direction that the stick as last read stands for.
Want == Wanted(Side(seen), mainRev)

DirTypes ==
  /\ inRev \in BOOLEAN /\ mainRev \in BOOLEAN /\ cmdForward \in BOOLEAN
  /\ shForward \in BOOLEAN /\ comForward \in BOOLEAN /\ flipTo \in BOOLEAN /\ result.reverse \in BOOLEAN
  /\ commanded \in BOOLEAN /\ returned \in BOOLEAN
  /\ granted \in BOOLEAN /\ overwritten \in BOOLEAN /\ released \in BOOLEAN

\* Unless a command frame came since the stick was read, each step of process_input
\* finds the direction that the mapping saw, and leaves the one that the stick asks for.
StickStands ==
  Bidirectional /\ ~commanded =>
    /\ dpc = "publish" /\ result.reverse => ~(shForward <=> Want)
    /\ dpc = "publish" /\ ~result.reverse /\ result.adjusted # 0 => (shForward <=> Want)
    /\ dpc = "load" => ~(shForward <=> Want)
    /\ dpc = "store" => (flipTo <=> Want)
    /\ dpc \in {"finish", "sync"} /\ adjusted # 0 => (shForward <=> Want)

\* A pending reversal has been granted: on an RC car by the handshake, which no
\* reversal outlives, ...
HandshakeStands ==
  /\ dpc \in {"load", "store"} => result.reverse
  /\ returned => IsRcCar(inputMode)
  /\ returned => released \/ (dpc = "finish" /\ result.reverse)

\* ... and from the mapping until the tick has taken it.
GrantStands ==
  /\ dpc \in {"publish", "load", "store"} /\ result.reverse => granted
  /\ motor # "stopped" /\ ~(shForward <=> comForward) => granted \/ overwritten

DirStands == DirTypes /\ StickStands /\ HandshakeStands /\ GrantStands

------------------------------------------------------------------------------
(* The mapping *)

\* A result that reverses does so against the direction, granted by the gate or the
\* handshake; one that drives goes with it.
LEMMA SpeedGatedResult ==
  ASSUME NEW side, NEW amount, NEW forward \in BOOLEAN, NEW want \in BOOLEAN,
         NEW can \in BOOLEAN, NEW r, r = SpeedGated(side, amount, forward, want, can)
  PROVE  /\ r.reverse \in BOOLEAN
         /\ r.reverse => can /\ ~(forward <=> want)
         /\ ~r.reverse /\ r.adjusted # 0 => (forward <=> want)
<1>1. CASE side = "center" \/ (~(forward <=> want) /\ ~can)
  BY <1>1 DEF SpeedGated, Idle, Result
<1>2. CASE side # "center" /\ (forward <=> want)
  BY <1>2 DEF SpeedGated, Drive, Result
<1>3. CASE side # "center" /\ ~(forward <=> want) /\ can
  BY <1>3 DEF SpeedGated, Turn, Result
<1> QED
  BY <1>1, <1>2, <1>3

\* What the rc-car mapping makes of a stick.
LEMMA RcCarResult ==
  ASSUME NEW side, NEW amount, NEW forward \in BOOLEAN, NEW want \in BOOLEAN,
         NEW brakes, NEW back \in BOOLEAN, NEW r,
         r = RcCar(side, amount, forward, want, brakes, back)
  PROVE  /\ r.reverse \in BOOLEAN
         /\ r.reverse => back /\ ~(forward <=> want)
         /\ ~r.reverse /\ r.adjusted # 0 => (forward <=> want)
<1>1. CASE side = "center"
  BY <1>1 DEF RcCar, Idle, Result
<1>2. CASE side # "center" /\ (forward <=> want)
  BY <1>2 DEF RcCar, Drive, Brake, Result
<1>3. CASE side # "center" /\ ~(forward <=> want) /\ back
  BY <1>3 DEF RcCar, Turn, Result
<1>4. CASE side # "center" /\ ~(forward <=> want) /\ ~back
  BY <1>4 DEF RcCar, Brake, Result
<1> QED
  BY <1>1, <1>2, <1>3, <1>4

\* The wanted direction is a flag.
LEMMA WantIsBoolean ==
  ASSUME NEW side, NEW reversed \in BOOLEAN
  PROVE  Wanted(side, reversed) \in BOOLEAN
BY DEF Wanted

\* What process_input maps a stick to.
LEMMA MappedResult ==
  ASSUME DirTypes, NEW n, NEW r, r = Mapped(n)
  PROVE  /\ r.reverse \in BOOLEAN
         /\ r.reverse => /\ Bidirectional /\ ~(shForward <=> Wanted(Side(n), mainRev))
                         /\ IsRcCar(inputMode) => returned
                         /\ ~IsRcCar(inputMode) => motor # "fast"
         /\ Bidirectional /\ ~r.reverse /\ r.adjusted # 0 =>
              (shForward <=> Wanted(Side(n), mainRev))
<1> DEFINE w == Wanted(Side(n), mainRev)
           gate == motor # "fast"
<1>b. w \in BOOLEAN /\ shForward \in BOOLEAN /\ returned \in BOOLEAN /\ gate \in BOOLEAN
  BY WantIsBoolean DEF DirTypes
<1> HIDE DEF w, gate
<1>1. CASE ~Bidirectional
  <2>1. r = Drive(n)
    BY <1>1 DEF Mapped
  <2> QED
    BY <1>1, <2>1 DEF Drive, Result
<1>2. CASE Bidirectional /\ IsRcCar(inputMode)
  <2>1. r = RcCar(Side(n), Amount(n), shForward, w, braking, returned)
    BY <1>2 DEF Mapped, w
  <2>2. /\ r.reverse \in BOOLEAN
        /\ r.reverse => returned /\ ~(shForward <=> w)
        /\ ~r.reverse /\ r.adjusted # 0 => (shForward <=> w)
    BY <2>1, <1>b, RcCarResult
  <2> QED
    BY <1>2, <2>2 DEF w
<1>3. CASE Bidirectional /\ ~IsRcCar(inputMode)
  <2>1. r = SpeedGated(Side(n), Amount(n), shForward, w, gate)
    BY <1>3 DEF Mapped, w, gate
  <2>2. /\ r.reverse \in BOOLEAN
        /\ r.reverse => gate /\ ~(shForward <=> w)
        /\ ~r.reverse /\ r.adjusted # 0 => (shForward <=> w)
    BY <2>1, <1>b, SpeedGatedResult
  <2> QED
    BY <1>3, <2>2 DEF w, gate
<1> QED
  BY <1>1, <1>2, <1>3

------------------------------------------------------------------------------
(* Steps *)

\* The motor starts still, with no handshake.
LEMMA DirStandsInit == DirInit => DirStands
<1> SUFFICES ASSUME DirInit PROVE DirStands
  OBVIOUS
<1>1. result.reverse = FALSE
  BY DEF DirInit, Idle, Result
<1>2. DirTypes
  BY <1>1 DEF DirInit, DirTypes
<1>3. StickStands
  BY DEF DirInit, StickStands
<1>4. HandshakeStands
  BY DEF DirInit, HandshakeStands
<1>5. GrantStands
  BY DEF DirInit, GrantStands
<1> QED
  BY <1>2, <1>3, <1>4, <1>5 DEF DirStands

\* The handshake at the end of process_input: it begins at center, with what is released
\* there, and a reversal ends it.
LEMMA Finishes ==
  ASSUME DirTypes, FinishInput
  PROVE  /\ returned' \in BOOLEAN /\ released' \in BOOLEAN /\ ~result'.reverse
         /\ dpc = "finish" /\ dpc' = "sync" /\ result'.reverse \in BOOLEAN
         /\ adjusted' = adjusted \/ adjusted' = 0
         /\ returned' => (IsRcCar(inputMode) /\ released') \/ (returned /\ ~(IsRcCar(inputMode) /\ result.reverse))
         /\ released => released'
         /\ flipTo' = TRUE
         /\ UNCHANGED <<cfgVars, inputVars, seen, shForward, comForward, motor, granted,
                        commanded, overwritten, directed>>
<1>t. returned \in BOOLEAN /\ released \in BOOLEAN /\ result.reverse \in BOOLEAN
  BY DEF DirTypes
<1>1. result' = Idle /\ flipTo' = TRUE /\ dpc = "finish" /\ dpc' = "sync"
  BY DEF FinishInput
<1>2. result'.reverse = FALSE
  BY <1>1 DEF Idle, Result
<1> DEFINE pulled == braking \/ (IsRcCar(inputMode) /\ result.brake)
           center == InCenter(seen) /\ pulled
<1>3. returned' = IF IsRcCar(inputMode) THEN Handshake(pulled) ELSE returned
  BY DEF FinishInput
<1>4. released' = (released \/ (IsRcCar(inputMode) /\ center))
  BY DEF FinishInput
<1>5. adjusted' = adjusted \/ adjusted' = 0
  BY DEF FinishInput
<1>6. UNCHANGED <<cfgVars, inputVars, seen, shForward, comForward, motor, granted,
                  commanded, overwritten, directed>>
  BY DEF FinishInput
<1>7. Handshake(pulled) = (center \/ (returned /\ ~result.reverse))
  BY <1>t DEF Handshake
<1> HIDE DEF pulled, center
<1>8. returned' \in BOOLEAN /\ released' \in BOOLEAN
  BY <1>3, <1>4, <1>7, <1>t
<1>9. returned' => (IsRcCar(inputMode) /\ released')
                     \/ (returned /\ ~(IsRcCar(inputMode) /\ result.reverse))
  BY <1>3, <1>4, <1>7, <1>t
<1>10. released => released'
  BY <1>4, <1>t
<1> QED
  BY <1>1, <1>2, <1>5, <1>6, <1>8, <1>9, <1>10

\* Each step keeps the flags' types.
LEMMA TypesNext == DirTypes /\ [DirNext]_dirVars => DirTypes'
<1> SUFFICES ASSUME DirTypes, [DirNext]_dirVars PROVE DirTypes'
  OBVIOUS
<1> USE DEF DirTypes, cfgVars, inputVars, mainVars, ghostVars
<1>1. CASE CommandFrame
  BY <1>1 DEF CommandFrame, Direct
<1>2. CASE \E n \in Sticks : StickFrame(n)
  BY <1>2 DEF StickFrame
<1>3. CASE SyncDirection
  BY <1>3 DEF SyncDirection
<1>4. CASE ReadStick
  BY <1>4 DEF ReadStick
<1>5. CASE MapStick
  <2>1. result' = Mapped(seen) /\ dpc' = "publish"
    BY <1>5 DEF MapStick
  <2> QED
    BY <1>5, <2>1, MappedResult DEF MapStick
<1>6. CASE PublishThrottle
  BY <1>6 DEF PublishThrottle
<1>7. CASE LoadForward
  BY <1>7 DEF LoadForward
<1>8. CASE StoreForward
  BY <1>8 DEF StoreForward
<1>9. CASE FinishInput
  BY <1>9, Finishes
<1>10. CASE DirectionTick
  BY <1>10 DEF DirectionTick
<1>11. CASE SpeedUp \/ Coast \/ UNCHANGED dirVars
  BY <1>11 DEF SpeedUp, Coast, dirVars
<1> QED
  BY <1>1, <1>2, <1>3, <1>4, <1>5, <1>6, <1>7, <1>8, <1>9, <1>10, <1>11 DEF DirNext, Frames, MainInput

\* process_input goes on from the direction that its mapping saw.
LEMMA StickNext == DirTypes /\ StickStands /\ [DirNext]_dirVars => StickStands'
<1> SUFFICES ASSUME DirTypes, StickStands, [DirNext]_dirVars PROVE StickStands'
  OBVIOUS
<1> USE DEF DirTypes, StickStands, cfgVars, inputVars, mainVars, ghostVars
<1>w. UNCHANGED <<inputMode, mainRev, seen>> => Want' = Want
  BY DEF Want, Side
<1>1. CASE CommandFrame
  BY <1>1, <1>w DEF CommandFrame, Direct, Bidirectional
<1>2. CASE \E n \in Sticks : StickFrame(n)
  BY <1>2, <1>w DEF StickFrame, Bidirectional
<1>3. CASE SyncDirection
  BY <1>3, <1>w DEF SyncDirection, Bidirectional
<1>4. CASE ReadStick
  BY <1>4, <1>w DEF ReadStick, Bidirectional
<1>5. CASE MapStick
  <2>1. result' = Mapped(seen) /\ dpc' = "publish"
    BY <1>5 DEF MapStick
  <2>2. /\ result'.reverse => ~(shForward <=> Want)
        /\ Bidirectional /\ ~result'.reverse /\ result'.adjusted # 0 => (shForward <=> Want)
    BY <2>1, MappedResult DEF Want
  <2>3. UNCHANGED <<inputMode, mainRev, seen, commanded, shForward>>
    BY <1>5 DEF MapStick
  <2> QED
    BY <2>1, <2>2, <2>3, <1>w DEF Bidirectional
<1>6. CASE PublishThrottle
  BY <1>6, <1>w DEF PublishThrottle, Bidirectional
<1>7. CASE LoadForward
  BY <1>7, <1>w DEF LoadForward, Bidirectional
<1>8. CASE StoreForward
  BY <1>8, <1>w DEF StoreForward, Bidirectional
<1>9. CASE FinishInput
  BY <1>9, <1>w, Finishes DEF Bidirectional
<1>10. CASE DirectionTick
  BY <1>10, <1>w DEF DirectionTick, Bidirectional
<1>11. CASE SpeedUp \/ Coast \/ UNCHANGED dirVars
  BY <1>11, <1>w DEF SpeedUp, Coast, dirVars, Bidirectional
<1> QED
  BY <1>1, <1>2, <1>3, <1>4, <1>5, <1>6, <1>7, <1>8, <1>9, <1>10, <1>11 DEF DirNext, Frames, MainInput

\* A reversal uses the handshake up.
LEMMA HandshakeNext == DirTypes /\ HandshakeStands /\ [DirNext]_dirVars => HandshakeStands'
<1> SUFFICES ASSUME DirTypes, HandshakeStands, [DirNext]_dirVars PROVE HandshakeStands'
  OBVIOUS
<1> USE DEF DirTypes, HandshakeStands, cfgVars, inputVars, mainVars, ghostVars
<1>1. CASE CommandFrame
  BY <1>1 DEF CommandFrame, Direct
<1>2. CASE \E n \in Sticks : StickFrame(n)
  BY <1>2 DEF StickFrame
<1>3. CASE SyncDirection
  BY <1>3 DEF SyncDirection
<1>4. CASE ReadStick
  BY <1>4 DEF ReadStick
<1>5. CASE MapStick
  <2>1. result' = Mapped(seen) /\ dpc' = "publish"
    BY <1>5 DEF MapStick
  <2> QED
    BY <1>5, <2>1, MappedResult DEF MapStick
<1>6. CASE PublishThrottle
  BY <1>6 DEF PublishThrottle
<1>7. CASE LoadForward
  BY <1>7 DEF LoadForward
<1>8. CASE StoreForward
  BY <1>8 DEF StoreForward
<1>9. CASE FinishInput
  BY <1>9, Finishes
<1>10. CASE DirectionTick
  BY <1>10 DEF DirectionTick
<1>11. CASE SpeedUp \/ Coast \/ UNCHANGED dirVars
  BY <1>11 DEF SpeedUp, Coast, dirVars
<1> QED
  BY <1>1, <1>2, <1>3, <1>4, <1>5, <1>6, <1>7, <1>8, <1>9, <1>10, <1>11 DEF DirNext, Frames, MainInput

\* A reversal is mapped once granted, and stays so until the tick has it.
LEMMA GrantNext == DirTypes /\ HandshakeStands /\ GrantStands /\ [DirNext]_dirVars => GrantStands'
<1> SUFFICES ASSUME DirTypes, HandshakeStands, GrantStands, [DirNext]_dirVars PROVE GrantStands'
  OBVIOUS
<1> USE DEF DirTypes, HandshakeStands, GrantStands, cfgVars, inputVars, mainVars, ghostVars
<1>1. CASE CommandFrame
  BY <1>1 DEF CommandFrame, Direct
<1>2. CASE \E n \in Sticks : StickFrame(n)
  BY <1>2 DEF StickFrame
<1>3. CASE SyncDirection
  BY <1>3 DEF SyncDirection
<1>4. CASE ReadStick
  BY <1>4 DEF ReadStick
<1>5. CASE MapStick
  <2>1. result' = Mapped(seen) /\ dpc' = "publish"
    BY <1>5 DEF MapStick
  <2> QED
    BY <1>5, <2>1, MappedResult DEF MapStick
<1>6. CASE PublishThrottle
  BY <1>6 DEF PublishThrottle
<1>7. CASE LoadForward
  BY <1>7 DEF LoadForward
<1>8. CASE StoreForward
  BY <1>8 DEF StoreForward
<1>9. CASE FinishInput
  BY <1>9, Finishes
<1>10. CASE DirectionTick
  BY <1>10 DEF DirectionTick
<1>11. CASE SpeedUp \/ Coast \/ UNCHANGED dirVars
  BY <1>11 DEF SpeedUp, Coast, dirVars
<1> QED
  BY <1>1, <1>2, <1>3, <1>4, <1>5, <1>6, <1>7, <1>8, <1>9, <1>10, <1>11 DEF DirNext, Frames, MainInput

\* The flags, the stick as mapped, the handshake and the granted reversal stand as above,
\* in every state (process_input, the tick).
THEOREM DirInvariant == DirSpec => []DirStands
<1>1. DirStands /\ [DirNext]_dirVars => DirStands'
  BY TypesNext, StickNext, HandshakeNext, GrantNext DEF DirStands
<1> QED
  BY DirStandsInit, <1>1, PTL DEF DirSpec

\* At the end of process_input a throttle goes with the direction of its stick.
THEOREM ThrottleWithStick == DirSpec => []ThrottleFollowsStick
<1>1. DirStands => ThrottleFollowsStick
  <2> SUFFICES ASSUME DirStands, Bidirectional, dpc \in {"finish", "sync"},
                      adjusted >= ThrottleMinSignal, ~commanded
               PROVE  shForward = Want
    BY DEF ThrottleFollowsStick, Want
  <2>1. adjusted # 0
    BY DEF ThrottleMinSignal
  <2>2. shForward <=> Want
    BY <2>1 DEF DirStands, StickStands
  <2>3. shForward \in BOOLEAN /\ Want \in BOOLEAN
    BY WantIsBoolean DEF DirStands, DirTypes, Want
  <2> QED
    BY <2>2, <2>3
<1> QED
  BY <1>1, DirInvariant, PTL

\* A turning motor changes its direction only when its mode has allowed it, or at the
\* command of a frame (process_input, apply_rc_car_result, the tick's copy).
THEOREM ReversalsGranted == DirSpec => ReversalGranted
<1>1. DirStands /\ [DirNext]_dirVars =>
        [comForward' # comForward /\ motor # "stopped" => granted \/ overwritten]_dirVars
  <2> SUFFICES ASSUME DirStands, DirNext, comForward' # comForward, motor # "stopped"
               PROVE  granted \/ overwritten
    OBVIOUS
  <2>1. DirectionTick
    BY DEF DirNext, Frames, MainInput, CommandFrame, StickFrame, SyncDirection, ReadStick,
           MapStick, PublishThrottle, LoadForward, StoreForward, FinishInput, SpeedUp, Coast
  <2>2. comForward' = shForward
    BY <2>1 DEF DirectionTick
  <2>3. ~(shForward <=> comForward)
    BY <2>2 DEF DirStands, DirTypes
  <2> QED
    BY <2>3 DEF DirStands, GrantStands
<1> QED
  BY <1>1, DirInvariant, PTL DEF DirSpec, ReversalGranted

--------------------------------------------------------------------------------
(* The stick calibration *)

Within(n, a, b) == n \in Int /\ a <= n /\ n <= b

\* The thresholds of the program or higher ones.  A stick held low between 1237 and
\* 1249 would count, but its end and the margin do not fit the byte; a stray pulse
\* below 1250 would count as the low end.
CalibrationAsDriven ==
  /\ HighCounts >= 50 /\ LowCounts >= 75
  /\ \A p \in LowHeld : ~Within(p, 1237, 1249)
  /\ \A p \in OtherPulses : ~Within(p, 801, 1249)

CountsHigh == Within(driver.high, 1850, 1950)
CountsLow  == Within(driver.low, 801, 1236)

ServoTypes ==
  /\ driver.high \in Nat /\ driver.low \in Nat
  /\ ~Within(driver.low, 1237, 1249)
  /\ low \in Int /\ high \in Int /\ lastHigh \in Int
  /\ Within(highCount, 0, 255) /\ Within(lowCount, 0, LowCounts)
  /\ required \in BOOLEAN /\ highTaken \in BOOLEAN

\* The high end approaches the stick from either side, by a part of the rest at
\* every pulse; a stick that is too far is rejected for good.
HighApproaches ==
  ~highTaken =>
    /\ savedEnds = <<>> /\ low = 1100 /\ lowCount = 0
    /\ highCount = 0 => high = 1900
    /\ highCount > 0 /\ ~CountsHigh => high = 1900 /\ lastHigh = driver.high
    /\ CountsHigh => highCount <= HighCounts
    /\ highCount > 0 /\ CountsHigh =>
         /\ lastHigh = high /\ Within(high, 1850, 1950)
         /\ high - driver.high <= 25 \/ high - driver.high <= 50 - 4 * highCount

\* The low end does too, and stays where it is when the stick does not count.
LowApproaches ==
  highTaken =>
    /\ Within(high, 1825, 1925) /\ high <= driver.high
    /\ savedEnds = <<>> /\ CountsLow =>
         /\ Within(low, 801, 1236)
         /\ driver.low - low <= 24 \/ driver.low - low <= 136 - 3 * lowCount

\* What was saved is inside the travel, and nothing is calibrated again.
SavedInside ==
  savedEnds # <<>> =>
    /\ highTaken /\ ~required /\ CountsLow
    /\ LoadedLow(savedEnds[1]) \in Int /\ driver.low <= LoadedLow(savedEnds[1])
    /\ Within(LoadedHigh(savedEnds[2]), 1824, 1925) /\ LoadedHigh(savedEnds[2]) <= driver.high

EndsStand == ServoTypes /\ HighApproaches /\ LowApproaches /\ SavedInside

\* A filtered end moves towards the pulse by an eighth of the distance, rounded down.
LEMMA FilterApproaches ==
  ASSUME NEW t \in Int, NEW p \in Int
  PROVE  /\ Filtered(t, p) \in Int
         /\ t <= p => t <= Filtered(t, p) /\ Filtered(t, p) <= p
         /\ p <= t => p <= Filtered(t, p) /\ Filtered(t, p) <= t
         /\ t - p >= 25 => Filtered(t, p) <= t - 4
         /\ p - t >= 25 => Filtered(t, p) >= t + 3
BY DEF Filtered

\* The bytes round an end down by at most one.
LEMMA BytesRound ==
  /\ \A h \in Nat : Within(h, 1750, 2261) => Within(LoadedHigh(HighByte(h)), h - 1, h)
  /\ \A l \in Nat : Within(l, 750, 1261) => Within(LoadedLow(LowByte(l)), l - 1, l)
<1> USE DEF Within
<1>1. ASSUME NEW n \in Nat, n < 512 PROVE Wrap(n, 16) = n /\ (n \div 2) % 256 = n \div 2
  <2>1. 2^16 = 65536
    OBVIOUS
  <2> QED
    BY <2>1, <1>1 DEF Wrap
<1>2. ASSUME NEW h \in Nat, Within(h, 1750, 2261) PROVE Within(LoadedHigh(HighByte(h)), h - 1, h)
  <2> DEFINE n == h - 1750
  <2>1. n \in Nat /\ n < 512
    BY <1>2
  <2>2. HighByte(h) = n \div 2
    BY <2>1, <1>1 DEF HighByte
  <2> QED
    BY <2>1, <2>2 DEF LoadedHigh
<1>3. ASSUME NEW l \in Nat, Within(l, 750, 1261) PROVE Within(LoadedLow(LowByte(l)), l - 1, l)
  <2> DEFINE n == l - 750
  <2>1. n \in Nat /\ n < 512
    BY <1>3
  <2>2. LowByte(l) = n \div 2
    BY <2>1, <1>1 DEF LowByte
  <2> QED
    BY <2>1, <2>2 DEF LoadedLow
<1> QED
  BY <1>2, <1>3

LEMMA EndsStandInit == CalibrationAsDriven /\ ServoInit => EndsStand
<1> SUFFICES ASSUME CalibrationAsDriven, ServoInit PROVE EndsStand
  OBVIOUS
<1> USE DEF Within
<1>1. HighHeld \subseteq Nat /\ LowHeld \subseteq Nat /\ HighCounts \in Nat /\ LowCounts \in Nat
  BY ServoAssumption DEF ServoAssumption
<1>2. driver.high \in Nat /\ driver.low \in Nat /\ ~Within(driver.low, 1237, 1249)
  <2>1. driver.high \in HighHeld /\ driver.low \in LowHeld
    BY DEF ServoInit
  <2>2. \A p \in LowHeld : ~Within(p, 1237, 1249)
    BY DEF CalibrationAsDriven
  <2>3. driver.high \in Nat /\ driver.low \in Nat
    BY <1>1, <2>1
  <2> DEFINE at == driver.low
  <2>4. at \in LowHeld
    BY <2>1
  <2> HIDE DEF at
  <2>5. ~Within(at, 1237, 1249)
    BY <2>2, <2>4
  <2> QED
    BY <2>3, <2>5 DEF at
<1>3. /\ low = 1100 /\ high = 1900 /\ required = FALSE /\ highTaken = FALSE
      /\ highCount = 0 /\ lowCount = 0 /\ lastHigh = 0 /\ savedEnds = <<>>
  BY DEF ServoInit
<1> QED
  <2>1. ServoTypes
    <3>1. low \in Int /\ high \in Int /\ lastHigh \in Int
      BY <1>3
    <3>3. Within(highCount, 0, 255) /\ Within(lowCount, 0, LowCounts)
      BY <1>1, <1>3
    <3>2. required \in BOOLEAN /\ highTaken \in BOOLEAN
      BY <1>3, Zenon
    <3> HIDE DEF Within
    <3> QED
      BY <1>2, <3>1, <3>2, <3>3 DEF ServoTypes
  <2>2. HighApproaches /\ LowApproaches /\ SavedInside
    BY <1>1, <1>3 DEF HighApproaches, LowApproaches, SavedInside
  <2> QED
    BY <2>1, <2>2 DEF EndsStand

LEMMA HighNext ==
  ASSUME CalibrationAsDriven, EndsStand, ~highTaken, required, CalibrateHigh(driver.high), UNCHANGED driver
  PROVE  EndsStand'
<1> DEFINE p     == driver.high
           count == Wrap(highCount + 1, 8)
           last  == IF highCount = 0 THEN p ELSE lastHigh
           next  == Filtered(high, p)
           done  == count > HighCounts
<1> USE DEF Within
<1>1. /\ p \in Nat /\ high \in Int /\ lastHigh \in Int
      /\ Within(highCount, 0, 255) /\ Within(HighCounts, 50, 254)
  BY ServoAssumption DEF EndsStand, ServoTypes, ServoAssumption, CalibrationAsDriven
<1>2. /\ savedEnds = <<>> /\ low = 1100 /\ lowCount = 0
      /\ highCount = 0 => high = 1900
      /\ highCount > 0 /\ ~CountsHigh => high = 1900 /\ lastHigh = p
      /\ CountsHigh => highCount <= HighCounts
      /\ highCount > 0 /\ CountsHigh =>
           /\ lastHigh = high /\ Within(high, 1850, 1950)
           /\ high - p <= 25 \/ high - p <= 50 - 4 * highCount
  BY DEF EndsStand, HighApproaches
<1>3. CountsHigh <=> Within(p, 1850, 1950)
  BY DEF CountsHigh
<1>4. Within(count, 0, 255) /\ (highCount < 255 => count = highCount + 1)
  <2>1. 2^8 = 256
    OBVIOUS
  <2> QED
    BY <1>1, <2>1 DEF Wrap
<1>5. /\ next \in Int
      /\ high <= p => high <= next /\ next <= p
      /\ p <= high => p <= next /\ next <= high
      /\ high - p >= 25 => next <= high - 4
  <2>1. driver.high \in Int /\ high \in Int
    BY <1>1
  <2> QED
    BY <2>1, FilterApproaches
<1>6. /\ UNCHANGED <<driver, low, lowCount, savedEnds>> /\ highCount' = count
      /\ AbsDif(last, high) > 50 =>
           required' = FALSE /\ lastHigh' = last /\ UNCHANGED <<high, highTaken>>
      /\ ~(AbsDif(last, high) > 50) =>
           /\ high' = (IF done THEN HighEnd(next) ELSE next) /\ highTaken' = done
           /\ lastHigh' = high' /\ UNCHANGED required
  BY DEF CalibrateHigh
<1>7. /\ AbsDif(last, high) > 50 <=> ~CountsHigh
      /\ ~CountsHigh => high = 1900 /\ last = p
      /\ CountsHigh => /\ Within(high, 1850, 1950)
                       /\ high - p <= 25 \/ high - p <= 50 - 4 * highCount
  <2>1. CASE highCount = 0
    BY <1>1, <1>2, <1>3, <2>1 DEF AbsDif
  <2>2. CASE highCount > 0
    BY <1>1, <1>2, <1>3, <2>2 DEF AbsDif
  <2> QED
    BY <1>1, <2>1, <2>2
<1>8. ServoTypes
  BY DEF EndsStand
<1> HIDE DEF count, last, next
<1>9. CASE ~CountsHigh
  <2>1. /\ high' = 1900 /\ highTaken' = FALSE /\ required' = FALSE /\ lastHigh' = p
    BY <1>6, <1>7, <1>9
  <2>2. ServoTypes'
    <3>1. high' \in Int /\ lastHigh' \in Int
      BY <1>1, <2>1
    <3>3. required' \in BOOLEAN /\ highTaken' \in BOOLEAN
      BY <2>1, Zenon
    <3>2. Within(highCount', 0, 255)
      BY <1>4, <1>6
    <3> QED
      BY <1>6, <1>8, <3>1, <3>2, <3>3 DEF ServoTypes
  <2>3. HighApproaches'
    BY <1>2, <1>6, <1>9, <2>1 DEF HighApproaches, CountsHigh
  <2> QED
    BY <1>2, <1>6, <2>1, <2>2, <2>3 DEF EndsStand, LowApproaches, SavedInside
<1>10. CASE CountsHigh
  <2>1. /\ high' = (IF done THEN HighEnd(next) ELSE next) /\ highTaken' = done
        /\ lastHigh' = high' /\ required' = required /\ count = highCount + 1
    BY <1>1, <1>2, <1>4, <1>6, <1>7, <1>10
  <2>2. Within(next, 1850, 1950) /\ (next - p <= 25 \/ next - p <= 50 - 4 * count)
    BY <1>1, <1>3, <1>5, <1>7, <1>10, <2>1
  <2>3. ServoTypes'
    BY <1>1, <1>2, <1>4, <1>5, <1>6, <1>8, <2>1, <2>2 DEF ServoTypes, HighEnd
  <2>4. CASE done
    <3>1. high' = next - 25 /\ next - p <= 25 /\ highTaken'
      <4>1. high' = next - 25 /\ highTaken'
        BY <2>1, <2>4 DEF HighEnd
      <4>2. 50 - 4 * count <= 25
        BY <1>1, <1>4, <2>4
      <4> QED
        BY <2>2, <4>1, <4>2, <1>1, <1>4
    <3>2. Within(high', 1825, 1925) /\ high' <= p
      BY <1>1, <2>2, <3>1
    <3>3. LowApproaches'
      BY <1>2, <1>6, <3>2 DEF LowApproaches, CountsLow
    <3> QED
      BY <1>2, <1>6, <2>3, <3>1, <3>3 DEF EndsStand, HighApproaches, SavedInside
  <2>5. CASE ~done
    <3>1. high' = next /\ lastHigh' = next /\ ~highTaken'
      BY <2>1, <2>5
    <3>2. HighApproaches'
      BY <1>1, <1>2, <1>4, <1>6, <1>10, <2>1, <2>2, <2>5, <3>1 DEF HighApproaches, CountsHigh
    <3> QED
      BY <1>2, <1>6, <2>3, <3>1, <3>2 DEF EndsStand, LowApproaches, SavedInside
  <2> QED
    BY <2>4, <2>5
<1> QED
  BY <1>9, <1>10

LEMMA LowNext ==
  ASSUME CalibrationAsDriven, EndsStand, highTaken, required, UNCHANGED driver,
         NEW p \in Nat, InPulseRange(p), p = driver.low \/ ~Within(p, 801, 1249), CalibrateLow(p)
  PROVE  EndsStand'
<1> DEFINE counts == p < 1250
           next   == IF counts THEN Filtered(low, p) ELSE low
           count  == IF counts THEN lowCount + 1 ELSE lowCount
           done   == count > LowCounts
<1> USE DEF Within
<1>1. ServoTypes
  BY DEF EndsStand
<1>2. /\ driver.high \in Nat /\ driver.low \in Nat /\ ~Within(driver.low, 1237, 1249)
      /\ low \in Int /\ high \in Int /\ Within(lowCount, 0, LowCounts)
  BY <1>1 DEF ServoTypes
<1>3. LowCounts \in Nat /\ LowCounts >= 75
  BY ServoAssumption DEF ServoAssumption, CalibrationAsDriven
<1>4. savedEnds = <<>>
  BY DEF EndsStand, SavedInside
<1>5. /\ Within(high, 1825, 1925) /\ high <= driver.high
      /\ CountsLow => /\ Within(low, 801, 1236)
                      /\ driver.low - low <= 24 \/ driver.low - low <= 136 - 3 * lowCount
  BY <1>4 DEF EndsStand, LowApproaches
<1>6. /\ UNCHANGED <<driver, high, highTaken, highCount, lastHigh>>
      /\ done => /\ low' = next + 25 /\ lowCount' = 0
                 /\ savedEnds' = <<LowByte(low'), HighByte(high)>>
      /\ ~done => /\ low' = next /\ lowCount' = count /\ savedEnds' = savedEnds
  <2>1. /\ low' = (IF done THEN LowEnd(next) ELSE next) /\ lowCount' = (IF done THEN 0 ELSE count)
        /\ savedEnds' = (IF done THEN <<LowByte(low'), HighByte(high)>> ELSE savedEnds)
        /\ UNCHANGED <<driver, high, highTaken, highCount, lastHigh>>
    BY DEF CalibrateLow
  <2> HIDE DEF done, count, next
  <2>2. CASE done
    BY <2>1, <2>2 DEF LowEnd
  <2>3. CASE ~done
    BY <2>1, <2>3
  <2> QED
    BY <2>1, <2>2, <2>3
<1>7. required' \in BOOLEAN /\ (required' <=> ~done)
  <2>1. required' = ~done
    BY DEF CalibrateLow
  <2>2. CASE done
    <3>1. (~done) = FALSE
      BY <2>2
    <3>2. required' = FALSE
      BY <2>1, <3>1, Zenon
    <3>3. required' \in BOOLEAN /\ ~required'
      BY <3>2
    <3> QED
      BY <2>2, <3>3
  <2>3. CASE ~done
    <3>1. (~done) = TRUE
      BY <2>3
    <3>2. required' = TRUE
      BY <2>1, <3>1, Zenon
    <3>3. required' \in BOOLEAN /\ required'
      BY <3>2
    <3> QED
      BY <2>3, <3>3
  <2> QED
    BY <2>2, <2>3
<1>8. highTaken' /\ HighApproaches'
  BY <1>6 DEF HighApproaches
<1>9. CASE ~counts
  <2>1. count = lowCount /\ next = low /\ ~done
    BY <1>2, <1>3, <1>9
  <2> HIDE DEF Within, count, next, done
  <2>2. low' = low /\ lowCount' = lowCount /\ required' /\ savedEnds' = <<>>
    BY <1>4, <1>6, <1>7, <2>1
  <2>3. ServoTypes'
    BY <1>1, <1>6, <1>7, <2>2 DEF ServoTypes
  <2>4. LowApproaches'
    BY <1>4, <1>6, <2>2 DEF EndsStand, LowApproaches, CountsLow
  <2> QED
    BY <1>8, <2>2, <2>3, <2>4 DEF EndsStand, SavedInside
<1>10. CASE counts
  <2>1. p = driver.low /\ Within(p, 801, 1236)
    BY <1>2, <1>10 DEF InPulseRange
  <2>2. CountsLow /\ CountsLow'
    BY <1>6, <2>1 DEF CountsLow
  <2>3. /\ next \in Int
        /\ low <= p => low <= next /\ next <= p
        /\ p <= low => p <= next /\ next <= low
        /\ p - low >= 25 => next >= low + 3
    <3>1. next = Filtered(low, p)
      BY <1>10
    <3>2. low \in Int /\ p \in Int
      BY <1>2
    <3>3. /\ Filtered(low, p) \in Int
          /\ low <= p => low <= Filtered(low, p) /\ Filtered(low, p) <= p
          /\ p <= low => p <= Filtered(low, p) /\ Filtered(low, p) <= low
          /\ p - low >= 25 => Filtered(low, p) >= low + 3
      <4> HIDE DEF counts, next, count, done
      <4> QED
        BY <3>2 DEF Filtered
    <3> HIDE DEF next
    <3> QED
      BY <3>1, <3>3
  <2>4. count = lowCount + 1 /\ count \in Int
    BY <1>2, <1>10
  <2> HIDE DEF next, count
  <2>5. Within(next, 801, 1236) /\ (p - next <= 24 \/ p - next <= 136 - 3 * count)
    BY <1>2, <1>5, <2>1, <2>2, <2>3, <2>4
  <2>6. low' \in Int /\ Within(lowCount', 0, LowCounts)
    BY <1>2, <1>3, <1>6, <2>3, <2>4 DEF LowEnd
  <2>7. ServoTypes'
    <3> HIDE DEF Within, done
    <3> QED
      BY <1>1, <1>6, <1>7, <2>6 DEF ServoTypes
  <2>8. CASE done
    <3>1. low' = next + 25 /\ savedEnds' = <<LowByte(low'), HighByte(high)>> /\ ~required'
      BY <1>6, <1>7, <2>8
    <3>2. p - next <= 24
      BY <1>3, <2>3, <2>4, <2>5, <2>8, <1>2
    <3>3. low' \in Nat /\ Within(low', 826, 1261) /\ p <= low' - 1
      BY <2>1, <2>3, <2>5, <3>1, <3>2
    <3>4. Within(LoadedLow(LowByte(low')), low' - 1, low')
      <4> DEFINE l == low'
      <4>1. l \in Nat /\ Within(l, 750, 1261)
        BY <3>3
      <4> HIDE DEF l
      <4>2. Within(LoadedLow(LowByte(l)), l - 1, l)
        BY <4>1, BytesRound
      <4> QED
        BY <4>2 DEF l
    <3>5. Within(LoadedHigh(HighByte(high)), high - 1, high)
      BY <1>2, <1>5, BytesRound
    <3>6. savedEnds'[1] = LowByte(low') /\ savedEnds'[2] = HighByte(high)
      BY <3>1
    <3>7. savedEnds' # <<>>
      BY <3>1
    <3> DEFINE lo == LoadedLow(LowByte(low'))
               hi == LoadedHigh(HighByte(high))
    <3>8. lo \in Int /\ driver.low <= lo /\ Within(hi, 1824, 1925) /\ hi <= driver.high
      <4>1. Within(lo, low' - 1, low') /\ Within(hi, high - 1, high)
        BY <3>4, <3>5
      <4> DEFINE l == low'
      <4>2. l \in Nat /\ Within(lo, l - 1, l) /\ driver.low <= l - 1
        BY <2>1, <3>3, <4>1
      <4> HIDE DEF lo, hi, l
      <4> QED
        BY <1>2, <1>5, <4>1, <4>2
    <3>9. SavedInside'
      <4> HIDE DEF lo, hi, Within
      <4>1. LoadedLow(savedEnds'[1]) = lo /\ LoadedHigh(savedEnds'[2]) = hi
        BY <3>6 DEF lo, hi
      <4> QED
        BY <1>6, <1>8, <2>2, <3>1, <3>8, <4>1 DEF SavedInside
    <3>10. LowApproaches'
      BY <1>5, <1>6, <3>7 DEF LowApproaches
    <3> QED
      BY <1>8, <2>7, <3>9, <3>10 DEF EndsStand
  <2>9. CASE ~done
    <3>1. low' = next /\ lowCount' = count /\ savedEnds' = <<>>
      BY <1>4, <1>6, <1>7, <2>9
    <3>2. LowApproaches'
      BY <1>5, <1>6, <2>1, <2>5, <3>1 DEF LowApproaches
    <3> QED
      BY <1>8, <2>7, <3>1, <3>2 DEF EndsStand, SavedInside
  <2> QED
    BY <2>8, <2>9
<1> QED
  BY <1>9, <1>10

LEMMA EndsStandNext == CalibrationAsDriven /\ EndsStand /\ [ServoNext]_servoVars => EndsStand'
<1> SUFFICES ASSUME CalibrationAsDriven, EndsStand, [ServoNext]_servoVars PROVE EndsStand'
  OBVIOUS
<1>1. ASSUME UNCHANGED <<driver, low, high, highTaken, highCount, lowCount, lastHigh, savedEnds>>,
             required' \in BOOLEAN, savedEnds # <<>> => ~required'
      PROVE  EndsStand'
  BY <1>1 DEF EndsStand, ServoTypes, HighApproaches, LowApproaches, SavedInside, CountsHigh, CountsLow
<1>2. highTaken \in BOOLEAN /\ required \in BOOLEAN /\ driver.low \in Nat /\ driver.high \in Nat
  BY DEF EndsStand, ServoTypes
<1>3. savedEnds # <<>> => highTaken /\ ~required
  BY DEF EndsStand, SavedInside, HighApproaches
<1>4. ASSUME NEW p \in Nat, Pulse(p), highTaken => p = driver.low \/ ~Within(p, 801, 1249),
             ~highTaken => p = driver.high
      PROVE  EndsStand'
  <2>1. InPulseRange(p) /\ UNCHANGED driver
    BY <1>4 DEF Pulse
  <2>2. CASE ~required
    <3>1. UNCHANGED <<driver, low, high, required, highTaken, highCount, lowCount, lastHigh, savedEnds>>
      BY <1>4, <2>2 DEF Pulse
    <3> QED
      BY <1>1, <1>2, <1>3, <3>1
  <2>3. CASE required /\ highTaken
    <3>1. CalibrateLow(p)
      BY <1>4, <2>3 DEF Pulse
    <3> QED
      BY <1>4, <2>1, <2>3, <3>1, LowNext
  <2>4. CASE required /\ ~highTaken
    <3>1. CalibrateHigh(driver.high)
      BY <1>4, <2>4 DEF Pulse
    <3> QED
      BY <2>1, <2>4, <3>1, HighNext
  <2> QED
    BY <2>2, <2>3, <2>4
<1>5. CASE Pulse(IF highTaken THEN driver.low ELSE driver.high)
  BY <1>2, <1>4, <1>5
<1>6. CASE highTaken /\ \E p \in OtherPulses : Pulse(p)
  <2>1. PICK p \in OtherPulses : Pulse(p)
    BY <1>6
  <2>2. p \in Nat /\ ~Within(p, 801, 1249)
    BY ServoAssumption DEF ServoAssumption, CalibrationAsDriven
  <2> QED
    BY <1>4, <1>6, <2>1, <2>2
<1>7. CASE EnterCalibration
  BY <1>1, <1>3, <1>7 DEF EnterCalibration
<1>8. CASE UNCHANGED servoVars
  BY <1>1, <1>2, <1>3, <1>8 DEF servoVars
<1> QED
  BY <1>5, <1>6, <1>7, <1>8 DEF ServoNext

\* The servo input, for all positions of the stick and thresholds of at least 50 and
\* 75 pulses: the ends that a calibration saves, read back from their bytes, give full
\* throttle where the driver held the stick high and none where it was low.
THEOREM CalibrationCoversTravel ==
  ASSUME CalibrationAsDriven
  PROVE  ServoSpec => []CalibratedEnds
<1>1. EndsStand => CalibratedEnds
  <2> SUFFICES ASSUME EndsStand, savedEnds # <<>>
               PROVE  /\ OneWay(driver.high, LoadedLow(savedEnds[1]), LoadedHigh(savedEnds[2])) = 2047
                      /\ OneWay(driver.low, LoadedLow(savedEnds[1]), LoadedHigh(savedEnds[2])) = 0
    BY DEF CalibratedEnds
  <2> DEFINE lo == LoadedLow(savedEnds[1])
             hi == LoadedHigh(savedEnds[2])
  <2>1. /\ lo \in Int /\ driver.low <= lo /\ hi \in Int /\ 1824 <= hi /\ hi <= driver.high
        /\ driver.low <= 1236
    BY DEF EndsStand, SavedInside, CountsLow, Within
  <2>2. driver.high \in Int /\ driver.low \in Int
    BY DEF EndsStand, ServoTypes
  <2> HIDE DEF lo, hi
  <2>3. OneWay(driver.high, lo, hi) = 2047
    <3>1. Interp(driver.high, lo, hi, 47, 2047) = 2047
      <4> DEFINE x == driver.high
      <4>1. x \in Int /\ lo \in Int /\ hi \in Int /\ x >= hi /\ 47 \in Int /\ 2047 \in Int
        BY <2>1, <2>2
      <4> HIDE DEF x
      <4>2. Interp(x, lo, hi, 47, 2047) = 2047
        BY <4>1, MapClamps
      <4> QED
        BY <4>2 DEF x
    <3> QED
      BY <3>1 DEF OneWay
  <2>4. OneWay(driver.low, lo, hi) = 0
    <3>1. Interp(driver.low, lo, hi, 47, 2047) = 47
      <4> DEFINE x == driver.low
      <4>1. x \in Int /\ lo \in Int /\ hi \in Int /\ x < hi /\ x <= lo /\ 47 \in Int /\ 2047 \in Int
        BY <2>1, <2>2
      <4> HIDE DEF x
      <4>2. Interp(x, lo, hi, 47, 2047) = 47
        BY <4>1, MapClamps
      <4> QED
        BY <4>2 DEF x
    <3> QED
      BY <3>1 DEF OneWay
  <2> QED
    BY <2>3, <2>4 DEF lo, hi
<1> QED
  BY <1>1, EndsStandInit, EndsStandNext, PTL DEF ServoSpec
================================================================================
