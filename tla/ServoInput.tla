----------------------------- MODULE ServoInput -----------------------------
(***************************************************************************)
(* Servo pulses (servo.rs): mapping to a throttle, rate limiting, and the  *)
(* stick calibration, which learns the ends of the travel from a driver    *)
(* who holds the stick high and then low, and saves them as two bytes.     *)
(* Pulse widths and thresholds are microseconds; u16 and u8 arithmetic     *)
(* wraps as in a release build.                                            *)
(***************************************************************************)
EXTENDS Numeric, Sequences

CONSTANTS
  HighHeld,      \* where the driver may hold the stick high ...
  LowHeld,       \* ... and low
  OtherPulses,   \* pulses that come in between
  HighCounts,    \* pulses that make the high end (50)
  LowCounts      \* pulses that make the low end (75)

ASSUME ServoAssumption ==
  /\ \A p \in HighHeld \cup LowHeld \cup OtherPulses : p \in Nat /\ p <= 65535
  /\ HighCounts \in 1 .. 254 /\ LowCounts \in 1 .. 254

VARIABLES
  bidir,      \* bi_direction
  driver,     \* the driver's two positions: [high, low]
  low, high,  \* low_threshold, high_threshold
  required,   \* calibration_required
  highTaken,    \* high_calibration_set
  highCount, lowCount, lastHigh,
  stick,      \* newinput
  savedEnds   \* the bytes of ServoCalibrationDone, <<>> or <<low, high>>

servoVars == <<bidir, driver, low, high, required, highTaken, highCount, lowCount, lastHigh,
               stick, savedEnds>>

Neutral      == 1500
MaxDeviation == 250

ServoInit ==
  /\ bidir \in BOOLEAN
  /\ driver \in [high : HighHeld, low : LowHeld]
  /\ low = 1100 /\ high = 1900
  /\ required = FALSE /\ highTaken = FALSE
  /\ highCount = 0 /\ lowCount = 0 /\ lastHigh = 0
  /\ stick = 0 /\ savedEnds = <<>>

------------------------------------------------------------------------------
(* Mapping *)

InPulseRange(p) == p > 800 /\ p < 2200

\* The throttle of a pulse between two ends, before rate limiting.
OneWay(p, lo, hi) ==
  LET t == Interp(p, lo, hi, 47, 2047) IN IF t <= 48 THEN 0 ELSE t

BothWays(p, lo, hi) ==
  IF p <= Neutral THEN Interp(p, lo, Neutral, 0, 1000)
                  ELSE Interp(p, Neutral + 1, hi, 1001, 2000)

Target(p) == IF bidir THEN BothWays(p, low, high) ELSE OneWay(p, low, high)

\* rate_limit: no frame moves the stick by more than MaxDeviation.
RateLimit(target, current) ==
  IF target > current + MaxDeviation THEN current + MaxDeviation
  ELSE IF current > target + MaxDeviation THEN current - MaxDeviation
  ELSE target

------------------------------------------------------------------------------
(* Calibration *)

Filtered(threshold, p) == (7 * threshold + p) \div 8

\* How the two ends become bytes, and how the settings are read back.
HighByte(h) == (Wrap(h - 1750, 16) \div 2) % 256
LowByte(l)  == (Wrap(l - 750, 16) \div 2) % 256
LoadedHigh(b) == 2 * b + 1750
LoadedLow(b)  == 2 * b + 750

\* Mutation: the margin is put outside the travel, not inside.
HighOutside(h) == h + 25

HighEnd(h) == h - 25

LowEnd(l) == l + 25

CalibrateHigh(p) ==
  LET count == Wrap(highCount + 1, 8)
      last  == IF highCount = 0 THEN p ELSE lastHigh
      next  == Filtered(high, p)
      done  == count > HighCounts
  IN /\ highCount' = count
     /\ IF AbsDif(last, high) > 50
        THEN required' = FALSE /\ lastHigh' = last /\ UNCHANGED <<high, highTaken>>
        ELSE /\ high' = IF done THEN HighEnd(next) ELSE next
             /\ highTaken' = done
             /\ lastHigh' = high'
             /\ UNCHANGED required
     /\ UNCHANGED <<low, lowCount, savedEnds>>

CalibrateLow(p) ==
  LET counts == p < 1250
      next   == IF counts THEN Filtered(low, p) ELSE low
      count  == IF counts THEN lowCount + 1 ELSE lowCount
      done   == count > LowCounts
  IN /\ low' = IF done THEN LowEnd(next) ELSE next
     /\ lowCount' = IF done THEN 0 ELSE count
     /\ required' = ~done
     /\ savedEnds' = IF done THEN <<LowByte(low'), HighByte(high)>> ELSE savedEnds
     /\ UNCHANGED <<high, highTaken, highCount, lastHigh>>

------------------------------------------------------------------------------
(* Steps *)

\* ServoState::compute.  A pulse out of range changes nothing.
Pulse(p) ==
  /\ InPulseRange(p)
  /\ IF ~required
     THEN /\ stick' = RateLimit(Target(p), stick)
          /\ UNCHANGED <<low, high, required, highTaken, highCount, lowCount, lastHigh,
                         savedEnds>>
     ELSE /\ IF highTaken THEN CalibrateLow(p) ELSE CalibrateHigh(p)
          /\ UNCHANGED stick
  /\ UNCHANGED <<bidir, driver>>

\* FrameIntake's calibration entry: the stick has been high while unarmed.
EnterCalibration ==
  /\ ~required /\ ~highTaken
  /\ required' = TRUE
  /\ UNCHANGED <<bidir, driver, low, high, highTaken, highCount, lowCount, lastHigh, stick,
                 savedEnds>>

\* The driver: high until the first tone, then low, with the odd stray pulse
\* on the way down.
ServoNext ==
  \/ Pulse(IF highTaken THEN driver.low ELSE driver.high)
  \/ highTaken /\ \E p \in OtherPulses : Pulse(p)
  \/ EnterCalibration

ServoSpec == ServoInit /\ [][ServoNext]_servoVars

------------------------------------------------------------------------------
(* Properties *)

\* After a calibration, the settings as they will be read back give full
\* throttle where the driver held the stick high and none where it was low.
CalibratedEnds ==
  savedEnds # <<>> =>
    LET lo == LoadedLow(savedEnds[1])
        hi == LoadedHigh(savedEnds[2])
    IN OneWay(driver.high, lo, hi) = 2047 /\ OneWay(driver.low, lo, hi) = 0
==============================================================================
