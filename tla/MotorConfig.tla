----------------------------- MODULE MotorConfig -----------------------------
(***************************************************************************)
(* From the bytes of the settings page to the numbers the control loop     *)
(* runs on: acceptance of the page, migration of an older layout, the      *)
(* modes that exclude each other, and the derived duty thresholds, ramp    *)
(* profile, dead time and advance (config.rs, with the ramp of             *)
(* DutyState::apply_max_ramp).  Pure operators over one record per page    *)
(* and one per board.                                                      *)
(***************************************************************************)
EXTENDS Integers

Byte == 0 .. 255

\* The fields that some decision reads; a page is a byte for each.
PageFields == {"version", "maxRamp", "minimumDuty", "startupPower", "pwmFrequency",
               "drivingBrake", "rcCarReverse", "compPwm", "sineStart", "stuckRotor",
               "biDirection", "variablePwm", "advance", "motorKv", "stallProtection",
               "servoLow", "servoHigh", "servoNeutral", "servoDeadBand"}

Pages == [PageFields -> Byte]

\* autoReload is the timer's period at the default PWM frequency.
Boards == [autoReload: 1 .. 65535, deadTime: Byte, kvDivider: Byte, boost: BOOLEAN]

EepromVersion == 3

Zeroed == [f \in PageFields |-> 0]

------------------------------------------------------------------------------
(* Loading *)

IsValid(p) == p["version"] <= EepromVersion

\* The fields an older layout did not have.
VersionDefault == [f \in {"maxRamp", "minimumDuty"} |-> IF f = "maxRamp" THEN 160 ELSE 1]

ServoFields == {"servoLow", "servoHigh", "servoNeutral", "servoDeadBand"}

\* A 1006 to 2006 us window around 1502 us.
ServoDefault == [f \in ServoFields |-> IF f = "servoDeadBand" THEN 50 ELSE 128]

\* apply_version_defaults: the calibration is initialised as a whole or not at all.
Migrated(p) ==
  LET old   == p["version"] < EepromVersion
      unset == \A f \in ServoFields : p[f] = 0
  IN [f \in PageFields |->
        IF f = "version" THEN EepromVersion
        ELSE IF old /\ f \in DOMAIN VersionDefault THEN VersionDefault[f]
        ELSE IF old /\ unset /\ f \in ServoFields THEN ServoDefault[f]
        ELSE p[f]]

\* apply_rc_car_overrides
RcCarPage(p) ==
  IF p["rcCarReverse"] = 0 THEN p
  ELSE [f \in PageFields |->
          IF f \in {"stuckRotor", "sineStart", "variablePwm", "compPwm"} THEN 0
          ELSE IF f = "biDirection" THEN 1
          ELSE p[f]]

\* apply_comp_pwm_guard: sine start needs complementary PWM.
CompPwmGuard(p) ==
  IF p["compPwm"] = 0 THEN [p EXCEPT !["sineStart"] = 0] ELSE p

Normalized(p) == CompPwmGuard(RcCarPage(p))

\* What the firmware runs on after reading page p at power-up.
Loaded(p) == Normalized(Migrated(IF IsValid(p) THEN p ELSE Zeroed))

------------------------------------------------------------------------------
(* Derived settings *)

MinimumBase(p) == IF p["minimumDuty"] \in 1 .. 50 THEN 10 * p["minimumDuty"] ELSE 0

StartupBase(p) ==
  MinimumBase(p) + (IF p["startupPower"] \in 50 .. 150 THEN p["startupPower"] ELSE 0)

RcBoost(p) == IF p["rcCarReverse"] # 0 THEN 50 ELSE 0

\* The three duty thresholds of derive_motor_config.
MinimumDuty(p, b) ==
  MinimumBase(p) + (IF b.boost THEN 50 + (50 * p["pwmFrequency"]) \div 24 ELSE 0) + RcBoost(p)

MinStartup(p, b) ==
  StartupBase(p) + (IF b.boost THEN 200 + (100 * p["pwmFrequency"]) \div 24 ELSE 0) + RcBoost(p)

StartupMax(p) == MinimumBase(p) + 400

\* dead_time_override: none for a strength of 0, or above 9.
DeadTimeOverride(p, b) ==
  LET strength == p["drivingBrake"]
      time     == b.deadTime + 150 - 10 * strength
  IN IF strength = 0 \/ strength > 9 THEN 0 ELSE IF time > 200 THEN 200 ELSE time

\* The thresholds as main installs them, the dead time added to all three.
DutyLimits(p, b) ==
  LET dead == DeadTimeOverride(p, b)
  IN [minimum    |-> MinimumDuty(p, b) + dead,
      minStartup |-> MinStartup(p, b) + dead,
      startupMax |-> StartupMax(p) + dead]

\* apply_max_ramp over the profile of DutyState::default.
AtMost(a, b) == IF a <= b THEN a ELSE b

RampProfile(maxRamp) ==
  IF maxRamp < 10
  THEN [divider |-> 9, startup |-> maxRamp, low |-> maxRamp, high |-> maxRamp]
  ELSE LET scaled == maxRamp \div 10
       IN [divider |-> 0, startup |-> AtMost(2, scaled),
           low |-> AtMost(6, scaled), high |-> AtMost(16, scaled)]
==============================================================================
