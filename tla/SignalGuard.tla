----------------------------- MODULE SignalGuard -----------------------------
(***************************************************************************)
(* Arming, and the two guards that end it: the loss of the signal and the  *)
(* low-voltage cutoff.  The frame interrupt resets signal_timeout, the     *)
(* control tick counts it, the main loop compares it and resets the        *)
(* controller.  A tick that finds an AllOff request only carries that out: *)
(* it neither counts nor arms, and while a fault is latched every pass of  *)
(* the main loop makes the request anew.                                   *)
(*                                                                         *)
(* One tick stands for a fraction of the timeouts.  The increment is split *)
(* in two, for on two ports a frame may preempt the tick.                  *)
(***************************************************************************)
EXTENDS Naturals

CONSTANTS
  DisarmLimit,   \* SIGNAL_TIMEOUT_DISARM
  UnarmedLimit,  \* SIGNAL_TIMEOUT_UNARMED
  ArmingLimit,   \* ARMING_TIMEOUT_TICKS
  CutoffLimit,   \* LVC_NORMAL_THRESHOLD
  SineStart      \* use_sine_start

ASSUME GuardAssumption ==
  /\ {DisarmLimit, UnarmedLimit, ArmingLimit, CutoffLimit} \subseteq Nat
  /\ DisarmLimit < UnarmedLimit
  /\ SineStart \in BOOLEAN

VARIABLES
  timeout,     \* signal_timeout, capped above UnarmedLimit
  known,       \* input_set
  live,        \* armed
  stickAt,     \* newinput: "rest" (0), "low", or "up"
  thrust0,     \* adjusted_input = 0
  allOff,      \* an AllOff request is pending
  stuck,       \* bemf_timeout_happened is over its limit
  armingCount, \* armed_timeout_count
  tickAt,      \* the tick's place: "idle", or "count" before its increment
  tickSaw,     \* signal_timeout when the tick came to it
  mainAt,      \* the main loop's place
  mainSaw,     \* signal_timeout as tick_main read it
  lowVolts,    \* low_voltage_count, capped above CutoffLimit
  cutOff,      \* low_voltage_cutoff
  needsReset,
  silence,     \* ghost: ticks that ended since the last frame
  lossReal     \* ghost: they were more than DisarmLimit when mainSaw was read

frameVars == <<timeout, known, stickAt>>
tickVars  == <<armingCount, tickAt, tickSaw>>
judgeVars == <<mainAt, mainSaw, lowVolts, cutOff, needsReset>>
guardVars == <<frameVars, live, thrust0, allOff, stuck, tickVars, judgeVars, silence,
               lossReal>>

UpTo(limit, n) == IF n < limit THEN n + 1 ELSE limit

GuardInit ==
  /\ timeout = 0 /\ known = FALSE /\ live = FALSE
  /\ stickAt = "rest" /\ thrust0 = TRUE /\ allOff = FALSE /\ stuck = FALSE
  /\ armingCount = 0 /\ tickAt = "idle" /\ tickSaw = 0
  /\ mainAt = "input" /\ mainSaw = 0
  /\ lowVolts = 0 /\ cutOff = FALSE /\ needsReset = FALSE
  /\ silence = 0 /\ lossReal = FALSE

------------------------------------------------------------------------------
(* The frame interrupt *)

\* Two equal detections: no throttle yet, and no reset of the timeout.
Detected ==
  /\ ~known /\ known' = TRUE
  /\ UNCHANGED <<timeout, stickAt, live, thrust0, allOff, stuck, tickVars, judgeVars,
                 silence, lossReal>>

\* A throttle, a command (throttle 0), a calibration pulse or a throttle that the
\* EDT gate withholds.
GuardFrame ==
  /\ known
  /\ timeout' = 0 /\ silence' = 0
  /\ stickAt' \in {"rest", "low", "up"}
  /\ UNCHANGED <<known, live, thrust0, allOff, stuck, tickVars, judgeVars, lossReal>>

------------------------------------------------------------------------------
(* The control tick *)

\* Mutation: the request stays when it has been carried out.
AllOffKept == allOff

AllOffAfter == FALSE

\* The tick up to its increment; with AllOff pending, the whole tick.
TickBegins ==
  /\ tickAt = "idle"
  /\ allOff' = AllOffAfter
  /\ IF allOff THEN silence' = UpTo(UnarmedLimit + 1, silence)
                    /\ UNCHANGED <<tickAt, tickSaw>>
               ELSE tickAt' = "count" /\ tickSaw' = timeout /\ UNCHANGED silence
  /\ UNCHANGED <<frameVars, live, thrust0, stuck, armingCount, judgeVars, lossReal>>

\* Mutation: the increment is a load and a store.
PlainIncrement == tickSaw + 1

\* fetch_update: what a frame stored meanwhile counts.
Increment == timeout + 1

Arming ==
  IF live THEN UNCHANGED <<live, armingCount>>
  ELSE IF known /\ thrust0
  THEN IF armingCount >= ArmingLimit THEN live' = TRUE /\ armingCount' = 0
       ELSE armingCount' = armingCount + 1 /\ UNCHANGED live
  ELSE armingCount' = 0 /\ UNCHANGED live

TickEnds ==
  /\ tickAt = "count"
  /\ timeout' = IF Increment > UnarmedLimit THEN UnarmedLimit + 1 ELSE Increment
  /\ Arming
  /\ tickAt' = "idle" /\ tickSaw' = 0
  /\ silence' = UpTo(UnarmedLimit + 1, silence)
  /\ UNCHANGED <<known, stickAt, thrust0, allOff, stuck, judgeVars, lossReal>>

GuardTick == TickBegins \/ TickEnds

------------------------------------------------------------------------------
(* The main loop *)

\* process_input: the stick becomes the throttle, or a latched fault stops it.
InputPass ==
  /\ mainAt = "input"
  /\ IF stuck THEN thrust0' = TRUE /\ allOff' = TRUE
              ELSE thrust0' = (stickAt = "rest") /\ UNCHANGED allOff
  /\ mainAt' = "read"
  /\ UNCHANGED <<frameVars, live, stuck, tickVars, mainSaw, lowVolts, cutOff, needsReset,
                 silence, lossReal>>

\* The stick positions at which tick_main clears the stall count.
ClearsStall == stickAt = "rest" \/ (SineStart /\ stickAt = "low")

\* Stall bookkeeping, then the read of the timeout.
ReadPass ==
  /\ mainAt = "read"
  /\ \/ ClearsStall /\ stuck' = FALSE
     \/ ~ClearsStall /\ stuck' \in {stuck, stuck \/ (live /\ ~thrust0)}
  /\ mainSaw' = timeout
  /\ lossReal' = (silence > DisarmLimit)
  /\ mainAt' = "judge"
  /\ UNCHANGED <<frameVars, live, thrust0, allOff, tickVars, lowVolts, cutOff,
                 needsReset, silence>>

\* Armed or not is read after the timeout.
JudgePass ==
  /\ mainAt = "judge"
  /\ IF (live /\ mainSaw > DisarmLimit) \/ (~live /\ known /\ mainSaw > UnarmedLimit)
     THEN live' = FALSE /\ known' = FALSE /\ needsReset' = TRUE
     ELSE UNCHANGED <<live, known, needsReset>>
  /\ mainAt' = "voltage" /\ mainSaw' = 0
  /\ lossReal' = (lossReal /\ needsReset')
  /\ UNCHANGED <<timeout, stickAt, thrust0, allOff, stuck, tickVars, lowVolts, cutOff,
                 silence>>

\* At 1 kHz the battery is compared; a cutoff stays, and repeats its disarm.
VoltagePass ==
  /\ mainAt = "voltage"
  /\ \/ UNCHANGED <<lowVolts, cutOff, live, allOff>>
     \/ \E below \in BOOLEAN :
          /\ lowVolts' = IF below THEN UpTo(CutoffLimit + 1, lowVolts)
                         ELSE IF cutOff THEN lowVolts ELSE 0
          /\ IF lowVolts' > CutoffLimit
             THEN cutOff' = TRUE /\ allOff' = TRUE /\ live' = FALSE
             ELSE UNCHANGED <<cutOff, allOff, live>>
  /\ mainAt' = IF needsReset THEN "reset" ELSE "input"
  /\ UNCHANGED <<frameVars, thrust0, stuck, tickVars, mainSaw, needsReset, silence,
                 lossReal>>

\* sys.reset: everything starts again.
Restart ==
  /\ mainAt = "reset"
  /\ timeout' = 0 /\ known' = FALSE /\ live' = FALSE
  /\ stickAt' = "rest" /\ thrust0' = TRUE /\ allOff' = FALSE /\ stuck' = FALSE
  /\ armingCount' = 0 /\ tickAt' = "idle" /\ tickSaw' = 0
  /\ mainAt' = "input" /\ mainSaw' = 0
  /\ lowVolts' = 0 /\ cutOff' = FALSE /\ needsReset' = FALSE
  /\ silence' = 0 /\ lossReal' = FALSE

GuardMain == InputPass \/ ReadPass \/ JudgePass \/ VoltagePass \/ Restart

GuardNext == Detected \/ GuardFrame \/ GuardTick \/ GuardMain

\* A timer runs the tick, and the main loop returns from its wait on every tick.
GuardSpec ==
  GuardInit /\ [][GuardNext]_guardVars /\ WF_guardVars(GuardTick) /\ WF_guardVars(GuardMain)

------------------------------------------------------------------------------
(* Properties *)

\* The timeout never runs ahead of the silence, so the controller is not reset
\* under a pilot whose frames keep coming.
NoFalseLoss == needsReset => lossReal

\* When the frames stop for good, an armed controller disarms, unless a latched
\* fault, which keeps the motor off by itself, keeps the ticks from counting.
LossDisarms == <>[](silence > DisarmLimit) => <>[](live => stuck)
==============================================================================
