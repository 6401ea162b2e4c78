----------------------------- MODULE GateControl -----------------------------
(***************************************************************************)
(* What lies between the handlers and the transistors: the timer's main    *)
(* output enable and, on some boards, the ENABLE pin of the gate driver,   *)
(* both set by the main loop after the armed flag (drive_gate), and the    *)
(* emergency stop of the panic handler, which turns everything off with    *)
(* interrupts still enabled.                                               *)
(*                                                                         *)
(* One leg stands for the bridge; the commutation handler may set it at    *)
(* any time, also between two writes of the panic handler.                 *)
(***************************************************************************)
EXTENDS Naturals

VARIABLES
  gated,       \* the board has the ENABLE pin
  mayDrive,    \* shared.armed
  gate,        \* the ENABLE pin
  outputs,     \* BDTR.MOE
  loopAt,      \* drive_gate: "idle", or "section" once it has found a difference
  wanted,      \* its argument, read before the section
  highPin,     \* "pwm" in alternate mode, "low" as an output held low
  lowPin,      \* "on" or "off"
  panicAt,     \* how far emergency_off has come, 0 without a panic
  irqs         \* interrupts are enabled

outputVars == <<gated, mayDrive, gate, outputs, loopAt, wanted, highPin, lowPin, panicAt, irqs>>
legVars  == <<highPin, lowPin>>
sectionVars == <<loopAt, wanted>>

\* init_pins holds the gate driver off; the timer's start sets MOE.
GateInit ==
  /\ gated \in BOOLEAN /\ mayDrive = FALSE /\ gate = ~gated /\ outputs = TRUE
  /\ loopAt = "idle" /\ wanted = FALSE
  /\ highPin = "low" /\ lowPin = "off" /\ panicAt = 0 /\ irqs = TRUE

------------------------------------------------------------------------------
(* Handlers *)

\* The tick arms, a tick or a frame disarms.
ArmingChanges ==
  /\ irqs
  /\ mayDrive' = ~mayDrive
  /\ UNCHANGED <<gated, gate, outputs, sectionVars, legVars, panicAt, irqs>>

\* A handler switches the leg: driven, sinking, or floating.
LegSwitched ==
  /\ irqs
  /\ \/ highPin' = "pwm" /\ lowPin' = "off"
     \/ highPin' = "low" /\ lowPin' \in {"on", "off"}
  /\ UNCHANGED <<gated, mayDrive, gate, outputs, sectionVars, panicAt, irqs>>

------------------------------------------------------------------------------
(* The main loop *)

\* drive_gate up to its critical section; it goes on only on a difference.
GateCompared ==
  /\ panicAt = 0 /\ loopAt = "idle" /\ gated
  /\ ~(mayDrive = gate /\ mayDrive = outputs)
  /\ loopAt' = "section" /\ wanted' = mayDrive
  /\ UNCHANGED <<gated, mayDrive, gate, outputs, legVars, panicAt, irqs>>

\* Mutation: the section acts on what the loop read before it.
SetAsRead ==
  /\ panicAt = 0 /\ loopAt = "section"
  /\ gate' = wanted /\ outputs' = wanted
  /\ loopAt' = "idle" /\ wanted' = FALSE
  /\ UNCHANGED <<gated, mayDrive, legVars, panicAt, irqs>>

\* The section reads the flag again; interrupts are off in it.
GateSet ==
  /\ panicAt = 0 /\ loopAt = "section"
  /\ LET on == wanted /\ mayDrive IN gate' = on /\ outputs' = on
  /\ loopAt' = "idle" /\ wanted' = FALSE
  /\ UNCHANGED <<gated, mayDrive, legVars, panicAt, irqs>>

------------------------------------------------------------------------------
(* The panic handler *)

Panics ==
  /\ panicAt = 0 /\ panicAt' = 1
  /\ UNCHANGED <<gated, mayDrive, gate, outputs, sectionVars, legVars, irqs>>

\* The latches of all gate pins low, the pins back to outputs,
LatchesLow ==
  /\ panicAt = 1 /\ panicAt' = 2 /\ lowPin' = "off"
  /\ UNCHANGED <<gated, mayDrive, gate, outputs, sectionVars, highPin, irqs>>
PinsOut ==
  /\ panicAt = 2 /\ panicAt' = 3 /\ highPin' = "low"
  /\ UNCHANGED <<gated, mayDrive, gate, outputs, sectionVars, lowPin, irqs>>
\* MOE, the gate driver,
OutputsOff ==
  /\ panicAt = 3 /\ panicAt' = 4 /\ outputs' = FALSE
  /\ UNCHANGED <<gated, mayDrive, gate, sectionVars, legVars, irqs>>
GateOff ==
  /\ panicAt = 4 /\ panicAt' = 5 /\ gate' = (gate /\ ~gated)
  /\ UNCHANGED <<gated, mayDrive, outputs, sectionVars, legVars, irqs>>
\* and only then the interrupts.
InterruptsOff ==
  /\ panicAt = 5 /\ panicAt' = 6 /\ irqs' = FALSE
  /\ UNCHANGED <<gated, mayDrive, gate, outputs, sectionVars, legVars>>

\* The processor loops for ever.
Halted == panicAt = 6 /\ UNCHANGED outputVars

GateNext ==
  \/ ArmingChanges \/ LegSwitched \/ GateCompared \/ GateSet
  \/ Panics \/ LatchesLow \/ PinsOut \/ OutputsOff \/ GateOff \/ InterruptsOff \/ Halted

GateSpec == GateInit /\ [][GateNext]_outputVars

------------------------------------------------------------------------------
(* Property *)

\* The main loop never turns the gate driver on for a motor that a handler has
\* just disarmed (drive_gate: "a disarmed ESC cannot drive the bridge"), and once
\* the emergency stop has cleared MOE no high side switches again, although
\* handlers still run and set pins until interrupts are off.
GateSafe ==
  [][/\ gated /\ gate' /\ ~gate => mayDrive'
     /\ panicAt' >= 4 => ~(highPin' = "pwm" /\ outputs')]_outputVars
==============================================================================
