-------------------------- MODULE ConfigPublication --------------------------
(***************************************************************************)
(* What the configuration path promises, with no queue and no flags: the   *)
(* interrupt tier owns the settings, and every other tier holds a copy     *)
(* that follows it byte by byte, possibly late, never backwards and never  *)
(* ahead.  A byte is represented by the number of writes it has had.       *)
(***************************************************************************)
EXTENDS Naturals

CONSTANTS
  Offsets,   \* byte offsets of the settings record
  Readers    \* the tiers that hold a copy

VARIABLES
  live,      \* the owner's settings
  copy       \* each reader's settings

pubVars == <<live, copy>>

Settings == [Offsets -> Nat]

InStep == copy = [r \in Readers |-> live]

PubInit == live \in Settings /\ InStep

\* The owner writes some bytes.
Write ==
  /\ live' \in Settings
  /\ \A o \in Offsets : live[o] <= live'[o]
  /\ UNCHANGED copy

\* A reader catches up, wholly or in part.
Refresh ==
  /\ copy' \in [Readers -> Settings]
  /\ \A r \in Readers, o \in Offsets :
       copy[r][o] <= copy'[r][o] /\ copy'[r][o] <= live[o]
  /\ UNCHANGED live

\* A reset loads every copy from the same page.
Reload ==
  /\ live' \in Settings
  /\ copy' = [r \in Readers |-> live']

PubNext == Write \/ Refresh \/ Reload

PubSpec == PubInit /\ [][PubNext]_pubVars
==============================================================================
