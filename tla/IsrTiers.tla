------------------------------- MODULE IsrTiers -------------------------------
(***************************************************************************)
(* The interrupt tiers and their cells (isr_handlers.rs).  The live state  *)
(* is split into three cells that hand out mutable references without a    *)
(* lock: who may hold one is argued from NVIC priorities and PRIMASK.      *)
(* This module makes the argument: contexts preempt one another by         *)
(* priority, a masked section is not preempted, the first context to run   *)
(* installs the staged state, and one port exchanges priorities at run     *)
(* time.  A fourth cell stands for the motor mode, which priority 0        *)
(* updates by a plain load and store.                                      *)
(***************************************************************************)
EXTENDS Naturals

CONSTANTS
  TickLevels,   \* priority of the control tick: 2, or 3 below the frames
  Exchanges     \* whether the port has adjust_irq_priorities (the L431)

Contexts == {"main", "tick", "frame", "dma", "comp", "com"}
Cells    == {"COM_LOCAL", "TICK_LOCAL", "INPUT_LOCAL", "MODE"}

ASSUME TierAssumption == TickLevels \subseteq {2, 3} /\ Exchanges \subseteq BOOLEAN

VARIABLES
  prio,      \* NVIC priorities, smaller is more urgent; thread mode is last
  exchanges, \* this port exchanges priorities
  toSet,     \* the priorities that a running exchange has still to write
  dmaFirst,  \* what it writes
  at,        \* each context's place
  held,      \* the cells each context has a live reference to
  masked,    \* PRIMASK
  staged     \* ISR_STATE_STAGED: the boot state is not in the cells yet

tierVars == <<prio, exchanges, toSet, dmaFirst, at, held, masked, staged>>

Places == {"idle", "entry", "install", "installing", "body", "open", "section"}

\* References a handler holds from its first statement to its last.
Base(c) == CASE c = "tick" -> {"TICK_LOCAL"}
             [] c \in {"comp", "com"} -> {"COM_LOCAL"}
             [] OTHER -> {}

\* What it borrows in one interrupt::free section, besides.  Lower tiers
\* change the motor mode by compare-and-swap, as good as masked.
Sections(c) ==
  CASE c = "main" -> {{"COM_LOCAL", "TICK_LOCAL", "INPUT_LOCAL"}, {"INPUT_LOCAL"}, {"MODE"}}
    [] c = "tick" -> {{"INPUT_LOCAL"}, {"COM_LOCAL", "INPUT_LOCAL"}, {"COM_LOCAL"}, {"MODE"}}
    [] c \in {"frame", "dma"} -> {{"INPUT_LOCAL"}}
    [] OTHER -> {}

\* And what it updates with interrupts open (SingleWriter).
OpenUpdates(c) == IF c = "com" THEN {"MODE"} ELSE {}

Active(c)  == at[c] # "idle"
Running(c) == /\ Active(c)
              /\ \A d \in Contexts \ {c} : Active(d) => prio[c] < prio[d]

TierInit ==
  /\ exchanges \in Exchanges
  /\ \E t \in TickLevels :
       prio = [c \in Contexts |-> CASE c = "main"  -> 4 [] c = "tick" -> t
                                    [] c = "frame" -> 2 [] c = "dma"  -> 1
                                    [] OTHER       -> 0]
  /\ toSet = {} /\ dmaFirst = FALSE
  /\ at = [c \in Contexts |-> "idle"] /\ held = [c \in Contexts |-> {}]
  /\ masked = FALSE /\ staged = TRUE

------------------------------------------------------------------------------
(* Preemption and return *)

MoreUrgent(c, d) == prio[c] < prio[d]

Begin(c) ==
  /\ at[c] = "idle" /\ ~masked
  /\ \A d \in Contexts : Active(d) => MoreUrgent(c, d)
  /\ at' = [at EXCEPT ![c] = "entry"]
  /\ UNCHANGED <<prio, exchanges, toSet, dmaFirst, held, masked, staged>>

Return(c) ==
  /\ Running(c) /\ at[c] = "body"
  /\ at' = [at EXCEPT ![c] = "idle"]
  /\ held' = [held EXCEPT ![c] = {}]
  /\ UNCHANGED <<prio, exchanges, toSet, dmaFirst, masked, staged>>

------------------------------------------------------------------------------
(* ensure_split_init *)

CheckStaged(c) ==
  /\ Running(c) /\ at[c] = "entry"
  /\ IF staged THEN at' = [at EXCEPT ![c] = "install"] /\ UNCHANGED held
               ELSE /\ at' = [at EXCEPT ![c] = "body"]
                    /\ held' = [held EXCEPT ![c] = Base(c)]
  /\ UNCHANGED <<prio, exchanges, toSet, dmaFirst, masked, staged>>

\* take_isr_state: another context may have installed it since the check.
TakeStaged == IF staged THEN Cells ELSE {}

Install(c) ==
  /\ Running(c) /\ at[c] = "install"
  /\ masked' = TRUE
  /\ at' = [at EXCEPT ![c] = "installing"]
  /\ held' = [held EXCEPT ![c] = TakeStaged]
  /\ UNCHANGED <<prio, exchanges, toSet, dmaFirst, staged>>

Installed(c) ==
  /\ Running(c) /\ at[c] = "installing"
  /\ staged' = FALSE /\ masked' = FALSE
  /\ at' = [at EXCEPT ![c] = "body"]
  /\ held' = [held EXCEPT ![c] = Base(c)]
  /\ UNCHANGED <<prio, exchanges, toSet, dmaFirst>>

------------------------------------------------------------------------------
(* Sections *)

Mask(c) ==
  /\ Running(c) /\ at[c] = "body"
  /\ \E s \in Sections(c) : held' = [held EXCEPT ![c] = Base(c) \cup s]
  /\ masked' = TRUE
  /\ at' = [at EXCEPT ![c] = "section"]
  /\ UNCHANGED <<prio, exchanges, toSet, dmaFirst, staged>>

Unmask(c) ==
  /\ Running(c) /\ at[c] = "section"
  /\ c = "main" => toSet = {}
  /\ masked' = FALSE
  /\ at' = [at EXCEPT ![c] = "body"]
  /\ held' = [held EXCEPT ![c] = Base(c)]
  /\ UNCHANGED <<prio, exchanges, toSet, dmaFirst, staged>>

Update(c) ==
  /\ Running(c) /\ at[c] = "body" /\ OpenUpdates(c) # {}
  /\ held' = [held EXCEPT ![c] = Base(c) \cup OpenUpdates(c)]
  /\ at' = [at EXCEPT ![c] = "open"]
  /\ UNCHANGED <<prio, exchanges, toSet, dmaFirst, masked, staged>>

Updated(c) ==
  /\ Running(c) /\ at[c] = "open"
  /\ at' = [at EXCEPT ![c] = "body"]
  /\ held' = [held EXCEPT ![c] = Base(c)]
  /\ UNCHANGED <<prio, exchanges, toSet, dmaFirst, masked, staged>>

------------------------------------------------------------------------------
(* adjust_irq_priorities: three writes to the NVIC in one masked section *)

\* Mutation: the writes are made with interrupts open.
LeftOpen == masked

ExchangeMask == TRUE

Exchange ==
  /\ exchanges
  /\ Running("main") /\ at["main"] = "body"
  /\ toSet' = {"dma", "com", "comp"}
  /\ dmaFirst' \in BOOLEAN
  /\ masked' = ExchangeMask
  /\ at' = [at EXCEPT !["main"] = "section"]
  /\ UNCHANGED <<prio, exchanges, held, staged>>

Level(c, first) == IF (c = "dma") = first THEN 0 ELSE 1

SetPriority(c) ==
  /\ Running("main") /\ c \in toSet
  /\ prio' = [prio EXCEPT ![c] = Level(c, dmaFirst)]
  /\ toSet' = toSet \ {c}
  /\ UNCHANGED <<exchanges, dmaFirst, at, held, masked, staged>>

------------------------------------------------------------------------------
TierNext ==
  \/ \E c \in Contexts :
       \/ Begin(c) \/ Return(c)
       \/ CheckStaged(c) \/ Install(c) \/ Installed(c)
       \/ Mask(c) \/ Unmask(c) \/ Update(c) \/ Updated(c)
       \/ SetPriority(c)
  \/ Exchange

TierSpec == TierInit /\ [][TierNext]_tierVars

------------------------------------------------------------------------------
(* Properties *)

TierTypeOK ==
  /\ prio \in [Contexts -> 0 .. 4]
  /\ exchanges \in BOOLEAN /\ dmaFirst \in BOOLEAN
  /\ toSet \subseteq {"dma", "com", "comp"}
  /\ at \in [Contexts -> Places]
  /\ held \in [Contexts -> SUBSET Cells]
  /\ masked \in BOOLEAN /\ staged \in BOOLEAN

\* No two contexts ever hold a reference to the same cell, whatever preempts
\* whatever, while the priorities are exchanged and while the cells are filled.
CellsExclusive == \A c, d \in Contexts : c # d => held[c] \cap held[d] = {}

\* No cell is used before the boot state is installed, and the live state of a
\* cell is never overwritten by a second installation.
InstalledOnce ==
  \A c \in Contexts :
    /\ at[c] \in {"body", "open", "section"} => ~staged
    /\ at[c] = "installing" /\ held[c] # {} => staged
==============================================================================
