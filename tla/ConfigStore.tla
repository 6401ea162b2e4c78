----------------------------- MODULE ConfigStore -----------------------------
(***************************************************************************)
(* Publication, saving and loading of the settings.  The frame interrupt   *)
(* owns the settings (InputIsrState.config); the control tick and the main *)
(* loop hold copies.  Changed bytes reach the main loop through a bounded  *)
(* queue, the tick through a dirty flag and a whole copy; a queue that     *)
(* overflows makes the main loop take a whole copy too.  A save command    *)
(* sets a flag that the main loop claims before it erases and programs the *)
(* settings page.  A reset may come at any point.                          *)
(*                                                                         *)
(* The value of a byte is the number of writes it has had: what matters is *)
(* which write a copy reflects.  Sections under PRIMASK are one step.      *)
(***************************************************************************)
EXTENDS Naturals, Sequences

CONSTANTS
  LastByte,     \* the bytes are 0 .. LastByte, one per program unit
  QueueLen,     \* slots of the ring: it holds one entry fewer
  MaxVersion,   \* bound: writes of one byte
  RcByte,       \* rc_car_reverse, which overrides ...
  PwmByte,      \* ... comp_pwm, the byte latched for the commutation handlers
  Erased        \* what an erased flash cell holds

Offsets  == 0 .. LastByte
Settings == [Offsets -> Nat]
Entries  == [offset : Offsets, value : Nat]

ASSUME StoreAssumption ==
  /\ LastByte \in Nat
  /\ QueueLen \in Nat \ {0}
  /\ MaxVersion \in Nat
  /\ RcByte \in Offsets /\ PwmByte \in Offsets /\ RcByte # PwmByte
  /\ Erased \notin Nat

VARIABLES
  inp,        \* InputIsrState.config, the owner
  tick,       \* TickIsrState.config
  main,       \* MainState.config
  latched,    \* CFG_COMP_PWM
  dirty,      \* CONFIG_DIRTY
  queue,      \* config_write_queue between tail and head
  overflow,   \* config_write_overflow
  saveFlag,   \* save_settings_flag
  calib,      \* pending_servo_calibration
  highSet,    \* ServoState.high_calibration_set: one calibration per boot
  pc,         \* the main loop's place
  popped,     \* the entry it has read and not yet released, <<>> or <<entry>>
  page,       \* the settings page in flash
  unit,       \* the next unit to program
  asked       \* ghost: the settings at the last save command, <<>> or <<settings>>

saveVars  == <<saveFlag, calib, highSet>>
ramVars   == <<inp, tick, main, latched, dirty, queue, overflow, saveVars>>
storeVars == <<ramVars, pc, popped, page, unit, asked>>

Pcs == {"sine", "resync", "sync", "save", "erase", "program", "lock"}

------------------------------------------------------------------------------
(* The queue *)

Full(q) == Len(q) + 1 >= QueueLen

\* push_config_write for one byte after another: what fits is queued.
Push1(q, c, o) ==
  IF Full(q) THEN q ELSE Append(q, [offset |-> o, value |-> c[o]])

\* The writes to `o` that wait in the queue, and main's byte once it is drained.
Waiting(o) == {i \in 1 .. Len(queue) : queue[i].offset = o}
LastOf(o)  == CHOOSE i \in Waiting(o) : \A j \in Waiting(o) : j <= i

Drained == [o \in Offsets |->
  IF Waiting(o) = {} THEN main[o] ELSE queue[LastOf(o)].value]

------------------------------------------------------------------------------
(* Loading *)

\* rc_car_reverse switches complementary PWM off when the page is loaded.
Normalised(c) == IF c[RcByte] # 0 THEN [c EXCEPT ![PwmByte] = 0] ELSE c

Valid(p) == p[0] # Erased

\* An invalid page gives the defaults.  An erased cell of a page taken as
\* valid reads 0xFF: like the default it is nobody's write.
Loaded(p) ==
  Normalised([o \in Offsets |-> IF Valid(p) /\ p[o] # Erased THEN p[o] ELSE 0])

\* The state after boot: every tier starts from the page.
Boot(p) ==
  /\ inp' = Loaded(p) /\ tick' = Loaded(p) /\ main' = Loaded(p)
  /\ latched' = Loaded(p)[PwmByte]
  /\ dirty' = FALSE /\ queue' = <<>> /\ overflow' = FALSE
  /\ saveFlag' = FALSE /\ calib' = FALSE /\ highSet' = FALSE
  /\ pc' = "sine" /\ popped' = <<>> /\ unit' = 0 /\ asked' = <<>>

StoreInit ==
  /\ page \in {[o \in Offsets |-> Erased], [o \in Offsets |-> 0]}
  /\ inp = Loaded(page) /\ tick = inp /\ main = inp /\ latched = inp[PwmByte]
  /\ dirty = FALSE /\ queue = <<>> /\ overflow = FALSE
  /\ saveFlag = FALSE /\ calib = FALSE /\ highSet = FALSE
  /\ pc = "sine" /\ popped = <<>> /\ unit = 0 /\ asked = <<>>

Reset == Boot(page) /\ UNCHANGED page

------------------------------------------------------------------------------
(* The frame interrupt *)

\* Mutation: the commutation flags are latched and the tick is not told.
ChangedQuietly == latched' = inp'[PwmByte] /\ UNCHANGED dirty

\* A frame that changed the settings latches the flags and marks them dirty.
Changed == latched' = inp'[PwmByte] /\ dirty' = TRUE

\* A command or a programming commit changes one byte.
CommandFrame(o) ==
  /\ inp[o] < MaxVersion
  /\ inp' = [inp EXCEPT ![o] = @ + 1]
  /\ queue' = Push1(queue, inp', o)
  /\ overflow' = (overflow \/ Full(queue))
  /\ Changed
  /\ UNCHANGED <<tick, main, saveVars, pc, popped, page, unit, asked>>

SaveFrame ==
  /\ saveFlag' = TRUE
  /\ asked' = <<inp>>
  /\ UNCHANGED <<inp, tick, main, latched, dirty, queue, overflow, calib, highSet,
                 pc, popped, page, unit>>

\* A completed servo calibration queues both thresholds, changed or not, and
\* asks for a save.  The low threshold comes first.
CalibrationFrame(low, high, changed) ==
  /\ ~highSet
  /\ highSet' = TRUE
  /\ low < high
  /\ changed \subseteq {o \in {low, high} : inp[o] < MaxVersion}
  /\ inp' = [o \in Offsets |-> IF o \in changed THEN inp[o] + 1 ELSE inp[o]]
  /\ queue' = Push1(Push1(queue, inp', low), inp', high)
  /\ overflow' = (overflow \/ Full(queue) \/ Full(Push1(queue, inp', low)))
  /\ calib' = TRUE
  /\ saveFlag' = TRUE
  /\ asked' = <<inp'>>
  /\ IF changed # {} THEN Changed ELSE UNCHANGED <<latched, dirty>>
  /\ UNCHANGED <<tick, main, pc, popped, page, unit>>

Frame ==
  \/ \E o \in Offsets : CommandFrame(o)
  \/ SaveFrame
  \/ \E low, high \in Offsets : \E changed \in SUBSET {low, high} :
       CalibrationFrame(low, high, changed)

------------------------------------------------------------------------------
(* The control tick *)

\* Every path through the tick consumes the flag with the input tier excluded.
TickCopy ==
  /\ dirty
  /\ tick' = inp /\ latched' = inp[PwmByte]
  /\ dirty' = FALSE
  /\ UNCHANGED <<inp, main, queue, overflow, saveVars, pc, popped, page, unit,
                 asked>>

------------------------------------------------------------------------------
(* The main loop *)

\* Mutation: the copy is taken on top of the queue.
SnapshotOverQueue == main' = inp /\ overflow' = FALSE /\ UNCHANGED queue

\* sync_config_snapshot: the queue is emptied first, so that no old byte
\* can be applied to the copy later.
Snapshot == main' = inp /\ overflow' = FALSE /\ queue' = <<>>

\* service_sine brings the copies of the tick and of the main loop up to date.
SineRefresh ==
  /\ pc = "sine"
  /\ pc' = "resync"
  /\ \/ /\ dirty \/ overflow
        /\ dirty' = FALSE
        /\ tick' = inp
        /\ Snapshot
        /\ latched' = inp[PwmByte]
     \/ /\ ~dirty /\ ~overflow
        /\ main' = Drained
        /\ queue' = <<>>
        /\ latched' = main'[PwmByte]
        /\ UNCHANGED <<dirty, tick, overflow>>
  /\ UNCHANGED <<inp, saveVars, popped, page, unit, asked>>

Resync ==
  /\ pc = "resync"
  /\ pc' = "sync"
  /\ IF overflow THEN Snapshot ELSE UNCHANGED <<main, queue, overflow>>
  /\ UNCHANGED <<inp, tick, latched, dirty, saveVars, popped, page, unit, asked>>

\* pop_config_write reads the entry, then releases its slot.
PopRead ==
  /\ pc = "sync" /\ popped = <<>>
  /\ queue # <<>>
  /\ popped' = <<Head(queue)>>
  /\ UNCHANGED <<ramVars, pc, page, unit, asked>>

PopApply ==
  /\ popped # <<>>
  /\ queue' = Tail(queue)
  /\ main' = [main EXCEPT ![popped[1].offset] = popped[1].value]
  /\ popped' = <<>>
  /\ UNCHANGED <<inp, tick, latched, dirty, overflow, saveVars, pc, page, unit,
                 asked>>

Synced ==
  /\ pc = "sync" /\ popped = <<>>
  /\ queue = <<>>
  /\ pc' = "save"
  /\ UNCHANGED <<ramVars, popped, page, unit, asked>>

\* Mutation: the bytes to save are those main happens to hold.
SaveAsSynced == UNCHANGED <<main, queue, overflow>>

SaveSnapshot == Snapshot

\* prepare_config_save claims the request before the flash is touched.
ClaimSave ==
  /\ pc = "save"
  /\ IF saveFlag
     THEN /\ SaveSnapshot
          /\ calib' = FALSE
          /\ saveFlag' = FALSE
          /\ pc' = "erase"
     ELSE /\ pc' = "sine"
          /\ UNCHANGED <<main, queue, overflow, calib, saveFlag>>
  /\ UNCHANGED <<inp, tick, latched, dirty, highSet, popped, page, unit, asked>>

ErasePage ==
  /\ pc = "erase"
  /\ page' = [o \in Offsets |-> Erased]
  /\ unit' = 0
  /\ pc' = "program"
  /\ UNCHANGED <<ramVars, popped, asked>>

ProgramUnit ==
  /\ pc = "program"
  /\ page' = [page EXCEPT ![unit] = main[unit]]
  /\ unit' = IF unit = LastByte THEN 0 ELSE unit + 1
  /\ pc' = IF unit = LastByte THEN "lock" ELSE "program"
  /\ UNCHANGED <<ramVars, popped, asked>>

LockFlash ==
  /\ pc = "lock"
  /\ pc' = "sine"
  /\ UNCHANGED <<ramVars, popped, page, unit, asked>>

MainStep ==
  \/ SineRefresh \/ Resync \/ PopRead \/ PopApply \/ Synced
  \/ ClaimSave \/ ErasePage \/ ProgramUnit \/ LockFlash

StoreNext == Frame \/ TickCopy \/ MainStep \/ Reset

\* The tick is a periodic interrupt and the main loop never blocks.
StoreSpec == StoreInit /\ [][StoreNext]_storeVars
                       /\ WF_storeVars(MainStep) /\ WF_storeVars(TickCopy)

------------------------------------------------------------------------------
(* Properties *)

StoreTypeOK ==
  /\ inp \in Settings /\ tick \in Settings /\ main \in Settings
  /\ latched \in Nat
  /\ dirty \in BOOLEAN /\ overflow \in BOOLEAN
  /\ saveFlag \in BOOLEAN /\ calib \in BOOLEAN /\ highSet \in BOOLEAN
  /\ queue \in Seq(Entries)
  /\ Len(queue) < QueueLen \/ QueueLen = 1
  /\ popped \in Seq(Entries) /\ Len(popped) <= 1
  /\ pc \in Pcs
  /\ page \in [Offsets -> Nat \cup {Erased}]
  /\ unit \in Offsets
  /\ asked \in Seq(Settings) /\ Len(asked) <= 1

\* Unless the queue has overflowed, what waits in it is exactly what separates
\* the main loop's settings from the owner's: no byte is lost, none is stale.
NothingLost == overflow \/ Drained = inp

\* A copy of the settings that is not flagged dirty is the owner's, and the
\* commutation handlers always commutate with the owner's PWM mode.
TickCurrent == (dirty \/ tick = inp) /\ latched = inp[PwmByte]

\* Once a save has been asked for, it is still flagged, or being written with
\* bytes no older than the command, or the page holds such bytes.
SaveKept ==
  asked # <<>> =>
    \/ saveFlag
    \/ pc \in {"erase", "program"} /\ \A o \in Offsets : main[o] >= asked[1][o]
    \/ \A o \in Offsets : page[o] # Erased /\ page[o] >= asked[1][o]

\* Once the owner's settings no longer change, the copies of the main loop and of
\* the tick end up the same, whatever overflows, saves and resets came before.
WritesArrive == <>[][inp' = inp]_inp => <>[](main = inp /\ tick = inp)

\* The queue, the flag and the copies implement the publication promised.
Publication == INSTANCE ConfigPublication
  WITH Readers <- {"tick", "main"},
       live <- inp,
       copy <- [r \in {"tick", "main"} |-> IF r = "tick" THEN tick ELSE main]

CopiesFollow == Publication!PubSpec
==============================================================================
