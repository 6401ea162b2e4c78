-------------------------- MODULE SharedState_proofs --------------------------
(***************************************************************************)
(* What the main loop and the interrupts share.                            *)
(*                                                                         *)
(* The settings path, for any number of bytes, any length of the queue and *)
(* any bound on the writes: what it keeps, and that it implements the      *)
(* abstract publication of ConfigPublication.  The queue is reasoned about *)
(* through two predicates on (queue, main's copy, owner's settings):       *)
(* Tracks, the newest entry of every byte is the owner's value, and        *)
(* Rising, entries never go back nor ahead.                                *)
(*                                                                         *)
(* The borrows of the tier cells, for every priority of the control tick   *)
(* and with or without the exchange of priorities, never overlap.  The     *)
(* invariant says which contexts can be active together (no two of the     *)
(* same priority), that a masked section belongs to the running context,   *)
(* and what each place of a handler holds.                                 *)
(***************************************************************************)
EXTENDS ConfigStore, IsrTiers, TLAPS

Entry(o, v) == [offset |-> o, value |-> v]

At(q, o) == {i \in 1 .. Len(q) : q[i].offset = o}

Tracks(q, m, c) ==
  \A o \in Offsets :
    \/ At(q, o) = {} /\ m[o] = c[o]
    \/ \E i \in At(q, o) : (\A j \in At(q, o) : j <= i) /\ q[i].value = c[o]

Rising(q, m, c) ==
  /\ \A o \in Offsets : m[o] <= c[o]
  /\ \A i \in 1 .. Len(q) :
       /\ m[q[i].offset] <= q[i].value
       /\ q[i].value <= c[q[i].offset]
       /\ \A j \in i .. Len(q) :
            q[j].offset = q[i].offset => q[i].value <= q[j].value

------------------------------------------------------------------------------
(* The queue *)

\* What Append does to the entries, in terms that need no sequences.
LEMMA Appended ==
  ASSUME NEW q \in Seq(Entries), NEW e \in Entries
  PROVE  /\ Append(q, e) \in Seq(Entries)
         /\ Len(Append(q, e)) = Len(q) + 1
         /\ \A i \in 1 .. Len(q) : Append(q, e)[i] = q[i]
         /\ Append(q, e)[Len(q) + 1] = e
OBVIOUS

\* And what Tail does.
LEMMA Shortened ==
  ASSUME NEW q \in Seq(Entries), q # <<>>
  PROVE  /\ Tail(q) \in Seq(Entries)
         /\ Len(q) \in Nat \ {0}
         /\ Len(Tail(q)) = Len(q) - 1
         /\ \A i \in 1 .. Len(q) - 1 : Tail(q)[i] = q[i + 1]
         /\ Head(q) = q[1] /\ q[1] \in Entries
OBVIOUS

LEMMA EntryTypes ==
  ASSUME NEW q \in Seq(Entries), NEW i \in 1 .. Len(q)
  PROVE  q[i].offset \in Offsets /\ q[i].value \in Nat
<1>1. q[i] \in Entries
  OBVIOUS
<1> QED BY <1>1 DEF Entries

\* push_config_write of a new value is the newest entry of its byte.
LEMMA TracksPushed ==
  ASSUME NEW q \in Seq(Entries), NEW m \in Settings, NEW c \in Settings,
         NEW o \in Offsets, NEW v \in Nat, Tracks(q, m, c)
  PROVE  Tracks(Append(q, Entry(o, v)), m, [c EXCEPT ![o] = v])
<1> DEFINE a == Append(q, Entry(o, v))
           n == Len(q) + 1
<1>1. Entry(o, v) \in Entries /\ Entry(o, v).offset = o /\ Entry(o, v).value = v
  BY DEF Entry, Entries
<1>2. /\ Len(q) \in Nat /\ Len(a) = n
      /\ \A i \in 1 .. Len(q) : a[i] = q[i]
      /\ a[n].offset = o /\ a[n].value = v
  BY <1>1, Appended
<1>3. At(a, o) = At(q, o) \cup {n}
  BY <1>2 DEF At
<1>4. \A p \in Offsets \ {o} : At(a, p) = At(q, p)
  BY <1>2 DEF At
<1> HIDE DEF a
<1>5. \E i \in At(a, o) : (\A j \in At(a, o) : j <= i) /\ a[i].value = v
  BY <1>2, <1>3 DEF At
<1>6. ASSUME NEW p \in Offsets \ {o}
      PROVE \/ At(a, p) = {} /\ m[p] = c[p]
            \/ \E i \in At(a, p) : (\A j \in At(a, p) : j <= i) /\ a[i].value = c[p]
  BY <1>2, <1>4 DEF At, Tracks
<1>7. [c EXCEPT ![o] = v][o] = v /\ \A p \in Offsets \ {o} : [c EXCEPT ![o] = v][p] = c[p]
  BY DEF Settings
<1>8. Tracks(a, m, [c EXCEPT ![o] = v])
  BY <1>5, <1>6, <1>7 DEF Tracks
<1> QED BY <1>8 DEF a

\* A popped entry is applied to main's copy and released.
LEMMA TracksPopped ==
  ASSUME NEW q \in Seq(Entries), NEW m \in Settings, NEW c \in Settings,
         q # <<>>, Tracks(q, m, c)
  PROVE  Tracks(Tail(q), [m EXCEPT ![q[1].offset] = q[1].value], c)
<1> DEFINE t == Tail(q)
           k == [m EXCEPT ![q[1].offset] = q[1].value]
<1>1. /\ Len(q) \in Nat \ {0} /\ Len(t) = Len(q) - 1
      /\ \A i \in 1 .. Len(q) - 1 : t[i] = q[i + 1]
      /\ q[1].offset \in Offsets /\ q[1].value \in Nat
  BY Shortened DEF Entries
<1>2. /\ k[q[1].offset] = q[1].value
      /\ \A p \in Offsets \ {q[1].offset} : k[p] = m[p]
  BY <1>1 DEF Settings
<1> HIDE DEF t, k
<1>3. \A p \in Offsets, i \in Nat \ {0, 1} : i \in At(q, p) => i - 1 \in At(t, p) /\ t[i - 1] = q[i]
  BY <1>1 DEF At
<1>4. \A p \in Offsets, i \in Nat \ {0} : i \in At(t, p) => i + 1 \in At(q, p)
  BY <1>1 DEF At
<1>5. ASSUME NEW p \in Offsets
      PROVE \/ At(t, p) = {} /\ k[p] = c[p]
            \/ \E i \in At(t, p) : (\A j \in At(t, p) : j <= i) /\ t[i].value = c[p]
  <2>1. CASE At(q, p) = {}
    <3>1. q[1].offset # p
      BY <1>1, <2>1 DEF At
    <3>2. At(t, p) = {}
      <4>1. \A i \in At(t, p) : i \in Nat \ {0}
        BY <1>1 DEF At
      <4> QED
        BY <1>4, <2>1, <4>1
    <3> QED BY <3>1, <3>2, <1>2, <2>1 DEF Tracks
  <2>2. CASE At(q, p) # {}
    <3>1. PICK i \in At(q, p) : (\A j \in At(q, p) : j <= i) /\ q[i].value = c[p]
      BY <2>2 DEF Tracks
    <3>2. CASE i = 1
      <4>1. At(t, p) = {}
        BY <1>4, <3>1, <3>2, <1>1 DEF At
      <4>2. q[1].offset = p
        BY <3>2, <3>1 DEF At
      <4> QED BY <4>1, <4>2, <1>2, <3>1, <3>2
    <3>3. CASE i # 1
      <4>1. i \in Nat \ {0, 1} /\ i - 1 \in At(t, p) /\ t[i - 1] = q[i]
        BY <1>3, <3>1, <3>3, <1>1 DEF At
      <4>2. \A j \in At(t, p) : j <= i - 1
        BY <1>4, <3>1, <4>1, <1>1 DEF At
      <4> QED BY <4>1, <4>2, <3>1
    <3> QED BY <3>2, <3>3
  <2> QED BY <2>1, <2>2
<1>6. Tracks(t, k, c)
  BY <1>5 DEF Tracks
<1> QED BY <1>6 DEF t, k

\* A newer value keeps the entries in order, queued or not.
LEMMA RisingOwner ==
  ASSUME NEW q \in Seq(Entries), NEW m \in Settings, NEW c \in Settings, NEW d \in Settings,
         \A o \in Offsets : c[o] <= d[o], Rising(q, m, c)
  PROVE  Rising(q, m, d)
<1>1. \A i \in 1 .. Len(q) : q[i].offset \in Offsets /\ q[i].value \in Nat
  BY EntryTypes
<1>2. \A o \in Offsets : m[o] \in Nat /\ c[o] \in Nat /\ d[o] \in Nat
  BY DEF Settings
<1>3. \A o \in Offsets : m[o] <= d[o]
  <2>1. \A o \in Offsets : m[o] <= c[o]
    BY DEF Rising
  <2> QED BY <2>1, <1>2
<1>4. ASSUME NEW i \in 1 .. Len(q)
      PROVE  /\ m[q[i].offset] <= q[i].value /\ q[i].value <= d[q[i].offset]
             /\ \A j \in i .. Len(q) : q[j].offset = q[i].offset => q[i].value <= q[j].value
  <2>1. /\ m[q[i].offset] <= q[i].value /\ q[i].value <= c[q[i].offset]
        /\ \A j \in i .. Len(q) : q[j].offset = q[i].offset => q[i].value <= q[j].value
    BY DEF Rising
  <2>2. q[i].offset \in Offsets /\ q[i].value \in Nat
    BY <1>1
  <2>3. q[i].value <= d[q[i].offset]
    BY <1>2, <2>1, <2>2
  <2> QED BY <2>1, <2>3
<1> QED BY <1>3, <1>4 DEF Rising

LEMMA RisingPushed ==
  ASSUME NEW q \in Seq(Entries), NEW m \in Settings, NEW c \in Settings,
         NEW o \in Offsets, Rising(q, m, c)
  PROVE  Rising(Append(q, Entry(o, c[o])), m, c)
<1> DEFINE a == Append(q, Entry(o, c[o]))
           n == Len(q) + 1
<1>1. Entry(o, c[o]) \in Entries /\ Entry(o, c[o]).offset = o /\ Entry(o, c[o]).value = c[o]
  BY DEF Entry, Entries, Settings
<1>2. /\ Len(q) \in Nat /\ Len(a) = n
      /\ \A i \in 1 .. Len(q) : a[i] = q[i]
      /\ a[n].offset = o /\ a[n].value = c[o]
  BY <1>1, Appended
<1>3. \A i \in 1 .. Len(q) : q[i].offset \in Offsets /\ q[i].value \in Nat
  BY EntryTypes
<1> HIDE DEF a
<1>4. ASSUME NEW i \in 1 .. n
      PROVE  m[a[i].offset] <= a[i].value /\ a[i].value <= c[a[i].offset]
  <2>1. CASE i = n
    BY <1>2, <2>1 DEF Rising, Settings
  <2>2. CASE i # n
    <3>1. i \in 1 .. Len(q) /\ a[i] = q[i]
      BY <1>2, <2>2
    <3> QED BY <3>1 DEF Rising
  <2> QED BY <2>1, <2>2
<1>5. ASSUME NEW i \in 1 .. n, NEW j \in i .. n, a[j].offset = a[i].offset
      PROVE  a[i].value <= a[j].value
  <2>1. CASE j = n
    BY <1>2, <1>4, <1>5, <2>1
  <2>2. CASE j # n
    <3>1. /\ i \in 1 .. Len(q) /\ a[i] = q[i]
          /\ j \in i .. Len(q) /\ a[j] = q[j]
      BY <1>2, <2>2
    <3> QED BY <3>1, <1>5 DEF Rising
  <2> QED BY <2>1, <2>2
<1>6. Rising(a, m, c)
  BY <1>2, <1>4, <1>5 DEF Rising
<1> QED BY <1>6 DEF a

LEMMA RisingPopped ==
  ASSUME NEW q \in Seq(Entries), NEW m \in Settings, NEW c \in Settings,
         q # <<>>, Rising(q, m, c)
  PROVE  /\ Rising(Tail(q), [m EXCEPT ![q[1].offset] = q[1].value], c)
         /\ m[q[1].offset] <= q[1].value
<1> DEFINE t == Tail(q)
           k == [m EXCEPT ![q[1].offset] = q[1].value]
<1>1. /\ Len(q) \in Nat \ {0} /\ Len(t) = Len(q) - 1
      /\ \A i \in 1 .. Len(q) - 1 : t[i] = q[i + 1]
  BY Shortened
<1>2. \A i \in 1 .. Len(q) : q[i].offset \in Offsets /\ q[i].value \in Nat
  BY EntryTypes
<1>3. /\ q[1].offset \in Offsets
      /\ k[q[1].offset] = q[1].value
      /\ \A p \in Offsets \ {q[1].offset} : k[p] = m[p]
  BY <1>1, <1>2 DEF Settings
<1> HIDE DEF t, k
<1>4. \A o \in Offsets : k[o] <= c[o]
  BY <1>1, <1>3 DEF Rising
<1>5. \A i \in 1 .. Len(t) : /\ t[i] = q[i + 1] /\ i + 1 \in 1 .. Len(q)
  BY <1>1
<1>6. ASSUME NEW i \in 1 .. Len(t)
      PROVE  k[t[i].offset] <= t[i].value
  <2>1. t[i] = q[i + 1] /\ i + 1 \in 1 .. Len(q) /\ 1 \in 1 .. Len(q) /\ i + 1 \in 1 .. Len(q)
    BY <1>1, <1>5
  <2>2. q[i + 1].offset \in Offsets
    BY <1>2, <2>1
  <2>3. CASE t[i].offset = q[1].offset
    BY <1>3, <2>1, <2>3 DEF Rising
  <2>4. CASE t[i].offset # q[1].offset
    BY <1>3, <2>1, <2>2, <2>4 DEF Rising
  <2> QED BY <2>3, <2>4
<1>7. \A i \in 1 .. Len(t) : t[i].value <= c[t[i].offset]
  BY <1>5 DEF Rising
<1>8. \A i \in 1 .. Len(t) : \A j \in i .. Len(t) :
        t[j].offset = t[i].offset => t[i].value <= t[j].value
  <2> SUFFICES ASSUME NEW i \in 1 .. Len(t), NEW j \in i .. Len(t), t[j].offset = t[i].offset
               PROVE  t[i].value <= t[j].value
    OBVIOUS
  <2>1. j \in 1 .. Len(t) /\ i + 1 \in 1 .. Len(q) /\ j + 1 \in i + 1 .. Len(q)
    BY <1>1
  <2>2. t[i] = q[i + 1] /\ t[j] = q[j + 1]
    BY <1>5, <2>1
  <2> QED
    BY <2>1, <2>2 DEF Rising
<1>9. Rising(t, k, c)
  BY <1>4, <1>6, <1>7, <1>8 DEF Rising
<1>10. m[q[1].offset] <= q[1].value
  BY <1>1 DEF Rising
<1> QED BY <1>9, <1>10 DEF t, k

\* Draining a queue that tracks the owner gives the owner's settings.
LEMMA DrainedIsOwners ==
  ASSUME main \in Settings, inp \in Settings, queue \in Seq(Entries), Tracks(queue, main, inp)
  PROVE  Drained = inp
<1>1. ASSUME NEW o \in Offsets
      PROVE (IF Waiting(o) = {} THEN main[o] ELSE queue[LastOf(o)].value) = inp[o]
  <2>1. Waiting(o) = At(queue, o)
    BY DEF Waiting, At
  <2>2. CASE Waiting(o) = {}
    BY <2>1, <2>2 DEF Tracks
  <2>3. CASE Waiting(o) # {}
    <3>1. PICK i \in Waiting(o) : (\A j \in Waiting(o) : j <= i) /\ queue[i].value = inp[o]
      BY <2>1, <2>3 DEF Tracks
    <3>2. LastOf(o) \in Waiting(o) /\ \A j \in Waiting(o) : j <= LastOf(o)
      BY <3>1 DEF LastOf
    <3>3. LastOf(o) = i
      BY <3>1, <3>2 DEF Waiting
    <3> QED BY <2>3, <3>1, <3>3
  <2> QED BY <2>2, <2>3
<1> QED BY <1>1 DEF Drained, Settings

\* No copy has a newer byte than another.
NoNewer(c, d) == \A o \in Offsets : c[o] <= d[o]

Fits(q) == q \in Seq(Entries) /\ (Len(q) < QueueLen \/ QueueLen = 1)

\* What a push of byte `o` of settings d, which replace c, leaves true.
Pushed(q, m, c, d, o) ==
  /\ Fits(Push1(q, d, o))
  /\ Rising(Push1(q, d, o), m, d)
  /\ Tracks(q, m, c) /\ ~Full(q) => Tracks(Push1(q, d, o), m, [c EXCEPT ![o] = d[o]])
  /\ q # <<>> => Push1(q, d, o) # <<>> /\ Push1(q, d, o)[1] = q[1]

\* push_config_write of one byte of newer settings d.
LEMMA PushStep ==
  ASSUME NEW q, NEW m \in Settings, NEW c \in Settings, NEW d \in Settings,
         NEW o \in Offsets, Fits(q), NoNewer(c, d), Rising(q, m, c)
  PROVE  Pushed(q, m, c, d, o)
<1> USE DEF Pushed, Fits, NoNewer
<1>1. Rising(q, m, d)
  BY RisingOwner
<1>2. CASE Full(q)
  BY <1>1, <1>2 DEF Push1
<1>3. CASE ~Full(q)
  <2>1. Push1(q, d, o) = Append(q, Entry(o, d[o]))
    BY <1>3 DEF Push1, Entry
  <2>2. Entry(o, d[o]) \in Entries /\ d[o] \in Nat
    BY DEF Entry, Entries, Settings
  <2>3. /\ Append(q, Entry(o, d[o])) \in Seq(Entries)
        /\ Len(Append(q, Entry(o, d[o]))) = Len(q) + 1
        /\ \A i \in 1 .. Len(q) : Append(q, Entry(o, d[o]))[i] = q[i]
    BY <2>2, Appended
  <2>4. Rising(Append(q, Entry(o, d[o])), m, d)
    BY <1>1, RisingPushed
  <2>5. Tracks(q, m, c) => Tracks(Append(q, Entry(o, d[o])), m, [c EXCEPT ![o] = d[o]])
    BY <2>2, TracksPushed
  <2>6. Len(q) + 1 < QueueLen
    BY <1>3, StoreAssumption DEF Full
  <2>7. q # <<>> => 1 \in 1 .. Len(q)
    OBVIOUS
  <2>8. q # <<>> => Append(q, Entry(o, d[o])) # <<>>
    BY <2>3
  <2> QED BY <2>1, <2>3, <2>4, <2>5, <2>6, <2>7, <2>8
<1> QED BY <1>2, <1>3

------------------------------------------------------------------------------
(* The invariant *)

\* The settings the owner's copies hold are no newer than its own.
Behind == \A o \in Offsets : tick[o] <= inp[o]

\* What has been read from the queue and not released is still its head.
PoppedHead ==
  popped # <<>> => pc = "sync" /\ queue # <<>> /\ popped[1] = queue[1]

\* A save was asked for settings the owner had.
AskedPast == asked # <<>> => \A o \in Offsets : asked[1][o] <= inp[o]

\* The units programmed so far hold main's bytes.
Programmed == pc = "program" => \A o \in Offsets : o < unit => page[o] = main[o]

\* A save that is no longer flagged is being written or has been.
SaveHeld ==
  asked # <<>> /\ ~saveFlag =>
    IF pc \in {"erase", "program"}
    THEN \A o \in Offsets : asked[1][o] <= main[o]
    ELSE \A o \in Offsets : page[o] # Erased /\ asked[1][o] <= page[o]

Queued == (overflow \/ Tracks(queue, main, inp)) /\ Rising(queue, main, inp)

StoreInv ==
  /\ StoreTypeOK /\ Queued /\ Behind /\ TickCurrent
  /\ PoppedHead /\ AskedPast /\ Programmed /\ SaveHeld

\* A copy of the owner's settings with an empty queue tracks it.
LEMMA CopyTracks ==
  ASSUME NEW c \in Settings
  PROVE  Tracks(<<>>, c, c) /\ Rising(<<>>, c, c)
BY DEF Tracks, Rising, At, Settings

\* What a frame does to the owner's settings and to the queue.
LEMMA FrameFacts ==
  ASSUME StoreInv, Frame
  PROVE  /\ inp' \in Settings /\ \A o \in Offsets : inp[o] <= inp'[o]
         /\ queue' \in Seq(Entries) /\ (Len(queue') < QueueLen \/ QueueLen = 1)
         /\ overflow' \in BOOLEAN
         /\ overflow' \/ Tracks(queue', main, inp')
         /\ Rising(queue', main, inp')
         /\ queue # <<>> => queue' # <<>> /\ queue'[1] = queue[1]
         /\ latched' \in Nat /\ dirty' \in BOOLEAN /\ TickCurrent'
         /\ saveFlag' \in BOOLEAN /\ calib' \in BOOLEAN /\ highSet' \in BOOLEAN
         /\ (asked' = asked /\ saveFlag' = saveFlag) \/ (asked' = <<inp'>> /\ saveFlag' = TRUE)
         /\ UNCHANGED <<tick, main, pc, popped, page, unit>>
<1>0. /\ inp \in Settings /\ main \in Settings /\ queue \in Seq(Entries)
      /\ Len(queue) < QueueLen \/ QueueLen = 1
      /\ overflow \in BOOLEAN /\ (overflow \/ Tracks(queue, main, inp))
      /\ Rising(queue, main, inp)
      /\ \A o \in Offsets : inp[o] \in Nat
      /\ PwmByte \in Offsets
  BY StoreAssumption DEF StoreInv, StoreTypeOK, Queued, Settings
<1>1. CASE \E o \in Offsets : CommandFrame(o)
  <2>1. PICK o \in Offsets : CommandFrame(o)
    BY <1>1
  <2>2. /\ inp' = [inp EXCEPT ![o] = inp[o] + 1]
        /\ queue' = Push1(queue, inp', o)
        /\ overflow' = (overflow \/ Full(queue))
        /\ latched' = inp'[PwmByte] /\ dirty' = TRUE
        /\ UNCHANGED <<tick, main, saveFlag, calib, highSet, pc, popped, page, unit, asked>>
    BY <2>1 DEF CommandFrame, Changed, saveVars
  <2>3. /\ inp' \in Settings /\ \A p \in Offsets : inp[p] <= inp'[p]
        /\ inp' = [inp EXCEPT ![o] = inp'[o]]
    BY <1>0, <2>2 DEF Settings
  <2>4. /\ queue' \in Seq(Entries) /\ (Len(queue') < QueueLen \/ QueueLen = 1)
        /\ Rising(queue', main, inp')
        /\ Tracks(queue, main, inp) /\ ~Full(queue) => Tracks(queue', main, inp')
        /\ queue # <<>> => queue' # <<>> /\ queue'[1] = queue[1]
    <3>1. Fits(queue) /\ NoNewer(inp, inp')
      BY <1>0, <2>3 DEF Fits, NoNewer
    <3>2. Pushed(queue, main, inp, inp', o)
      BY <1>0, <2>3, <3>1, PushStep
    <3> QED BY <2>2, <2>3, <3>2 DEF Pushed, Fits
  <2>5. overflow' \in BOOLEAN /\ (overflow' \/ (~Full(queue) /\ ~overflow))
    BY <1>0, <2>2
  <2>6. latched' \in Nat /\ dirty' \in BOOLEAN /\ TickCurrent'
    BY <1>0, <2>2, <2>3 DEF TickCurrent, Settings
  <2>7. /\ saveFlag' \in BOOLEAN /\ calib' \in BOOLEAN /\ highSet' \in BOOLEAN
        /\ asked' = asked /\ saveFlag' = saveFlag
    BY <2>2 DEF StoreInv, StoreTypeOK
  <2> QED BY <1>0, <2>2, <2>3, <2>4, <2>5, <2>6, <2>7
<1>3. CASE SaveFrame
  <2>1. UNCHANGED <<inp, queue, overflow, latched, dirty, calib, highSet, tick, main, pc,
                    popped, page, unit>>
    BY <1>3 DEF SaveFrame
  <2>2. saveFlag' = TRUE /\ asked' = <<inp'>>
    BY <1>3 DEF SaveFrame
  <2>3. \A o \in Offsets : inp[o] <= inp'[o]
    BY <1>0, <2>1
  <2>4. latched' \in Nat /\ dirty' \in BOOLEAN /\ TickCurrent' /\ calib' \in BOOLEAN
        /\ highSet' \in BOOLEAN
    BY <2>1 DEF StoreInv, StoreTypeOK, TickCurrent
  <2> QED BY <1>0, <2>1, <2>2, <2>3, <2>4
<1>4. CASE \E low, high \in Offsets : \E changed \in SUBSET {low, high} :
             CalibrationFrame(low, high, changed)
  <2>0. PICK low \in Offsets, high \in Offsets :
          \E changed \in SUBSET {low, high} : CalibrationFrame(low, high, changed)
    BY <1>4
  <2>1. PICK changed \in SUBSET {low, high} : CalibrationFrame(low, high, changed)
    BY <2>0
  <2> DEFINE q == Push1(queue, inp', low)
             c == [inp EXCEPT ![low] = inp'[low]]
  <2>2. /\ inp' \in Settings /\ \A p \in Offsets : inp[p] <= inp'[p]
        /\ \A p \in Offsets \ {low, high} : inp'[p] = inp[p]
        /\ changed = {} => inp' = inp
    BY <2>1, <1>0 DEF CalibrationFrame, Settings
  <2>3. /\ queue' = Push1(q, inp', high)
        /\ overflow' = (overflow \/ Full(queue) \/ Full(q))
        /\ highSet' = TRUE /\ calib' = TRUE /\ saveFlag' = TRUE /\ asked' = <<inp'>>
        /\ UNCHANGED <<tick, main, pc, popped, page, unit>>
    BY <2>1 DEF CalibrationFrame
  <2>4. c \in Settings /\ \A p \in Offsets : inp[p] <= c[p] /\ c[p] <= inp'[p]
    <3>1. inp'[low] \in Nat /\ c \in Settings
      BY <1>0, <2>2 DEF Settings
    <3>2. c[low] = inp'[low] /\ \A p \in Offsets \ {low} : c[p] = inp[p]
      BY <1>0 DEF Settings
    <3>3. \A p \in Offsets : inp'[p] \in Nat
      BY <2>2 DEF Settings
    <3> HIDE DEF c
    <3> QED BY <1>0, <2>2, <3>1, <3>2, <3>3
  <2>5. inp' = [c EXCEPT ![high] = inp'[high]]
    BY <1>0, <2>2 DEF Settings
  <2>6. /\ q \in Seq(Entries) /\ (Len(q) < QueueLen \/ QueueLen = 1)
        /\ Rising(q, main, inp')
        /\ Tracks(queue, main, inp) /\ ~Full(queue) => Tracks(q, main, c)
        /\ queue # <<>> => q # <<>> /\ q[1] = queue[1]
    <3>1. Fits(queue) /\ NoNewer(inp, inp')
      BY <1>0, <2>2 DEF Fits, NoNewer
    <3>2. Pushed(queue, main, inp, inp', low)
      BY <1>0, <2>2, <3>1, PushStep
    <3> QED BY <3>2 DEF Pushed, Fits
  <2> HIDE DEF q, c
  <2>7. /\ queue' \in Seq(Entries) /\ (Len(queue') < QueueLen \/ QueueLen = 1)
        /\ Rising(queue', main, inp')
        /\ q # <<>> => queue' # <<>> /\ queue'[1] = q[1]
    <3>1. Fits(q) /\ NoNewer(inp', inp')
      BY <2>2, <2>6 DEF Fits, NoNewer, Settings
    <3>2. Pushed(q, main, inp', inp', high)
      BY <1>0, <2>2, <2>6, <3>1, PushStep
    <3> QED BY <2>3, <3>2 DEF Pushed, Fits
  <2>8. Tracks(q, main, c) /\ ~Full(q) => Tracks(queue', main, inp')
    <3>1. SUFFICES ASSUME Tracks(q, main, c), ~Full(q) PROVE Tracks(queue', main, inp')
      OBVIOUS
    <3>2. queue' = Append(q, Entry(high, inp'[high]))
      BY <2>3, <3>1 DEF Push1, Entry
    <3>3. inp'[high] \in Nat
      BY <2>2 DEF Settings
    <3> QED BY <1>0, <2>4, <2>5, <2>6, <3>1, <3>2, <3>3, TracksPushed
  <2>9. overflow' \in BOOLEAN /\ (overflow' \/ (~Full(queue) /\ ~Full(q) /\ ~overflow))
    BY <1>0, <2>3
  <2>10. latched' \in Nat /\ dirty' \in BOOLEAN /\ TickCurrent'
    <3>1. CASE changed = {}
      <4>1. inp' = inp /\ latched' = latched /\ dirty' = dirty /\ tick' = tick
        BY <2>1, <2>2, <2>3, <3>1 DEF CalibrationFrame
      <4> QED BY <4>1 DEF StoreInv, StoreTypeOK, TickCurrent
    <3>2. CASE changed # {}
      <4>1. latched' = inp'[PwmByte] /\ dirty' = TRUE
        BY <2>1, <3>2 DEF CalibrationFrame, Changed
      <4> QED BY <4>1, <2>2, <1>0 DEF TickCurrent, Settings
    <3> QED BY <3>1, <3>2
  <2> QED BY <1>0, <2>2, <2>3, <2>6, <2>7, <2>8, <2>9, <2>10
<1> QED BY <1>1, <1>3, <1>4 DEF Frame

------------------------------------------------------------------------------
(* Each step keeps the invariant *)

LEMMA FrameKeeps ==
  ASSUME StoreInv, Frame
  PROVE  StoreInv'
<1>0. StoreTypeOK /\ Behind /\ PoppedHead /\ AskedPast /\ Programmed /\ SaveHeld
  BY DEF StoreInv
<1>1. \A o \in Offsets : inp[o] \in Nat /\ inp'[o] \in Nat /\ inp[o] <= inp'[o]
  BY <1>0, FrameFacts DEF StoreTypeOK, Settings
<1>2. asked' \in Seq(Settings) /\ Len(asked') <= 1
  <2>1. CASE asked' = asked
    BY <1>0, <2>1 DEF StoreTypeOK
  <2>2. CASE asked' = <<inp'>>
    BY <2>2, FrameFacts
  <2> QED BY <2>1, <2>2, FrameFacts
<1>3. StoreTypeOK'
  BY <1>0, <1>2, FrameFacts DEF StoreTypeOK
<1>4. Queued'
  BY FrameFacts DEF Queued
<1>5. Behind'
  BY <1>0, <1>1, FrameFacts DEF Behind, StoreTypeOK, Settings
<1>6. PoppedHead'
  BY <1>0, FrameFacts DEF PoppedHead
<1>7. AskedPast'
  <2>1. CASE asked' = asked
    <3>1. asked # <<>> => asked[1] \in Settings
      BY <1>0 DEF StoreTypeOK
    <3> QED BY <1>0, <1>1, <2>1, <3>1 DEF AskedPast, Settings
  <2>2. CASE asked' = <<inp'>>
    BY <1>1, <2>2 DEF AskedPast
  <2> QED BY <2>1, <2>2, FrameFacts
<1>8. Programmed'
  BY <1>0, FrameFacts DEF Programmed
<1>9. SaveHeld'
  BY <1>0, FrameFacts DEF SaveHeld
<1> QED BY <1>3, <1>4, <1>5, <1>6, <1>7, <1>8, <1>9, FrameFacts DEF StoreInv

LEMMA TickKeeps ==
  ASSUME StoreInv, TickCopy
  PROVE  StoreInv'
<1> USE DEF StoreInv, TickCopy, saveVars
<1>1. StoreTypeOK'
  BY StoreAssumption DEF StoreTypeOK, Settings
<1>2. Queued'
  BY DEF Queued
<1>3. Behind' /\ TickCurrent'
  BY DEF Behind, TickCurrent, StoreTypeOK, Settings
<1>4. PoppedHead' /\ AskedPast' /\ Programmed' /\ SaveHeld'
  BY DEF PoppedHead, AskedPast, Programmed, SaveHeld
<1> QED BY <1>1, <1>2, <1>3, <1>4

\* A whole copy brings main level with the owner.
LEMMA SnapshotFacts ==
  ASSUME StoreInv, Snapshot, inp' = inp
  PROVE  /\ main' = inp /\ main' \in Settings
         /\ queue' = <<>> /\ queue' \in Seq(Entries) /\ (Len(queue') < QueueLen \/ QueueLen = 1)
         /\ overflow' = FALSE
         /\ Queued'
<1>1. inp \in Settings /\ QueueLen \in Nat \ {0}
  BY StoreAssumption DEF StoreInv, StoreTypeOK
<1>2. Tracks(<<>>, inp, inp) /\ Rising(<<>>, inp, inp)
  BY <1>1, CopyTracks
<1> QED BY <1>1, <1>2 DEF Snapshot, Queued

LEMMA SineKeeps ==
  ASSUME StoreInv, SineRefresh
  PROVE  StoreInv'
<1>0. /\ StoreTypeOK /\ Queued /\ Behind /\ TickCurrent /\ PoppedHead /\ AskedPast /\ SaveHeld
      /\ inp \in Settings /\ main \in Settings /\ queue \in Seq(Entries)
      /\ pc = "sine" /\ pc' = "resync" /\ popped = <<>>
      /\ UNCHANGED <<inp, saveFlag, calib, highSet, popped, page, unit, asked>>
  BY DEF StoreInv, StoreTypeOK, SineRefresh, PoppedHead, saveVars
<1>1. /\ main' = inp /\ main' \in Settings
      /\ queue' = <<>> /\ queue' \in Seq(Entries) /\ (Len(queue') < QueueLen \/ QueueLen = 1)
      /\ overflow' \in BOOLEAN /\ Queued'
  <2>1. CASE Snapshot
    BY <1>0, <2>1, SnapshotFacts
  <2>2. CASE ~overflow /\ main' = Drained /\ queue' = <<>> /\ overflow' = overflow
    <3>1. Drained = inp
      BY <1>0, <2>2, DrainedIsOwners DEF Queued
    <3>2. Tracks(<<>>, inp, inp) /\ Rising(<<>>, inp, inp)
      BY <1>0, CopyTracks
    <3>3. main' = inp' /\ queue' = <<>>
      BY <1>0, <2>2, <3>1
    <3>4. Queued'
      BY <1>0, <3>2, <3>3 DEF Queued
    <3>5. overflow' \in BOOLEAN
      BY <1>0, <2>2 DEF StoreTypeOK
    <3>6. main' = inp /\ main' \in Settings
      BY <1>0, <2>2, <3>1
    <3>7. queue' = <<>> /\ queue' \in Seq(Entries) /\ (Len(queue') < QueueLen \/ QueueLen = 1)
      BY <3>3, StoreAssumption
    <3> QED BY <3>4, <3>5, <3>6, <3>7
  <2> QED BY <2>1, <2>2 DEF SineRefresh
<1>2. tick' \in Settings /\ latched' \in Nat /\ dirty' \in BOOLEAN
  <2>1. tick' \in {tick, inp} /\ latched' \in {inp[PwmByte], main'[PwmByte]}
        /\ dirty' \in {FALSE, dirty}
    BY DEF SineRefresh
  <2> QED BY <1>0, <1>1, <2>1, StoreAssumption DEF StoreTypeOK, Settings
<1>3. StoreTypeOK'
  BY <1>0, <1>1, <1>2 DEF StoreTypeOK, Pcs
<1>4. Behind' /\ TickCurrent'
  <2>1. latched' = inp'[PwmByte]
    BY <1>0, <1>1 DEF SineRefresh
  <2>2. tick' = inp \/ (tick' = tick /\ dirty' = dirty)
    BY DEF SineRefresh
  <2> QED BY <1>0, <2>1, <2>2 DEF Behind, TickCurrent, Settings
<1>5. PoppedHead' /\ AskedPast' /\ Programmed' /\ SaveHeld'
  BY <1>0 DEF PoppedHead, AskedPast, Programmed, SaveHeld
<1> QED BY <1>1, <1>3, <1>4, <1>5 DEF StoreInv

LEMMA ResyncKeeps ==
  ASSUME StoreInv, Resync
  PROVE  StoreInv'
<1>0. /\ StoreTypeOK /\ Queued /\ Behind /\ TickCurrent /\ PoppedHead /\ AskedPast /\ SaveHeld
      /\ pc = "resync" /\ pc' = "sync" /\ popped = <<>>
      /\ UNCHANGED <<inp, tick, latched, dirty, saveFlag, calib, highSet, popped, page,
                     unit, asked>>
  BY DEF StoreInv, Resync, PoppedHead, saveVars
<1>1. /\ main' \in Settings
      /\ queue' \in Seq(Entries) /\ (Len(queue') < QueueLen \/ QueueLen = 1)
      /\ overflow' \in BOOLEAN /\ Queued'
  <2>1. CASE Snapshot
    BY <1>0, <2>1, SnapshotFacts
  <2>2. CASE UNCHANGED <<main, queue, overflow>>
    BY <1>0, <2>2 DEF StoreTypeOK, Queued
  <2> QED BY <2>1, <2>2 DEF Resync
<1>2. StoreTypeOK'
  BY <1>0, <1>1 DEF StoreTypeOK, Pcs
<1>3. Behind' /\ TickCurrent' /\ PoppedHead' /\ AskedPast' /\ Programmed' /\ SaveHeld'
  BY <1>0 DEF Behind, TickCurrent, PoppedHead, AskedPast, Programmed, SaveHeld
<1> QED BY <1>1, <1>2, <1>3 DEF StoreInv

LEMMA PopKeeps ==
  ASSUME StoreInv, PopRead \/ PopApply \/ Synced
  PROVE  StoreInv'
<1>0. /\ StoreTypeOK /\ Queued /\ Behind /\ TickCurrent /\ PoppedHead /\ AskedPast
      /\ Programmed /\ SaveHeld
      /\ inp \in Settings /\ main \in Settings /\ queue \in Seq(Entries)
  BY DEF StoreInv, StoreTypeOK
<1>1. CASE PopRead
  <2>1. /\ UNCHANGED <<inp, tick, main, latched, dirty, queue, overflow, saveFlag, calib,
                       highSet, pc, page, unit, asked>>
        /\ pc = "sync" /\ queue # <<>> /\ popped' = <<Head(queue)>>
    BY <1>1 DEF PopRead, ramVars, saveVars
  <2>2. Head(queue) = queue[1] /\ queue[1] \in Entries
    BY <1>0, <2>1, Shortened
  <2>3. popped' \in Seq(Entries) /\ Len(popped') = 1 /\ popped'[1] = queue[1]
    BY <2>1, <2>2
  <2>4. StoreTypeOK'
    BY <1>0, <2>1, <2>3 DEF StoreTypeOK
  <2>5. Queued' /\ Behind' /\ TickCurrent' /\ PoppedHead' /\ AskedPast' /\ Programmed' /\ SaveHeld'
    BY <1>0, <2>1, <2>3
       DEF Queued, Behind, TickCurrent, PoppedHead, AskedPast, Programmed, SaveHeld
  <2> QED BY <2>4, <2>5 DEF StoreInv
<1>2. CASE PopApply
  <2>1. /\ UNCHANGED <<inp, tick, latched, dirty, overflow, saveFlag, calib, highSet, pc,
                       page, unit, asked>>
        /\ pc = "sync" /\ queue # <<>> /\ queue' = Tail(queue) /\ popped' = <<>>
        /\ main' = [main EXCEPT ![queue[1].offset] = queue[1].value]
    BY <1>0, <1>2 DEF PopApply, PoppedHead, saveVars
  <2>2. /\ queue' \in Seq(Entries) /\ Len(queue') = Len(queue) - 1 /\ Len(queue) \in Nat
        /\ queue[1] \in Entries
    BY <1>0, <2>1, Shortened
  <2>3. main' \in Settings
    BY <1>0, <2>1, <2>2 DEF Settings, Entries
  <2>4. StoreTypeOK'
    BY <1>0, <2>1, <2>2, <2>3, StoreAssumption DEF StoreTypeOK
  <2>5. Rising(queue', main', inp)
    BY <1>0, <2>1, RisingPopped DEF Queued
  <2>6. overflow \/ Tracks(queue', main', inp)
    BY <1>0, <2>1, TracksPopped DEF Queued
  <2>7. Queued'
    BY <2>1, <2>5, <2>6 DEF Queued
  <2>8. Behind' /\ TickCurrent' /\ PoppedHead' /\ AskedPast' /\ Programmed' /\ SaveHeld'
    BY <1>0, <2>1 DEF Behind, TickCurrent, PoppedHead, AskedPast, Programmed, SaveHeld
  <2> QED BY <2>4, <2>7, <2>8 DEF StoreInv
<1>3. CASE Synced
  <2>1. /\ UNCHANGED <<inp, tick, main, latched, dirty, queue, overflow, saveFlag, calib,
                       highSet, popped, page, unit, asked>>
        /\ pc = "sync" /\ pc' = "save" /\ popped = <<>>
    BY <1>3 DEF Synced, ramVars, saveVars
  <2>2. StoreTypeOK'
    BY <1>0, <2>1 DEF StoreTypeOK, Pcs
  <2>3. Queued' /\ Behind' /\ TickCurrent' /\ PoppedHead' /\ AskedPast' /\ Programmed' /\ SaveHeld'
    BY <1>0, <2>1 DEF Queued, Behind, TickCurrent, PoppedHead, AskedPast, Programmed, SaveHeld
  <2> QED BY <2>2, <2>3 DEF StoreInv
<1> QED BY <1>1, <1>2, <1>3
LEMMA ClaimKeeps ==
  ASSUME StoreInv, ClaimSave
  PROVE  StoreInv'
<1>0. /\ StoreTypeOK /\ Queued /\ Behind /\ TickCurrent /\ PoppedHead /\ AskedPast /\ SaveHeld
      /\ pc = "save" /\ popped = <<>>
      /\ UNCHANGED <<inp, tick, latched, dirty, highSet, popped, page, unit, asked>>
  BY DEF StoreInv, ClaimSave, PoppedHead
<1>1. CASE saveFlag
  <2>1. Snapshot /\ calib' = FALSE /\ saveFlag' = FALSE /\ pc' = "erase"
    BY <1>1 DEF ClaimSave, SaveSnapshot
  <2>2. /\ main' = inp /\ main' \in Settings
        /\ queue' = <<>> /\ queue' \in Seq(Entries) /\ (Len(queue') < QueueLen \/ QueueLen = 1)
        /\ overflow' = FALSE /\ Queued'
    BY <1>0, <2>1, SnapshotFacts
  <2>3. StoreTypeOK'
    BY <1>0, <2>1, <2>2 DEF StoreTypeOK, Pcs
  <2>4. Behind' /\ TickCurrent' /\ PoppedHead' /\ AskedPast' /\ Programmed' /\ SaveHeld'
    BY <1>0, <2>1, <2>2
       DEF Behind, TickCurrent, PoppedHead, AskedPast, Programmed, SaveHeld
  <2> QED BY <2>2, <2>3, <2>4 DEF StoreInv
<1>2. CASE ~saveFlag
  <2>1. pc' = "sine" /\ UNCHANGED <<main, queue, overflow, calib, saveFlag>>
    BY <1>2 DEF ClaimSave
  <2>2. StoreTypeOK'
    BY <1>0, <2>1 DEF StoreTypeOK, Pcs
  <2>3. Queued' /\ Behind' /\ TickCurrent' /\ PoppedHead' /\ AskedPast' /\ Programmed' /\ SaveHeld'
    BY <1>0, <2>1 DEF Queued, Behind, TickCurrent, PoppedHead, AskedPast, Programmed, SaveHeld
  <2> QED BY <2>2, <2>3 DEF StoreInv
<1> QED BY <1>1, <1>2

\* The flash: erased whole, programmed unit by unit from main's copy.
LEMMA FlashKeeps ==
  ASSUME StoreInv, ErasePage \/ ProgramUnit \/ LockFlash
  PROVE  StoreInv'
<1>0. /\ StoreTypeOK /\ Queued /\ Behind /\ TickCurrent /\ PoppedHead /\ AskedPast
      /\ Programmed /\ SaveHeld
      /\ UNCHANGED <<inp, tick, main, latched, dirty, queue, overflow, saveFlag, calib,
                     highSet, popped, asked>>
      /\ LastByte \in Nat /\ Erased \notin Nat
  BY StoreAssumption DEF StoreInv, ErasePage, ProgramUnit, LockFlash, ramVars, saveVars
<1>1. CASE ErasePage
  <2>1. pc = "erase" /\ pc' = "program" /\ unit' = 0 /\ page' = [o \in Offsets |-> Erased]
    BY <1>1 DEF ErasePage
  <2>2. StoreTypeOK'
    BY <1>0, <2>1 DEF StoreTypeOK, Pcs, Offsets
  <2>3. Programmed'
    BY <2>1 DEF Programmed, Offsets
  <2>4. Queued' /\ Behind' /\ TickCurrent' /\ PoppedHead' /\ AskedPast' /\ SaveHeld'
    BY <1>0, <2>1 DEF Queued, Behind, TickCurrent, PoppedHead, AskedPast, SaveHeld
  <2> QED BY <2>2, <2>3, <2>4 DEF StoreInv
<1>2. CASE ProgramUnit
  <2>1. /\ pc = "program" /\ page' = [page EXCEPT ![unit] = main[unit]]
        /\ unit = LastByte => unit' = 0 /\ pc' = "lock"
        /\ unit # LastByte => unit' = unit + 1 /\ pc' = "program"
    BY <1>2 DEF ProgramUnit
  <2>2. /\ unit \in 0 .. LastByte /\ page \in [Offsets -> Nat \cup {Erased}]
        /\ main \in [Offsets -> Nat]
    BY <1>0 DEF StoreTypeOK, Offsets, Settings
  <2>3. /\ page' \in [Offsets -> Nat \cup {Erased}]
        /\ page'[unit] = main[unit]
        /\ \A o \in Offsets \ {unit} : page'[o] = page[o]
    BY <2>1, <2>2 DEF Offsets
  <2>4. StoreTypeOK'
    <3>1. unit' \in Offsets /\ pc' \in Pcs
      BY <1>0, <2>1, <2>2 DEF Offsets, Pcs
    <3> QED BY <1>0, <2>3, <3>1 DEF StoreTypeOK
  <2>5. \A o \in Offsets : o <= unit => page'[o] = main[o]
    BY <1>0, <2>1, <2>2, <2>3 DEF Programmed, Offsets
  <2>6. Programmed'
    BY <1>0, <2>1, <2>2, <2>5 DEF Programmed, Offsets
  <2>7. SaveHeld'
    <3>1. CASE unit = LastByte
      <4>1. \A o \in Offsets : page'[o] = main[o] /\ main[o] \in Nat
        BY <2>2, <2>5, <3>1 DEF Offsets
      <4>2. asked # <<>> /\ ~saveFlag => \A o \in Offsets : asked[1][o] <= main[o]
        BY <1>0, <2>1 DEF SaveHeld
      <4> QED BY <1>0, <2>1, <3>1, <4>1, <4>2 DEF SaveHeld
    <3>2. CASE unit # LastByte
      BY <1>0, <2>1, <3>2 DEF SaveHeld
    <3> QED BY <3>1, <3>2
  <2>8. Queued' /\ Behind' /\ TickCurrent' /\ PoppedHead' /\ AskedPast'
    BY <1>0, <2>1 DEF Queued, Behind, TickCurrent, PoppedHead, AskedPast
  <2> QED BY <2>4, <2>6, <2>7, <2>8 DEF StoreInv
<1>3. CASE LockFlash
  <2>1. pc = "lock" /\ pc' = "sine" /\ UNCHANGED <<page, unit>>
    BY <1>3 DEF LockFlash
  <2>2. StoreTypeOK'
    BY <1>0, <2>1 DEF StoreTypeOK, Pcs
  <2>3. Queued' /\ Behind' /\ TickCurrent' /\ PoppedHead' /\ AskedPast' /\ Programmed' /\ SaveHeld'
    BY <1>0, <2>1 DEF Queued, Behind, TickCurrent, PoppedHead, AskedPast, Programmed, SaveHeld
  <2> QED BY <2>2, <2>3 DEF StoreInv
<1> QED BY <1>1, <1>2, <1>3

\* Loading gives settings whatever the page holds.
LEMMA LoadedTypes ==
  ASSUME NEW p \in [Offsets -> Nat \cup {Erased}]
  PROVE  Loaded(p) \in Settings
<1> DEFINE d == [o \in Offsets |-> IF Valid(p) /\ p[o] # Erased THEN p[o] ELSE 0]
<1>1. d \in Settings
  BY DEF Settings
<1>2. Normalised(d) \in Settings
  BY <1>1, StoreAssumption DEF Normalised, Settings
<1> QED BY <1>2 DEF Loaded

\* A boot starts every copy from the page.
LEMMA BootKeeps ==
  ASSUME page \in [Offsets -> Nat \cup {Erased}], Boot(page), page' = page
  PROVE  StoreInv'
<1> DEFINE c == Loaded(page)
<1>1. c \in Settings /\ PwmByte \in Offsets /\ 0 \in Offsets /\ QueueLen \in Nat \ {0}
  BY LoadedTypes, StoreAssumption DEF Offsets
<1>2. /\ inp' = c /\ tick' = c /\ main' = c /\ latched' = c[PwmByte]
      /\ dirty' = FALSE /\ queue' = <<>> /\ overflow' = FALSE /\ saveFlag' = FALSE
      /\ calib' = FALSE /\ highSet' = FALSE /\ pc' = "sine" /\ popped' = <<>>
      /\ unit' = 0 /\ asked' = <<>>
  BY DEF Boot
<1> HIDE DEF c
<1>3. Tracks(<<>>, c, c) /\ Rising(<<>>, c, c)
  BY <1>1, CopyTracks
<1>4. StoreTypeOK'
  BY <1>1, <1>2 DEF StoreTypeOK, Pcs, Settings
<1>5. Queued'
  BY <1>2, <1>3 DEF Queued
<1>6. Behind' /\ TickCurrent'
  BY <1>1, <1>2 DEF Behind, TickCurrent, Settings
<1>7. PoppedHead' /\ AskedPast' /\ Programmed' /\ SaveHeld'
  BY <1>2 DEF PoppedHead, AskedPast, Programmed, SaveHeld
<1> QED BY <1>4, <1>5, <1>6, <1>7 DEF StoreInv

------------------------------------------------------------------------------
(* The theorems *)

\* The inductive invariant of the settings path: queue, copies, save and page.
THEOREM StoreInvariant == StoreSpec => []StoreInv
<1>1. StoreInit => StoreInv
  <2> SUFFICES ASSUME StoreInit PROVE StoreInv
    OBVIOUS
  <2> DEFINE c == Loaded(page)
  <2>1. page \in [Offsets -> Nat \cup {Erased}]
    BY DEF StoreInit
  <2>2. c \in Settings /\ PwmByte \in Offsets /\ 0 \in Offsets /\ QueueLen \in Nat \ {0}
    BY <2>1, LoadedTypes, StoreAssumption DEF Offsets
  <2>3. /\ inp = c /\ tick = c /\ main = c /\ latched = c[PwmByte]
        /\ dirty = FALSE /\ queue = <<>> /\ overflow = FALSE /\ saveFlag = FALSE
        /\ calib = FALSE /\ highSet = FALSE /\ pc = "sine" /\ popped = <<>>
        /\ unit = 0 /\ asked = <<>>
    BY DEF StoreInit
  <2> HIDE DEF c
  <2>4. Tracks(<<>>, c, c) /\ Rising(<<>>, c, c)
    BY <2>2, CopyTracks
  <2>5. StoreTypeOK
    <3>1. c[PwmByte] \in Nat
      BY <2>2 DEF Settings
    <3>2. queue \in Seq(Entries) /\ popped \in Seq(Entries) /\ asked \in Seq(Settings)
          /\ Len(queue) = 0 /\ Len(popped) = 0 /\ Len(asked) = 0
      BY <2>3
    <3> QED BY <2>1, <2>2, <2>3, <3>1, <3>2 DEF StoreTypeOK, Pcs
  <2>6. Behind /\ TickCurrent
    BY <2>2, <2>3 DEF Behind, TickCurrent, Settings
  <2>7. Queued /\ PoppedHead /\ AskedPast /\ Programmed /\ SaveHeld
    BY <2>3, <2>4 DEF Queued, PoppedHead, AskedPast, Programmed, SaveHeld
  <2> QED BY <2>5, <2>6, <2>7 DEF StoreInv
<1>2. StoreInv /\ [StoreNext]_storeVars => StoreInv'
  <2> SUFFICES ASSUME StoreInv, [StoreNext]_storeVars PROVE StoreInv'
    OBVIOUS
  <2>1. CASE Frame
    BY <2>1, FrameKeeps
  <2>2. CASE TickCopy
    BY <2>2, TickKeeps
  <2>3. CASE MainStep
    BY <2>3, SineKeeps, ResyncKeeps, PopKeeps, ClaimKeeps, FlashKeeps DEF MainStep
  <2>4. CASE Reset
    BY <2>4, BootKeeps DEF Reset, StoreInv, StoreTypeOK
  <2>5. CASE UNCHANGED storeVars
    BY <2>5 DEF storeVars, ramVars, saveVars, StoreInv, StoreTypeOK, Queued, Behind,
                TickCurrent, PoppedHead, AskedPast, Programmed, SaveHeld
  <2> QED BY <2>1, <2>2, <2>3, <2>4, <2>5 DEF StoreNext
<1> QED BY <1>1, <1>2, PTL DEF StoreSpec

\* Every variable of the settings path keeps its type.
THEOREM StoreTypes == StoreSpec => []StoreTypeOK
<1>1. StoreInv => StoreTypeOK
  BY DEF StoreInv
<1> QED BY <1>1, StoreInvariant, PTL

\* push_config_write and sync_config_writes (shared_state.rs:387-421,
\* system.rs:100): unless it has overflowed, the queue holds exactly what
\* separates the main loop's settings from the owner's.
THEOREM QueueLosesNothing == StoreSpec => []NothingLost
<1>1. StoreInv => NothingLost
  BY DrainedIsOwners DEF StoreInv, StoreTypeOK, Queued, NothingLost
<1> QED BY <1>1, StoreInvariant, PTL

\* CONFIG_DIRTY (isr_handlers.rs:171-176, 249-265, 357-411): whoever consumes
\* the flag, no stale copy is left unflagged.
THEOREM NoStaleTick == StoreSpec => []TickCurrent
<1>1. StoreInv => TickCurrent
  BY DEF StoreInv
<1> QED BY <1>1, StoreInvariant, PTL

\* prepare_config_save and the flash (system.rs:124, flash.rs:78-109): a save
\* command is flagged, being written, or on the page, until a reset.
THEOREM SavesHeld == StoreSpec => []SaveKept
<1>1. StoreInv => SaveKept
  <2> SUFFICES ASSUME StoreInv, asked # <<>>, ~saveFlag
               PROVE  \/ /\ pc \in {"erase", "program"}
                         /\ \A o \in Offsets : main[o] >= asked[1][o]
                      \/ \A o \in Offsets : page[o] # Erased /\ page[o] >= asked[1][o]
    BY DEF SaveKept
  <2>1. asked[1] \in Settings /\ main \in Settings
    BY DEF StoreInv, StoreTypeOK
  <2>2. \A o \in Offsets : /\ asked[1][o] \in Nat /\ main[o] \in Nat
                           /\ page[o] # Erased => page[o] \in Nat
    BY <2>1 DEF StoreInv, StoreTypeOK, Settings
  <2>3. CASE pc \in {"erase", "program"}
    BY <2>2, <2>3 DEF StoreInv, SaveHeld
  <2>4. CASE pc \notin {"erase", "program"}
    BY <2>2, <2>4 DEF StoreInv, SaveHeld
  <2> QED BY <2>3, <2>4
<1> QED BY <1>1, StoreInvariant, PTL
\* The queue, the dirty flag and the copies implement the publication that
\* ConfigPublication promises: each copy follows the owner byte by byte, never
\* backwards and never ahead, and a reset brings them level.
THEOREM StoreImplementsPublication == StoreSpec => CopiesFollow
<1> DEFINE readers == {"tick", "main"}
           copy == [r \in readers |-> IF r = "tick" THEN tick ELSE main]
<1>1. StoreInit => Publication!PubInit
  <2> SUFFICES ASSUME StoreInit PROVE Publication!PubInit
    OBVIOUS
  <2>1. inp \in Settings /\ tick = inp /\ main = inp
    BY LoadedTypes DEF StoreInit
  <2> QED BY <2>1 DEF Publication!PubInit, Publication!InStep, Publication!Settings, Settings
<1>2. StoreInv /\ StoreInv' /\ [StoreNext]_storeVars
        => [Publication!PubNext]_(Publication!pubVars)
  <2> SUFFICES ASSUME StoreInv, StoreInv', [StoreNext]_storeVars
               PROVE  Publication!PubNext \/ UNCHANGED Publication!pubVars
    OBVIOUS
  <2>1. /\ inp \in Settings /\ tick \in Settings /\ main \in Settings
        /\ inp' \in Settings /\ tick' \in Settings /\ main' \in Settings
        /\ copy["tick"] = tick /\ copy["main"] = main
        /\ copy'["tick"] = tick' /\ copy'["main"] = main'
        /\ copy' \in [readers -> Settings]
    BY DEF StoreInv, StoreTypeOK
  <2>2. \A o \in Offsets : /\ inp[o] \in Nat /\ tick[o] \in Nat /\ main[o] \in Nat
                           /\ tick[o] <= inp[o] /\ main[o] <= inp[o]
    BY <2>1 DEF StoreInv, Behind, Queued, Rising, Settings
  <2>3. ASSUME UNCHANGED <<inp, tick, main>>
        PROVE  UNCHANGED Publication!pubVars
    BY <2>3 DEF Publication!pubVars
  <2>4. ASSUME inp' = inp,
               \A o \in Offsets : /\ tick[o] <= tick'[o] /\ tick'[o] <= inp[o]
                                  /\ main[o] <= main'[o] /\ main'[o] <= inp[o]
        PROVE  Publication!PubNext
    <3>1. \A r \in readers, o \in Offsets :
            copy[r][o] <= copy'[r][o] /\ copy'[r][o] <= inp[o]
      BY <2>1, <2>4
    <3>2. Publication!Refresh
      BY <2>1, <2>4, <3>1 DEF Publication!Refresh, Publication!Settings, Settings
    <3> QED BY <3>2 DEF Publication!PubNext
  <2>5. CASE Frame
    <3>1. /\ \A o \in Offsets : inp[o] <= inp'[o]
          /\ UNCHANGED <<tick, main>>
      BY <2>5, FrameFacts
    <3>2. Publication!Write
      BY <2>1, <3>1 DEF Publication!Write, Publication!Settings, Settings
    <3> QED BY <3>2 DEF Publication!PubNext
  <2>6. CASE TickCopy
    <3>1. inp' = inp /\ tick' = inp /\ main' = main
      BY <2>6 DEF TickCopy
    <3> QED BY <2>2, <2>4, <3>1
  <2>7. CASE SineRefresh \/ Resync \/ ClaimSave
    <3>1. inp' = inp /\ tick' \in {tick, inp} /\ main' \in {main, inp}
      <4>1. CASE SineRefresh
        <5>1. inp' = inp /\ tick' \in {tick, inp}
          BY <4>1 DEF SineRefresh
        <5>2. main' \in {main, inp}
          <6>1. CASE Snapshot
            BY <6>1 DEF Snapshot
          <6>2. CASE ~overflow /\ main' = Drained
            BY <6>2, DrainedIsOwners DEF StoreInv, StoreTypeOK, Queued
          <6> QED BY <4>1, <6>1, <6>2 DEF SineRefresh
        <5> QED BY <5>1, <5>2
      <4>2. CASE Resync
        BY <4>2 DEF Resync, Snapshot
      <4>3. CASE ClaimSave
        BY <4>3 DEF ClaimSave, SaveSnapshot, Snapshot
      <4> QED BY <2>7, <4>1, <4>2, <4>3
    <3> QED BY <2>2, <2>4, <3>1
  <2>8. CASE PopApply
    <3>1. /\ queue \in Seq(Entries) /\ queue # <<>> /\ Rising(queue, main, inp)
          /\ inp' = inp /\ tick' = tick
          /\ main' = [main EXCEPT ![queue[1].offset] = queue[1].value]
      BY <2>8 DEF PopApply, StoreInv, StoreTypeOK, PoppedHead, Queued
    <3>2. main[queue[1].offset] <= queue[1].value
      BY <2>1, <3>1, RisingPopped
    <3>3. \A o \in Offsets : main'[o] <= inp[o]
      BY <3>1 DEF StoreInv, Queued, Rising
    <3>4. \A o \in Offsets : main[o] <= main'[o]
      BY <2>1, <2>2, <3>1, <3>2
    <3> QED BY <2>2, <2>4, <3>1, <3>3, <3>4
  <2>9. CASE PopRead \/ Synced \/ ErasePage \/ ProgramUnit \/ LockFlash \/ UNCHANGED storeVars
    BY <2>3, <2>9 DEF PopRead, Synced, ErasePage, ProgramUnit, LockFlash, ramVars, storeVars
  <2>10. CASE Reset
    <3>1. tick' = inp' /\ main' = inp'
      BY <2>10 DEF Reset, Boot
    <3>2. Publication!Reload
      BY <2>1, <3>1 DEF Publication!Reload, Publication!Settings, Settings
    <3> QED BY <3>2 DEF Publication!PubNext
  <2> QED BY <2>5, <2>6, <2>7, <2>8, <2>9, <2>10 DEF StoreNext, MainStep
<1>3. StoreSpec => []StoreInv
  BY StoreInvariant
<1> QED BY <1>1, <1>2, <1>3, PTL DEF StoreSpec, CopiesFollow, Publication!PubSpec

--------------------------------------------------------------------------------
(* The tier cells *)

Trio    == {"dma", "com", "comp"}
Closed  == {"installing", "section"}
Working == {"body", "open", "section"}

\* Main is last, the tick and the frames are below the trio, and COMP and the
\* commutation timer differ only inside a running exchange.
PrioritiesSet ==
  /\ prio["main"] = 4 /\ prio["tick"] \in {2, 3} /\ prio["frame"] = 2
  /\ \A c \in Trio : prio[c] \in {0, 1}
  /\ \A c \in Trio \ toSet : prio[c] = Level(c, dmaFirst)
  /\ toSet # {} => at["main"] = "section"

\* Two active contexts never share a priority: neither could have preempted.
Stacked ==
  \A c, d \in Contexts : c # d /\ Active(c) /\ Active(d) => prio[c] # prio[d]

\* Interrupts are masked exactly while a context is in a section, and that
\* context is the one that runs.
SectionRuns ==
  /\ masked <=> \E c \in Contexts : at[c] \in Closed
  /\ \A c \in Contexts : at[c] \in Closed => Running(c)

\* What a context holds is decided by its place.
HeldInPlace ==
  \A c \in Contexts :
    /\ at[c] \in {"idle", "entry", "install"} => held[c] = {}
    /\ at[c] = "body" => held[c] = Base(c)
    /\ at[c] = "open" => c = "com" /\ held[c] = {"COM_LOCAL", "MODE"}
    /\ at[c] = "section" =>
         /\ c \in {"main", "tick", "frame", "dma"}
         /\ c \in {"frame", "dma"} => held[c] = {"INPUT_LOCAL"}

TierInv ==
  TierTypeOK /\ PrioritiesSet /\ Stacked /\ SectionRuns /\ HeldInPlace /\ InstalledOnce

------------------------------------------------------------------------------
(* Any two sections are one *)

\* Two contexts in sections would each be more urgent than the other.
LEMMA OneSection ==
  ASSUME TierInv, NEW c \in Contexts, NEW d \in Contexts,
         at[c] \in Closed, at[d] \in Closed
  PROVE  c = d
BY DEF TierInv, TierTypeOK, SectionRuns, Running, Active, Closed, Contexts

\* While priorities are being written, nothing but the main loop is active.
LEMMA ExchangeIsAlone ==
  ASSUME TierInv, toSet # {}, NEW c \in Contexts, c # "main"
  PROVE  at[c] = "idle"
<1>1. Running("main")
  BY DEF TierInv, PrioritiesSet, SectionRuns, Closed, Contexts
<1>2. prio[c] < 4
  BY DEF TierInv, TierTypeOK, PrioritiesSet, Contexts, Trio
<1> QED BY <1>1, <1>2 DEF Running, Active, TierInv, TierTypeOK, PrioritiesSet, Contexts

\* What InvariantHolds needs of every step that leaves the priorities alone.
LEMMA TypeStep ==
  ASSUME TierTypeOK, TierNext
  PROVE  TierTypeOK'
<1> USE DEF TierTypeOK
<1>1. ASSUME NEW c \in Contexts, Begin(c) PROVE TierTypeOK'
  BY <1>1 DEF Begin, Places
<1>2. ASSUME NEW c \in Contexts, Return(c) PROVE TierTypeOK'
  BY <1>2 DEF Return, Places
<1>3. ASSUME NEW c \in Contexts, CheckStaged(c) PROVE TierTypeOK'
  BY <1>3 DEF CheckStaged, Places, Base, Cells
<1>4. ASSUME NEW c \in Contexts, Install(c) PROVE TierTypeOK'
  BY <1>4 DEF Install, Places, TakeStaged
<1>5. ASSUME NEW c \in Contexts, Installed(c) PROVE TierTypeOK'
  BY <1>5 DEF Installed, Places, Base, Cells
<1>6. ASSUME NEW c \in Contexts, Mask(c) PROVE TierTypeOK'
  <2>1. PICK s \in Sections(c) : held' = [held EXCEPT ![c] = Base(c) \cup s]
    BY <1>6 DEF Mask
  <2>2. Base(c) \cup s \subseteq Cells
    BY <2>1 DEF Sections, Base, Cells
  <2> QED BY <1>6, <2>1, <2>2 DEF Mask, Places
<1>7. ASSUME NEW c \in Contexts, Unmask(c) PROVE TierTypeOK'
  BY <1>7 DEF Unmask, Places, Base, Cells
<1>8. ASSUME NEW c \in Contexts, Update(c) PROVE TierTypeOK'
  BY <1>8 DEF Update, Places, Base, OpenUpdates, Cells
<1>9. ASSUME NEW c \in Contexts, Updated(c) PROVE TierTypeOK'
  BY <1>9 DEF Updated, Places, Base, Cells
<1>10. ASSUME NEW c \in Contexts, SetPriority(c) PROVE TierTypeOK'
  BY <1>10 DEF SetPriority, Level
<1>11. ASSUME Exchange PROVE TierTypeOK'
  BY <1>11 DEF Exchange, Places, ExchangeMask, Contexts
<1> QED BY <1>1, <1>2, <1>3, <1>4, <1>5, <1>6, <1>7, <1>8, <1>9, <1>10, <1>11 DEF TierNext

------------------------------------------------------------------------------
(* The parts of the invariant, one lemma each *)

\* Priorities change in the exchange only, each to what the exchange decided.
LEMMA PrioritiesStep ==
  ASSUME TierInv, TierNext
  PROVE  PrioritiesSet'
<1> USE DEF TierInv, TierTypeOK, PrioritiesSet, Contexts, Trio
<1>1. ASSUME NEW c \in Contexts, Begin(c) PROVE PrioritiesSet'
  BY <1>1 DEF Begin, Level
<1>2. ASSUME NEW c \in Contexts, Return(c) PROVE PrioritiesSet'
  BY <1>2 DEF Return, Level
<1>3. ASSUME NEW c \in Contexts, CheckStaged(c) PROVE PrioritiesSet'
  BY <1>3 DEF CheckStaged, Level
<1>4. ASSUME NEW c \in Contexts, Install(c) PROVE PrioritiesSet'
  BY <1>4 DEF Install, Level
<1>5. ASSUME NEW c \in Contexts, Installed(c) PROVE PrioritiesSet'
  BY <1>5 DEF Installed, Level
<1>6. ASSUME NEW c \in Contexts, Mask(c) PROVE PrioritiesSet'
  BY <1>6 DEF Mask, Level
<1>7. ASSUME NEW c \in Contexts, Unmask(c) PROVE PrioritiesSet'
  BY <1>7 DEF Unmask, Level
<1>8. ASSUME NEW c \in Contexts, Update(c) PROVE PrioritiesSet'
  BY <1>8 DEF Update, Level
<1>9. ASSUME NEW c \in Contexts, Updated(c) PROVE PrioritiesSet'
  BY <1>9 DEF Updated, Level
<1>10. ASSUME NEW c \in Contexts, SetPriority(c) PROVE PrioritiesSet'
  BY <1>10 DEF SetPriority, Level
<1>11. ASSUME Exchange PROVE PrioritiesSet'
  BY <1>11 DEF Exchange
<1> QED BY <1>1, <1>2, <1>3, <1>4, <1>5, <1>6, <1>7, <1>8, <1>9, <1>10, <1>11 DEF TierNext

\* A context becomes active only if it is more urgent than the active ones.
LEMMA StackedStep ==
  ASSUME TierInv, TierNext
  PROVE  Stacked'
<1> USE DEF TierInv, TierTypeOK, Stacked, Active
<1>1. ASSUME NEW c \in Contexts, Begin(c) PROVE Stacked'
  <2>1. \A d \in Contexts : Active(d) => prio[c] < prio[d]
    BY <1>1 DEF Begin, MoreUrgent
  <2>2. prio \in [Contexts -> Nat] /\ prio' = prio
    BY <1>1 DEF Begin
  <2>3. \A d \in Contexts : at'[d] # "idle" => d = c \/ at[d] # "idle"
    BY <1>1 DEF Begin
  <2> QED BY <2>1, <2>2, <2>3
<1>2. ASSUME NEW c \in Contexts, Return(c) PROVE Stacked'
  BY <1>2 DEF Return
<1>3. ASSUME NEW c \in Contexts, CheckStaged(c) PROVE Stacked'
  BY <1>3 DEF CheckStaged
<1>4. ASSUME NEW c \in Contexts, Install(c) PROVE Stacked'
  BY <1>4 DEF Install
<1>5. ASSUME NEW c \in Contexts, Installed(c) PROVE Stacked'
  BY <1>5 DEF Installed
<1>6. ASSUME NEW c \in Contexts, Mask(c) PROVE Stacked'
  BY <1>6 DEF Mask
<1>7. ASSUME NEW c \in Contexts, Unmask(c) PROVE Stacked'
  BY <1>7 DEF Unmask
<1>8. ASSUME NEW c \in Contexts, Update(c) PROVE Stacked'
  BY <1>8 DEF Update
<1>9. ASSUME NEW c \in Contexts, Updated(c) PROVE Stacked'
  BY <1>9 DEF Updated
<1>10. ASSUME NEW c \in Contexts, SetPriority(c) PROVE Stacked'
  BY <1>10, ExchangeIsAlone DEF SetPriority
<1>11. ASSUME Exchange PROVE Stacked'
  BY <1>11 DEF Exchange
<1> QED BY <1>1, <1>2, <1>3, <1>4, <1>5, <1>6, <1>7, <1>8, <1>9, <1>10, <1>11 DEF TierNext

\* Nothing begins while interrupts are masked, so a section keeps running.
LEMMA SectionStep ==
  ASSUME TierInv, TierNext
  PROVE  SectionRuns'
<1> USE DEF TierInv, TierTypeOK, SectionRuns, Running, Active, Closed
<1>1. ASSUME NEW c \in Contexts, Begin(c) PROVE SectionRuns'
  BY <1>1 DEF Begin
<1>2. ASSUME NEW c \in Contexts, Return(c) PROVE SectionRuns'
  BY <1>2 DEF Return
<1>3. ASSUME NEW c \in Contexts, CheckStaged(c) PROVE SectionRuns'
  BY <1>3 DEF CheckStaged
<1>4. ASSUME NEW c \in Contexts, Install(c) PROVE SectionRuns'
  BY <1>4 DEF Install
<1>5. ASSUME NEW c \in Contexts, Installed(c) PROVE SectionRuns'
  BY <1>5, OneSection DEF Installed
<1>6. ASSUME NEW c \in Contexts, Mask(c) PROVE SectionRuns'
  BY <1>6 DEF Mask
<1>7. ASSUME NEW c \in Contexts, Unmask(c) PROVE SectionRuns'
  BY <1>7, OneSection DEF Unmask
<1>8. ASSUME NEW c \in Contexts, Update(c) PROVE SectionRuns'
  BY <1>8 DEF Update
<1>9. ASSUME NEW c \in Contexts, Updated(c) PROVE SectionRuns'
  BY <1>9 DEF Updated
<1>10. ASSUME NEW c \in Contexts, SetPriority(c) PROVE SectionRuns'
  BY <1>10, ExchangeIsAlone DEF SetPriority, Contexts
<1>11. ASSUME Exchange PROVE SectionRuns'
  BY <1>11 DEF Exchange, ExchangeMask, Contexts
<1> QED BY <1>1, <1>2, <1>3, <1>4, <1>5, <1>6, <1>7, <1>8, <1>9, <1>10, <1>11 DEF TierNext

\* Every step that moves a context changes what it holds to fit.
LEMMA HeldStep ==
  ASSUME TierInv, TierNext
  PROVE  HeldInPlace'
<1> USE DEF TierInv, TierTypeOK, HeldInPlace
<1>1. ASSUME NEW c \in Contexts, Begin(c) PROVE HeldInPlace'
  BY <1>1 DEF Begin
<1>2. ASSUME NEW c \in Contexts, Return(c) PROVE HeldInPlace'
  BY <1>2 DEF Return
<1>3. ASSUME NEW c \in Contexts, CheckStaged(c) PROVE HeldInPlace'
  BY <1>3 DEF CheckStaged
<1>4. ASSUME NEW c \in Contexts, Install(c) PROVE HeldInPlace'
  BY <1>4 DEF Install
<1>5. ASSUME NEW c \in Contexts, Installed(c) PROVE HeldInPlace'
  BY <1>5 DEF Installed
<1>6. ASSUME NEW c \in Contexts, Mask(c) PROVE HeldInPlace'
  <2>1. PICK s \in Sections(c) : held' = [held EXCEPT ![c] = Base(c) \cup s]
    BY <1>6 DEF Mask
  <2>2. c \in {"main", "tick", "frame", "dma"}
    BY <2>1 DEF Sections, Contexts
  <2>3. c \in {"frame", "dma"} => Base(c) \cup s = {"INPUT_LOCAL"}
    <3>1. ASSUME c \in {"frame", "dma"} PROVE Base(c) = {} /\ s = {"INPUT_LOCAL"}
      BY <2>1, <3>1 DEF Sections, Base
    <3> QED BY <3>1
  <2> QED BY <1>6, <2>1, <2>2, <2>3 DEF Mask
<1>7. ASSUME NEW c \in Contexts, Unmask(c) PROVE HeldInPlace'
  BY <1>7 DEF Unmask
<1>8. ASSUME NEW c \in Contexts, Update(c) PROVE HeldInPlace'
  <2>1. c = "com" /\ OpenUpdates(c) = {"MODE"}
    BY <1>8 DEF Update, OpenUpdates
  <2>2. Base("com") = {"COM_LOCAL"}
    BY DEF Base
  <2>3. held' = [held EXCEPT !["com"] = {"COM_LOCAL", "MODE"}]
    BY <1>8, <2>1, <2>2 DEF Update
  <2> QED BY <1>8, <2>1, <2>3 DEF Update
<1>9. ASSUME NEW c \in Contexts, Updated(c) PROVE HeldInPlace'
  BY <1>9 DEF Updated
<1>10. ASSUME NEW c \in Contexts, SetPriority(c) PROVE HeldInPlace'
  BY <1>10 DEF SetPriority
<1>11. ASSUME Exchange PROVE HeldInPlace'
  BY <1>11 DEF Exchange
<1> QED BY <1>1, <1>2, <1>3, <1>4, <1>5, <1>6, <1>7, <1>8, <1>9, <1>10, <1>11 DEF TierNext
\* The staged state is taken once, by the one context that found it there.
LEMMA InstalledStep ==
  ASSUME TierInv, TierNext
  PROVE  InstalledOnce'
<1> USE DEF TierInv, TierTypeOK, InstalledOnce
<1>1. ASSUME NEW c \in Contexts, Begin(c) PROVE InstalledOnce'
  BY <1>1 DEF Begin
<1>2. ASSUME NEW c \in Contexts, Return(c) PROVE InstalledOnce'
  BY <1>2 DEF Return
<1>3. ASSUME NEW c \in Contexts, CheckStaged(c) PROVE InstalledOnce'
  BY <1>3 DEF CheckStaged
<1>4. ASSUME NEW c \in Contexts, Install(c) PROVE InstalledOnce'
  BY <1>4 DEF Install, TakeStaged
<1>5. ASSUME NEW c \in Contexts, Installed(c) PROVE InstalledOnce'
  BY <1>5, OneSection DEF Installed, Closed
<1>6. ASSUME NEW c \in Contexts, Mask(c) PROVE InstalledOnce'
  BY <1>6 DEF Mask
<1>7. ASSUME NEW c \in Contexts, Unmask(c) PROVE InstalledOnce'
  BY <1>7 DEF Unmask
<1>8. ASSUME NEW c \in Contexts, Update(c) PROVE InstalledOnce'
  BY <1>8 DEF Update
<1>9. ASSUME NEW c \in Contexts, Updated(c) PROVE InstalledOnce'
  BY <1>9 DEF Updated
<1>10. ASSUME NEW c \in Contexts, SetPriority(c) PROVE InstalledOnce'
  BY <1>10 DEF SetPriority
<1>11. ASSUME Exchange PROVE InstalledOnce'
  BY <1>11 DEF Exchange, Contexts
<1> QED BY <1>1, <1>2, <1>3, <1>4, <1>5, <1>6, <1>7, <1>8, <1>9, <1>10, <1>11 DEF TierNext

------------------------------------------------------------------------------
(* The theorems *)

\* The inductive invariant of the tiers (isr_handlers.rs:94-318): who may be
\* active together, who may be in a section, and what each place holds.
THEOREM TierInvariant == TierSpec => []TierInv
<1>1. TierInit => TierInv
  <2> SUFFICES ASSUME TierInit PROVE TierInv
    OBVIOUS
  <2> USE DEF TierInit, Contexts
  <2>1. PICK t \in TickLevels :
          prio = [c \in Contexts |-> CASE c = "main"  -> 4 [] c = "tick" -> t
                                       [] c = "frame" -> 2 [] c = "dma"  -> 1
                                       [] OTHER       -> 0]
    OBVIOUS
  <2>2. t \in {2, 3} /\ exchanges \in BOOLEAN
    BY <2>1, TierAssumption
  <2>3. /\ prio["main"] = 4 /\ prio["tick"] = t /\ prio["frame"] = 2
        /\ prio["dma"] = 1 /\ prio["com"] = 0 /\ prio["comp"] = 0
    BY <2>1
  <2>4. prio \in [Contexts -> 0 .. 4]
    <3>1. DOMAIN prio = Contexts /\ prio = [c \in Contexts |-> prio[c]]
      BY <2>1
    <3> QED BY <3>1, <2>2, <2>3
  <2>5. TierTypeOK
    BY <2>2, <2>4 DEF TierTypeOK, Places
  <2>6. PrioritiesSet
    BY <2>2, <2>3 DEF PrioritiesSet, Trio, Level
  <2> QED
    BY <2>5, <2>6 DEF TierInv, Stacked, SectionRuns, Active, Closed, HeldInPlace, InstalledOnce
<1>2. TierInv /\ [TierNext]_tierVars => TierInv'
  <2> SUFFICES ASSUME TierInv, [TierNext]_tierVars PROVE TierInv'
    OBVIOUS
  <2>1. CASE TierNext
    BY <2>1, TypeStep, PrioritiesStep, StackedStep, SectionStep, HeldStep, InstalledStep
       DEF TierInv
  <2>2. CASE UNCHANGED tierVars
    BY <2>2 DEF tierVars, TierInv, TierTypeOK, PrioritiesSet, Stacked, SectionRuns,
                HeldInPlace, InstalledOnce, Running, Active
  <2> QED BY <2>1, <2>2
<1> QED BY <1>1, <1>2, PTL DEF TierSpec

\* The boot state is installed once, before any cell is used (isr.rs:265,
\* isr_handlers.rs:179-232).
THEOREM CellsInstalledOnce == TierSpec => []InstalledOnce
<1>1. TierInv => InstalledOnce
  BY DEF TierInv
<1> QED BY <1>1, TierInvariant, PTL

\* The argument of isr_handlers.rs:94-163: the references to a cell that are
\* handed out without a lock are never live in two contexts at once.
THEOREM BorrowsDisjoint == TierSpec => []CellsExclusive
<1>1. TierInv => CellsExclusive
  <2> SUFFICES ASSUME TierInv, NEW c \in Contexts, NEW d \in Contexts, c # d,
                      held[c] \cap held[d] # {}
               PROVE  FALSE
    BY DEF CellsExclusive
  <2> USE DEF TierInv, TierTypeOK
  <2>1. ASSUME NEW b \in Contexts, held[b] # {}
        PROVE  at[b] \in Working \/ (at[b] = "installing" /\ staged)
    BY <2>1 DEF HeldInPlace, Places, Working, InstalledOnce
  <2>2. at[c] \in Working /\ at[d] \in Working
    <3>1. ~(at[c] = "installing" /\ at[d] = "installing")
      BY OneSection DEF Closed
    <3> QED BY <2>1, <3>1 DEF InstalledOnce, Working
  <2>3. /\ Active(c) /\ Active(d)
        /\ prio[c] # prio[d]
    BY <2>2 DEF Stacked, Active, Working
  <2>4. ASSUME NEW a \in Contexts, NEW b \in Contexts, a # b, at[a] = "section", Active(b)
        PROVE  prio[a] < prio[b] /\ at[b] # "section"
    BY <2>4, OneSection DEF SectionRuns, Running, Closed
  <2>5. ASSUME NEW b \in Contexts, at[b] \in {"body", "open"}
        PROVE  /\ "INPUT_LOCAL" \notin held[b]
               /\ "MODE" \in held[b] => b = "com"
               /\ "TICK_LOCAL" \in held[b] => b = "tick"
               /\ "COM_LOCAL" \in held[b] => b \in {"com", "comp"}
    <3>1. Base(b) \subseteq {"TICK_LOCAL", "COM_LOCAL"}
      BY DEF Base
    <3>2. "TICK_LOCAL" \in Base(b) => b = "tick"
      BY DEF Base
    <3>3. "COM_LOCAL" \in Base(b) => b \in {"com", "comp"}
      BY DEF Base
    <3> QED BY <2>5, <3>1, <3>2, <3>3 DEF HeldInPlace
  <2>6. ASSUME NEW a \in Contexts, NEW b \in Contexts, a # b, at[a] = "section",
               at[b] \in {"body", "open"}, held[a] \cap held[b] # {}
        PROVE  FALSE
    <3>1. prio[a] < prio[b]
      BY <2>4, <2>6 DEF Active
    <3>2. a \in {"main", "tick", "frame", "dma"}
      BY <2>6 DEF HeldInPlace
    <3>3. b \in {"tick", "com", "comp"}
      BY <2>5, <2>6 DEF Cells
    <3>4. a \in {"main", "tick"} => FALSE
      BY <3>1, <3>2, <3>3, <2>6 DEF PrioritiesSet, Contexts, Trio
    <3>5. a \in {"frame", "dma"} => FALSE
      BY <2>5, <2>6 DEF HeldInPlace
    <3> QED BY <3>2, <3>4, <3>5
  <2>7. ASSUME at[c] \in {"body", "open"}, at[d] \in {"body", "open"}
        PROVE  FALSE
    <3>1. c \in {"com", "comp"} /\ d \in {"com", "comp"}
      BY <2>5, <2>7 DEF Cells
    <3>2. toSet = {}
      BY <3>1, <2>7, ExchangeIsAlone
    <3> QED BY <3>1, <3>2, <2>3 DEF PrioritiesSet, Trio, Level
  <2> QED BY <2>2, <2>3, <2>4, <2>6, <2>7 DEF Working
<1> QED BY <1>1, TierInvariant, PTL

\* Every variable of the tiers keeps its type.
THEOREM TierTypes == TierSpec => []TierTypeOK
<1>1. TierInv => TierTypeOK
  BY DEF TierInv
<1> QED BY <1>1, TierInvariant, PTL
================================================================================
