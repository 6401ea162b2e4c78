------------------------- MODULE BridgeControl_proofs -------------------------
(***************************************************************************)
(* No leg shoots through and at most one sinks, at every register write of *)
(* the bridge, and a running motor is driven in its step.                  *)
(*                                                                         *)
(* Gates are what is known of the pins and the timer.  Leads(s, g, h) says *)
(* that the writes s take the gates from g to h through safe gates only.   *)
(* Each operation of the driver is shown to lead somewhere from where it   *)
(* is used; what a tick writes is put together from them.  The invariant   *)
(* BridgeStands: the writes still to come lead from the gates as they are  *)
(* to gates that agree with the mode, the step and the note.               *)
(***************************************************************************)
EXTENDS BridgeControl, SequenceTheorems, Numeric_proofs

------------------------------------------------------------------------------
(* Pins and legs *)

\* The six pins, two to a leg.
LEMMA PinFacts ==
  /\ \A a \in Legs : High(a) \in Pins /\ Low(a) \in Pins
  /\ \A p \in Pins : \E a \in Legs : p = High(a) \/ p = Low(a)
  /\ \A a, b \in Legs :
       High(a) # Low(b) /\ (High(a) = High(b) => a = b) /\ (Low(a) = Low(b) => a = b)
<1>1. \A a \in Legs : High(a) \in Pins /\ Low(a) \in Pins
  BY DEF High, Low, Pins
<1>2. \A p \in Pins : \E a \in Legs : p = High(a) \/ p = Low(a)
  BY DEF High, Low, Pins
<1>3. \A a, b \in Legs :
        High(a) # Low(b) /\ (High(a) = High(b) => a = b) /\ (Low(a) = Low(b) => a = b)
  BY DEF High, Low
<1> QED
  BY <1>1, <1>2, <1>3

\* The two ports share the pins; every high pin is on port A.
LEMMA Ports ==
  /\ PortA \subseteq Pins /\ PortB \subseteq Pins
  /\ PortA \cup PortB = Pins /\ PortA \cap PortB = {}
  /\ \A a \in Legs : High(a) \in PortA
<1>1. PortB \subseteq Pins
  BY PinFacts DEF PortB, Legs
<1>2. \A a \in Legs : High(a) \notin PortB
  BY PinFacts DEF PortB, Legs
<1> QED
  BY <1>1, <1>2, PinFacts DEF PortA

\* The six-step table: the driven leg never sinks, and the leg that sinks next is
\* not the one driven now.
LEMMA StepTable ==
  ASSUME NEW step \in 1 .. 6
  PROVE  /\ Driven(step) \in Legs /\ Sinking(step) \in Legs
         /\ Driven(step) # Sinking(step)
         /\ \A forward \in BOOLEAN :
              StepAfter(step, forward) \in 1 .. 6 /\ Driven(step) # Sinking(StepAfter(step, forward))
<1>1. step = 1 \/ step = 2 \/ step = 3 \/ step = 4 \/ step = 5 \/ step = 6
  OBVIOUS
<1>2. /\ Driven(1) = "A" /\ Driven(2) = "C" /\ Driven(3) = "C" /\ Driven(4) = "B"
      /\ Driven(5) = "B" /\ Driven(6) = "A"
  BY DEF Driven
<1>3. /\ Sinking(1) = "B" /\ Sinking(2) = "B" /\ Sinking(3) = "A" /\ Sinking(4) = "A"
      /\ Sinking(5) = "C" /\ Sinking(6) = "C"
  BY DEF Sinking
<1>4. /\ StepAfter(1, TRUE) = 2 /\ StepAfter(2, TRUE) = 3 /\ StepAfter(3, TRUE) = 4
      /\ StepAfter(4, TRUE) = 5 /\ StepAfter(5, TRUE) = 6 /\ StepAfter(6, TRUE) = 1
  BY DEF StepAfter
<1>5. /\ StepAfter(1, FALSE) = 6 /\ StepAfter(2, FALSE) = 1 /\ StepAfter(3, FALSE) = 2
      /\ StepAfter(4, FALSE) = 3 /\ StepAfter(5, FALSE) = 4 /\ StepAfter(6, FALSE) = 5
  BY DEF StepAfter
<1>6. Driven(step) \in Legs /\ Sinking(step) \in Legs /\ Driven(step) # Sinking(step)
  BY <1>1, <1>2, <1>3 DEF Legs
<1>7. StepAfter(step, TRUE) \in 1 .. 6 /\ Driven(step) # Sinking(StepAfter(step, TRUE))
  <2>1. CASE step = 1
    BY <2>1 DEF StepAfter, Driven, Sinking
  <2>2. CASE step = 2
    BY <2>2 DEF StepAfter, Driven, Sinking
  <2>3. CASE step = 3
    BY <2>3 DEF StepAfter, Driven, Sinking
  <2>4. CASE step = 4
    BY <2>4 DEF StepAfter, Driven, Sinking
  <2>5. CASE step = 5
    BY <2>5 DEF StepAfter, Driven, Sinking
  <2>6. CASE step = 6
    BY <2>6 DEF StepAfter, Driven, Sinking
  <2> QED
    BY <1>1, <2>1, <2>2, <2>3, <2>4, <2>5, <2>6
<1>8. StepAfter(step, FALSE) \in 1 .. 6 /\ Driven(step) # Sinking(StepAfter(step, FALSE))
  <2>1. CASE step = 1
    BY <2>1 DEF StepAfter, Driven, Sinking
  <2>2. CASE step = 2
    BY <2>2 DEF StepAfter, Driven, Sinking
  <2>3. CASE step = 3
    BY <2>3 DEF StepAfter, Driven, Sinking
  <2>4. CASE step = 4
    BY <2>4 DEF StepAfter, Driven, Sinking
  <2>5. CASE step = 5
    BY <2>5 DEF StepAfter, Driven, Sinking
  <2>6. CASE step = 6
    BY <2>6 DEF StepAfter, Driven, Sinking
  <2> QED
    BY <1>1, <2>1, <2>2, <2>3, <2>4, <2>5, <2>6
<1> QED
  BY <1>6, <1>7, <1>8

------------------------------------------------------------------------------
(* What is known of the gates, and what a register write makes of it *)

\* compare is "zero" when the compare value in effect is zero whenever the period
\* ends, "any" when it may be another.
Gates ==
  [timed : SUBSET Pins, latch : SUBSET Pins, buffered : {"zero", "some"},
   compare : {"zero", "any"}, divider : {"motor", "tone"}]

Writes ==
  [up : SUBSET Pins, down : SUBSET Pins, out : SUBSET Pins, alt : SUBSET Pins,
   timer : {"none", "zero", "some", "latch", "motor", "tone"}]

After(w, g) ==
  [timed    |-> (g.timed \ w.out) \cup w.alt,
   latch    |-> (g.latch \ w.down) \cup w.up,
   buffered |-> IF w.timer \in {"zero", "some"} THEN w.timer ELSE g.buffered,
   compare  |-> IF w.timer = "some" THEN "any"
                ELSE IF w.timer = "latch" THEN IF g.buffered = "zero" THEN "zero" ELSE "any"
                ELSE g.compare,
   divider  |-> IF w.timer \in {"motor", "tone"} THEN w.timer ELSE g.divider]

\* No leg whose low gate is latched on has a high gate that the timer may pulse.
Apart(onTimer, high) == \A leg \in Legs : Low(leg) \in high => High(leg) \notin onTimer

\* Safe gates: at most one low gate is latched on, no high one, and the legs are
\* kept apart unless the compare value stays zero.
SafeGates(onTimer, high, amount) ==
  /\ \A leg \in Legs : High(leg) \notin high
  /\ \A a, b \in Legs : Low(a) \in high /\ Low(b) \in high => a = b
  /\ amount = "zero" \/ Apart(onTimer, high)

Safe(g) == SafeGates(g.timed, g.latch, g.compare)

\* The writes s lead from g to h, and every state on the way is safe.
Leads(s, g, h) ==
  /\ s \in Seq(Writes)
  /\ \E f \in [0 .. Len(s) -> Gates] :
       /\ f[0] = g /\ f[Len(s)] = h
       /\ \A i \in 1 .. Len(s) : f[i] = After(s[i], f[i - 1])
       /\ \A i \in 0 .. Len(s) : Safe(f[i])

\* A write makes gates of gates.
LEMMA AfterIsGates ==
  ASSUME NEW w \in Writes, NEW g \in Gates
  PROVE  After(w, g) \in Gates
BY DEF Writes, Gates, After

\* No writes lead nowhere.
LEMMA LeadsNone ==
  ASSUME NEW g \in Gates, Safe(g)
  PROVE  Leads(<<>>, g, g)
<1> DEFINE f == [i \in 0 .. 0 |-> g]
<1>1. <<>> \in Seq(Writes) /\ Len(<<>>) = 0
  OBVIOUS
<1>2. f \in [0 .. Len(<<>>) -> Gates] /\ f[0] = g /\ f[Len(<<>>)] = g
  BY <1>1
<1>3. \A i \in 1 .. Len(<<>>) : f[i] = After(<<>>[i], f[i - 1])
  BY <1>1
<1>4. \A i \in 0 .. Len(<<>>) : Safe(f[i])
  BY <1>1
<1> HIDE DEF f
<1> QED
  BY <1>1, <1>2, <1>3, <1>4 DEF Leads

\* One write leads to what it makes of the gates.
LEMMA LeadsOne ==
  ASSUME NEW w \in Writes, NEW g \in Gates, Safe(g), Safe(After(w, g))
  PROVE  Leads(<<w>>, g, After(w, g))
<1> DEFINE f == [i \in 0 .. 1 |-> IF i = 0 THEN g ELSE After(w, g)]
<1>1. <<w>> \in Seq(Writes) /\ Len(<<w>>) = 1 /\ <<w>>[1] = w
  OBVIOUS
<1>2. f \in [0 .. 1 -> Gates] /\ f[0] = g /\ f[1] = After(w, g)
  BY AfterIsGates
<1> HIDE DEF f
<1>3. \A i \in 1 .. 1 : f[i] = After(<<w>>[i], f[i - 1])
  BY <1>1, <1>2
<1>4. \A i \in 0 .. 1 : Safe(f[i])
  BY <1>2
<1> QED
  BY <1>1, <1>2, <1>3, <1>4 DEF Leads

\* One sequence of writes after another.
LEMMA LeadsOn ==
  ASSUME NEW s, NEW t, NEW g, NEW h, NEW k, Leads(s, g, h), Leads(t, h, k)
  PROVE  Leads(s \o t, g, k)
<1>1. s \in Seq(Writes) /\ t \in Seq(Writes)
  BY DEF Leads
<1>2. PICK f \in [0 .. Len(s) -> Gates] :
        /\ f[0] = g /\ f[Len(s)] = h
        /\ \A i \in 1 .. Len(s) : f[i] = After(s[i], f[i - 1])
        /\ \A i \in 0 .. Len(s) : Safe(f[i])
  BY DEF Leads
<1>3. PICK e \in [0 .. Len(t) -> Gates] :
        /\ e[0] = h /\ e[Len(t)] = k
        /\ \A i \in 1 .. Len(t) : e[i] = After(t[i], e[i - 1])
        /\ \A i \in 0 .. Len(t) : Safe(e[i])
  BY DEF Leads
<1> DEFINE n == Len(s)
           m == Len(t)
           d == [i \in 0 .. n + m |-> IF i <= n THEN f[i] ELSE e[i - n]]
<1>4. n \in Nat /\ m \in Nat
  BY <1>1
<1>5. /\ s \o t \in Seq(Writes) /\ Len(s \o t) = n + m
      /\ \A i \in 1 .. n : (s \o t)[i] = s[i]
      /\ \A i \in n + 1 .. n + m : (s \o t)[i] = t[i - n]
  BY <1>1
<1> HIDE DEF n, m
<1>6. /\ \A i \in 0 .. n : d[i] = f[i]
      /\ \A i \in n .. n + m : d[i] = e[i - n]
  BY <1>2, <1>3, <1>4 DEF n
<1>7. d \in [0 .. n + m -> Gates]
  BY <1>2, <1>3, <1>4 DEF n, m
<1> HIDE DEF d
<1>8. d[0] = g /\ d[n + m] = k
  BY <1>2, <1>3, <1>4, <1>6 DEF m
<1>9. ASSUME NEW i \in 1 .. n + m PROVE d[i] = After((s \o t)[i], d[i - 1])
  <2>1. CASE i <= n
    <3>1. i \in 0 .. n /\ i - 1 \in 0 .. n /\ i \in 1 .. n
      BY <1>4, <2>1
    <3>2. (s \o t)[i] = s[i]
      BY <1>5, <3>1
    <3>3. d[i] = f[i] /\ d[i - 1] = f[i - 1] /\ (s \o t)[i] = s[i]
      BY <1>6, <3>1, <3>2
    <3>4. i \in 1 .. Len(s)
      BY <1>4, <2>1 DEF n
    <3>5. f[i] = After(s[i], f[i - 1])
      BY <1>2, <3>4
    <3>6. After((s \o t)[i], d[i - 1]) = After(s[i], f[i - 1])
      BY <3>3
    <3> QED
      BY <3>3, <3>5, <3>6
  <2>2. CASE i > n
    <3>1. /\ i \in n .. n + m /\ i - 1 \in n .. n + m /\ i \in n + 1 .. n + m
          /\ i - 1 - n = i - n - 1 /\ i - n \in 1 .. m
      BY <1>4, <2>2
    <3>2. (s \o t)[i] = t[i - n]
      BY <1>5, <3>1
    <3>3. d[i] = e[i - n] /\ d[i - 1] = e[i - 1 - n]
      BY <1>6, <3>1
    <3>4. d[i] = e[i - n] /\ d[i - 1] = e[i - n - 1] /\ (s \o t)[i] = t[i - n] /\ i - n \in 1 .. m
      BY <3>1, <3>2, <3>3
    <3>5. e[i - n] = After(t[i - n], e[i - n - 1])
      BY <1>3, <3>4 DEF m
    <3>6. After((s \o t)[i], d[i - 1]) = After(t[i - n], e[i - n - 1])
      BY <3>4
    <3> QED
      BY <3>4, <3>5, <3>6
  <2> QED
    BY <1>4, <2>1, <2>2
<1>10. ASSUME NEW i \in 0 .. n + m PROVE Safe(d[i])
  <2>1. CASE i <= n
    BY <1>2, <1>4, <1>6, <2>1 DEF n
  <2>2. CASE i > n
    BY <1>3, <1>4, <1>6, <2>2 DEF m
  <2> QED
    BY <1>4, <2>1, <2>2
<1> QED
  BY <1>5, <1>7, <1>8, <1>9, <1>10 DEF Leads

\* Where the writes begin and end is safe.
LEMMA LeadsEnds ==
  ASSUME NEW s, NEW g, NEW h, Leads(s, g, h)
  PROVE  g \in Gates /\ h \in Gates /\ Safe(g) /\ Safe(h) /\ (s = <<>> => g = h)
BY DEF Leads

------------------------------------------------------------------------------
(* One write *)

\* Fewer latches and fewer timed pins stay safe.
LEMMA FewerAreSafe ==
  ASSUME NEW onTimer, NEW high, NEW amount, SafeGates(onTimer, high, amount),
         NEW onTimer2, onTimer2 \subseteq onTimer, NEW high2, high2 \subseteq high
  PROVE  SafeGates(onTimer2, high2, amount)
BY DEF SafeGates, Apart

\* A write to the timer: a compare value needs the legs apart, unless it is zero.
LEMMA TimerLeads ==
  ASSUME NEW what \in {"zero", "some", "latch", "motor", "tone"}, NEW g \in Gates, Safe(g),
         what = "some" \/ (what = "latch" /\ g.buffered # "zero") => Apart(g.timed, g.latch)
  PROVE  \E h \in Gates :
           /\ Leads(<<Timer(what)>>, g, h)
           /\ h.timed = g.timed /\ h.latch = g.latch
           /\ h.buffered = (IF what \in {"zero", "some"} THEN what ELSE g.buffered)
           /\ what = "latch" /\ g.buffered = "zero" => h.compare = "zero"
           /\ what \in {"zero", "motor", "tone"} => h.compare = g.compare
           /\ h.divider = (IF what \in {"motor", "tone"} THEN what ELSE g.divider)
<1> DEFINE w == Timer(what)
           h == After(w, g)
<1>1. /\ w \in Writes /\ w.up = {} /\ w.down = {} /\ w.out = {} /\ w.alt = {}
      /\ w.timer = what
  BY DEF Timer, Writes
<1>2. h \in Gates
  BY <1>1, AfterIsGates
<1> HIDE DEF w
<1>3. /\ h.timed = g.timed /\ h.latch = g.latch
      /\ h.buffered = (IF what \in {"zero", "some"} THEN what ELSE g.buffered)
      /\ what = "latch" /\ g.buffered = "zero" => h.compare = "zero"
      /\ what \in {"zero", "motor", "tone"} => h.compare = g.compare
      /\ what = "latch" /\ g.buffered # "zero" => h.compare = "any"
      /\ h.divider = (IF what \in {"motor", "tone"} THEN what ELSE g.divider)
  BY <1>1 DEF After
<1>4. Safe(h)
  BY <1>3 DEF Safe, SafeGates
<1>5. Leads(<<w>>, g, h)
  BY <1>1, <1>4, LeadsOne
<1> HIDE DEF h
<1> QED
  BY <1>2, <1>3, <1>5 DEF w

\* Two writes.
LEMMA PairLeads ==
  ASSUME NEW a \in Writes, NEW b \in Writes, NEW g, NEW h, NEW k,
         Leads(<<a>>, g, h), Leads(<<b>>, h, k)
  PROVE  Leads(<<a, b>>, g, k)
<1>1. /\ <<a, b>> \in Seq(Writes) /\ Len(<<a, b>>) = 2
      /\ <<a, b>>[1] = a /\ <<a, b>>[2] = b
  OBVIOUS
<1>2. <<a>> \in Seq(Writes) /\ <<b>> \in Seq(Writes) /\ Len(<<a>>) = 1 /\ Len(<<b>>) = 1
  OBVIOUS
<1>3. /\ <<a>> \o <<b>> \in Seq(Writes) /\ Len(<<a>> \o <<b>>) = 2
      /\ (<<a>> \o <<b>>)[1] = a /\ (<<a>> \o <<b>>)[2] = b
  BY <1>2
<1>4. <<a, b>> = <<a>> \o <<b>>
  <2> DEFINE s == <<a, b>>
             t == <<a>> \o <<b>>
  <2>1. \A i \in 1 .. 2 : s[i] = t[i]
    BY <1>1, <1>3
  <2>2. s \in Seq(Writes) /\ t \in Seq(Writes) /\ Len(s) = 2 /\ Len(t) = 2
    BY <1>1, <1>3
  <2> HIDE DEF s, t
  <2>3. s = t
    BY <2>1, <2>2, SeqEqual
  <2> QED
    BY <2>3 DEF s, t
<1> QED
  BY <1>4, LeadsOn

\* Four writes, by pairs.
LEMMA FourLead ==
  ASSUME NEW a \in Writes, NEW b \in Writes, NEW c \in Writes, NEW d \in Writes,
         NEW g, NEW h, NEW k, Leads(<<a, b>>, g, h), Leads(<<c, d>>, h, k)
  PROVE  Leads(<<a, b, c, d>>, g, k)
<1>1. /\ <<a, b, c, d>> \in Seq(Writes) /\ Len(<<a, b, c, d>>) = 4
      /\ <<a, b, c, d>>[1] = a /\ <<a, b, c, d>>[2] = b
      /\ <<a, b, c, d>>[3] = c /\ <<a, b, c, d>>[4] = d
  OBVIOUS
<1>2. /\ <<a, b>> \in Seq(Writes) /\ <<c, d>> \in Seq(Writes)
      /\ Len(<<a, b>>) = 2 /\ Len(<<c, d>>) = 2
      /\ <<a, b>>[1] = a /\ <<a, b>>[2] = b /\ <<c, d>>[1] = c /\ <<c, d>>[2] = d
  OBVIOUS
<1>3. /\ <<a, b>> \o <<c, d>> \in Seq(Writes) /\ Len(<<a, b>> \o <<c, d>>) = 4
      /\ (<<a, b>> \o <<c, d>>)[1] = a /\ (<<a, b>> \o <<c, d>>)[2] = b
      /\ (<<a, b>> \o <<c, d>>)[3] = c /\ (<<a, b>> \o <<c, d>>)[4] = d
  BY <1>2
<1>4. <<a, b, c, d>> = <<a, b>> \o <<c, d>>
  <2> DEFINE s == <<a, b, c, d>>
             t == <<a, b>> \o <<c, d>>
  <2>1. \A i \in 1 .. 4 : s[i] = t[i]
    BY <1>1, <1>3
  <2>2. s \in Seq(Writes) /\ t \in Seq(Writes) /\ Len(s) = 4 /\ Len(t) = 4
    BY <1>1, <1>3
  <2> HIDE DEF s, t
  <2>3. s = t
    BY <2>1, <2>2, SeqEqual
  <2> QED
    BY <2>3 DEF s, t
<1> QED
  BY <1>4, LeadsOn

\* A write to the pins is a write.
LEMMA PinIsWrite ==
  ASSUME NEW up \in SUBSET Pins, NEW down \in SUBSET Pins, NEW out \in SUBSET Pins,
         NEW alt \in SUBSET Pins
  PROVE  Pin(up, down, out, alt) \in Writes
BY DEF Pin, Writes

------------------------------------------------------------------------------
(* The operations of the driver *)

\* What an operation that does not touch the timer leaves alone.
SameTimer(g, h) == h.buffered = g.buffered /\ h.compare = g.compare /\ h.divider = g.divider

\* A write that only lowers latches and takes pins from the timer.
LEMMA LessLeads ==
  ASSUME NEW down \in SUBSET Pins, NEW out \in SUBSET Pins, NEW g \in Gates, Safe(g)
  PROVE  \E h \in Gates :
           /\ Leads(<<Pin({}, down, out, {})>>, g, h)
           /\ h.timed = g.timed \ out /\ h.latch = g.latch \ down /\ SameTimer(g, h)
<1> DEFINE w == Pin({}, down, out, {})
           h == After(w, g)
<1>1. /\ w \in Writes /\ w.up = {} /\ w.down = down /\ w.out = out /\ w.alt = {}
      /\ w.timer = "none"
  BY DEF Pin, Writes
<1> HIDE DEF w
<1>2. h \in Gates
  BY <1>1, AfterIsGates
<1>3. h.timed = g.timed \ out /\ h.latch = g.latch \ down /\ SameTimer(g, h)
  BY <1>1 DEF After, SameTimer
<1>4. Safe(h)
  BY <1>3, FewerAreSafe DEF Safe, SameTimer
<1>5. Leads(<<w>>, g, h)
  BY <1>1, <1>4, LeadsOne
<1> HIDE DEF h
<1> QED
  BY <1>2, <1>3, <1>5 DEF w

\* phase_float turns a leg off.
LEMMA FloatLeads ==
  ASSUME NEW leg \in Legs, NEW g \in Gates, Safe(g)
  PROVE  \E h \in Gates :
           /\ Leads(Float(leg), g, h)
           /\ h.timed = g.timed \ {Low(leg), High(leg)}
           /\ h.latch = g.latch \ {Low(leg), High(leg)} /\ SameTimer(g, h)
<1> DEFINE a == Pin({}, {Low(leg)}, {}, {})
           b == Pin({}, {}, {Low(leg)}, {})
           c == Pin({}, {High(leg)}, {}, {})
           d == Pin({}, {}, {High(leg)}, {})
<1>1. {Low(leg)} \in SUBSET Pins /\ {High(leg)} \in SUBSET Pins /\ {} \in SUBSET Pins
  BY PinFacts
<1>2. a \in Writes /\ b \in Writes /\ c \in Writes /\ d \in Writes
  BY <1>1, PinIsWrite
<1>3. PICK g1 \in Gates : /\ Leads(<<a>>, g, g1) /\ g1.timed = g.timed \ {}
                          /\ g1.latch = g.latch \ {Low(leg)} /\ SameTimer(g, g1)
  BY <1>1, LessLeads
<1>4. PICK g2 \in Gates : /\ Leads(<<b>>, g1, g2) /\ g2.timed = g1.timed \ {Low(leg)}
                          /\ g2.latch = g1.latch \ {} /\ SameTimer(g1, g2)
  BY <1>1, <1>3, LessLeads, LeadsEnds
<1>5. PICK g3 \in Gates : /\ Leads(<<c>>, g2, g3) /\ g3.timed = g2.timed \ {}
                          /\ g3.latch = g2.latch \ {High(leg)} /\ SameTimer(g2, g3)
  BY <1>1, <1>4, LessLeads, LeadsEnds
<1>6. PICK h \in Gates : /\ Leads(<<d>>, g3, h) /\ h.timed = g3.timed \ {High(leg)}
                         /\ h.latch = g3.latch \ {} /\ SameTimer(g3, h)
  BY <1>1, <1>5, LessLeads, LeadsEnds
<1>7. Float(leg) = <<a, b, c, d>>
  BY DEF Float, Bsrr, Moder
<1> HIDE DEF a, b, c, d
<1>8. Leads(Float(leg), g, h)
  <2>1. Leads(<<a, b>>, g, g2) /\ Leads(<<c, d>>, g2, h)
    BY <1>2, <1>3, <1>4, <1>5, <1>6, PairLeads
  <2> QED
    BY <1>2, <1>7, <2>1, FourLead
<1>9. /\ h.timed = g.timed \ {Low(leg), High(leg)}
      /\ h.latch = g.latch \ {Low(leg), High(leg)}
  BY <1>3, <1>4, <1>5, <1>6
<1>10. SameTimer(g, h)
  BY <1>3, <1>4, <1>5, <1>6 DEF SameTimer
<1> QED
  BY <1>8, <1>9, <1>10

\* The bridge is off.
Off(g) == g.latch = {} /\ g.timed = {}

\* AllOff turns the bridge off.
LEMMA AllOffLeads ==
  ASSUME NEW g \in Gates, Safe(g)
  PROVE  \E h \in Gates : Leads(AllOff, g, h) /\ Off(h) /\ SameTimer(g, h)
<1>1. "A" \in Legs /\ "B" \in Legs /\ "C" \in Legs
  BY DEF Legs
<1>2. PICK g1 \in Gates : /\ Leads(Float("A"), g, g1) /\ g1.timed = g.timed \ {Low("A"), High("A")}
                          /\ g1.latch = g.latch \ {Low("A"), High("A")} /\ SameTimer(g, g1)
  BY <1>1, FloatLeads
<1>3. PICK g2 \in Gates : /\ Leads(Float("B"), g1, g2) /\ g2.timed = g1.timed \ {Low("B"), High("B")}
                          /\ g2.latch = g1.latch \ {Low("B"), High("B")} /\ SameTimer(g1, g2)
  BY <1>1, <1>2, FloatLeads, LeadsEnds
<1>4. PICK h \in Gates : /\ Leads(Float("C"), g2, h) /\ h.timed = g2.timed \ {Low("C"), High("C")}
                         /\ h.latch = g2.latch \ {Low("C"), High("C")} /\ SameTimer(g2, h)
  BY <1>1, <1>3, FloatLeads, LeadsEnds
<1>5. Leads(AllOff, g, h)
  BY <1>2, <1>3, <1>4, LeadsOn DEF AllOff
<1>6. SameTimer(g, h)
  BY <1>2, <1>3, <1>4 DEF SameTimer
<1>7. \A p \in Pins : p \in {Low("A"), High("A"), Low("B"), High("B"), Low("C"), High("C")}
  BY PinFacts DEF Legs
<1>8. g.timed \subseteq Pins /\ g.latch \subseteq Pins
  BY DEF Gates
<1>9. Off(h)
  BY <1>2, <1>3, <1>4, <1>7, <1>8 DEF Off
<1> QED
  BY <1>5, <1>6, <1>9

\* The bridge is driven in a step: the sinking leg's low gate is on, the timer has
\* the driven leg.
At(g, step) ==
  /\ g.latch = {Low(Sinking(step))}
  /\ High(Driven(step)) \in g.timed
  /\ g.timed \subseteq {High(Driven(step)), Low(Driven(step))}

\* A step keeps the legs apart.
LEMMA AtIsApart ==
  ASSUME NEW g \in Gates, NEW step \in 1 .. 6, At(g, step)
  PROVE  Apart(g.timed, g.latch)
<1>1. Driven(step) \in Legs /\ Sinking(step) \in Legs /\ Driven(step) # Sinking(step)
  BY StepTable
<1> QED
  BY <1>1, PinFacts DEF At, Apart

\* The latches of a step, written port by port, the lowered ones first.
LEMMA LatchesLead ==
  ASSUME NEW step \in 1 .. 6, NEW g \in Gates, Safe(g),
         g.compare = "zero" \/ High(Sinking(step)) \notin g.timed
  PROVE  \E h \in Gates :
           /\ Leads(Ordered(BsrrOf(PortA, step), BsrrOf(PortB, step), StepUp(step) \subseteq PortA), g, h)
           /\ h.timed = g.timed /\ h.latch = {Low(Sinking(step))} /\ SameTimer(g, h)
<1> DEFINE low == Low(Sinking(step))
<1>1. /\ Sinking(step) \in Legs /\ StepUp(step) = {low} /\ low \in Pins
  BY StepTable, PinFacts DEF StepUp
<1>2. SafeGates(g.timed, {low}, g.compare)
  BY <1>1, PinFacts DEF SafeGates, Apart
<1>3. ASSUME NEW P \in SUBSET Pins, NEW Q \in SUBSET Pins, P \cup Q = Pins, P \cap Q = {}, low \in Q
      PROVE  \E h \in Gates :
               /\ Leads(<<BsrrOf(P, step), BsrrOf(Q, step)>>, g, h)
               /\ h.timed = g.timed /\ h.latch = {low} /\ SameTimer(g, h)
  <2> DEFINE v == BsrrOf(P, step)
             w == BsrrOf(Q, step)
  <2>1. v = Pin({}, P, {}, {})
    <3>1. StepUp(step) \cap P = {} /\ P \ StepUp(step) = P
      BY <1>1, <1>3
    <3> QED
      BY <3>1 DEF BsrrOf, Bsrr
  <2>2. w = Pin({low}, Q \ {low}, {}, {})
    <3>1. StepUp(step) \cap Q = {low} /\ Q \ StepUp(step) = Q \ {low}
      BY <1>1, <1>3
    <3> QED
      BY <3>1 DEF BsrrOf, Bsrr
  <2>3. v \in Writes
    BY <2>1, PinIsWrite
  <2>4. /\ w \in Writes /\ w.up = {low} /\ w.down = Q \ {low} /\ w.out = {} /\ w.alt = {}
        /\ w.timer = "none"
    <3> HIDE DEF w, low
    <3> QED
      BY <1>1, <2>2 DEF Pin, Writes
  <2>5. PICK g1 \in Gates : /\ Leads(<<v>>, g, g1) /\ g1.timed = g.timed \ {}
                            /\ g1.latch = g.latch \ P /\ SameTimer(g, g1)
    BY <2>1, LessLeads
  <2> HIDE DEF v, w, low
  <2>6. (g1.latch \ (Q \ {low})) \cup {low} = {low}
    <3>1. g.latch \subseteq Pins
      BY DEF Gates
    <3> QED
      BY <1>3, <2>5, <3>1
  <2> DEFINE h == After(w, g1)
  <2>7. h \in Gates
    BY <2>4, AfterIsGates
  <2>8. h.timed = g.timed /\ h.latch = {low} /\ SameTimer(g, h)
    BY <2>4, <2>5, <2>6 DEF After, SameTimer
  <2>9. Safe(h)
    BY <1>2, <2>8 DEF Safe, SameTimer
  <2>10. Leads(<<w>>, g1, h)
    BY <2>4, <2>5, <2>9, LeadsOne, LeadsEnds
  <2> HIDE DEF h
  <2>11. Leads(<<v, w>>, g, h)
    BY <2>3, <2>4, <2>5, <2>10, PairLeads
  <2> QED
    BY <2>7, <2>8, <2>11 DEF v, w
<1>4. CASE low \in PortA
  <2>1. StepUp(step) \subseteq PortA
    BY <1>1, <1>4
  <2>2. Ordered(BsrrOf(PortA, step), BsrrOf(PortB, step), StepUp(step) \subseteq PortA)
          = <<BsrrOf(PortB, step), BsrrOf(PortA, step)>>
    BY <2>1 DEF Ordered
  <2> QED
    BY <1>3, <1>4, <2>2, Ports
<1>5. CASE low \in PortB
  <2>1. ~(StepUp(step) \subseteq PortA)
    BY <1>1, <1>5, Ports
  <2>2. Ordered(BsrrOf(PortA, step), BsrrOf(PortB, step), StepUp(step) \subseteq PortA)
          = <<BsrrOf(PortA, step), BsrrOf(PortB, step)>>
    BY <2>1 DEF Ordered
  <2> QED
    BY <1>3, <1>5, <2>2, Ports
<1> QED
  BY <1>1, <1>4, <1>5, Ports

\* The leg that sinks is not given to the timer.
LEMMA StepPins ==
  ASSUME NEW step \in 1 .. 6, NEW mode \in {"diode", "complementary"}
  PROVE  /\ StepAlt(step, mode) \subseteq Pins
         /\ High(Sinking(step)) \notin StepAlt(step, mode)
         /\ High(Driven(step)) \in StepAlt(step, mode)
         /\ StepAlt(step, mode) \subseteq {High(Driven(step)), Low(Driven(step))}
<1>1. Driven(step) \in Legs /\ Sinking(step) \in Legs /\ Driven(step) # Sinking(step)
  BY StepTable
<1> QED
  BY <1>1, PinFacts DEF StepAlt, Timed

\* The modes of a step, written port by port in either order.
LEMMA ModesLead ==
  ASSUME NEW step \in 1 .. 6, NEW mode \in {"diode", "complementary"}, NEW g \in Gates,
         Safe(g), g.latch = {Low(Sinking(step))},
         g.compare = "zero" \/ High(Sinking(step)) \notin g.timed
  PROVE  \E h \in Gates :
           /\ Leads(Ordered(ModerOf(PortA, step, mode), ModerOf(PortB, step, mode),
                            StepAlt(step, mode) \cap PortB = {}), g, h)
           /\ h.timed = StepAlt(step, mode) /\ h.latch = g.latch /\ SameTimer(g, h)
<1> DEFINE alt == StepAlt(step, mode)
           hot == High(Sinking(step))
<1>1. alt \subseteq Pins /\ hot \notin alt
  BY StepPins
<1>2. ASSUME NEW t, hot \notin t \/ g.compare = "zero"
      PROVE  SafeGates(t, g.latch, g.compare)
  <2>1. Sinking(step) \in Legs
    BY StepTable
  <2> QED
    BY <1>2, <2>1, PinFacts DEF SafeGates, Apart
<1> HIDE DEF alt
<1>3. ASSUME NEW P \in SUBSET Pins, NEW Q \in SUBSET Pins, P \cup Q = Pins
      PROVE  \E h \in Gates :
               /\ Leads(<<ModerOf(P, step, mode), ModerOf(Q, step, mode)>>, g, h)
               /\ h.timed = alt /\ h.latch = g.latch /\ SameTimer(g, h)
  <2> DEFINE v == ModerOf(P, step, mode)
             w == ModerOf(Q, step, mode)
             k == After(v, g)
             h == After(w, k)
  <2>1. /\ v \in Writes /\ v.up = {} /\ v.down = {} /\ v.out = P \ alt /\ v.alt = alt \cap P
        /\ v.timer = "none"
    BY <1>1 DEF ModerOf, Moder, Pin, Writes, alt
  <2>2. /\ w \in Writes /\ w.up = {} /\ w.down = {} /\ w.out = Q \ alt /\ w.alt = alt \cap Q
        /\ w.timer = "none"
    BY <1>1 DEF ModerOf, Moder, Pin, Writes, alt
  <2> HIDE DEF v, w
  <2>3. k \in Gates
    BY <2>1, AfterIsGates
  <2>4. k.timed = (g.timed \ (P \ alt)) \cup (alt \cap P) /\ k.latch = g.latch /\ SameTimer(g, k)
    BY <2>1 DEF After, SameTimer
  <2>5. Safe(k)
    <3>1. hot \notin k.timed \/ g.compare = "zero"
      BY <1>1, <2>4
    <3>2. SafeGates(k.timed, g.latch, g.compare)
      BY <1>2, <3>1
    <3> QED
      BY <2>4, <3>2 DEF Safe, SameTimer
  <2>6. Leads(<<v>>, g, k)
    BY <2>1, <2>5, LeadsOne
  <2> HIDE DEF k
  <2>7. h \in Gates
    BY <2>2, <2>3, AfterIsGates
  <2>8. h.timed = (k.timed \ (Q \ alt)) \cup (alt \cap Q) /\ h.latch = k.latch /\ SameTimer(k, h)
    BY <2>2 DEF After, SameTimer
  <2> HIDE DEF h
  <2>9. h.timed = alt
    <3>1. g.timed \subseteq Pins
      BY DEF Gates
    <3> QED
      BY <1>1, <1>3, <2>4, <2>8, <3>1
  <2>10. Safe(h)
    <3>1. SafeGates(h.timed, g.latch, g.compare)
      BY <1>1, <1>2, <2>9
    <3> QED
      BY <2>4, <2>8, <3>1 DEF Safe, SameTimer
  <2>11. Leads(<<w>>, k, h)
    BY <2>2, <2>3, <2>5, <2>10, LeadsOne DEF h
  <2>12. Leads(<<v, w>>, g, h)
    BY <2>1, <2>2, <2>6, <2>11, PairLeads
  <2>13. SameTimer(g, h)
    BY <2>4, <2>8 DEF SameTimer
  <2> QED
    BY <2>4, <2>7, <2>8, <2>9, <2>12, <2>13 DEF v, w
<1>4. CASE StepAlt(step, mode) \cap PortB = {}
  <2>1. Ordered(ModerOf(PortA, step, mode), ModerOf(PortB, step, mode), StepAlt(step, mode) \cap PortB = {})
          = <<ModerOf(PortB, step, mode), ModerOf(PortA, step, mode)>>
    BY <1>4 DEF Ordered
  <2> QED
    BY <1>3, <2>1, Ports DEF alt
<1>5. CASE StepAlt(step, mode) \cap PortB # {}
  <2>1. Ordered(ModerOf(PortA, step, mode), ModerOf(PortB, step, mode), StepAlt(step, mode) \cap PortB = {})
          = <<ModerOf(PortA, step, mode), ModerOf(PortB, step, mode)>>
    BY <1>5 DEF Ordered
  <2> QED
    BY <1>3, <2>1, Ports DEF alt
<1> QED
  BY <1>4, <1>5

\* com_step is safe when the timer does not pulse the leg that is to sink, or is at zero.
LEMMA ComStepLeads ==
  ASSUME NEW step \in 1 .. 6, NEW mode \in {"diode", "complementary"}, NEW g \in Gates,
         Safe(g), g.compare = "zero" \/ High(Sinking(step)) \notin g.timed
  PROVE  \E h \in Gates :
           Leads(ComStep(step, mode), g, h) /\ At(h, step) /\ SameTimer(g, h)
<1>1. PICK g1 \in Gates :
        /\ Leads(Ordered(BsrrOf(PortA, step), BsrrOf(PortB, step), StepUp(step) \subseteq PortA), g, g1)
        /\ g1.timed = g.timed /\ g1.latch = {Low(Sinking(step))} /\ SameTimer(g, g1)
  BY LatchesLead
<1>2. Safe(g1) /\ (g1.compare = "zero" \/ High(Sinking(step)) \notin g1.timed)
  BY <1>1, LeadsEnds DEF SameTimer
<1>3. PICK h \in Gates :
        /\ Leads(Ordered(ModerOf(PortA, step, mode), ModerOf(PortB, step, mode),
                         StepAlt(step, mode) \cap PortB = {}), g1, h)
        /\ h.timed = StepAlt(step, mode) /\ h.latch = g1.latch /\ SameTimer(g1, h)
  BY <1>1, <1>2, ModesLead
<1>4. Leads(ComStep(step, mode), g, h)
  BY <1>1, <1>3, LeadsOn DEF ComStep
<1>5. At(h, step) /\ SameTimer(g, h)
  BY <1>1, <1>3, StepPins DEF At, SameTimer
<1> QED
  BY <1>4, <1>5

\* phase_pwm, with the compare value at zero: the leg is given to the timer.
LEMMA LegPwmLeads ==
  ASSUME NEW leg \in Legs, NEW mode \in {"diode", "complementary"}, NEW g \in Gates,
         Safe(g), g.compare = "zero"
  PROVE  \E h \in Gates :
           Leads(LegPwm(leg, mode), g, h) /\ h.latch = g.latch \ {Low(leg)} /\ SameTimer(g, h)
<1> DEFINE low == {Low(leg)}
           high == {High(leg)}
           a == IF mode = "diode" THEN Moder(low, {}) ELSE Moder({}, low)
           b == Bsrr({}, low)
           c == Moder({}, high)
           g1 == After(a, g)
           g2 == After(b, g1)
           h == After(c, g2)
<1>1. low \in SUBSET Pins /\ high \in SUBSET Pins
  BY PinFacts
<1> HIDE DEF low, high
<1>2. a \in Writes /\ a.up = {} /\ a.down = {} /\ a.timer = "none"
  BY <1>1 DEF Moder, Pin, Writes
<1>3. b \in Writes /\ b.up = {} /\ b.down = low /\ b.timer = "none"
  BY <1>1 DEF Bsrr, Pin, Writes
<1>4. c \in Writes /\ c.up = {} /\ c.down = {} /\ c.timer = "none"
  BY <1>1 DEF Moder, Pin, Writes
<1>5. LegPwm(leg, mode) = <<a, b, c>>
  BY DEF LegPwm, low, high
<1> HIDE DEF a, b, c
<1>6. g1 \in Gates /\ g1.latch = g.latch /\ SameTimer(g, g1)
  BY <1>2, AfterIsGates DEF After, SameTimer
<1> HIDE DEF g1
<1>7. g2 \in Gates /\ g2.latch = g1.latch \ low /\ SameTimer(g1, g2)
  BY <1>3, <1>6, AfterIsGates DEF After, SameTimer
<1> HIDE DEF g2
<1>8. h \in Gates /\ h.latch = g2.latch /\ SameTimer(g2, h)
  BY <1>4, <1>7, AfterIsGates DEF After, SameTimer
<1> HIDE DEF h
<1>9. Safe(g1) /\ Safe(g2) /\ Safe(h)
  <2>1. ASSUME NEW t, NEW l, l \subseteq g.latch PROVE SafeGates(t, l, "zero")
    BY <2>1 DEF Safe, SafeGates
  <2> QED
    BY <1>6, <1>7, <1>8, <2>1 DEF Safe, SameTimer
<1>10. Leads(<<a>>, g, g1) /\ Leads(<<b>>, g1, g2) /\ Leads(<<c>>, g2, h)
  BY <1>2, <1>3, <1>4, <1>6, <1>7, <1>9, LeadsOne DEF g1, g2, h
<1>11. Leads(<<a, b>> \o <<c>>, g, h)
  BY <1>2, <1>3, <1>10, PairLeads, LeadsOn
<1>12. <<a, b, c>> = <<a, b>> \o <<c>>
  <2> DEFINE s == <<a, b, c>>
             t == <<a, b>> \o <<c>>
  <2>1. /\ s \in Seq(Writes) /\ Len(s) = 3 /\ s[1] = a /\ s[2] = b /\ s[3] = c
    BY <1>2, <1>3, <1>4
  <2>2. /\ <<a, b>> \in Seq(Writes) /\ <<c>> \in Seq(Writes) /\ Len(<<a, b>>) = 2 /\ Len(<<c>>) = 1
        /\ <<a, b>>[1] = a /\ <<a, b>>[2] = b /\ <<c>>[1] = c
    BY <1>2, <1>3, <1>4
  <2>3. t \in Seq(Writes) /\ Len(t) = 3 /\ t[1] = a /\ t[2] = b /\ t[3] = c
    BY <2>2
  <2> HIDE DEF s, t
  <2>4. \A i \in 1 .. 3 : s[i] = t[i]
    BY <2>1, <2>3
  <2>5. s = t
    BY <2>1, <2>3, <2>4, SeqEqual
  <2> QED
    BY <2>5 DEF s, t
<1>13. h.latch = g.latch \ {Low(leg)} /\ SameTimer(g, h)
  BY <1>6, <1>7, <1>8 DEF SameTimer, low
<1> QED
  BY <1>5, <1>8, <1>11, <1>12, <1>13

\* With a zero compare value all legs can be given to the timer; none sinks then.
LEMMA AllPwmLeads ==
  ASSUME NEW mode \in {"diode", "complementary"}, NEW g \in Gates, Safe(g), g.compare = "zero"
  PROVE  \E h \in Gates : Leads(AllPwm(mode), g, h) /\ h.latch = {} /\ SameTimer(g, h)
<1>1. "A" \in Legs /\ "B" \in Legs /\ "C" \in Legs
  BY DEF Legs
<1>2. PICK g1 \in Gates : /\ Leads(LegPwm("A", mode), g, g1)
                          /\ g1.latch = g.latch \ {Low("A")} /\ SameTimer(g, g1)
  BY <1>1, LegPwmLeads
<1>3. Safe(g1) /\ g1.compare = "zero"
  BY <1>2, LeadsEnds DEF SameTimer
<1>4. PICK g2 \in Gates : /\ Leads(LegPwm("B", mode), g1, g2)
                          /\ g2.latch = g1.latch \ {Low("B")} /\ SameTimer(g1, g2)
  BY <1>1, <1>3, LegPwmLeads
<1>5. Safe(g2) /\ g2.compare = "zero"
  BY <1>3, <1>4, LeadsEnds DEF SameTimer
<1>6. PICK h \in Gates : /\ Leads(LegPwm("C", mode), g2, h)
                         /\ h.latch = g2.latch \ {Low("C")} /\ SameTimer(g2, h)
  BY <1>1, <1>5, LegPwmLeads
<1>7. Leads(AllPwm(mode), g, h)
  BY <1>2, <1>4, <1>6, LeadsOn DEF AllPwm
<1>8. h.latch = {}
  <2>1. g.latch \subseteq {Low("A"), Low("B"), Low("C")}
    <3>1. g.latch \subseteq Pins /\ \A leg \in Legs : High(leg) \notin g.latch
      BY DEF Gates, Safe, SafeGates
    <3>2. \A p \in Pins : \E leg \in {"A", "B", "C"} : p = High(leg) \/ p = Low(leg)
      BY PinFacts DEF Legs
    <3> QED
      BY <3>1, <3>2 DEF Legs
  <2> QED
    BY <1>2, <1>4, <1>6, <2>1
<1>9. SameTimer(g, h)
  BY <1>2, <1>4, <1>6 DEF SameTimer
<1> QED
  BY <1>7, <1>8, <1>9

\* The brake takes a high gate from the timer.
LEMMA HighOffLeads ==
  ASSUME NEW leg \in Legs, NEW g \in Gates, Safe(g)
  PROVE  \E h \in Gates :
           /\ Leads(HighOff(leg), g, h) /\ h.timed = g.timed \ {High(leg)}
           /\ SameTimer(g, h)
<1> DEFINE a == Pin({}, {}, {High(leg)}, {})
           b == Pin({}, {High(leg)}, {}, {})
<1>1. {High(leg)} \in SUBSET Pins /\ {} \in SUBSET Pins
  BY PinFacts
<1>2. a \in Writes /\ b \in Writes
  BY <1>1, PinIsWrite
<1>3. PICK g1 \in Gates : /\ Leads(<<a>>, g, g1) /\ g1.timed = g.timed \ {High(leg)}
                          /\ SameTimer(g, g1)
  BY <1>1, LessLeads
<1>4. PICK h \in Gates : /\ Leads(<<b>>, g1, h) /\ h.timed = g1.timed \ {} /\ SameTimer(g1, h)
  BY <1>1, <1>3, LessLeads, LeadsEnds
<1>5. HighOff(leg) = <<a, b>>
  BY DEF HighOff, Bsrr, Moder
<1> HIDE DEF a, b
<1>6. Leads(HighOff(leg), g, h)
  BY <1>2, <1>3, <1>4, <1>5, PairLeads
<1>7. h.timed = g.timed \ {High(leg)} /\ SameTimer(g, h)
  BY <1>3, <1>4 DEF SameTimer
<1> QED
  BY <1>6, <1>7

\* The brake gives a low gate to the timer, with no high gate there.
LEMMA LowTimedLeads ==
  ASSUME NEW leg \in Legs, NEW g \in Gates, Safe(g), \A a \in Legs : High(a) \notin g.timed
  PROVE  \E h \in Gates :
           /\ Leads(LowTimed(leg), g, h) /\ \A a \in Legs : High(a) \notin h.timed
           /\ SameTimer(g, h)
<1> DEFINE w == Moder({}, {Low(leg)})
           h == After(w, g)
<1>1. {Low(leg)} \in SUBSET Pins
  BY PinFacts
<1>2. /\ w \in Writes /\ w.up = {} /\ w.down = {} /\ w.out = {} /\ w.alt = {Low(leg)}
      /\ w.timer = "none"
  BY <1>1 DEF Moder, Pin, Writes
<1> HIDE DEF w
<1>3. h \in Gates
  BY <1>2, AfterIsGates
<1>4. h.timed = g.timed \cup {Low(leg)} /\ h.latch = g.latch /\ SameTimer(g, h)
  BY <1>2 DEF After, SameTimer
<1>5. \A a \in Legs : High(a) \notin h.timed
  BY <1>4, PinFacts
<1>6. Safe(h)
  BY <1>4, <1>5 DEF Safe, SafeGates, Apart, SameTimer
<1>7. Leads(<<w>>, g, h)
  BY <1>2, <1>6, LeadsOne
<1> HIDE DEF h
<1> QED
  BY <1>3, <1>4, <1>5, <1>7 DEF LowTimed, w

\* proportional_brake, from any gates.
LEMMA ProportionalBrakeLeads ==
  ASSUME NEW g \in Gates, Safe(g)
  PROVE  \E h \in Gates :
           Leads(ProportionalBrake, g, h) /\ Apart(h.timed, h.latch) /\ SameTimer(g, h)
<1>1. "A" \in Legs /\ "B" \in Legs /\ "C" \in Legs /\ \A a \in Legs : a \in {"A", "B", "C"}
  BY DEF Legs
<1>2. PICK g1 \in Gates :
        Leads(HighOff("A"), g, g1) /\ g1.timed = g.timed \ {High("A")} /\ SameTimer(g, g1)
  BY <1>1, HighOffLeads
<1>3. PICK g2 \in Gates :
        Leads(HighOff("B"), g1, g2) /\ g2.timed = g1.timed \ {High("B")} /\ SameTimer(g1, g2)
  BY <1>1, <1>2, HighOffLeads, LeadsEnds
<1>4. PICK g3 \in Gates :
        Leads(HighOff("C"), g2, g3) /\ g3.timed = g2.timed \ {High("C")} /\ SameTimer(g2, g3)
  BY <1>1, <1>3, HighOffLeads, LeadsEnds
<1>5. \A a \in Legs : High(a) \notin g3.timed
  BY <1>1, <1>2, <1>3, <1>4
<1>6. PICK g4 \in Gates :
        Leads(LowTimed("A"), g3, g4) /\ (\A a \in Legs : High(a) \notin g4.timed) /\ SameTimer(g3, g4)
  BY <1>1, <1>4, <1>5, LowTimedLeads, LeadsEnds
<1>7. PICK g5 \in Gates :
        Leads(LowTimed("B"), g4, g5) /\ (\A a \in Legs : High(a) \notin g5.timed) /\ SameTimer(g4, g5)
  BY <1>1, <1>6, LowTimedLeads, LeadsEnds
<1>8. PICK h \in Gates :
        Leads(LowTimed("C"), g5, h) /\ (\A a \in Legs : High(a) \notin h.timed) /\ SameTimer(g5, h)
  BY <1>1, <1>7, LowTimedLeads, LeadsEnds
<1>9. Leads(ProportionalBrake, g, h)
  BY <1>2, <1>3, <1>4, <1>6, <1>7, <1>8, LeadsOn DEF ProportionalBrake
<1>10. Apart(h.timed, h.latch)
  BY <1>8 DEF Apart
<1>11. SameTimer(g, h)
  BY <1>2, <1>3, <1>4, <1>6, <1>7, <1>8 DEF SameTimer
<1> QED
  BY <1>9, <1>10, <1>11

\* What a write of the timer leaves alone.
SamePins(g, h) == h.timed = g.timed /\ h.latch = g.latch

\* DutyOff makes the compare value in effect zero, from any gates.
LEMMA DutyOffLeads ==
  ASSUME NEW g \in Gates, Safe(g)
  PROVE  \E h \in Gates :
           /\ Leads(DutyOff, g, h) /\ SamePins(g, h) /\ h.compare = "zero"
           /\ h.divider = g.divider
<1>1. PICK g1 \in Gates :
        /\ Leads(<<Timer("zero")>>, g, g1) /\ SamePins(g, g1)
        /\ g1.buffered = "zero" /\ g1.divider = g.divider
  BY TimerLeads DEF SamePins
<1>2. PICK h \in Gates :
        /\ Leads(<<Timer("latch")>>, g1, h) /\ h.timed = g1.timed /\ h.latch = g1.latch
        /\ "latch" = "latch" /\ g1.buffered = "zero" => h.compare = "zero"
        /\ h.divider = (IF "latch" \in {"motor", "tone"} THEN "latch" ELSE g1.divider)
  <2>1. Safe(g1)
    BY <1>1, LeadsEnds
  <2> QED
    BY <1>1, <2>1, TimerLeads
<1>3. Leads(DutyOff, g, h)
  BY <1>1, <1>2, LeadsOn DEF DutyOff, Duty, Latch
<1>4. SamePins(g, h) /\ h.compare = "zero" /\ h.divider = g.divider
  BY <1>1, <1>2 DEF SamePins
<1> QED
  BY <1>3, <1>4

\* A duty needs the legs apart, unless it is zero.
LEMMA DutyLeads ==
  ASSUME NEW amount \in {"zero", "some"}, NEW g \in Gates, Safe(g),
         amount = "zero" \/ Apart(g.timed, g.latch)
  PROVE  \E h \in Gates :
           Leads(Duty(amount), g, h) /\ SamePins(g, h) /\ h.divider = g.divider
<1>1. PICK h \in Gates :
        /\ Leads(<<Timer(amount)>>, g, h) /\ h.timed = g.timed /\ h.latch = g.latch
        /\ h.divider = (IF amount \in {"motor", "tone"} THEN amount ELSE g.divider)
  BY TimerLeads
<1> QED
  BY <1>1 DEF Duty, SamePins

\* The prescaler changes no pin.
LEMMA DividerLeads ==
  ASSUME NEW what \in {"motor", "tone"}, NEW g \in Gates, Safe(g)
  PROVE  \E h \in Gates :
           Leads(Divider(what), g, h) /\ SamePins(g, h) /\ h.divider = what
<1>1. PICK h \in Gates :
        /\ Leads(<<Timer(what)>>, g, h) /\ h.timed = g.timed /\ h.latch = g.latch
        /\ h.divider = (IF what \in {"motor", "tone"} THEN what ELSE g.divider)
  BY TimerLeads
<1> QED
  BY <1>1 DEF Divider, SamePins

------------------------------------------------------------------------------
(* The step of the hardware *)

\* g is what is known of the gates in this state.
Shows(g) ==
  /\ g.timed = timed /\ g.latch = latchHigh /\ g.buffered = buffered /\ g.divider = divider
  /\ g.compare = "zero" => compare = "zero" /\ buffered = "zero"

\* A write that changes nothing leaves what is known true.
LEMMA UnchangedShows ==
  ASSUME NEW g \in Gates, Shows(g), NEW w \in Writes, ~Changes(w)
  PROVE  Shows(After(w, g))
<1>1. /\ TimedBy(w) = timed /\ LatchedBy(w) = latchHigh /\ BufferedBy(w) = buffered
      /\ CompareBy(w) = compare /\ DividerBy(w) = divider
  BY DEF Changes, gateVars
<1> QED
  BY <1>1 DEF Shows, After, Writes, TimedBy, LatchedBy, BufferedBy, CompareBy, DividerBy

\* A write does what After says.
LEMMA WrittenShows ==
  ASSUME NEW g \in Gates, Shows(g), NEW w \in Writes,
         latchHigh' = LatchedBy(w), timed' = TimedBy(w), buffered' = BufferedBy(w),
         compare' = CompareBy(w), divider' = DividerBy(w),
         NEW h, h = After(w, g)
  PROVE  /\ h.timed = timed' /\ h.latch = latchHigh' /\ h.buffered = buffered' /\ h.divider = divider'
         /\ h.compare = "zero" => compare' = "zero" /\ buffered' = "zero"
BY DEF Shows, After, Writes, TimedBy, LatchedBy, BufferedBy, CompareBy, DividerBy

\* The writes skipped change nothing; those that remain lead where the whole did.
LEMMA WriteShows ==
  ASSUME Write, NEW g, NEW h, Shows(g), Leads(todo, g, h)
  PROVE  \E k \in Gates : Shows(k)' /\ Leads(todo', k, h)
<1>1. PICK i \in 1 .. Len(todo) :
       /\ \A j \in 1 .. i - 1 : ~Changes(todo[j])
       /\ latchHigh' = LatchedBy(todo[i]) /\ timed' = TimedBy(todo[i])
       /\ buffered' = BufferedBy(todo[i]) /\ compare' = CompareBy(todo[i])
       /\ divider' = DividerBy(todo[i])
       /\ todo' = SubSeq(todo, i + 1, Len(todo))
  BY DEF Write
<1>2. PICK f \in [0 .. Len(todo) -> Gates] :
        /\ f[0] = g /\ f[Len(todo)] = h
        /\ \A j \in 1 .. Len(todo) : f[j] = After(todo[j], f[j - 1])
        /\ \A j \in 0 .. Len(todo) : Safe(f[j])
  BY DEF Leads
<1>3. todo \in Seq(Writes) /\ Len(todo) \in Nat /\ \A j \in 1 .. Len(todo) : todo[j] \in Writes
  BY DEF Leads
<1> DEFINE shown == {j \in 0 .. i - 1 : Shows(f[j])}
<1>4. 0 .. i - 1 \subseteq shown
  <2>1. 0 \in shown
    BY <1>2, <1>3
  <2>2. ASSUME NEW j \in 0 .. i - 1 - 1, j \in shown PROVE j + 1 \in shown
    <3>1. j + 1 \in 1 .. Len(todo) /\ j + 1 \in 1 .. i - 1 /\ j \in 0 .. Len(todo) /\ j + 1 - 1 = j
      BY <1>3
    <3>2. f[j + 1] = After(todo[j + 1], f[j]) /\ ~Changes(todo[j + 1]) /\ todo[j + 1] \in Writes
      BY <1>1, <1>2, <1>3, <3>1
    <3>3. f[j] \in Gates /\ Shows(f[j])
      BY <2>2, <3>1
    <3>4. Shows(f[j + 1])
      BY <3>2, <3>3, UnchangedShows
    <3> QED
      BY <3>1, <3>4
  <2>3. i - 1 \in Nat
    BY <1>3
  <2> HIDE DEF shown
  <2> QED
    BY <2>1, <2>2, <2>3, Counting
<1>5. f[i - 1] \in Gates /\ Shows(f[i - 1])
  BY <1>3, <1>4
<1>6. f[i] = After(todo[i], f[i - 1]) /\ todo[i] \in Writes /\ f[i] \in Gates
  BY <1>2, <1>3
<1>7. Shows(f[i])'
  <2> DEFINE k == f[i]
             w == todo[i]
  <2>1. /\ k.timed = timed' /\ k.latch = latchHigh' /\ k.buffered = buffered' /\ k.divider = divider'
        /\ k.compare = "zero" => compare' = "zero" /\ buffered' = "zero"
    <3> HIDE DEF k, w
    <3> QED
      BY <1>1, <1>5, <1>6, WrittenShows DEF k, w
  <2> QED
    BY <2>1 DEF Shows
<1>8. Leads(todo', f[i], h)
  <2> DEFINE n == Len(todo) - i
             e == [j \in 0 .. n |-> f[j + i]]
             t == SubSeq(todo, i + 1, Len(todo))
  <2>1. n \in Nat /\ \A j \in 0 .. n : j + i \in 0 .. Len(todo)
    BY <1>3
  <2>2. t \in Seq(Writes) /\ Len(t) = n /\ \A j \in 1 .. n : t[j] = todo[j + i]
    BY <1>3
  <2>3. e \in [0 .. n -> Gates] /\ e[0] = f[i] /\ e[n] = h
    BY <1>2, <1>3, <2>1
  <2>4. ASSUME NEW j \in 1 .. n PROVE e[j] = After(t[j], e[j - 1])
    <3>1. /\ j + i \in 1 .. Len(todo) /\ j \in 0 .. n /\ j - 1 \in 0 .. n
          /\ j + i - 1 = j - 1 + i
      BY <1>3
    <3>2. f[j + i] = After(todo[j + i], f[j - 1 + i])
      BY <1>2, <3>1
    <3>3. e[j] = f[j + i] /\ e[j - 1] = f[j - 1 + i] /\ t[j] = todo[j + i]
      BY <2>2, <3>1
    <3> HIDE DEF e, t
    <3>4. After(t[j], e[j - 1]) = After(todo[j + i], f[j - 1 + i])
      BY <3>3
    <3> QED
      BY <3>2, <3>3, <3>4
  <2>5. \A j \in 0 .. n : Safe(e[j])
    BY <1>2, <2>1
  <2> HIDE DEF e, t, n
  <2>6. Leads(t, f[i], h)
    BY <2>2, <2>3, <2>4, <2>5 DEF Leads
  <2> QED
    BY <1>1, <2>6 DEF t
<1> QED
  BY <1>6, <1>7, <1>8

------------------------------------------------------------------------------
(* Who leaves the bridge how *)

\* What the bridge is left with by the note n.
Sounds(g, n) == Off(g) \/ n = 0 \/ (n \in 1 .. 6 /\ At(g, n))

BridgeTypes ==
  /\ bridgeMode \in {"disarmed", "armed", "driven", "sine"} /\ comStep \in 1 .. 6
  /\ pwmMode \in {"diode", "complementary"}
  /\ tuneAsked \in Tunes \cup {<<>>}
  /\ note \in Nat
  /\ note # 0 => tune \in Tunes /\ note \in 1 .. Len(tune)

\* The gates when all writes are done: a running motor's are in its step, or off since
\* AllOff; a tune's are in the step of its note; whatever is left keeps the legs apart.
Rest(h) ==
  /\ Apart(h.timed, h.latch)
  /\ note = 0 => h.divider = "motor"
  /\ bridgeMode = "driven" => At(h, comStep) \/ (Off(h) /\ cut)
  /\ note # 0 => bridgeMode \in {"armed", "disarmed"} /\ Sounds(h, tune[note])

BridgeStands ==
  /\ BridgeTypes
  /\ \E g, h \in Gates : Shows(g) /\ Leads(todo, g, h) /\ Rest(h)

\* A bridge that is off keeps its legs apart.
LEMMA OffIsApart == \A g : Off(g) => Apart(g.timed, g.latch)
BY DEF Off, Apart

\* The leg a step makes sink is not driven now, from an idle bridge or the step before.
LEMMA OffDrives ==
  ASSUME NEW g \in Gates, NEW step \in 1 .. 6,
         Off(g) \/ \E s \in 1 .. 6 : At(g, s) /\ Driven(s) # Sinking(step)
  PROVE  High(Sinking(step)) \notin g.timed
<1>1. CASE Off(g)
  BY <1>1 DEF Off
<1>2. ASSUME NEW s \in 1 .. 6, At(g, s), Driven(s) # Sinking(step)
      PROVE  High(Sinking(step)) \notin g.timed
  BY <1>2, StepTable, PinFacts DEF At
<1> QED
  BY <1>1, <1>2

\* The end of a tune keeps a busy bridge and turns a free one off.
LEMMA SilenceLeads ==
  ASSUME NEW g \in Gates, Safe(g)
  PROVE  /\ \E h \in Gates : Leads(Silence(TRUE), g, h) /\ SamePins(g, h) /\ h.divider = "motor"
         /\ \E h \in Gates : Leads(Silence(FALSE), g, h) /\ Off(h) /\ h.divider = "motor"
<1>1. \E h \in Gates : Leads(Silence(TRUE), g, h) /\ SamePins(g, h) /\ h.divider = "motor"
  BY DividerLeads DEF Silence
<1>2. PICK g1 \in Gates : Leads(AllOff, g, g1) /\ Off(g1)
  BY AllOffLeads
<1>3. PICK h \in Gates : Leads(Divider("motor"), g1, h) /\ SamePins(g1, h) /\ h.divider = "motor"
  BY <1>2, DividerLeads, LeadsEnds
<1>4. Leads(Silence(FALSE), g, h) /\ Off(h)
  BY <1>2, <1>3, LeadsOn DEF Silence, Off, SamePins
<1> QED
  BY <1>1, <1>3, <1>4

\* A note starts on a bridge that is off, or left by the note before it.
LEMMA NoteLeads ==
  ASSUME BridgeTypes, NEW t \in Tunes, NEW n \in 1 .. Len(t), NEW g \in Gates, Safe(g),
         Apart(g.timed, g.latch), Off(g) \/ (n > 1 /\ Sounds(g, t[n - 1]))
  PROVE  \E h \in Gates :
           Leads(StartNote(t, n), g, h) /\ Apart(h.timed, h.latch) /\ Sounds(h, t[n])
<1>1. t \in Seq(0 .. 7) /\ t[n] \in 0 .. 7 /\ Len(t) \in Nat
  BY BridgeAssumption DEF BridgeAssumption
<1>2. CASE t[n] = 7
  <2>1. PICK h \in Gates : Leads(Silence(FALSE), g, h) /\ Off(h)
    BY SilenceLeads
  <2> QED
    BY <1>2, <2>1, OffIsApart DEF StartNote, Sounds
<1>3. ASSUME t[n] # 7
      PROVE  \E h \in Gates : /\ Leads(Divider("tone") \o Duty("some"), g, h) /\ SamePins(g, h)
                              /\ StartNote(t, n) = Divider("tone") \o Duty("some")
                                                   \o ComStep(t[n], pwmMode)
  <2>1. PICK g1 \in Gates : Leads(Divider("tone"), g, g1) /\ SamePins(g, g1)
    BY DividerLeads
  <2>2. Safe(g1) /\ Apart(g1.timed, g1.latch)
    BY <2>1, LeadsEnds DEF SamePins
  <2>3. PICK h \in Gates : Leads(Duty("some"), g1, h) /\ SamePins(g1, h)
    BY <2>2, DutyLeads
  <2> QED
    BY <1>3, <2>1, <2>3, LeadsOn DEF SamePins, StartNote
<1>4. CASE t[n] = 0
  <2>1. PICK h \in Gates : /\ Leads(Divider("tone") \o Duty("some"), g, h) /\ SamePins(g, h)
                           /\ StartNote(t, n) = Divider("tone") \o Duty("some") \o ComStep(t[n], pwmMode)
    BY <1>3, <1>4
  <2>2. ComStep(t[n], pwmMode) = <<>>
    BY <1>4 DEF ComStep
  <2>3. Leads(<<>>, h, h)
    BY <2>1, LeadsEnds, LeadsNone
  <2>4. Leads(StartNote(t, n), g, h)
    BY <2>1, <2>2, <2>3, LeadsOn
  <2> QED
    BY <1>4, <2>1, <2>4 DEF SamePins, Sounds
<1>5. CASE t[n] \in 1 .. 6
  <2>1. PICK g1 \in Gates : /\ Leads(Divider("tone") \o Duty("some"), g, g1) /\ SamePins(g, g1)
                            /\ StartNote(t, n) = Divider("tone") \o Duty("some") \o ComStep(t[n], pwmMode)
    BY <1>3, <1>5
  <2>2. High(Sinking(t[n])) \notin g1.timed
    <3>1. ASSUME n > 1, Sounds(g, t[n - 1]), ~Off(g)
          PROVE  \E s \in 1 .. 6 : At(g, s) /\ Driven(s) # Sinking(t[n])
      <4>1. n - 1 \in 1 .. Len(t) - 1 /\ n - 1 + 1 = n
        BY <1>1, <3>1
      <4>2. Follows(t[n - 1], t[n])
        BY <4>1, BridgeAssumption DEF BridgeAssumption
      <4>3. (t[n - 1] \in 1 .. 6 /\ At(g, t[n - 1])) \/ t[n - 1] = 0
        BY <3>1 DEF Sounds
      <4> QED
        BY <1>5, <4>2, <4>3 DEF Follows
    <3>2. High(Sinking(t[n])) \notin g.timed
      BY <1>5, <3>1, OffDrives
    <3> QED
      BY <2>1, <3>2 DEF SamePins
  <2>3. PICK h \in Gates : Leads(ComStep(t[n], pwmMode), g1, h) /\ At(h, t[n])
    BY <1>5, <2>1, <2>2, ComStepLeads, LeadsEnds DEF BridgeTypes
  <2>4. Leads(StartNote(t, n), g, h)
    BY <2>1, <2>3, LeadsOn
  <2> QED
    BY <1>5, <2>3, <2>4, AtIsApart DEF Sounds
<1> QED
  BY <1>1, <1>2, <1>4, <1>5

\* A busy bridge keeps what it has; a tune in progress is forgotten.
LEMMA BusyToneLeads ==
  ASSUME NEW writes, NEW g, NEW h \in Gates, Leads(writes, g, h), ToneStep(TRUE, writes),
         note = 0 => h.divider = "motor"
  PROVE  /\ note' = 0 /\ tuneAsked' = <<>>
         /\ \E k \in Gates : Leads(todo', g, k) /\ SamePins(h, k) /\ k.divider = "motor"
<1>1. /\ note' = 0 /\ tuneAsked' = <<>>
      /\ \/ note # 0 /\ todo' = writes \o Silence(TRUE)
         \/ note = 0 /\ todo' = writes
  BY DEF ToneStep, Keep
<1>2. CASE note = 0
  BY <1>1, <1>2 DEF SamePins
<1>3. CASE note # 0
  <2>1. PICK k \in Gates : Leads(Silence(TRUE), h, k) /\ SamePins(h, k) /\ k.divider = "motor"
    BY SilenceLeads, LeadsEnds
  <2>2. Leads(todo', g, k)
    BY <1>1, <1>3, <2>1, LeadsOn
  <2> QED
    BY <1>1, <2>1, <2>2
<1> QED
  BY <1>2, <1>3

\* On a bridge that is free the scheduler goes on.
LEMMA FreeToneLeads ==
  ASSUME BridgeTypes, NEW writes, NEW g, NEW h \in Gates, Leads(writes, g, h),
         Apart(h.timed, h.latch), ToneStep(FALSE, writes),
         note = 0 => h.divider = "motor",
         note = 0 /\ tuneAsked # <<>> => Off(h),
         note # 0 => Sounds(h, tune[note])
  PROVE  /\ note' \in Nat /\ (note' # 0 => tune' \in Tunes /\ note' \in 1 .. Len(tune'))
         /\ tuneAsked' = <<>>
         /\ \E k \in Gates :
              /\ Leads(todo', g, k) /\ Apart(k.timed, k.latch)
              /\ note' = 0 => k.divider = "motor"
              /\ note' # 0 => Sounds(k, tune'[note'])
<1>1. Safe(h)
  BY LeadsEnds
<1>2. tuneAsked' = <<>>
  BY DEF ToneStep
<1>3. CASE note = 0 /\ tuneAsked = <<>> /\ note' = 0 /\ todo' = writes
  BY <1>2, <1>3
<1>4. CASE note = 0 /\ tuneAsked # <<>> /\ tune' = tuneAsked /\ note' = 1
             /\ todo' = writes \o StartNote(tuneAsked, 1)
  <2>1. tuneAsked \in Tunes /\ 1 \in 1 .. Len(tuneAsked)
    BY <1>4, BridgeAssumption DEF BridgeTypes, BridgeAssumption
  <2>2. PICK k \in Gates : /\ Leads(StartNote(tuneAsked, 1), h, k) /\ Apart(k.timed, k.latch)
                           /\ Sounds(k, tuneAsked[1])
    BY <1>1, <1>4, <2>1, NoteLeads
  <2>3. Leads(todo', g, k)
    BY <1>4, <2>2, LeadsOn
  <2> QED
    BY <1>2, <1>4, <2>1, <2>2, <2>3
<1>5. CASE note # 0 /\ tune' = tune /\ note' = note /\ todo' = writes
  BY <1>2, <1>5 DEF BridgeTypes
<1>6. CASE note # 0 /\ note < Len(tune) /\ tune' = tune /\ note' = note + 1
             /\ todo' = writes \o StartNote(tune, note + 1)
  <2>1. /\ tune \in Tunes /\ note + 1 \in 1 .. Len(tune) /\ note \in Nat
        /\ note + 1 > 1 /\ note + 1 - 1 = note
    <3>1. tune \in Tunes /\ note \in 1 .. Len(tune) /\ note \in Nat
      BY <1>6 DEF BridgeTypes
    <3>2. Len(tune) \in Nat
      BY <3>1, BridgeAssumption DEF BridgeAssumption
    <3> QED
      BY <1>6, <3>1, <3>2
  <2>2. Sounds(h, tune[note + 1 - 1])
    BY <1>6, <2>1
  <2>3. PICK k \in Gates : /\ Leads(StartNote(tune, note + 1), h, k) /\ Apart(k.timed, k.latch)
                           /\ Sounds(k, tune[note + 1])
    BY <1>1, <2>1, <2>2, NoteLeads
  <2>4. Leads(todo', g, k)
    BY <1>6, <2>3, LeadsOn
  <2> QED
    BY <1>2, <1>6, <2>1, <2>3, <2>4
<1>7. CASE note # 0 /\ note' = 0 /\ todo' = writes \o Silence(FALSE)
  <2>1. PICK k \in Gates : Leads(Silence(FALSE), h, k) /\ Off(k) /\ k.divider = "motor"
    BY <1>1, SilenceLeads
  <2>2. Leads(todo', g, k)
    BY <1>7, <2>1, LeadsOn
  <2> QED
    BY <1>2, <1>7, <2>1, <2>2, OffIsApart
<1> QED
  BY <1>3, <1>4, <1>5, <1>6, <1>7 DEF ToneStep, Keep

------------------------------------------------------------------------------
(* The control tick *)

\* What is known of the bridge when the writes of a stage of the tick are done, if the
\* divider was d before them.
Driving(st, k, d) ==
  /\ st.mode \in {"disarmed", "armed", "driven", "sine"} /\ st.step \in 1 .. 6
  /\ Apart(k.timed, k.latch) /\ k.divider = d
  /\ st.mode = "driven" =>
       At(k, st.step) \/ (Off(k) /\ cut /\ st.step = comStep /\ bridgeMode = "driven")

StageAt(st, k, d) ==
  /\ Driving(st, k, d)
  /\ note # 0 /\ st.mode \in {"armed", "disarmed"} => Sounds(k, tune[note])

StageStands(st, g) == \E k \in Gates : Leads(st.writes, g, k) /\ StageAt(st, k, g.divider)

\* Nothing more to write.
LEMMA NoMoreLeads ==
  ASSUME NEW s, NEW g, NEW h, Leads(s, g, h)
  PROVE  Leads(s \o <<>>, g, h)
<1>1. Leads(<<>>, h, h)
  BY LeadsEnds, LeadsNone
<1> QED
  BY <1>1, LeadsOn

\* DutyOff and the step of a com_step, from any gates.
LEMMA ColdStepLeads ==
  ASSUME NEW step \in 1 .. 6, NEW mode \in {"diode", "complementary"}, NEW g \in Gates, Safe(g)
  PROVE  \E h \in Gates :
           /\ Leads(DutyOff \o ComStep(step, mode), g, h) /\ At(h, step)
           /\ h.divider = g.divider
<1>1. PICK g1 \in Gates : Leads(DutyOff, g, g1) /\ g1.compare = "zero" /\ g1.divider = g.divider
  BY DutyOffLeads
<1>2. PICK h \in Gates : Leads(ComStep(step, mode), g1, h) /\ At(h, step) /\ SameTimer(g1, h)
  BY <1>1, ComStepLeads, LeadsEnds
<1> QED
  BY <1>1, <1>2, LeadsOn DEF SameTimer

\* AllOff, then DutyOff.
LEMMA OffDutyLeads ==
  ASSUME NEW g \in Gates, Safe(g)
  PROVE  \E h \in Gates : Leads(AllOff \o DutyOff, g, h) /\ Off(h) /\ h.divider = g.divider
<1>1. PICK g1 \in Gates : Leads(AllOff, g, g1) /\ Off(g1) /\ SameTimer(g, g1)
  BY AllOffLeads
<1>2. PICK h \in Gates : Leads(DutyOff, g1, h) /\ SamePins(g1, h) /\ h.divider = g1.divider
  BY <1>1, DutyOffLeads, LeadsEnds
<1> QED
  BY <1>1, <1>2, LeadsOn DEF SameTimer, SamePins, Off

\* The handoff from the sine.
LEMMA HandoffStands ==
  ASSUME BridgeTypes, NEW st, NEW g, StageStands(st, g), st.writes = <<>>,
         NEW handed, handed = Handoff(st)
  PROVE  StageStands(handed, g)
<1>1. CASE handed = st
  BY <1>1
<1>2. CASE handed # st
  <2>1. /\ handed.mode = "driven" /\ handed.step = 5
        /\ handed.writes = DutyOff \o ComStep(5, pwmMode)
    BY <1>2 DEF Handoff, Stage
  <2>2. g \in Gates /\ Safe(g)
    BY LeadsEnds DEF StageStands
  <2>3. PICK k \in Gates : /\ Leads(DutyOff \o ComStep(5, pwmMode), g, k) /\ At(k, 5)
                           /\ k.divider = g.divider
    BY <2>2, ColdStepLeads DEF BridgeTypes
  <2>4. StageAt(handed, k, g.divider)
    BY <2>1, <2>3, AtIsApart DEF StageAt, Driving
  <2> QED
    BY <2>1, <2>3, <2>4 DEF StageStands
<1> QED
  BY <1>1, <1>2

\* The change to sine.
LEMMA ToSineStands ==
  ASSUME BridgeTypes, NEW st, NEW g, StageStands(st, g), NEW to, to = ToSine(st)
  PROVE  StageStands(to, g)
<1>1. PICK k \in Gates : Leads(st.writes, g, k) /\ StageAt(st, k, g.divider)
  BY DEF StageStands
<1>2. CASE to = st
  BY <1>2
<1>3. CASE to # st
  <2>1. /\ to.mode = "sine" /\ to.step = st.step
        /\ to.writes = st.writes \o (IF st.mode = "sine" THEN <<>> ELSE AllOff \o DutyOff)
    BY <1>3 DEF ToSine, Stage
  <2>2. CASE st.mode = "sine"
    <3>1. Leads(to.writes, g, k)
      BY <1>1, <2>1, <2>2, NoMoreLeads
    <3>2. StageAt(to, k, g.divider)
      BY <1>1, <2>1, <2>2 DEF StageAt, Driving
    <3> QED
      BY <3>1, <3>2 DEF StageStands
  <2>3. CASE st.mode # "sine"
    <3>1. PICK h \in Gates : Leads(AllOff \o DutyOff, k, h) /\ Off(h) /\ h.divider = k.divider
      BY <1>1, OffDutyLeads, LeadsEnds
    <3>2. Leads(to.writes, g, h)
      BY <1>1, <2>1, <2>3, <3>1, LeadsOn
    <3>3. StageAt(to, h, g.divider)
      BY <1>1, <2>1, <3>1, OffIsApart DEF StageAt, Driving
    <3> QED
      BY <3>2, <3>3 DEF StageStands
  <2> QED
    BY <2>2, <2>3
<1> QED
  BY <1>2, <1>3

\* The start of a stopped motor.
LEMMA StartStands ==
  ASSUME BridgeTypes, NEW st, NEW g, StageStands(st, g), NEW forward \in BOOLEAN,
         NEW to, to = Start(st, forward)
  PROVE  StageStands(to, g)
<1>1. PICK k \in Gates : Leads(st.writes, g, k) /\ StageAt(st, k, g.divider)
  BY DEF StageStands
<1>2. CASE to = st
  BY <1>2
<1>3. CASE to # st
  <2> DEFINE step == StepAfter(st.step, forward)
             off == IF st.braking THEN DutyOff ELSE <<>>
  <2>1. step \in 1 .. 6
    BY <1>1, StepTable DEF StageAt, Driving
  <2>2. /\ to.mode = "driven" /\ to.step = step
        /\ to.writes = st.writes \o AllOff \o off \o ComStep(step, pwmMode)
    BY <1>3 DEF Start, Stage
  <2>3. PICK k1 \in Gates : Leads(AllOff, k, k1) /\ Off(k1) /\ SameTimer(k, k1)
    BY <1>1, AllOffLeads, LeadsEnds
  <2>4. PICK k2 \in Gates : Leads(off, k1, k2) /\ SamePins(k1, k2) /\ k2.divider = k1.divider
    <3>1. CASE st.braking
      BY <2>3, <3>1, DutyOffLeads, LeadsEnds
    <3>2. CASE ~st.braking
      BY <2>3, <3>2, LeadsNone, LeadsEnds DEF SamePins
    <3> QED
      BY <3>1, <3>2
  <2>5. Off(k2)
    BY <2>3, <2>4 DEF Off, SamePins
  <2> HIDE DEF step, off
  <2>6. PICK k3 \in Gates : Leads(ComStep(step, pwmMode), k2, k3) /\ At(k3, step) /\ SameTimer(k2, k3)
    BY <2>1, <2>4, <2>5, OffDrives, ComStepLeads, LeadsEnds DEF BridgeTypes
  <2>7. Leads(to.writes, g, k3)
    BY <1>1, <2>2, <2>3, <2>4, <2>6, LeadsOn
  <2>8. StageAt(to, k3, g.divider)
    BY <1>1, <2>1, <2>2, <2>3, <2>4, <2>6, AtIsApart DEF StageAt, Driving, SameTimer
  <2> QED
    BY <2>7, <2>8 DEF StageStands
<1> QED
  BY <1>2, <1>3

\* A polled zero crossing.
LEMMA PolledStands ==
  ASSUME BridgeTypes, NEW st, NEW g, StageStands(st, g), st.mode = "driven",
         NEW forward \in BOOLEAN, NEW to, to = Polled(st, forward)
  PROVE  StageStands(to, g)
<1>1. PICK k \in Gates : Leads(st.writes, g, k) /\ StageAt(st, k, g.divider)
  BY DEF StageStands
<1> DEFINE step == StepAfter(st.step, forward)
<1>2. st.step \in 1 .. 6 /\ step \in 1 .. 6 /\ Driven(st.step) # Sinking(step)
  BY <1>1, StepTable DEF StageAt, Driving
<1>3. /\ to.mode = "driven" /\ to.step = step
      /\ to.writes = st.writes \o ComStep(step, pwmMode)
  BY DEF Polled, Stage
<1> HIDE DEF step
<1>4. High(Sinking(step)) \notin k.timed
  BY <1>1, <1>2, OffDrives DEF StageAt, Driving
<1>5. PICK h \in Gates : Leads(ComStep(step, pwmMode), k, h) /\ At(h, step) /\ SameTimer(k, h)
  BY <1>1, <1>2, <1>4, ComStepLeads, LeadsEnds DEF BridgeTypes
<1>6. Leads(to.writes, g, h)
  BY <1>1, <1>3, <1>5, LeadsOn
<1>7. StageAt(to, h, g.divider)
  BY <1>1, <1>2, <1>3, <1>5, AtIsApart DEF StageAt, Driving, SameTimer
<1> QED
  BY <1>6, <1>7 DEF StageStands

\* Arming.
LEMMA NowArmedStands ==
  ASSUME NEW st, NEW g, StageStands(st, g), st.mode = "disarmed", NEW to, to = NowArmed(st)
  PROVE  StageStands(to, g)
<1>1. to.mode = "armed" /\ to.step = st.step /\ to.writes = st.writes
  BY DEF NowArmed, Stage
<1> QED
  BY <1>1 DEF StageStands, StageAt, Driving

\* The PWM output: a bridge that is free is off, or left by the note of the tune.
LEMMA OutputStands ==
  ASSUME BridgeTypes, NEW st, NEW g, StageStands(st, g), NEW to, to = Output(st)
  PROVE  /\ to.mode = st.mode /\ to.step = st.step
         /\ to.mode \in {"disarmed", "armed", "driven", "sine"} /\ to.step \in 1 .. 6
         /\ \E k \in Gates :
              /\ Leads(to.writes, g, k) /\ Driving(st, k, g.divider)
              /\ ~Busy(to.mode, to.braking) => IF note = 0 THEN Off(k) ELSE Sounds(k, tune[note])
<1>1. PICK k \in Gates : Leads(st.writes, g, k) /\ StageAt(st, k, g.divider)
  BY DEF StageStands
<1> DEFINE sineDrive == st.mode = "sine" /\ drive >= 1
           brakes == /\ st.mode \in {"armed", "sine"} /\ drive < StartThreshold
                     /\ ~sineDrive /\ brakeOnStop = 2
           braking == st.braking /\ brakes
           tone == note # 0 /\ ~Busy(st.mode, brakes \/ braking)
           rest == IF propBrake THEN ProportionalBrake \o Duty("some") ELSE AllOff \o Duty("zero")
           grip == IF braking THEN <<>> ELSE DutyOff \o ComStep(2, pwmMode)
<1>2. /\ to.mode = st.mode /\ to.step = st.step
      /\ st.mode \in {"disarmed", "armed", "driven", "sine"} /\ st.step \in 1 .. 6
  BY <1>1 DEF Output, Stage, StageAt, Driving
<1> SUFFICES \E h \in Gates :
               /\ Leads(to.writes, g, h) /\ Driving(st, h, g.divider)
               /\ ~Busy(to.mode, to.braking) => IF note = 0 THEN Off(h) ELSE Sounds(h, tune[note])
  BY <1>2
<1>3. CASE tone
  <2>1. to.writes = st.writes \o <<>>
    BY <1>3 DEF Output, Stage, Busy
  <2>2. Leads(to.writes, g, k)
    BY <1>1, <2>1, NoMoreLeads
  <2>3. note # 0 /\ st.mode = "armed"
    BY <1>2, <1>3 DEF Busy
  <2> QED
    BY <1>1, <2>2, <2>3 DEF StageAt, Driving
<1>4. CASE ~tone /\ sineDrive
  <2>1. to.writes = st.writes \o <<>>
    BY <1>4 DEF Output, Stage
  <2>2. Leads(to.writes, g, k)
    BY <1>1, <2>1, NoMoreLeads
  <2>3. Busy(to.mode, to.braking)
    BY <1>2, <1>4 DEF Busy
  <2> QED
    BY <1>1, <2>2, <2>3 DEF StageAt, Driving
<1>5. CASE ~tone /\ ~sineDrive /\ brakes
  <2>1. to.writes = st.writes \o (grip \o Duty("some"))
    BY <1>5 DEF Output, Stage
  <2>2. to.braking
    BY <1>5 DEF Output, Stage
  <2>3. Busy(to.mode, to.braking)
    BY <2>2 DEF Busy
  <2>4. PICK k1 \in Gates : Leads(grip, k, k1) /\ Apart(k1.timed, k1.latch) /\ k1.divider = k.divider
    <3>1. CASE braking
      BY <1>1, <3>1, LeadsNone, LeadsEnds DEF StageAt, Driving
    <3>2. CASE ~braking
      <4>1. PICK k1 \in Gates : /\ Leads(DutyOff \o ComStep(2, pwmMode), k, k1) /\ At(k1, 2)
                                /\ k1.divider = k.divider
        <5>1. Safe(k) /\ 2 \in 1 .. 6 /\ pwmMode \in {"diode", "complementary"}
          BY <1>1, LeadsEnds DEF BridgeTypes
        <5> HIDE DEF sineDrive, brakes, braking, tone, rest, grip
        <5> QED
          BY <1>1, <5>1, ColdStepLeads
      <4> QED
        BY <1>1, <3>2, <4>1, AtIsApart DEF StageAt, Driving
    <3> QED
      BY <3>1, <3>2
  <2>5. PICK h \in Gates : Leads(Duty("some"), k1, h) /\ SamePins(k1, h) /\ h.divider = k1.divider
    BY <2>4, DutyLeads, LeadsEnds
  <2>6. st.mode # "driven"
    BY <1>5
  <2> HIDE DEF grip
  <2>7. Leads(to.writes, g, h)
    BY <1>1, <2>1, <2>4, <2>5, LeadsOn
  <2>8. Driving(st, h, g.divider)
    BY <1>1, <1>2, <2>4, <2>5, <2>6 DEF Driving, StageAt, SamePins
  <2> QED
    BY <2>3, <2>7, <2>8
<1>6. CASE ~tone /\ ~sineDrive /\ ~brakes /\ st.mode = "driven"
  <2>1. to.writes = st.writes \o Duty("some")
    BY <1>6 DEF Output, Stage
  <2>2. Busy(to.mode, to.braking)
    BY <1>2, <1>6 DEF Busy
  <2>3. PICK h \in Gates : Leads(Duty("some"), k, h) /\ SamePins(k, h) /\ h.divider = k.divider
    BY <1>1, DutyLeads, LeadsEnds DEF StageAt, Driving
  <2>4. Leads(to.writes, g, h)
    BY <1>1, <2>1, <2>3, LeadsOn
  <2>5. Driving(st, h, g.divider)
    BY <1>1, <2>3 DEF Driving, StageAt, SamePins, At, Off
  <2> QED
    BY <2>2, <2>4, <2>5
<1>7. CASE ~tone /\ ~sineDrive /\ ~brakes /\ st.mode # "driven"
  <2>1. to.writes = st.writes \o rest /\ to.braking = FALSE
    BY <1>7 DEF Output, Stage
  <2>2. CASE propBrake
    <3>1. Busy(to.mode, to.braking)
      BY <2>2 DEF Busy
    <3>2. PICK k1 \in Gates : /\ Leads(ProportionalBrake, k, k1) /\ Apart(k1.timed, k1.latch)
                              /\ k1.divider = k.divider
      BY <1>1, ProportionalBrakeLeads, LeadsEnds DEF SameTimer
    <3>3. PICK h \in Gates : Leads(Duty("some"), k1, h) /\ SamePins(k1, h) /\ h.divider = k1.divider
      BY <3>2, DutyLeads, LeadsEnds
    <3>4. Leads(to.writes, g, h)
      BY <1>1, <2>1, <2>2, <3>2, <3>3, LeadsOn
    <3>5. Driving(st, h, g.divider)
      BY <1>1, <1>2, <1>7, <3>2, <3>3 DEF Driving, StageAt, SamePins
    <3> QED
      BY <3>1, <3>4, <3>5
  <2>3. CASE ~propBrake
    <3>1. PICK k1 \in Gates : Leads(AllOff, k, k1) /\ Off(k1) /\ SameTimer(k, k1)
      BY <1>1, AllOffLeads, LeadsEnds
    <3>2. PICK h \in Gates : Leads(Duty("zero"), k1, h) /\ SamePins(k1, h) /\ h.divider = k1.divider
      BY <3>1, DutyLeads, LeadsEnds
    <3>3. Off(h)
      BY <3>1, <3>2 DEF Off, SamePins
    <3>4. Leads(to.writes, g, h)
      BY <1>1, <2>1, <2>3, <3>1, <3>2, LeadsOn
    <3>5. Driving(st, h, g.divider)
      BY <1>1, <1>2, <1>7, <3>1, <3>2, <3>3, OffIsApart DEF Driving, StageAt, SameTimer
    <3>6. ~Busy(to.mode, to.braking) => note = 0
      BY <1>2, <1>7, <2>1 DEF Busy
    <3> QED
      BY <3>3, <3>4, <3>5, <3>6
  <2> QED
    BY <2>2, <2>3
<1> QED
  BY <1>3, <1>4, <1>5, <1>6, <1>7

------------------------------------------------------------------------------
(* Every step leaves the bridge standing *)

\* An operation on a bridge at rest, by what it leads to.
LEMMA OperationStands ==
  ASSUME NEW g \in Gates, Shows(g), NEW h \in Gates, Leads(todo', g, h), UNCHANGED gateVars,
         BridgeTypes', Apart(h.timed, h.latch), note' = 0 => h.divider = "motor",
         bridgeMode' = "driven" => At(h, comStep') \/ (Off(h) /\ cut'),
         note' # 0 => bridgeMode' \in {"armed", "disarmed"} /\ Sounds(h, tune'[note'])
  PROVE  BridgeStands'
<1>1. Shows(g)'
  BY DEF Shows, gateVars
<1>2. Rest(h)'
  BY DEF Rest
<1> QED
  BY <1>1, <1>2 DEF BridgeStands

\* A bridge with nothing to write is at rest.
LEMMA AtRest ==
  ASSUME BridgeStands, todo = <<>>
  PROVE  BridgeTypes /\ \E g \in Gates : Shows(g) /\ Safe(g) /\ Rest(g) /\ Leads(<<>>, g, g)
<1>1. PICK g \in Gates, h \in Gates : Shows(g) /\ Leads(<<>>, g, h) /\ Rest(h)
  BY DEF BridgeStands
<1>2. g = h /\ Safe(g)
  <2>1. PICK f \in [0 .. Len(<<>>) -> Gates] :
         f[0] = g /\ f[Len(<<>>)] = h /\ \A i \in 0 .. Len(<<>>) : Safe(f[i])
    BY <1>1 DEF Leads
  <2> QED
    BY <2>1
<1> QED
  BY <1>1, <1>2 DEF BridgeStands

\* The tone step that ends every tick, on what the output has made of the bridge.
LEMMA ToneEnds ==
  ASSUME BridgeTypes, NEW g \in Gates, Shows(g), Rest(g), UNCHANGED gateVars,
         NEW last, NEW k \in Gates, Leads(last.writes, g, k), Driving(last, k, g.divider),
         ~Busy(last.mode, last.braking) => IF note = 0 THEN Off(k) ELSE Sounds(k, tune[note]),
         bridgeMode' = last.mode, comStep' = last.step, pwmMode' = pwmMode,
         cut /\ last.step = comStep /\ bridgeMode = "driven" => cut',
         ToneStep(Busy(last.mode, last.braking), last.writes)
  PROVE  BridgeStands'
<1> DEFINE busy == Busy(last.mode, last.braking)
<1>1. /\ bridgeMode' \in {"disarmed", "armed", "driven", "sine"} /\ comStep' \in 1 .. 6
      /\ pwmMode' \in {"diode", "complementary"}
  BY DEF Driving, BridgeTypes
<1>2. note = 0 => k.divider = "motor"
  BY DEF Driving, Rest
<1>3. Apart(k.timed, k.latch)
  BY DEF Driving
<1>4. last.mode = "driven" => At(k, comStep') \/ (Off(k) /\ cut')
  BY DEF Driving
<1>5. CASE busy
  <2>1. ToneStep(TRUE, last.writes)
    BY <1>5 DEF ToneStep, Silence
  <2> HIDE DEF busy
  <2>2. /\ note' = 0 /\ tuneAsked' = <<>>
        /\ \E h \in Gates : Leads(todo', g, h) /\ SamePins(k, h) /\ h.divider = "motor"
    BY <1>2, <2>1, BusyToneLeads
  <2>3. PICK h \in Gates : Leads(todo', g, h) /\ SamePins(k, h) /\ h.divider = "motor"
    BY <2>2
  <2>4. BridgeTypes'
    BY <1>1, <2>2 DEF BridgeTypes
  <2>5. bridgeMode' = "driven" => At(h, comStep') \/ (Off(h) /\ cut')
    BY <1>4, <2>3 DEF SamePins, At, Off
  <2>6. Apart(h.timed, h.latch)
    BY <1>3, <2>3 DEF SamePins
  <2> QED
    BY <2>2, <2>3, <2>4, <2>5, <2>6, OperationStands
<1>6. CASE ~busy
  <2>1. ToneStep(FALSE, last.writes)
    BY <1>6 DEF ToneStep, Silence
  <2>2. bridgeMode' = "armed"
    BY <1>1, <1>6 DEF Busy
  <2>3. /\ note = 0 => Off(k)
        /\ note # 0 => Sounds(k, tune[note])
    BY <1>6
  <2> HIDE DEF busy
  <2>4. /\ note' \in Nat /\ (note' # 0 => tune' \in Tunes /\ note' \in 1 .. Len(tune'))
        /\ tuneAsked' = <<>>
        /\ \E h \in Gates :
             /\ Leads(todo', g, h) /\ Apart(h.timed, h.latch)
             /\ note' = 0 => h.divider = "motor"
             /\ note' # 0 => Sounds(h, tune'[note'])
    BY <1>2, <1>3, <2>1, <2>3, FreeToneLeads
  <2>5. BridgeTypes'
    BY <1>1, <2>4 DEF BridgeTypes
  <2> QED
    BY <2>2, <2>4, <2>5, OperationStands
<1> QED
  BY <1>5, <1>6

\* The tick, stage by stage.
LEMMA TickStands ==
  ASSUME BridgeStands, Tick
  PROVE  BridgeStands'
<1> DEFINE now == Stage(bridgeMode, comStep, activeBrake, sineOutputs, <<>>)
           handed == Handoff(now)
           sine == ToSine(handed)
           started(forward) == Start(sine, forward)
           polled(forward, polls) ==
             IF polls THEN Polled(started(forward), forward) ELSE started(forward)
           armed(forward, polls, arms) ==
             IF arms THEN NowArmed(polled(forward, polls)) ELSE polled(forward, polls)
           last(forward, polls, arms) == Output(armed(forward, polls, arms))
<1>1. todo = <<>> /\ UNCHANGED gateVars /\ pwmMode' = pwmMode
  BY DEF Tick, settingVars
<1>2. PICK forward \in BOOLEAN, polls \in BOOLEAN, arms \in BOOLEAN :
        LET end == last(forward, polls, arms) IN
        /\ polls => started(forward).mode = "driven" /\ handed = now
        /\ arms => started(forward).mode = "disarmed" /\ drive = 0
        /\ bridgeMode' = end.mode /\ comStep' = end.step
        /\ cut' = (cut /\ end.step = comStep /\ handed = now)
        /\ ToneStep(Busy(end.mode, end.braking), end.writes)
  BY DEF Tick
<1>3. PICK g \in Gates : Shows(g) /\ Safe(g) /\ Rest(g) /\ Leads(<<>>, g, g)
  BY <1>1, AtRest
<1>4. BridgeTypes
  BY DEF BridgeStands
<1>5. now.mode = bridgeMode /\ now.step = comStep /\ now.writes = <<>>
  BY DEF Stage
<1>6. bridgeMode = "driven" => handed = now
  BY <1>5 DEF Handoff
<1> HIDE DEF now
<1>7. StageStands(now, g)
  <2>1. Driving(now, g, g.divider)
    BY <1>3, <1>4, <1>5 DEF Driving, Rest, BridgeTypes
  <2>2. StageAt(now, g, g.divider)
    BY <1>3, <2>1 DEF StageAt, Rest
  <2> QED
    BY <1>3, <1>5, <2>2 DEF StageStands
<1>8. StageStands(handed, g)
  BY <1>4, <1>5, <1>7, HandoffStands
<1> HIDE DEF handed
<1>9. StageStands(sine, g)
  BY <1>4, <1>8, ToSineStands
<1> HIDE DEF sine
<1>10. StageStands(started(forward), g)
  BY <1>4, <1>9, StartStands
<1> HIDE DEF started
<1>11. StageStands(polled(forward, polls), g)
  <2>1. CASE polls
    <3>1. StageStands(Polled(started(forward), forward), g)
      BY <1>2, <1>4, <1>10, <2>1, PolledStands
    <3> QED
      BY <2>1, <3>1
  <2>2. CASE ~polls
    BY <1>10, <2>2
  <2> QED
    BY <2>1, <2>2
<1>12. arms => polled(forward, polls).mode = "disarmed"
  BY <1>2
<1> HIDE DEF polled
<1>13. StageStands(armed(forward, polls, arms), g)
  <2>1. CASE arms
    <3>1. StageStands(NowArmed(polled(forward, polls)), g)
      BY <1>11, <1>12, <2>1, NowArmedStands
    <3> QED
      BY <2>1, <3>1
  <2>2. CASE ~arms
    BY <1>11, <2>2
  <2> QED
    BY <2>1, <2>2
<1> DEFINE st == armed(forward, polls, arms)
           end == last(forward, polls, arms)
<1> HIDE DEF armed
<1>14. end = Output(st)
  OBVIOUS
<1> HIDE DEF last, end, st
<1>15. /\ end.mode = st.mode /\ end.step = st.step
       /\ \E k \in Gates :
            /\ Leads(end.writes, g, k) /\ Driving(st, k, g.divider)
            /\ ~Busy(end.mode, end.braking) => IF note = 0 THEN Off(k) ELSE Sounds(k, tune[note])
  BY <1>4, <1>13, <1>14, OutputStands DEF st
<1>16. PICK k \in Gates :
         /\ Leads(end.writes, g, k) /\ Driving(st, k, g.divider)
         /\ ~Busy(end.mode, end.braking) => IF note = 0 THEN Off(k) ELSE Sounds(k, tune[note])
  BY <1>15
<1>17. Driving(end, k, g.divider)
  BY <1>15, <1>16 DEF Driving
<1>18. /\ bridgeMode' = end.mode /\ comStep' = end.step
       /\ ToneStep(Busy(end.mode, end.braking), end.writes)
  BY <1>2 DEF end
<1>19. cut /\ end.step = comStep /\ bridgeMode = "driven" => cut'
  BY <1>2, <1>6 DEF end
<1> QED
  BY <1>1, <1>3, <1>4, <1>16, <1>17, <1>18, <1>19, ToneEnds

\* The tick that finds AllOff requested.
LEMMA TickOffStands ==
  ASSUME BridgeStands, TickOff
  PROVE  BridgeStands'
<1>1. todo = <<>> /\ UNCHANGED gateVars /\ pwmMode' = pwmMode /\ cut' = TRUE
  BY DEF TickOff, settingVars
<1>2. PICK g \in Gates : Shows(g) /\ Safe(g) /\ Rest(g)
  BY <1>1, AtRest
<1>3. BridgeTypes
  BY DEF BridgeStands
<1> DEFINE end == Stage(bridgeMode, comStep, FALSE, FALSE, AllOff \o DutyOff)
<1>4. /\ end.mode = bridgeMode /\ end.step = comStep /\ end.braking = FALSE
      /\ end.writes = AllOff \o DutyOff
  BY DEF Stage
<1>5. /\ bridgeMode' = bridgeMode /\ comStep' = comStep
      /\ ToneStep(Busy(bridgeMode, FALSE), AllOff \o DutyOff)
  BY DEF TickOff
<1> HIDE DEF end
<1>6. /\ bridgeMode' = end.mode /\ comStep' = end.step
      /\ ToneStep(Busy(end.mode, end.braking), end.writes)
  BY <1>4, <1>5
<1>7. PICK k \in Gates : Leads(AllOff \o DutyOff, g, k) /\ Off(k) /\ k.divider = g.divider
  BY <1>2, OffDutyLeads
<1>8. Leads(end.writes, g, k)
  BY <1>4, <1>7
<1>9. bridgeMode = "driven" => note = 0
  BY <1>2 DEF Rest
<1>10. CASE bridgeMode # "driven"
  <2>1. Driving(end, k, g.divider)
    BY <1>3, <1>4, <1>7, <1>10, OffIsApart DEF Driving, BridgeTypes
  <2> QED
    BY <1>1, <1>2, <1>3, <1>6, <1>7, <1>8, <2>1, ToneEnds DEF Sounds
<1>11. CASE bridgeMode = "driven"
  <2>1. ToneStep(TRUE, end.writes)
    BY <1>4, <1>5, <1>11 DEF ToneStep, Silence, Busy
  <2>2. k.divider = "motor"
    BY <1>2, <1>7, <1>9, <1>11 DEF Rest
  <2>3. /\ note' = 0 /\ tuneAsked' = <<>>
        /\ \E h \in Gates : Leads(todo', g, h) /\ SamePins(k, h) /\ h.divider = "motor"
    BY <1>8, <2>1, <2>2, BusyToneLeads
  <2>4. PICK h \in Gates : Leads(todo', g, h) /\ SamePins(k, h) /\ h.divider = "motor"
    BY <2>3
  <2>5. BridgeTypes'
    BY <1>1, <1>3, <1>5, <2>3 DEF BridgeTypes
  <2>6. Off(h) /\ Apart(h.timed, h.latch)
    BY <1>7, <2>4, OffIsApart DEF SamePins, Off
  <2> QED
    BY <1>1, <1>2, <2>3, <2>4, <2>5, <2>6, OperationStands
<1> QED
  BY <1>10, <1>11

\* The commutation interrupt: the next step sinks by another leg than the one driven.
LEMMA CommutateStands ==
  ASSUME BridgeStands, Commutate
  PROVE  BridgeStands'
<1>1. PICK forward \in BOOLEAN :
        comStep' = StepAfter(comStep, forward) /\ todo' = ComStep(comStep', pwmMode)
  BY DEF Commutate
<1>2. /\ todo = <<>> /\ bridgeMode = "driven" /\ bridgeMode' = bridgeMode
      /\ UNCHANGED <<pwmMode, tuneAsked, tune, note, gateVars>>
  BY DEF Commutate, settingVars, askVars, toneVars
<1>3. BridgeTypes
  BY DEF BridgeStands
<1>4. PICK g \in Gates : Shows(g) /\ Safe(g) /\ Rest(g)
  BY <1>2, AtRest
<1>5. comStep \in 1 .. 6 /\ comStep' \in 1 .. 6 /\ Driven(comStep) # Sinking(comStep')
  BY <1>1, <1>3, StepTable DEF BridgeTypes
<1>6. High(Sinking(comStep')) \notin g.timed
  BY <1>2, <1>4, <1>5, OffDrives DEF Rest
<1>7. Apart(g.timed, g.latch) /\ note = 0 /\ g.divider = "motor"
  BY <1>2, <1>4 DEF Rest
<1>8. PICK h \in Gates : Leads(todo', g, h) /\ At(h, comStep') /\ SameTimer(g, h)
  BY <1>1, <1>3, <1>4, <1>5, <1>6, <1>7, ComStepLeads DEF BridgeTypes
<1>9. BridgeTypes'
  BY <1>2, <1>3, <1>5 DEF BridgeTypes
<1>10. Apart(h.timed, h.latch) /\ h.divider = "motor" /\ note' = 0
  BY <1>2, <1>5, <1>7, <1>8, AtIsApart DEF SameTimer
<1> QED
  BY <1>2, <1>4, <1>8, <1>9, <1>10, OperationStands

\* Steps that write nothing, with the bridge as it is.
LEMMA QuietStands ==
  ASSUME BridgeStands, todo = <<>>, todo' = <<>>, UNCHANGED <<comStep, cut, toneVars, gateVars>>,
         pwmMode' \in {"diode", "complementary"}, tuneAsked' \in Tunes \cup {<<>>},
         \/ bridgeMode' = bridgeMode
         \/ bridgeMode' = "disarmed"
         \/ bridgeMode = "driven" /\ bridgeMode' = "armed"
  PROVE  BridgeStands'
<1>1. PICK g \in Gates : Shows(g) /\ Leads(<<>>, g, g) /\ Rest(g)
  BY AtRest
<1>2. BridgeTypes'
  BY DEF BridgeStands, BridgeTypes, toneVars
<1>3. /\ Apart(g.timed, g.latch)
      /\ note' = 0 => g.divider = "motor"
      /\ bridgeMode' = "driven" => At(g, comStep') \/ (Off(g) /\ cut')
      /\ note' # 0 => bridgeMode' \in {"armed", "disarmed"} /\ Sounds(g, tune'[note'])
  BY <1>1 DEF Rest, toneVars
<1>4. Leads(todo', g, g)
  BY <1>1
<1> QED
  BY <1>1, <1>2, <1>3, <1>4, OperationStands

\* service_sine.
LEMMA SineServiceStands ==
  ASSUME BridgeStands, SineService
  PROVE  BridgeStands'
<1>1. /\ todo = <<>>
      /\ UNCHANGED <<pwmMode, bridgeMode, comStep, cut, tuneAsked, toneVars, gateVars>>
  BY DEF SineService, settingVars
<1>2. BridgeTypes
  BY DEF BridgeStands
<1>3. CASE todo' = todo
  BY <1>1, <1>2, <1>3, QuietStands DEF BridgeTypes
<1>4. ASSUME bridgeMode = "sine",
             todo' = (IF sineOutputs THEN <<>> ELSE DutyOff \o AllPwm(pwmMode)) \o Duty("some")
      PROVE  BridgeStands'
  <2> DEFINE sets == IF sineOutputs THEN <<>> ELSE DutyOff \o AllPwm(pwmMode)
  <2>1. PICK g \in Gates : Shows(g) /\ Safe(g) /\ Rest(g) /\ Leads(<<>>, g, g)
    BY <1>1, AtRest
  <2>2. note = 0 /\ g.divider = "motor" /\ Apart(g.timed, g.latch)
    BY <1>4, <2>1 DEF Rest
  <2>3. PICK k \in Gates : Leads(sets, g, k) /\ Apart(k.timed, k.latch) /\ k.divider = g.divider
    <3>1. CASE sineOutputs
      BY <2>1, <2>2, <3>1
    <3>2. CASE ~sineOutputs
      <4>1. PICK g1 \in Gates : /\ Leads(DutyOff, g, g1) /\ g1.compare = "zero"
                                /\ g1.divider = g.divider
        BY <2>1, DutyOffLeads
      <4>2. PICK k \in Gates : Leads(AllPwm(pwmMode), g1, k) /\ k.latch = {} /\ SameTimer(g1, k)
        BY <1>2, <4>1, AllPwmLeads, LeadsEnds DEF BridgeTypes
      <4>3. Leads(DutyOff \o AllPwm(pwmMode), g, k)
        BY <4>1, <4>2, LeadsOn
      <4>4. Apart(k.timed, k.latch) /\ k.divider = g.divider
        BY <4>1, <4>2 DEF Apart, SameTimer
      <4> QED
        BY <3>2, <4>3, <4>4
    <3> QED
      BY <3>1, <3>2
  <2>4. PICK h \in Gates : Leads(Duty("some"), k, h) /\ SamePins(k, h) /\ h.divider = k.divider
    BY <2>3, DutyLeads, LeadsEnds
  <2>5. todo' = sets \o Duty("some")
    BY <1>4
  <2> HIDE DEF sets
  <2>6. Leads(todo', g, h)
    BY <2>3, <2>4, <2>5, LeadsOn
  <2>7. BridgeTypes'
    BY <1>1, <1>2 DEF BridgeTypes, toneVars
  <2>8. Apart(h.timed, h.latch) /\ h.divider = "motor" /\ note' = 0 /\ bridgeMode' = "sine"
    BY <1>1, <1>4, <2>2, <2>3, <2>4 DEF SamePins, toneVars
  <2> QED
    BY <1>1, <2>1, <2>6, <2>7, <2>8, OperationStands
<1> QED
  BY <1>3, <1>4 DEF SineService

\* A new PWM mode takes a note's step again.
LEMMA ReconfigureStands ==
  ASSUME BridgeStands, Reconfigure
  PROVE  BridgeStands'
<1>1. /\ todo = <<>> /\ UNCHANGED <<bridgeMode, comStep, cut, tuneAsked, tune, note, gateVars>>
      /\ pwmMode' \in {"diode", "complementary"}
      /\ todo' = (IF note # 0 THEN ComStep(tune[note], pwmMode') ELSE <<>>)
  BY BridgeAssumption DEF Reconfigure, askVars, toneVars, BridgeAssumption
<1>2. BridgeTypes
  BY DEF BridgeStands
<1>3. ASSUME note # 0, tune[note] \in 1 .. 6
      PROVE  BridgeStands'
  <2>1. PICK g \in Gates : Shows(g) /\ Safe(g) /\ Rest(g)
    BY <1>1, AtRest
  <2>2. /\ Apart(g.timed, g.latch) /\ bridgeMode \in {"armed", "disarmed"}
        /\ Off(g) \/ At(g, tune[note])
    BY <1>3, <2>1 DEF Rest, Sounds
  <2>3. Driven(tune[note]) # Sinking(tune[note])
    BY <1>3, StepTable
  <2>4. High(Sinking(tune[note])) \notin g.timed
    BY <1>3, <2>2, <2>3, OffDrives
  <2>5. PICK h \in Gates : Leads(ComStep(tune[note], pwmMode'), g, h) /\ At(h, tune[note])
    BY <1>1, <1>3, <2>1, <2>2, <2>4, ComStepLeads
  <2>6. Leads(todo', g, h) /\ Sounds(h, tune'[note'])
    BY <1>1, <1>3, <2>5 DEF Sounds
  <2>7. BridgeTypes'
    BY <1>1, <1>2 DEF BridgeTypes
  <2>8. Apart(h.timed, h.latch)
    BY <1>3, <2>5, AtIsApart
  <2> QED
    BY <1>1, <1>3, <2>1, <2>2, <2>6, <2>7, <2>8, OperationStands
<1>4. CASE note = 0 \/ tune[note] \notin 1 .. 6
  <2>1. todo' = <<>>
    BY <1>1, <1>4 DEF ComStep
  <2> QED
    BY <1>1, <1>2, <2>1, QuietStands DEF BridgeTypes, toneVars
<1> QED
  BY <1>3, <1>4

\* A register write, the end of a PWM period, and no step at all.
LEMMA HardwareStands ==
  ASSUME BridgeStands, Write \/ PeriodEnds \/ UNCHANGED bridgeVars
  PROVE  BridgeStands'
<1>1. PICK g \in Gates, h \in Gates : Shows(g) /\ Leads(todo, g, h) /\ Rest(h)
  BY DEF BridgeStands
<1>2. BridgeTypes
  BY DEF BridgeStands
<1>3. UNCHANGED <<bridgeMode, comStep, pwmMode, tuneAsked, tune, note, cut>>
  BY DEF Write, PeriodEnds, bridgeVars, settingVars, askVars, toneVars
<1>4. BridgeTypes' /\ Rest(h)'
  BY <1>1, <1>2, <1>3 DEF BridgeTypes, Rest
<1>5. CASE Write
  BY <1>1, <1>4, <1>5, WriteShows DEF BridgeStands
<1>6. CASE PeriodEnds
  <2>1. todo' = todo /\ Shows(g)'
    BY <1>1, <1>6 DEF PeriodEnds, Shows
  <2> QED
    BY <1>1, <1>4, <2>1 DEF BridgeStands
<1>7. CASE UNCHANGED bridgeVars
  <2>1. todo' = todo /\ Shows(g)'
    BY <1>1, <1>7 DEF bridgeVars, gateVars, Shows
  <2> QED
    BY <1>1, <1>4, <2>1 DEF BridgeStands
<1> QED
  BY <1>5, <1>6, <1>7

\* The bridge starts off.
LEMMA BridgeStandsInit == BridgeInit => BridgeStands
<1> SUFFICES ASSUME BridgeInit PROVE BridgeStands
  OBVIOUS
<1>1. BridgeTypes
  BY BridgeAssumption DEF BridgeInit, BridgeTypes, BridgeAssumption
<1> DEFINE g == [timed |-> {}, latch |-> {}, buffered |-> "zero", compare |-> "zero",
                 divider |-> "motor"]
<1>2. g \in Gates /\ Off(g) /\ g.divider = "motor"
  BY DEF Gates, Off
<1>3. Shows(g)
  BY DEF BridgeInit, Shows
<1> HIDE DEF g
<1>4. Apart(g.timed, g.latch) /\ Safe(g)
  BY <1>2 DEF Off, Safe, SafeGates, Apart
<1>5. Leads(todo, g, g)
  BY <1>2, <1>4, LeadsNone DEF BridgeInit
<1>6. Rest(g)
  BY <1>2, <1>4 DEF BridgeInit, Rest
<1> QED
  BY <1>1, <1>2, <1>3, <1>5, <1>6 DEF BridgeStands

------------------------------------------------------------------------------
(* The theorems *)

\* The writes still to come lead the gates, through safe states only, to where the
\* running step, the tune or the brake of the tick left them.
THEOREM GatesInvariant == BridgeSpec => []BridgeStands
<1>1. BridgeStands /\ [BridgeNext]_bridgeVars => BridgeStands'
  <2> SUFFICES ASSUME BridgeStands, [BridgeNext]_bridgeVars PROVE BridgeStands'
    OBVIOUS
  <2>1. CASE Write \/ PeriodEnds \/ UNCHANGED bridgeVars
    BY <2>1, HardwareStands
  <2>2. CASE TickOff
    BY <2>2, TickOffStands
  <2>3. CASE Tick
    BY <2>3, TickStands
  <2>4. CASE Commutate
    BY <2>4, CommutateStands
  <2>5. CASE NewThrottle \/ Protect \/ RequestTone
    <3>1. /\ todo = <<>> /\ todo' = <<>> /\ UNCHANGED <<comStep, cut, toneVars, gateVars, pwmMode>>
          /\ \/ bridgeMode' = bridgeMode
             \/ bridgeMode' = "disarmed"
             \/ bridgeMode = "driven" /\ bridgeMode' = "armed"
      BY <2>5 DEF NewThrottle, Protect, RequestTone, settingVars
    <3>2. tuneAsked' \in Tunes \cup {<<>>} /\ pwmMode' \in {"diode", "complementary"}
      BY <2>5, <3>1 DEF NewThrottle, Protect, RequestTone, BridgeStands, BridgeTypes
    <3> QED
      BY <3>1, <3>2, QuietStands
  <2>6. CASE SineService
    BY <2>6, SineServiceStands
  <2>7. CASE Reconfigure
    BY <2>7, ReconfigureStands
  <2> QED
    BY <2>1, <2>2, <2>3, <2>4, <2>5, <2>6, <2>7 DEF BridgeNext
<1> QED
  BY <1>1, BridgeStandsInit, PTL DEF BridgeSpec

\* Whichever tick, commutation, sine step, tone or brake writes the registers, and
\* wherever among the writes the PWM period ends, no leg has both its gates on and at
\* most one leg sinks (phase_outputs.rs, tone.rs, isr/tenkhz.rs).
THEOREM LegsSafe == BridgeSpec => []LegSafe
<1>1. BridgeStands => LegSafe
  <2> SUFFICES ASSUME BridgeStands PROVE LegSafe
    OBVIOUS
  <2>1. PICK g \in Gates, h \in Gates : Shows(g) /\ Leads(todo, g, h)
    BY DEF BridgeStands
  <2>2. Safe(g)
    BY <2>1, LeadsEnds
  <2>3. SafeGates(timed, latchHigh, compare)
    BY <2>1, <2>2 DEF Shows, Safe, SafeGates
  <2> QED
    BY <2>3 DEF LegSafe, Sinks, SafeGates, Apart
<1> QED
  BY <1>1, GatesInvariant, PTL

\* When a tick, a commutation or a handoff has written its last register, a running
\* motor is driven in the commutation's step at the motor's frequency, unless the
\* bridge was turned off since that step.
THEOREM DrivesStep == BridgeSpec => []DrivesItsStep
<1>1. BridgeStands => DrivesItsStep
  <2> SUFFICES ASSUME BridgeStands, bridgeMode = "driven", todo = <<>>, ~cut
               PROVE  /\ latchHigh = StepUp(comStep)
                      /\ High(Driven(comStep)) \in timed
                      /\ timed \subseteq {High(Driven(comStep)), Low(Driven(comStep))}
                      /\ divider = "motor"
    BY DEF DrivesItsStep
  <2>1. PICK g \in Gates : Shows(g) /\ Rest(g)
    BY AtRest
  <2>2. At(g, comStep) /\ g.divider = "motor"
    BY <2>1 DEF Rest
  <2> QED
    BY <2>1, <2>2 DEF Shows, At, StepUp
<1> QED
  BY <1>1, GatesInvariant, PTL
==============================================================================
