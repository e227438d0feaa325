---------------------------- MODULE TriggerProofs ----------------------------
(***************************************************************************)
(* Proofs about Trigger, for any number of presses and any capacity of the  *)
(* two channels.  What travels from the key to the daemon forms one row:    *)
(* the events sent, those about to be sent, the press that is held back,    *)
(* the source channel and what the source is sending.  Each action moves a  *)
(* part of the row along, and the invariant says that each part goes on     *)
(* where the one before it ends.                                           *)
(***************************************************************************)
EXTENDS Trigger, SequenceTheorems, TLAPS

\* Whatever travels, in whichever channel.
Entry == [kind : {"down", "up", "press", "release", "doubleTap"}, id : Nat]

\* How many presses an entry answers, as Answers says for the mode at hand.
Weight(m, e) ==
    IF e.kind = "up" \/ (e.kind = "release" /\ m = "hold") THEN 0
    ELSE IF e.kind = "doubleTap" /\ m = "toggle" THEN 2 ELSE 1

\* Each entry answers the presses after those of the entry before it, and the
\* first one those after press a.
Chain(m, s, a) ==
    \A i \in 1..Len(s) : s[i].id = (IF i = 1 THEN a ELSE s[i-1].id) + Weight(m, s[i])

\* The last press that is answered then.
End(s, a) == IF s = <<>> THEN a ELSE s[Len(s)].id

\* The events decided on end with a press.
EndsWithPress(s) == s # <<>> /\ s[Len(s)].kind = "press"

\* Release and press alternate, as ToggleAlternates says.
Alternates(s) ==
    \A i \in 1..Len(s) : s[i].kind = "release" <=> i > 1 /\ s[i-1].kind = "press"

-----------------------------------------------------------------------------
(* The inductive invariant                                                 *)

\* A release follows a press of the key.
Counted ==
    /\ ups + (IF keyIsDown THEN 1 ELSE 0) <= stamped + downs
    /\ stamped + downs <= MaxPresses

\* What the goroutines are sending, and the press that is held back.
Sending ==
    /\ source = "emit" <=> held # <<>>
    /\ watcher = "emit" <=> outgoing # <<>>
    /\ timer <=> pendingToggle # 0
    /\ timer => mode = "toggle" /\ ~toggleActive

\* Nothing that travels is about a press that was not stamped yet, and the
\* first press is not quick.
Stamped ==
    /\ windowOpen => stamped # 0
    /\ quick \subseteq 2..stamped
    /\ pendingToggle <= stamped
    /\ \A e \in ToSet(Decided) \cup ToSet(raw) \cup ToSet(held) : e.id <= stamped

\* The last press that the watcher has taken.
Taken == IF pendingToggle = 0 THEN End(Decided, 0) ELSE pendingToggle

\* The events sent answer the presses in order, the watcher goes on where they
\* end, its channel goes on after it, and the source ends the row.
Chained ==
    /\ Chain(mode, log, 0)
    /\ watcher # "done" =>
         /\ Chain(mode, Decided, 0)
         /\ pendingToggle # 0 => pendingToggle = End(Decided, 0) + 1
         /\ mode = "hold" => lastPress = End(Decided, 0)
         /\ Chain(mode, raw, Taken)
         /\ source # "done" =>
              /\ Chain(mode, held, End(raw, Taken))
              /\ stamped = End(held, End(raw, Taken))

\* In toggle mode toggleActive says whether the last event was a press.
Alternating ==
    mode = "toggle" =>
        /\ Alternates(Decided)
        /\ watcher # "done" => (toggleActive <=> EndsWithPress(Decided))

\* DoubleTapIsQuick.
TapsRight ==
    \A e \in ToSet(Decided) :
        /\ e.kind = "doubleTap" => e.id \in quick
        /\ mode = "hold" /\ e.kind = "press" => e.id \notin quick

IInv ==
    /\ TypeOK /\ Counted /\ Sending /\ Stamped
    /\ Chained /\ Alternating /\ TapsRight

-----------------------------------------------------------------------------
(* Rows of entries                                                         *)

\* Weight is what the properties call Answers.
LEMMA AnswersIsWeight ==
  ASSUME NEW e
  PROVE  Answers(e) = Weight(mode, e)
BY DEF Answers, Weight

\* An entry answers no press, one or two.
LEMMA WeightType ==
  ASSUME NEW m, NEW e \in Entry
  PROVE  Weight(m, e) \in 0..2
BY DEF Weight, Entry

\* A row ends at a press, or where it begins.
LEMMA EndType ==
  ASSUME NEW s \in Seq(Entry), NEW a \in Nat
  PROVE  End(s, a) \in Nat
<1>1. CASE s = <<>>
  BY <1>1 DEF End
<1>2. CASE s # <<>>
  <2>1. Len(s) \in 1..Len(s)
    BY <1>2, EmptySeq
  <2>2. s[Len(s)] \in Entry
    BY <2>1, ElementOfSeq
  <2>3. QED
    BY <1>2, <2>2 DEF End, Entry
<1>3. QED
  BY <1>1, <1>2

\* Two rows one after the other are a row when the second goes on where the
\* first one ends.
LEMMA ChainConcat ==
  ASSUME NEW m, NEW s \in Seq(Entry), NEW t \in Seq(Entry), NEW a \in Nat
  PROVE  /\ Chain(m, s \o t, a) <=> Chain(m, s, a) /\ Chain(m, t, End(s, a))
         /\ End(s \o t, a) = End(t, End(s, a))
<1> DEFINE st == s \o t
<1>1. /\ st \in Seq(Entry) /\ Len(st) = Len(s) + Len(t)
      /\ \A i \in 1..Len(s) : st[i] = s[i]
      /\ \A i \in 1..Len(t) : st[i + Len(s)] = t[i]
  BY ConcatProperties
<1>2. /\ Len(s) \in Nat /\ (s = <<>> <=> Len(s) = 0)
      /\ Len(t) \in Nat /\ (t = <<>> <=> Len(t) = 0)
  BY EmptySeq, LenProperties
<1>3. End(st, a) = End(t, End(s, a))
  <2>1. CASE t = <<>>
    BY <1>1, <1>2, <2>1 DEF End
  <2>2. CASE t # <<>>
    <3>1. Len(t) \in 1..Len(t) /\ st # <<>> /\ st[Len(st)] = t[Len(t)]
      BY <1>1, <1>2, <2>2, EmptySeq
    <3>2. QED
      BY <2>2, <3>1 DEF End
  <2>3. QED
    BY <2>1, <2>2
<1> HIDE DEF st
<1>4. ASSUME Chain(m, st, a)
      PROVE  Chain(m, s, a) /\ Chain(m, t, End(s, a))
  <2>1. ASSUME NEW i \in 1..Len(s)
        PROVE  s[i].id = (IF i = 1 THEN a ELSE s[i-1].id) + Weight(m, s[i])
    <3>1. i \in 1..Len(st) /\ st[i] = s[i] /\ (i # 1 => st[i-1] = s[i-1])
      BY <1>1, <1>2
    <3>2. QED
      BY <1>4, <3>1 DEF Chain
  <2>2. ASSUME NEW i \in 1..Len(t)
        PROVE  t[i].id = (IF i = 1 THEN End(s, a) ELSE t[i-1].id) + Weight(m, t[i])
    <3>1. i + Len(s) \in 1..Len(st) /\ st[i + Len(s)] = t[i]
      BY <1>1, <1>2
    <3>2. t[i].id = (IF i + Len(s) = 1 THEN a ELSE st[i + Len(s) - 1].id) + Weight(m, t[i])
      BY <1>4, <3>1 DEF Chain
    <3>3. CASE i # 1
      <4>1. st[i + Len(s) - 1] = t[i - 1] /\ i + Len(s) # 1
        <5>1. i - 1 \in 1..Len(t) /\ (i - 1) + Len(s) = i + Len(s) - 1
          BY <1>2, <3>3
        <5>2. st[(i - 1) + Len(s)] = t[i - 1]
          BY <1>1, <5>1
        <5>3. QED
          BY <1>2, <3>3, <5>1, <5>2
      <4>2. QED
        BY <3>2, <3>3, <4>1
    <3>4. CASE i = 1 /\ s # <<>>
      <4>1. i + Len(s) - 1 = Len(s) /\ Len(s) \in 1..Len(s) /\ i + Len(s) # 1
        BY <1>2, <3>4
      <4>2. QED
        BY <1>1, <3>2, <3>4, <4>1 DEF End
    <3>5. CASE i = 1 /\ s = <<>>
      BY <1>2, <3>2, <3>5 DEF End
    <3>6. QED
      BY <3>3, <3>4, <3>5
  <2>3. QED
    BY <2>1, <2>2 DEF Chain
<1>5. ASSUME Chain(m, s, a), Chain(m, t, End(s, a))
      PROVE  Chain(m, st, a)
  <2> SUFFICES ASSUME NEW i \in 1..Len(st)
               PROVE  st[i].id = (IF i = 1 THEN a ELSE st[i-1].id) + Weight(m, st[i])
    BY DEF Chain
  <2>1. CASE i <= Len(s)
    <3>1. i \in 1..Len(s) /\ st[i] = s[i] /\ (i # 1 => st[i-1] = s[i-1])
      BY <1>1, <1>2, <2>1
    <3>2. QED
      BY <1>5, <3>1 DEF Chain
  <2>2. CASE i > Len(s)
    <3> DEFINE j == i - Len(s)
    <3>1. j \in 1..Len(t) /\ st[i] = t[j]
      <4>1. j \in 1..Len(t) /\ j + Len(s) = i
        BY <1>1, <1>2, <2>2
      <4>2. QED
        BY <1>1, <4>1
    <3>2. t[j].id = (IF j = 1 THEN End(s, a) ELSE t[j-1].id) + Weight(m, t[j])
      BY <1>5, <3>1 DEF Chain
    <3>3. CASE j # 1
      <4>1. st[i-1] = t[j-1] /\ i # 1
        <5>1. j - 1 \in 1..Len(t) /\ (j - 1) + Len(s) = i - 1
          BY <1>2, <3>1, <3>3
        <5>2. QED
          BY <1>1, <1>2, <2>2, <3>3, <5>1
      <4>2. QED
        BY <3>1, <3>2, <3>3, <4>1
    <3>4. CASE j = 1 /\ s # <<>>
      <4>1. i - 1 = Len(s) /\ Len(s) \in 1..Len(s) /\ i # 1
        BY <1>2, <3>4
      <4>2. QED
        BY <1>1, <3>1, <3>2, <3>4, <4>1 DEF End
    <3>5. CASE j = 1 /\ s = <<>>
      BY <1>2, <3>1, <3>2, <3>5 DEF End
    <3>6. QED
      BY <3>3, <3>4, <3>5
  <2>3. QED
    BY <1>1, <1>2, <2>1, <2>2
<1>6. QED
  BY <1>3, <1>4, <1>5 DEF st

\* Rows of one entry, of two and of none.
LEMMA ChainOne ==
  ASSUME NEW m, NEW e \in Entry, NEW a \in Nat
  PROVE  /\ <<e>> \in Seq(Entry)
         /\ Chain(m, <<e>>, a) <=> e.id = a + Weight(m, e)
         /\ End(<<e>>, a) = e.id
BY DEF Chain, End

LEMMA ChainTwo ==
  ASSUME NEW m, NEW e \in Entry, NEW f \in Entry, NEW a \in Nat
  PROVE  /\ <<e, f>> \in Seq(Entry)
         /\ Chain(m, <<e, f>>, a) <=> e.id = a + Weight(m, e) /\ f.id = e.id + Weight(m, f)
         /\ End(<<e, f>>, a) = f.id
BY DEF Chain, End

LEMMA ChainEmpty ==
  ASSUME NEW m, NEW a
  PROVE  Chain(m, <<>>, a) /\ End(<<>>, a) = a
BY DEF Chain, End

\* A sequence is its head and the rest.
LEMMA HeadTail ==
  ASSUME NEW s \in Seq(Entry), s # <<>>
  PROVE  Head(s) \in Entry /\ Tail(s) \in Seq(Entry) /\ s = <<Head(s)>> \o Tail(s)
<1>1. /\ Head(s) \in Entry /\ Tail(s) \in Seq(Entry) /\ Len(Tail(s)) = Len(s) - 1
      /\ \A i \in 1..Len(Tail(s)) : Tail(s)[i] = s[i+1]
  BY HeadTailProperties
<1>2. s[1] = Head(s) /\ Len(s) \in Nat \ {0}
  BY EmptySeq
<1>3. <<Head(s)>> \in Seq(Entry) /\ Len(<<Head(s)>>) = 1 /\ <<Head(s)>>[1] = Head(s)
  BY <1>1
<1> DEFINE u == <<Head(s)>> \o Tail(s)
<1>4. /\ u \in Seq(Entry) /\ Len(u) = 1 + Len(Tail(s))
      /\ \A i \in 1..(1 + Len(Tail(s))) :
            u[i] = IF i <= 1 THEN <<Head(s)>>[i] ELSE Tail(s)[i - 1]
  BY <1>1, <1>3, ConcatProperties
<1> HIDE DEF u
<1>5. Len(u) = Len(s)
  BY <1>1, <1>2, <1>4
<1>6. ASSUME NEW i \in 1..Len(s) PROVE u[i] = s[i]
  <2>1. CASE i = 1
    BY <1>1, <1>2, <1>3, <1>4, <2>1
  <2>2. CASE i # 1
    <3>1. i - 1 \in 1..Len(Tail(s)) /\ (i - 1) + 1 = i
      BY <1>1, <1>2, <2>2
    <3>2. QED
      BY <1>1, <1>2, <1>4, <2>2, <3>1
  <2>3. QED
    BY <2>1, <2>2
<1>7. QED
  BY <1>1, <1>4, <1>5, <1>6, SeqEqual DEF u

\* To go on alternating, release exactly what was pressed.
LEMMA AlternatesAppend ==
  ASSUME NEW s \in Seq(Entry), NEW e \in Entry
  PROVE  /\ Alternates(s \o <<e>>) <=>
              Alternates(s) /\ (e.kind = "release" <=> EndsWithPress(s))
         /\ EndsWithPress(s \o <<e>>) <=> e.kind = "press"
<1> DEFINE se == s \o <<e>>
<1>1. /\ Len(se) = Len(s) + 1 /\ se[Len(s) + 1] = e
      /\ \A i \in 1..Len(s) : se[i] = s[i]
  <2>1. <<e>> \in Seq(Entry) /\ Len(<<e>>) = 1 /\ <<e>>[1] = e
    OBVIOUS
  <2>2. QED
    BY <2>1, ConcatProperties, LenProperties
<1>2. Len(s) \in Nat /\ (s = <<>> <=> Len(s) = 0)
  BY EmptySeq, LenProperties
<1>3. se # <<>>
  BY <1>1, <1>2
<1> HIDE DEF se
<1>4. EndsWithPress(se) <=> e.kind = "press"
  BY <1>1, <1>3 DEF EndsWithPress
<1>5. EndsWithPress(s) <=> Len(s) + 1 > 1 /\ se[Len(s)].kind = "press"
  <2>1. CASE s = <<>>
    BY <1>2, <2>1 DEF EndsWithPress
  <2>2. CASE s # <<>>
    <3>1. Len(s) \in 1..Len(s)
      BY <1>2, <2>2
    <3>2. QED
      BY <1>1, <1>2, <2>2, <3>1 DEF EndsWithPress
  <2>3. QED
    BY <2>1, <2>2
<1>6. ASSUME Alternates(se)
      PROVE  Alternates(s) /\ (e.kind = "release" <=> EndsWithPress(s))
  <2>1. ASSUME NEW i \in 1..Len(s)
        PROVE  s[i].kind = "release" <=> i > 1 /\ s[i-1].kind = "press"
    <3>1. i \in 1..Len(se) /\ se[i] = s[i] /\ (i > 1 => se[i-1] = s[i-1])
      BY <1>1, <1>2
    <3>2. QED
      BY <1>6, <3>1 DEF Alternates
  <2>2. e.kind = "release" <=> EndsWithPress(s)
    <3>1. Len(s) + 1 \in 1..Len(se) /\ (Len(s) + 1) - 1 = Len(s)
      BY <1>1, <1>2
    <3>2. se[Len(s) + 1].kind = "release" <=> Len(s) + 1 > 1 /\ se[Len(s)].kind = "press"
      BY <1>6, <3>1 DEF Alternates
    <3>3. QED
      BY <1>1, <1>5, <3>2
  <2>3. QED
    BY <2>1, <2>2 DEF Alternates
<1>7. ASSUME Alternates(s), e.kind = "release" <=> EndsWithPress(s)
      PROVE  Alternates(se)
  <2> SUFFICES ASSUME NEW i \in 1..Len(se)
               PROVE  se[i].kind = "release" <=> i > 1 /\ se[i-1].kind = "press"
    BY DEF Alternates
  <2>1. CASE i \in 1..Len(s)
    <3>1. se[i] = s[i] /\ (i > 1 => se[i-1] = s[i-1])
      BY <1>1, <1>2, <2>1
    <3>2. QED
      BY <1>7, <2>1, <3>1 DEF Alternates
  <2>2. CASE i = Len(s) + 1
    BY <1>1, <1>2, <1>5, <1>7, <2>2
  <2>3. QED
    BY <1>1, <1>2, <2>1, <2>2
<1>8. QED
  BY <1>4, <1>6, <1>7 DEF se

\* What is in a sequence that is put together, or whose head is taken.
LEMMA ToSetConcat ==
  ASSUME NEW s \in Seq(Entry), NEW t \in Seq(Entry)
  PROVE  ToSet(s \o t) = ToSet(s) \cup ToSet(t)
<1> DEFINE st == s \o t
<1>1. /\ st \in Seq(Entry) /\ Len(st) = Len(s) + Len(t)
      /\ \A i \in 1..Len(s) : st[i] = s[i]
      /\ \A i \in 1..Len(t) : st[i + Len(s)] = t[i]
  BY ConcatProperties
<1>2. /\ Len(s) \in Nat /\ Len(t) \in Nat
      /\ DOMAIN st = 1..Len(st) /\ DOMAIN s = 1..Len(s) /\ DOMAIN t = 1..Len(t)
  BY <1>1, LenProperties
<1> HIDE DEF st
<1>3. ASSUME NEW i \in 1..Len(st)
      PROVE  st[i] \in ToSet(s) \cup ToSet(t)
  <2>1. CASE i <= Len(s)
    <3>1. i \in 1..Len(s)
      BY <1>1, <1>2, <2>1
    <3>2. QED
      BY <1>1, <1>2, <3>1 DEF ToSet
  <2>2. CASE i > Len(s)
    <3>1. i - Len(s) \in 1..Len(t) /\ (i - Len(s)) + Len(s) = i
      BY <1>1, <1>2, <2>2
    <3>2. st[i] = t[i - Len(s)]
      BY <1>1, <3>1
    <3>3. QED
      BY <1>2, <3>1, <3>2 DEF ToSet
  <2>3. QED
    BY <1>1, <1>2, <2>1, <2>2
<1>4. ASSUME NEW i \in 1..Len(s)
      PROVE  s[i] \in ToSet(st)
  <2>1. i \in DOMAIN st /\ st[i] = s[i]
    BY <1>1, <1>2
  <2>2. QED
    BY <2>1 DEF ToSet
<1>5. ASSUME NEW i \in 1..Len(t)
      PROVE  t[i] \in ToSet(st)
  <2>1. i + Len(s) \in DOMAIN st /\ st[i + Len(s)] = t[i]
    BY <1>1, <1>2
  <2>2. QED
    BY <2>1 DEF ToSet
<1>6. QED
  BY <1>2, <1>3, <1>4, <1>5 DEF ToSet, st

\* What is in a short sequence, written out.
LEMMA ToSetFew ==
  ASSUME NEW e, NEW f
  PROVE  ToSet(<<>>) = {} /\ ToSet(<<e>>) = {e} /\ ToSet(<<e, f>>) = {e, f}
BY DEF ToSet

\* What is in a sequence is its head or in the rest.
LEMMA ToSetHeadTail ==
  ASSUME NEW s \in Seq(Entry), s # <<>>
  PROVE  ToSet(s) = {Head(s)} \cup ToSet(Tail(s))
<1>1. Head(s) \in Entry /\ Tail(s) \in Seq(Entry) /\ s = <<Head(s)>> \o Tail(s)
  BY HeadTail
<1>2. <<Head(s)>> \in Seq(Entry)
  BY <1>1
<1>3. ToSet(<<Head(s)>>) = {Head(s)}
  BY ToSetFew, Zenon
<1>4. QED
  BY <1>1, <1>2, <1>3, ToSetConcat

-----------------------------------------------------------------------------
(* What the actions do to the sequences                                    *)

\* Both channels carry entries.
LEMMA Entries ==
    /\ RawEvent \subseteq Entry /\ Event \subseteq Entry
    /\ Seq(RawEvent) \subseteq Seq(Entry) /\ Seq(Event) \subseteq Seq(Entry)
<1>1. RawEvent \subseteq Entry /\ Event \subseteq Entry
  BY MaxPressesAssumption DEF RawEvent, Event, Entry
<1>2. QED
  BY <1>1, SeqMonotonic

\* The type invariant in the terms of the rows.
LEMMA Typed ==
  ASSUME TypeOK
  PROVE  /\ Decided \in Seq(Event) /\ Decided \in Seq(Entry)
         /\ log \in Seq(Entry) /\ outgoing \in Seq(Entry)
         /\ raw \in Seq(Entry) /\ held \in Seq(Entry)
         /\ End(Decided, 0) \in Nat /\ Taken \in Nat
<1>1. Decided \in Seq(Event)
  BY ConcatProperties DEF TypeOK, Decided
<1>2. /\ Decided \in Seq(Entry)
      /\ log \in Seq(Entry) /\ outgoing \in Seq(Entry)
      /\ raw \in Seq(Entry) /\ held \in Seq(Entry)
  BY <1>1, Entries DEF TypeOK
<1>3. End(Decided, 0) \in Nat /\ Taken \in Nat
  BY <1>2, EndType, MaxPressesAssumption DEF TypeOK, Taken
<1>4. QED
  BY <1>1, <1>2, <1>3

\* A handler of the watcher adds its events to those decided on.
LEMMA HandlerDecides ==
  ASSUME TypeOK, Sending, watcher = "select", NEW batch \in Seq(Event), Send(batch),
         log' = log
  PROVE  Decided = log /\ Decided' = Decided \o batch
<1>1. outgoing = <<>> /\ outgoing' = batch
  BY DEF Sending, Send
<1>2. Decided = log
  BY <1>1, ConcatEmptySeq DEF TypeOK, Decided
<1>3. QED
  BY <1>1, <1>2 DEF Decided

\* To send an event that was decided on decides nothing.
LEMMA EmitDecidesNothing ==
  ASSUME TypeOK, Sending, Emit
  PROVE  /\ outgoing # <<>> /\ Decided' = Decided
         /\ log' = log \o <<Head(outgoing)>> /\ outgoing' = Tail(outgoing)
<1>1. outgoing # <<>> /\ outgoing' = Tail(outgoing) /\ log' = Append(log, Head(outgoing))
  BY DEF Sending, Emit, Send
<1>2. /\ Head(outgoing) \in Entry /\ Tail(outgoing) \in Seq(Entry)
      /\ outgoing = <<Head(outgoing)>> \o Tail(outgoing)
      /\ log \in Seq(Entry)
  BY <1>1, HeadTail, Typed
<1>3. log' = log \o <<Head(outgoing)>> /\ <<Head(outgoing)>> \in Seq(Entry)
  BY <1>1, <1>2, AppendIsConcat
<1>4. (log \o <<Head(outgoing)>>) \o Tail(outgoing) = log \o outgoing
  BY <1>2, <1>3, ConcatAssociative
<1>5. QED
  BY <1>1, <1>3, <1>4 DEF Decided

-----------------------------------------------------------------------------
(* The inductive invariant is kept                                         *)

\* The bound on presses covers those that wait in the library's channel.
LEMMA CountedInductive == TypeOK /\ Counted /\ [Next]_vars => Counted'
<1> SUFFICES ASSUME TypeOK, Counted, [Next]_vars PROVE Counted'
  OBVIOUS
<1>1. /\ stamped \in Nat /\ downs \in Nat /\ ups \in Nat /\ MaxPresses \in Nat
      /\ keyIsDown \in BOOLEAN
  BY MaxPressesAssumption DEF TypeOK
<1> USE <1>1 DEF Counted, keyVars, stampVars
<1>2. CASE KeyDown
  BY <1>2 DEF KeyDown
<1>3. CASE KeyUp
  BY <1>3 DEF KeyUp
<1>4. CASE SourcePress
  BY <1>4 DEF SourcePress
<1>5. CASE SourceRelease
  BY <1>5 DEF SourceRelease
<1>6. CASE SourceEmit \/ SourceExits \/ WindowEnds \/ EndContext \/ Receive \/ UNCHANGED vars
  BY <1>6 DEF SourceEmit, SourceExits, WindowEnds, EndContext, Receive, vars
<1>7. CASE Watcher
  BY <1>7 DEF Watcher, WatcherPress, WatcherRelease, TimerFires, Emit, WatcherExits
<1>8. QED
  BY <1>2, <1>3, <1>4, <1>5, <1>6, <1>7 DEF Next, Key, Source

\* What a press is to the hold mode.
HoldKind(press) == IF IsDoubleTap(lastPress, press) THEN "doubleTap" ELSE "press"

\* The events the watcher decides on when it takes a press from its channel.
LEMMA PressDecides ==
  ASSUME TypeOK, Sending, WatcherPress
  PROVE  LET press == Head(raw).id IN
         /\ raw # <<>> /\ Head(raw).kind = "down" /\ press \in 0..MaxPresses
         /\ watcher = "select" /\ raw' = Tail(raw)
         /\ \/ /\ HoldPress(press)
               /\ Decided' = Decided \o <<Occurred(HoldKind(press), press)>>
            \/ /\ ToggleOff(press)
               /\ Decided' = Decided \o <<Occurred("release", press)>>
            \/ /\ ToggleDoubleTap(press)
               /\ Decided' = Decided \o <<Occurred("doubleTap", press)>>
            \/ /\ ToggleLatePress(press)
               /\ Decided' = Decided \o <<Occurred("press", pendingToggle),
                                          Occurred("release", press)>>
            \/ ToggleHoldBack(press) /\ Decided' = Decided
<1> DEFINE press == Head(raw).id
<1>1. /\ raw # <<>> /\ watcher = "select" /\ Head(raw).kind = "down"
      /\ raw' = Tail(raw) /\ log' = log
  BY DEF WatcherPress, outVars
<1>2. press \in 0..MaxPresses /\ pendingToggle \in 0..MaxPresses
  <2>1. Head(raw) \in RawEvent
    BY <1>1 DEF TypeOK
  <2>2. QED
    BY <2>1 DEF TypeOK, RawEvent
<1>3. \A kind \in {"press", "release", "doubleTap"}, id \in 0..MaxPresses :
         Occurred(kind, id) \in Event
  BY DEF Event, Occurred
<1>4. ASSUME HoldPress(press)
      PROVE  Decided' = Decided \o <<Occurred(HoldKind(press), press)>>
  <2>1. Send(<<Occurred(HoldKind(press), press)>>)
    BY <1>4 DEF HoldPress, HoldKind
  <2>2. <<Occurred(HoldKind(press), press)>> \in Seq(Event)
    BY <1>2, <1>3 DEF HoldKind
  <2>3. QED
    BY <1>1, <2>1, <2>2, HandlerDecides
<1>5. ASSUME ToggleOff(press)
      PROVE  Decided' = Decided \o <<Occurred("release", press)>>
  <2>1. Send(<<Occurred("release", press)>>)
    BY <1>5 DEF ToggleOff
  <2>2. <<Occurred("release", press)>> \in Seq(Event)
    BY <1>2, <1>3
  <2>3. QED
    BY <1>1, <2>1, <2>2, HandlerDecides
<1>6. ASSUME ToggleDoubleTap(press)
      PROVE  Decided' = Decided \o <<Occurred("doubleTap", press)>>
  <2>1. Send(<<Occurred("doubleTap", press)>>)
    BY <1>6 DEF ToggleDoubleTap
  <2>2. <<Occurred("doubleTap", press)>> \in Seq(Event)
    BY <1>2, <1>3
  <2>3. QED
    BY <1>1, <2>1, <2>2, HandlerDecides
<1>7. ASSUME ToggleLatePress(press)
      PROVE  Decided' = Decided \o <<Occurred("press", pendingToggle),
                                     Occurred("release", press)>>
  <2>1. Send(<<Occurred("press", pendingToggle), Occurred("release", press)>>)
    BY <1>7 DEF ToggleLatePress
  <2>2. <<Occurred("press", pendingToggle), Occurred("release", press)>> \in Seq(Event)
    BY <1>2, <1>3
  <2>3. QED
    BY <1>1, <2>1, <2>2, HandlerDecides
<1>8. ASSUME ToggleHoldBack(press)
      PROVE  Decided' = Decided
  <2>1. Send(<<>>) /\ <<>> \in Seq(Event)
    BY <1>8 DEF ToggleHoldBack
  <2>2. Decided' = Decided \o <<>>
    BY <1>1, <2>1, HandlerDecides
  <2>3. QED
    BY <2>2, Typed, ConcatEmptySeq
<1>9. HoldPress(press) \/ ToggleOff(press) \/ ToggleDoubleTap(press)
         \/ ToggleLatePress(press) \/ ToggleHoldBack(press)
  BY DEF WatcherPress
<1>10. QED
  BY <1>1, <1>2, <1>4, <1>5, <1>6, <1>7, <1>8, <1>9

\* When it takes a release, which the toggle mode ignores.
LEMMA ReleaseDecides ==
  ASSUME TypeOK, Sending, WatcherRelease
  PROVE  LET id == Head(raw).id IN
         /\ raw # <<>> /\ Head(raw).kind = "up" /\ id \in 0..MaxPresses
         /\ watcher = "select" /\ raw' = Tail(raw)
         /\ Decided' = IF mode = "hold" THEN Decided \o <<Occurred("release", id)>>
                       ELSE Decided
<1> DEFINE id == Head(raw).id
<1>1. /\ raw # <<>> /\ watcher = "select" /\ Head(raw).kind = "up"
      /\ raw' = Tail(raw) /\ log' = log
      /\ Send(IF mode = "hold" THEN <<Occurred("release", id)>> ELSE <<>>)
  BY DEF WatcherRelease, outVars
<1>2. id \in 0..MaxPresses
  <2>1. Head(raw) \in RawEvent
    BY <1>1 DEF TypeOK
  <2>2. QED
    BY <2>1 DEF RawEvent
<1>3. CASE mode = "hold"
  <2>1. <<Occurred("release", id)>> \in Seq(Event) /\ Send(<<Occurred("release", id)>>)
    BY <1>1, <1>2, <1>3 DEF Event, Occurred
  <2>2. Decided' = Decided \o <<Occurred("release", id)>>
    BY <1>1, <2>1, HandlerDecides
  <2>3. QED
    BY <1>1, <1>2, <1>3, <2>2
<1>4. CASE mode # "hold"
  <2>1. <<>> \in Seq(Event) /\ Send(<<>>)
    BY <1>1, <1>4
  <2>2. Decided' = Decided \o <<>>
    BY <1>1, <2>1, HandlerDecides
  <2>3. Decided' = Decided
    BY <2>2, Typed, ConcatEmptySeq
  <2>4. QED
    BY <1>1, <1>2, <1>4, <2>3
<1>5. QED
  BY <1>3, <1>4

\* When the timer of a press that was held back fires.
LEMMA TimerDecides ==
  ASSUME TypeOK, Sending, TimerFires
  PROVE  /\ watcher = "select" /\ mode = "toggle" /\ ~toggleActive /\ pendingToggle # 0
         /\ Occurred("press", pendingToggle) \in Event
         /\ Send(<<Occurred("press", pendingToggle)>>)
         /\ Decided' = Decided \o <<Occurred("press", pendingToggle)>>
<1>1. /\ watcher = "select" /\ mode = "toggle" /\ ~toggleActive /\ pendingToggle # 0
      /\ log' = log /\ Send(<<Occurred("press", pendingToggle)>>)
  BY DEF TimerFires, Sending, outVars
<1>2. Occurred("press", pendingToggle) \in Event
  BY DEF TypeOK, Event, Occurred
<1>3. <<Occurred("press", pendingToggle)>> \in Seq(Event)
  BY <1>2
<1>4. QED
  BY <1>1, <1>2, <1>3, HandlerDecides

\* What the watcher takes next comes right after what it has taken.
LEMMA HeadIsNext ==
  ASSUME TypeOK, Chained, watcher # "done", raw # <<>>
  PROVE  /\ Head(raw) \in RawEvent /\ Tail(raw) \in Seq(Entry)
         /\ Head(raw).id = Taken + (IF Head(raw).kind = "down" THEN 1 ELSE 0)
         /\ Head(raw).kind = "down" => Head(raw).id # 0
         /\ Chain(mode, Tail(raw), Head(raw).id)
         /\ End(raw, Taken) = End(Tail(raw), Head(raw).id)
<1> DEFINE h == Head(raw)
           one == <<h>>
           rest == Tail(raw)
<1>1. h \in Entry /\ h \in RawEvent /\ rest \in Seq(Entry) /\ Taken \in Nat
  BY Typed, HeadTail DEF TypeOK
<1>2. raw = one \o rest
  BY Typed, HeadTail
<1>3. h.id \in Nat
  BY <1>1 DEF Entry
<1>4. one \in Seq(Entry) /\ End(one, Taken) = h.id
  BY <1>1, ChainOne
<1>5. Chain(mode, one, Taken) => h.id = Taken + Weight(mode, h)
  BY <1>1, ChainOne
<1>6. Weight(mode, h) = IF h.kind = "down" THEN 1 ELSE 0
  BY <1>1 DEF Weight, RawEvent
<1> HIDE DEF h, one, rest
<1>7. Chain(mode, one \o rest, Taken)
  BY <1>2 DEF Chained
<1>8. /\ Chain(mode, one, Taken) /\ Chain(mode, rest, h.id)
      /\ End(one \o rest, Taken) = End(rest, h.id)
  BY <1>1, <1>4, <1>7, ChainConcat
<1>9. End(raw, Taken) = End(rest, h.id)
  BY <1>2, <1>8
<1>10. h.id = Taken + (IF h.kind = "down" THEN 1 ELSE 0)
  BY <1>5, <1>6, <1>8
<1>11. QED
  BY <1>1, <1>3, <1>8, <1>9, <1>10 DEF h, rest

\* A handler that has nothing to send goes back to the select; a press is held
\* back exactly while its timer runs, and never while toggleActive is set.
LEMMA SendingInductive == IInv /\ [Next]_vars => Sending'
<1> SUFFICES ASSUME IInv, [Next]_vars PROVE Sending'
  OBVIOUS
<1> USE DEF IInv, Sending, sourceVars, watcherVars, localVars, keyVars
<1>1. CASE Key \/ WindowEnds \/ EndContext \/ Receive \/ UNCHANGED vars
  BY <1>1 DEF Key, KeyDown, KeyUp, WindowEnds, EndContext, Receive, vars
<1>2. CASE Source
  BY <1>2 DEF Source, SourcePress, SourceRelease, SourceEmit, SourceExits
<1>3. CASE WatcherPress
  <2>1. /\ outgoing' # <<>> <=> watcher' = "emit"
        /\ UNCHANGED <<source, held, mode>>
    BY <1>3 DEF WatcherPress, HoldPress, ToggleOff, ToggleDoubleTap, ToggleLatePress,
       ToggleHoldBack, Send
  <2>2. \E press : \/ HoldPress(press) \/ ToggleOff(press) \/ ToggleDoubleTap(press)
                   \/ ToggleLatePress(press) \/ (ToggleHoldBack(press) /\ press # 0)
    <3>1. raw # <<>> /\ Head(raw).id # 0
      BY <1>3, HeadIsNext DEF WatcherPress
    <3>2. QED
      BY <1>3, <3>1 DEF WatcherPress
  <2>3. QED
    BY <2>1, <2>2 DEF HoldPress, ToggleOff, ToggleDoubleTap, ToggleLatePress, ToggleHoldBack
<1>4. CASE WatcherRelease \/ TimerFires
  BY <1>4 DEF WatcherRelease, TimerFires, Send
<1>5. CASE Emit \/ WatcherExits
  BY <1>5 DEF Emit, WatcherExits, Send
<1>6. QED
  BY <1>1, <1>2, <1>3, <1>4, <1>5 DEF Next, Watcher

\* Each action keeps the types; a channel grows only when it has room.
LEMMA TypeInductive == IInv /\ [Next]_vars => TypeOK'
<1> SUFFICES ASSUME IInv, [Next]_vars PROVE TypeOK'
  OBVIOUS
<1> USE DEF IInv, TypeOK, keyVars, stampVars, sourceVars, localVars, watcherVars, outVars,
            Events
<1>1. CASE KeyDown \/ KeyUp
  <2>1. downs' \in 0..MaxPresses /\ ups' \in 0..MaxPresses /\ keyIsDown' \in BOOLEAN
    <3>1. /\ stamped \in Nat /\ downs \in Nat /\ ups \in Nat /\ MaxPresses \in Nat
          /\ keyIsDown \in BOOLEAN
      BY MaxPressesAssumption
    <3>2. CASE KeyDown
      BY <3>1, <3>2 DEF KeyDown, Counted
    <3>3. CASE KeyUp
      <4>1. ups + 1 <= stamped + downs /\ stamped + downs <= MaxPresses
        BY <3>3 DEF KeyUp, Counted
      <4>2. ups' = ups + 1 /\ downs' = downs /\ keyIsDown' = FALSE
        BY <3>3 DEF KeyUp
      <4>3. ups + 1 \in 0..MaxPresses
        BY ONLY <3>1, <4>1
      <4>4. QED
        BY <4>2, <4>3
    <3>4. QED
      BY <1>1, <3>2, <3>3
  <2>2. QED
    BY <1>1, <2>1 DEF KeyDown, KeyUp
<1>2. CASE WindowEnds \/ EndContext \/ UNCHANGED vars
  BY <1>2 DEF WindowEnds, EndContext, vars
<1>3. CASE Receive
  <2>1. received' \in 0..Len(log) /\ Len(log) - received' <= EventCap
    BY <1>3, CapAssumption DEF Receive
  <2>2. QED
    BY <1>3, <2>1 DEF Receive
<1>4. CASE SourcePress
  <2>1. stamped' \in 0..MaxPresses /\ downs' \in 0..MaxPresses /\ stamped' \in Press
    BY <1>4, MaxPressesAssumption DEF SourcePress, Counted, Press
  <2>2. quick' \subseteq Press /\ windowOpen' \in BOOLEAN
    BY <1>4, <2>1 DEF SourcePress
  <2>3. held' \in Seq(RawEvent) /\ Len(held') <= 1
    BY <1>4, <2>1 DEF SourcePress, RawEvent, Occurred
  <2>4. QED
    BY <1>4, <2>1, <2>2, <2>3 DEF SourcePress
<1>5. CASE SourceRelease
  <2>1. ups' \in 0..MaxPresses
    BY <1>5, MaxPressesAssumption DEF SourceRelease
  <2>2. held' \in Seq(RawEvent) /\ Len(held') <= 1
    BY <1>5 DEF SourceRelease, RawEvent, Occurred
  <2>3. QED
    BY <1>5, <2>1, <2>2 DEF SourceRelease
<1>6. CASE SourceEmit
  <2>1. raw' \in Seq(RawEvent) /\ Len(raw') <= SourceCap
    BY <1>6, CapAssumption DEF SourceEmit
  <2>2. held' \in Seq(RawEvent) /\ Len(held') <= 1
    BY <1>6 DEF SourceEmit
  <2>3. QED
    BY <1>6, <2>1, <2>2 DEF SourceEmit
<1>7. CASE SourceExits
  BY <1>7 DEF SourceExits
<1>8. CASE WatcherPress
  <2> DEFINE press == Head(raw).id
  <2>1. raw # <<>> /\ press \in 0..MaxPresses /\ raw' = Tail(raw)
    BY <1>8, PressDecides
  <2>2. raw' \in Seq(RawEvent) /\ Len(raw') <= SourceCap
    BY <2>1, CapAssumption
  <2>3. \A kind \in {"press", "release", "doubleTap"}, id \in 0..MaxPresses :
           Occurred(kind, id) \in Event
    BY DEF Event, Occurred
  <2>4. HoldPress(press) \/ ToggleOff(press) \/ ToggleDoubleTap(press)
           \/ ToggleLatePress(press) \/ ToggleHoldBack(press)
    BY <1>8 DEF WatcherPress
  <2> HIDE DEF press
  <2>5. outgoing' \in Seq(Event) /\ Len(outgoing') <= 2 /\ watcher' \in {"select", "emit"}
    <3>1. CASE HoldPress(press)
      BY <2>1, <2>3, <3>1 DEF HoldPress, Send
    <3>2. CASE ToggleOff(press)
      BY <2>1, <2>3, <3>2 DEF ToggleOff, Send
    <3>3. CASE ToggleDoubleTap(press)
      BY <2>1, <2>3, <3>3 DEF ToggleDoubleTap, Send
    <3>4. CASE ToggleLatePress(press)
      BY <2>1, <2>3, <3>4 DEF ToggleLatePress, Send
    <3>5. CASE ToggleHoldBack(press)
      BY <3>5 DEF ToggleHoldBack, Send
    <3>6. QED
      BY <2>4, <3>1, <3>2, <3>3, <3>4, <3>5
  <2>6. /\ lastPress' \in 0..MaxPresses /\ pendingToggle' \in 0..MaxPresses
        /\ toggleActive' \in BOOLEAN /\ timer' \in BOOLEAN
    <3>1. 0 \in 0..MaxPresses
      BY MaxPressesAssumption
    <3>2. CASE HoldPress(press) \/ ToggleOff(press)
      BY <2>1, <3>2 DEF HoldPress, ToggleOff
    <3>3. CASE ToggleDoubleTap(press) \/ ToggleLatePress(press)
      BY <3>1, <3>3 DEF ToggleDoubleTap, ToggleLatePress
    <3>4. CASE ToggleHoldBack(press)
      BY <2>1, <3>4 DEF ToggleHoldBack
    <3>5. QED
      BY <2>4, <3>2, <3>3, <3>4
  <2>7. UNCHANGED <<keyVars, stampVars, sourceVars, ctxDone, outVars>>
    BY <1>8 DEF WatcherPress
  <2>8. QED
    BY <2>2, <2>5, <2>6, <2>7
<1>9. CASE WatcherRelease
  <2>1. raw # <<>> /\ Head(raw).id \in 0..MaxPresses /\ raw' = Tail(raw)
    BY <1>9, ReleaseDecides
  <2>2. raw' \in Seq(RawEvent) /\ Len(raw') <= SourceCap
    BY <2>1, CapAssumption
  <2>3. Occurred("release", Head(raw).id) \in Event
    BY <2>1 DEF Event, Occurred
  <2>4. outgoing' \in Seq(Event) /\ Len(outgoing') <= 2 /\ watcher' \in {"select", "emit"}
    BY <1>9, <2>3 DEF WatcherRelease, Send
  <2>5. QED
    BY <1>9, <2>2, <2>4 DEF WatcherRelease
<1>10. CASE TimerFires
  <2>1. outgoing' \in Seq(Event) /\ Len(outgoing') <= 2 /\ watcher' \in {"select", "emit"}
    <3> DEFINE event == Occurred("press", pendingToggle)
    <3>1. event \in Event /\ Send(<<event>>)
      BY <1>10, TimerDecides
    <3> HIDE DEF event
    <3>2. QED
      BY <3>1 DEF Send
  <2>2. pendingToggle' \in 0..MaxPresses /\ timer' \in BOOLEAN /\ toggleActive' \in BOOLEAN
    <3>1. 0 \in 0..MaxPresses
      BY MaxPressesAssumption
    <3>2. pendingToggle' = 0 /\ timer' = FALSE /\ toggleActive' = TRUE
      BY <1>10 DEF TimerFires
    <3>3. QED
      BY <3>1, <3>2
  <2>3. UNCHANGED <<keyVars, stampVars, sourceVars, raw, ctxDone, lastPress, outVars>>
    BY <1>10 DEF TimerFires
  <2>4. QED
    BY <2>1, <2>2, <2>3
<1>11. CASE Emit
  <2>1. /\ outgoing # <<>> /\ outgoing' = Tail(outgoing)
        /\ log' = Append(log, Head(outgoing)) /\ Len(log) - received < EventCap
    BY <1>11, EmitDecidesNothing DEF Emit
  <2>2. /\ outgoing' \in Seq(Event) /\ Len(outgoing') <= 2
        /\ log' \in Seq(Event) /\ Len(log') = Len(log) + 1
    BY <2>1
  <2>3. received' = received /\ received \in 0..Len(log') /\ Len(log') - received <= EventCap
    BY <1>11, <2>1, <2>2, CapAssumption DEF Emit
  <2>4. QED
    BY <1>11, <2>2, <2>3 DEF Emit, Send
<1>12. CASE WatcherExits
  BY <1>12 DEF WatcherExits
<1>13. QED
  BY <1>1, <1>2, <1>3, <1>4, <1>5, <1>6, <1>7, <1>8, <1>9, <1>10, <1>11, <1>12
     DEF Next, Key, Source, Watcher

\* What a handler of the watcher adds to the row of events.
LEMMA ChainAppend ==
  ASSUME NEW m, NEW s \in Seq(Entry), NEW e \in Entry, Chain(m, s, 0),
         e.id = End(s, 0) + Weight(m, e)
  PROVE  Chain(m, s \o <<e>>, 0) /\ End(s \o <<e>>, 0) = e.id /\ s \o <<e>> \in Seq(Entry)
<1> DEFINE one == <<e>>
<1>1. End(s, 0) \in Nat
  BY EndType
<1>2. one \in Seq(Entry) /\ Chain(m, one, End(s, 0)) /\ End(one, End(s, 0)) = e.id
  BY <1>1, ChainOne
<1> HIDE DEF one
<1>3. s \o one \in Seq(Entry)
  BY <1>2, ConcatProperties
<1>4. Chain(m, s \o one, 0) /\ End(s \o one, 0) = e.id
  BY <1>2, ChainConcat
<1>5. QED
  BY <1>3, <1>4 DEF one

\* The watcher goes on where the events it has decided on end.
LEMMA PressKeepsChain ==
  ASSUME IInv, WatcherPress
  PROVE  /\ Chain(mode, Decided', 0) /\ Taken' = Head(raw).id
         /\ pendingToggle' # 0 => pendingToggle' = End(Decided', 0) + 1
         /\ mode = "hold" => lastPress' = End(Decided', 0)
<1> DEFINE press == Head(raw).id
           end == End(Decided, 0)
<1>1. /\ raw # <<>> /\ watcher = "select" /\ Head(raw).kind = "down"
      /\ press \in 0..MaxPresses
  BY PressDecides DEF IInv
<1>2. press = Taken + 1 /\ press # 0
  BY <1>1, HeadIsNext DEF IInv
<1>3. /\ Decided \in Seq(Entry) /\ end \in Nat /\ Chain(mode, Decided, 0)
      /\ (pendingToggle # 0 => pendingToggle = end + 1)
  BY <1>1, Typed DEF IInv, Chained
<1>4. /\ \A kind \in {"press", "release", "doubleTap"}, id \in 0..MaxPresses :
           /\ Occurred(kind, id) \in Entry
           /\ Occurred(kind, id).kind = kind /\ Occurred(kind, id).id = id
      /\ pendingToggle \in 0..MaxPresses
  BY MaxPressesAssumption DEF Entry, Occurred, IInv, TypeOK
<1> HIDE DEF press, end
<1>5. CASE HoldPress(press) /\ Decided' = Decided \o <<Occurred(HoldKind(press), press)>>
  <2> DEFINE e == Occurred(HoldKind(press), press)
  <2>1. mode = "hold" /\ lastPress' = press /\ pendingToggle' = 0 /\ pendingToggle = 0
    BY <1>5 DEF HoldPress, IInv, Sending
  <2>2. /\ e \in Entry /\ e.id = press /\ e.kind \in {"press", "doubleTap"}
        /\ press = end + 1
    BY <1>1, <1>2, <1>4, <2>1 DEF HoldKind, Taken, end
  <2> HIDE DEF e
  <2>3. e.id = end + Weight(mode, e)
    BY <2>1, <2>2 DEF Weight
  <2>4. Chain(mode, Decided', 0) /\ End(Decided', 0) = press
    BY <1>3, <1>5, <2>2, <2>3, ChainAppend DEF e, end
  <2>5. QED
    BY <2>1, <2>4 DEF Taken, press
<1>6. CASE ToggleOff(press) /\ Decided' = Decided \o <<Occurred("release", press)>>
  <2> DEFINE e == Occurred("release", press)
  <2>1. mode = "toggle" /\ pendingToggle' = 0 /\ pendingToggle = 0
    BY <1>6 DEF ToggleOff, IInv, Sending
  <2>2. e \in Entry /\ e.id = press /\ e.kind = "release" /\ press = end + 1
    BY <1>1, <1>2, <1>4, <2>1 DEF Taken, end
  <2> HIDE DEF e
  <2>3. e.id = end + Weight(mode, e)
    BY <2>1, <2>2 DEF Weight
  <2>4. Chain(mode, Decided', 0) /\ End(Decided', 0) = press
    BY <1>3, <1>6, <2>2, <2>3, ChainAppend DEF e, end
  <2>5. QED
    BY <2>1, <2>4 DEF Taken, press
<1>7. CASE ToggleDoubleTap(press) /\ Decided' = Decided \o <<Occurred("doubleTap", press)>>
  <2> DEFINE e == Occurred("doubleTap", press)
  <2>1. mode = "toggle" /\ pendingToggle' = 0 /\ pendingToggle # 0
    BY <1>7 DEF ToggleDoubleTap
  <2>2. e \in Entry /\ e.id = press /\ e.kind = "doubleTap" /\ press = end + 2
    BY <1>1, <1>2, <1>3, <1>4, <2>1 DEF Taken
  <2> HIDE DEF e
  <2>3. e.id = end + Weight(mode, e)
    BY <2>1, <2>2 DEF Weight
  <2>4. Chain(mode, Decided', 0) /\ End(Decided', 0) = press
    BY <1>3, <1>7, <2>2, <2>3, ChainAppend DEF e, end
  <2>5. QED
    BY <2>1, <2>4 DEF Taken, press
<1>8. CASE /\ ToggleLatePress(press)
           /\ Decided' = Decided \o <<Occurred("press", pendingToggle),
                                      Occurred("release", press)>>
  <2> DEFINE e == Occurred("press", pendingToggle)
             f == Occurred("release", press)
  <2>1. mode = "toggle" /\ pendingToggle' = 0 /\ pendingToggle # 0
    BY <1>8 DEF ToggleLatePress
  <2>2. /\ e \in Entry /\ e.id = end + 1 /\ e.kind = "press"
        /\ f \in Entry /\ f.id = press /\ f.kind = "release" /\ press = end + 2
    BY <1>1, <1>2, <1>3, <1>4, <2>1 DEF Taken
  <2> HIDE DEF e, f
  <2>3. e.id = end + Weight(mode, e) /\ f.id = e.id + Weight(mode, f)
    BY <1>3, <2>1, <2>2 DEF Weight
  <2> DEFINE both == <<e, f>>
  <2>4. both \in Seq(Entry) /\ Chain(mode, both, end) /\ End(both, end) = f.id
    BY <1>3, <2>2, <2>3, ChainTwo
  <2> HIDE DEF both
  <2>5. Chain(mode, Decided \o both, 0) /\ End(Decided \o both, 0) = f.id
    BY <1>3, <2>4, ChainConcat DEF end
  <2>6. Chain(mode, Decided', 0) /\ End(Decided', 0) = press
    BY <1>8, <2>2, <2>5 DEF both, e, f
  <2>7. QED
    BY <2>1, <2>6 DEF Taken, press
<1>9. CASE ToggleHoldBack(press) /\ Decided' = Decided
  <2>1. mode = "toggle" /\ pendingToggle' = press /\ pendingToggle = 0
    BY <1>9 DEF ToggleHoldBack
  <2>2. press = end + 1
    BY <1>2, <2>1 DEF Taken, end
  <2>3. QED
    BY <1>2, <1>3, <1>9, <2>1, <2>2 DEF Taken, press, end
<1>10. QED
  BY <1>5, <1>6, <1>7, <1>8, <1>9, PressDecides DEF IInv, press

\* If the watcher goes on where what it has taken ends, and neither its channel
\* nor the source has changed otherwise, the row is as it was.
LEMMA RowKept ==
  ASSUME IInv, watcher # "done", UNCHANGED <<mode, source, held, stamped>>,
         \/ raw' = raw /\ Taken' = Taken
         \/ raw # <<>> /\ raw' = Tail(raw) /\ Taken' = Head(raw).id
  PROVE  /\ Chain(mode, raw', Taken')
         /\ source' # "done" =>
              /\ Chain(mode, held', End(raw', Taken'))
              /\ stamped' = End(held', End(raw', Taken'))
<1>1. CASE raw' = raw /\ Taken' = Taken
  BY <1>1 DEF IInv, Chained
<1>2. CASE raw # <<>> /\ raw' = Tail(raw) /\ Taken' = Head(raw).id
  <2>1. /\ Chain(mode, Tail(raw), Head(raw).id)
        /\ End(raw, Taken) = End(Tail(raw), Head(raw).id)
    BY <1>2, HeadIsNext DEF IInv
  <2>2. source' # "done" => /\ Chain(mode, held, End(raw, Taken))
                            /\ stamped = End(held, End(raw, Taken))
    BY DEF IInv, Chained
  <2>3. Chain(mode, raw', Taken') /\ End(raw', Taken') = End(raw, Taken)
    BY <1>2, <2>1
  <2>4. QED
    BY <2>2, <2>3
<1>3. QED
  BY <1>1, <1>2

\* The events that were sent are the first of those decided on.
LEMMA LogIsPrefix ==
  ASSUME TypeOK, Chain(mode, Decided, 0)
  PROVE  Chain(mode, log, 0)
BY Typed, ChainConcat DEF Decided

\* Each action moves entries along the row, replaces a press by the events that
\* answer it, or adds a stamped press at the end.
LEMMA ChainedInductive == IInv /\ TypeOK' /\ [Next]_vars => Chained'
<1> SUFFICES ASSUME IInv, TypeOK', [Next]_vars PROVE Chained'
  OBVIOUS
<1>1. mode' = mode
  BY DEF Next, Key, Source, Watcher, KeyDown, KeyUp, WindowEnds, SourcePress, SourceRelease,
     SourceEmit, SourceExits, WatcherPress, WatcherRelease, TimerFires, Emit,
     WatcherExits, EndContext, Receive, HoldPress, ToggleOff, ToggleDoubleTap,
     ToggleLatePress, ToggleHoldBack, keyVars, vars
<1>2. ASSUME UNCHANGED <<log, outgoing, pendingToggle, lastPress, watcher>>
      PROVE  Decided' = Decided /\ Taken' = Taken
  BY <1>2 DEF Decided, Taken
<1>3. CASE KeyDown \/ KeyUp \/ WindowEnds \/ EndContext \/ Receive \/ UNCHANGED vars
  <2>1. UNCHANGED <<log, outgoing, pendingToggle, lastPress, watcher, raw, held, source,
                    stamped>>
    BY <1>3 DEF KeyDown, KeyUp, WindowEnds, EndContext, Receive, vars, stampVars, sourceVars,
       watcherVars, localVars, outVars
  <2>2. Decided' = Decided /\ Taken' = Taken
    BY <1>2, <2>1
  <2>3. QED
    BY <1>1, <2>1, <2>2 DEF IInv, Chained
<1>4. CASE SourcePress \/ SourceRelease
  <2> DEFINE e == held'[1]
             end == End(raw, Taken)
  <2>1. /\ UNCHANGED <<log, outgoing, pendingToggle, lastPress, watcher, raw>>
        /\ source = "select" /\ source' = "emit" /\ held' = <<e>>
        /\ \/ e.kind = "down" /\ e.id = stamped + 1 /\ stamped' = stamped + 1
           \/ e.kind = "up" /\ e.id = stamped /\ stamped' = stamped
    BY <1>4 DEF SourcePress, SourceRelease, watcherVars, localVars, outVars, stampVars, Occurred
  <2>2. Decided' = Decided /\ Taken' = Taken
    BY <1>2, <2>1
  <2>3. CASE watcher = "done"
    BY <1>1, <2>1, <2>3 DEF IInv, Chained
  <2>4. CASE watcher # "done"
    <3>1. held = <<>> /\ stamped = End(held, end)
      BY <2>1, <2>4 DEF IInv, Sending, Chained
    <3>2. stamped = end /\ end \in Nat
      BY <3>1, Typed, EndType, ChainEmpty DEF IInv
    <3>3. e \in Entry
      <4>1. held' \in Seq(Entry) /\ held' = <<e>>
        BY <2>1, Entries DEF TypeOK
      <4>2. QED
        BY <4>1
    <3> HIDE DEF e, end
    <3>4. e.id = end + Weight(mode, e) /\ stamped' = e.id
      BY <2>1, <3>2 DEF Weight
    <3>5. Chain(mode, <<e>>, end) /\ End(<<e>>, end) = e.id
      BY <3>2, <3>3, <3>4, ChainOne
    <3>6. QED
      BY <1>1, <2>1, <2>2, <3>4, <3>5 DEF IInv, Chained, end
  <2>5. QED
    BY <2>3, <2>4
<1>5. CASE SourceEmit
  <2>1. /\ UNCHANGED <<log, outgoing, pendingToggle, lastPress, watcher, stamped>>
        /\ source = "emit" /\ source' = "select" /\ raw' = raw \o held /\ held' = <<>>
    BY <1>5 DEF SourceEmit, watcherVars, localVars, outVars, stampVars
  <2>2. Decided' = Decided /\ Taken' = Taken
    BY <1>2, <2>1
  <2>3. CASE watcher = "done"
    BY <1>1, <2>1, <2>3 DEF IInv, Chained
  <2>4. CASE watcher # "done"
    <3>1. /\ Chain(mode, raw, Taken) /\ Chain(mode, held, End(raw, Taken))
          /\ stamped = End(held, End(raw, Taken))
      BY <2>1, <2>4 DEF IInv, Chained
    <3>2. raw \in Seq(Entry) /\ held \in Seq(Entry) /\ Taken \in Nat
      BY Typed DEF IInv
    <3>3. Chain(mode, raw', Taken) /\ End(raw', Taken) = stamped
      BY <2>1, <3>1, <3>2, ChainConcat
    <3>4. Chain(mode, held', stamped) /\ End(held', stamped) = stamped
      BY <2>1, ChainEmpty
    <3>5. QED
      BY <1>1, <2>1, <2>2, <3>3, <3>4 DEF IInv, Chained
  <2>5. QED
    BY <2>3, <2>4
<1>6. CASE SourceExits
  <2>1. /\ UNCHANGED <<log, outgoing, pendingToggle, lastPress, watcher, raw>>
        /\ source' = "done"
    BY <1>6 DEF SourceExits, watcherVars, localVars, outVars
  <2>2. Decided' = Decided /\ Taken' = Taken
    BY <1>2, <2>1
  <2>3. QED
    BY <1>1, <2>1, <2>2 DEF IInv, Chained
<1>7. CASE WatcherPress
  <2>1. watcher # "done" /\ UNCHANGED <<mode, source, held, stamped, log>>
    BY <1>1, <1>7 DEF WatcherPress, sourceVars, stampVars, outVars
  <2>2. raw # <<>> /\ raw' = Tail(raw) /\ Taken' = Head(raw).id
    BY <1>7, PressDecides, PressKeepsChain DEF IInv
  <2>3. /\ Chain(mode, raw', Taken')
        /\ source' # "done" => /\ Chain(mode, held', End(raw', Taken'))
                               /\ stamped' = End(held', End(raw', Taken'))
    BY <2>1, <2>2, RowKept
  <2>4. /\ Chain(mode, Decided', 0) /\ Chain(mode, log', 0)
        /\ pendingToggle' # 0 => pendingToggle' = End(Decided', 0) + 1
        /\ mode = "hold" => lastPress' = End(Decided', 0)
    BY <1>7, <2>1, PressKeepsChain DEF IInv, Chained
  <2>5. QED
    BY <1>1, <2>3, <2>4 DEF Chained
<1>8. CASE WatcherRelease
  <2> DEFINE e == Occurred("release", Head(raw).id)
  <2>1. /\ watcher # "done" /\ UNCHANGED <<mode, source, held, stamped, log>>
        /\ UNCHANGED <<pendingToggle, lastPress>>
    BY <1>1, <1>8 DEF WatcherRelease, sourceVars, stampVars, outVars, localVars
  <2>2. /\ raw # <<>> /\ raw' = Tail(raw) /\ Head(raw).kind = "up"
        /\ Head(raw).id \in 0..MaxPresses
        /\ Decided' = IF mode = "hold" THEN Decided \o <<e>> ELSE Decided
    BY <1>8, ReleaseDecides DEF IInv
  <2>3. Head(raw).id = Taken /\ Chain(mode, Decided, 0)
    BY <2>1, <2>2, HeadIsNext, Typed DEF IInv, Chained
  <2>4. e \in Entry /\ e.id = Head(raw).id /\ e.kind = "release"
    BY <2>2, MaxPressesAssumption DEF Entry, Occurred
  <2> HIDE DEF e
  <2>5. CASE mode = "hold"
    <3>1. pendingToggle = 0 /\ Taken = End(Decided, 0) /\ lastPress = End(Decided, 0)
      BY <2>1, <2>5 DEF IInv, Sending, Taken, Chained
    <3>2. e.id = End(Decided, 0) + Weight(mode, e)
      BY <2>3, <2>4, <2>5, <3>1, Typed DEF Weight, IInv
    <3>3. Chain(mode, Decided \o <<e>>, 0) /\ End(Decided \o <<e>>, 0) = e.id
      BY <2>3, <2>4, <3>2, Typed, ChainAppend DEF IInv
    <3>4. Chain(mode, Decided', 0) /\ End(Decided', 0) = e.id
      BY <2>2, <2>5, <3>3
    <3>5. Taken' = Head(raw).id
      BY <2>1, <2>4, <3>1, <3>4 DEF Taken
    <3>6. /\ Chain(mode, raw', Taken')
          /\ source' # "done" => /\ Chain(mode, held', End(raw', Taken'))
                                 /\ stamped' = End(held', End(raw', Taken'))
      BY <2>1, <2>2, <3>5, RowKept
    <3>7. lastPress' = End(Decided', 0) /\ pendingToggle' = 0 /\ Chain(mode, log', 0)
      BY <2>1, <2>3, <2>4, <3>1, <3>4 DEF IInv, Chained
    <3>8. QED
      BY <1>1, <3>4, <3>6, <3>7 DEF Chained
  <2>6. CASE mode # "hold"
    <3>1. Decided' = Decided /\ Taken' = Head(raw).id
      BY <2>1, <2>2, <2>3, <2>6 DEF Taken
    <3>2. /\ Chain(mode, raw', Taken')
          /\ source' # "done" => /\ Chain(mode, held', End(raw', Taken'))
                                 /\ stamped' = End(held', End(raw', Taken'))
      BY <2>1, <2>2, <3>1, RowKept
    <3>3. pendingToggle' # 0 => pendingToggle' = End(Decided', 0) + 1
      BY <2>1, <3>1 DEF IInv, Chained
    <3>4. Chain(mode, Decided', 0) /\ Chain(mode, log', 0)
      BY <2>1, <2>3, <3>1 DEF IInv, Chained
    <3>5. QED
      BY <1>1, <2>6, <3>2, <3>3, <3>4 DEF Chained
  <2>7. QED
    BY <2>5, <2>6
<1>9. CASE TimerFires
  <2> DEFINE e == Occurred("press", pendingToggle)
  <2>1. /\ watcher # "done" /\ UNCHANGED <<mode, source, held, stamped, log, raw>>
        /\ pendingToggle' = 0 /\ pendingToggle # 0 /\ mode = "toggle"
        /\ e \in Event /\ Decided' = Decided \o <<e>>
    BY <1>1, <1>9, TimerDecides DEF TimerFires, sourceVars, stampVars, outVars, IInv
  <2>2. e \in Entry /\ e.id = pendingToggle /\ e.kind = "press"
    BY <2>1, Entries DEF Occurred
  <2> HIDE DEF e
  <2>3. Chain(mode, Decided, 0) /\ pendingToggle = End(Decided, 0) + 1
    BY <2>1 DEF IInv, Chained
  <2>4. e.id = End(Decided, 0) + Weight(mode, e)
    BY <2>1, <2>2, <2>3 DEF Weight
  <2>5. Chain(mode, Decided', 0) /\ End(Decided', 0) = pendingToggle
    BY <2>1, <2>2, <2>3, <2>4, Typed, ChainAppend DEF IInv
  <2>6. Taken' = Taken
    BY <2>1, <2>5 DEF Taken
  <2>7. /\ Chain(mode, raw', Taken')
        /\ source' # "done" => /\ Chain(mode, held', End(raw', Taken'))
                               /\ stamped' = End(held', End(raw', Taken'))
    BY <2>1, <2>6, RowKept
  <2>8. Chain(mode, log', 0)
    BY <2>1 DEF IInv, Chained
  <2>9. QED
    BY <1>1, <2>1, <2>5, <2>7, <2>8 DEF Chained
<1>10. CASE Emit
  <2>1. /\ watcher # "done" /\ Decided' = Decided
        /\ UNCHANGED <<mode, source, held, stamped, raw, pendingToggle, lastPress>>
    BY <1>1, <1>10, EmitDecidesNothing DEF Emit, sourceVars, stampVars, localVars, IInv
  <2>2. Taken' = Taken
    BY <2>1 DEF Taken
  <2>3. Chain(mode, Decided, 0)
    BY <2>1 DEF IInv, Chained
  <2>4. Chain(mode', log', 0)
    <3>1. Decided' = log' \o outgoing' /\ log' \in Seq(Entry) /\ outgoing' \in Seq(Entry)
      BY Entries DEF Decided, TypeOK
    <3>2. Chain(mode, log' \o outgoing', 0)
      BY <2>1, <2>3, <3>1
    <3>3. QED
      BY <1>1, <3>1, <3>2, ChainConcat
  <2>5. QED
    BY <1>1, <2>1, <2>2, <2>4 DEF IInv, Chained
<1>11. CASE WatcherExits
  <2>1. watcher' = "done" /\ log' = log
    BY <1>11 DEF WatcherExits, outVars
  <2>2. QED
    BY <1>1, <2>1 DEF IInv, Chained
<1>12. QED
  BY <1>3, <1>4, <1>5, <1>6, <1>7, <1>8, <1>9, <1>10, <1>11
     DEF Next, Key, Source, Watcher

-----------------------------------------------------------------------------
(* What has been decided on                                                *)

\* Only the watcher decides anything.
LEMMA OthersDecideNothing ==
  ASSUME Key \/ WindowEnds \/ Source \/ EndContext \/ Receive \/ UNCHANGED vars
  PROVE  /\ Decided' = Decided
         /\ UNCHANGED <<mode, watcher, toggleActive, pendingToggle>>
BY DEF Decided, Key, KeyDown, KeyUp, WindowEnds, Source, SourcePress, SourceRelease,
   SourceEmit, SourceExits, EndContext, Receive, vars, watcherVars, localVars, outVars,
   keyVars

\* The watcher does not touch what the source counts and stamps.
LEMMA WatcherStampsNothing ==
  ASSUME Watcher
  PROVE  UNCHANGED <<mode, stamped, windowOpen, quick, source, held>>
BY DEF Watcher, WatcherPress, WatcherRelease, TimerFires, Emit, WatcherExits, keyVars,
   stampVars, sourceVars

\* A beginning of an alternating sequence alternates.
LEMMA AlternatesPrefix ==
  ASSUME NEW s \in Seq(Entry), NEW t \in Seq(Entry), Alternates(s \o t)
  PROVE  Alternates(s)
<1> DEFINE st == s \o t
<1>1. /\ Len(st) = Len(s) + Len(t) /\ Len(s) \in Nat /\ Len(t) \in Nat
      /\ \A i \in 1..Len(s) : st[i] = s[i]
  BY ConcatProperties, LenProperties
<1>2. Alternates(st)
  OBVIOUS
<1> HIDE DEF st
<1>3. ASSUME NEW i \in 1..Len(s)
      PROVE  s[i].kind = "release" <=> i > 1 /\ s[i-1].kind = "press"
  <2>1. i \in 1..Len(st) /\ st[i] = s[i] /\ (i > 1 => st[i-1] = s[i-1])
    BY <1>1
  <2>2. QED
    BY <1>2, <2>1 DEF Alternates
<1>4. QED
  BY <1>3 DEF Alternates

\* toggleActive is the parity of what was decided on: a press only when the
\* last event was none, a release only when it was one.
LEMMA AlternatingInductive == IInv /\ [Next]_vars => Alternating'
<1> SUFFICES ASSUME IInv, [Next]_vars PROVE Alternating'
  OBVIOUS
<1>1. CASE Key \/ WindowEnds \/ Source \/ EndContext \/ Receive \/ UNCHANGED vars
  BY <1>1, OthersDecideNothing DEF IInv, Alternating
<1>2. ASSUME Watcher
      PROVE  mode' = mode
  BY <1>2, WatcherStampsNothing
<1>3. Decided \in Seq(Entry)
  BY Typed DEF IInv
<1>4. \A kind \in {"press", "release", "doubleTap"}, id \in 0..MaxPresses :
        Occurred(kind, id) \in Entry /\ Occurred(kind, id).kind = kind
  BY MaxPressesAssumption DEF Entry, Occurred
<1>5. pendingToggle \in 0..MaxPresses
  BY DEF IInv, TypeOK
<1>6. CASE WatcherPress
  <2> DEFINE press == Head(raw).id
  <2>1. mode' = mode /\ watcher = "select" /\ press \in 0..MaxPresses
    BY <1>2, <1>6, PressDecides DEF Watcher, IInv
  <2>2. mode = "toggle" => Alternates(Decided) /\ (toggleActive <=> EndsWithPress(Decided))
    BY <2>1 DEF IInv, Alternating
  <2> HIDE DEF press
  <2>3. CASE HoldPress(press)
    BY <2>1, <2>3 DEF HoldPress, Alternating
  <2>4. CASE ToggleOff(press) /\ Decided' = Decided \o <<Occurred("release", press)>>
    <3> DEFINE e == Occurred("release", press)
    <3>1. e \in Entry /\ e.kind = "release"
      BY <1>4, <2>1
    <3> HIDE DEF e
    <3>2. mode = "toggle" /\ toggleActive /\ toggleActive' = FALSE
      BY <2>4 DEF ToggleOff
    <3>3. Alternates(Decided \o <<e>>) /\ ~EndsWithPress(Decided \o <<e>>)
      BY <1>3, <2>2, <3>1, <3>2, AlternatesAppend
    <3>4. QED
      BY <2>1, <2>4, <3>2, <3>3 DEF Alternating, e
  <2>5. CASE ToggleDoubleTap(press) /\ Decided' = Decided \o <<Occurred("doubleTap", press)>>
    <3> DEFINE e == Occurred("doubleTap", press)
    <3>1. e \in Entry /\ e.kind = "doubleTap"
      BY <1>4, <2>1
    <3> HIDE DEF e
    <3>2. mode = "toggle" /\ ~toggleActive /\ toggleActive' = toggleActive
      BY <2>5 DEF ToggleDoubleTap
    <3>3. Alternates(Decided \o <<e>>) /\ ~EndsWithPress(Decided \o <<e>>)
      BY <1>3, <2>2, <3>1, <3>2, AlternatesAppend
    <3>4. QED
      BY <2>1, <2>5, <3>2, <3>3 DEF Alternating, e
  <2>6. CASE /\ ToggleLatePress(press)
             /\ Decided' = Decided \o <<Occurred("press", pendingToggle),
                                        Occurred("release", press)>>
    <3> DEFINE e == Occurred("press", pendingToggle)
               f == Occurred("release", press)
    <3>1. e \in Entry /\ e.kind = "press" /\ f \in Entry /\ f.kind = "release"
      BY <1>4, <1>5, <2>1
    <3>2. Decided' = Decided \o <<e, f>>
      BY <2>6
    <3> HIDE DEF e, f
    <3>3. mode = "toggle" /\ ~toggleActive /\ toggleActive' = FALSE
      BY <2>6 DEF ToggleLatePress
    <3> DEFINE one == Decided \o <<e>>
    <3>4. one \in Seq(Entry) /\ Alternates(one) /\ EndsWithPress(one)
      <4>1. <<e>> \in Seq(Entry)
        BY <3>1
      <4>2. one \in Seq(Entry)
        BY <1>3, <4>1, ConcatProperties
      <4>3. QED
        BY <1>3, <2>2, <3>1, <3>3, <4>2, AlternatesAppend
    <3>5. one \o <<f>> = Decided \o <<e, f>>
      <4> DEFINE first == <<e>>
                 second == <<f>>
      <4>1. first \in Seq(Entry) /\ second \in Seq(Entry)
        BY <3>1
      <4> DEFINE both == <<e, f>>
                 joined == first \o second
      <4>2. /\ both \in Seq(Entry) /\ Len(both) = 2 /\ both[1] = e /\ both[2] = f
            /\ Len(first) = 1 /\ Len(second) = 1 /\ first[1] = e /\ second[1] = f
        BY <3>1
      <4> HIDE DEF first, second
      <4>3. joined \in Seq(Entry) /\ Len(joined) = 2 /\ joined[1] = e /\ joined[1 + 1] = f
        BY <4>1, <4>2, ConcatProperties
      <4> HIDE DEF both, joined
      <4>4. joined = both
        BY <4>2, <4>3, SeqEqual
      <4>5. (Decided \o first) \o second = Decided \o (first \o second)
        BY <1>3, <4>1, ConcatAssociative
      <4>6. QED
        BY <4>4, <4>5 DEF first, second, both, joined
    <3> HIDE DEF one
    <3>6. Alternates(one \o <<f>>) /\ ~EndsWithPress(one \o <<f>>)
      BY <3>1, <3>4, AlternatesAppend
    <3>7. QED
      BY <2>1, <3>2, <3>3, <3>5, <3>6 DEF Alternating
  <2>7. CASE ToggleHoldBack(press) /\ Decided' = Decided
    BY <2>1, <2>2, <2>7 DEF ToggleHoldBack, Alternating
  <2>8. QED
    BY <1>6, <2>3, <2>4, <2>5, <2>6, <2>7, PressDecides DEF IInv, press
<1>7. CASE WatcherRelease
  <2>1. /\ mode' = mode /\ watcher = "select" /\ toggleActive' = toggleActive
        /\ mode = "toggle" => Decided' = Decided
    BY <1>2, <1>7, ReleaseDecides DEF Watcher, WatcherRelease, localVars, IInv
  <2>2. QED
    BY <2>1 DEF IInv, Alternating
<1>8. CASE TimerFires
  <2> DEFINE e == Occurred("press", pendingToggle)
  <2>1. /\ mode' = mode /\ watcher = "select" /\ mode = "toggle"
        /\ ~toggleActive /\ toggleActive' = TRUE /\ Decided' = Decided \o <<e>>
    BY <1>2, <1>8, TimerDecides DEF Watcher, TimerFires, IInv
  <2>2. e \in Entry /\ e.kind = "press"
    BY <1>4, <1>5
  <2> HIDE DEF e
  <2>3. Alternates(Decided) /\ ~EndsWithPress(Decided)
    BY <2>1 DEF IInv, Alternating
  <2>4. Alternates(Decided \o <<e>>) /\ EndsWithPress(Decided \o <<e>>)
    BY <1>3, <2>2, <2>3, AlternatesAppend
  <2>5. QED
    BY <2>1, <2>4 DEF Alternating
<1>9. CASE Emit
  <2>1. /\ mode' = mode /\ Decided' = Decided /\ watcher = "emit"
        /\ toggleActive' = toggleActive
    BY <1>2, <1>9, EmitDecidesNothing DEF Watcher, Emit, localVars, IInv
  <2>2. QED
    BY <2>1 DEF IInv, Alternating
<1>10. CASE WatcherExits
  <2>1. mode' = mode /\ watcher' = "done" /\ log' = log /\ outgoing' = <<>>
    BY <1>2, <1>10 DEF Watcher, WatcherExits, outVars
  <2>2. Decided' = log /\ log \in Seq(Entry) /\ outgoing \in Seq(Entry)
    BY <2>1, Typed, ConcatEmptySeq DEF Decided, IInv
  <2>3. mode = "toggle" => Alternates(log)
    BY <2>2, AlternatesPrefix DEF IInv, Alternating, Decided
  <2>4. QED
    BY <2>1, <2>2, <2>3 DEF Alternating
<1>11. QED
  BY <1>1, <1>6, <1>7, <1>8, <1>9, <1>10 DEF Next, Watcher

\* An event that the watcher decides on is about a press that was stamped; a
\* double tap is about a quick press, and in hold mode a plain press is not.
LEMMA WhatIsDecided ==
  ASSUME IInv, Watcher, NEW e \in ToSet(Decided')
  PROVE  \/ e \in ToSet(Decided)
         \/ /\ e.id <= stamped
            /\ e.kind = "doubleTap" => e.id \in quick
            /\ mode = "hold" /\ e.kind = "press" => e.id \notin quick
<1>1. Decided \in Seq(Entry)
  BY Typed DEF IInv
<1>2. pendingToggle \in 0..MaxPresses /\ pendingToggle <= stamped
  BY DEF IInv, TypeOK, Stamped
<1>3. \A kind \in {"press", "release", "doubleTap"}, id \in 0..MaxPresses :
        /\ Occurred(kind, id) \in Entry
        /\ Occurred(kind, id).kind = kind /\ Occurred(kind, id).id = id
  BY MaxPressesAssumption DEF Entry, Occurred
<1>4. ASSUME NEW f \in Entry, Decided' = Decided \o <<f>>
      PROVE  e \in ToSet(Decided) \/ e = f
  <2>1. <<f>> \in Seq(Entry)
    OBVIOUS
  <2>2. ToSet(<<f>>) = {f}
    BY ToSetFew, Zenon
  <2>3. ToSet(Decided') = ToSet(Decided) \cup {f}
    BY <1>1, <1>4, <2>1, <2>2, ToSetConcat
  <2>4. QED
    BY <2>3
<1>5. ASSUME raw # <<>>
      PROVE  Head(raw).id <= stamped
  <2>1. Head(raw) \in ToSet(raw)
    BY <1>5, Typed, ToSetHeadTail DEF IInv
  <2>2. QED
    BY <2>1 DEF IInv, Stamped
<1>6. CASE WatcherPress
  <2> DEFINE press == Head(raw).id
  <2>1. /\ watcher = "select" /\ raw # <<>> /\ Head(raw).kind = "down"
        /\ press \in 0..MaxPresses /\ press <= stamped
    BY <1>5, <1>6, PressDecides DEF IInv
  <2>2. press = Taken + 1
    BY <2>1, HeadIsNext DEF IInv
  <2> HIDE DEF press
  <2>3. CASE HoldPress(press) /\ Decided' = Decided \o <<Occurred(HoldKind(press), press)>>
    <3> DEFINE f == Occurred(HoldKind(press), press)
    <3>1. f \in Entry /\ f.kind = HoldKind(press) /\ f.id = press
      BY <1>3, <2>1 DEF HoldKind
    <3> HIDE DEF f
    <3>2. mode = "hold"
      BY <2>3 DEF HoldPress
    <3>3. lastPress = 0 => press \notin quick
      <4>1. pendingToggle = 0 /\ lastPress = End(Decided, 0)
        BY <2>1, <3>2 DEF IInv, Sending, Chained
      <4>2. lastPress = 0 => press = 1
        BY <2>2, <4>1 DEF Taken
      <4>3. 1 \notin quick
        BY DEF IInv, Stamped
      <4>4. QED
        BY <4>2, <4>3
    <3>4. /\ f.kind = "doubleTap" => f.id \in quick
          /\ f.kind = "press" => f.id \notin quick
      BY <3>1, <3>3 DEF HoldKind, IsDoubleTap
    <3>5. e \in ToSet(Decided) \/ e = f
      BY <1>4, <2>3, <3>1 DEF f
    <3>6. QED
      BY <2>1, <3>1, <3>4, <3>5
  <2>4. CASE ToggleOff(press) /\ Decided' = Decided \o <<Occurred("release", press)>>
    <3> DEFINE f == Occurred("release", press)
    <3>1. f \in Entry /\ f.kind = "release" /\ f.id = press
      BY <1>3, <2>1
    <3>2. e \in ToSet(Decided) \/ e = f
      BY <1>4, <2>4, <3>1
    <3> HIDE DEF f
    <3>3. QED
      BY <2>1, <3>1, <3>2
  <2>5. CASE ToggleDoubleTap(press) /\ Decided' = Decided \o <<Occurred("doubleTap", press)>>
    <3> DEFINE f == Occurred("doubleTap", press)
    <3>1. f \in Entry /\ f.kind = "doubleTap" /\ f.id = press
      BY <1>3, <2>1
    <3>2. e \in ToSet(Decided) \/ e = f
      BY <1>4, <2>5, <3>1
    <3> HIDE DEF f
    <3>3. press \in quick
      BY <2>5 DEF ToggleDoubleTap, IsDoubleTap
    <3>4. QED
      BY <2>1, <3>1, <3>2, <3>3
  <2>6. CASE /\ ToggleLatePress(press)
             /\ Decided' = Decided \o <<Occurred("press", pendingToggle),
                                        Occurred("release", press)>>
    <3> DEFINE f == Occurred("press", pendingToggle)
               g == Occurred("release", press)
    <3>1. /\ f \in Entry /\ f.kind = "press" /\ f.id = pendingToggle
          /\ g \in Entry /\ g.kind = "release" /\ g.id = press
      BY <1>2, <1>3, <2>1
    <3>2. Decided' = Decided \o <<f, g>> /\ mode = "toggle"
      BY <2>6 DEF ToggleLatePress
    <3> HIDE DEF f, g
    <3>3. <<f, g>> \in Seq(Entry)
      BY <3>1
    <3>4. ToSet(Decided') = ToSet(Decided) \cup {f, g}
      <4>1. ToSet(<<f, g>>) = {f, g}
        BY ToSetFew, Zenon
      <4>2. QED
        BY <1>1, <3>2, <3>3, <4>1, ToSetConcat
    <3>5. QED
      BY <1>2, <2>1, <3>1, <3>2, <3>4
  <2>7. CASE ToggleHoldBack(press) /\ Decided' = Decided
    BY <2>7
  <2>8. QED
    BY <1>6, <2>3, <2>4, <2>5, <2>6, <2>7, PressDecides DEF IInv, press
<1>7. CASE WatcherRelease
  <2> DEFINE f == Occurred("release", Head(raw).id)
  <2>1. /\ raw # <<>> /\ Head(raw).id \in 0..MaxPresses
        /\ Decided' = IF mode = "hold" THEN Decided \o <<f>> ELSE Decided
    BY <1>7, ReleaseDecides DEF IInv
  <2>2. f \in Entry /\ f.kind = "release" /\ f.id <= stamped
    BY <1>3, <1>5, <2>1
  <2> HIDE DEF f
  <2>3. e \in ToSet(Decided) \/ e = f
    BY <1>4, <2>1, <2>2
  <2>4. QED
    BY <2>2, <2>3
<1>8. CASE TimerFires
  <2> DEFINE f == Occurred("press", pendingToggle)
  <2>1. Decided' = Decided \o <<f>> /\ mode = "toggle"
    BY <1>8, TimerDecides DEF IInv
  <2>2. f \in Entry /\ f.kind = "press" /\ f.id <= stamped
    BY <1>2, <1>3
  <2> HIDE DEF f
  <2>3. e \in ToSet(Decided) \/ e = f
    BY <1>4, <2>1, <2>2
  <2>4. QED
    BY <2>1, <2>2, <2>3
<1>9. CASE Emit
  BY <1>9, EmitDecidesNothing DEF IInv
<1>10. CASE WatcherExits
  <2>1. log' = log /\ outgoing' = <<>>
    BY <1>10 DEF WatcherExits, outVars
  <2>2. Decided' = log /\ log \in Seq(Entry) /\ outgoing \in Seq(Entry)
    BY <2>1, Typed, ConcatEmptySeq DEF Decided, IInv
  <2>3. ToSet(Decided) = ToSet(log) \cup ToSet(outgoing)
    BY <2>2, ToSetConcat DEF Decided
  <2>4. QED
    BY <2>2, <2>3
<1>11. QED
  BY <1>6, <1>7, <1>8, <1>9, <1>10 DEF Watcher

\* Numbers are given out in order, and only to presses.
LEMMA StampedInductive == IInv /\ [Next]_vars => Stamped'
<1> SUFFICES ASSUME IInv, [Next]_vars PROVE Stamped'
  OBVIOUS
<1>1. /\ stamped \in Nat /\ pendingToggle \in Nat /\ pendingToggle <= stamped
      /\ quick \subseteq 2..stamped /\ (windowOpen => stamped # 0)
      /\ \A e \in ToSet(Decided) \cup ToSet(raw) \cup ToSet(held) : e.id <= stamped
  BY MaxPressesAssumption DEF IInv, TypeOK, Stamped
<1>2. \A e \in ToSet(Decided) \cup ToSet(raw) \cup ToSet(held) : e.id \in Nat
  <2>1. \A s \in Seq(Entry) : \A e \in ToSet(s) : e \in Entry
    BY LenProperties, ElementOfSeq DEF ToSet
  <2>2. Decided \in Seq(Entry) /\ raw \in Seq(Entry) /\ held \in Seq(Entry)
    BY Typed DEF IInv
  <2>3. QED
    BY <2>1, <2>2 DEF Entry
<1>3. CASE Key \/ EndContext \/ Receive \/ UNCHANGED vars
  <2>1. UNCHANGED <<stamped, windowOpen, quick, raw, held>>
    BY <1>3 DEF Key, KeyDown, KeyUp, EndContext, Receive, vars, stampVars, sourceVars
  <2>2. Decided' = Decided /\ pendingToggle' = pendingToggle
    BY <1>3, OthersDecideNothing
  <2>3. QED
    BY <1>1, <2>1, <2>2 DEF Stamped
<1>4. CASE WindowEnds
  <2>1. UNCHANGED <<stamped, quick, raw, held>> /\ windowOpen' = FALSE
    BY <1>4 DEF WindowEnds, sourceVars
  <2>2. Decided' = Decided /\ pendingToggle' = pendingToggle
    BY <1>4, OthersDecideNothing
  <2>3. QED
    BY <1>1, <2>1, <2>2 DEF Stamped
<1>5. CASE SourcePress
  <2> DEFINE f == Occurred("down", stamped + 1)
  <2>1. /\ stamped' = stamped + 1 /\ raw' = raw /\ held' = <<f>> /\ f.id = stamped + 1
        /\ quick' = IF windowOpen THEN quick \cup {stamped + 1} ELSE quick
    BY <1>5 DEF SourcePress, Occurred
  <2>2. Decided' = Decided /\ pendingToggle' = pendingToggle
    BY <1>5, OthersDecideNothing DEF Source
  <2> HIDE DEF f
  <2>3. ToSet(held') = {f}
    BY <2>1, ToSetFew
  <2>4. \A e \in ToSet(Decided') \cup ToSet(raw') \cup ToSet(held') : e.id <= stamped'
    BY <1>1, <1>2, <2>1, <2>2, <2>3
  <2>5. quick' \subseteq 2..stamped'
    BY <1>1, <2>1
  <2>6. QED
    BY <1>1, <2>1, <2>2, <2>4, <2>5 DEF Stamped
<1>6. CASE SourceRelease
  <2> DEFINE f == Occurred("up", stamped)
  <2>1. UNCHANGED <<stamped, windowOpen, quick, raw>> /\ held' = <<f>> /\ f.id = stamped
    BY <1>6 DEF SourceRelease, Occurred, stampVars
  <2>2. Decided' = Decided /\ pendingToggle' = pendingToggle
    BY <1>6, OthersDecideNothing DEF Source
  <2> HIDE DEF f
  <2>3. ToSet(held') = {f}
    BY <2>1, ToSetFew
  <2>4. QED
    BY <1>1, <2>1, <2>2, <2>3 DEF Stamped
<1>7. CASE SourceEmit
  <2>1. UNCHANGED <<stamped, windowOpen, quick>> /\ held' = <<>> /\ raw' = raw \o held
    BY <1>7 DEF SourceEmit, stampVars
  <2>2. Decided' = Decided /\ pendingToggle' = pendingToggle
    BY <1>7, OthersDecideNothing DEF Source
  <2>3. ToSet(held') = {} /\ ToSet(raw') = ToSet(raw) \cup ToSet(held)
    BY <2>1, ToSetFew, ToSetConcat, Typed DEF IInv
  <2>4. QED
    BY <1>1, <2>1, <2>2, <2>3 DEF Stamped
<1>8. CASE SourceExits
  <2>1. UNCHANGED <<stamped, windowOpen, quick, raw>> /\ held' = <<>>
    BY <1>8 DEF SourceExits, stampVars
  <2>2. Decided' = Decided /\ pendingToggle' = pendingToggle
    BY <1>8, OthersDecideNothing DEF Source
  <2>3. ToSet(held') = {}
    BY <2>1, ToSetFew
  <2>4. QED
    BY <1>1, <2>1, <2>2, <2>3 DEF Stamped
<1>9. CASE Watcher
  <2>1. UNCHANGED <<stamped, windowOpen, quick, held>>
    BY <1>9, WatcherStampsNothing
  <2>2. \A e \in ToSet(Decided') : e.id <= stamped
    BY <1>1, <1>9, WhatIsDecided
  <2>3. /\ ToSet(raw') \subseteq ToSet(raw)
        /\ pendingToggle' = 0 \/ pendingToggle' = pendingToggle
              \/ \E f \in ToSet(raw) : pendingToggle' = f.id
    <3>1. CASE raw' = raw /\ (pendingToggle' = 0 \/ pendingToggle' = pendingToggle)
      BY <3>1
    <3>2. CASE WatcherPress \/ WatcherRelease
      <4>1. raw # <<>> /\ raw' = Tail(raw)
        BY <3>2 DEF WatcherPress, WatcherRelease
      <4>2. ToSet(raw) = {Head(raw)} \cup ToSet(raw')
        BY <4>1, Typed, ToSetHeadTail DEF IInv
      <4>3. pendingToggle' = 0 \/ pendingToggle' = pendingToggle
               \/ pendingToggle' = Head(raw).id
        BY <3>2 DEF WatcherPress, WatcherRelease, HoldPress, ToggleOff, ToggleDoubleTap,
           ToggleLatePress, ToggleHoldBack, localVars
      <4>4. QED
        BY <4>2, <4>3
    <3>3. CASE TimerFires \/ Emit \/ WatcherExits
      BY <3>1, <3>3 DEF TimerFires, Emit, WatcherExits, localVars
    <3>4. QED
      BY <1>9, <3>2, <3>3 DEF Watcher
  <2>4. pendingToggle' <= stamped
    BY <1>1, <2>3
  <2>5. QED
    BY <1>1, <2>1, <2>2, <2>3, <2>4 DEF Stamped
<1>10. QED
  BY <1>3, <1>4, <1>5, <1>6, <1>7, <1>8, <1>9 DEF Next, Source

\* A press that becomes quick is newer than everything decided on.
LEMMA TapsRightInductive == IInv /\ [Next]_vars => TapsRight'
<1> SUFFICES ASSUME IInv, [Next]_vars PROVE TapsRight'
  OBVIOUS
<1>1. CASE Watcher
  <2>1. UNCHANGED <<mode, quick>>
    BY <1>1, WatcherStampsNothing
  <2>2. QED
    BY <1>1, <2>1, WhatIsDecided DEF IInv, TapsRight
<1>2. CASE Key \/ WindowEnds \/ Source \/ EndContext \/ Receive \/ UNCHANGED vars
  <2>1. Decided' = Decided /\ mode' = mode
    BY <1>2, OthersDecideNothing
  <2>2. quick \subseteq quick' /\ quick' \subseteq quick \cup {stamped + 1}
    BY <1>2 DEF Key, KeyDown, KeyUp, WindowEnds, Source, SourcePress, SourceRelease,
       SourceEmit, SourceExits, EndContext, Receive, vars, stampVars
  <2>3. \A e \in ToSet(Decided) : e.id # stamped + 1
    <3>1. stamped \in Nat /\ \A e \in ToSet(Decided) : e.id <= stamped
      BY MaxPressesAssumption DEF IInv, TypeOK, Stamped
    <3>2. QED
      BY <3>1
  <2>4. QED
    BY <2>1, <2>2, <2>3 DEF IInv, TapsRight
<1>3. QED
  BY <1>1, <1>2 DEF Next

\* Nothing is pressed, sent or held back at the beginning.
LEMMA InitIInv == Init => IInv
<1> SUFFICES ASSUME Init PROVE IInv
  OBVIOUS
<1> USE DEF Init
<1>1. Decided = <<>> /\ Taken = 0
  <2>1. Decided = <<>>
    BY DEF Decided
  <2>2. QED
    BY <2>1 DEF Taken, End
<1>2. TypeOK
  <2>1. 0 \in 0..MaxPresses
    BY MaxPressesAssumption
  <2>2. <<>> \in Seq(RawEvent) /\ <<>> \in Seq(Event) /\ Len(<<>>) = 0
    OBVIOUS
  <2>3. QED
    <3>1. /\ Events <= EventCap /\ received \in 0..Len(log) /\ Len(raw) <= SourceCap
          /\ Len(held) <= 1 /\ Len(outgoing) <= 2
      BY <2>2, CapAssumption DEF Events
    <3>2. held \in Seq(RawEvent) /\ raw \in Seq(RawEvent)
      BY <2>2
    <3>3. outgoing \in Seq(Event) /\ log \in Seq(Event)
      BY <2>2
    <3>4. QED
      BY <2>1, <3>1, <3>2, <3>3 DEF TypeOK
<1>3. Counted /\ Sending
  BY MaxPressesAssumption DEF Counted, Sending
<1>4. Stamped /\ TapsRight
  <2>1. ToSet(Decided) = {} /\ ToSet(raw) = {} /\ ToSet(held) = {}
    BY <1>1, ToSetFew
  <2>2. QED
    BY <2>1 DEF Stamped, TapsRight
<1>5. Chained
  <2>1. End(Decided, 0) = 0 /\ End(raw, 0) = 0 /\ End(held, 0) = 0
    BY <1>1 DEF End
  <2>2. QED
    BY <1>1, <2>1, ChainEmpty DEF Chained
<1>6. Alternating
  BY <1>1 DEF Alternating, Alternates, EndsWithPress
<1>7. QED
  BY <1>2, <1>3, <1>4, <1>5, <1>6 DEF IInv

-----------------------------------------------------------------------------
(* Theorems                                                                *)

\* The invariant holds of every behaviour of the source and the watcher, for
\* every number of presses and every capacity of the two channels.
THEOREM Invariance == Spec => []IInv
<1>1. IInv /\ [Next]_vars => IInv'
  BY TypeInductive, CountedInductive, SendingInductive, StampedInductive, ChainedInductive,
     AlternatingInductive, TapsRightInductive DEF IInv
<1>2. QED
  BY InitIInv, <1>1, PTL DEF Spec

\* Every variable has its type; in particular neither channel holds more than
\* its capacity (TriggerWatcher.emit, trigger.go 292-299; emitSourceEvent,
\* hotkey_x11.go).
THEOREM TypeCorrect == Spec => []TypeOK
<1>1. IInv => TypeOK
  BY DEF IInv
<1>2. QED
  BY Invariance, <1>1, PTL

\* What is still to be answered, with the press that is held back.
LEMMA PipelineChain ==
  ASSUME IInv, source # "done", watcher # "done"
  PROVE  Pipeline \in Seq(Entry) /\ Chain(mode, Pipeline, 0) /\ stamped = End(Pipeline, 0)
<1> DEFINE middle == IF pendingToggle = 0 THEN <<>> ELSE <<Occurred("down", pendingToggle)>>
<1>1. /\ Decided \in Seq(Entry) /\ raw \in Seq(Entry) /\ held \in Seq(Entry)
      /\ End(Decided, 0) \in Nat /\ Taken \in Nat
  BY Typed DEF IInv
<1>2. /\ Chain(mode, Decided, 0) /\ Chain(mode, raw, Taken)
      /\ Chain(mode, held, End(raw, Taken)) /\ stamped = End(held, End(raw, Taken))
  BY DEF IInv, Chained
<1>3. /\ middle \in Seq(Entry) /\ Chain(mode, middle, End(Decided, 0))
      /\ End(middle, End(Decided, 0)) = Taken
  <2>1. CASE pendingToggle = 0
    BY <2>1, ChainEmpty DEF Taken
  <2>2. CASE pendingToggle # 0
    <3> DEFINE e == Occurred("down", pendingToggle)
    <3>1. e \in Entry /\ e.kind = "down" /\ e.id = pendingToggle /\ middle = <<e>>
      BY <2>2, MaxPressesAssumption DEF Occurred, Entry, IInv, TypeOK
    <3> HIDE DEF e, middle
    <3>2. e.id = End(Decided, 0) + Weight(mode, e)
      BY <2>2, <3>1 DEF Weight, IInv, Chained
    <3>3. QED
      BY <1>1, <2>2, <3>1, <3>2, ChainOne DEF Taken
  <2>3. QED
    BY <2>1, <2>2
<1> HIDE DEF middle
<1>4. /\ Decided \o middle \in Seq(Entry) /\ Chain(mode, Decided \o middle, 0)
      /\ End(Decided \o middle, 0) = Taken
  BY <1>1, <1>2, <1>3, ChainConcat, ConcatProperties
<1> DEFINE taken == Decided \o middle
<1> HIDE DEF taken
<1>5. taken \in Seq(Entry) /\ Chain(mode, taken, 0) /\ End(taken, 0) = Taken
  BY <1>4 DEF taken
<1>6. /\ taken \o raw \in Seq(Entry) /\ Chain(mode, taken \o raw, 0)
      /\ End(taken \o raw, 0) = End(raw, Taken)
  BY <1>1, <1>2, <1>5, ChainConcat, ConcatProperties
<1> DEFINE queued == taken \o raw
<1> HIDE DEF queued
<1>7. /\ queued \in Seq(Entry) /\ Chain(mode, queued, 0)
      /\ End(queued, 0) = End(raw, Taken)
  BY <1>6 DEF queued
<1>8. /\ queued \o held \in Seq(Entry) /\ Chain(mode, queued \o held, 0)
      /\ End(queued \o held, 0) = stamped
  BY <1>1, <1>2, <1>7, ChainConcat, ConcatProperties
<1>9. Pipeline = queued \o held
  BY DEF Pipeline, queued, taken, middle
<1>10. QED
  BY <1>8, <1>9

\* Every press is answered once and in order, and none is lost on the way,
\* however long the key is pressed and however full the channels are
\* (trigger.go 188-290, hotkey_x11.go 126-163).
THEOREM PressesCounted == Spec => []EveryPressCounts
<1>1. \A s : Chain(mode, s, 0) => Consecutive(s)
  BY AnswersIsWeight DEF Chain, Consecutive
<1>2. IInv => EveryPressCounts
  <2> SUFFICES ASSUME IInv PROVE EveryPressCounts
    OBVIOUS
  <2>1. Consecutive(log)
    BY <1>1 DEF IInv, Chained
  <2>2. ASSUME source # "done", watcher # "done"
        PROVE  /\ Consecutive(Pipeline)
               /\ stamped = IF Pipeline = <<>> THEN 0 ELSE Last(Pipeline).id
    BY <1>1, <2>2, PipelineChain DEF End, Last
  <2>3. QED
    BY <2>1, <2>2 DEF EveryPressCounts
<1>3. QED
  BY Invariance, <1>2, PTL

\* In toggle mode the watcher's events alternate: a release comes right after a
\* press, and nothing else does (trigger.go 209-253).
THEOREM Alternation == Spec => []ToggleAlternates
<1>1. IInv => ToggleAlternates
  BY DEF IInv, Alternating, Alternates, ToggleAlternates
<1>2. QED
  BY Invariance, <1>1, PTL

\* Exactly the quick presses are double taps in hold mode, and only quick ones
\* in toggle mode (isDoubleTap, trigger.go 301-307).
THEOREM QuickDoubleTaps == Spec => []DoubleTapIsQuick
<1>1. IInv => DoubleTapIsQuick
  <2> SUFFICES ASSUME IInv, NEW i \in 1..Len(Decided)
               PROVE  /\ Decided[i].kind = "doubleTap" => Decided[i].id \in quick
                      /\ mode = "hold" /\ Decided[i].kind = "press"
                            => Decided[i].id \notin quick
    BY DEF DoubleTapIsQuick
  <2>1. Decided[i] \in ToSet(Decided)
    BY Typed, LenProperties DEF ToSet, IInv
  <2>2. QED
    BY <2>1 DEF IInv, TapsRight
<1>2. QED
  BY Invariance, <1>1, PTL

=============================================================================
