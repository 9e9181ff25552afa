--------------------------- MODULE EventBusProofs ---------------------------
(***************************************************************************)
(* Theorems about EventBus, for every set of publishers and clients and    *)
(* every size and bound.                                                   *)
(***************************************************************************)
EXTENDS EventBus, SequenceTheorems, FiniteSetTheorems, TLAPS

-----------------------------------------------------------------------------
\* Facts about the sequences.

\* A function on 1 .. n is a sequence of length n.
LEMMA FunctionIsSeq ==
    ASSUME NEW S, NEW n \in Nat, NEW f \in [1 .. n -> S]
    PROVE  f \in Seq(S) /\ Len(f) = n /\ DOMAIN f = 1 .. n
<1>1. f \in Seq(S)
  BY SeqDef
<1>2. Len(f) \in Nat /\ DOMAIN f = 1 .. Len(f)
  BY <1>1, LenProperties
<1>3. 1 .. n = 1 .. Len(f)
  BY <1>2
<1>4. Len(f) = n
  BY <1>2, <1>3
<1> QED
  BY <1>1, <1>2, <1>4

\* The ring after a Publish: the new event on top, what was there below it.
LEMMA PushedType ==
    ASSUME NEW S, NEW e \in S, NEW h \in Seq(S), Len(h) <= MaxHistory
    PROVE  /\ Pushed(e, h) \in Seq(S)
           /\ Len(Pushed(e, h)) <= MaxHistory
           /\ DOMAIN Pushed(e, h) = 1 .. Len(Pushed(e, h))
           /\ Len(Pushed(e, h)) - 1 <= Len(h)
           /\ \A i \in DOMAIN Pushed(e, h) :
                 Pushed(e, h)[i] = IF i = 1 THEN e ELSE h[i - 1]
<1> DEFINE n == IF Len(h) < MaxHistory THEN Len(h) + 1 ELSE MaxHistory
<1>1. /\ n \in Nat /\ n <= MaxHistory /\ n - 1 <= Len(h)
      /\ \A i \in 1 .. n : i # 1 => i - 1 \in 1 .. Len(h)
  BY SizesAssumption, LenProperties
<1>2. Pushed(e, h) \in [1 .. n -> S]
  BY <1>1, ElementOfSeq DEF Pushed
<1>3. \A i \in 1 .. n : Pushed(e, h)[i] = IF i = 1 THEN e ELSE h[i - 1]
  BY DEF Pushed
<1> HIDE DEF n
<1> QED
  BY <1>1, <1>2, <1>3, FunctionIsSeq

\* Appending adds one element to those of a sequence.
LEMMA AppendElements ==
    ASSUME NEW S, NEW s \in Seq(S), NEW e \in S
    PROVE  /\ Append(s, e) \in Seq(S)
           /\ Len(Append(s, e)) = Len(s) + 1
           /\ DOMAIN Append(s, e) = DOMAIN s \cup {Len(s) + 1}
           /\ Append(s, e)[Len(s) + 1] = e
           /\ \A i \in DOMAIN s : Append(s, e)[i] = s[i]
           /\ {Append(s, e)[i] : i \in DOMAIN Append(s, e)}
                 = {s[i] : i \in DOMAIN s} \cup {e}
<1>1. /\ Append(s, e) \in Seq(S)
      /\ Len(Append(s, e)) = Len(s) + 1
      /\ Append(s, e)[Len(s) + 1] = e
      /\ \A i \in 1 .. Len(s) : Append(s, e)[i] = s[i]
  BY AppendProperties
<1>2. /\ Len(s) \in Nat /\ DOMAIN s = 1 .. Len(s)
      /\ DOMAIN Append(s, e) = 1 .. Len(s) + 1
  BY <1>1, LenProperties
<1>3. DOMAIN Append(s, e) = DOMAIN s \cup {Len(s) + 1}
  BY <1>2
<1> QED
  BY <1>1, <1>2, <1>3

\* What two sequences one after the other hold, and where.
LEMMA ConcatElements ==
    ASSUME NEW S, NEW s \in Seq(S), NEW t \in Seq(S)
    PROVE  /\ s \o t \in Seq(S)
           /\ Len(s \o t) = Len(s) + Len(t)
           /\ DOMAIN (s \o t) = 1 .. Len(s) + Len(t)
           /\ \A i \in 1 .. Len(s) + Len(t) :
                 (s \o t)[i] = IF i <= Len(s) THEN s[i] ELSE t[i - Len(s)]
<1>1. /\ s \o t \in Seq(S)
      /\ Len(s \o t) = Len(s) + Len(t)
      /\ \A i \in 1 .. Len(s) + Len(t) :
            (s \o t)[i] = IF i <= Len(s) THEN s[i] ELSE t[i - Len(s)]
  BY ConcatProperties
<1>2. DOMAIN (s \o t) = 1 .. Len(s \o t)
  BY <1>1, LenProperties
<1> QED
  BY <1>1, <1>2

\* Appending to the second of two sequences appends to both.
LEMMA AppendToConcat ==
    ASSUME NEW S, NEW s \in Seq(S), NEW t \in Seq(S), NEW e \in S
    PROVE  s \o Append(t, e) = Append(s \o t, e)
<1> DEFINE last == <<e>>
<1>1. last \in Seq(S) /\ s \o t \in Seq(S)
  BY ConcatElements
<1>2. Append(t, e) = t \o last /\ Append(s \o t, e) = (s \o t) \o last
  BY <1>1, AppendIsConcat
<1> HIDE DEF last
<1>3. s \o (t \o last) = (s \o t) \o last
  BY <1>1, ConcatAssociative
<1> QED
  BY <1>2, <1>3

\* Moving the head of the second to the end of the first changes nothing.
LEMMA HeadMovesOver ==
    ASSUME NEW S, NEW s \in Seq(S), NEW t \in Seq(S), t # <<>>
    PROVE  Append(s, Head(t)) \o Tail(t) = s \o t
<1> DEFINE n == Len(t)
           first == <<t[1]>>
           rest == Tail(t)
<1>1. n \in Nat \ {0} /\ 1 \in 1 .. n /\ n \in 1 .. n
  BY EmptySeq
<1>2. Head(t) \in S /\ Head(t) = t[1] /\ rest \in Seq(S)
  BY HeadTailProperties
<1>3. SubSeq(t, 1, n) = t /\ rest = SubSeq(t, 2, n)
  BY SubSeqFull, TailIsSubSeq
<1>4. SubSeq(t, 1, n) = <<t[1]>> \o SubSeq(t, 1 + 1, n)
  BY <1>1, SubSeqRecursiveFirst
<1>5. first \in Seq(S) /\ Append(s, Head(t)) = s \o first
  <2>1. t[1] \in S
    BY <1>2
  <2> QED
    BY <1>2, <2>1, AppendIsConcat
<1>6. t = first \o rest
  BY <1>3, <1>4
<1> HIDE DEF n, first, rest
<1>7. (s \o first) \o rest = s \o (first \o rest)
  BY <1>2, <1>5, ConcatAssociative
<1> QED
  BY <1>5, <1>6, <1>7 DEF rest

-----------------------------------------------------------------------------
\* Type correctness.

\* The initial values have their types.
LEMMA InitTypeOK == Init => TypeOK
<1> SUFFICES ASSUME Init PROVE TypeOK
  OBVIOUS
<1>1. \A S : <<>> \in Seq(S) /\ Len(<<>>) = 0
  BY EmptySeq
<1>2. PICK u \in Urls \cup {Off} : webhook = Str(u)
  BY DEF Init
<1>3. webhook \in [ptr : Urls \cup {Off}, len : Urls \cup {Off}]
  BY <1>2 DEF Str
<1> QED
  BY <1>1, <1>3, SizesAssumption DEF Init, TypeOK, Stages, Events, None

\* What a step of Publish does to the goroutine's stage is well typed.
LEMMA AdvanceType ==
    ASSUME TypeOK, NEW p \in Publishers, NEW from, NEW to \in Stages,
           Advance(p, from, to)
    PROVE  /\ stage[p] = from /\ stage' \in [Publishers -> Stages]
           /\ stage'[p] = to
           /\ \A q \in Publishers \ {p} : stage'[q] = stage[q]
BY DEF Advance, TypeOK

\* Every step of a Publish keeps the types, given that whoever is inside one
\* holds an event.
LEMMA PublishTypeOK ==
    ASSUME TypeOK, NEW p \in Publishers, Publish(p),
           stage[p] # "idle" => holding[p] \in Events
    PROVE  TypeOK'
<1>1. CASE Stamp(p)
  <2>1. stage' \in [Publishers -> Stages]
    BY <1>1, AdvanceType DEF Stamp, Stages
  <2>2. created' \in 1 .. MaxEvents /\ holding'= [holding EXCEPT ![p] = created']
    BY <1>1, SizesAssumption DEF Stamp, TypeOK
  <2>3. holding' \in [Publishers -> Events \cup {None}]
    BY <2>2 DEF TypeOK, Events
  <2> QED
    BY <1>1, <2>1, <2>2, <2>3 DEF Stamp, TypeOK, hook, stream
<1>2. CASE Record(p)
  <2>1. stage[p] = "made" /\ stage' \in [Publishers -> Stages]
    BY <1>2, AdvanceType DEF Record, Stages
  <2>2. holding[p] \in Events
    BY <2>1
  <2>3. history' \in Seq(Events) /\ Len(history') <= MaxHistory
    BY <1>2, <2>2, PushedType DEF Record, TypeOK
  <2>4. order' \in Seq(Events)
    BY <1>2, <2>2, AppendElements DEF Record, TypeOK
  <2>5. \A c \in Clients : /\ chan'[c] \in Seq(Events) /\ Len(chan'[c]) <= Cap
    <3> TAKE c \in Clients
    <3>1. chan[c] \in Seq(Events) /\ Len(chan[c]) \in Nat /\ Len(chan[c]) <= Cap
      BY LenProperties DEF TypeOK
    <3>2. chan'[c] = IF c \in subs /\ Accepts(c) THEN Append(chan[c], holding[p])
                                                 ELSE chan[c]
      BY <1>2 DEF Record
    <3>3. CASE c \in subs /\ Accepts(c)
      BY <2>2, <3>1, <3>2, <3>3, AppendElements, SizesAssumption DEF Accepts
    <3> QED
      BY <3>1, <3>2, <3>3
  <2>6. chan' \in [Clients -> Seq(Events)]
    BY <1>2, <2>5 DEF Record
  <2>7. lagged' \in [Clients -> BOOLEAN]
    BY <1>2 DEF Record
  <2> QED
    BY <1>2, <2>1, <2>3, <2>4, <2>5, <2>6, <2>7 DEF Record, TypeOK, hook, bounds
<1>3. CASE Store(p)
  <2>1. stage[p] = "recorded" /\ stage' \in [Publishers -> Stages]
    BY <1>3, AdvanceType DEF Store, Stages
  <2>2. \A cut \in Cuts : [event |-> holding[p], cut |-> cut] \in [event : Events, cut : Cuts]
    BY <2>1
  <2>3. file' \in Seq([event : Events, cut : Cuts])
    <3>1. CASE file' = file
      BY <3>1 DEF TypeOK
    <3>2. CASE \E cut \in Cuts : file' = Append(file, [event |-> holding[p], cut |-> cut])
      BY <2>2, <3>2, AppendElements DEF TypeOK
    <3> QED
      BY <1>3, <3>1, <3>2 DEF Store, Cuts
  <2>4. faults' \in 0 .. MaxFaults
    BY <1>3, SizesAssumption DEF Store, TypeOK
  <2> QED
    BY <1>3, <2>1, <2>3, <2>4 DEF Store, TypeOK, hook, stream
<1>4. CASE CheckWebhook(p)
  <2>1. /\ stage' \in [Publishers -> Stages]
        /\ holding' \in [Publishers -> Events \cup {None}]
    BY <1>4 DEF CheckWebhook, TypeOK, Stages
  <2> QED
    BY <1>4, <2>1 DEF CheckWebhook, TypeOK, hook, stream, bounds
<1>5. CASE PostWebhook(p)
  <2>1. stage' \in [Publishers -> Stages]
    BY <1>5, AdvanceType DEF PostWebhook, Stages
  <2>2. holding' \in [Publishers -> Events \cup {None}]
    BY <1>5 DEF PostWebhook, TypeOK
  <2>3. posted' \subseteq [ptr : Urls \cup {Off}, len : Urls]
    <3>1. webhook.len # Off => webhook \in [ptr : Urls \cup {Off}, len : Urls]
      BY DEF TypeOK
    <3> QED
      BY <1>5, <3>1 DEF PostWebhook, TypeOK
  <2> QED
    BY <1>5, <2>1, <2>2, <2>3 DEF PostWebhook, TypeOK, stream, bounds
<1> QED
  BY <1>1, <1>2, <1>3, <1>4, <1>5 DEF Publish

\* A restart reloads a list of events that fits in the ring.
LEMMA RestartTypeOK == TypeOK /\ Restart => TypeOK'
<1> SUFFICES ASSUME TypeOK, Restart PROVE TypeOK'
  OBVIOUS
<1>1. PICK n \in 0 .. MaxHistory :
        \E h \in [1 .. n -> {file[i].event : i \in DOMAIN file}] : history' = h
  BY DEF Restart
<1>2. PICK h \in [1 .. n -> {file[i].event : i \in DOMAIN file}] : history' = h
  BY <1>1
<1>3. {file[i].event : i \in DOMAIN file} \subseteq Events
  <2>1. DOMAIN file = 1 .. Len(file)
    BY LenProperties DEF TypeOK
  <2>2. \A i \in DOMAIN file : file[i] \in [event : Events, cut : Cuts]
    BY <2>1, ElementOfSeq DEF TypeOK
  <2> QED
    BY <2>2
<1>4. n \in Nat /\ n <= MaxHistory /\ h \in [1 .. n -> Events]
  BY <1>3, SizesAssumption
<1>5. history' \in Seq(Events) /\ Len(history') <= MaxHistory
  BY <1>2, <1>4, FunctionIsSeq
<1>6. PICK u \in Urls \cup {Off} : webhook' = Str(u)
  BY DEF Restart
<1>7. webhook' \in [ptr : Urls \cup {Off}, len : Urls \cup {Off}]
  BY <1>6 DEF Str
<1>8. \A S : <<>> \in Seq(S) /\ Len(<<>>) = 0
  BY EmptySeq
<1>9. restarts' \in 0 .. MaxRestarts
  BY SizesAssumption DEF Restart, TypeOK
<1>10. /\ chan' \in [Clients -> Seq(Events)]
       /\ \A c \in Clients : Len(chan'[c]) <= Cap
  BY <1>8, SizesAssumption DEF Restart
<1>11. /\ stage' \in [Publishers -> Stages]
       /\ holding' \in [Publishers -> Events \cup {None}]
  BY DEF Restart, Stages
<1>12. subs' \subseteq Clients /\ writing' \in Urls \cup {Off, None}
  BY DEF Restart
<1> QED
  BY <1>5, <1>7, <1>9, <1>10, <1>11, <1>12 DEF Restart, TypeOK, stream

\* The steps of clients and of SetWebhookURL keep the types.
LEMMA OtherTypeOK ==
    ASSUME TypeOK,
           \/ \E u \in Urls \cup {Off} : SetWebhookBegin(u)
           \/ SetWebhookEnd
           \/ \E c \in Clients : Subscribe(c) \/ Receive(c) \/ Cancel(c)
    PROVE  TypeOK'
<1>1. ASSUME NEW u \in Urls \cup {Off}, SetWebhookBegin(u)
      PROVE  TypeOK'
  BY <1>1 DEF SetWebhookBegin, TypeOK, memory, bounds, stream
<1>2. CASE SetWebhookEnd
  <2>1. writing \in Urls \cup {Off}
    BY <1>2 DEF SetWebhookEnd, Unlocked, TypeOK
  <2> QED
    BY <1>2, <2>1 DEF SetWebhookEnd, Str, TypeOK, memory, bounds, stream
<1>3. ASSUME NEW c \in Clients, Subscribe(c)
      PROVE  TypeOK'
  <2>1. <<>> \in Seq(Events) /\ Len(<<>>) = 0 /\ Len(order) \in Nat
    BY EmptySeq, LenProperties DEF TypeOK
  <2> QED
    BY <1>3, <2>1, SizesAssumption DEF Subscribe, TypeOK, hook, bounds
<1>4. ASSUME NEW c \in Clients, Receive(c)
      PROVE  TypeOK'
  <2>1. chan[c] \in Seq(Events) /\ chan[c] # <<>> /\ Len(chan[c]) <= Cap
    BY <1>4 DEF Receive, TypeOK
  <2>2. /\ Head(chan[c]) \in Events /\ Tail(chan[c]) \in Seq(Events)
        /\ Len(Tail(chan[c])) <= Cap
    BY <2>1, HeadTailProperties, LenProperties, SizesAssumption
  <2>3. Append(wire[c], Head(chan[c])) \in Seq(Events)
    BY <2>2, AppendElements DEF TypeOK
  <2>4. chan' = [chan EXCEPT ![c] = Tail(chan[c])]
    BY <1>4 DEF Receive
  <2>5. chan' \in [Clients -> Seq(Events)] /\ \A d \in Clients : Len(chan'[d]) <= Cap
    BY <2>2, <2>4 DEF TypeOK
  <2>6. wire' \in [Clients -> Seq(Events)]
    BY <1>4, <2>3 DEF Receive, TypeOK
  <2> QED
    BY <1>4, <2>5, <2>6 DEF Receive, TypeOK, hook, bounds
<1>5. ASSUME NEW c \in Clients, Cancel(c)
      PROVE  TypeOK'
  <2>1. <<>> \in Seq(Events) /\ Len(<<>>) = 0
    BY EmptySeq
  <2> QED
    BY <1>5, <2>1, SizesAssumption DEF Cancel, TypeOK, hook, bounds, stream
<1> QED
  BY <1>1, <1>2, <1>3, <1>4, <1>5

-----------------------------------------------------------------------------
\* The inductive invariant.

Recorded == {order[i] : i \in DOMAIN order}

Filed == {file[i].event : i \in DOMAIN file}

\* A goroutine inside Publish holds an event that was created, and no other
\* goroutine holds it.
Holders ==
    /\ \A p \in Publishers :
          stage[p] # "idle" => holding[p] \in Events /\ holding[p] <= created
    /\ \A p, q \in Publishers :
          stage[p] # "idle" /\ stage[q] # "idle" /\ holding[p] = holding[q] => p = q

\* An event is recorded when its goroutine leaves the critical section.
Recordings ==
    /\ \A e \in Recorded : e <= created
    /\ \A p \in Publishers : stage[p] = "made" => holding[p] \notin Recorded
    /\ \A p \in Publishers : stage[p] = "recorded" => holding[p] \in Recorded

\* An event is written after it was recorded, and once.
Filings ==
    /\ Filed \subseteq Recorded
    /\ \A i, j \in DOMAIN file : file[i].event = file[j].event => i = j
    /\ \A p \in Publishers : stage[p] = "recorded" => holding[p] \notin Filed

\* The ring shows recorded events, each once.
Listing ==
    /\ \A i \in DOMAIN history : history[i] \in Recorded
    /\ NoRepeats

BusInv == TypeOK /\ Holders /\ Recordings /\ Filings /\ Listing

-----------------------------------------------------------------------------
\* The invariant is inductive.

\* It holds initially.
LEMMA InitBusInv == Init => BusInv
<1> SUFFICES ASSUME Init PROVE BusInv
  OBVIOUS
<1>1. TypeOK
  BY InitTypeOK
<1>2. DOMAIN history = {} /\ DOMAIN file = {} /\ DOMAIN order = {}
  BY DEF Init
<1>3. \A p \in Publishers : stage[p] = "idle"
  BY DEF Init
<1> QED
  BY <1>1, <1>2, <1>3
  DEF BusInv, Holders, Recordings, Filings, Listing, NoRepeats, Recorded, Filed

\* Stamp hands out a number that nobody holds and that was not recorded.
LEMMA StampStep ==
    ASSUME BusInv, TypeOK', NEW p \in Publishers, Stamp(p)
    PROVE  BusInv'
<1> USE DEF BusInv
<1>1. /\ stage[p] = "idle" /\ stage'[p] = "made"
      /\ \A q \in Publishers \ {p} : stage'[q] = stage[q]
  BY AdvanceType DEF Stamp, Stages
<1>2. /\ holding'[p] = created + 1
      /\ \A q \in Publishers \ {p} : holding'[q] = holding[q]
      /\ created' = created + 1 /\ created \in Nat /\ created' \in 1 .. MaxEvents
  BY SizesAssumption DEF Stamp, TypeOK
<1>3. UNCHANGED <<history, file, order, Recorded, Filed>>
  BY DEF Stamp, Recorded, Filed, stream
<1>4. Recorded \subseteq Nat /\ \A e \in Recorded : e < created + 1
  <2>1. DOMAIN order = 1 .. Len(order) /\ Events \subseteq Nat
    BY LenProperties DEF TypeOK, Events
  <2>2. \A i \in DOMAIN order : order[i] \in Nat
    BY <2>1, ElementOfSeq DEF TypeOK
  <2>3. Recorded \subseteq Nat
    BY <2>2 DEF Recorded
  <2> QED
    BY <1>2, <2>3 DEF Recordings
<1>5. Holders'
  BY <1>1, <1>2 DEF Holders, Events
<1>6. Recordings'
  <2>1. \A e \in Recorded' : e <= created'
    BY <1>2, <1>3, <1>4
  <2>2. holding'[p] \notin Recorded'
    BY <1>2, <1>3, <1>4
  <2>3. \A q \in Publishers : stage'[q] = "made" => holding'[q] \notin Recorded'
    BY <1>1, <1>2, <1>3, <2>2 DEF Recordings
  <2>4. \A q \in Publishers : stage'[q] = "recorded" => holding'[q] \in Recorded'
    BY <1>1, <1>2, <1>3 DEF Recordings
  <2> QED
    BY <2>1, <2>3, <2>4 DEF Recordings
<1>7. Filings'
  BY <1>1, <1>2, <1>3 DEF Filings
<1>8. Listing'
  BY <1>3 DEF Listing, NoRepeats
<1> QED
  BY <1>5, <1>6, <1>7, <1>8

\* What Record adds to the recorded events and puts on top of the ring.
LEMMA RecordShape ==
    ASSUME BusInv, NEW p \in Publishers, Record(p)
    PROVE  /\ stage[p] = "made" /\ stage'[p] = "recorded"
           /\ \A q \in Publishers \ {p} : stage'[q] = stage[q]
           /\ holding[p] \in Events /\ holding[p] \notin Recorded
           /\ Recorded' = Recorded \cup {holding[p]}
           /\ history' = Pushed(holding[p], history)
           /\ UNCHANGED <<file, holding, created, Filed>>
<1> USE DEF BusInv
<1>1. /\ stage[p] = "made" /\ stage'[p] = "recorded"
      /\ \A q \in Publishers \ {p} : stage'[q] = stage[q]
  BY AdvanceType DEF Record, Stages
<1>2. holding[p] \in Events /\ holding[p] \notin Recorded
  BY <1>1 DEF Holders, Recordings
<1>3. Recorded' = Recorded \cup {holding[p]}
  BY <1>2, AppendElements DEF Record, Recorded, TypeOK
<1> QED
  BY <1>1, <1>2, <1>3 DEF Record, Filed, bounds

\* Record puts an event on the ring that was not there.
LEMMA RecordStep ==
    ASSUME BusInv, TypeOK', NEW p \in Publishers, Record(p)
    PROVE  BusInv'
<1> USE DEF BusInv
<1>1. /\ stage[p] = "made" /\ stage'[p] = "recorded"
      /\ \A q \in Publishers \ {p} : stage'[q] = stage[q]
      /\ holding[p] \in Events /\ holding[p] \notin Recorded
      /\ Recorded' = Recorded \cup {holding[p]}
      /\ history' = Pushed(holding[p], history)
      /\ UNCHANGED <<file, holding, created, Filed>>
  BY RecordShape
<1>2. Holders'
  BY <1>1 DEF Holders
<1>3. Recordings'
  BY <1>1 DEF Recordings, Holders
<1>4. Filings'
  BY <1>1 DEF Filings
<1>5. Listing'
  <2>1. /\ DOMAIN history' = 1 .. Len(history')
        /\ Len(history') - 1 <= Len(history)
        /\ Len(history') \in Nat /\ Len(history) \in Nat
        /\ DOMAIN history = 1 .. Len(history)
        /\ \A i \in DOMAIN history' :
              history'[i] = IF i = 1 THEN holding[p] ELSE history[i - 1]
    BY <1>1, PushedType, LenProperties DEF TypeOK
  <2>2. \A i \in DOMAIN history' : i # 1 => i - 1 \in DOMAIN history
    BY <2>1
  <2>3. \A i \in DOMAIN history' : history'[i] \in Recorded'
    BY <1>1, <2>1, <2>2 DEF Listing
  <2>4. ASSUME NEW i \in DOMAIN history', NEW j \in DOMAIN history',
               history'[i] = history'[j]
        PROVE  i = j
    <3>1. CASE i = 1 /\ j # 1
      BY <1>1, <2>1, <2>2, <2>4, <3>1 DEF Listing
    <3>2. CASE i # 1 /\ j = 1
      BY <1>1, <2>1, <2>2, <2>4, <3>2 DEF Listing
    <3>3. CASE i # 1 /\ j # 1
      <4>1. history[i - 1] = history[j - 1]
        BY <2>1, <2>4, <3>3
      <4>2. i - 1 = j - 1
        BY <2>2, <3>3, <4>1 DEF Listing, NoRepeats
      <4> QED
        BY <2>1, <4>2
    <3> QED
      BY <3>1, <3>2, <3>3
  <2> QED
    BY <2>3, <2>4 DEF Listing, NoRepeats
<1> QED
  BY <1>2, <1>3, <1>4, <1>5

\* Store writes a recorded event that is not in the file yet, or nothing.
LEMMA StoreStep ==
    ASSUME BusInv, TypeOK', NEW p \in Publishers, Store(p)
    PROVE  BusInv'
<1> USE DEF BusInv
<1>1. /\ stage[p] = "recorded" /\ stage'[p] = "stored"
      /\ \A q \in Publishers \ {p} : stage'[q] = stage[q]
  BY AdvanceType DEF Store, Stages
<1>2. UNCHANGED <<history, order, holding, created, Recorded>>
  BY DEF Store, Recorded
<1>3. /\ holding[p] \in Events /\ holding[p] \in Recorded /\ holding[p] \notin Filed
      /\ \A q \in Publishers \ {p} : stage[q] = "recorded" => holding[q] # holding[p]
  BY <1>1 DEF Holders, Recordings, Filings
<1>4. Holders' /\ Recordings' /\ Listing'
  BY <1>1, <1>2 DEF Holders, Recordings, Listing, NoRepeats
<1>5. Filings'
  <2>1. CASE file' = file
    BY <1>1, <1>2, <2>1 DEF Filings, Filed
  <2>2. ASSUME NEW cut \in Cuts,
               file' = Append(file, [event |-> holding[p], cut |-> cut])
        PROVE  Filings'
    <3> DEFINE line == [event |-> holding[p], cut |-> cut]
    <3>1. line \in [event : Events, cut : Cuts]
      BY <1>3
    <3>2. /\ DOMAIN file' = DOMAIN file \cup {Len(file) + 1}
          /\ file'[Len(file) + 1] = line
          /\ \A i \in DOMAIN file : file'[i] = file[i]
      BY <2>2, <3>1, AppendElements DEF TypeOK
    <3>3. line.event = holding[p]
      OBVIOUS
    <3> HIDE DEF line
    <3>4. Filed' = Filed \cup {holding[p]}
      BY <3>2, <3>3 DEF Filed
    <3>5. \A i \in DOMAIN file : file[i].event # holding[p]
      BY <1>3 DEF Filed
    <3>6. \A i, j \in DOMAIN file' : file'[i].event = file'[j].event => i = j
      BY <3>2, <3>3, <3>5 DEF Filings
    <3> QED
      BY <1>1, <1>2, <1>3, <3>4, <3>6 DEF Filings
  <2> QED
    BY <2>1, <2>2 DEF Store, Cuts
<1> QED
  BY <1>4, <1>5

\* The webhook steps only let go of the event.
LEMMA WebhookStep ==
    ASSUME BusInv, TypeOK', NEW p \in Publishers, CheckWebhook(p) \/ PostWebhook(p)
    PROVE  BusInv'
<1> USE DEF BusInv
<1>1. UNCHANGED <<history, file, order, created, Recorded, Filed>>
  BY DEF CheckWebhook, PostWebhook, Recorded, Filed, bounds
<1>2. /\ stage[p] \in {"stored", "posting"}
      /\ \/ stage'[p] = "idle"
         \/ stage'[p] = "posting" /\ holding'[p] = holding[p]
      /\ \A q \in Publishers \ {p} : stage'[q] = stage[q] /\ holding'[q] = holding[q]
  BY DEF CheckWebhook, PostWebhook, Advance, TypeOK
<1>3. Holders'
  BY <1>1, <1>2 DEF Holders
<1>4. Recordings' /\ Filings' /\ Listing'
  BY <1>1, <1>2 DEF Recordings, Filings, Listing, NoRepeats
<1> QED
  BY <1>3, <1>4

\* What a restart reloads was in the file, and each event of it once.
LEMMA ReloadShape ==
    ASSUME BusInv, Restart
    PROVE  /\ \E n \in 0 .. MaxHistory : history' \in [1 .. n -> Recorded]
           /\ NoRepeats'
<1> USE DEF BusInv
<1>1. PICK m \in 0 .. MaxHistory :
        \E h \in [1 .. m -> Filed] : Loaded(file, h) /\ history' = h
  BY DEF Restart, Filed
<1>2. history' \in [1 .. m -> Filed] /\ Loaded(file, history')
  BY <1>1
<1>3. PICK n \in 0 .. MaxHistory : \E at \in [1 .. n -> Readable(file)] :
        /\ \A i, j \in 1 .. n : i < j => at[i] > at[j]
        /\ history' = [i \in 1 .. n |-> file[at[i]].event]
  BY <1>2 DEF Loaded
<1>4. PICK at \in [1 .. n -> Readable(file)] :
        /\ \A i, j \in 1 .. n : i < j => at[i] > at[j]
        /\ history' = [i \in 1 .. n |-> file[at[i]].event]
  BY <1>3
<1>5. Readable(file) \subseteq DOMAIN file /\ DOMAIN file \subseteq Nat
  BY LenProperties DEF Readable, TypeOK
<1>6. ASSUME NEW i \in 1 .. n, NEW j \in 1 .. n, history'[i] = history'[j]
      PROVE  i = j
  <2>1. at[i] = at[j]
    BY <1>4, <1>5, <1>6 DEF Filings
  <2> QED
    BY <1>4, <1>5, <2>1, SizesAssumption
<1>7. NoRepeats'
  BY <1>4, <1>6 DEF NoRepeats
<1>8. history' \in [1 .. m -> Recorded]
  BY <1>2 DEF Filings
<1> QED
  BY <1>7, <1>8

\* A restart forgets the goroutines and shows what it read.
LEMMA RestartStep == BusInv /\ TypeOK' /\ Restart => BusInv'
<1> SUFFICES ASSUME BusInv, TypeOK', Restart PROVE BusInv'
  OBVIOUS
<1> USE DEF BusInv
<1>1. UNCHANGED <<file, order, created, Recorded, Filed>>
  BY DEF Restart, Recorded, Filed
<1>2. \A p \in Publishers : stage'[p] = "idle"
  BY DEF Restart
<1>3. PICK n \in 0 .. MaxHistory : history' \in [1 .. n -> Recorded]
  BY ReloadShape
<1>4. Listing'
  BY <1>1, <1>3, ReloadShape DEF Listing
<1>5. Holders' /\ Recordings' /\ Filings'
  BY <1>1, <1>2 DEF Holders, Recordings, Filings
<1> QED
  BY <1>4, <1>5

\* Clients and SetWebhookURL touch nothing the invariant is about.
LEMMA OtherFrame ==
    ASSUME \/ \E u \in Urls \cup {Off} : SetWebhookBegin(u)
           \/ SetWebhookEnd
           \/ \E c \in Clients : Subscribe(c) \/ Receive(c) \/ Cancel(c)
           \/ UNCHANGED vars
    PROVE  UNCHANGED <<history, file, order, created, stage, holding>>
BY DEF SetWebhookBegin, SetWebhookEnd, Subscribe, Receive, Cancel, vars, memory,
       bounds

\* Every step keeps the types.
LEMMA NextTypeOK == BusInv /\ [Next]_vars => TypeOK'
<1> SUFFICES ASSUME BusInv, [Next]_vars PROVE TypeOK'
  OBVIOUS
<1>1. TypeOK /\ Holders
  BY DEF BusInv
<1>2. CASE \E p \in Publishers : Publish(p)
  BY <1>1, <1>2, PublishTypeOK DEF Holders
<1>3. CASE Restart
  BY <1>1, <1>3, RestartTypeOK
<1>4. CASE UNCHANGED vars
  BY <1>1, <1>4 DEF TypeOK, vars, memory, hook, bounds, stream
<1>5. CASE \/ \E u \in Urls \cup {Off} : SetWebhookBegin(u)
           \/ SetWebhookEnd
           \/ \E c \in Clients : Subscribe(c) \/ Receive(c) \/ Cancel(c)
  BY <1>1, <1>5, OtherTypeOK
<1> QED
  BY <1>2, <1>3, <1>4, <1>5 DEF Next

\* Every step keeps the invariant.
LEMMA NextBusInv == BusInv /\ [Next]_vars => BusInv'
<1> SUFFICES ASSUME BusInv, [Next]_vars PROVE BusInv'
  OBVIOUS
<1>1. TypeOK'
  BY NextTypeOK
<1>2. ASSUME NEW p \in Publishers, Publish(p) PROVE BusInv'
  BY <1>1, <1>2, StampStep, RecordStep, StoreStep, WebhookStep DEF Publish
<1>3. CASE Restart
  BY <1>1, <1>3, RestartStep
<1>4. CASE \/ \E u \in Urls \cup {Off} : SetWebhookBegin(u)
           \/ SetWebhookEnd
           \/ \E c \in Clients : Subscribe(c) \/ Receive(c) \/ Cancel(c)
           \/ UNCHANGED vars
  <2>1. UNCHANGED <<history, file, order, created, stage, holding>>
    BY <1>4, OtherFrame
  <2> QED
    BY <1>1, <2>1
    DEF BusInv, Holders, Recordings, Filings, Listing, NoRepeats, Recorded, Filed
<1> QED
  BY <1>2, <1>3, <1>4 DEF Next

\* The invariant holds throughout.
LEMMA BusInvariant == Spec => []BusInv
BY InitBusInv, NextBusInv, PTL DEF Spec

-----------------------------------------------------------------------------
\* The theorems.

\* Every variable of the bus keeps its type, and ring and channels their bounds.
THEOREM TypeCorrect == Spec => []TypeOK
<1>1. BusInv => TypeOK
  BY DEF BusInv
<1> QED
  BY <1>1, BusInvariant, PTL

\* GET /events never lists an event twice: not while goroutines publish, and not
\* after a restart, whatever was torn in the file.
THEOREM NoRepeatsAlways == Spec => []NoRepeats
<1>1. BusInv => NoRepeats
  BY DEF BusInv, Listing
<1> QED
  BY <1>1, BusInvariant, PTL

\* Every step of the bus is a step of EventLog, or invisible to it.
LEMMA EventLogStep == BusInv /\ [Next]_vars => [Log!Next]_<<Recorded, history>>
<1> SUFFICES ASSUME BusInv, [Next]_vars
             PROVE  Log!Next \/ UNCHANGED <<Recorded, history>>
  BY DEF Recorded
<1>1. ASSUME NEW p \in Publishers, Record(p) PROVE Log!Next
  <2>1. /\ holding[p] \in Events /\ holding[p] \notin Recorded
        /\ Recorded' = Recorded \cup {holding[p]}
        /\ history' = Pushed(holding[p], history)
    BY <1>1, RecordShape
  <2> QED
    BY <2>1 DEF Log!Next, Log!Publish, Log!OnTop, Pushed, Recorded
<1>2. CASE Restart
  <2>1. \E n \in 0 .. MaxHistory : history' \in [1 .. n -> Recorded]
    BY <1>2, ReloadShape
  <2>2. NoRepeats' /\ Recorded' = Recorded
    BY <1>2, ReloadShape DEF Restart, Recorded
  <2>3. Log!Restart
    BY <2>1, <2>2 DEF Log!Restart, Log!Repeats, NoRepeats, Recorded
  <2> QED
    BY <2>3 DEF Log!Next
<1>3. ASSUME NEW p \in Publishers,
             Stamp(p) \/ Store(p) \/ CheckWebhook(p) \/ PostWebhook(p)
      PROVE  UNCHANGED <<Recorded, history>>
  BY <1>3 DEF Stamp, Store, CheckWebhook, PostWebhook, Recorded
<1>4. CASE \/ \E u \in Urls \cup {Off} : SetWebhookBegin(u)
           \/ SetWebhookEnd
           \/ \E c \in Clients : Subscribe(c) \/ Receive(c) \/ Cancel(c)
           \/ UNCHANGED vars
  BY <1>4, OtherFrame DEF Recorded
<1> QED
  BY <1>1, <1>2, <1>3, <1>4 DEF Next, Publish

\* The bus implements EventLog: every publication goes on top of the list, once,
\* and a restart shows only what had been published.
THEOREM ImplementsEventLogAlways == Spec => ImplementsEventLog
<1>1. Init => Log!Init
  BY DEF Init, Log!Init
<1>2. BusInv /\ [Next]_vars => [Log!Next]_<<{order[i] : i \in DOMAIN order}, history>>
  BY EventLogStep DEF Recorded
<1> QED
  BY <1>1, <1>2, BusInvariant, PTL DEF Spec, ImplementsEventLog, Log!Spec

-----------------------------------------------------------------------------
(***************************************************************************)
(* What a client is sent.  StreamsFollowHistory is inductive, given that   *)
(* an event is recorded once and that no client subscribed in the future:  *)
(* what Record appends comes after all that the client has, and Receive    *)
(* moves the first of the channel to the end of the wire, or drops it.     *)
(***************************************************************************)

Got(c) == wire[c] \o chan[c]

\* What StreamsFollowHistory says of a client that has got g, in four parts.
Drawn(c, g) == \A i \in DOMAIN g : \E k \in Due(c) : order[k] = g[i]

InOrder(c, g) ==
    \A i, j \in DOMAIN g, k, l \in Due(c) :
        i < j /\ order[k] = g[i] /\ order[l] = g[j] => k < l

OnlySeen(c) == \A i \in DOMAIN wire[c] : wire[c][i] \in Sees[c]

Complete(c, g) ==
    ~lagged[c] =>
        \A k \in Due(c) : order[k] \in Sees[c] => \E i \in DOMAIN g : g[i] = order[k]

Follows(c, g) == Drawn(c, g) /\ InOrder(c, g) /\ OnlySeen(c) /\ Complete(c, g)

JoinedInTime == \A c \in Clients : joined[c] <= Len(order)

StreamInv == JoinedInTime /\ \A c \in subs : Follows(c, Got(c))

\* The wire and the channel of a client are sequences of events.
LEMMA GotType ==
    ASSUME TypeOK, NEW c \in Clients
    PROVE  /\ wire[c] \in Seq(Events) /\ chan[c] \in Seq(Events)
           /\ Got(c) \in Seq(Events)
           /\ Len(wire[c]) \in Nat /\ Len(chan[c]) \in Nat
           /\ DOMAIN wire[c] = 1 .. Len(wire[c])
           /\ Len(Got(c)) = Len(wire[c]) + Len(chan[c])
           /\ DOMAIN Got(c) = 1 .. Len(Got(c))
           /\ \A i \in DOMAIN Got(c) :
                 Got(c)[i] = IF i <= Len(wire[c]) THEN wire[c][i]
                                                  ELSE chan[c][i - Len(wire[c])]
<1>1. wire[c] \in Seq(Events) /\ chan[c] \in Seq(Events)
  BY DEF TypeOK
<1>2. /\ Len(wire[c]) \in Nat /\ Len(chan[c]) \in Nat
      /\ DOMAIN wire[c] = 1 .. Len(wire[c])
  BY <1>1, LenProperties
<1>3. /\ Got(c) \in Seq(Events)
      /\ Len(Got(c)) = Len(wire[c]) + Len(chan[c])
      /\ DOMAIN Got(c) = 1 .. Len(wire[c]) + Len(chan[c])
      /\ \A i \in 1 .. Len(wire[c]) + Len(chan[c]) :
            Got(c)[i] = IF i <= Len(wire[c]) THEN wire[c][i]
                                             ELSE chan[c][i - Len(wire[c])]
  BY <1>1, ConcatElements DEF Got
<1> QED
  BY <1>1, <1>2, <1>3

\* The recorded events are numbered without gaps.
LEMMA OrderType ==
    ASSUME TypeOK
    PROVE  /\ order \in Seq(Events) /\ Len(order) \in Nat
           /\ DOMAIN order = 1 .. Len(order)
           /\ \A c \in Clients : joined[c] \in Nat /\ Due(c) \subseteq DOMAIN order
<1>1. order \in Seq(Events) /\ Len(order) \in Nat /\ DOMAIN order = 1 .. Len(order)
  BY LenProperties DEF TypeOK
<1>2. \A c \in Clients : joined[c] \in Nat
  BY DEF TypeOK
<1> QED
  BY <1>1, <1>2 DEF Due

\* A client whose wire and channel a step leaves alone goes on as before.
LEMMA FollowsFrame ==
    ASSUME NEW c \in Clients, Follows(c, Got(c)),
           UNCHANGED <<order, joined, lagged>>,
           wire'[c] = wire[c], chan'[c] = chan[c]
    PROVE  Follows(c, Got(c))'
<1>1. Got(c)' = Got(c) /\ Due(c)' = Due(c)
  BY DEF Got, Due
<1> QED
  BY <1>1 DEF Follows, Drawn, InOrder, OnlySeen, Complete

\* The events due to a client once e is recorded: those before, and e after them.
LEMMA DueAfterRecord ==
    ASSUME TypeOK, JoinedInTime, NEW c \in Clients, NEW e \in Events, e \notin Recorded,
           order' = Append(order, e), joined' = joined
    PROVE  /\ Due(c)' = Due(c) \cup {Len(order) + 1}
           /\ \A k \in Due(c) : /\ k < Len(order) + 1
                                /\ order'[k] = order[k] /\ order[k] # e
           /\ order'[Len(order) + 1] = e
<1>1. /\ Len(order) \in Nat /\ joined[c] \in Nat /\ joined[c] <= Len(order)
      /\ DOMAIN order = 1 .. Len(order) /\ Due(c) \subseteq DOMAIN order
  BY OrderType DEF JoinedInTime
<1>2. /\ Len(order') = Len(order) + 1
      /\ order'[Len(order) + 1] = e
      /\ \A k \in DOMAIN order : order'[k] = order[k]
  BY OrderType, AppendElements
<1>3. Due(c)' = Due(c) \cup {Len(order) + 1}
  BY <1>1, <1>2 DEF Due
<1>4. \A k \in DOMAIN order : order[k] # e
  BY DEF Recorded
<1> QED
  BY <1>1, <1>2, <1>3, <1>4

\* Recording an event that goes into the client's channel: it comes last.
LEMMA RecordInto ==
    ASSUME TypeOK, JoinedInTime, NEW c \in Clients, Follows(c, Got(c)),
           NEW e \in Events, e \notin Recorded,
           order' = Append(order, e), UNCHANGED <<joined, wire>>,
           lagged[c] => lagged'[c], chan'[c] = Append(chan[c], e)
    PROVE  Follows(c, Got(c))'
<1> DEFINE n == Len(Got(c))
           N == Len(order) + 1
           g == Got(c)
           h == Append(g, e)
<1>1. Got(c)' = h
  <2>1. wire[c] \in Seq(Events) /\ chan[c] \in Seq(Events)
    BY GotType
  <2>2. wire[c] \o Append(chan[c], e) = Append(wire[c] \o chan[c], e)
    BY <2>1, AppendToConcat
  <2> QED
    BY <2>2 DEF Got
<1>2. /\ n \in Nat /\ DOMAIN g = 1 .. n /\ DOMAIN h = DOMAIN g \cup {n + 1}
      /\ h[n + 1] = e
      /\ \A i \in DOMAIN g : h[i] = g[i]
  <2>1. PICK s : s = g
    OBVIOUS
  <2>2. s \in Seq(Events) /\ Len(s) \in Nat /\ DOMAIN s = 1 .. Len(s)
    <3>1. Got(c) \in Seq(Events)
      BY GotType
    <3> QED
      BY ONLY <2>1, <3>1
  <2>3. /\ DOMAIN Append(s, e) = DOMAIN s \cup {Len(s) + 1}
        /\ Append(s, e)[Len(s) + 1] = e
        /\ \A i \in DOMAIN s : Append(s, e)[i] = s[i]
    <3>1. e \in Events
      OBVIOUS
    <3>2. /\ Append(s, e) \in Seq(Events) /\ Len(Append(s, e)) = Len(s) + 1
          /\ Append(s, e)[Len(s) + 1] = e
          /\ \A i \in 1 .. Len(s) : Append(s, e)[i] = s[i]
      BY ONLY <2>2, <3>1, AppendProperties
    <3>3. DOMAIN Append(s, e) = 1 .. Len(s) + 1
      BY ONLY <3>2
    <3> QED
      BY ONLY <2>2, <3>2, <3>3
  <2> QED
    BY ONLY <2>1, <2>2, <2>3
<1>3. /\ Due(c)' = Due(c) \cup {N} /\ order'[N] = e
      /\ \A k \in Due(c) : k < N /\ order'[k] = order[k] /\ order[k] # e
      /\ N \in Nat
  BY DueAfterRecord, OrderType
<1>4. \A i \in DOMAIN g : g[i] # e /\ \E k \in Due(c) : order[k] = g[i]
  BY <1>3 DEF Follows, Drawn
<1> HIDE DEF g, h, n, N
<1>5. \A i \in DOMAIN h : \E k \in Due(c)' : order'[k] = h[i]
  <2> TAKE i \in DOMAIN h
  <2>1. CASE i = n + 1
    BY <1>2, <1>3, <2>1
  <2>2. CASE i \in DOMAIN g
    <3>1. PICK k \in Due(c) : order[k] = g[i]
      BY <1>4, <2>2
    <3>2. k \in Due(c)' /\ order'[k] = h[i]
      BY <1>2, <1>3, <2>2, <3>1
    <3> QED
      BY <3>2
  <2> QED
    BY <1>2, <2>1, <2>2
<1>6. ASSUME NEW i \in DOMAIN h, NEW j \in DOMAIN h, NEW k \in Due(c)', NEW l \in Due(c)',
             i < j, order'[k] = h[i], order'[l] = h[j]
      PROVE  k < l
  <2>1. i \in DOMAIN g
    BY <1>2, <1>6
  <2>2. ASSUME NEW x \in DOMAIN g, NEW m \in Due(c)', order'[m] = h[x]
        PROVE  m \in Due(c) /\ order[m] = g[x]
    <3>1. h[x] = g[x] /\ g[x] # e
      BY <1>2, <1>4
    <3>2. m # N
      BY <1>3, <2>2, <3>1
    <3> QED
      BY <1>3, <2>2, <3>1, <3>2
  <2>3. k \in Due(c) /\ order[k] = g[i]
    BY <1>6, <2>1, <2>2
  <2>4. CASE j = n + 1
    <3>1. order'[l] = e
      BY <1>2, <1>6, <2>4
    <3>2. l = N
      BY <1>3, <3>1
    <3> QED
      BY <1>3, <2>3, <3>2
  <2>5. CASE j \in DOMAIN g
    <3>1. l \in Due(c) /\ order[l] = g[j]
      BY <1>6, <2>2, <2>5
    <3> QED
      BY <1>6, <2>1, <2>3, <2>5, <3>1 DEF Follows, InOrder, g
  <2> QED
    BY <1>2, <2>4, <2>5
<1>7. OnlySeen(c)'
  BY DEF Follows, OnlySeen
<1>8. ASSUME ~lagged'[c], NEW k \in Due(c)', order'[k] \in Sees[c]
      PROVE  \E i \in DOMAIN h : h[i] = order'[k]
  <2>1. CASE k = N
    BY <1>2, <1>3, <2>1
  <2>2. CASE k \in Due(c)
    BY <1>2, <1>3, <1>8, <2>2 DEF Follows, Complete, g
  <2> QED
    BY <1>3, <2>1, <2>2
<1> QED
  BY <1>1, <1>5, <1>6, <1>7, <1>8 DEF Follows, Drawn, InOrder, Complete

\* Recording an event that finds the channel full: the client is marked.
LEMMA RecordPast ==
    ASSUME TypeOK, JoinedInTime, NEW c \in Clients, Follows(c, Got(c)),
           NEW e \in Events, e \notin Recorded,
           order' = Append(order, e), UNCHANGED <<joined, wire>>,
           lagged'[c], chan'[c] = chan[c]
    PROVE  Follows(c, Got(c))'
<1> DEFINE N == Len(order) + 1
<1>1. Got(c)' = Got(c)
  BY DEF Got
<1>2. /\ Due(c)' = Due(c) \cup {N} /\ order'[N] = e
      /\ \A k \in Due(c) : k < N /\ order'[k] = order[k] /\ order[k] # e
  BY DueAfterRecord
<1>3. \A i \in DOMAIN Got(c) : \E k \in Due(c) : order[k] = Got(c)[i]
  BY DEF Follows, Drawn
<1> HIDE DEF N
<1>4. Drawn(c, Got(c))'
  BY <1>1, <1>2, <1>3 DEF Drawn
<1>5. InOrder(c, Got(c))'
  <2>1. \A i \in DOMAIN Got(c) : Got(c)[i] # e
    BY <1>2, <1>3
  <2>2. ASSUME NEW i \in DOMAIN Got(c), NEW k \in Due(c)', order'[k] = Got(c)[i]
        PROVE  k \in Due(c) /\ order[k] = Got(c)[i]
    BY <1>2, <2>1, <2>2
  <2>3. ASSUME NEW i \in DOMAIN Got(c), NEW j \in DOMAIN Got(c),
               NEW k \in Due(c)', NEW l \in Due(c)',
               i < j, order'[k] = Got(c)[i], order'[l] = Got(c)[j]
        PROVE  k < l
    <3>1. k \in Due(c) /\ l \in Due(c) /\ order[k] = Got(c)[i] /\ order[l] = Got(c)[j]
      BY <2>2, <2>3
    <3> QED
      BY <2>3, <3>1 DEF Follows, InOrder
  <2> QED
    BY <1>1, <2>3 DEF InOrder
<1> QED
  BY <1>4, <1>5 DEF Follows, OnlySeen, Complete

\* Receiving an event the client may see moves it from the channel to the wire.
LEMMA ReceiveSeen ==
    ASSUME TypeOK, NEW c \in Clients, Follows(c, Got(c)), chan[c] # <<>>,
           UNCHANGED <<order, joined, lagged>>,
           Head(chan[c]) \in Sees[c],
           chan'[c] = Tail(chan[c]), wire'[c] = Append(wire[c], Head(chan[c]))
    PROVE  Follows(c, Got(c))'
<1> DEFINE e == Head(chan[c])
<1> wire[c] \in Seq(Events) /\ chan[c] \in Seq(Events)
  BY GotType
<1>1. e \in Events
  BY HeadTailProperties
<1>2. Got(c)' = Got(c)
  BY HeadMovesOver DEF Got
<1>3. Due(c)' = Due(c)
  BY DEF Due
<1>4. OnlySeen(c)'
  <2>1. /\ DOMAIN wire'[c] = DOMAIN wire[c] \cup {Len(wire[c]) + 1}
        /\ wire'[c][Len(wire[c]) + 1] = e
        /\ \A i \in DOMAIN wire[c] : wire'[c][i] = wire[c][i]
    BY <1>1, GotType, AppendElements
  <2> QED
    BY <2>1 DEF Follows, OnlySeen
<1> QED
  BY <1>2, <1>3, <1>4 DEF Follows, Drawn, InOrder, Complete

\* Receiving one it may not see drops it; what follows moves up.
LEMMA ReceiveHidden ==
    ASSUME TypeOK, NEW c \in Clients, Follows(c, Got(c)), chan[c] # <<>>,
           UNCHANGED <<order, joined, lagged>>,
           Head(chan[c]) \notin Sees[c],
           chan'[c] = Tail(chan[c]), wire'[c] = wire[c]
    PROVE  Follows(c, Got(c))'
<1> DEFINE w == Len(wire[c])
           m == Len(chan[c])
           rest == Tail(chan[c])
           g == Got(c)
           h == wire[c] \o rest
           Was(i) == IF i <= w THEN i ELSE i + 1
<1> wire[c] \in Seq(Events) /\ chan[c] \in Seq(Events)
  BY GotType
<1>1. /\ w \in Nat /\ m \in Nat \ {0} /\ DOMAIN g = 1 .. w + m
      /\ \A i \in DOMAIN g : g[i] = IF i <= w THEN wire[c][i] ELSE chan[c][i - w]
  <2>1. m \in Nat \ {0}
    BY EmptySeq
  <2> QED
    BY <2>1, GotType
<1>2. /\ rest \in Seq(Events) /\ Len(rest) = m - 1
      /\ \A i \in 1 .. Len(rest) : rest[i] = chan[c][i + 1]
  BY HeadTailProperties
<1>3. Head(chan[c]) = chan[c][1]
  OBVIOUS
<1> HIDE DEF rest
<1>4. /\ DOMAIN h = 1 .. w + (m - 1)
      /\ \A i \in DOMAIN h : h[i] = IF i <= w THEN wire[c][i] ELSE rest[i - w]
  <2>1. rest \in Seq(Events) /\ Len(rest) = m - 1
    BY <1>2
  <2>2. /\ DOMAIN h = 1 .. w + Len(rest)
        /\ \A i \in 1 .. w + Len(rest) :
              h[i] = IF i <= w THEN wire[c][i] ELSE rest[i - w]
    <3>1. PICK s, t : s = wire[c] /\ t = rest
      OBVIOUS
    <3>2. s \in Seq(Events) /\ t \in Seq(Events)
      BY <2>1, <3>1
    <3>3. /\ DOMAIN (s \o t) = 1 .. Len(s) + Len(t)
          /\ \A i \in 1 .. Len(s) + Len(t) :
                (s \o t)[i] = IF i <= Len(s) THEN s[i] ELSE t[i - Len(s)]
      BY ONLY <3>2, ConcatElements
    <3> QED
      BY ONLY <3>1, <3>3
  <2> QED
    BY <2>1, <2>2
<1>5. Got(c)' = h /\ Due(c)' = Due(c)
  BY DEF Got, Due, rest
<1> HIDE DEF g, h, w, m
<1>6. \A i \in DOMAIN h : Was(i) \in DOMAIN g /\ h[i] = g[Was(i)]
  <2> TAKE i \in DOMAIN h
  <2>1. CASE i <= w
    <3>1. i \in DOMAIN g
      BY <1>1, <1>4, <2>1
    <3> QED
      BY <1>1, <1>4, <2>1, <3>1
  <2>2. CASE ~(i <= w)
    <3>1. /\ i \in Nat /\ i - w \in 1 .. Len(rest)
          /\ i + 1 \in DOMAIN g /\ ~(i + 1 <= w) /\ i + 1 - w = (i - w) + 1
      BY <1>1, <1>2, <1>4, <2>2
    <3>2. h[i] = rest[i - w] /\ rest[i - w] = chan[c][(i - w) + 1]
      BY <1>2, <1>4, <2>2, <3>1
    <3>3. g[i + 1] = chan[c][i + 1 - w]
      BY <1>1, <3>1
    <3> QED
      BY <2>2, <3>1, <3>2, <3>3
  <2> QED
    BY <2>1, <2>2
<1>7. \A j \in DOMAIN g : j = w + 1 \/ \E i \in DOMAIN h : Was(i) = j
  <2> TAKE j \in DOMAIN g
  <2>1. CASE j <= w
    <3>1. j \in DOMAIN h /\ Was(j) = j
      BY <1>1, <1>4, <2>1
    <3> QED
      BY <3>1
  <2>2. CASE j > w + 1
    <3>1. j - 1 \in DOMAIN h /\ Was(j - 1) = j
      BY <1>1, <1>4, <2>2
    <3> QED
      BY <3>1
  <2> QED
    BY <1>1, <2>1, <2>2
<1>8. g[w + 1] \notin Sees[c]
  <2>1. w + 1 \in DOMAIN g /\ ~(w + 1 <= w) /\ w + 1 - w = 1
    BY <1>1
  <2> QED
    BY <1>1, <1>3, <2>1
<1>9. \A i, j \in DOMAIN h : i < j => Was(i) < Was(j)
  BY <1>1, <1>4
<1> HIDE DEF Was
<1>10. Drawn(c, Got(c))' /\ InOrder(c, Got(c))'
  <2>1. \A i \in DOMAIN h : \E k \in Due(c) : order[k] = h[i]
    BY <1>6 DEF Follows, Drawn, g
  <2>2. ASSUME NEW i \in DOMAIN h, NEW j \in DOMAIN h, NEW k \in Due(c), NEW l \in Due(c),
               i < j, order[k] = h[i], order[l] = h[j]
        PROVE  k < l
    <3>1. /\ Was(i) \in DOMAIN g /\ Was(j) \in DOMAIN g /\ Was(i) < Was(j)
          /\ order[k] = g[Was(i)] /\ order[l] = g[Was(j)]
      BY <1>6, <1>9, <2>2
    <3> QED
      BY <3>1 DEF Follows, InOrder, g
  <2> QED
    BY <1>5, <2>1, <2>2 DEF Drawn, InOrder
<1>11. Complete(c, Got(c))'
  <2> SUFFICES ASSUME ~lagged[c], NEW k \in Due(c), order[k] \in Sees[c]
               PROVE  \E i \in DOMAIN h : h[i] = order[k]
    BY <1>5 DEF Complete
  <2>1. PICK j \in DOMAIN g : g[j] = order[k]
    BY DEF Follows, Complete, g
  <2>2. PICK i \in DOMAIN h : Was(i) = j
    BY <1>7, <1>8, <2>1
  <2> QED
    BY <1>6, <2>1, <2>2
<1> QED
  BY <1>10, <1>11 DEF Follows, OnlySeen

\* Every step keeps the streams.
LEMMA StreamStep == BusInv /\ StreamInv /\ [Next]_vars => StreamInv'
<1> SUFFICES ASSUME TypeOK, Holders, Recordings, JoinedInTime,
                    \A c \in subs : Follows(c, Got(c)), [Next]_vars
             PROVE  JoinedInTime' /\ \A c \in subs' : Follows(c, Got(c))'
  BY DEF BusInv, StreamInv
<1> /\ subs \subseteq Clients /\ Len(order) \in Nat
    /\ DOMAIN chan = Clients /\ DOMAIN wire = Clients
    /\ DOMAIN joined = Clients /\ DOMAIN lagged = Clients
  BY OrderType DEF TypeOK
<1>1. CASE UNCHANGED <<order, joined, lagged, wire, chan>> /\ subs' = subs
  <2>1. JoinedInTime'
    BY <1>1 DEF JoinedInTime
  <2> QED
    BY <1>1, <2>1, FollowsFrame
<1>2. ASSUME NEW p \in Publishers, Record(p)
      PROVE  JoinedInTime' /\ \A c \in subs' : Follows(c, Got(c))'
  <2>1. holding[p] \in Events /\ holding[p] \notin Recorded
    BY <1>2 DEF Record, Advance, Holders, Recordings
  <2>2. order' = Append(order, holding[p]) /\ UNCHANGED <<subs, joined, wire>>
    BY <1>2 DEF Record
  <2>3. Len(order') = Len(order) + 1
    BY <2>1, <2>2, OrderType, AppendElements
  <2>4. JoinedInTime'
    BY <2>2, <2>3, OrderType DEF JoinedInTime
  <2>5. ASSUME NEW c \in subs PROVE Follows(c, Got(c))'
    <3>1. CASE Accepts(c)
      <4>1. chan'[c] = Append(chan[c], holding[p]) /\ (lagged[c] => lagged'[c])
        BY <1>2, <3>1 DEF Record
      <4> QED
        BY <2>1, <2>2, <4>1, RecordInto
    <3>2. CASE ~Accepts(c)
      <4>1. Len(chan[c]) = Cap
        BY <3>2, GotType, SizesAssumption DEF Accepts, TypeOK
      <4>2. chan'[c] = chan[c] /\ lagged'[c]
        BY <1>2, <3>2, <4>1 DEF Record
      <4> QED
        BY <2>1, <2>2, <4>2, RecordPast
    <3> QED
      BY <3>1, <3>2
  <2> QED
    BY <2>2, <2>4, <2>5
<1>3. ASSUME NEW d \in Clients, Receive(d)
      PROVE  JoinedInTime' /\ \A c \in subs' : Follows(c, Got(c))'
  <2>1. /\ UNCHANGED <<order, joined, lagged, subs>>
        /\ d \in subs /\ chan[d] # <<>>
        /\ chan'[d] = Tail(chan[d])
        /\ wire'[d] = IF Head(chan[d]) \in Sees[d] THEN Append(wire[d], Head(chan[d]))
                                                   ELSE wire[d]
        /\ \A c \in Clients \ {d} : chan'[c] = chan[c] /\ wire'[c] = wire[c]
    BY <1>3 DEF Receive
  <2>2. JoinedInTime'
    BY <2>1 DEF JoinedInTime
  <2>3. Follows(d, Got(d))'
    BY <2>1, ReceiveSeen, ReceiveHidden
  <2>4. \A c \in subs \ {d} : Follows(c, Got(c))'
    BY <2>1, FollowsFrame
  <2> QED
    BY <2>1, <2>2, <2>3, <2>4
<1>4. ASSUME NEW d \in Clients, Subscribe(d)
      PROVE  JoinedInTime' /\ \A c \in subs' : Follows(c, Got(c))'
  <2>1. /\ order' = order /\ subs' = subs \cup {d} /\ d \notin subs
        /\ chan'[d] = <<>> /\ wire'[d] = <<>> /\ joined'[d] = Len(order)
        /\ \A c \in Clients \ {d} : /\ chan'[c] = chan[c] /\ wire'[c] = wire[c]
                                    /\ joined'[c] = joined[c] /\ lagged'[c] = lagged[c]
    BY <1>4 DEF Subscribe
  <2>2. JoinedInTime'
    BY <2>1 DEF JoinedInTime
  <2>3. Follows(d, Got(d))'
    <3>1. Got(d)' = <<>>
      BY <2>1, ConcatEmptySeq, EmptySeq DEF Got
    <3>2. Due(d)' = {}
      BY <2>1 DEF Due
    <3> QED
      BY <2>1, <3>1, <3>2 DEF Follows, Drawn, InOrder, OnlySeen, Complete
  <2>4. ASSUME NEW c \in subs PROVE Follows(c, Got(c))'
    <3>1. Got(c)' = Got(c) /\ Due(c)' = Due(c) /\ wire'[c] = wire[c]
          /\ lagged'[c] = lagged[c]
      BY <2>1 DEF Got, Due
    <3> QED
      BY <2>1, <3>1 DEF Follows, Drawn, InOrder, OnlySeen, Complete
  <2> QED
    BY <2>1, <2>2, <2>3, <2>4
<1>5. ASSUME NEW d \in Clients, Cancel(d)
      PROVE  JoinedInTime' /\ \A c \in subs' : Follows(c, Got(c))'
  <2>1. /\ UNCHANGED <<order, joined, lagged, wire>> /\ subs' = subs \ {d}
        /\ \A c \in Clients \ {d} : chan'[c] = chan[c]
    BY <1>5 DEF Cancel, stream
  <2>2. JoinedInTime'
    BY <2>1 DEF JoinedInTime
  <2> QED
    BY <2>1, <2>2, FollowsFrame
<1>6. CASE Restart
  BY <1>6 DEF Restart, JoinedInTime, stream
<1>7. CASE \/ \E p \in Publishers : Stamp(p) \/ Store(p) \/ CheckWebhook(p)
                                      \/ PostWebhook(p)
           \/ \E u \in Urls \cup {Off} : SetWebhookBegin(u)
           \/ SetWebhookEnd
           \/ UNCHANGED vars
  <2>1. UNCHANGED <<order, joined, lagged, wire, chan>> /\ subs' = subs
    BY <1>7 DEF Stamp, Store, CheckWebhook, PostWebhook, SetWebhookBegin,
                SetWebhookEnd, vars, memory, stream
  <2> QED
    BY <1>1, <2>1
<1> QED
  BY <1>2, <1>3, <1>4, <1>5, <1>6, <1>7 DEF Next, Publish

\* What an SSE client is sent, and what waits in its channel, follows the history:
\* nothing twice, nothing out of order, nothing it may not see, and no gap unless
\* its channel was full, for every number of goroutines and clients, every
\* capacity and every eventVisible (Publish's select, streamEvents).
THEOREM StreamsFollowHistoryAlways == Spec => []StreamsFollowHistory
<1>1. Init => StreamInv
  BY DEF Init, StreamInv, JoinedInTime
<1>2. StreamInv => StreamsFollowHistory
  BY DEF StreamInv, Follows, Drawn, InOrder, OnlySeen, Complete, Got,
         StreamsFollowHistory
<1> QED
  BY <1>1, <1>2, BusInvariant, StreamStep, PTL DEF Spec

-----------------------------------------------------------------------------
(***************************************************************************)
(* What is lost.  A bad line, one that a failed write left, may spoil      *)
(* itself and the next, so what is inductive charges two for each bad line *)
(* and one for each event that was recorded and not written: a failed      *)
(* write adds one bad line at most, a restart strands one event of each    *)
(* goroutine.                                                              *)
(***************************************************************************)

BadLines == {i \in DOMAIN file : file[i].cut # "whole"}

Unwritten == Recorded \ Filed

AboutToWrite == {p \in Publishers : stage[p] = "recorded"}

Charged ==
    2 * Cardinality(BadLines) + Cardinality(Unwritten)
        <= 2 * faults + restarts * Cardinality(Publishers) + Cardinality(AboutToWrite)

LossInv == IsFiniteSet(BadLines) /\ IsFiniteSet(Unwritten) /\ Charged

\* The image of a finite set is no larger.
LEMMA ImageBound ==
    ASSUME NEW S, NEW T, IsFiniteSet(S), NEW f, \A x \in T : \E s \in S : x = f[s]
    PROVE  IsFiniteSet(T) /\ Cardinality(T) <= Cardinality(S)
<1> DEFINE R == {s \in S : f[s] \in T}
           g == [s \in R |-> f[s]]
<1>1. IsFiniteSet(R) /\ Cardinality(R) <= Cardinality(S)
  BY FS_Subset
<1>2. g \in Surjection(R, T)
  BY DEF Surjection
<1>3. IsFiniteSet(T) /\ Cardinality(T) <= Cardinality(R)
  BY <1>1, <1>2, FS_Surjection
<1> HIDE DEF R
<1>4. Cardinality(R) \in Nat /\ Cardinality(S) \in Nat /\ Cardinality(T) \in Nat
  BY <1>1, <1>3, FS_CardinalityType
<1> QED
  BY <1>1, <1>3, <1>4

\* The union of two finite sets has at most the elements of both.
LEMMA UnionBound ==
    ASSUME NEW S, NEW T, IsFiniteSet(S), IsFiniteSet(T)
    PROVE  /\ IsFiniteSet(S \cup T)
           /\ Cardinality(S \cup T) <= Cardinality(S) + Cardinality(T)
<1>1. /\ IsFiniteSet(S \cup T) /\ IsFiniteSet(S \cap T)
      /\ Cardinality(S \cup T) = Cardinality(S) + Cardinality(T) - Cardinality(S \cap T)
  BY FS_Union, FS_Intersection
<1>2. /\ Cardinality(S) \in Nat /\ Cardinality(T) \in Nat
      /\ Cardinality(S \cap T) \in Nat
  BY <1>1, FS_CardinalityType
<1> QED
  BY <1>1, <1>2

\* The goroutines about to write are finitely many.
LEMMA WritersFinite ==
    ASSUME NEW W \in SUBSET Publishers
    PROVE  /\ IsFiniteSet(W) /\ Cardinality(W) \in Nat
           /\ Cardinality(Publishers) \in Nat
           /\ Cardinality(W) <= Cardinality(Publishers)
BY PublishersAssumption, FS_Subset, FS_CardinalityType

\* One goroutine more, or less, is about to write.
LEMMA WritersStep ==
    ASSUME TypeOK, NEW p \in Publishers,
           \A q \in Publishers \ {p} : stage'[q] = stage[q]
    PROVE  /\ stage[p] # "recorded" /\ stage'[p] = "recorded" =>
                  Cardinality(AboutToWrite') = Cardinality(AboutToWrite) + 1
           /\ stage[p] = "recorded" /\ stage'[p] # "recorded" =>
                  Cardinality(AboutToWrite') = Cardinality(AboutToWrite) - 1
<1>1. IsFiniteSet(AboutToWrite)
  BY WritersFinite DEF AboutToWrite
<1>2. CASE stage[p] # "recorded" /\ stage'[p] = "recorded"
  <2>1. AboutToWrite' = AboutToWrite \cup {p} /\ p \notin AboutToWrite
    BY <1>2 DEF AboutToWrite
  <2> QED
    BY <1>1, <1>2, <2>1, FS_AddElement
<1>3. CASE stage[p] = "recorded" /\ stage'[p] # "recorded"
  <2>1. AboutToWrite' = AboutToWrite \ {p} /\ p \in AboutToWrite
    BY <1>3 DEF AboutToWrite
  <2> QED
    BY <1>1, <1>3, <2>1, FS_RemoveElement
<1> QED
  BY <1>2, <1>3

\* The numbers in Charged are natural numbers.
LEMMA ChargeTypes ==
    ASSUME TypeOK, IsFiniteSet(BadLines), IsFiniteSet(Unwritten)
    PROVE  /\ Cardinality(BadLines) \in Nat /\ Cardinality(Unwritten) \in Nat
           /\ Cardinality(AboutToWrite) \in Nat /\ Cardinality(Publishers) \in Nat
           /\ Cardinality(AboutToWrite) <= Cardinality(Publishers)
           /\ faults \in Nat /\ restarts \in Nat
           /\ restarts * Cardinality(Publishers) \in Nat
           /\ (restarts + 1) * Cardinality(Publishers)
                 = restarts * Cardinality(Publishers) + Cardinality(Publishers)
<1>1. Cardinality(BadLines) \in Nat /\ Cardinality(Unwritten) \in Nat
  BY FS_CardinalityType
<1>2. /\ Cardinality(AboutToWrite) \in Nat /\ Cardinality(Publishers) \in Nat
      /\ Cardinality(AboutToWrite) <= Cardinality(Publishers)
  BY WritersFinite DEF AboutToWrite
<1>3. faults \in Nat /\ restarts \in Nat
  BY SizesAssumption DEF TypeOK
<1>4. \A m, n \in Nat : m * n \in Nat /\ (m + 1) * n = m * n + n
  OBVIOUS
<1> QED
  BY <1>1, <1>2, <1>3, <1>4

\* Record adds one event that is not written and one goroutine about to.
LEMMA RecordCharged ==
    ASSUME BusInv, LossInv, NEW p \in Publishers, Record(p)
    PROVE  LossInv'
<1> TypeOK
  BY DEF BusInv
<1>1. /\ stage[p] = "made" /\ stage'[p] = "recorded"
      /\ \A q \in Publishers \ {p} : stage'[q] = stage[q]
      /\ holding[p] \notin Recorded /\ Recorded' = Recorded \cup {holding[p]}
      /\ UNCHANGED <<file, Filed>>
  BY RecordShape
<1>2. holding[p] \notin Filed /\ Unwritten' = Unwritten \cup {holding[p]}
  BY <1>1 DEF BusInv, Filings, Unwritten
<1>3. IsFiniteSet(Unwritten') /\ Cardinality(Unwritten') = Cardinality(Unwritten) + 1
  <2>1. holding[p] \notin Unwritten
    BY <1>1 DEF Unwritten
  <2> QED
    BY <1>2, <2>1, FS_AddElement DEF LossInv
<1>4. BadLines' = BadLines /\ UNCHANGED <<faults, restarts>>
  BY <1>1 DEF BadLines, Record, bounds
<1>5. Cardinality(AboutToWrite') = Cardinality(AboutToWrite) + 1
  BY <1>1, WritersStep
<1> QED
  BY <1>3, <1>4, <1>5, ChargeTypes DEF LossInv, Charged

\* Store pays for the event it writes, or for the line it spoils.
LEMMA StoreCharged ==
    ASSUME BusInv, LossInv, NEW p \in Publishers, Store(p)
    PROVE  LossInv'
<1> TypeOK
  BY DEF BusInv
<1>1. /\ stage[p] = "recorded" /\ stage'[p] = "stored"
      /\ \A q \in Publishers \ {p} : stage'[q] = stage[q]
  BY AdvanceType DEF Store, Stages
<1>2. Cardinality(AboutToWrite') = Cardinality(AboutToWrite) - 1
  BY <1>1, WritersStep
<1>3. Recorded' = Recorded /\ restarts' = restarts
  BY DEF Store, Recorded
<1>4. holding[p] \in Events /\ holding[p] \in Unwritten
  BY <1>1 DEF BusInv, Holders, Recordings, Filings, Unwritten
<1>5. CASE UNCHANGED file /\ faults' = faults + 1
  <2>1. BadLines' = BadLines /\ Unwritten' = Unwritten
    BY <1>3, <1>5 DEF BadLines, Unwritten, Filed
  <2> QED
    BY <1>2, <1>3, <1>5, <2>1, ChargeTypes DEF LossInv, Charged
<1>6. ASSUME NEW cut \in Cuts, file' = Append(file, [event |-> holding[p], cut |-> cut]),
             IF cut = "whole" THEN faults' = faults ELSE faults' = faults + 1
      PROVE  LossInv'
  <2> DEFINE N == Len(file) + 1
             line == [event |-> holding[p], cut |-> cut]
  <2>1. line \in [event : Events, cut : Cuts]
    BY <1>4
  <2>2. /\ DOMAIN file' = DOMAIN file \cup {N}
        /\ file'[N] = line
        /\ \A i \in DOMAIN file : file'[i] = file[i]
    BY <1>6, <2>1, AppendElements DEF TypeOK
  <2>3. N \notin DOMAIN file
    BY LenProperties DEF TypeOK
  <2>4. line.event = holding[p] /\ line.cut = cut
    OBVIOUS
  <2> HIDE DEF N, line
  <2>5. Unwritten' = Unwritten \ {holding[p]}
    <3>1. Filed' = Filed \cup {holding[p]}
      BY <2>2, <2>4 DEF Filed
    <3> QED
      BY <1>3, <3>1 DEF Unwritten
  <2>6. /\ IsFiniteSet(Unwritten')
        /\ Cardinality(Unwritten') = Cardinality(Unwritten) - 1
    BY <1>4, <2>5, FS_RemoveElement DEF LossInv
  <2>7. CASE cut = "whole"
    <3>1. BadLines' = BadLines
      BY <2>2, <2>4, <2>7 DEF BadLines
    <3>2. faults' = faults
      BY <1>6, <2>7
    <3> QED
      BY <1>2, <1>3, <2>6, <3>1, <3>2, ChargeTypes DEF LossInv, Charged
  <2>8. CASE cut # "whole"
    <3>1. BadLines' = BadLines \cup {N} /\ N \notin BadLines
      BY <2>2, <2>3, <2>4, <2>8 DEF BadLines
    <3>2. /\ IsFiniteSet(BadLines')
          /\ Cardinality(BadLines') = Cardinality(BadLines) + 1
      BY <3>1, FS_AddElement DEF LossInv
    <3>3. faults' = faults + 1
      BY <1>6, <2>8
    <3> QED
      BY <1>2, <1>3, <2>6, <3>2, <3>3, ChargeTypes DEF LossInv, Charged
  <2> QED
    BY <2>7, <2>8
<1> QED
  BY <1>5, <1>6 DEF Store, Cuts

\* A restart gives up what goroutines had not written: one event of each.
LEMMA RestartCharged ==
    ASSUME TypeOK, LossInv, Restart
    PROVE  LossInv'
<1>1. BadLines' = BadLines /\ Unwritten' = Unwritten
  BY DEF Restart, BadLines, Unwritten, Recorded, Filed
<1>2. faults' = faults /\ restarts' = restarts + 1
  BY DEF Restart
<1>3. AboutToWrite' = {}
  BY DEF Restart, AboutToWrite
<1>4. Cardinality(AboutToWrite') = 0
  BY <1>3, FS_EmptySet
<1> QED
  BY <1>1, <1>2, <1>4, ChargeTypes DEF LossInv, Charged

\* Every step keeps the accounts.
LEMMA LossStep == BusInv /\ LossInv /\ [Next]_vars => LossInv'
<1> SUFFICES ASSUME BusInv, LossInv, [Next]_vars PROVE LossInv'
  OBVIOUS
<1> TypeOK
  BY DEF BusInv
<1>1. ASSUME UNCHANGED <<order, file, faults, restarts>>, AboutToWrite' = AboutToWrite
      PROVE  LossInv'
  BY <1>1 DEF LossInv, Charged, BadLines, Unwritten, Recorded, Filed
<1>2. ASSUME NEW p \in Publishers, Stamp(p) \/ CheckWebhook(p) \/ PostWebhook(p)
      PROVE  LossInv'
  <2>1. UNCHANGED <<order, file, faults, restarts>>
    BY <1>2 DEF Stamp, CheckWebhook, PostWebhook, bounds
  <2>2. /\ stage[p] # "recorded" /\ stage'[p] # "recorded"
        /\ \A q \in Publishers \ {p} : stage'[q] = stage[q]
    BY <1>2 DEF Stamp, CheckWebhook, PostWebhook, Advance, TypeOK
  <2>3. AboutToWrite' = AboutToWrite
    BY <2>2 DEF AboutToWrite
  <2> QED
    BY <1>1, <2>1, <2>3
<1>3. CASE \/ \E u \in Urls \cup {Off} : SetWebhookBegin(u)
           \/ SetWebhookEnd
           \/ \E c \in Clients : Subscribe(c) \/ Receive(c) \/ Cancel(c)
           \/ UNCHANGED vars
  <2>1. UNCHANGED <<order, file, faults, restarts, stage>>
    BY <1>3 DEF SetWebhookBegin, SetWebhookEnd, Subscribe, Receive, Cancel, vars,
                memory, bounds
  <2> QED
    BY <1>1, <2>1 DEF AboutToWrite
<1> QED
  BY <1>2, <1>3, RecordCharged, StoreCharged, RestartCharged DEF Next, Publish

\* A line that does not read is bad or follows a bad one.
LEMMA UnreadableLines ==
    ASSUME TypeOK, LossInv
    PROVE  /\ IsFiniteSet(DOMAIN file \ Readable(file))
           /\ Cardinality(DOMAIN file \ Readable(file)) <= 2 * Cardinality(BadLines)
<1> DEFINE After == {i \in DOMAIN file : i - 1 \in BadLines}
           next == [i \in BadLines |-> i + 1]
<1>1. DOMAIN file \subseteq Nat \ {0} /\ DOMAIN file = 1 .. Len(file)
  BY LenProperties DEF TypeOK
<1>2. DOMAIN file \ Readable(file) \subseteq BadLines \cup After
  BY <1>1 DEF Readable, BadLines
<1>3. \A i \in After : \E b \in BadLines : i = next[b]
  BY <1>1 DEF BadLines
<1>4. IsFiniteSet(BadLines)
  BY DEF LossInv
<1> HIDE DEF After, next
<1>5. IsFiniteSet(After) /\ Cardinality(After) <= Cardinality(BadLines)
  BY <1>3, <1>4, ImageBound
<1>6. /\ IsFiniteSet(BadLines \cup After)
      /\ Cardinality(BadLines \cup After) <= Cardinality(BadLines) + Cardinality(After)
  BY <1>4, <1>5, UnionBound
<1>7. /\ IsFiniteSet(DOMAIN file \ Readable(file))
      /\ Cardinality(DOMAIN file \ Readable(file)) <= Cardinality(BadLines \cup After)
  BY <1>2, <1>6, FS_Subset
<1>8. /\ Cardinality(BadLines) \in Nat /\ Cardinality(After) \in Nat
      /\ Cardinality(BadLines \cup After) \in Nat
      /\ Cardinality(DOMAIN file \ Readable(file)) \in Nat
  BY <1>4, <1>5, <1>6, <1>7, FS_CardinalityType
<1> QED
  BY <1>5, <1>6, <1>7, <1>8

\* An event that a restart would not find was not written, or is on such a line.
LEMMA LostBound ==
    ASSUME TypeOK, LossInv
    PROVE  /\ Cardinality(Recorded \ Recoverable) \in Nat
           /\ Cardinality(Recorded \ Recoverable)
                  <= 2 * Cardinality(BadLines) + Cardinality(Unwritten)
<1> DEFINE Spoilt == DOMAIN file \ Readable(file)
           OnThem == {e \in Filed : \E i \in Spoilt : file[i].event = e}
           eventOf == [i \in Spoilt |-> file[i].event]
<1>1. Recorded \ Recoverable \subseteq Unwritten \cup OnThem
  BY DEF Unwritten, Filed, Recoverable
<1>2. \A e \in OnThem : \E i \in Spoilt : e = eventOf[i]
  OBVIOUS
<1>3. IsFiniteSet(Spoilt) /\ Cardinality(Spoilt) <= 2 * Cardinality(BadLines)
  BY UnreadableLines
<1> HIDE DEF Spoilt, OnThem, eventOf
<1>4. IsFiniteSet(OnThem) /\ Cardinality(OnThem) <= Cardinality(Spoilt)
  BY <1>2, <1>3, ImageBound
<1>5. /\ IsFiniteSet(Unwritten \cup OnThem)
      /\ Cardinality(Unwritten \cup OnThem) <= Cardinality(Unwritten) + Cardinality(OnThem)
  BY <1>4, UnionBound DEF LossInv
<1>6. /\ IsFiniteSet(Recorded \ Recoverable)
      /\ Cardinality(Recorded \ Recoverable) <= Cardinality(Unwritten \cup OnThem)
  BY <1>1, <1>5, FS_Subset
<1>7. /\ Cardinality(BadLines) \in Nat /\ Cardinality(Unwritten) \in Nat
      /\ Cardinality(Spoilt) \in Nat /\ Cardinality(OnThem) \in Nat
      /\ Cardinality(Unwritten \cup OnThem) \in Nat
      /\ Cardinality(Recorded \ Recoverable) \in Nat
  BY <1>3, <1>4, <1>5, <1>6, FS_CardinalityType DEF LossInv
<1> QED
  BY <1>3, <1>4, <1>5, <1>6, <1>7

\* Of the events published, a restart finds all but those that failed writes and
\* killed goroutines account for, in any number of them (fileStore.append and
\* loadFileStore, which skips the lines that do not parse).
THEOREM LossesAccountedForAlways == Spec => []LossesAccountedFor
<1>1. Init => LossInv
  <2> SUFFICES ASSUME Init PROVE LossInv
    OBVIOUS
  <2>1. TypeOK /\ BadLines = {} /\ Unwritten = {} /\ AboutToWrite = {}
        /\ faults = 0 /\ restarts = 0
    BY InitTypeOK DEF Init, BadLines, Unwritten, Recorded, AboutToWrite
  <2>2. IsFiniteSet({}) /\ Cardinality({}) = 0
    BY FS_EmptySet
  <2> QED
    BY <2>1, <2>2, ChargeTypes DEF LossInv, Charged
<1>2. BusInv /\ LossInv => LossesAccountedFor
  <2> SUFFICES ASSUME TypeOK, LossInv PROVE LossesAccountedFor
    BY DEF BusInv
  <2>1. Cardinality(Recorded \ Recoverable)
            <= 2 * faults + restarts * Cardinality(Publishers) + Cardinality(AboutToWrite)
    BY LostBound, ChargeTypes DEF LossInv, Charged
  <2> QED
    BY <2>1 DEF LossesAccountedFor, Recorded, AboutToWrite
<1> QED
  BY <1>1, <1>2, BusInvariant, LossStep, PTL DEF Spec

=============================================================================
