------------------------------ MODULE EventBus ------------------------------
(***************************************************************************)
(* The event bus (internal/events): the ring of recent events and the      *)
(* subscriber channels behind one mutex, the JSONL file behind another,    *)
(* the webhook behind none, goroutines that publish, SSE clients that      *)
(* follow (streamEvents), failed and torn writes, and restarts that reload *)
(* the ring from the file.                                                 *)
(*                                                                         *)
(* An event is its rank in the order of creation: Publish stamps ID and    *)
(* Time before it takes the mutex.                                         *)
(***************************************************************************)
EXTENDS Naturals, Sequences, FiniteSets

CONSTANTS
    Publishers,    \* goroutines that call Publish
    Clients,       \* SSE streams
    Sees,          \* Sees[c]: the events eventVisible lets client c have
    MaxHistory,    \* Bus.maxHistory
    Cap,           \* capacity of a subscriber channel, 32 in the code
    Urls,          \* webhook URLs an administrator may configure
    Off,           \* the empty URL: no delivery
    MaxEvents,     \* bound: events created
    MaxFaults,     \* bound: writes to the file that fail
    MaxRestarts    \* bound: restarts of krytond

Events == 1 .. MaxEvents
None == 0                   \* no event

\* How much of an event's line reached the file.
Cuts == {"whole", "newline missing", "torn"}

Stages == {"idle", "made", "recorded", "stored", "posting"}

ASSUME SizesAssumption ==
    /\ MaxHistory \in Nat \ {0} /\ Cap \in Nat \ {0}
    /\ MaxEvents \in Nat /\ MaxFaults \in Nat /\ MaxRestarts \in Nat
ASSUME SeesAssumption == Sees \in [Clients -> SUBSET Events]
ASSUME OffAssumption == Off \notin Urls
ASSUME PublishersAssumption == IsFiniteSet(Publishers)

VARIABLES
    history,     \* Bus.history, newest first
    subs,        \* Bus.subs: the clients that are subscribed
    chan,        \* per client: what its channel buffers
    webhook,     \* Bus.webhook, a Go string: two words of memory
    writing,     \* SetWebhookURL's argument while it stores it, mu held
    file,        \* the JSONL file: what each write left, in order
    stage,       \* per goroutine: how far its Publish is
    holding,     \* per goroutine: the event it is publishing
    created,     \* bound and clock: events created so far
    faults,      \* bound: writes that failed
    restarts,    \* bound: restarts so far
    order,       \* history variable: all events recorded, in order of the lock
    joined,      \* history variable: Len(order) when the client subscribed
    lagged,      \* history variable: its channel was full when one was due
    wire,        \* history variable: what was streamed to the client
    posted       \* history variable: the strings requests were sent to

memory == <<history, subs, chan, stage, holding>>
hook == <<webhook, writing, posted>>
bounds == <<created, faults, restarts>>
stream == <<joined, lagged, wire>>
vars == <<memory, hook, file, bounds, order, stream>>

-----------------------------------------------------------------------------
\* Publish, as the goroutine p executes it.

Str(u) == [ptr |-> u, len |-> u]

\* mu is free: SetWebhookURL is not in its critical section.
Unlocked == writing = None

Advance(p, from, to) == stage[p] = from /\ stage' = [stage EXCEPT ![p] = to]

\* Faulty: makes room before it is needed.
PushedEarly(e, h) ==
    [i \in 1 .. (IF Len(h) + 1 < MaxHistory THEN Len(h) + 1 ELSE MaxHistory - 1) |->
        IF i = 1 THEN e ELSE h[i - 1]]

\* append([]Event{e}, b.history...)[:maxHistory]
Pushed(e, h) ==
    [i \in 1 .. (IF Len(h) < MaxHistory THEN Len(h) + 1 ELSE MaxHistory) |->
        IF i = 1 THEN e ELSE h[i - 1]]

\* Faulty: lets one event more into the channel than it can hold.
AcceptsOneMore(c) == Len(chan[c]) <= Cap

\* The select's send case is ready.
Accepts(c) == Len(chan[c]) < Cap

Stamp(p) ==
    /\ created < MaxEvents
    /\ Advance(p, "idle", "made")
    /\ created' = created + 1
    /\ holding' = [holding EXCEPT ![p] = created + 1]
    /\ UNCHANGED <<history, subs, chan, hook, file, faults, restarts, order, stream>>

\* Faulty: waits until every subscriber has room.
RecordBlocking(p) ==
    /\ Unlocked
    /\ \A c \in subs : Accepts(c)
    /\ Advance(p, "made", "recorded")
    /\ history' = Pushed(holding[p], history)
    /\ chan' = [c \in Clients |->
                   IF c \in subs THEN Append(chan[c], holding[p]) ELSE chan[c]]
    /\ order' = Append(order, holding[p])
    /\ UNCHANGED <<subs, holding, hook, file, bounds, stream>>

\* The critical section: onto the history and into every channel with room.
Record(p) ==
    /\ Unlocked
    /\ Advance(p, "made", "recorded")
    /\ history' = Pushed(holding[p], history)
    /\ chan' = [c \in Clients |-> IF c \in subs /\ Accepts(c)
                                    THEN Append(chan[c], holding[p])
                                    ELSE chan[c]]
    /\ order' = Append(order, holding[p])
    /\ lagged' = [c \in Clients |->
                     lagged[c] \/ (c \in subs /\ Len(chan[c]) = Cap)]
    /\ UNCHANGED <<subs, holding, hook, file, bounds, joined, wire>>

\* Faulty: repeats an append that succeeded.
StoreTwice(p) ==
    /\ stage[p] = "recorded"
    /\ file' = Append(file, [event |-> holding[p], cut |-> "whole"])
    /\ stage' = [stage EXCEPT ![p] = IF Len(file) = 0 THEN "recorded" ELSE "stored"]
    /\ UNCHANGED <<history, subs, chan, holding, hook, bounds, order, stream>>

\* fileStore.append, under its own mutex: the line is written, or all of it is
\* lost, or part of it reaches the file; Publish goes on in every case.
Store(p) ==
    /\ Advance(p, "recorded", "stored")
    /\ \/ /\ file' = Append(file, [event |-> holding[p], cut |-> "whole"])
          /\ UNCHANGED faults
       \/ /\ faults < MaxFaults
          /\ faults' = faults + 1
          /\ \/ UNCHANGED file
             \/ \E cut \in Cuts \ {"whole"} :
                   file' = Append(file, [event |-> holding[p], cut |-> cut])
    /\ UNCHANGED <<history, subs, chan, holding, hook, created, restarts, order,
                   stream>>

\* `if b.webhook != ""`, read without mu; the comparison looks at the length.
CheckWebhook(p) ==
    /\ stage[p] = "stored"
    /\ LET skip == webhook.len = Off IN
       /\ stage' = [stage EXCEPT ![p] = IF skip THEN "idle" ELSE "posting"]
       /\ holding' = [holding EXCEPT ![p] = IF skip THEN None ELSE @]
    /\ UNCHANGED <<history, subs, chan, hook, file, bounds, order, stream>>

\* deliverWebhook: b.webhook is read again, again without mu; a request to ""
\* is not sent, and one that fails is only logged.
PostWebhook(p) ==
    /\ Advance(p, "posting", "idle")
    /\ holding' = [holding EXCEPT ![p] = None]
    /\ posted' = IF webhook.len = Off THEN posted ELSE posted \cup {webhook}
    /\ UNCHANGED <<history, subs, chan, webhook, writing, file, bounds, order, stream>>

-----------------------------------------------------------------------------
\* SetWebhookURL: the assignment stores the string's two words one by one, in
\* an order the compiler chooses, and readers without mu may see it half done.

SetWebhookBegin(u) ==
    /\ Unlocked
    /\ webhook # Str(u)
    /\ writing' = u
    /\ \E word \in {"ptr", "len"} : webhook' = [webhook EXCEPT ![word] = u]
    /\ UNCHANGED <<memory, posted, file, bounds, order, stream>>

SetWebhookEnd ==
    /\ ~Unlocked
    /\ webhook' = Str(writing)
    /\ writing' = None
    /\ UNCHANGED <<memory, posted, file, bounds, order, stream>>

-----------------------------------------------------------------------------
\* streamEvents.

Subscribe(c) ==
    /\ Unlocked
    /\ c \notin subs
    /\ subs' = subs \cup {c}
    /\ chan' = [chan EXCEPT ![c] = <<>>]
    /\ joined' = [joined EXCEPT ![c] = Len(order)]
    /\ lagged' = [lagged EXCEPT ![c] = FALSE]
    /\ wire' = [wire EXCEPT ![c] = <<>>]
    /\ UNCHANGED <<history, stage, holding, hook, file, bounds, order>>

\* Faulty: takes the newest buffered event.
ReceiveNewest(c) ==
    /\ c \in subs /\ chan[c] # <<>>
    /\ LET n == Len(chan[c]) IN
       /\ chan' = [chan EXCEPT ![c] = SubSeq(@, 1, n - 1)]
       /\ wire' = [wire EXCEPT ![c] =
                      IF chan[c][n] \in Sees[c] THEN Append(@, chan[c][n]) ELSE @]
    /\ UNCHANGED <<history, subs, stage, holding, hook, file, bounds, order, joined,
                   lagged>>

\* One turn of the loop; an event the client may not see is skipped.
Receive(c) ==
    /\ c \in subs /\ chan[c] # <<>>
    /\ LET e == Head(chan[c]) IN
       /\ chan' = [chan EXCEPT ![c] = Tail(@)]
       /\ wire' = [wire EXCEPT ![c] = IF e \in Sees[c] THEN Append(@, e) ELSE @]
    /\ UNCHANGED <<history, subs, stage, holding, hook, file, bounds, order, joined,
                   lagged>>

\* The client disconnects; the deferred cancel closes and forgets its channel.
Cancel(c) ==
    /\ Unlocked
    /\ c \in subs
    /\ subs' = subs \ {c}
    /\ chan' = [chan EXCEPT ![c] = <<>>]
    /\ UNCHANGED <<history, stage, holding, hook, file, bounds, order, stream>>

-----------------------------------------------------------------------------
\* Restart.

\* Faulty: stops at the first line that does not parse.
ReadableUntilBad(f) ==
    {i \in DOMAIN f : \A j \in 1 .. i : f[j].cut = "whole"}

\* The writes that survive as a line json.Unmarshal accepts: complete, and not
\* run together with the write before or after it for want of a newline.
Readable(f) ==
    {i \in DOMAIN f : /\ f[i].cut # "torn"
                      /\ i = 1 \/ f[i - 1].cut = "whole"
                      /\ i = Len(f) \/ f[i].cut = "whole"}

\* loadFileStore: the last maxHistory readable lines, reversed.
Loaded(f, h) ==
    \E n \in 0 .. MaxHistory :
    \E at \in [1 .. n -> Readable(f)] :
       /\ \A i, j \in 1 .. n : i < j => at[i] > at[j]
       /\ \A k \in Readable(f) : k \in {at[i] : i \in 1 .. n}
                                    \/ (n = MaxHistory /\ k < at[n])
       /\ h = [i \in 1 .. n |-> f[at[i]].event]

\* krytond stops or is killed, at any point, and starts again: New.  What the
\* goroutines held and what was only in memory is gone; clients reconnect.
Restart ==
    /\ restarts < MaxRestarts
    /\ restarts' = restarts + 1
    /\ \E n \in 0 .. MaxHistory :
       \E h \in [1 .. n -> {file[i].event : i \in DOMAIN file}] :
          Loaded(file, h) /\ history' = h
    /\ subs' = {}
    /\ chan' = [c \in Clients |-> <<>>]
    /\ stage' = [p \in Publishers |-> "idle"]
    /\ holding' = [p \in Publishers |-> None]
    /\ writing' = None
    /\ \E u \in Urls \cup {Off} : webhook' = Str(u)
    /\ UNCHANGED <<posted, file, created, faults, order, stream>>

-----------------------------------------------------------------------------

Init ==
    /\ history = <<>> /\ file = <<>> /\ order = <<>>
    /\ subs = {}
    /\ chan = [c \in Clients |-> <<>>]
    /\ \E u \in Urls \cup {Off} : webhook = Str(u)
    /\ writing = None
    /\ posted = {}
    /\ stage = [p \in Publishers |-> "idle"]
    /\ holding = [p \in Publishers |-> None]
    /\ created = 0 /\ faults = 0 /\ restarts = 0
    /\ joined = [c \in Clients |-> 0]
    /\ lagged = [c \in Clients |-> FALSE]
    /\ wire = [c \in Clients |-> <<>>]

Publish(p) ==
    Stamp(p) \/ Record(p) \/ Store(p) \/ CheckWebhook(p) \/ PostWebhook(p)

Next ==
    \/ \E p \in Publishers : Publish(p)
    \/ \E u \in Urls \cup {Off} : SetWebhookBegin(u)
    \/ SetWebhookEnd
    \/ \E c \in Clients : Subscribe(c) \/ Receive(c) \/ Cancel(c)
    \/ Restart

Spec == Init /\ [][Next]_vars

\* A goroutine inside Publish or SetWebhookURL runs on: the webhook request has a
\* 3 s timeout, and a goroutine that waits for a sync.RWMutex gets it in the end
\* although others take it again and again, hence SF.  Nothing is assumed of the
\* clients: one that stays connected and never reads blocks only the goroutine
\* that writes to it.
FairSpec ==
    /\ Spec
    /\ \A p \in Publishers : SF_vars(stage[p] # "idle" /\ Publish(p))
    /\ WF_vars(SetWebhookEnd)

-----------------------------------------------------------------------------
\* Properties.

\* Every variable holds a value of the kind the Go declarations give it; the
\* ring and the channels stay within their capacity.
TypeOK ==
    /\ history \in Seq(Events) /\ Len(history) <= MaxHistory
    /\ subs \subseteq Clients
    /\ chan \in [Clients -> Seq(Events)]
    /\ \A c \in Clients : Len(chan[c]) <= Cap
    /\ webhook \in [ptr : Urls \cup {Off}, len : Urls \cup {Off}]
    /\ writing \in Urls \cup {Off, None}
    /\ posted \subseteq [ptr : Urls \cup {Off}, len : Urls]
    /\ file \in Seq([event : Events, cut : Cuts])
    /\ stage \in [Publishers -> Stages]
    /\ holding \in [Publishers -> Events \cup {None}]
    /\ created \in 0 .. MaxEvents
    /\ faults \in 0 .. MaxFaults /\ restarts \in 0 .. MaxRestarts
    /\ order \in Seq(Events)
    /\ joined \in [Clients -> Nat]
    /\ lagged \in [Clients -> BOOLEAN]
    /\ wire \in [Clients -> Seq(Events)]

\* No event is listed twice, whatever was written, torn and reloaded.
NoRepeats == \A i, j \in DOMAIN history : history[i] = history[j] => i = j

\* What was recorded since the client subscribed.
Due(c) == joined[c] + 1 .. Len(order)

\* What a client has been sent and what its channel still holds was recorded since
\* it subscribed, and comes in the order of the recording, each event once; it is
\* sent only what it may see; and what it may see is missing only after its
\* channel was full.
StreamsFollowHistory ==
    \A c \in subs :
        LET got == wire[c] \o chan[c] IN
        /\ \A i \in DOMAIN got : \E k \in Due(c) : order[k] = got[i]
        /\ \A i, j \in DOMAIN got, k, l \in Due(c) :
              i < j /\ order[k] = got[i] /\ order[l] = got[j] => k < l
        /\ \A i \in DOMAIN wire[c] : wire[c][i] \in Sees[c]
        /\ ~lagged[c] =>
              \A k \in Due(c) : order[k] \in Sees[c] =>
                  \E i \in DOMAIN got : got[i] = order[k]

\* The events a restart would find in the file.
Recoverable == {file[i].event : i \in Readable(file)}

\* Of the events recorded, those a restart would not find: the one of each write
\* that failed, and at most the next, whose line it ran into; those whose
\* goroutine a restart killed; those not yet written.  No other is ever lost.
LossesAccountedFor ==
    Cardinality({order[i] : i \in DOMAIN order} \ Recoverable)
        <= 2 * faults + restarts * Cardinality(Publishers)
             + Cardinality({p \in Publishers : stage[p] = "recorded"})

\* A Publish that has begun comes to an end, or krytond restarts, even when
\* subscribers never read.
PublishReturns ==
    \A p \in Publishers :
        \A n \in 0 .. MaxRestarts :
            (stage[p] # "idle" /\ restarts = n) ~> (stage[p] = "idle" \/ restarts # n)

\* "List returns the most recent events, newest first".
NewestFirst == \A i, j \in DOMAIN history : i < j => history[i] > history[j]

\* A request goes to a URL that an administrator configured.
PostsGoWhereConfigured == \A w \in posted : w.ptr = w.len

\* The bus implements EventLog.
Log == INSTANCE EventLog WITH
           Window <- MaxHistory,
           issued <- {order[i] : i \in DOMAIN order},
           shown <- history

ImplementsEventLog == Log!Spec

=============================================================================
