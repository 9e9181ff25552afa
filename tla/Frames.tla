------------------------------ MODULE Frames --------------------------------
(***************************************************************************)
(* A connected console (rfb.js in novnc-rfb.js): the server's stream, cut  *)
(* anywhere by the network, goes through the receive queue (Websock) to    *)
(* the message loop and the rectangle decoders (Decoders), which draw on   *)
(* the screen (Display); the browser decodes images in the background, and *)
(* a new update waits until the one before it is on the screen.            *)
(*                                                                         *)
(* JavaScript runs one task at a time: between two tasks pc is "idle", and *)
(* the steps of a task interleave with nothing.                            *)
(***************************************************************************)
EXTENDS Websock, Display, Decoders, Stream

CONSTANTS
    Scripts,       \* bound: the streams a server may send
    Stages         \* of each of them, where it is before each of its units

\* A server keeps to the protocol.
ASSUME ScriptsAssumption == \A s \in Scripts : KeepsProtocol(s, Stages[s])

VARIABLES
    script,        \* what the server will have said in the end
    written,       \* units of it written to the socket
    pc,            \* where the running task is, or "idle"
    conn,          \* RFB._rfbConnectionState
    rects,         \* RFB._FBU.rects
    rect,          \* RFB._FBU: header of the rectangle, or none
    dec,           \* what the rectangle's decoder remembers
    kept,          \* what the decoders remember beyond a rectangle
    inflated,      \* per inflator: blocks since it was reset
    flushing,      \* RFB._flushing
    asked,         \* the server has an update request to answer
    updates,       \* RFB._supports- and _enabledContinuousUpdates
    misread,       \* history variable: a unit was taken for another
    astray,        \* history variable: the protocol was left, or a palette kept
    skipped,       \* history variable: an empty update met a busy screen
    resizes        \* history variable: ranks in issued of the flips of resizes

loop == <<pc, conn, rects, rect, dec, kept, inflated, flushing, updates>>
server == <<script, written, asked>>
history == <<misread, astray, skipped, resizes>>
vars == <<queue, display, loop, server, history>>

\* No unit, and no rectangle under way.
Blank == [role |-> "none", k |-> "none", n |-> 0, z |-> {}, paints |-> FALSE, ends |-> FALSE,
          strays |-> FALSE]
NoRect == Blank

Init ==
    /\ QueueInit /\ DisplayInit
    /\ script \in Scripts /\ written = 0
    /\ pc = "idle" /\ conn = "connected"
    /\ rects = 0 /\ rect = NoRect /\ dec = Start /\ kept = {}
    /\ inflated = [i \in Inflators |-> 0]
    /\ flushing = FALSE
    /\ asked = TRUE             \* _negotiateServerInit has asked for all of it
    /\ updates = "unsupported"
    /\ misread = FALSE /\ astray = FALSE /\ skipped = FALSE /\ resizes = {}

-----------------------------------------------------------------------------
\* The server and the network.

IsUpdate(i) == script[i].role = "type" /\ script[i].k = "update"

\* A server that keeps to the protocol sends an update when it was asked for
\* one, or when continuous updates are on.
ServerWrites ==
    /\ \E end \in written + 1 .. Len(script) :
          /\ script[end].ends /\ \A i \in written + 1 .. end - 1 : ~script[i].ends
          /\ written' = end
    /\ IsUpdate(written + 1) => asked \/ updates = "enabled"
    /\ asked' = (asked /\ ~IsUpdate(written + 1))
    /\ UNCHANGED <<queue, display, loop, history, script>>

\* A message event with n units, and _handleMessage when it starts to loop: a
\* console that waits for its screen lets them lie, a disconnected one has
\* closed the socket.
Arrive(n) ==
    /\ pc = "idle" /\ conn = "connected" /\ ~overrun
    /\ n <= written - arrived
    /\ RecvMessage(n)
    /\ pc' = IF flushing \/ overrun' THEN "idle" ELSE "loop"
    /\ UNCHANGED <<display, conn, rects, rect, dec, kept, inflated, flushing, updates,
                   server, history>>

-----------------------------------------------------------------------------
\* _handleMessage and _normalMsg.

Unit == script[Peek(1)]
Upcoming == IF RQwait(1) THEN Blank ELSE Unit

\* Whether the first units unread are what a handler takes them for.
ReadAs(roles) == \A i \in 1 .. Len(roles) : script[Peek(i)].role = roles[i]

\* Whether the server leaves the protocol with one of the first n units unread.
Strays(n) == \E i \in 1 .. n : script[Peek(i)].strays

Reads(roles) ==
    /\ RQshift(Len(roles))
    /\ misread' = (misread \/ ~ReadAs(roles))
    /\ astray' = (astray \/ Strays(Len(roles)))

\* _fail: to disconnecting and, at once, to disconnected.
Fail == conn' = "disconnected"

rest == <<rects, rect, dec, kept, inflated>>

\* The rest of an update that a pause interrupted is not a new message.
ResumeUpdate ==
    /\ pc = "loop" /\ rects > 0
    /\ pc' = "rects"
    /\ UNCHANGED <<queue, display, conn, rest, flushing, updates, server, history>>

\* Types that have more to read, and the handler that reads it.
Handler == [update |-> "header", cuttext |-> "cuttext", fence |-> "fence", xvp |-> "xvp"]

ReadType ==
    /\ pc = "loop" /\ rects = 0
    /\ Unit.k \in DOMAIN Handler
    /\ pc' = Handler[Unit.k]
    /\ Reads(<<"type">>)
    /\ UNCHANGED <<display, conn, rest, flushing, updates, server, skipped, resizes>>

\* Types that are a message in themselves. Colour map entries and an unknown
\* type fail; after the latter the loop goes on.
Bell ==
    /\ pc = "loop" /\ rects = 0 /\ Unit.k = "bell"
    /\ Reads(<<"type">>) /\ pc' = "next"
    /\ UNCHANGED <<display, conn, rest, flushing, updates, server, skipped, resizes>>

EndOfContinuousUpdates ==
    /\ pc = "loop" /\ rects = 0 /\ Unit.k = "continuous"
    /\ Reads(<<"type">>) /\ pc' = "next"
    /\ updates' = IF updates = "unsupported" THEN "enabled" ELSE "disabled"
    /\ UNCHANGED <<display, conn, rest, flushing, server, skipped, resizes>>

BadType ==
    /\ pc = "loop" /\ rects = 0
    /\ Unit.k \notin DOMAIN Handler \cup {"bell", "continuous"}
    /\ Reads(<<"type">>) /\ Fail
    /\ pc' = IF Unit.k = "colourmap" THEN "idle" ELSE "next"
    /\ UNCHANGED <<display, rest, flushing, updates, server, skipped, resizes>>

\* return true: on with the loop while there is something to read.
NextMessage ==
    /\ pc = "next"
    /\ pc' = IF RQwait(1) THEN "idle" ELSE "loop"
    /\ UNCHANGED <<queue, display, conn, rest, flushing, updates, server, history>>

\* Faulty: forgets to put back the type.
StarvedForgetful(h, n) == pc = h /\ RQwait(n) /\ pc' = "idle" /\ UNCHANGED queue

\* rQwait(.., goback): not all of the message has come, and what was read of
\* it is put back.
Starved(h, n) == pc = h /\ RQwait(n) /\ pc' = "idle" /\ RQgoback(1)

MessageStarves ==
    /\ Starved("header", 1) \/ Starved("cuttext", 2) \/ Starved("fence", 2 + Upcoming.n)
       \/ Starved("xvp", 1)
    /\ UNCHANGED <<display, conn, rest, flushing, updates, server, history>>

\* _handleServerCutText; what it tells the page is Clipboard's. Of an extended
\* message the length stands for the action as well: one that provides other
\* formats than text is left where it is, and one the console does not know
\* fails.
ServerCutText ==
    /\ pc = "cuttext" /\ ~RQwait(2)
    /\ Reads(IF Unit.k \in {"other", "bad"} THEN <<"length">> ELSE <<"length", "text">>)
    /\ IF Unit.k = "bad" THEN pc' = "idle" /\ Fail ELSE pc' = "next" /\ UNCHANGED conn
    /\ UNCHANGED <<display, rest, flushing, updates, server, skipped, resizes>>

\* _handleServerFenceMsg waits for the whole payload and reads 64 bytes of it:
\* the flags' n counts the units that are more. It answers a request, and fails
\* on anything else.
ServerFence ==
    /\ pc = "fence" /\ ~RQwait(2 + Upcoming.n)
    /\ Reads(<<"flags", "payload">>)
    /\ IF Unit.k = "request" THEN pc' = "next" /\ UNCHANGED conn
       ELSE pc' = "idle" /\ Fail
    /\ UNCHANGED <<display, rest, flushing, updates, server, skipped, resizes>>

\* _handleXvpMsg: an illegal message fails, and the loop goes on.
Xvp ==
    /\ pc = "xvp" /\ ~RQwait(1)
    /\ Reads(<<"power">>) /\ pc' = "next"
    /\ IF Unit.k = "illegal" THEN Fail ELSE UNCHANGED conn
    /\ UNCHANGED <<display, rest, flushing, updates, server, skipped, resizes>>

-----------------------------------------------------------------------------
\* _framebufferUpdate.

\* The header of an update: while the last update is not on the screen, the
\* loop stops for the promise of flush. An update without rectangles is then
\* forgotten, with its flip and its request.
UpdateHeader ==
    /\ pc = "header" /\ ~RQwait(1)
    /\ Reads(<<"rects">>)
    /\ rects' = Unit.n
    /\ flushing' = Pending
    /\ pc' = IF Pending THEN "idle" ELSE "rects"
    /\ flushPromise' = (flushPromise \/ Pending)
    /\ skipped' = (skipped \/ (Pending /\ Unit.n = 0))
    /\ UNCHANGED <<renderQ, images, screen, issued, conn, rect, dec, kept, inflated,
                   updates, server, resizes>>

RectHeader ==
    /\ pc = "rects" /\ rects > 0 /\ rect = NoRect
    /\ IF RQwait(1) THEN pc' = "idle" /\ UNCHANGED <<queue, rect, misread, astray>>
       ELSE Reads(<<"rect">>) /\ rect' = Unit /\ UNCHANGED pc
    /\ UNCHANGED <<display, conn, rects, dec, kept, inflated, flushing, updates, server,
                   skipped, resizes>>

CurrentStep == DecodeRect(rect, dec, kept, Upcoming)
AtRect == pc = "rects" /\ rects > 0 /\ rect # NoRect

\* The decoder lacks data and keeps what it knows.
DecoderStarves ==
    /\ AtRect /\ RQwait(Len(CurrentStep.reads))
    /\ pc' = "idle"
    /\ UNCHANGED <<queue, display, conn, rest, flushing, updates, server, history>>

\* A fill with undefined throws at once, unless it has to wait for an image.
Throws(d) == d.fails \/ (d.draws = "void" /\ ~Pending)

\* The decoder throws, or there is none.
DecoderFails ==
    /\ AtRect /\ Throws(CurrentStep) /\ ~RQwait(Len(CurrentStep.reads))
    /\ pc' = "idle" /\ Fail
    /\ UNCHANGED <<queue, display, rest, flushing, updates, server, history>>

\* A block is compressed in the context of those before it.
OutOfContext(u) == u.role = "block" /\ \E i \in u.z : u.n # inflated[i] + 1
Inflates(u) ==
    inflated' = [i \in Inflators |->
                    IF i \notin u.z \/ rect.k = "tightpng" THEN inflated[i]
                    ELSE IF u.role = "block" THEN inflated[i] + 1 ELSE 0]

\* The rectangle has a palette, and step d goes on without it.
Overlooks(d, u) == d.reads = <<"filter">> /\ u.k = "palette" /\ d.next.at # "palette"

\* A size that the server has imposed or agreed to.
IsResize(u) == rect.k = "desktopsize" \/ (rect.k = "layout" /\ u.k = "accepted")

\* One step of the decoder; at the end of the rectangle, the next one.
DecodeStep ==
    LET d == CurrentStep
        n == Len(d.reads)
        u == IF n = 0 THEN Blank ELSE script[Peek(n)]
    IN /\ AtRect /\ ~Throws(d) /\ ~RQwait(n)
       /\ RQshift(n)
       /\ misread' = (misread \/ ~ReadAs(d.reads) \/ OutOfContext(u))
       /\ astray' = (astray \/ Strays(n) \/ Overlooks(d, Upcoming))
       /\ Inflates(u)
       /\ dec' = d.next
       /\ kept' = Remembers(rect, dec, kept, Upcoming)
       /\ pc' = IF d.stops THEN "idle" ELSE pc
       /\ rect' = IF d.ends THEN NoRect ELSE rect
       /\ rects' = IF ~d.ends THEN rects ELSE IF rect.k = "lastrect" THEN 0 ELSE rects - 1
       /\ IF d.draws # NoDraw
          THEN HandOver(Draw(d.draws, Peek(n), rQ[0])) /\ UNCHANGED resizes
          ELSE IF d.ends /\ IsResize(u)
          THEN IF rect.n = 1
               THEN ChangeSize /\ resizes' = resizes \cup {Len(issued')}
               ELSE UNCHANGED <<display, resizes>>
          ELSE UNCHANGED <<display, resizes>>
       /\ UNCHANGED <<conn, flushing, updates, server, skipped>>

\* Faulty: does not ask for the next update.
UpdateDoneUnasked ==
    /\ pc = "rects" /\ rects = 0
    /\ HandOver(Flip)
    /\ pc' = "next"
    /\ UNCHANGED <<queue, conn, rest, flushing, updates, server, history>>

\* The update is complete: it is flipped to the visible canvas, and unless
\* they come by themselves the next one is asked for.
UpdateDone ==
    /\ pc = "rects" /\ rects = 0
    /\ HandOver(Flip)
    /\ asked' = (asked \/ updates # "enabled")
    /\ pc' = "next"
    /\ UNCHANGED <<queue, conn, rest, flushing, updates, script, written, history>>

-----------------------------------------------------------------------------
\* The browser.

\* An image is decoded. If that empties the queue, the callback of flush runs
\* next, and reads on.
Load(w) ==
    /\ pc = "idle" /\ w \in Decoding
    /\ ImageLoads(w)
    /\ pc' = IF flushPromise /\ ~flushPromise' THEN "flushed" ELSE "idle"
    /\ UNCHANGED <<queue, conn, rest, flushing, updates, server, history>>

Break(w) ==
    /\ pc = "idle" /\ w \in Decoding
    /\ ImageBreaks(w)
    /\ UNCHANGED <<queue, loop, server, history>>

\* Faulty: what came in while the console waited stays where it is.
FlushedAsleep ==
    /\ pc = "flushed"
    /\ flushing' = FALSE /\ pc' = "idle"
    /\ UNCHANGED <<queue, display, conn, rest, updates, server, history>>

\* The callback of flush reads what came in while the console waited.
Flushed ==
    /\ pc = "flushed"
    /\ flushing' = FALSE
    /\ pc' = IF RQwait(1) \/ conn # "connected" THEN "idle" ELSE "loop"
    /\ UNCHANGED <<queue, display, conn, rest, updates, server, history>>

-----------------------------------------------------------------------------
Message == ResumeUpdate \/ ReadType \/ Bell \/ EndOfContinuousUpdates \/ BadType
           \/ NextMessage \/ MessageStarves \/ ServerCutText \/ ServerFence \/ Xvp
Update == UpdateHeader \/ RectHeader \/ DecoderStarves \/ DecoderFails \/ DecodeStep
          \/ UpdateDone
Task == Message \/ Update \/ Flushed

Next ==
    \/ ServerWrites
    \/ \E n \in 1 .. MaxGrow : Arrive(n)
    \/ Task
    \/ \E w \in Decoding : Load(w) \/ Break(w)

Spec == Init /\ [][Next]_vars

\* A task that has begun runs to its end, and the browser decodes images; the
\* server and the network owe nothing.
FairSpec ==
    /\ Spec
    /\ WF_vars(Task)
    /\ WF_vars(\E w \in Decoding : Load(w) \/ Break(w))

-----------------------------------------------------------------------------
\* Correctness.

LoopTypeOK ==
    /\ script \in Scripts /\ written \in 0 .. Len(script) /\ arrived <= written
    /\ pc \in {"idle", "loop", "next", "header", "cuttext", "fence", "xvp", "rects", "flushed"}
    /\ conn \in {"connected", "disconnected"}
    /\ rects \in Nat /\ rect.n \in Nat
    /\ dec.left \in Nat /\ kept \subseteq Keepsakes
    /\ inflated \in [Inflators -> Nat]
    /\ flushing \in BOOLEAN /\ asked \in BOOLEAN
    /\ updates \in {"unsupported", "enabled", "disabled"}
    /\ misread \in BOOLEAN /\ astray \in BOOLEAN /\ skipped \in BOOLEAN /\ resizes \subseteq Nat

\* The queue, the screen and the message loop hold what they are meant to.
TypeOK == QueueTypeOK /\ DisplayTypeOK /\ LoopTypeOK

\* No handler and no decoder takes a unit of the stream for another, however
\* often it had to stop and start again for want of data; no compressed block
\* is inflated in a context other than the one the server deflated it in. (The
\* exceptions are a stream that has left the protocol, and a palette that Tight
\* overlooks for the one an empty rectangle has left behind.)
InStep == misread => astray

\* The units the server means to be seen, of the first n; whether unit n ends
\* an update; what has been drawn with the first b operations.
Painting(n) == {i \in 1 .. n : script[i].paints}
UpdateEnd(n) == script[n].ends /\ script[n].role \notin {"type", "text", "payload", "power"}
DrawnBy(b) == {issued[i].want : i \in {j \in 1 .. b : ~IsFlip(issued[j])}}

DrawnAsSent ==
    /\ DrawnBy(Len(issued)) = Painting(taken)
    /\ \A i, j \in DOMAIN issued :
          i < j /\ ~IsFlip(issued[i]) /\ ~IsFlip(issued[j]) => issued[i].want < issued[j].want
    /\ \A i \in DOMAIN issued :
          issued[i].got # issued[i].want => issued[i].kind = "view" /\ issued[i].queued

\* What the decoders have drawn is what the server meant with all they have
\* read, each unit once and in the stream's order, unless the stream has gone
\* astray. Bytes other than those meant are drawn of a view only that had to
\* wait for an image.
PaintedAsSent == astray \/ DrawnAsSent

\* The visible canvas never shows half an update: what it shows is all that the
\* complete updates drew, or all there was when the screen changed size.
WholeUpdates ==
    \/ astray
    \/ \E b \in 0 .. Len(executed) :
          /\ visible = 1 .. b
          /\ \/ b \in resizes
             \/ \E n \in 0 .. taken : (n = 0 \/ UpdateEnd(n)) /\ DrawnBy(b) = Painting(n)

\* The chain of requests does not break: when everything sent has been dealt
\* with, the server owes an update or sends them by itself. (An update of no
\* rectangles that met a busy screen breaks it, as would a server that ends
\* continuous updates unasked.)
AskedForMore ==
    pc = "idle" /\ conn = "connected" /\ taken = written /\ ~flushing /\ rects = 0
    => asked \/ updates # "unsupported" \/ skipped \/ astray

\* As long as the browser decodes every image, the console ends up showing
\* every update that has arrived as a whole.
CatchesUp ==
    <>[](conn = "connected" /\ broken = {} /\ ~overrun /\ ~astray
           => \A n \in 1 .. arrived :
                 UpdateEnd(n) => Painting(n) \subseteq {executed[i].want : i \in visible})

=============================================================================
