----------------------------- MODULE Clipboard ------------------------------
(***************************************************************************)
(* The clipboard between the browser and the guest: the extended-clipboard *)
(* messages of rfb.js, the send queue they leave by (websock.js), and the  *)
(* page's Paste button (console-viewer.js). A message is taken as a whole: *)
(* how it is cut is the matter of Frames.                                  *)
(***************************************************************************)
EXTENDS Connection, Sequences, SequencesExt

CONSTANTS
    None,
    SendSize,      \* Websock._sQbufferSize, 10 KiB in the code
    Lengths,       \* bound: lengths of texts, in the same unit
    GuestCaps,     \* bound: the capabilities a guest may announce
    MaxCopies,     \* bound: texts copied, on both sides
    MaxPastes      \* bound: clicks on Paste

ASSUME ClipboardAssumption ==
    /\ SendSize \in Nat \ {0} /\ Lengths \subseteq Nat \ {0} /\ MaxCopies \in Nat
    /\ MaxPastes \in Nat

\* A guest that is to be told of a text must take it, too: the client provides
\* it to no other.
ASSUME GuestCapsAssumption ==
    /\ \A c \in GuestCaps :
          /\ c \subseteq {"text", "request", "peek", "notify", "provide"}
          /\ {"text", "notify"} \subseteq c => "provide" \in c
    /\ None \notin [at : Nat, units : Nat, latin : BOOLEAN, intact : BOOLEAN]

VARIABLES
    held,          \* RFB._clipboardText
    caps,          \* RFB._clipboardServerCapabilitiesFormats and -Actions
    reading,       \* the page waits for navigator.clipboard.readText
    toGuest,       \* messages under way to the guest
    toHost,        \* messages under way from it
    hostHas,       \* the browser's clipboard
    guestHas,      \* the guest's
    guestExtended, \* the guest knows that the client speaks the extension
    announces,     \* what the guest has yet to announce, or None
    clock,         \* texts copied so far
    clicks,        \* clicks on Paste so far
    pasted,        \* history variable: the last text given to clipboardPasteFrom
    crossed        \* history variable: a text of the guest's displaced that one

clipboard == <<held, caps, reading, toGuest, toHost, hostHas, guestHas, guestExtended,
               announces, clock, clicks, pasted, crossed>>

\* A text: when it was copied, how long it is, whether it is Latin-1, and
\* whether it is still what was copied.
Texts(at) == [at : {at}, units : Lengths, latin : BOOLEAN, intact : {TRUE}]
NoText == [at |-> 0, units |-> 1, latin |-> TRUE, intact |-> TRUE]

ClipboardInit ==
    /\ held = None /\ caps = {} /\ reading = FALSE
    /\ toGuest = <<>> /\ toHost = <<>>
    /\ hostHas = NoText /\ guestHas = NoText
    /\ guestExtended = FALSE /\ announces \in GuestCaps \cup {None}
    /\ clock = 0 /\ clicks = 0 /\ pasted = NoText /\ crossed = FALSE

-----------------------------------------------------------------------------
\* Websock.sQpushBytes: a chunk for what is free of the send queue, then one
\* for each queue full. The k-th unit of a chunk that starts at offset is taken
\* from where the text has it only while offset + k is not beyond the length of
\* the chunk: subarray(offset, chunkSize) is given a length for an end. Units
\* not taken are what the queue held before.
Chunk(n, free, i) ==
    LET offset == IF i <= free THEN 0 ELSE free + SendSize * ((i - free - 1) \div SendSize)
        room   == IF i <= free THEN free ELSE SendSize
    IN IF n - offset < room THEN n - offset ELSE room
Pushed(n, free) == [i \in 1 .. n |-> IF i <= Chunk(n, free, i) THEN i ELSE 0]

\* What the guest makes of a text that follows a header of one unit.
Sent(text) ==
    [text EXCEPT !.intact = @ /\ \A i \in 1 .. text.units : Pushed(text.units, SendSize - 1)[i] = i]

\* A text of the old message is Latin-1, and has question marks for the rest.
Masked(text) == [text EXCEPT !.intact = @ /\ text.latin]

Msg(kind, text) == [kind |-> kind, text |-> text, caps |-> {}]
ToGuest(kind, text) == toGuest' = Append(toGuest, Msg(kind, text))
ToHost(kind, text) == toHost' = Append(toHost, Msg(kind, text))

-----------------------------------------------------------------------------
\* The browser's user and the page.

HostCopies ==
    /\ clock < MaxCopies /\ conn = "connected"
    /\ clock' = clock + 1
    /\ hostHas' \in Texts(clock + 1)
    /\ UNCHANGED <<connection, held, caps, reading, toGuest, toHost, guestHas,
                   guestExtended, announces, clicks, pasted, crossed>>

\* btnPaste: the clipboard is read in the background.
PasteClicked ==
    /\ keys /\ ~reading /\ clicks < MaxPastes
    /\ reading' = TRUE /\ clicks' = clicks + 1
    /\ UNCHANGED <<connection, held, caps, toGuest, toHost, hostHas, guestHas,
                   guestExtended, announces, clock, pasted, crossed>>

\* The browser refuses, or there is nothing to paste.
PasteBlocked ==
    /\ reading
    /\ reading' = FALSE /\ status' = "clipboard blocked"
    /\ UNCHANGED <<conn, sock, clean, keys, box, late, disconnects, held, caps, toGuest, toHost,
                   hostHas, guestHas, guestExtended, announces, clock, clicks, pasted, crossed>>

\* Faulty: announces the text without keeping it.
PasteFromUnkept(text) ==
    /\ pasted' = text /\ crossed' = FALSE
    /\ IF {"text", "notify"} \subseteq caps THEN ToGuest("notify", text)
       ELSE ToGuest("cut", Sent(Masked(text)))
    /\ UNCHANGED held

\* clipboardPasteFrom, connected: a guest that wants to be told is, and comes
\* for the text; another gets it.
PasteFrom(text) ==
    /\ pasted' = text /\ crossed' = FALSE
    /\ IF {"text", "notify"} \subseteq caps
       THEN held' = text /\ ToGuest("notify", text)
       ELSE ToGuest("cut", Sent(Masked(text))) /\ UNCHANGED held

\* The text has been read. Whether the session is still up makes a difference
\* to the client, and none to what the page says.
Paste ==
    /\ reading /\ hostHas # NoText
    /\ reading' = FALSE /\ status' = "pasted"
    /\ IF conn = "connected" THEN PasteFrom(hostHas)
       ELSE UNCHANGED <<held, toGuest, pasted, crossed>>
    /\ UNCHANGED <<conn, sock, clean, keys, box, late, disconnects, caps, toHost,
                   hostHas, guestHas, guestExtended, announces, clock, clicks>>

-----------------------------------------------------------------------------
\* _handleServerCutText.

HostReceives(kind) ==
    /\ conn = "connected" /\ toHost # <<>> /\ Head(toHost).kind = kind
    /\ toHost' = Tail(toHost)
    /\ UNCHANGED <<reading, guestHas, guestExtended, announces, clock, clicks, pasted>>

\* The page puts a text of the guest's into the browser's clipboard, which may
\* refuse.
Clipped(text) ==
    /\ \/ hostHas' = text /\ status' = "copied"
       \/ UNCHANGED hostHas /\ status' = "guest clipboard updated"
    /\ UNCHANGED <<conn, sock, clean, keys, box, late, disconnects>>

CapsReceived ==
    /\ HostReceives("caps")
    /\ caps' = Head(toHost).caps
    /\ ToGuest("caps", NoText)
    /\ UNCHANGED <<connection, held, hostHas, crossed>>

\* A text that is no longer held is not provided, and nobody is told.
RequestReceived ==
    /\ HostReceives("request")
    /\ IF held # None /\ "provide" \in caps THEN ToGuest("provide", Sent(held))
       ELSE UNCHANGED toGuest
    /\ UNCHANGED <<connection, held, caps, hostHas, crossed>>

PeekReceived ==
    /\ HostReceives("peek")
    /\ IF "notify" \notin caps THEN UNCHANGED toGuest
       ELSE ToGuest("notify", IF held = None THEN NoText ELSE held)
    /\ UNCHANGED <<connection, held, caps, hostHas, crossed>>

NotifyReceived ==
    /\ HostReceives("notify")
    /\ IF "request" \in caps THEN ToGuest("request", NoText) ELSE UNCHANGED toGuest
    /\ UNCHANGED <<connection, held, caps, hostHas, crossed>>

\* A text from the guest displaces the one that is held.
ProvideReceived ==
    /\ HostReceives("provide")
    /\ held' = None
    /\ crossed' = (crossed \/ held # None)
    /\ Clipped(Head(toHost).text)
    /\ UNCHANGED <<caps, toGuest>>

TextReceived ==
    /\ HostReceives("text")
    /\ Clipped(Head(toHost).text)
    /\ UNCHANGED <<held, caps, toGuest, crossed>>

\* More than one action at a time.
OddReceived ==
    /\ HostReceives("odd") /\ Fails
    /\ UNCHANGED <<held, caps, toGuest, hostHas, crossed>>

-----------------------------------------------------------------------------
\* The guest: a VNC server with the extension, or without.

GuestAnnounces ==
    /\ conn = "connected" /\ announces # None
    /\ toHost' = Append(toHost, [Msg("caps", NoText) EXCEPT !.caps = announces])
    /\ announces' = None
    /\ UNCHANGED <<connection, held, caps, reading, toGuest, hostHas, guestHas,
                   guestExtended, clock, clicks, pasted, crossed>>

GuestCopies ==
    /\ conn = "connected" /\ clock < MaxCopies
    /\ clock' = clock + 1
    /\ guestHas' = [NoText EXCEPT !.at = clock + 1]
    /\ ToHost(IF guestExtended THEN "notify" ELSE "text", guestHas')
    /\ UNCHANGED <<connection, held, caps, reading, toGuest, hostHas, guestExtended,
                   announces, clicks, pasted, crossed>>

\* It peeks when it learns of the extension.
GuestReceives ==
    /\ conn = "connected" /\ toGuest # <<>>
    /\ toGuest' = Tail(toGuest)
    /\ LET m == Head(toGuest)
       IN CASE m.kind = "caps"    -> /\ guestExtended' = TRUE /\ UNCHANGED guestHas
                                     /\ ToHost("peek", NoText)
            [] m.kind = "request" -> ToHost("provide", guestHas) /\ UNCHANGED <<guestHas, guestExtended>>
            [] m.kind = "notify"  -> /\ UNCHANGED <<guestHas, guestExtended>>
                                     /\ IF m.text = NoText THEN UNCHANGED toHost
                                        ELSE ToHost("request", NoText)
            [] m.kind \in {"provide", "cut"} ->
                                     guestHas' = m.text /\ UNCHANGED <<toHost, guestExtended>>
    /\ UNCHANGED <<connection, held, caps, reading, hostHas, announces, clock, clicks, pasted, crossed>>

\* A guest that does not keep to the protocol.
GuestErrs ==
    /\ conn = "connected" /\ guestExtended /\ toHost = <<>>
    /\ ToHost("odd", NoText)
    /\ UNCHANGED <<connection, held, caps, reading, toGuest, hostHas, guestHas,
                   guestExtended, announces, clock, clicks, pasted, crossed>>

ClipboardNext ==
    \/ HostCopies \/ PasteClicked \/ PasteBlocked \/ Paste
    \/ CapsReceived \/ RequestReceived \/ PeekReceived \/ NotifyReceived
    \/ ProvideReceived \/ TextReceived \/ OddReceived
    \/ GuestAnnounces \/ GuestCopies \/ GuestReceives \/ GuestErrs

-----------------------------------------------------------------------------
ClipboardTypeOK ==
    /\ caps \subseteq {"text", "request", "peek", "notify", "provide"}
    /\ reading \in BOOLEAN /\ guestExtended \in BOOLEAN /\ crossed \in BOOLEAN
    /\ clock \in 0 .. MaxCopies /\ clicks \in 0 .. MaxPastes /\ pasted.at \in 0 .. MaxCopies
    /\ held # None => held.at \in 0 .. MaxCopies

Settled == conn = "connected" /\ toGuest = <<>> /\ toHost = <<>> /\ announces = None
Fits(text) == text.units < SendSize

\* When all that is under way has arrived, the guest has the text that was
\* pasted last, or one that it copied later. As it was, if it fits into the send
\* queue and, for a guest without the extension, is Latin-1. The exception is a
\* text that the guest had already sent when the paste was announced: it makes
\* the client forget what it announced.
PasteDelivered ==
    Settled /\ pasted # NoText /\ ~crossed =>
        /\ guestHas.at >= pasted.at
        /\ guestHas.at = pasted.at /\ Fits(pasted) /\ pasted.latin => guestHas.intact

=============================================================================
