--------------------------- MODULE ConsoleProofs ----------------------------
(***************************************************************************)
(* For every set of servers, guests and keyboards: the page and the        *)
(* connection agree at the end of every task, the size of the desktop      *)
(* settles, and client and server are never out of step in the handshake.  *)
(***************************************************************************)
EXTENDS Console, WellFoundedInduction, TLAPS

-----------------------------------------------------------------------------
\* The page.

\* Where the connection, its socket and the handshake stand to one another: a
\* socket that has not opened has begun no handshake, and a session that was up
\* has none left that could fail.
PageShape ==
    /\ conn \in {"", "connecting", "connected", "disconnected"}
    /\ clean \in BOOLEAN
    /\ conn = "" <=> sock = "unused"
    /\ conn = "connecting" => sock \in {"connecting", "open"}
    /\ status = "loading" => conn = ""
    /\ sock \in {"unused", "connecting"} => init = ""
    /\ pc = "ra2" => init = "Authentication"
    /\ conn = "connected" \/ (conn = "disconnected" /\ clean) => init = "ServerInitialisation"

PageInv == PageShape /\ PageFollows

\* What a call of _initMsg does to the connection: nothing, or it fails before
\* the server's last message, or with that message the session is up.
Handshakes ==
    /\ init # ""
    /\ pc' # "ra2" \/ (init = "Authentication" /\ init' = init)
    /\ \/ Quiet /\ (init = "ServerInitialisation" => init' = init)
       \/ Fails /\ init # "ServerInitialisation"
       \/ Connected /\ init = "ServerInitialisation" /\ init' = init

LEMMA InitMsgHandshakes ==
    ASSUME PageShape, InitMsg PROVE Handshakes
<1> USE DEF PageShape, Handshakes, At, AtScheme, InVeNCrypt, VeNCryptTo, Quiet, Stop, Again, To,
            progress, Refuses, AsksCredentials, Starves
<1>1. CASE Version \/ Repeater \/ VersionRefused \/ VersionStarves
  BY <1>1 DEF Version, Repeater, VersionRefused, VersionStarves
<1>2. CASE SecurityStarves \/ NoSecurity \/ Security \/ SecurityDictated
  BY <1>2 DEF SecurityStarves, NoSecurity, Security, SecurityDictated
<1>3. CASE UsernameMissing \/ MSLogonStarves \/ NoAuth \/ Unsupported
  BY <1>3 DEF UsernameMissing, MSLogonStarves, NoAuth, Unsupported
<1>4. CASE StdVNCStarves \/ StdVNCAsks \/ StdVNCAuth
  BY <1>4 DEF StdVNCStarves, StdVNCAsks, StdVNCAuth
<1>5. CASE VeNCryptStarves \/ VeNCryptVersion \/ VeNCryptAck \/ VeNCryptCount \/ VeNCryptTypes
  BY <1>5 DEF VeNCryptStarves, VeNCryptVersion, VeNCryptAck, VeNCryptCount, VeNCryptTypes
<1>6. CASE TightStarves \/ TightNoTunnels \/ TightTunnels \/ TightNone \/ TightAuth
  BY <1>6 DEF TightStarves, TightNoTunnels, TightTunnels, TightNone, TightAuth
<1>7. CASE Ra2Pokes \/ Ra2Waits \/ Ra2KeyLength \/ Ra2Key
  BY <1>7 DEF Ra2Pokes, Ra2Waits, Ra2KeyLength, Ra2Key
<1>8. CASE ResultStarves \/ SecurityResult \/ ReasonStarves \/ SecurityReason
  BY <1>8 DEF ResultStarves, SecurityResult, ReasonStarves, SecurityReason, SecurityFails
<1>9. CASE ClientInitialisation \/ ServerInitStarves \/ ServerInit
  BY <1>9 DEF ClientInitialisation, ServerInitStarves, ServerInit
<1> QED BY <1>1, <1>2, <1>3, <1>4, <1>5, <1>6, <1>7, <1>8, <1>9 DEF InitMsg

LEMMA ConnectedKeepsPage ==
    ASSUME PageInv, Connected, init = "ServerInitialisation", init' = init, pc' # "ra2"
    PROVE  PageInv'
BY DEF PageInv, PageShape, PageFollows, Connected, Moved, ComesFrom

LEMMA FailsKeepsPage ==
    ASSUME PageInv, Fails, conn # "disconnected" \/ ~clean \/ init # "ServerInitialisation",
           init # "", pc' # "ra2" \/ init' = "Authentication"
    PROVE  PageInv'
<1>1. conn \in {"connecting", "connected", "disconnected"} BY DEF PageInv, PageShape
<1>2. CASE conn = "disconnected"
  BY <1>2 DEF PageInv, PageShape, PageFollows, Fails, Terminated, Moved, ComesFrom
<1>3. CASE conn # "disconnected"
  <2>1. conn' = "disconnected" /\ clean' = FALSE /\ sock' \in {"closing", "closed"}
    BY <1>1, <1>3 DEF Fails, Terminated, Moved, ComesFrom, PageInv, PageShape, PageFollows
  <2>2. TellDisconnect(FALSE)
    BY <1>1, <1>3 DEF Fails, Terminated, Moved, ComesFrom
  <2>3. PageShape' BY <1>1, <1>3, <2>1, <2>2 DEF PageInv, PageShape, TellDisconnect
  <2>4. disconnects = 0 BY <1>3 DEF PageInv, PageFollows
  <2>5. disconnects' = 1
    <3>1. disconnects' = disconnects + 1 BY <2>2 DEF TellDisconnect
    <3> QED BY ONLY <2>4, <3>1
  <2>6. PageFollows' BY <2>1, <2>2, <2>5 DEF PageFollows, TellDisconnect
  <2> QED BY <2>3, <2>6 DEF PageInv
<1> QED BY <1>2, <1>3

LEMMA QuietKeepsPage ==
    ASSUME PageInv, UNCHANGED <<conn, sock, clean, keys, box, disconnects>>,
           status' = "loading" => status = "loading",
           init # "" \/ init' = init,
           init = "ServerInitialisation" => init' = init,
           pc' # "ra2" \/ (init' = "Authentication")
    PROVE  PageInv'
BY DEF PageInv, PageShape, PageFollows

LEMMA PageKeepsPage ==
    ASSUME PageInv, Page PROVE PageInv'
<1>1. init' = init /\ pc' = pc /\ pc # "ra2" BY DEF Page, handshake, progress, idle
<1>2. CASE StartViewer
  BY <1>1, <1>2 DEF StartViewer, PageInv, PageShape, PageFollows, Moved, ComesFrom
<1>3. CASE ViewerFails
  BY <1>1, <1>3 DEF ViewerFails, PageInv, PageShape, PageFollows
<1>4. CASE Slow
  BY <1>1, <1>4 DEF Slow, PageInv, PageShape, PageFollows
<1>5. CASE SocketCloses
  <2>1. CASE conn = "disconnected"
    BY <1>1, <1>5, <2>1 DEF SocketCloses, page, PageInv, PageShape, PageFollows
  <2>2. CASE conn # "disconnected"
    <3>1. conn \in {"connecting", "connected"}
      BY <1>5, <2>2 DEF SocketCloses, PageInv, PageShape
    <3>2. conn' = "disconnected" /\ sock' = "closed" /\ clean' = (clean /\ conn = "connected")
      BY <1>5, <2>2, <3>1 DEF SocketCloses, Moved, ComesFrom
    <3>3. /\ keys' = FALSE /\ status' = "disconnected" /\ disconnects' = disconnects + 1
          /\ box' = IF clean' THEN box ELSE "disconnected"
      BY <1>5, <2>2 DEF SocketCloses, TellDisconnect
    <3>4. PageShape' BY <1>1, <3>1, <3>2, <3>3 DEF PageInv, PageShape
    <3>5. disconnects = 0 BY <2>2 DEF PageInv, PageFollows
    <3>6. disconnects' = 1 BY <3>3, <3>5
    <3>7. PageFollows' BY <3>2, <3>3, <3>6 DEF PageFollows
    <3> QED BY <3>4, <3>7 DEF PageInv
  <2> QED BY <2>1, <2>2
<1> QED BY <1>2, <1>3, <1>4, <1>5 DEF Page

LEMMA HandshakingKeepsPage ==
    ASSUME PageInv, Handshaking PROVE PageInv'
<1>1. CASE SocketOpens
  <2>1. conn = "connecting" /\ sock = "connecting" /\ init = "" /\ pc = "idle"
    BY <1>1 DEF SocketOpens, PageInv, PageShape, PageFollows
  <2> QED BY <1>1, <2>1 DEF SocketOpens, To, page, PageInv, PageShape, PageFollows
<1>2. CASE InitMsg
  <2>1. Handshakes BY <1>2, InitMsgHandshakes DEF PageInv
  <2>2. CASE Quiet /\ (init = "ServerInitialisation" => init' = init)
    BY <2>1, <2>2, QuietKeepsPage DEF Handshakes, Quiet, connection, page
  <2>3. CASE Fails /\ init # "ServerInitialisation"
    BY <2>1, <2>3, FailsKeepsPage DEF Handshakes
  <2>4. CASE Connected /\ init = "ServerInitialisation" /\ init' = init
    BY <2>1, <2>4, ConnectedKeepsPage DEF Handshakes
  <2> QED BY <2>1, <2>2, <2>3, <2>4 DEF Handshakes
<1>3. CASE Resume \/ \E n \in 1 .. Len(script.units) : HandshakeArrives(n)
  <2>1. UNCHANGED connection /\ UNCHANGED progress /\ pc' # "ra2"
    BY <1>3 DEF Resume, HandshakeArrives
  <2> QED BY <2>1, QuietKeepsPage DEF connection, page, progress
<1> QED BY <1>1, <1>2, <1>3 DEF Handshaking

LEMMA ClipboardLeavesConnection ==
    ASSUME UsesClipboard, ~OddReceived
    PROVE  /\ UNCHANGED <<conn, sock, clean, keys, box, disconnects>>
           /\ status' = "loading" => status = "loading"
<1> USE DEF connection, page
<1>1. ClipboardNext BY DEF UsesClipboard
<1>2. CASE HostCopies \/ PasteClicked \/ PasteBlocked \/ Paste
  BY <1>2 DEF HostCopies, PasteClicked, PasteBlocked, Paste
<1>3. CASE CapsReceived \/ RequestReceived \/ PeekReceived \/ NotifyReceived
  BY <1>3 DEF CapsReceived, RequestReceived, PeekReceived, NotifyReceived
<1>4. CASE ProvideReceived \/ TextReceived
  BY <1>4 DEF ProvideReceived, TextReceived, Clipped
<1>5. CASE GuestAnnounces \/ GuestCopies \/ GuestReceives \/ GuestErrs
  BY <1>5 DEF GuestAnnounces, GuestCopies, GuestReceives, GuestErrs
<1> QED BY <1>1, <1>2, <1>3, <1>4, <1>5 DEF ClipboardNext

LEMMA ClipboardKeepsPage ==
    ASSUME PageInv, UsesClipboard PROVE PageInv'
<1>1. init' = init /\ pc' = pc /\ pc # "ra2" BY DEF UsesClipboard, handshake, progress, idle
<1>2. CASE OddReceived
  <2>1. Fails /\ conn = "connected" BY <1>2 DEF OddReceived, HostReceives
  <2>2. init = "ServerInitialisation" BY <2>1 DEF PageInv, PageShape
  <2> QED BY <1>1, <2>1, <2>2, FailsKeepsPage
<1>3. CASE ~OddReceived BY <1>1, <1>3, ClipboardLeavesConnection, QuietKeepsPage
<1> QED BY <1>2, <1>3

\* The keyboard's actions leave the connection alone, but for the line that says
\* that Ctrl+Alt+Del was sent.
LEMMA KeyboardLeavesConnection ==
    ASSUME Types
    PROVE  /\ UNCHANGED <<conn, sock, clean, keys, box, disconnects>>
           /\ status' = "loading" => status = "loading"
<1> USE DEF connection, page
<1>1. KeyboardNext BY DEF Types
<1>2. CASE CtrlAltDel BY <1>2 DEF CtrlAltDel
<1>3. CASE AltGrTimeout \/ LedArrives \/ KeyPressed \/ KeyRepeats \/ MacCapsLock
  BY <1>3 DEF AltGrTimeout, LedArrives, KeyPressed, KeyRepeats, MacCapsLock
<1>4. CASE KeyReleased \/ KeyReleasedUnheard \/ StepsAway \/ Blurs \/ Returns
  BY <1>4 DEF KeyReleased, KeyReleasedUnheard, StepsAway, Blurs, Returns
<1> QED BY <1>1, <1>2, <1>3, <1>4 DEF KeyboardNext

LEMMA KeyboardKeepsPage ==
    ASSUME PageInv, Types PROVE PageInv'
<1>1. init' = init /\ pc' = pc /\ pc # "ra2" BY DEF Types, handshake, progress, idle
<1> QED BY <1>1, KeyboardLeavesConnection, QuietKeepsPage

LEMMA PointerLeavesConnection ==
    ASSUME Points PROVE UNCHANGED <<connection, init, pc>>
<1>1. UNCHANGED <<init, pc>> BY DEF Points, handshake, progress
<1>2. CASE MouseNext \/ DelayedMouseMove
  BY <1>1, <1>2 DEF MouseNext, MouseCrosses, MouseMoves, MousePressed, MouseReleased,
                    HandleWheel, DelayedMouseMove, SameUser
<1>3. CASE GesturesNext
  <2>1. CASE \E id \in Fingers : TouchStart(id) \/ TouchEndIgnored(id)
    BY <1>1, <2>1 DEF TouchStart, TouchEndIgnored
  <2>2. CASE \E i \in DOMAIN tracked :
                \/ TouchMoveDetected(i) \/ \E far, sameWay \in BOOLEAN : TouchMove(i, far, sameWay)
                \/ \E slow \in BOOLEAN : TouchEndDetected(i, slow) \/ TouchEnd(i, slow)
    BY <1>1, <2>2 DEF TouchMoveDetected, SameTouches, TouchMove, TouchEndDetected, TouchEnd
  <2>3. CASE LongpressTimeout \/ TwoTouchTimeout
    BY <1>1, <2>3 DEF LongpressTimeout, TwoTouchTimeout, SameTouches
  <2> QED BY <1>3, <2>1, <2>2, <2>3 DEF GesturesNext
<1> QED BY <1>2, <1>3 DEF Points

LEMMA PageInit == Init => PageInv
BY DEF Init, ConnectionInit, HandshakeInit, PageInv, PageShape, PageFollows

LEMMA PageNext ==
    ASSUME PageInv, [Next]_vars PROVE PageInv'
<1>1. CASE Page BY <1>1, PageKeepsPage
<1>2. CASE Handshaking BY <1>2, HandshakingKeepsPage
<1>3. CASE UsesClipboard BY <1>3, ClipboardKeepsPage
<1>4. CASE Types BY <1>4, KeyboardKeepsPage
<1>5. CASE Resizes
  <2>1. UNCHANGED connection /\ UNCHANGED <<init, pc>> /\ pc # "ra2"
    BY <1>5 DEF Resizes, ResizeNext, handshake, progress, idle
  <2> QED BY <2>1, QuietKeepsPage DEF connection, page
<1>6. CASE Points
  <2>1. UNCHANGED <<connection, init, pc>> /\ pc # "ra2"
    BY <1>6, PointerLeavesConnection DEF Points, idle
  <2> QED BY <2>1, QuietKeepsPage DEF connection, page
<1>7. CASE UNCHANGED vars
  BY <1>7 DEF vars, connection, page, handshake, progress, PageInv, PageShape, PageFollows
<1> QED BY <1>1, <1>2, <1>3, <1>4, <1>5, <1>6, <1>7 DEF Next

\* Whatever the server says and whenever the socket closes, the buttons work
\* while the session is up and only then, its end is told once, and an end that
\* was not a plain close leaves its message on the screen (console-viewer.js on
\* the events that RFB._updateConnectionState dispatches).
THEOREM PageFollowsAlways == Spec => []PageFollows
<1>1. PageInv /\ [Next]_vars => PageInv' BY PageNext
<1>2. PageInv => PageFollows BY DEF PageInv
<1> QED BY PageInit, <1>1, <1>2, PTL DEF Spec

-----------------------------------------------------------------------------
\* The size of the desktop.

\* The scale and the request, each with what may still be pending for it: the
\* animation frame is for the one, the timer for the other, and an observer that
\* has not been told yet for both.
ResizeInv ==
    /\ ~unseen /\ ~frame /\ ~ignored => scaled = <<size, desktop>>
    /\ ~unseen /\ ~timer /\ ~ignored /\ settable => wanted = size

LEMMA ResizesKeepsResize ==
    ASSUME ResizeInv, ResizeNext PROVE ResizeInv'
<1> USE DEF ResizeInv
<1>1. CASE PageResizes BY <1>1 DEF PageResizes
<1>2. CASE HandleResize
  <2>1. CASE size = expected
    <3>1. ~ignored' => ~ignored /\ ~Behind BY <1>2, <2>1 DEF HandleResize
    <3> QED BY <1>2, <2>1, <3>1 DEF HandleResize, Behind
  <2>2. CASE size # expected BY <1>2, <2>2 DEF HandleResize
  <2> QED BY <2>1, <2>2
<1>3. CASE AnimationFrame BY <1>3 DEF AnimationFrame, UpdateScale
<1>4. CASE ResizeTimeout BY <1>4 DEF ResizeTimeout, RequestRemoteResize
<1>5. CASE HandleExtendedDesktopSize
  <2>1. (~unseen /\ ~frame /\ ~ignored => scaled = <<size, desktop>>)'
    BY <1>5 DEF HandleExtendedDesktopSize, UpdateScale
  <2>2. (~unseen /\ ~timer /\ ~ignored /\ settable => wanted = size)'
    BY <1>5 DEF HandleExtendedDesktopSize, RequestRemoteResize
  <2> QED BY <2>1, <2>2
<1>6. CASE ServerAnswers \/ ServerResizes BY <1>6 DEF ServerAnswers, ServerResizes
<1> QED BY <1>1, <1>2, <1>3, <1>4, <1>5, <1>6 DEF ResizeNext

LEMMA ResizeNextKeeps ==
    ASSUME ResizeInv, [Next]_vars PROVE ResizeInv'
<1>1. CASE Resizes BY <1>1, ResizesKeepsResize DEF Resizes
<1>2. CASE ~Resizes
  <2>1. UNCHANGED resizing
    BY <1>2 DEF Next, vars, Page, Handshaking, UsesClipboard, Types, Points
  <2> QED BY <2>1 DEF resizing, ResizeInv
<1> QED BY <1>1, <1>2

\* When nothing is pending the picture is scaled from the desktop's size to the
\* page's and the server, if it can be asked, was last asked for the page's size:
\* in whatever order RFB's observer, animation frame, timer and the server's
\* answers come, and however many there are.
THEOREM SizeSettlesAlways == Spec => []SizeSettles
<1>1. Init => ResizeInv BY DEF Init, ResizeInit, ResizeInv
<1>2. ResizeInv /\ [Next]_vars => ResizeInv' BY ResizeNextKeeps
<1>3. ResizeInv => SizeSettles BY DEF ResizeInv, SizeSettles
<1> QED BY <1>1, <1>2, <1>3, PTL DEF Spec

-----------------------------------------------------------------------------
\* The handshake.

\* The stage of the server before the unit that is read next, and how many answers
\* it has had by then.
Place == script.stages[taken + 1]
Due == script.after[taken + 1]
Units == Len(script.units)

ClientSays ==
    {"version", "repeater id", "type", "response", "vencrypt version", "vencrypt type", "tunnel",
     "auth kind", "shared", "setup"}

\* The client has read no more than has arrived, each unit for what it is, has
\* given the answers the server awaits, and all that the server sent it could send.
StreamOK ==
    /\ KeepsProtocol(script)
    /\ arrived \in 0 .. Units /\ taken \in 0 .. arrived
    /\ said \in Seq(ClientSays) /\ Len(said) <= Len(script.answers)
    /\ \A i \in DOMAIN said : said[i] = script.answers[i]
    /\ \A i \in 1 .. arrived : script.after[i] <= Len(said)
    /\ ~misread

\* What the client reads next.
Scheming ==
    CASE scheme = "None" -> IF version >= 38 THEN "result" ELSE "init"
      [] scheme = "VNCAuth" -> "challenge"
      [] scheme = "Tight" -> IF tight THEN "auth count" ELSE "tunnels"
      [] scheme = "VeNCrypt" ->
           <<"vencrypt version", "vencrypt ack", "vencrypt count", "vencrypt types">>[vencrypt + 1]
      [] scheme = "RA2ne" ->
           IF ra2 = "key" THEN "key" ELSE IF ra2 = "approval" THEN "end" ELSE "key length"
      [] scheme = "MSLogonII" -> "parameters"
      [] OTHER -> "end"

Wanted ==
    CASE init = "ProtocolVersion" -> "version"
      [] init = "Security" -> IF version < 37 THEN "scheme" ELSE "count"
      [] init = "Authentication" -> Scheming
      [] init = "SecurityResult" -> "result"
      [] init = "SecurityReason" -> "reason length"
      [] init \in {"ClientInitialisation", "ServerInitialisation"} -> "init"

Begun ==
    init \in {"ProtocolVersion", "Security", "Authentication", "SecurityResult", "SecurityReason",
              "ClientInitialisation", "ServerInitialisation"}

\* A server at stage p and the client mean the same.
Meets(p) ==
    /\ Begun
    /\ init = "Authentication" /\ scheme = "VeNCrypt" => vencrypt \in 0 .. 3
    /\ p.want = Wanted /\ p.version = version /\ p.tight = tight
    /\ init \in {"ProtocolVersion", "Security"} => vencrypt = 0
    /\ init \in {"ProtocolVersion", "Security"} \/ (init = "Authentication" /\ scheme = "VeNCrypt")
         => ~tight /\ ra2 = "none"
    /\ ra2 \in {"none", "key length", "key", "approval"}

Placed == Meets(Place)

\* An answer the client gives in its next step, before it reads anything.
Owes == init = "ClientInitialisation" \/ (init = "Authentication" /\ scheme = "None" /\ version < 38)

\* The answers are those due by the next unit.
KeepsPace ==
    IF Owes THEN Len(said) + 1 = Due /\ script.answers[Due] = "shared" ELSE Len(said) = Due

\* There is something left that could go on with the handshake.
Underway == conn = "connecting" \/ resumes # 0 \/ pc # "idle"

\* A timer of _resumeAuthentication is there for a scheme that asks for what the page
\* has not got, or for a challenge: one timer, as the server sends nothing after it.
ResumesOK ==
    /\ resumes \in Nat
    /\ resumes # 0 \/ pc = "timer" =>
          /\ init = "Authentication"
          /\ \/ scheme \in NeedUsername
             \/ /\ scheme = "VNCAuth" /\ password = TRUE /\ arrived = taken + 1
                /\ resumes \in {0, 1} /\ (resumes # 0 => pc = "idle")

\* Where a task may be, and what has not begun when the socket is not open.
CallsOK ==
    /\ pc \in {"idle", "loop", "timer", "ra2"}
    /\ pc \in {"loop", "ra2"} => conn = "connecting"
    /\ pc = "loop" /\ init = "Security" => Has(1)
    /\ pc = "ra2" => init = "Authentication" /\ scheme = "RA2ne" /\ ra2 # "none"
    /\ conn = "connecting" /\ sock = "open" => init # ""
    /\ init = "" =>
          /\ arrived = 0 /\ said = <<>> /\ resumes = 0 /\ pc = "idle"
          /\ version = 0 /\ tight = FALSE /\ vencrypt = 0 /\ ra2 = "none"
    /\ conn = "connected" => said = script.answers /\ resumes = 0 /\ pc = "idle"

\* While anything could go on with the handshake the two ends are at the same place,
\* and while the connection is being made, they are so with the same answers.
InStepInv ==
    /\ StreamOK /\ ResumesOK /\ CallsOK
    /\ Underway /\ init # "" => Placed
    /\ conn = "connecting" /\ init # "" => KeepsPace

\* A set of numbers that is not empty has a least one.
LEMMA Least ==
    ASSUME NEW S \in SUBSET Nat, S # {}
    PROVE  Min(S) \in S /\ \A y \in S : Min(S) <= y
<1> DEFINE R == {ss \in Nat \X Nat : ss[1] < ss[2]}
<1>1. IsWellFoundedOn(R, Nat) BY NatLessThanWellFounded DEF OpToRel
<1>2. PICK x \in S : \A y \in S : ~(<<y, x>> \in R)
  <2> HIDE DEF R
  <2> QED BY <1>1, WFMin
<1>3. ASSUME NEW y \in S PROVE x <= y
  <2>1. x \in Nat /\ y \in Nat OBVIOUS
  <2>2. ~(y < x)
    <3>1. <<y, x>> \notin R BY <1>2
    <3> QED BY <2>1, <3>1
  <2> QED BY ONLY <2>1, <2>2
<1> QED BY <1>2, <1>3 DEF Min

LEMMA Item == ASSUME NEW S, NEW q \in Seq(S), NEW i \in 1 .. Len(q) PROVE q[i] \in S
OBVIOUS

LEMMA Tuples ==
    /\ Len(<<>>) = 0 /\ DOMAIN <<>> = {}
    /\ \A a : Len(<<a>>) = 1 /\ DOMAIN <<a>> = {1} /\ <<a>>[1] = a
    /\ \A a, b : Len(<<a, b>>) = 2 /\ DOMAIN <<a, b>> = {1, 2} /\ <<a, b>>[1] = a /\ <<a, b>>[2] = b
<1>1. Len(<<>>) = 0 /\ DOMAIN <<>> = {} OBVIOUS
<1>2. \A a : Len(<<a>>) = 1 /\ DOMAIN <<a>> = {1} /\ <<a>>[1] = a OBVIOUS
<1>3. \A a, b : Len(<<a, b>>) = 2 /\ DOMAIN <<a, b>> = {1, 2} /\ <<a, b>>[1] = a /\ <<a, b>>[2] = b
  OBVIOUS
<1> QED BY <1>1, <1>2, <1>3

LEMMA AppendedTo ==
    ASSUME NEW S, NEW q \in Seq(S), NEW e \in S
    PROVE  /\ Append(q, e) \in Seq(S) /\ Len(Append(q, e)) = Len(q) + 1
           /\ Append(q, e)[Len(q) + 1] = e /\ \A i \in 1 .. Len(q) : Append(q, e)[i] = q[i]
OBVIOUS

LEMMA Pair ==
    ASSUME NEW a, NEW b PROVE Append(<<>>, b) = <<b>> /\ Append(<<a>>, b) = <<a, b>>
<1> DEFINE S == {a, b}
<1>0. Append(<<>>, b) = <<b>> OBVIOUS
<1>1. <<a>> \in Seq(S) /\ Len(<<a>>) = 1 /\ <<a>>[1] = a
  <2>1. \A x, T : x \in T => <<x>> \in Seq(T) /\ Len(<<x>>) = 1 /\ <<x>>[1] = x OBVIOUS
  <2> QED BY <2>1
<1>2. PICK s : s = Append(<<a>>, b) OBVIOUS
<1>3. PICK t : t = <<a, b>> OBVIOUS
<1>4. s \in Seq(S) /\ Len(s) = 2 /\ s[1] = a /\ s[2] = b
  <2>1. 1 + 1 = 2 /\ 1 \in 1 .. 1 OBVIOUS
  <2> QED BY ONLY <1>1, <1>2, <2>1, AppendedTo, b \in S
<1>5. t \in Seq(S) /\ Len(t) = 2 /\ t[1] = a /\ t[2] = b
  <2>1. \A x, y, T : x \in T /\ y \in T =>
            /\ <<x, y>> \in Seq(T) /\ Len(<<x, y>>) = 2
            /\ <<x, y>>[1] = x /\ <<x, y>>[2] = y
    OBVIOUS
  <2> QED BY <1>3, <2>1
<1>6. \A q, r \in Seq(S) : Len(q) = Len(r) /\ (\A i \in 1 .. Len(q) : q[i] = r[i]) => q = r OBVIOUS
<1>7. \A i \in 1 .. 2 : i = 1 \/ i = 2 OBVIOUS
<1>8. \A i \in 1 .. Len(s) : s[i] = t[i] BY ONLY <1>4, <1>5, <1>7
<1>9. s = t BY ONLY <1>4, <1>5, <1>6, <1>8
<1> QED BY <1>0, <1>2, <1>3, <1>9

LEMMA StageTypes ==
    \A p \in [want : STRING, version : {0, 33, 37, 38}, tight : BOOLEAN] :
        p.version \in {0, 33, 37, 38} /\ p.tight \in BOOLEAN
OBVIOUS

\* What a script says of one of its units.
LEMMA Scripted ==
    ASSUME NEW s, KeepsProtocol(s)
    PROVE  /\ Len(s.units) \in Nat /\ Len(s.answers) \in Nat
           /\ \A i \in 1 .. Len(s.units) : s.units[i].n \in Nat /\ s.units[i].offers \in Seq(STRING)
           /\ \A i \in 1 .. Len(s.units) + 1 :
                 /\ s.after[i] \in 0 .. Len(s.answers)
                 /\ s.stages[i].version \in {0, 33, 37, 38} /\ s.stages[i].tight \in BOOLEAN
           /\ DOMAIN s.units = 1 .. Len(s.units)
<1>1. /\ s.units \in Seq([role : STRING, k : STRING, n : Nat, offers : Seq(STRING)])
      /\ s.stages \in Seq([want : STRING, version : {0, 33, 37, 38}, tight : BOOLEAN])
      /\ Len(s.stages) = Len(s.units) + 1 /\ Len(s.after) = Len(s.units) + 1
      /\ s.answers \in Seq(STRING) /\ s.after \in Seq(0 .. Len(s.answers))
  BY DEF KeepsProtocol
<1>2. Len(s.units) \in Nat /\ Len(s.answers) \in Nat /\ DOMAIN s.units = 1 .. Len(s.units) BY <1>1
<1>3. ASSUME NEW i \in 1 .. Len(s.units) PROVE s.units[i].n \in Nat /\ s.units[i].offers \in Seq(STRING)
  <2>1. s.units[i] \in [role : STRING, k : STRING, n : Nat, offers : Seq(STRING)] BY <1>1, Item
  <2> QED BY <2>1
<1>4. ASSUME NEW i \in 1 .. Len(s.units) + 1
      PROVE  /\ s.after[i] \in 0 .. Len(s.answers)
             /\ s.stages[i].version \in {0, 33, 37, 38} /\ s.stages[i].tight \in BOOLEAN
  <2>1. /\ s.stages[i] \in [want : STRING, version : {0, 33, 37, 38}, tight : BOOLEAN]
        /\ s.after[i] \in 0 .. Len(s.answers)
    BY <1>1, Item
  <2> QED BY ONLY <2>1, StageTypes
<1> QED BY <1>2, <1>3, <1>4

LEMMA TurnTaken ==
    ASSUME NEW s, KeepsProtocol(s), NEW i \in 1 .. Len(s.units)
    PROVE  LET turn == Turn(s.stages[i], s.units[i])
           IN /\ s.units[i].role = s.stages[i].want
              /\ s.stages[i + 1] = turn.stage
              /\ s.after[i + 1] = s.after[i] + Len(turn.answers)
              /\ \A j \in DOMAIN turn.answers : s.answers[s.after[i] + j] = turn.answers[j]
BY DEF KeepsProtocol

LEMMA Ended ==
    ASSUME NEW s, KeepsProtocol(s), NEW i \in 1 .. Len(s.units) + 1, s.stages[i].want = "end"
    PROVE  i = Len(s.units) + 1 /\ s.after[i] = Len(s.answers)
<1>1. Len(s.units) \in Nat BY Scripted
<1>2. i \notin 1 .. Len(s.units) BY DEF KeepsProtocol
<1>3. i = Len(s.units) + 1 BY <1>1, <1>2
<1> QED BY <1>3 DEF KeepsProtocol

\* What the server awaits from its nth answer on.
Awaits(n, t) == \A j \in DOMAIN t : script.answers[n + j] = t[j]

LEMMA TurnAwaited ==
    ASSUME KeepsProtocol(script), NEW i \in 1 .. Len(script.units)
    PROVE  LET turn == Turn(script.stages[i], script.units[i])
           IN /\ script.units[i].role = script.stages[i].want
              /\ script.stages[i + 1] = turn.stage
              /\ script.after[i + 1] = script.after[i] + Len(turn.answers)
              /\ Awaits(script.after[i], turn.answers)
BY TurnTaken DEF Awaits

\* One unit is read, or two, for what they are.
LEMMA ReadsOne ==
    ASSUME StreamOK, NEW w, Has(1), Place.want = w, Reads(<<w>>)
    PROVE  /\ taken' = taken + 1 /\ taken' \in 0 .. arrived /\ misread' = FALSE
           /\ script' = script /\ arrived' = arrived
           /\ Place' = Turn(Place, Next1).stage
           /\ Due' = Due + Len(Turn(Place, Next1).answers)
           /\ \A j \in DOMAIN Turn(Place, Next1).answers :
                 script.answers[Due + j] = Turn(Place, Next1).answers[j]
<1>1. arrived \in Nat /\ taken \in Nat /\ Len(script.units) \in Nat /\ arrived <= Len(script.units)
  BY Scripted DEF StreamOK, Units
<1>2. taken + 1 <= arrived BY <1>1 DEF Has
<1>3. taken + 1 \in 1 .. Len(script.units) BY <1>1, <1>2
<1>4. /\ taken' = taken + 1 /\ script' = script /\ arrived' = arrived
      /\ misread' = (misread \/ ~Has(1) \/ ~(script.units[taken + 1].role = w))
  BY DEF Reads, ReadAs
<1>5. Next1.role = w BY <1>3, TurnTaken DEF StreamOK, Place, Next1
<1>6. misread' = FALSE BY <1>4, <1>5 DEF StreamOK, Next1
<1>7. /\ script.stages[taken + 1 + 1] = Turn(Place, Next1).stage
      /\ script.after[taken + 1 + 1] = Due + Len(Turn(Place, Next1).answers)
      /\ \A j \in DOMAIN Turn(Place, Next1).answers :
            script.answers[Due + j] = Turn(Place, Next1).answers[j]
  BY <1>3, TurnTaken DEF StreamOK, Place, Next1, Due
<1>8. Place' = script.stages[taken + 1 + 1] /\ Due' = script.after[taken + 1 + 1]
  BY <1>4 DEF Place, Due
<1>9. taken' \in 0 .. arrived BY <1>1, <1>2, <1>4
<1> QED BY <1>4, <1>6, <1>7, <1>8, <1>9

LEMMA ReadsTwo ==
    ASSUME StreamOK, NEW w, NEW w2, Has(2), Place.want = w, Reads(<<w, w2>>),
           NEW p, p = Turn(Place, Next1).stage, p.want = w2, Turn(Place, Next1).answers = <<>>
    PROVE  /\ taken' = taken + 2 /\ taken' \in 0 .. arrived /\ misread' = FALSE
           /\ script' = script /\ arrived' = arrived
           /\ Place' = Turn(p, Next2).stage
           /\ Due' = Due + Len(Turn(p, Next2).answers) /\ Awaits(Due, Turn(p, Next2).answers)
<1>1. arrived \in Nat /\ taken \in Nat /\ Len(script.units) \in Nat /\ arrived <= Len(script.units)
  BY Scripted DEF StreamOK, Units
<1>2. taken + 2 <= arrived BY <1>1 DEF Has
<1>3. taken + 1 \in 1 .. Len(script.units) /\ taken + 2 \in 1 .. Len(script.units) BY <1>1, <1>2
<1>4. /\ taken' = taken + 2 /\ script' = script /\ arrived' = arrived
      /\ misread' = (misread \/ ~Has(2) \/ ~(/\ script.units[taken + 1].role = w
                                             /\ script.units[taken + 2].role = w2))
  <2>1. Len(<<w, w2>>) = 2 /\ DOMAIN <<w, w2>> = {1, 2} OBVIOUS
  <2> QED BY <2>1 DEF Reads, ReadAs
<1>5. (taken + 1) + 1 = taken + 2 BY <1>1
<1>6. /\ Next1.role = w /\ script.stages[taken + 2] = p
      /\ script.after[taken + 2] = Due + Len(<<>>)
  <2>1. /\ Next1.role = Place.want
        /\ script.stages[(taken + 1) + 1] = Turn(Place, Next1).stage
        /\ script.after[(taken + 1) + 1] = Due + Len(Turn(Place, Next1).answers)
    BY <1>3, TurnTaken DEF StreamOK, Place, Next1, Due
  <2> QED BY <1>5, <2>1
<1>7. /\ Next2.role = w2 /\ script.stages[taken + 2 + 1] = Turn(p, Next2).stage
      /\ script.after[taken + 2 + 1] = script.after[taken + 2] + Len(Turn(p, Next2).answers)
      /\ Awaits(script.after[taken + 2], Turn(p, Next2).answers)
  <2>1. KeepsProtocol(script) BY DEF StreamOK
  <2>2. PICK i : i = taken + 2 OBVIOUS
  <2>3. i \in 1 .. Len(script.units) /\ script.stages[i] = p BY <1>3, <1>6, <2>2
  <2>4. script.units[i] = Next2 BY ONLY <2>2 DEF Next2
  <2>5. p.want = w2 OBVIOUS
  <2> QED BY ONLY <2>1, <2>2, <2>3, <2>4, <2>5, TurnAwaited
<1>8. script.after[taken + 2] = Due
  <2>1. Due \in Nat BY <1>1, <1>3, Scripted DEF StreamOK, Due
  <2> QED BY <1>6, <2>1, Tuples
<1>9. misread' = FALSE BY <1>4, <1>6, <1>7 DEF StreamOK, Next1, Next2
<1>10. Place' = script.stages[taken + 2 + 1] /\ Due' = script.after[taken + 2 + 1] BY <1>4 DEF Place, Due
<1>11. taken' \in 0 .. arrived BY <1>1, <1>2, <1>4
<1> QED BY <1>4, <1>7, <1>8, <1>9, <1>10, <1>11

\* What is said when it is due.
LEMMA Paced ==
    ASSUME StreamOK, KeepsPace, ~Owes, NEW t, NEW own,
           script' = script, arrived' = arrived, taken' \in 0 .. arrived, misread' = FALSE,
           Due' = Due + Len(t), \A j \in DOMAIN t : script.answers[Due + j] = t[j],
           \/ own = <<>> /\ said' = said
           \/ \E a \in ClientSays : own = <<a>> /\ said' = Append(said, a),
           t = IF Owes' THEN Append(own, "shared") ELSE own
    PROVE  StreamOK' /\ KeepsPace'
<1>0. KeepsProtocol(script) BY DEF StreamOK
<1>1. /\ Len(said) = Due /\ Due \in 0 .. Len(script.answers) /\ Due' \in 0 .. Len(script.answers)
      /\ Len(script.answers) \in Nat /\ Len(script.units) \in Nat /\ arrived \in 0 .. Len(script.units)
  <2>1. Len(script.units) \in Nat /\ Len(script.answers) \in Nat BY <1>0, Scripted
  <2>2. arrived \in 0 .. Len(script.units) /\ taken \in 0 .. arrived BY DEF StreamOK, Units
  <2>3. taken + 1 \in 1 .. Len(script.units) + 1 /\ taken' + 1 \in 1 .. Len(script.units) + 1
    <3>1. \A u, a, k \in Nat : a \in 0 .. u /\ k \in 0 .. a => k + 1 \in 1 .. u + 1 OBVIOUS
    <3>2. arrived \in Nat /\ taken \in Nat /\ taken' \in Nat BY <2>1, <2>2
    <3> QED BY ONLY <2>1, <2>2, <3>1, <3>2, taken' \in 0 .. arrived
  <2>4. Due' = script.after[taken' + 1] BY DEF Due
  <2> QED BY <1>0, <2>1, <2>2, <2>3, <2>4, Scripted DEF KeepsPace, Due
<1>2. said \in Seq(ClientSays) /\ DOMAIN said = 1 .. Len(said) BY DEF StreamOK
<1>3. /\ said' \in Seq(ClientSays) /\ Len(said) <= Len(said') /\ Len(said') <= Len(script.answers)
      /\ \A i \in DOMAIN said' : said'[i] = script.answers[i]
      /\ Len(said') + (IF Owes' THEN 1 ELSE 0) = Due'
      /\ Owes' => script.answers[Due'] = "shared"
  <2>1. CASE own = <<>> /\ said' = said
    <3>1. CASE Owes'
      <4>1. t = <<"shared">> BY ONLY <2>1, <3>1, Pair, t = IF Owes' THEN Append(own, "shared") ELSE own
      <4>2. Due' = Due + 1 /\ script.answers[Due + 1] = "shared" BY <4>1, Tuples
      <4> QED BY <1>1, <1>2, <2>1, <3>1, <4>2 DEF StreamOK
    <3>2. CASE ~Owes'
      <4>1. t = <<>> BY <2>1, <3>2
      <4>2. Due' = Due
        <5>1. Due' = Due + 0 BY <4>1, Tuples
        <5> QED BY <1>1, <5>1
      <4> QED BY <1>1, <1>2, <2>1, <3>2, <4>2 DEF StreamOK
    <3> QED BY <3>1, <3>2
  <2>2. ASSUME NEW a \in ClientSays, own = <<a>>, said' = Append(said, a)
        PROVE  /\ said' \in Seq(ClientSays) /\ Len(said) <= Len(said') /\ Len(said') <= Len(script.answers)
               /\ \A i \in DOMAIN said' : said'[i] = script.answers[i]
               /\ Len(said') + (IF Owes' THEN 1 ELSE 0) = Due'
               /\ Owes' => script.answers[Due'] = "shared"
    <3>1. /\ said' \in Seq(ClientSays) /\ Len(said') = Len(said) + 1 /\ said'[Len(said) + 1] = a
          /\ DOMAIN said' = 1 .. Len(said) + 1 /\ \A i \in 1 .. Len(said) : said'[i] = said[i]
      BY <1>2, <2>2
    <3>2. script.answers[Due + 1] = a /\ Due' = Due + 1 + (IF Owes' THEN 1 ELSE 0)
          /\ (Owes' => script.answers[Due'] = "shared")
      <4>1. CASE Owes'
        <5>1. t = <<a, "shared">>
          BY ONLY <2>2, <4>1, Pair, t = IF Owes' THEN Append(own, "shared") ELSE own
        <5>2. Len(t) = 2 /\ DOMAIN t = {1, 2} /\ t[1] = a /\ t[2] = "shared"
          BY ONLY <5>1, Tuples
        <5>3. script.answers[Due + 1] = t[1] /\ script.answers[Due + 2] = t[2] /\ Due' = Due + 2
          BY <5>2
        <5>4. Due + 2 = Due + 1 + 1 BY <1>1
        <5> QED BY ONLY <4>1, <5>2, <5>3, <5>4
      <4>2. CASE ~Owes'
        <5>1. t = <<a>> BY ONLY <2>2, <4>2, t = IF Owes' THEN Append(own, "shared") ELSE own
        <5>2. Len(t) = 1 /\ DOMAIN t = {1} /\ t[1] = a BY ONLY <5>1, Tuples
        <5>3. script.answers[Due + 1] = t[1] /\ Due' = Due + 1 BY <5>2
        <5>4. Due + 1 + 0 = Due + 1 BY <1>1
        <5> QED BY ONLY <4>2, <5>2, <5>3, <5>4
      <4> QED BY <4>1, <4>2
    <3>3. ASSUME NEW i \in DOMAIN said' PROVE said'[i] = script.answers[i]
      <4>1. CASE i \in 1 .. Len(said) BY <1>2, <3>1, <4>1 DEF StreamOK
      <4>2. CASE i = Len(said) + 1 BY <1>1, <3>1, <3>2, <4>2
      <4> QED BY <1>1, <3>1, <4>1, <4>2
    <3>4. Len(said') + (IF Owes' THEN 1 ELSE 0) = Due' BY <1>1, <3>1, <3>2
    <3>5. Len(said) <= Len(said') /\ Len(said') <= Len(script.answers) BY <1>1, <3>1, <3>4
    <3> QED BY <3>1, <3>2, <3>3, <3>4, <3>5
  <2> QED BY <2>1, <2>2
<1>4. StreamOK'
  <2>1. \A i \in 1 .. arrived : script.after[i] <= Len(said')
    <3>1. ASSUME NEW i \in 1 .. arrived PROVE script.after[i] <= Len(said')
      <4>1. script.after[i] \in Nat /\ script.after[i] <= Len(said)
        BY <1>0, <1>1, Scripted DEF StreamOK
      <4>2. Len(said) \in Nat /\ Len(said') \in Nat BY <1>2, <1>3
      <4> QED BY <1>3, <4>1, <4>2
    <3> QED BY <3>1
  <2> QED BY <1>0, <1>1, <1>3, <2>1 DEF StreamOK, Units
<1>5. KeepsPace'
  <2>1. Len(said') \in Nat BY <1>3
  <2>2. CASE Owes' BY <1>3, <2>2 DEF KeepsPace
  <2>3. CASE ~Owes'
    <3>1. Len(said') = Due' BY <1>3, <2>1, <2>3
    <3> QED BY <2>3, <3>1 DEF KeepsPace
  <2> QED BY <2>2, <2>3
<1> QED BY <1>4, <1>5

LEMMA StreamStays ==
    ASSUME StreamOK, script' = script, arrived' = arrived, taken' \in 0 .. arrived, misread' = FALSE,
           said' = said
    PROVE  StreamOK'
BY DEF StreamOK, Units

\* The kinds of steps a call of _initMsg takes. But for the timers, a call serves
\* a connection that is being made.
Serving ==
    /\ conn = "connecting" /\ sock = "open" /\ resumes = 0 /\ pc # "idle"
    /\ init # "" /\ Placed /\ KeepsPace

LEMMA Serves ==
    ASSUME InStepInv, PageInv, pc # "idle", resumes = 0, conn = "connecting"
    PROVE  Serving
<1>1. init # "" BY DEF InStepInv, CallsOK
<1>2. sock = "open" BY <1>1 DEF PageInv, PageShape
<1> QED BY <1>1, <1>2 DEF InStepInv, Underway, Serving

LEMMA NoTimer ==
    ASSUME InStepInv, ~(init = "Authentication" /\ scheme \in NeedUsername \cup {"VNCAuth"})
    PROVE  resumes = 0 /\ pc # "timer" /\ (pc # "idle" => conn = "connecting")
<1>1. resumes = 0 /\ pc # "timer" BY DEF InStepInv, ResumesOK
<1> QED BY <1>1 DEF InStepInv, CallsOK

LEMMA ServesAlone ==
    ASSUME InStepInv, PageInv, pc # "idle",
           ~(init = "Authentication" /\ scheme \in NeedUsername \cup {"VNCAuth"})
    PROVE  Serving /\ pc # "timer" /\ StreamOK
<1>1. resumes = 0 /\ pc # "timer" /\ conn = "connecting" BY NoTimer
<1> QED BY <1>1, Serves DEF InStepInv

LEMMA Meeting ==
    ASSUME Serving, StreamOK
    PROVE  /\ Place.want = Wanted /\ Place.version = version /\ Place.tight = tight
           /\ version \in {0, 33, 37, 38} /\ tight \in BOOLEAN
           /\ Meets(Place)
<1>1. Place.want = Wanted /\ Place.version = version /\ Place.tight = tight /\ Meets(Place)
  BY DEF Serving, Placed, Meets
<1>2. taken + 1 \in 1 .. Len(script.units) + 1
  <2>1. Len(script.units) \in Nat BY Scripted DEF StreamOK
  <2>2. arrived \in 0 .. Len(script.units) /\ taken \in 0 .. arrived BY DEF StreamOK, Units
  <2>3. arrived \in Nat /\ taken \in Nat BY <2>1, <2>2
  <2>4. \A u, a, k \in Nat : a \in 0 .. u /\ k \in 0 .. a => k + 1 \in 1 .. u + 1 OBVIOUS
  <2> QED BY ONLY <2>1, <2>2, <2>3, <2>4
<1>3. Place.version \in {0, 33, 37, 38} /\ Place.tight \in BOOLEAN
  BY <1>2, Scripted DEF StreamOK, Place
<1> QED BY <1>1, <1>3

\* It finds nothing to read, or not enough.
LEMMA StillKeeps ==
    ASSUME InStepInv, pc # "idle", Stop, ~misread',
           UNCHANGED <<stream, progress, resumes, connection>>
    PROVE  InStepInv'
<1> USE DEF stream, progress, connection
<1>1. StreamOK' BY DEF InStepInv, StreamOK, Units
<1>2. ResumesOK' BY DEF InStepInv, ResumesOK, Stop
<1>3. CallsOK' BY DEF InStepInv, CallsOK, Stop, Has
<1>4. init # "" /\ Placed BY DEF InStepInv, CallsOK, Underway
<1>5. Placed' BY <1>4 DEF Placed, Place, Meets, Begun, Wanted, Scheming
<1>6. (conn = "connecting" /\ init # "" => KeepsPace)' BY DEF InStepInv, KeepsPace, Due, Owes
<1> QED BY <1>1, <1>2, <1>3, <1>5, <1>6 DEF InStepInv

\* It ends the connection.
LEMMA RefusesKeeps ==
    ASSUME Serving, StreamOK', Refuses, UNCHANGED resumes, init' # ""
    PROVE  InStepInv'
<1>1. conn' = "disconnected" /\ pc' = "idle" /\ resumes' = 0
  BY DEF Serving, Refuses, Fails, Terminated, Stop, Moved, ComesFrom
<1>2. ResumesOK'
  <2>1. 0 \in Nat OBVIOUS
  <2> QED BY ONLY <1>1, <2>1 DEF ResumesOK
<1>3. CallsOK' BY <1>1 DEF CallsOK
<1> QED BY <1>1, <1>2, <1>3 DEF InStepInv, Underway

\* It goes on, in this task or the next.
GoingOn ==
    /\ Quiet /\ UNCHANGED resumes
    /\ pc' \in {"idle", "loop", "ra2"}
    /\ pc' = "loop" => init' # "Security"
    /\ pc' = "ra2" => init' = "Authentication" /\ scheme' = "RA2ne" /\ ra2' # "none"

LEMMA GoesOn ==
    ASSUME Serving, GoingOn, StreamOK', KeepsPace', Placed'
    PROVE  InStepInv'
<1>1. conn' = "connecting" /\ resumes' = 0
  BY DEF Serving, GoingOn, Quiet, connection
<1>2. ResumesOK' BY <1>1 DEF ResumesOK, GoingOn
<1>3. init' # "" BY DEF Placed, Meets, Begun
<1>4. CallsOK' BY <1>1, <1>3 DEF CallsOK, GoingOn
<1> QED BY <1>1, <1>2, <1>4 DEF InStepInv

\* With one answer, or none.
Utters(own) == (own = <<>> /\ said' = said) \/ \E a \in ClientSays : own = <<a>> /\ Says(a)

LEMMA Uttered == \A a : a \in ClientSays /\ Says(a) => Utters(<<a>>)
<1>1. ASSUME NEW a \in ClientSays, Says(a) PROVE Utters(<<a>>)
  <2>1. \E b \in ClientSays : <<a>> = <<b>> /\ Says(b)
    <3> WITNESS a \in ClientSays
    <3> QED BY <1>1
  <2> QED BY <2>1 DEF Utters
<1> QED BY <1>1

\* Having read a unit, or two, with what it says to that.
LEMMA TakesOne ==
    ASSUME StreamOK, Serving, ~Owes, Has(1), NEW w, Wanted = w, Reads(<<w>>),
           NEW q, q = Turn(Place, Next1), Meets(q.stage)',
           NEW own,
           Utters(own),
           q.answers = IF Owes' THEN Append(own, "shared") ELSE own
    PROVE  StreamOK' /\ KeepsPace' /\ Placed'
<1>1. KeepsPace /\ Place.want = w BY DEF Serving, Placed, Meets
<1>2. /\ taken' \in 0 .. arrived /\ misread' = FALSE
      /\ script' = script /\ arrived' = arrived
      /\ Place' = q.stage /\ Due' = Due + Len(q.answers)
      /\ \A j \in DOMAIN q.answers : script.answers[Due + j] = q.answers[j]
  BY <1>1, ReadsOne
<1>3. \/ own = <<>> /\ said' = said
      \/ \E a \in ClientSays : own = <<a>> /\ said' = Append(said, a)
  BY DEF Serving, Utters, Says
<1>4. StreamOK' /\ KeepsPace'
  <2>1. PICK t : t = q.answers OBVIOUS
  <2> QED BY ONLY <1>1, <1>2, <1>3, <2>1, StreamOK, ~Owes, Paced,
                  q.answers = IF Owes' THEN Append(own, "shared") ELSE own
<1>5. Placed' BY <1>2 DEF Placed, Meets
<1> QED BY <1>4, <1>5

LEMMA TakesTwo ==
    ASSUME StreamOK, Serving, ~Owes, Has(2), NEW w, NEW w2, Wanted = w, Reads(<<w, w2>>),
           NEW p, p = Turn(Place, Next1).stage, p.want = w2, Turn(Place, Next1).answers = <<>>,
           NEW q, q = Turn(p, Next2), Meets(q.stage)',
           NEW own,
           Utters(own),
           q.answers = IF Owes' THEN Append(own, "shared") ELSE own
    PROVE  StreamOK' /\ KeepsPace' /\ Placed'
<1>1. KeepsPace /\ Place.want = w BY DEF Serving, Placed, Meets
<1>2. /\ taken' \in 0 .. arrived /\ misread' = FALSE
      /\ script' = script /\ arrived' = arrived
      /\ Place' = Turn(p, Next2).stage
      /\ Due' = Due + Len(Turn(p, Next2).answers) /\ Awaits(Due, Turn(p, Next2).answers)
  BY ONLY <1>1, StreamOK, Has(2), Reads(<<w, w2>>), p = Turn(Place, Next1).stage, p.want = w2,
          Turn(Place, Next1).answers = <<>>, ReadsTwo
<1>3. /\ taken' \in 0 .. arrived /\ misread' = FALSE
      /\ script' = script /\ arrived' = arrived
      /\ Place' = q.stage /\ Due' = Due + Len(q.answers)
      /\ \A j \in DOMAIN q.answers : script.answers[Due + j] = q.answers[j]
  BY ONLY <1>2, q = Turn(p, Next2) DEF Awaits
<1>4. \/ own = <<>> /\ said' = said
      \/ \E a \in ClientSays : own = <<a>> /\ said' = Append(said, a)
  BY DEF Serving, Utters, Says
<1>5. StreamOK' /\ KeepsPace'
  <2>1. PICK t : t = q.answers OBVIOUS
  <2> QED BY ONLY <1>1, <1>3, <1>4, <2>1, StreamOK, ~Owes, Paced,
                  q.answers = IF Owes' THEN Append(own, "shared") ELSE own
<1>6. Placed' BY <1>3 DEF Placed, Meets
<1> QED BY <1>5, <1>6

\* The same, where the client fails.
LEMMA TakesAndRefuses ==
    ASSUME StreamOK, Serving, Has(1), NEW w, Wanted = w, Reads(<<w>>), said' = said
    PROVE  StreamOK'
<1>1. Place.want = w BY DEF Serving, Placed, Meets
<1>2. /\ taken' \in 0 .. arrived /\ misread' = FALSE /\ script' = script /\ arrived' = arrived
  BY <1>1, ReadsOne
<1> QED BY <1>2, StreamStays

\* The client waits for that, with all else agreed on as it was.
GoesFor(want) ==
    /\ UNCHANGED <<version, tight>> /\ Begun' /\ Wanted' = want
    /\ ra2' \in {"none", "key length", "key", "approval"}
    /\ init' # "Security"
    /\ init' = "ProtocolVersion" => UNCHANGED <<init, vencrypt, ra2>>
    /\ init' = "Authentication" /\ scheme' = "VeNCrypt" =>
          vencrypt' \in 0 .. 3 /\ UNCHANGED <<init, scheme, ra2>>

LEMMA MeetsGoing ==
    ASSUME Serving, StreamOK, NEW p, p.version = version, p.tight = tight,
           NEW want, NEW answers, NEW q, q = Goes(p, want, answers), GoesFor(want)
    PROVE  Meets(q.stage)' /\ q.answers = answers
<1> USE DEF GoesFor
<1>1. q.stage.want = want /\ q.stage.version = version /\ q.stage.tight = tight /\ q.answers = answers
  BY DEF Goes, Stage
<1>2. Meets(Place) BY Meeting
<1> QED BY <1>1, <1>2 DEF Meets

\* From stage p the client begins with scheme s.
Begins(p, s) ==
    /\ init' = "Authentication" /\ scheme' = s /\ version' = p.version /\ tight' = p.tight
    /\ version' \in {0, 33, 37, 38} /\ tight' = FALSE /\ ra2' = "none"
    /\ s = "VeNCrypt" => vencrypt' = 0

LEMMA MeetsUnder ==
    ASSUME NEW p, NEW s, NEW answers, NEW q, q = Under(p, s, answers), Begins(p, s)
    PROVE  /\ Meets(q.stage)'
           /\ Owes' => q.answers = Append(answers, "shared")
           /\ ~Owes' => q.answers = answers
<1> USE DEF Begins
<1>1. /\ q.stage.version = version' /\ q.stage.tight = FALSE
      /\ q.stage.want =
           IF s = "None" THEN (IF version' >= 38 THEN "result" ELSE "init")
           ELSE IF s \in DOMAIN FirstUnit THEN FirstUnit[s] ELSE "end"
      /\ q.answers = IF s = "None" /\ ~(version' >= 38) THEN Append(answers, "shared") ELSE answers
  BY DEF Under, Goes, Stage
<1>2. Wanted' = Scheming' BY DEF Wanted
<1>3. q.stage.want = Scheming'
  <2>1. CASE s = "None" BY <1>1, <2>1 DEF Scheming
  <2>2. CASE s = "VNCAuth" BY <1>1, <2>2 DEF Scheming, FirstUnit
  <2>3. CASE s = "Tight" BY <1>1, <2>3 DEF Scheming, FirstUnit
  <2>4. CASE s = "VeNCrypt"
    <3>1. vencrypt' + 1 = 1 BY <2>4
    <3>2. <<"vencrypt version", "vencrypt ack", "vencrypt count", "vencrypt types">>[1]
            = "vencrypt version"
      OBVIOUS
    <3>3. Scheming' = "vencrypt version" BY <2>4, <3>1, <3>2 DEF Scheming
    <3> QED BY <1>1, <2>4, <3>3 DEF FirstUnit
  <2>5. CASE s = "RA2ne" BY <1>1, <2>5 DEF Scheming, FirstUnit
  <2>6. CASE s = "MSLogonII" BY <1>1, <2>6 DEF Scheming, FirstUnit
  <2>7. CASE s \notin {"None", "VNCAuth", "Tight", "VeNCrypt", "RA2ne", "MSLogonII"}
    BY <1>1, <2>7 DEF Scheming, FirstUnit
  <2> QED BY <2>1, <2>2, <2>3, <2>4, <2>5, <2>6, <2>7
<1>4. Owes' <=> s = "None" /\ ~(version' >= 38)
  <2>1. version' < 38 <=> ~(version' >= 38) OBVIOUS
  <2> QED BY <2>1 DEF Owes
<1>5. Meets(q.stage)'
  <2>1. s = "VeNCrypt" => vencrypt' \in 0 .. 3 OBVIOUS
  <2> QED BY <1>1, <1>2, <1>3, <2>1 DEF Meets, Begun
<1> QED BY <1>1, <1>4, <1>5

\* The choice is one of what was to choose from.
LEMMA Chosen ==
    ASSUME NEW offers \in Seq(STRING), NEW schemes, Able(offers, schemes) # {}
    PROVE  Choice(offers, schemes) \in schemes
<1>1. Able(offers, schemes) \in SUBSET Nat BY DEF Able
<1>2. Min(Able(offers, schemes)) \in Able(offers, schemes) BY <1>1, Least
<1> QED BY <1>2 DEF Able, Choice

LEMMA KindChosen ==
    ASSUME NEW offers, TightAble(offers) # {}
    PROVE  TightKind(offers) \in {"None", "VNCAuth", "UnixLogon"}
<1>1. DOMAIN TightKinds = 1 .. 3 /\ \A i \in 1 .. 3 : TightKinds[i] \in {"None", "VNCAuth", "UnixLogon"}
  <2>1. /\ DOMAIN TightKinds = 1 .. 3
        /\ TightKinds[1] = "None" /\ TightKinds[2] = "VNCAuth" /\ TightKinds[3] = "UnixLogon"
    BY DEF TightKinds
  <2>2. \A i \in 1 .. 3 : i = 1 \/ i = 2 \/ i = 3 OBVIOUS
  <2> QED BY <2>1, <2>2
<1>2. TightAble(offers) \in SUBSET Nat /\ TightAble(offers) \subseteq 1 .. 3
  BY <1>1 DEF TightAble
<1>3. Min(TightAble(offers)) \in 1 .. 3 BY <1>2, Least
<1> QED BY <1>1, <1>3 DEF TightKind

\* Two units, and no answer.
LEMMA TakesTwoAndRefuses ==
    ASSUME StreamOK, Serving, Has(2), NEW w, NEW w2, Wanted = w, Reads(<<w, w2>>),
           NEW p, p = Turn(Place, Next1).stage, p.want = w2, Turn(Place, Next1).answers = <<>>,
           said' = said
    PROVE  StreamOK'
<1>1. Place.want = w BY DEF Serving, Placed, Meets
<1>2. /\ taken' \in 0 .. arrived /\ misread' = FALSE
      /\ script' = script /\ arrived' = arrived
  BY ONLY <1>1, StreamOK, Has(2), Reads(<<w, w2>>), p = Turn(Place, Next1).stage, p.want = w2,
          Turn(Place, Next1).answers = <<>>, ReadsTwo
<1> QED BY <1>2, StreamStays

\* Nothing is read and nothing said.
LEMMA Unread ==
    ASSUME StreamOK, ReadsNothing, said' = said
    PROVE  StreamOK' /\ Place' = Place /\ Due' = Due
BY DEF StreamOK, Units, ReadsNothing, Place, Due

LEMMA VersionKeeps ==
    ASSUME InStepInv, PageInv, Version PROVE InStepInv'
<1>1. StreamOK /\ Serving /\ ~Owes /\ Wanted = "version"
  <2>1. pc # "idle" /\ init = "ProtocolVersion" BY DEF Version, At
  <2> QED BY <2>1, ServesAlone DEF Owes, Wanted
<1>2. PICK q : q = Turn(Place, Next1) OBVIOUS
<1>3. version' = Versions[Next1.k] /\ version' \in {33, 37, 38} BY DEF Version, Versions
<1>4. /\ q.stage = Stage(IF version' < 37 THEN "scheme" ELSE "count", version', FALSE)
      /\ q.answers = <<"version">>
  <2>1. Place.want = "version" BY <1>1 DEF Serving, Placed, Meets
  <2> QED BY <1>2, <1>3, <2>1 DEF Turn, Version, Versions
<1>5. Meets(q.stage)'
  <2>1. /\ q.stage.want = IF version' < 37 THEN "scheme" ELSE "count"
        /\ q.stage.version = version' /\ q.stage.tight = FALSE
    BY <1>4 DEF Stage
  <2>2. /\ init = "ProtocolVersion" /\ init' = "Security"
        /\ UNCHANGED <<scheme, tight, vencrypt, ra2>>
    BY DEF Version, To, At
  <2>3. vencrypt = 0 /\ tight = FALSE /\ ra2 = "none"
    BY <1>1, <2>2 DEF Serving, Placed, Meets
  <2> QED BY ONLY <2>1, <2>2, <2>3 DEF Meets, Begun, Wanted
<1>6. StreamOK' /\ KeepsPace' /\ Placed'
  <2>1. Has(1) /\ Reads(<<"version">>) /\ Says("version") BY DEF Version
  <2>3. Utters(<<"version">>) BY <2>1, Uttered, Zenon DEF ClientSays
  <2>2. ~Owes' BY DEF Version, To, Owes
  <2> QED BY <1>1, <1>2, <1>4, <1>5, <2>1, <2>2, <2>3, TakesOne
<1> QED BY <1>1, <1>6, GoesOn DEF GoingOn, Version, Stop

LEMMA RepeaterKeeps ==
    ASSUME InStepInv, PageInv, Repeater PROVE InStepInv'
<1>1. StreamOK /\ Serving /\ pc # "timer" /\ ~Owes /\ init = "ProtocolVersion" /\ Wanted = "version"
  <2>1. pc # "idle" /\ init = "ProtocolVersion" BY DEF Repeater, At
  <2> QED BY <2>1, ServesAlone DEF Owes, Wanted
<1>2. PICK q : q = Turn(Place, Next1) OBVIOUS
<1>3. q = Goes(Place, "version", <<"repeater id">>)
  <2>1. Place.want = "version" BY <1>1, Meeting
  <2> QED BY <1>2, <2>1 DEF Turn, Repeater
<1>4. UNCHANGED <<init, version, scheme, tight, vencrypt, ra2>> BY DEF Repeater, progress
<1>5. Meets(q.stage)' /\ q.answers = <<"repeater id">>
  <2>1. Begun' /\ Wanted' = "version" BY <1>1, <1>4 DEF Begun, Wanted
  <2>2. Meets(Place) /\ Place.version = version /\ Place.tight = tight BY <1>1, Meeting
  <2>3. ra2 \in {"none", "key length", "key", "approval"} BY <2>2 DEF Meets
  <2>4. init' = init /\ init' = "ProtocolVersion" BY <1>1, <1>4
  <2>5. PICK t : t = <<"repeater id">> OBVIOUS
  <2>6. q = Goes(Place, "version", t) BY ONLY <1>3, <2>5
  <2>7. GoesFor("version") BY <1>4, <2>1, <2>3, <2>4 DEF GoesFor
  <2>8. Meets(q.stage)' /\ q.answers = t BY ONLY <1>1, <2>2, <2>6, <2>7, MeetsGoing
  <2> QED BY ONLY <2>5, <2>8
<1>6. StreamOK' /\ KeepsPace' /\ Placed'
  <2>1. Has(1) /\ Reads(<<"version">>) /\ Says("repeater id") BY DEF Repeater
  <2>2. ~Owes' BY <1>1, <1>4 DEF Owes
  <2>3. Utters(<<"repeater id">>) BY <2>1, Uttered, Zenon DEF ClientSays
  <2> QED BY <1>1, <1>2, <1>5, <2>1, <2>2, <2>3, TakesOne
<1>7. GoingOn BY <1>1, <1>4 DEF GoingOn, Repeater, Again
<1> QED BY <1>1, <1>6, <1>7, GoesOn

LEMMA VersionRefusedKeeps ==
    ASSUME InStepInv, PageInv, VersionRefused PROVE InStepInv'
<1>1. StreamOK /\ Serving /\ init # "" /\ Wanted = "version"
  <2>1. pc # "idle" /\ init = "ProtocolVersion" BY DEF VersionRefused, At
  <2> QED BY <2>1, ServesAlone DEF Wanted
<1>2. /\ Has(1) /\ Reads(<<"version">>) /\ Refuses
      /\ UNCHANGED <<said, init, resumes>>
  BY DEF VersionRefused, progress
<1>3. StreamOK' BY <1>1, <1>2, TakesAndRefuses
<1> QED BY <1>1, <1>2, <1>3, RefusesKeeps

\* Calls that find too little.
LEMMA StarvesKeeps ==
    ASSUME InStepInv, PageInv,
           \/ VersionStarves \/ SecurityStarves \/ MSLogonStarves \/ StdVNCStarves \/ VeNCryptStarves
           \/ TightStarves \/ Ra2Waits \/ ResultStarves \/ ReasonStarves \/ ServerInitStarves
    PROVE  InStepInv'
<1>1. CASE SecurityStarves
  <2>1. init = "Security" /\ pc \in {"loop", "timer"} BY <1>1 DEF SecurityStarves, At
  <2>2. Has(1) BY <2>1, NoTimer DEF InStepInv, CallsOK
  <2>3. ~misread'
    <3>1. ~misread BY DEF InStepInv, StreamOK
    <3>2. ~Blind BY <2>2 DEF Blind
    <3> QED BY <1>1, <3>1, <3>2 DEF SecurityStarves
  <2> QED BY <1>1, <2>1, <2>3, StillKeeps DEF SecurityStarves, Quiet
<1>2. CASE ~SecurityStarves
  <2>1. /\ pc # "idle" /\ Stop /\ ~misread'
        /\ UNCHANGED <<stream, progress, resumes, connection>>
    <3>0. ~misread BY DEF InStepInv, StreamOK
    <3> USE <3>0 DEF Starves, ReadsNothing, stream, Quiet, At, AtScheme
    <3>1. CASE VersionStarves \/ MSLogonStarves \/ StdVNCStarves
      BY <3>1 DEF VersionStarves, MSLogonStarves, StdVNCStarves
    <3>2. CASE VeNCryptStarves \/ TightStarves \/ Ra2Waits
      BY <3>2 DEF VeNCryptStarves, TightStarves, Ra2Waits
    <3>3. CASE ResultStarves \/ ReasonStarves \/ ServerInitStarves
      BY <3>3 DEF ResultStarves, ReasonStarves, ServerInitStarves
    <3> QED BY <1>2, <3>1, <3>2, <3>3
  <2> QED BY <2>1, StillKeeps
<1> QED BY <1>1, <1>2

LEMMA NoSecurityKeeps ==
    ASSUME InStepInv, PageInv, NoSecurity PROVE InStepInv'
<1>1. StreamOK /\ Serving /\ pc # "timer" /\ ~Owes /\ init = "Security"
  <2>1. pc # "idle" /\ init = "Security" BY DEF NoSecurity, At
  <2> QED BY <2>1, ServesAlone DEF Owes
<1>2. PICK q : q = Turn(Place, Next1) OBVIOUS
<1>3. PICK w : w = IF version < 37 THEN "scheme" ELSE "count" OBVIOUS
<1>4. Wanted = w /\ Place.want = w BY <1>1, <1>3, Meeting DEF Wanted
<1>5. Reads(<<w>>) /\ q = Goes(Place, "reason length", <<>>)
  <2>1. CASE version < 37 BY <1>2, <1>3, <1>4, <2>1 DEF Turn, NoSecurity
  <2>2. CASE ~(version < 37)
    <3>1. w = "count" /\ Reads(<<w>>) /\ Next1.n = 0 BY <1>3, <2>2 DEF NoSecurity
    <3>2. ~(0 > 0) OBVIOUS
    <3>3. ~(Next1.n > 0) BY ONLY <3>1, <3>2
    <3> QED BY <1>2, <1>4, <3>1, <3>3 DEF Turn
  <2> QED BY <2>1, <2>2
<1>6. init' = "SecurityReason" /\ UNCHANGED <<said, version, scheme, tight, vencrypt, ra2>>
  BY DEF NoSecurity, To
<1>7. Meets(q.stage)' /\ q.answers = <<>>
  <2>1. Begun' /\ Wanted' = "reason length" BY <1>6 DEF Begun, Wanted
  <2>2. Meets(Place) /\ Place.version = version /\ Place.tight = tight BY <1>1, Meeting
  <2>3. ra2' \in {"none", "key length", "key", "approval"} BY <1>6, <2>2 DEF Meets
  <2>4. GoesFor("reason length") BY <1>6, <2>1, <2>3 DEF GoesFor
  <2> QED BY <1>1, <1>5, <2>2, <2>4, MeetsGoing
<1>8. StreamOK' /\ KeepsPace' /\ Placed'
  <2>1. Has(1) BY DEF NoSecurity
  <2>2. ~Owes' BY <1>6 DEF Owes
  <2>3. Utters(<<>>) BY <1>6 DEF Utters
  <2> QED BY <1>1, <1>2, <1>4, <1>5, <1>7, <2>1, <2>2, <2>3, TakesOne
<1>9. GoingOn BY <1>1, <1>6 DEF GoingOn, NoSecurity, Again
<1> QED BY <1>1, <1>8, <1>9, GoesOn

LEMMA SecurityKeeps ==
    ASSUME InStepInv, PageInv, Security PROVE InStepInv'
<1>1. StreamOK /\ Serving /\ pc # "timer" /\ ~Owes /\ init = "Security"
  <2>1. pc # "idle" /\ init = "Security" BY DEF Security, At
  <2> QED BY <2>1, ServesAlone DEF Owes
<1>2. PICK p : p = Turn(Place, Next1).stage OBVIOUS
<1>3. /\ Wanted = "count" /\ Place.want = "count" /\ Place.version = version /\ Place.tight = tight
      /\ version \in {0, 33, 37, 38}
      /\ vencrypt = 0 /\ tight = FALSE /\ ra2 = "none"
  <2>1. Wanted = "count"
    <3>1. version >= 37 /\ version \in {0, 33, 37, 38} BY <1>1, Meeting DEF Security
    <3>2. ~(version < 37) BY ONLY <3>1
    <3> QED BY <1>1, <3>2 DEF Wanted
  <2>2. Meets(Place) BY <1>1, Meeting
  <2>3. vencrypt = 0 /\ ~tight /\ ra2 = "none" BY <1>1, <2>2 DEF Meets
  <2> QED BY <1>1, <2>1, <2>3, Meeting
<1>4. /\ p.want = "types" /\ p.version = version /\ p.tight = FALSE
      /\ Turn(Place, Next1).answers = <<>>
  <2>1. Turn(Place, Next1) = Goes(Place, "types", <<>>) BY <1>3 DEF Turn, Security
  <2> QED BY <1>2, <1>3, <2>1 DEF Goes, Stage
<1>5. Has(2) /\ Reads(<<"count", "types">>) BY DEF Security
<1>6. CASE Able(Next2.offers, Supported) = {}
  <2>1. Refuses /\ UNCHANGED <<said, progress, resumes>> BY <1>6 DEF Security
  <2>2. StreamOK' BY <1>1, <1>2, <1>3, <1>4, <1>5, <2>1, TakesTwoAndRefuses
  <2>3. init' # "" BY <1>1, <2>1 DEF progress
  <2> QED BY <1>1, <2>1, <2>2, <2>3, RefusesKeeps
<1>7. CASE Able(Next2.offers, Supported) # {}
  <2>1. PICK s : s = Choice(Next2.offers, Supported) OBVIOUS
  <2>2. PICK q : q = Turn(p, Next2) OBVIOUS
  <2>3. PICK t : t = <<"type">> OBVIOUS
  <2>4. q = Under(p, s, t) BY <1>4, <1>7, <2>1, <2>2, <2>3 DEF Turn
  <2>5. /\ init' = "Authentication" /\ scheme' = s
        /\ version' = version /\ tight' = tight /\ ra2' = ra2 /\ vencrypt' = vencrypt
        /\ resumes' = resumes
    BY <1>7, <2>1 DEF Security, To
  <2>6. Meets(q.stage)' /\ q.answers = IF Owes' THEN Append(t, "shared") ELSE t
    <3>1. Begins(p, s) BY <1>3, <1>4, <2>5 DEF Begins
    <3>2. /\ Meets(q.stage)'
          /\ Owes' => q.answers = Append(t, "shared")
          /\ ~Owes' => q.answers = t
      BY ONLY <2>4, <3>1, MeetsUnder
    <3> QED BY ONLY <3>2
  <2>7. Utters(t)
    <3>1. Says("type") BY <1>7 DEF Security
    <3>2. Utters(<<"type">>) BY <3>1, Uttered, Zenon DEF ClientSays
    <3> QED BY ONLY <2>3, <3>2
  <2>8. StreamOK' /\ KeepsPace' /\ Placed'
    BY ONLY <1>1, <1>2, <1>3, <1>4, <1>5, <2>2, <2>6, <2>7, TakesTwo
  <2>9. GoingOn BY <1>1, <1>7, <2>5 DEF GoingOn, Security, Again
  <2> QED BY <1>1, <2>8, <2>9, GoesOn
<1> QED BY <1>6, <1>7

LEMMA SecurityDictatedKeeps ==
    ASSUME InStepInv, PageInv, SecurityDictated PROVE InStepInv'
<1>1. StreamOK /\ Serving /\ pc # "timer" /\ ~Owes /\ init = "Security"
  <2>1. pc # "idle" /\ init = "Security" BY DEF SecurityDictated, At
  <2> QED BY <2>1, ServesAlone DEF Owes
<1>2. PICK p : p = Place OBVIOUS
<1>3. /\ Wanted = "scheme" /\ p.want = "scheme" /\ p.version = version /\ p.tight = tight
      /\ version \in {0, 33, 37, 38}
      /\ vencrypt = 0 /\ tight = FALSE /\ ra2 = "none"
  <2>1. Wanted = "scheme" BY <1>1 DEF Wanted, SecurityDictated
  <2>2. Meets(Place) BY <1>1, Meeting
  <2>3. vencrypt = 0 /\ ~tight /\ ra2 = "none" BY <1>1, <2>2 DEF Meets
  <2> QED BY <1>1, <1>2, <2>1, <2>3, Meeting
<1>4. PICK q : q = Turn(Place, Next1) OBVIOUS
<1>5. PICK s : s = Next1.k OBVIOUS
<1>6. q = Under(p, s, <<>>) BY <1>2, <1>3, <1>4, <1>5 DEF Turn, SecurityDictated
<1>7. /\ init' = "Authentication" /\ scheme' = s /\ said' = said
      /\ version' = version /\ tight' = tight /\ ra2' = ra2 /\ vencrypt' = vencrypt
      /\ resumes' = resumes
  BY <1>5 DEF SecurityDictated, To
<1>8. Meets(q.stage)' /\ q.answers = IF Owes' THEN Append(<<>>, "shared") ELSE <<>>
  <2>1. Begins(p, s) BY <1>3, <1>7 DEF Begins
  <2>2. PICK t : t = <<>> OBVIOUS
  <2>3. q = Under(p, s, t) BY ONLY <1>6, <2>2
  <2>4. /\ Meets(q.stage)'
        /\ Owes' => q.answers = Append(t, "shared")
        /\ ~Owes' => q.answers = t
    BY ONLY <2>1, <2>3, MeetsUnder
  <2> QED BY ONLY <2>2, <2>4
<1>9. StreamOK' /\ KeepsPace' /\ Placed'
  <2>1. Has(1) /\ Reads(<<"scheme">>) BY DEF SecurityDictated
  <2>2. Utters(<<>>) BY <1>7 DEF Utters
  <2> QED BY ONLY <1>1, <1>3, <1>4, <1>8, <2>1, <2>2, TakesOne
<1>10. GoingOn BY <1>1, <1>7 DEF GoingOn, SecurityDictated, Again
<1> QED BY <1>1, <1>9, <1>10, GoesOn

LEMMA NoAuthKeeps ==
    ASSUME InStepInv, PageInv, NoAuth PROVE InStepInv'
<1>1. StreamOK /\ Serving /\ pc # "timer" /\ init = "Authentication" /\ scheme = "None"
  <2>1. pc # "idle" /\ init = "Authentication" /\ scheme = "None" BY DEF NoAuth, At, AtScheme
  <2>2. "None" \notin NeedUsername \cup {"VNCAuth"} BY DEF NeedUsername
  <2> QED BY <2>1, <2>2, ServesAlone
<1>2. /\ UNCHANGED <<said, version, scheme, tight, vencrypt, ra2>>
      /\ init' = IF version >= 38 THEN "SecurityResult" ELSE "ClientInitialisation"
  BY DEF NoAuth, To
<1>3. StreamOK' /\ Place' = Place /\ Due' = Due BY <1>1, <1>2, Unread DEF NoAuth
<1>4. Wanted' = Wanted /\ (Owes' <=> Owes)
  <2>1. version \in {0, 33, 37, 38} BY <1>1, Meeting
  <2>2. version < 38 <=> ~(version >= 38) BY ONLY <2>1
  <2> QED BY <1>1, <1>2, <2>2 DEF Wanted, Scheming, Owes
<1>5. KeepsPace'
  <2>1. KeepsPace BY <1>1 DEF Serving
  <2>2. script' = script BY DEF NoAuth, ReadsNothing
  <2> QED BY <1>2, <1>3, <1>4, <2>1, <2>2 DEF KeepsPace
<1>6. Placed'
  <2>1. Meets(Place) BY <1>1, Meeting
  <2> QED BY <1>1, <1>2, <1>3, <1>4, <2>1 DEF Placed, Meets, Begun
<1>7. GoingOn BY <1>1, <1>2 DEF GoingOn, NoAuth, Again
<1> QED BY <1>1, <1>3, <1>5, <1>6, <1>7, GoesOn

LEMMA UnsupportedKeeps ==
    ASSUME InStepInv, PageInv, Unsupported PROVE InStepInv'
<1>1. StreamOK /\ Serving /\ init # ""
  <2>1. pc # "idle" /\ init = "Authentication" BY DEF Unsupported, At
  <2>2. scheme \notin NeedUsername \cup {"VNCAuth"} BY DEF Unsupported, NeedUsername, Supported
  <2> QED BY <2>1, <2>2, ServesAlone
<1>2. ReadsNothing /\ Refuses /\ UNCHANGED <<said, init, resumes>>
  BY DEF Unsupported, progress
<1>3. StreamOK' BY <1>1, <1>2, Unread
<1> QED BY <1>1, <1>2, <1>3, RefusesKeeps

\* The page is asked, and its answer is to resume the handshake.
LEMMA UsernameMissingKeeps ==
    ASSUME InStepInv, PageInv, UsernameMissing PROVE InStepInv'
<1>1. /\ init = "Authentication" /\ scheme \in NeedUsername /\ pc # "idle"
      /\ AsksCredentials
  BY DEF UsernameMissing, At
<1>2. /\ resumes' = resumes + 1 /\ pc' = "idle" /\ ReadsNothing
      /\ UNCHANGED <<said, init, version, scheme, tight, vencrypt, ra2>>
      /\ UNCHANGED <<conn, sock>>
  BY <1>1 DEF AsksCredentials, Stop, Quiet, connection
<1>3. StreamOK' /\ Place' = Place /\ Due' = Due BY <1>2, Unread DEF InStepInv
<1>4. ResumesOK'
  <2>1. resumes' \in Nat
    <3>1. resumes \in Nat BY DEF InStepInv, ResumesOK
    <3> QED BY ONLY <1>2, <3>1
  <2> QED BY <1>1, <1>2, <2>1 DEF ResumesOK
<1>5. CallsOK' BY <1>1, <1>2 DEF InStepInv, CallsOK
<1>6. Placed'
  <2>1. Placed BY <1>1 DEF InStepInv, Underway
  <2> QED BY <1>2, <1>3, <2>1 DEF Placed, Meets, Begun, Wanted, Scheming
<1>7. (conn = "connecting" /\ init # "" => KeepsPace)'
  BY <1>2, <1>3 DEF InStepInv, KeepsPace, Owes, ReadsNothing
<1> QED BY <1>3, <1>4, <1>5, <1>6, <1>7 DEF InStepInv

\* So it is for a challenge, which a server sends once.
LEMMA StdVNCAsksKeeps ==
    ASSUME InStepInv, PageInv, StdVNCAsks PROVE InStepInv'
<1>1. /\ init = "Authentication" /\ scheme = "VNCAuth" /\ pc # "idle" /\ ~password /\ Has(1)
      /\ AsksCredentials
  BY DEF StdVNCAsks, At, AtScheme
<1>2. resumes = 0 /\ pc # "timer"
  <2>1. scheme \notin NeedUsername BY <1>1 DEF NeedUsername
  <2> QED BY <1>1, <2>1 DEF InStepInv, ResumesOK
<1>3. StreamOK /\ Serving
  <2>1. conn = "connecting" BY <1>1, <1>2 DEF InStepInv, CallsOK
  <2> QED BY <1>1, <1>2, <2>1, Serves DEF InStepInv
<1>4. /\ resumes' = 1 /\ pc' = "idle" /\ ReadsNothing /\ password' = TRUE
      /\ UNCHANGED <<said, init, version, scheme, tight, vencrypt, ra2>>
      /\ UNCHANGED <<conn, sock>>
  <2>1. resumes' = resumes + 1 BY <1>1 DEF AsksCredentials
  <2>2. resumes' = 1 BY ONLY <1>2, <2>1
  <2> QED BY <1>1, <2>2 DEF AsksCredentials, Stop, Quiet, connection
<1>5. StreamOK' /\ Place' = Place /\ Due' = Due BY <1>3, <1>4, Unread
<1>6. arrived = taken + 1
  <2>1. Place.want = "challenge" BY <1>1, <1>3, Meeting DEF Wanted, Scheming
  <2>2. Turn(Place, Next1).answers = <<"response">> BY <2>1 DEF Turn, Goes
  <2>3. /\ arrived \in Nat /\ taken \in Nat /\ arrived >= taken + 1
        /\ arrived <= Len(script.units) /\ Len(script.units) \in Nat
    <3>1. Len(script.units) \in Nat BY <1>3, Scripted DEF StreamOK
    <3>2. arrived \in 0 .. Len(script.units) /\ taken \in 0 .. arrived BY <1>3 DEF StreamOK, Units
    <3>3. arrived - taken >= 1 BY <1>1 DEF Has
    <3>4. arrived \in Nat /\ taken \in Nat BY <3>1, <3>2
    <3> QED BY ONLY <3>1, <3>2, <3>3, <3>4
  <2>4. taken + 1 \in 1 .. Len(script.units) BY ONLY <2>3
  <2>5. script.after[taken + 1 + 1] = Due + 1
    <3>1. script.after[taken + 1 + 1] = Due + Len(Turn(Place, Next1).answers)
      BY <1>3, <2>4, TurnTaken DEF StreamOK, Place, Next1, Due
    <3>2. Len(<<"response">>) = 1 BY Tuples
    <3> QED BY ONLY <2>2, <3>1, <3>2
  <2>6. Len(said) = Due
    <3>1. ~Owes BY <1>1 DEF Owes
    <3> QED BY <1>3, <3>1 DEF Serving, KeepsPace
  <2>7. Len(said) \in Nat BY <1>3 DEF StreamOK
  <2>8. ASSUME taken + 1 + 1 \in 1 .. arrived PROVE FALSE
    <3>1. script.after[taken + 1 + 1] <= Len(said) BY <1>3, <2>8 DEF StreamOK
    <3> QED BY ONLY <2>5, <2>6, <2>7, <3>1
  <2> QED BY ONLY <2>3, <2>8
<1>7. ResumesOK'
  <2>1. 1 \in Nat /\ 1 \in {0, 1} OBVIOUS
  <2>2. arrived' = arrived /\ taken' = taken BY <1>4 DEF ReadsNothing
  <2> QED BY ONLY <1>1, <1>4, <1>6, <2>1, <2>2 DEF ResumesOK
<1>8. CallsOK' BY <1>1, <1>4, <1>3 DEF InStepInv, CallsOK, Serving
<1>9. Placed'
  <2>1. Placed BY <1>3 DEF Serving
  <2> QED BY <1>4, <1>5, <2>1 DEF Placed, Meets, Begun, Wanted, Scheming
<1>10. (conn = "connecting" /\ init # "" => KeepsPace)'
  BY <1>4, <1>5 DEF InStepInv, KeepsPace, Owes, ReadsNothing
<1> QED BY <1>5, <1>7, <1>8, <1>9, <1>10 DEF InStepInv

\* The password may come when the connection is no more.
LEMMA StdVNCAuthKeeps ==
    ASSUME InStepInv, PageInv, StdVNCAuth PROVE InStepInv'
<1>1. /\ init = "Authentication" /\ scheme = "VNCAuth" /\ pc \in {"loop", "timer"} /\ Has(1)
      /\ Reads(<<"challenge">>) /\ Says("response") /\ init' = "SecurityResult"
      /\ Quiet /\ Again /\ UNCHANGED <<version, scheme, tight, vencrypt, ra2, password, resumes>>
  BY DEF StdVNCAuth, At, AtScheme, To
<1>2. resumes = 0
  <2>1. scheme \notin NeedUsername BY <1>1 DEF NeedUsername
  <2> QED BY <1>1, <2>1 DEF InStepInv, ResumesOK
<1>3. StreamOK /\ Placed /\ Wanted = "challenge"
  BY <1>1 DEF InStepInv, Underway, Wanted, Scheming
<1>4. CASE conn = "connecting"
  <2>1. Serving BY <1>1, <1>2, <1>4, Serves
  <2>2. PICK q : q = Turn(Place, Next1) OBVIOUS
  <2>3. PICK t : t = <<"response">> OBVIOUS
  <2>4. q = Goes(Place, "result", t)
    <3>1. Place.want = "challenge" BY <1>3 DEF Placed, Meets
    <3> QED BY <2>2, <2>3, <3>1 DEF Turn
  <2>5. Meets(q.stage)' /\ q.answers = t
    <3>1. Begun' /\ Wanted' = "result" BY <1>1 DEF Begun, Wanted
    <3>2. Meets(Place) /\ Place.version = version /\ Place.tight = tight BY <1>3, <2>1, Meeting
    <3>3. ra2' \in {"none", "key length", "key", "approval"} BY <1>1, <3>2 DEF Meets
    <3>4. GoesFor("result") BY <1>1, <3>1, <3>3 DEF GoesFor
    <3> QED BY ONLY <1>3, <2>1, <2>4, <3>2, <3>4, MeetsGoing
  <2>6. StreamOK' /\ KeepsPace' /\ Placed'
    <3>1. ~Owes /\ ~Owes' BY <1>1 DEF Owes
    <3>2. Utters(<<"response">>) BY <1>1, Uttered, Zenon DEF ClientSays
    <3>3. Utters(t) BY ONLY <2>3, <3>2
    <3> QED BY ONLY <1>1, <1>3, <2>1, <2>2, <2>5, <3>1, <3>3, TakesOne
  <2>7. GoingOn BY <1>1 DEF GoingOn, Again
  <2> QED BY <2>1, <2>6, <2>7, GoesOn
<1>5. CASE conn # "connecting"
  <2>1. sock # "open"
    <3>1. conn # "connected" BY <1>1 DEF InStepInv, CallsOK
    <3>2. conn # "" BY <1>1 DEF PageInv, PageShape
    <3>3. conn = "disconnected" BY <1>5, <3>1, <3>2 DEF PageInv, PageShape
    <3> QED BY <3>3 DEF PageInv, PageFollows
  <2>2. said' = said BY <1>1, <2>1 DEF Says
  <2>3. taken' \in 0 .. arrived /\ misread' = FALSE /\ script' = script /\ arrived' = arrived
    <3>1. Place.want = "challenge" BY <1>3 DEF Placed, Meets
    <3> QED BY <1>1, <1>3, <3>1, ReadsOne
  <2>4. StreamOK' BY <1>3, <2>2, <2>3, StreamStays
  <2>5. conn' # "connecting" /\ conn' = conn /\ pc' = "idle" /\ resumes' = 0
    BY <1>1, <1>2, <1>5 DEF Quiet, connection, Again
  <2>6. ResumesOK'
    <3>1. 0 \in Nat OBVIOUS
    <3> QED BY ONLY <2>5, <3>1 DEF ResumesOK
  <2>7. CallsOK'
    <3>1. conn # "connected" BY <1>1 DEF InStepInv, CallsOK
    <3> QED BY <1>1, <2>5, <3>1 DEF CallsOK
  <2> QED BY <2>4, <2>5, <2>6, <2>7 DEF InStepInv, Underway
<1> QED BY <1>4, <1>5

\* A call that fails is none that goes on.
LEMMA FailsNotQuiet ==
    ASSUME Serving, Refuses PROVE ~Quiet
BY DEF Serving, Refuses, Fails, Terminated, Moved, ComesFrom, Quiet, connection

LEMMA VeNCryptUnits ==
    LET units == <<"vencrypt version", "vencrypt ack", "vencrypt count", "vencrypt types">>
    IN /\ units[0 + 1] = "vencrypt version" /\ units[1 + 1] = "vencrypt ack"
       /\ units[2 + 1] = "vencrypt count" /\ units[3 + 1] = "vencrypt types"
OBVIOUS

LEMMA VeNCryptVersionKeeps ==
    ASSUME InStepInv, PageInv, VeNCryptVersion PROVE InStepInv'
<1>1. /\ init = "Authentication" /\ scheme = "VeNCrypt" /\ vencrypt = 0 /\ pc = "loop"
      /\ Serving /\ StreamOK
  <2>1. /\ init = "Authentication" /\ scheme = "VeNCrypt" /\ vencrypt = 0
        /\ pc \in {"loop", "timer"}
    BY DEF VeNCryptVersion, InVeNCrypt, AtScheme, At
  <2>2. scheme \notin NeedUsername \cup {"VNCAuth"} BY <2>1 DEF NeedUsername
  <2> QED BY <2>1, <2>2, ServesAlone
<1>2. ~Owes /\ Wanted = "vencrypt version" /\ Place.want = "vencrypt version"
  <2>1. Wanted = "vencrypt version" BY <1>1, VeNCryptUnits DEF Wanted, Scheming
  <2> QED BY <1>1, <2>1, Meeting DEF Owes
<1>3. Has(1) /\ Reads(<<"vencrypt version">>) /\ UNCHANGED <<scheme, resumes>>
  BY DEF VeNCryptVersion, VeNCryptTo
<1>4. CASE Refuses
  <2>1. said' = said /\ init' = init BY <1>1, <1>4, FailsNotQuiet DEF VeNCryptVersion, VeNCryptTo
  <2>2. StreamOK' BY <1>1, <1>2, <1>3, <2>1, TakesAndRefuses
  <2>3. init' # "" BY <1>1, <2>1
  <2> QED BY <1>1, <1>3, <1>4, <2>2, <2>3, RefusesKeeps
<1>5. CASE ~Refuses
  <2>1. /\ Next1.k = "0.2" /\ vencrypt' = 1 /\ Says("vencrypt version")
        /\ Quiet /\ UNCHANGED <<init, scheme, version, tight, ra2, pc, resumes>>
    BY <1>5 DEF VeNCryptVersion, VeNCryptTo
  <2>2. PICK t : t = <<"vencrypt version">> OBVIOUS
  <2>3. PICK q : q = Turn(Place, Next1) OBVIOUS
  <2>4. q = Goes(Place, "vencrypt ack", t) BY <1>2, <2>1, <2>2, <2>3 DEF Turn
  <2>5. Meets(q.stage)' /\ q.answers = t
    <3>1. Begun' /\ Wanted' = "vencrypt ack"
      BY <1>1, <2>1, VeNCryptUnits DEF Begun, Wanted, Scheming
    <3>2. Meets(Place) /\ Place.version = version /\ Place.tight = tight BY <1>1, Meeting
    <3>3. ra2' \in {"none", "key length", "key", "approval"} BY <2>1, <3>2 DEF Meets
    <3>4. 1 \in 0 .. 3 OBVIOUS
    <3>5. GoesFor("vencrypt ack")
      BY ONLY <1>1, <2>1, <3>1, <3>3, <3>4 DEF GoesFor
    <3> QED BY ONLY <1>1, <2>4, <3>2, <3>5, MeetsGoing
  <2>6. ~Owes' BY <1>1, <2>1 DEF Owes
  <2>7. Utters(t)
    <3>1. Utters(<<"vencrypt version">>) BY <2>1, Uttered, Zenon DEF ClientSays
    <3> QED BY ONLY <2>2, <3>1
  <2>8. StreamOK' /\ KeepsPace' /\ Placed'
    BY ONLY <1>1, <1>2, <1>3, <2>3, <2>5, <2>6, <2>7, TakesOne
  <2>9. GoingOn BY <1>1, <2>1 DEF GoingOn
  <2> QED BY <1>1, <2>8, <2>9, GoesOn
<1> QED BY <1>4, <1>5

LEMMA VeNCryptAckKeeps ==
    ASSUME InStepInv, PageInv, VeNCryptAck PROVE InStepInv'
<1>1. /\ init = "Authentication" /\ scheme = "VeNCrypt" /\ vencrypt = 1 /\ pc = "loop"
      /\ Serving /\ StreamOK
  <2>1. /\ init = "Authentication" /\ scheme = "VeNCrypt" /\ vencrypt = 1
        /\ pc \in {"loop", "timer"}
    BY DEF VeNCryptAck, InVeNCrypt, AtScheme, At
  <2>2. scheme \notin NeedUsername \cup {"VNCAuth"} BY <2>1 DEF NeedUsername
  <2> QED BY <2>1, <2>2, ServesAlone
<1>2. ~Owes /\ Wanted = "vencrypt ack" /\ Place.want = "vencrypt ack"
  <2>1. Wanted = "vencrypt ack" BY <1>1, VeNCryptUnits DEF Wanted, Scheming
  <2> QED BY <1>1, <2>1, Meeting DEF Owes
<1>3. Has(1) /\ Reads(<<"vencrypt ack">>) /\ UNCHANGED <<scheme, resumes>>
  BY DEF VeNCryptAck, VeNCryptTo
<1>4. CASE Refuses
  <2>1. said' = said /\ init' = init BY <1>1, <1>4, FailsNotQuiet DEF VeNCryptAck, VeNCryptTo
  <2>2. StreamOK' BY <1>1, <1>2, <1>3, <2>1, TakesAndRefuses
  <2>3. init' # "" BY <1>1, <2>1
  <2> QED BY <1>1, <1>3, <1>4, <2>2, <2>3, RefusesKeeps
<1>5. CASE ~Refuses
  <2>1. /\ Next1.k = "ok" /\ vencrypt' = 2 /\ said' = said
        /\ Quiet /\ UNCHANGED <<init, scheme, version, tight, ra2, pc, resumes>>
    BY <1>5 DEF VeNCryptAck, VeNCryptTo
  <2>2. PICK t : t = <<>> OBVIOUS
  <2>3. PICK q : q = Turn(Place, Next1) OBVIOUS
  <2>4. q = Goes(Place, "vencrypt count", t) BY <1>2, <2>1, <2>2, <2>3 DEF Turn
  <2>5. Meets(q.stage)' /\ q.answers = t
    <3>1. Begun' /\ Wanted' = "vencrypt count"
      BY <1>1, <2>1, VeNCryptUnits DEF Begun, Wanted, Scheming
    <3>2. Meets(Place) /\ Place.version = version /\ Place.tight = tight BY <1>1, Meeting
    <3>3. ra2' \in {"none", "key length", "key", "approval"} BY <2>1, <3>2 DEF Meets
    <3>4. 2 \in 0 .. 3 OBVIOUS
    <3>5. GoesFor("vencrypt count")
      BY ONLY <1>1, <2>1, <3>1, <3>3, <3>4 DEF GoesFor
    <3> QED BY ONLY <1>1, <2>4, <3>2, <3>5, MeetsGoing
  <2>6. ~Owes' BY <1>1, <2>1 DEF Owes
  <2>7. Utters(t)
    <3>1. Utters(<<>>) BY <2>1 DEF Utters
    <3> QED BY ONLY <2>2, <3>1
  <2>8. StreamOK' /\ KeepsPace' /\ Placed'
    BY ONLY <1>1, <1>2, <1>3, <2>3, <2>5, <2>6, <2>7, TakesOne
  <2>9. GoingOn BY <1>1, <2>1 DEF GoingOn
  <2> QED BY <1>1, <2>8, <2>9, GoesOn
<1> QED BY <1>4, <1>5

LEMMA VeNCryptCountKeeps ==
    ASSUME InStepInv, PageInv, VeNCryptCount PROVE InStepInv'
<1>1. /\ init = "Authentication" /\ scheme = "VeNCrypt" /\ vencrypt = 2 /\ pc = "loop"
      /\ Serving /\ StreamOK
  <2>1. /\ init = "Authentication" /\ scheme = "VeNCrypt" /\ vencrypt = 2
        /\ pc \in {"loop", "timer"}
    BY DEF VeNCryptCount, InVeNCrypt, AtScheme, At
  <2>2. scheme \notin NeedUsername \cup {"VNCAuth"} BY <2>1 DEF NeedUsername
  <2> QED BY <2>1, <2>2, ServesAlone
<1>2. ~Owes /\ Wanted = "vencrypt count" /\ Place.want = "vencrypt count"
  <2>1. Wanted = "vencrypt count" BY <1>1, VeNCryptUnits DEF Wanted, Scheming
  <2> QED BY <1>1, <2>1, Meeting DEF Owes
<1>3. Has(1) /\ Reads(<<"vencrypt count">>) /\ UNCHANGED <<scheme, resumes>>
  BY DEF VeNCryptCount, VeNCryptTo
<1>4. CASE Refuses
  <2>1. said' = said /\ init' = init BY <1>1, <1>4, FailsNotQuiet DEF VeNCryptCount, VeNCryptTo
  <2>2. StreamOK' BY <1>1, <1>2, <1>3, <2>1, TakesAndRefuses
  <2>3. init' # "" BY <1>1, <2>1
  <2> QED BY <1>1, <1>3, <1>4, <2>2, <2>3, RefusesKeeps
<1>5. CASE ~Refuses
  <2>1. /\ Next1.n > 0 /\ vencrypt' = 3 /\ said' = said
        /\ Quiet /\ UNCHANGED <<init, scheme, version, tight, ra2, pc, resumes>>
    BY <1>5 DEF VeNCryptCount, VeNCryptTo
  <2>2. PICK t : t = <<>> OBVIOUS
  <2>3. PICK q : q = Turn(Place, Next1) OBVIOUS
  <2>4. q = Goes(Place, "vencrypt types", t) BY <1>2, <2>1, <2>2, <2>3 DEF Turn
  <2>5. Meets(q.stage)' /\ q.answers = t
    <3>1. Begun' /\ Wanted' = "vencrypt types"
      BY <1>1, <2>1, VeNCryptUnits DEF Begun, Wanted, Scheming
    <3>2. Meets(Place) /\ Place.version = version /\ Place.tight = tight BY <1>1, Meeting
    <3>3. ra2' \in {"none", "key length", "key", "approval"} BY <2>1, <3>2 DEF Meets
    <3>4. 3 \in 0 .. 3 OBVIOUS
    <3>5. GoesFor("vencrypt types")
      BY ONLY <1>1, <2>1, <3>1, <3>3, <3>4 DEF GoesFor
    <3> QED BY ONLY <1>1, <2>4, <3>2, <3>5, MeetsGoing
  <2>6. ~Owes' BY <1>1, <2>1 DEF Owes
  <2>7. Utters(t)
    <3>1. Utters(<<>>) BY <2>1 DEF Utters
    <3> QED BY ONLY <2>2, <3>1
  <2>8. StreamOK' /\ KeepsPace' /\ Placed'
    BY ONLY <1>1, <1>2, <1>3, <2>3, <2>5, <2>6, <2>7, TakesOne
  <2>9. GoingOn BY <1>1, <2>1 DEF GoingOn
  <2> QED BY <1>1, <2>8, <2>9, GoesOn
<1> QED BY <1>4, <1>5

LEMMA NextTyped ==
    ASSUME StreamOK, Has(1)
    PROVE  Next1.n \in Nat /\ Next1.offers \in Seq(STRING)
<1>1. arrived \in Nat /\ taken \in Nat /\ Len(script.units) \in Nat /\ arrived <= Len(script.units)
  BY Scripted DEF StreamOK, Units
<1>2. taken + 1 <= arrived BY <1>1 DEF Has
<1>3. taken + 1 \in 1 .. Len(script.units) BY ONLY <1>1, <1>2
<1> QED BY <1>3, Scripted DEF StreamOK, Next1

LEMMA VeNCryptTypesKeeps ==
    ASSUME InStepInv, PageInv, VeNCryptTypes PROVE InStepInv'
<1>1. /\ init = "Authentication" /\ scheme = "VeNCrypt" /\ vencrypt = 3 /\ pc = "loop"
      /\ Serving /\ StreamOK
  <2>1. /\ init = "Authentication" /\ scheme = "VeNCrypt" /\ vencrypt = 3
        /\ pc \in {"loop", "timer"}
    BY DEF VeNCryptTypes, InVeNCrypt, AtScheme, At
  <2>2. scheme \notin NeedUsername \cup {"VNCAuth"} BY <2>1 DEF NeedUsername
  <2> QED BY <2>1, <2>2, ServesAlone
<1>2. ~Owes /\ Wanted = "vencrypt types" /\ Place.want = "vencrypt types"
  <2>1. Wanted = "vencrypt types" BY <1>1, VeNCryptUnits DEF Wanted, Scheming
  <2> QED BY <1>1, <2>1, Meeting DEF Owes
<1>3. Has(1) /\ Reads(<<"vencrypt types">>) BY DEF VeNCryptTypes
<1>4. CASE Able(Next1.offers, SubTypes) = {}
  <2>1. Refuses /\ UNCHANGED <<said, init, resumes>> BY <1>4 DEF VeNCryptTypes
  <2>2. StreamOK' BY <1>1, <1>2, <1>3, <2>1, TakesAndRefuses
  <2>3. init' # "" BY <1>1, <2>1
  <2> QED BY <1>1, <2>1, <2>2, <2>3, RefusesKeeps
<1>5. CASE Able(Next1.offers, SubTypes) # {}
  <2>1. PICK s : s = Choice(Next1.offers, SubTypes) OBVIOUS
  <2>2. s # "VeNCrypt"
    <3>1. s \in SubTypes BY <1>1, <1>3, <1>5, <2>1, NextTyped, Chosen
    <3> QED BY <3>1 DEF SubTypes
  <2>3. PICK t : t = <<"vencrypt type">> OBVIOUS
  <2>4. PICK q : q = Turn(Place, Next1) OBVIOUS
  <2>5. PICK p : p = Place OBVIOUS
  <2>6. q = Under(p, s, t) BY <1>2, <1>5, <2>1, <2>3, <2>4, <2>5 DEF Turn
  <2>7. /\ scheme' = s /\ Says("vencrypt type") /\ Quiet /\ Again
        /\ UNCHANGED <<init, version, tight, ra2, resumes>>
    BY <1>5, <2>1 DEF VeNCryptTypes, VeNCryptTo
  <2>8. Begins(p, s)
    <3>1. /\ p.version = version /\ p.tight = tight /\ version \in {0, 33, 37, 38}
          /\ Meets(Place)
      BY <1>1, <2>5, Meeting
    <3>2. tight = FALSE /\ ra2 = "none"
      <4>1. tight \in BOOLEAN BY <1>1, Meeting
      <4>2. ~tight /\ ra2 = "none" BY <1>1, <3>1 DEF Meets
      <4> QED BY <4>1, <4>2
    <3> QED BY <1>1, <2>2, <2>7, <3>1, <3>2 DEF Begins
  <2>9. /\ Meets(q.stage)'
        /\ Owes' => q.answers = Append(t, "shared")
        /\ ~Owes' => q.answers = t
    BY ONLY <2>6, <2>8, MeetsUnder
  <2>10. q.answers = IF Owes' THEN Append(t, "shared") ELSE t BY ONLY <2>9
  <2>11. Utters(t)
    <3>1. Utters(<<"vencrypt type">>) BY <2>7, Uttered, Zenon DEF ClientSays
    <3> QED BY ONLY <2>3, <3>1
  <2>12. StreamOK' /\ KeepsPace' /\ Placed'
    BY ONLY <1>1, <1>2, <1>3, <2>4, <2>9, <2>10, <2>11, TakesOne
  <2>13. GoingOn BY <1>1, <2>7 DEF GoingOn, Again
  <2> QED BY <1>1, <2>12, <2>13, GoesOn
<1> QED BY <1>4, <1>5

\* Where the Tight steps begin.
LEMMA InTight ==
    ASSUME InStepInv, PageInv, AtScheme("Tight")
    PROVE  /\ init = "Authentication" /\ scheme = "Tight" /\ pc = "loop"
           /\ Serving /\ StreamOK /\ ~Owes
           /\ Place.want = Wanted /\ Wanted = IF tight THEN "auth count" ELSE "tunnels"
           /\ Place.version = version /\ Place.tight = tight /\ tight \in BOOLEAN
           /\ ra2 \in {"none", "key length", "key", "approval"}
<1>1. /\ init = "Authentication" /\ scheme = "Tight" /\ pc = "loop" /\ Serving /\ StreamOK
  <2>1. init = "Authentication" /\ scheme = "Tight" /\ pc \in {"loop", "timer"} BY DEF AtScheme, At
  <2>2. scheme \notin NeedUsername \cup {"VNCAuth"} BY <2>1 DEF NeedUsername
  <2> QED BY <2>1, <2>2, ServesAlone
<1>2. Meets(Place) BY <1>1, Meeting
<1> QED BY <1>1, <1>2, Meeting DEF Owes, Wanted, Scheming, Meets

\* No tunnels, or one that is none.
Tightens ==
    /\ tight' = TRUE /\ UNCHANGED <<init, version, scheme, ra2>>
    /\ init = "Authentication" /\ scheme = "Tight"
    /\ ra2 \in {"none", "key length", "key", "approval"}

LEMMA MeetsTight ==
    ASSUME NEW p, p.version = version, NEW answers, NEW q, q = GoesTight(p, answers), Tightens
    PROVE  Meets(q.stage)' /\ q.answers = answers
<1> USE DEF Tightens
<1>1. /\ q.stage.want = "auth count" /\ q.stage.version = version /\ q.stage.tight = TRUE
      /\ q.answers = answers
  BY DEF GoesTight, Stage
<1>2. Wanted' = "auth count" /\ Begun' BY DEF Wanted, Scheming, Begun
<1> QED BY <1>1, <1>2 DEF Meets

LEMMA TightNoTunnelsKeeps ==
    ASSUME InStepInv, PageInv, TightNoTunnels PROVE InStepInv'
<1>1. /\ AtScheme("Tight") /\ tight = FALSE /\ Has(1) /\ Next1.n = 0 /\ Reads(<<"tunnels">>)
      /\ tight' = TRUE /\ Quiet
      /\ UNCHANGED <<said, init, version, scheme, vencrypt, ra2, password, resumes, pc>>
  <2>1. AtScheme("Tight") /\ ~tight BY DEF TightNoTunnels
  <2>2. tight = FALSE BY <2>1, InTight
  <2> QED BY <2>1, <2>2 DEF TightNoTunnels
<1>2. /\ init = "Authentication" /\ scheme = "Tight" /\ pc = "loop"
      /\ Serving /\ StreamOK /\ ~Owes
      /\ Place.want = "tunnels" /\ Wanted = "tunnels" /\ Place.version = version
      /\ ra2 \in {"none", "key length", "key", "approval"}
  BY <1>1, InTight
<1>3. PICK q : q = Turn(Place, Next1) OBVIOUS
<1>4. PICK t : t = <<>> OBVIOUS
<1>5. q = GoesTight(Place, t)
  <2>1. ~(0 > 0) OBVIOUS
  <2>2. ~(Next1.n > 0) BY ONLY <1>1, <2>1
  <2> QED BY <1>2, <1>3, <1>4, <2>2 DEF Turn
<1>6. Meets(q.stage)' /\ q.answers = t
  <2>1. Tightens BY <1>1, <1>2 DEF Tightens
  <2> QED BY ONLY <1>2, <1>5, <2>1, MeetsTight
<1>7. ~Owes' BY <1>1, <1>2 DEF Owes
<1>8. Utters(t)
  <2>1. Utters(<<>>) BY <1>1 DEF Utters
  <2> QED BY ONLY <1>4, <2>1
<1>9. StreamOK' /\ KeepsPace' /\ Placed'
  BY ONLY <1>1, <1>2, <1>3, <1>6, <1>7, <1>8, TakesOne
<1>10. GoingOn BY <1>1, <1>2 DEF GoingOn
<1> QED BY <1>2, <1>9, <1>10, GoesOn

LEMMA TightTunnelsKeeps ==
    ASSUME InStepInv, PageInv, TightTunnels PROVE InStepInv'
<1>1. /\ AtScheme("Tight") /\ tight = FALSE /\ Has(2) /\ Next1.n > 0
      /\ Reads(<<"tunnels", "tunnel list">>) /\ tight' = TRUE
      /\ UNCHANGED <<init, version, scheme, vencrypt, ra2, password, resumes>>
  <2>1. AtScheme("Tight") /\ ~tight BY DEF TightTunnels
  <2>2. tight = FALSE BY <2>1, InTight
  <2> QED BY <2>1, <2>2 DEF TightTunnels
<1>2. /\ init = "Authentication" /\ scheme = "Tight" /\ pc = "loop"
      /\ Serving /\ StreamOK /\ ~Owes
      /\ Place.want = "tunnels" /\ Wanted = "tunnels" /\ Place.version = version
      /\ ra2 \in {"none", "key length", "key", "approval"}
  BY <1>1, InTight
<1>3. PICK p : p = Turn(Place, Next1).stage OBVIOUS
<1>4. p.want = "tunnel list" /\ p.version = version /\ Turn(Place, Next1).answers = <<>>
  <2>1. PICK t : t = <<>> OBVIOUS
  <2>2. PICK turn : turn = Turn(Place, Next1) OBVIOUS
  <2>3. PICK place : place = Place OBVIOUS
  <2>4. turn = Goes(place, "tunnel list", t) BY <1>1, <1>2, <2>1, <2>2, <2>3 DEF Turn
  <2>5. p = turn.stage BY ONLY <1>3, <2>2
  <2>6. /\ p.want = "tunnel list" /\ p.version = place.version /\ p.tight = place.tight
        /\ turn.answers = t
    BY ONLY <2>4, <2>5 DEF Goes, Stage
  <2> QED BY ONLY <1>2, <2>1, <2>2, <2>3, <2>6
<1>5. CASE Next2.k \in {"notunnel", "siemens"}
  <2>1. Says("tunnel") /\ Stop /\ Quiet BY <1>5 DEF TightTunnels
  <2>2. PICK q : q = Turn(p, Next2) OBVIOUS
  <2>3. PICK t : t = <<"tunnel">> OBVIOUS
  <2>4. q = GoesTight(p, t) BY <1>4, <1>5, <2>2, <2>3 DEF Turn
  <2>5. Meets(q.stage)' /\ q.answers = t
    <3>1. Tightens BY <1>1, <1>2 DEF Tightens
    <3> QED BY ONLY <1>4, <2>4, <3>1, MeetsTight
  <2>6. ~Owes' BY <1>1, <1>2 DEF Owes
  <2>7. Utters(t)
    <3>1. Utters(<<"tunnel">>) BY <2>1, Uttered, Zenon DEF ClientSays
    <3> QED BY ONLY <2>3, <3>1
  <2>8. StreamOK' /\ KeepsPace' /\ Placed'
    BY ONLY <1>1, <1>2, <1>3, <1>4, <2>2, <2>5, <2>6, <2>7, TakesTwo
  <2>9. GoingOn BY <1>1, <1>2, <2>1 DEF GoingOn, Stop
  <2> QED BY <1>2, <2>8, <2>9, GoesOn
<1>6. CASE Next2.k \notin {"notunnel", "siemens"}
  <2>1. Refuses /\ said' = said BY <1>6 DEF TightTunnels
  <2>2. StreamOK' BY ONLY <1>1, <1>2, <1>3, <1>4, <2>1, TakesTwoAndRefuses
  <2>3. init' # "" BY <1>1, <1>2
  <2> QED BY <1>1, <1>2, <2>1, <2>2, <2>3, RefusesKeeps
<1> QED BY <1>5, <1>6

LEMMA TightNoneKeeps ==
    ASSUME InStepInv, PageInv, TightNone PROVE InStepInv'
<1>1. /\ AtScheme("Tight") /\ tight = TRUE /\ Has(1) /\ Next1.n = 0 /\ Reads(<<"auth count">>)
      /\ init' = "SecurityResult" /\ Quiet /\ Again
      /\ UNCHANGED <<said, version, scheme, tight, vencrypt, ra2, password, resumes>>
  <2>1. AtScheme("Tight") /\ tight BY DEF TightNone
  <2>2. tight = TRUE BY <2>1, InTight
  <2> QED BY <2>1, <2>2 DEF TightNone, To
<1>2. /\ pc = "loop" /\ Serving /\ StreamOK /\ ~Owes
      /\ Place.want = "auth count" /\ Wanted = "auth count"
      /\ Place.version = version /\ Place.tight = tight
      /\ ra2 \in {"none", "key length", "key", "approval"}
  BY <1>1, InTight
<1>3. PICK q : q = Turn(Place, Next1) OBVIOUS
<1>4. PICK t : t = <<>> OBVIOUS
<1>5. q = Goes(Place, "result", t)
  <2>1. ~(0 > 0) OBVIOUS
  <2>2. ~(Next1.n > 0) BY ONLY <1>1, <2>1
  <2> QED BY <1>2, <1>3, <1>4, <2>2 DEF Turn
<1>6. GoesFor("result") BY <1>1, <1>2 DEF GoesFor, Begun, Wanted
<1>7. Meets(q.stage)' /\ q.answers = t
  <2>1. Serving /\ StreamOK /\ Place.version = version /\ Place.tight = tight BY <1>2
  <2> QED BY ONLY <1>5, <1>6, <2>1, MeetsGoing
<1>8. ~Owes' BY <1>1 DEF Owes
<1>9. Utters(t)
  <2>1. Utters(<<>>) BY <1>1 DEF Utters
  <2> QED BY ONLY <1>4, <2>1
<1>10. StreamOK' /\ KeepsPace' /\ Placed'
  BY ONLY <1>1, <1>2, <1>3, <1>7, <1>8, <1>9, TakesOne
<1>11. GoingOn BY <1>1, <1>2 DEF GoingOn, Again
<1> QED BY <1>2, <1>10, <1>11, GoesOn

LEMMA TightAuthKeeps ==
    ASSUME InStepInv, PageInv, TightAuth PROVE InStepInv'
<1>1. /\ AtScheme("Tight") /\ tight = TRUE /\ Has(2) /\ Next1.n > 0
      /\ Reads(<<"auth count", "auth list">>)
      /\ UNCHANGED <<version, tight, vencrypt, ra2, password, resumes>>
  <2>1. AtScheme("Tight") /\ tight BY DEF TightAuth
  <2>2. tight = TRUE BY <2>1, InTight
  <2> QED BY <2>1, <2>2 DEF TightAuth, To
<1>2. /\ init = "Authentication" /\ pc = "loop" /\ Serving /\ StreamOK /\ ~Owes
      /\ Place.want = "auth count" /\ Wanted = "auth count"
      /\ Place.version = version /\ Place.tight = tight
      /\ ra2 \in {"none", "key length", "key", "approval"}
  BY <1>1, InTight
<1>3. PICK p : p = Turn(Place, Next1).stage OBVIOUS
<1>4. /\ p.want = "auth list" /\ p.version = version /\ p.tight = tight
      /\ Turn(Place, Next1).answers = <<>>
  <2>1. PICK t : t = <<>> OBVIOUS
  <2>2. PICK turn : turn = Turn(Place, Next1) OBVIOUS
  <2>3. PICK place : place = Place OBVIOUS
  <2>4. turn = Goes(place, "auth list", t) BY <1>1, <1>2, <2>1, <2>2, <2>3 DEF Turn
  <2>5. p = turn.stage BY ONLY <1>3, <2>2
  <2>6. /\ p.want = "auth list" /\ p.version = place.version /\ p.tight = place.tight
        /\ turn.answers = t
    BY ONLY <2>4, <2>5 DEF Goes, Stage
  <2> QED BY ONLY <1>2, <2>1, <2>2, <2>3, <2>6
<1>5. CASE TightAble(Next2.offers) = {}
  <2>1. Refuses /\ UNCHANGED <<said, init, scheme>> BY <1>5 DEF TightAuth
  <2>2. StreamOK' BY ONLY <1>1, <1>2, <1>3, <1>4, <2>1, TakesTwoAndRefuses
  <2>3. init' # "" BY <1>2, <2>1
  <2> QED BY <1>1, <1>2, <2>1, <2>2, <2>3, RefusesKeeps
<1>6. CASE TightAble(Next2.offers) # {}
  <2>1. PICK kind : kind = TightKind(Next2.offers) OBVIOUS
  <2>2. kind \in {"None", "VNCAuth", "UnixLogon"} BY <1>6, <2>1, KindChosen
  <2>3. /\ Says("auth kind") /\ Quiet /\ Again
        /\ IF kind = "None" THEN init' = "SecurityResult" /\ scheme' = scheme
           ELSE scheme' = kind /\ init' = init
    BY <1>6, <2>1 DEF TightAuth, To
  <2>4. PICK q : q = Turn(p, Next2) OBVIOUS
  <2>5. PICK t : t = <<"auth kind">> OBVIOUS
  <2>6. PICK want : want = IF kind = "None" THEN "result"
                           ELSE IF kind = "VNCAuth" THEN "challenge" ELSE "end"
    OBVIOUS
  <2>7. q = Goes(p, want, t)
    <3>1. q = Goes(p, [None |-> "result", VNCAuth |-> "challenge", UnixLogon |-> "end"][kind], t)
      BY <1>4, <1>6, <2>1, <2>4, <2>5 DEF Turn
    <3>2. [None |-> "result", VNCAuth |-> "challenge", UnixLogon |-> "end"][kind] = want
      BY ONLY <2>2, <2>6
    <3> QED BY ONLY <3>1, <3>2
  <2>8. GoesFor(want)
    <3>1. Begun' /\ Wanted' = want
      BY <1>2, <2>2, <2>3, <2>6 DEF Begun, Wanted, Scheming
    <3> QED BY <1>1, <1>2, <2>2, <2>3, <3>1 DEF GoesFor
  <2>9. Meets(q.stage)' /\ q.answers = t
    <3>1. Serving /\ StreamOK /\ p.version = version /\ p.tight = tight BY <1>2, <1>4
    <3> QED BY ONLY <2>7, <2>8, <3>1, MeetsGoing
  <2>10. ~Owes' BY <1>2, <2>2, <2>3 DEF Owes
  <2>11. Utters(t)
    <3>1. Utters(<<"auth kind">>) BY <2>3, Uttered, Zenon DEF ClientSays
    <3> QED BY ONLY <2>5, <3>1
  <2>12. StreamOK' /\ KeepsPace' /\ Placed'
    BY ONLY <1>1, <1>2, <1>3, <1>4, <2>4, <2>9, <2>10, <2>11, TakesTwo
  <2>13. GoingOn BY <1>1, <1>2, <2>3 DEF GoingOn, Again
  <2> QED BY <1>2, <2>12, <2>13, GoesOn
<1> QED BY <1>5, <1>6

\* Where the RA2 steps begin.
LEMMA InRA2 ==
    ASSUME InStepInv, PageInv, AtScheme("RA2ne") \/ pc = "ra2"
    PROVE  /\ init = "Authentication" /\ scheme = "RA2ne" /\ pc \in {"loop", "ra2"}
           /\ Serving /\ StreamOK /\ ~Owes
           /\ Place.want = Wanted
           /\ Wanted = IF ra2 = "key" THEN "key" ELSE IF ra2 = "approval" THEN "end" ELSE "key length"
           /\ Place.version = version /\ Place.tight = tight
           /\ ra2 \in {"none", "key length", "key", "approval"}
           /\ pc = "ra2" => ra2 # "none"
<1>1. /\ init = "Authentication" /\ scheme = "RA2ne" /\ pc \in {"loop", "ra2"}
      /\ Serving /\ StreamOK
  <2>1. init = "Authentication" /\ scheme = "RA2ne" /\ pc \in {"loop", "timer", "ra2"}
    BY DEF AtScheme, At, InStepInv, CallsOK
  <2>2. scheme \notin NeedUsername \cup {"VNCAuth"} BY <2>1 DEF NeedUsername
  <2> QED BY <2>1, <2>2, ServesAlone
<1>2. Meets(Place) BY <1>1, Meeting
<1>3. pc = "ra2" => ra2 # "none" BY DEF InStepInv, CallsOK
<1> QED BY <1>1, <1>2, <1>3, Meeting DEF Owes, Wanted, Scheming, Meets

LEMMA Ra2PokesKeeps ==
    ASSUME InStepInv, PageInv, Ra2Pokes PROVE InStepInv'
<1>1. /\ AtScheme("RA2ne") /\ ReadsNothing /\ Quiet /\ pc' = "ra2"
      /\ ra2' = IF ra2 = "none" THEN "key length" ELSE ra2
      /\ UNCHANGED <<said, init, version, scheme, tight, vencrypt, password, resumes>>
  BY DEF Ra2Pokes
<1>2. /\ init = "Authentication" /\ scheme = "RA2ne" /\ Serving /\ StreamOK
      /\ ra2 \in {"none", "key length", "key", "approval"}
  BY <1>1, InRA2
<1>3. StreamOK' /\ Place' = Place /\ Due' = Due BY <1>1, <1>2, Unread
<1>4. KeepsPace'
  <2>1. KeepsPace BY <1>2 DEF Serving
  <2>2. script' = script BY <1>1 DEF ReadsNothing
  <2> QED BY <1>1, <1>3, <2>1, <2>2 DEF KeepsPace, Owes
<1>5. Placed'
  <2>1. Meets(Place) BY <1>2, Meeting
  <2>2. Wanted' = Wanted BY <1>1, <1>2 DEF Wanted, Scheming
  <2> QED BY <1>1, <1>2, <1>3, <2>1, <2>2 DEF Placed, Meets, Begun
<1>6. GoingOn BY <1>1, <1>2 DEF GoingOn
<1> QED BY <1>2, <1>3, <1>4, <1>5, <1>6, GoesOn

LEMMA Ra2KeyLengthKeeps ==
    ASSUME InStepInv, PageInv, Ra2KeyLength PROVE InStepInv'
<1>1. /\ pc = "ra2" /\ ra2 = "key length" /\ Has(1) /\ Reads(<<"key length">>)
      /\ UNCHANGED <<said, version, scheme, tight, vencrypt, password, resumes>>
  BY DEF Ra2KeyLength
<1>2. /\ init = "Authentication" /\ scheme = "RA2ne" /\ Serving /\ StreamOK /\ ~Owes
      /\ Place.want = "key length" /\ Wanted = "key length"
      /\ Place.version = version /\ Place.tight = tight
  BY <1>1, InRA2
<1>3. CASE Next1.k = "good"
  <2>1. ra2' = "key" /\ UNCHANGED <<init, pc>> /\ Quiet BY <1>3 DEF Ra2KeyLength
  <2>2. PICK q : q = Turn(Place, Next1) OBVIOUS
  <2>3. PICK t : t = <<>> OBVIOUS
  <2>4. q = Goes(Place, "key", t) BY <1>2, <1>3, <2>2, <2>3 DEF Turn
  <2>5. GoesFor("key") BY <1>1, <1>2, <2>1 DEF GoesFor, Begun, Wanted, Scheming
  <2>6. Meets(q.stage)' /\ q.answers = t
    <3>1. Serving /\ StreamOK /\ Place.version = version /\ Place.tight = tight BY <1>2
    <3> QED BY ONLY <2>4, <2>5, <3>1, MeetsGoing
  <2>7. ~Owes' BY <1>1, <1>2, <2>1 DEF Owes
  <2>8. Utters(t)
    <3>1. Utters(<<>>) BY <1>1 DEF Utters
    <3> QED BY ONLY <2>3, <3>1
  <2>9. StreamOK' /\ KeepsPace' /\ Placed'
    BY ONLY <1>1, <1>2, <2>2, <2>6, <2>7, <2>8, TakesOne
  <2>10. GoingOn BY <1>1, <1>2, <2>1 DEF GoingOn
  <2> QED BY <1>2, <2>9, <2>10, GoesOn
<1>4. CASE Next1.k # "good"
  <2>1. Refuses /\ init' = "SecurityResult" BY <1>4 DEF Ra2KeyLength, To
  <2>2. StreamOK' BY <1>1, <1>2, TakesAndRefuses
  <2> QED BY <1>1, <1>2, <2>1, <2>2, RefusesKeeps
<1> QED BY <1>3, <1>4

LEMMA Ra2KeyKeeps ==
    ASSUME InStepInv, PageInv, Ra2Key PROVE InStepInv'
<1>1. /\ pc = "ra2" /\ ra2 = "key" /\ Has(1) /\ Reads(<<"key">>)
      /\ ra2' = "approval" /\ Stop /\ Quiet
      /\ UNCHANGED <<said, init, version, scheme, tight, vencrypt, password, resumes>>
  BY DEF Ra2Key
<1>2. /\ init = "Authentication" /\ scheme = "RA2ne" /\ Serving /\ StreamOK /\ ~Owes
      /\ Place.want = "key" /\ Wanted = "key"
      /\ Place.version = version /\ Place.tight = tight
  BY <1>1, InRA2
<1>3. PICK q : q = Turn(Place, Next1) OBVIOUS
<1>4. PICK t : t = <<>> OBVIOUS
<1>5. q = Goes(Place, "end", t) BY <1>2, <1>3, <1>4 DEF Turn, Quits
<1>6. GoesFor("end") BY <1>1, <1>2 DEF GoesFor, Begun, Wanted, Scheming
<1>7. Meets(q.stage)' /\ q.answers = t
  <2>1. Serving /\ StreamOK /\ Place.version = version /\ Place.tight = tight BY <1>2
  <2> QED BY ONLY <1>5, <1>6, <2>1, MeetsGoing
<1>8. ~Owes' BY <1>1, <1>2 DEF Owes
<1>9. Utters(t)
  <2>1. Utters(<<>>) BY <1>1 DEF Utters
  <2> QED BY ONLY <1>4, <2>1
<1>10. StreamOK' /\ KeepsPace' /\ Placed'
  BY ONLY <1>1, <1>2, <1>3, <1>7, <1>8, <1>9, TakesOne
<1>11. GoingOn BY <1>1, <1>2 DEF GoingOn, Stop
<1> QED BY <1>2, <1>10, <1>11, GoesOn

\* Where the last steps begin.
LEMMA InResult ==
    ASSUME InStepInv, PageInv,
           NEW s \in {"SecurityResult", "SecurityReason", "ClientInitialisation",
                      "ServerInitialisation"},
           At(s)
    PROVE  /\ init = s /\ pc = "loop" /\ Serving /\ StreamOK
           /\ Place.want = Wanted /\ Place.version = version /\ Place.tight = tight
           /\ version \in {0, 33, 37, 38}
           /\ ra2 \in {"none", "key length", "key", "approval"}
<1>1. init = s /\ pc = "loop" /\ Serving /\ StreamOK
  <2>1. init = s /\ init # "Authentication" /\ pc \in {"loop", "timer"} BY DEF At
  <2> QED BY <2>1, ServesAlone
<1>2. Meets(Place) BY <1>1, Meeting
<1>3. ra2 \in {"none", "key length", "key", "approval"} BY <1>2 DEF Meets
<1> QED BY <1>1, <1>3, Meeting

LEMMA SecurityResultKeeps ==
    ASSUME InStepInv, PageInv, SecurityResult PROVE InStepInv'
<1>1. /\ At("SecurityResult") /\ Has(1) /\ Reads(<<"result">>)
      /\ UNCHANGED <<said, version, scheme, tight, vencrypt, ra2, password, resumes>>
  BY DEF SecurityResult
<1>2. /\ init = "SecurityResult" /\ pc = "loop" /\ Serving /\ StreamOK
      /\ Place.want = Wanted /\ Place.version = version /\ Place.tight = tight
      /\ version \in {0, 33, 37, 38}
      /\ ra2 \in {"none", "key length", "key", "approval"}
  BY <1>1, InResult
<1>3. ~Owes /\ Wanted = "result" /\ Place.want = "result" BY <1>2 DEF Owes, Wanted
<1>4. CASE Next1.k # "ok" /\ ~(version >= 38)
  <2>1. Refuses /\ UNCHANGED init BY <1>4 DEF SecurityResult, SecurityFails, Refuses
  <2>2. StreamOK' BY <1>1, <1>2, <1>3, TakesAndRefuses
  <2> QED BY <1>1, <1>2, <2>1, <2>2, RefusesKeeps
<1>5. CASE Next1.k = "ok" \/ version >= 38
  <2>1. /\ init' = IF Next1.k = "ok" THEN "ClientInitialisation" ELSE "SecurityReason"
        /\ Quiet /\ Again
    BY <1>5 DEF SecurityResult, To
  <2>2. PICK q : q = Turn(Place, Next1) OBVIOUS
  <2>3. PICK t : t = IF Next1.k = "ok" THEN <<"shared">> ELSE <<>> OBVIOUS
  <2>4. PICK want : want = IF Next1.k = "ok" THEN "init" ELSE "reason length" OBVIOUS
  <2>5. q = Goes(Place, want, t)
    <3>1. CASE Next1.k = "ok" BY <1>3, <2>2, <2>3, <2>4, <3>1 DEF Turn
    <3>2. CASE Next1.k # "ok"
      <4>1. Place.version >= 38 BY <1>2, <1>5, <3>2
      <4> QED BY <1>3, <2>2, <2>3, <2>4, <3>2, <4>1 DEF Turn
    <3> QED BY <3>1, <3>2
  <2>6. GoesFor(want) BY <1>1, <1>2, <2>1, <2>4 DEF GoesFor, Begun, Wanted
  <2>7. Meets(q.stage)' /\ q.answers = t
    <3>1. Serving /\ StreamOK /\ Place.version = version /\ Place.tight = tight BY <1>2
    <3> QED BY ONLY <2>5, <2>6, <3>1, MeetsGoing
  <2>8. PICK own : own = <<>> OBVIOUS
  <2>9. Utters(own)
    <3>1. Utters(<<>>) BY <1>1 DEF Utters
    <3> QED BY ONLY <2>8, <3>1
  <2>10. q.answers = IF Owes' THEN Append(own, "shared") ELSE own
    <3>1. Owes' <=> Next1.k = "ok" BY <2>1 DEF Owes
    <3>2. Append(own, "shared") = <<"shared">> BY ONLY <2>8, Pair
    <3> QED BY ONLY <2>3, <2>7, <2>8, <3>1, <3>2
  <2>11. StreamOK' /\ KeepsPace' /\ Placed'
    BY ONLY <1>1, <1>2, <1>3, <2>2, <2>7, <2>9, <2>10, TakesOne
  <2>12. GoingOn BY <1>1, <1>2, <2>1 DEF GoingOn, Again
  <2> QED BY <1>2, <2>11, <2>12, GoesOn
<1> QED BY <1>4, <1>5

LEMMA SecurityReasonKeeps ==
    ASSUME InStepInv, PageInv, SecurityReason PROVE InStepInv'
<1>1. /\ At("SecurityReason") /\ Has(1) /\ (Next1.n > 0 => Has(2))
      /\ Refuses /\ UNCHANGED <<said, init, resumes>>
  BY DEF SecurityReason, SecurityFails, Refuses, progress
<1>2. /\ init = "SecurityReason" /\ Serving /\ StreamOK /\ Place.want = Wanted
      /\ Wanted = "reason length"
  <2>1. init = "SecurityReason" /\ Serving /\ StreamOK /\ Place.want = Wanted BY <1>1, InResult
  <2> QED BY <2>1 DEF Wanted
<1>3. StreamOK'
  <2>1. CASE Next1.n > 0
    <3>1. Reads(<<"reason length", "reason">>) /\ Has(2) BY <1>1, <2>1 DEF SecurityReason
    <3>2. PICK p : p = Turn(Place, Next1).stage OBVIOUS
    <3>3. PICK turn : turn = Turn(Place, Next1) OBVIOUS
    <3>4. PICK place : place = Place OBVIOUS
    <3>5. PICK t : t = <<>> OBVIOUS
    <3>6. turn = Goes(place, "reason", t) BY <1>2, <2>1, <3>3, <3>4, <3>5 DEF Turn
    <3>7. p = turn.stage BY ONLY <3>2, <3>3
    <3>8. p.want = "reason" /\ turn.answers = t BY ONLY <3>6, <3>7 DEF Goes, Stage
    <3>9. Turn(Place, Next1).answers = <<>> BY ONLY <3>3, <3>5, <3>8
    <3>10. said' = said BY <1>1
    <3> QED BY ONLY <1>2, <3>1, <3>2, <3>8, <3>9, <3>10, TakesTwoAndRefuses
  <2>2. CASE ~(Next1.n > 0)
    <3>1. Reads(<<"reason length">>) BY <2>2 DEF SecurityReason
    <3> QED BY <1>1, <1>2, <3>1, TakesAndRefuses
  <2> QED BY <2>1, <2>2
<1> QED BY <1>1, <1>2, <1>3, RefusesKeeps

LEMMA DueTyped ==
    ASSUME StreamOK
    PROVE  /\ Due \in 0 .. Len(script.answers) /\ Len(script.answers) \in Nat
           /\ Len(script.units) \in Nat /\ arrived \in Nat /\ taken \in Nat
           /\ arrived <= Len(script.units)
<1>1. Len(script.units) \in Nat /\ Len(script.answers) \in Nat BY Scripted DEF StreamOK
<1>2. arrived \in 0 .. Len(script.units) /\ taken \in 0 .. arrived BY DEF StreamOK, Units
<1>3. arrived \in Nat /\ taken \in Nat /\ arrived <= Len(script.units) BY ONLY <1>1, <1>2
<1>4. taken + 1 \in 1 .. Len(script.units) + 1 BY ONLY <1>1, <1>2, <1>3
<1> QED BY <1>1, <1>3, <1>4, Scripted DEF StreamOK, Due

LEMMA ClientInitialisationKeeps ==
    ASSUME InStepInv, PageInv, ClientInitialisation PROVE InStepInv'
<1>1. /\ At("ClientInitialisation") /\ Says("shared") /\ init' = "ServerInitialisation"
      /\ ReadsNothing /\ Quiet /\ Again
      /\ UNCHANGED <<version, scheme, tight, vencrypt, ra2, password, resumes>>
  BY DEF ClientInitialisation, To
<1>2. /\ init = "ClientInitialisation" /\ pc = "loop" /\ Serving /\ StreamOK
      /\ Place.want = Wanted /\ Place.version = version /\ Place.tight = tight
      /\ ra2 \in {"none", "key length", "key", "approval"}
  BY <1>1, InResult
<1>3. UNCHANGED <<script, arrived, taken, misread>> BY <1>1 DEF ReadsNothing
<1>4. Place' = Place /\ Due' = Due BY <1>3 DEF Place, Due
<1>5. said' = Append(said, "shared") BY <1>1, <1>2 DEF Says, Serving
<1>6. /\ Len(said) + 1 = Due /\ script.answers[Due] = "shared"
      /\ Due \in 0 .. Len(script.answers) /\ Len(script.answers) \in Nat
  <2>1. Owes BY <1>2 DEF Owes
  <2> QED BY <1>2, <2>1, DueTyped DEF Serving, KeepsPace
<1>7. said \in Seq(ClientSays) /\ "shared" \in ClientSays BY <1>2 DEF StreamOK, ClientSays
<1>8. /\ said' \in Seq(ClientSays) /\ Len(said') = Len(said) + 1
      /\ said'[Len(said) + 1] = "shared" /\ \A i \in 1 .. Len(said) : said'[i] = said[i]
      /\ DOMAIN said' = 1 .. Len(said) + 1 /\ DOMAIN said = 1 .. Len(said) /\ Len(said) \in Nat
  BY ONLY <1>5, <1>7
<1>9. StreamOK'
  <2>1. \A i \in DOMAIN said' : said'[i] = script.answers[i]
    <3>1. ASSUME NEW i \in 1 .. Len(said) PROVE said'[i] = script.answers[i]
      BY <1>2, <1>8 DEF StreamOK
    <3>2. said'[Len(said) + 1] = script.answers[Len(said) + 1] BY ONLY <1>6, <1>8
    <3>3. \A n \in Nat : \A i \in 1 .. n + 1 : i \in 1 .. n \/ i = n + 1 OBVIOUS
    <3> QED BY ONLY <1>8, <3>1, <3>2, <3>3
  <2>2. \A i \in 1 .. arrived : script.after[i] <= Len(said')
    <3>1. ASSUME NEW i \in 1 .. arrived PROVE script.after[i] <= Len(said')
      <4>1. i \in 1 .. Len(script.units) + 1
        <5>1. /\ arrived \in Nat /\ Len(script.units) \in Nat /\ arrived <= Len(script.units)
          BY <1>2, DueTyped
        <5> QED BY ONLY <3>1, <5>1
      <4>2. script.after[i] \in 0 .. Len(script.answers) BY <1>2, <4>1, Scripted DEF StreamOK
      <4>3. script.after[i] <= Len(said) BY <1>2 DEF StreamOK
      <4> QED BY ONLY <1>6, <1>8, <4>2, <4>3
    <3> QED BY <3>1
  <2>3. Len(said') <= Len(script.answers) BY ONLY <1>6, <1>8
  <2> QED BY <1>2, <1>3, <1>8, <2>1, <2>2, <2>3 DEF StreamOK, Units
<1>10. KeepsPace'
  <2>1. ~Owes' BY <1>1 DEF Owes
  <2>2. Len(said') = Due' BY <1>4, <1>6, <1>8
  <2> QED BY <2>1, <2>2 DEF KeepsPace
<1>11. Placed'
  <2>1. Wanted' = Wanted BY <1>1, <1>2 DEF Wanted
  <2> QED BY <1>1, <1>2, <1>4, <2>1 DEF Placed, Meets, Begun
<1>12. GoingOn BY <1>1, <1>2 DEF GoingOn, Again
<1> QED BY <1>2, <1>9, <1>10, <1>11, <1>12, GoesOn

\* A server that has nothing more to say has had all its answers.
LEMMA AllSaid ==
    ASSUME NEW s, KeepsProtocol(s), NEW i \in 1 .. Len(s.units) + 1, s.stages[i].want = "end",
           NEW S, NEW d \in Seq(S), Len(d) = s.after[i],
           \A j \in DOMAIN d : d[j] = s.answers[j]
    PROVE  d = s.answers
<1>1. s.after[i] = Len(s.answers) BY Ended
<1>2. s.answers \in Seq(STRING) BY DEF KeepsProtocol
<1>3. \A S1, S2 : \A q \in Seq(S1), r \in Seq(S2) :
          Len(q) = Len(r) /\ (\A j \in DOMAIN q : q[j] = r[j]) => q = r
  OBVIOUS
<1> QED BY <1>1, <1>2, <1>3

\* The server's last message, with the lists of a Tight server or without.
LEMMA ReadsInit ==
    ASSUME StreamOK, Serving, Place.want = "init", Place.tight = FALSE, Has(2),
           Reads(<<"init", "name">>)
    PROVE  /\ taken' \in 0 .. arrived /\ misread' = FALSE
           /\ script' = script /\ arrived' = arrived
           /\ Place'.want = "end" /\ Due' = Due + 1 /\ script.answers[Due + 1] = "setup"
<1>1. PICK turn : turn = Turn(Place, Next1) OBVIOUS
<1>2. PICK place : place = Place OBVIOUS
<1>3. PICK t : t = <<>> OBVIOUS
<1>4. turn = Goes(place, "name", t) BY <1>1, <1>2, <1>3 DEF Turn
<1>5. PICK p : p = Turn(Place, Next1).stage OBVIOUS
<1>6. p = turn.stage BY ONLY <1>1, <1>5
<1>7. p.want = "name" /\ p.tight = place.tight /\ turn.answers = t
  BY ONLY <1>4, <1>6 DEF Goes, Stage
<1>8. Turn(Place, Next1).answers = <<>> BY ONLY <1>1, <1>3, <1>7
<1>9. /\ taken' \in 0 .. arrived /\ misread' = FALSE /\ script' = script /\ arrived' = arrived
      /\ Place' = Turn(p, Next2).stage
      /\ Due' = Due + Len(Turn(p, Next2).answers) /\ Awaits(Due, Turn(p, Next2).answers)
  <2>1. PICK w : w = "init" OBVIOUS
  <2>2. PICK w2 : w2 = "name" OBVIOUS
  <2>3. StreamOK /\ Has(2) /\ Place.want = w BY <2>1
  <2>4. Reads(<<w, w2>>) BY <2>1, <2>2
  <2>5. p.want = w2 BY ONLY <1>7, <2>2
  <2> QED BY ONLY <1>5, <1>8, <2>3, <2>4, <2>5, ReadsTwo
<1>10. PICK q : q = Turn(p, Next2) OBVIOUS
<1>11. PICK u : u = <<"setup">> OBVIOUS
<1>12. q = Goes(p, "end", u)
  <2>1. p.tight = FALSE BY <1>2, <1>7
  <2> QED BY <1>7, <1>10, <1>11, <2>1 DEF Turn
<1>13. q.stage.want = "end" /\ q.answers = u BY ONLY <1>12 DEF Goes, Stage
<1>14. Len(u) = 1 /\ DOMAIN u = {1} /\ u[1] = "setup" BY ONLY <1>11, Tuples
<1>15. /\ Place' = q.stage /\ Due' = Due + Len(q.answers)
       /\ \A j \in DOMAIN q.answers : script.answers[Due + j] = q.answers[j]
  BY ONLY <1>9, <1>10 DEF Awaits
<1> QED BY ONLY <1>9, <1>13, <1>14, <1>15

LEMMA Four ==
    \A a, b, c, d :
        /\ Len(<<a, b, c, d>>) = 4 /\ DOMAIN <<a, b, c, d>> = 1 .. 4
        /\ <<a, b, c, d>>[1] = a /\ <<a, b, c, d>>[2] = b
        /\ <<a, b, c, d>>[3] = c /\ <<a, b, c, d>>[4] = d
OBVIOUS

LEMMA UpToFour == \A j \in 1 .. 4 : j = 1 \/ j = 2 \/ j = 3 \/ j = 4
OBVIOUS

\* A unit that is not answered.
LEMMA SaysNothing ==
    ASSUME NEW s, KeepsProtocol(s), NEW i \in 1 .. Len(s.units), NEW p, p = s.stages[i],
           NEW t, t = <<>>, NEW turn, turn = Turn(p, s.units[i]), turn.answers = t
    PROVE  s.units[i].role = p.want /\ s.stages[i + 1] = turn.stage /\ s.after[i + 1] = s.after[i]
<1>1. /\ s.units[i].role = p.want /\ s.stages[i + 1] = turn.stage
      /\ s.after[i + 1] = s.after[i] + Len(turn.answers)
  BY TurnTaken
<1>2. Len(turn.answers) = 0 BY ONLY t = <<>>, turn.answers = t, Tuples
<1>3. s.after[i] \in Nat
  <2>1. i \in 1 .. Len(s.units) + 1 /\ Len(s.units) \in Nat /\ Len(s.answers) \in Nat BY Scripted
  <2>2. s.after[i] \in 0 .. Len(s.answers) BY <2>1, Scripted
  <2> QED BY ONLY <2>1, <2>2
<1> QED BY ONLY <1>1, <1>2, <1>3

\* From its ith unit on, a Tight server tells of its screen, and that is all it asks.
EndsTight(s, i) ==
    /\ s.units[i].role = "init" /\ s.units[i + 1].role = "name"
    /\ s.units[i + 2].role = "tight header" /\ s.units[i + 3].role = "tight lists"
    /\ s.stages[i + 4].want = "end" /\ s.after[i + 4] = s.after[i] + 1
    /\ s.answers[s.after[i] + 1] = "setup"

LEMMA TightTail ==
    ASSUME NEW s, KeepsProtocol(s), NEW i \in Nat, i >= 1, i + 3 <= Len(s.units),
           s.stages[i].want = "init", s.stages[i].tight = TRUE
    PROVE  EndsTight(s, i)
<1>1. /\ i \in 1 .. Len(s.units) /\ i + 1 \in 1 .. Len(s.units)
      /\ i + 2 \in 1 .. Len(s.units) /\ i + 3 \in 1 .. Len(s.units)
      /\ i + 1 + 1 = i + 2 /\ i + 2 + 1 = i + 3 /\ i + 3 + 1 = i + 4
  <2>1. Len(s.units) \in Nat BY Scripted
  <2> QED BY ONLY <2>1, i \in Nat, i >= 1, i + 3 <= Len(s.units)
<1>2. PICK t : t = <<>> OBVIOUS
<1>3. /\ s.units[i].role = "init" /\ s.stages[i + 1].want = "name"
      /\ s.stages[i + 1].tight = TRUE /\ s.after[i + 1] = s.after[i]
  <2>1. PICK p : p = s.stages[i] OBVIOUS
  <2>2. PICK turn : turn = Turn(p, s.units[i]) OBVIOUS
  <2>3. p.want = "init" /\ p.tight = TRUE BY <2>1
  <2>4. turn = Goes(p, "name", t) BY <1>2, <2>2, <2>3 DEF Turn
  <2>5. turn.stage.want = "name" /\ turn.stage.tight = TRUE /\ turn.answers = t
    BY ONLY <2>3, <2>4 DEF Goes, Stage
  <2>6. /\ s.units[i].role = p.want /\ s.stages[i + 1] = turn.stage
        /\ s.after[i + 1] = s.after[i]
    BY <1>1, <1>2, <2>1, <2>2, <2>5, SaysNothing
  <2> QED BY ONLY <2>3, <2>5, <2>6
<1>4. /\ s.units[i + 1].role = "name" /\ s.stages[i + 2].want = "tight header"
      /\ s.after[i + 2] = s.after[i]
  <2>0. PICK k : k = i + 1 OBVIOUS
  <2>1. PICK p : p = s.stages[k] OBVIOUS
  <2>2. PICK turn : turn = Turn(p, s.units[k]) OBVIOUS
  <2>3. p.want = "name" /\ p.tight = TRUE BY <1>3, <2>0, <2>1
  <2>4. turn = Goes(p, "tight header", t) BY <1>2, <2>2, <2>3 DEF Turn
  <2>5. turn.stage.want = "tight header" /\ turn.answers = t BY ONLY <2>4 DEF Goes, Stage
  <2>6. s.units[k].role = p.want /\ s.stages[k + 1] = turn.stage /\ s.after[k + 1] = s.after[k]
    <3>1. k \in 1 .. Len(s.units) BY ONLY <1>1, <2>0
    <3>2. turn.answers = t BY ONLY <2>5
    <3> QED BY <1>2, <2>1, <2>2, <3>1, <3>2, SaysNothing
  <2> QED BY ONLY <1>1, <1>3, <2>0, <2>3, <2>5, <2>6
<1>5. /\ s.units[i + 2].role = "tight header" /\ s.stages[i + 3].want = "tight lists"
      /\ s.after[i + 3] = s.after[i]
  <2>0. PICK k : k = i + 2 OBVIOUS
  <2>1. PICK p : p = s.stages[k] OBVIOUS
  <2>2. PICK turn : turn = Turn(p, s.units[k]) OBVIOUS
  <2>3. p.want = "tight header" BY <1>4, <2>0, <2>1
  <2>4. turn = Goes(p, "tight lists", t) BY <1>2, <2>2, <2>3 DEF Turn
  <2>5. turn.stage.want = "tight lists" /\ turn.answers = t BY ONLY <2>4 DEF Goes, Stage
  <2>6. s.units[k].role = p.want /\ s.stages[k + 1] = turn.stage /\ s.after[k + 1] = s.after[k]
    <3>1. k \in 1 .. Len(s.units) BY ONLY <1>1, <2>0
    <3>2. turn.answers = t BY ONLY <2>5
    <3> QED BY <1>2, <2>1, <2>2, <3>1, <3>2, SaysNothing
  <2> QED BY ONLY <1>1, <1>4, <2>0, <2>3, <2>5, <2>6
<1>6. /\ s.units[i + 3].role = "tight lists" /\ s.stages[i + 4].want = "end"
      /\ s.after[i + 4] = s.after[i] + 1 /\ s.answers[s.after[i] + 1] = "setup"
  <2>1. PICK p : p = s.stages[i + 3] OBVIOUS
  <2>2. PICK turn : turn = Turn(p, s.units[i + 3]) OBVIOUS
  <2>3. p.want = "tight lists" BY <1>5, <2>1
  <2>4. PICK u : u = <<"setup">> OBVIOUS
  <2>5. turn = Goes(p, "end", u) BY <2>2, <2>3, <2>4 DEF Turn
  <2>6. turn.stage.want = "end" /\ turn.answers = u BY ONLY <2>5 DEF Goes, Stage
  <2>7. /\ s.units[i + 3].role = p.want /\ s.stages[i + 3 + 1] = turn.stage
        /\ s.after[i + 3 + 1] = s.after[i + 3] + Len(turn.answers)
        /\ \A j \in DOMAIN turn.answers : s.answers[s.after[i + 3] + j] = turn.answers[j]
    BY <1>1, <2>1, <2>2, TurnTaken
  <2>8. Len(u) = 1 /\ DOMAIN u = {1} /\ u[1] = "setup" BY ONLY <2>4, Tuples
  <2> QED BY ONLY <1>1, <1>5, <2>3, <2>6, <2>7, <2>8
<1> QED BY ONLY <1>3, <1>4, <1>5, <1>6 DEF EndsTight

LEMMA ReadsTightInit ==
    ASSUME StreamOK, Place.want = "init", Place.tight = TRUE, Has(4),
           Reads(<<"init", "name", "tight header", "tight lists">>)
    PROVE  /\ taken' \in 0 .. arrived /\ misread' = FALSE
           /\ script' = script /\ arrived' = arrived
           /\ Place'.want = "end" /\ Due' = Due + 1 /\ script.answers[Due + 1] = "setup"
<1>1. /\ arrived \in Nat /\ taken \in Nat /\ Len(script.units) \in Nat
      /\ arrived <= Len(script.units)
  BY DueTyped
<1>2. arrived - taken >= 4 BY DEF Has
<1>3. PICK i : i = taken + 1 OBVIOUS
<1>4. /\ i \in Nat /\ i >= 1 /\ i + 3 <= Len(script.units)
      /\ i + 1 = taken + 2 /\ i + 2 = taken + 3 /\ i + 3 = taken + 4 /\ i + 4 = taken + 4 + 1
      /\ taken + 4 \in 0 .. arrived
  BY ONLY <1>1, <1>2, <1>3
<1>5. /\ script.units[i].role = "init" /\ script.units[i + 1].role = "name"
      /\ script.units[i + 2].role = "tight header" /\ script.units[i + 3].role = "tight lists"
      /\ script.stages[i + 4].want = "end" /\ script.after[i + 4] = script.after[i] + 1
      /\ script.answers[script.after[i] + 1] = "setup"
  <2>1. KeepsProtocol(script) BY DEF StreamOK
  <2>2. script.stages[i].want = "init" /\ script.stages[i].tight = TRUE BY <1>3 DEF Place
  <2>3. EndsTight(script, i) BY ONLY <1>4, <2>1, <2>2, TightTail
  <2> QED BY ONLY <2>3 DEF EndsTight
<1>6. PICK roles : roles = <<"init", "name", "tight header", "tight lists">> OBVIOUS
<1>7. /\ Len(roles) = 4 /\ DOMAIN roles = 1 .. 4
      /\ roles[1] = "init" /\ roles[2] = "name"
      /\ roles[3] = "tight header" /\ roles[4] = "tight lists"
  BY ONLY <1>6, Four
<1>8. Reads(roles) BY <1>6
<1>9. ReadAs(roles)
  <2>2. ASSUME NEW j \in 1 .. 4 PROVE script.units[taken + j].role = roles[j]
    BY ONLY <1>3, <1>4, <1>5, <1>7, UpToFour
  <2> QED BY ONLY <1>7, <2>2 DEF ReadAs
<1>10. /\ taken' = taken + 4 /\ misread' = FALSE /\ script' = script /\ arrived' = arrived
  <2>1. /\ taken' = taken + Len(roles) /\ script' = script /\ arrived' = arrived
        /\ misread' = (misread \/ ~Has(Len(roles)) \/ ~ReadAs(roles))
    BY ONLY <1>8 DEF Reads
  <2>2. ~misread BY DEF StreamOK
  <2>3. Has(Len(roles)) BY <1>7
  <2> QED BY ONLY <1>7, <1>9, <2>1, <2>2, <2>3
<1>11. Place' = script.stages[taken + 4 + 1] /\ Due' = script.after[taken + 4 + 1]
  BY ONLY <1>10 DEF Place, Due
<1> QED BY ONLY <1>3, <1>4, <1>5, <1>10, <1>11 DEF Due

LEMMA ServerInitKeeps ==
    ASSUME InStepInv, PageInv, ServerInit PROVE InStepInv'
<1>1. /\ At("ServerInitialisation") /\ Has(Len(ServerInitUnits)) /\ Reads(ServerInitUnits)
      /\ Says("setup") /\ Connected /\ Again
      /\ UNCHANGED <<init, version, scheme, tight, vencrypt, ra2, resumes>>
  BY DEF ServerInit, progress
<1>2. /\ init = "ServerInitialisation" /\ pc = "loop" /\ Serving /\ StreamOK
      /\ Place.want = Wanted /\ Place.tight = tight
  BY <1>1, InResult
<1>3. Place.want = "init" /\ ~Owes /\ ~Owes' BY <1>1, <1>2 DEF Wanted, Owes
<1>4. /\ taken' \in 0 .. arrived /\ misread' = FALSE
      /\ script' = script /\ arrived' = arrived
      /\ Place'.want = "end" /\ Due' = Due + 1 /\ script.answers[Due + 1] = "setup"
  <2>1. CASE tight = TRUE
    <3>1. ServerInitUnits = <<"init", "name", "tight header", "tight lists">>
      BY <2>1 DEF ServerInitUnits
    <3>2. Len(ServerInitUnits) = 4 BY <3>1, Four
    <3>3. Has(4) /\ Reads(<<"init", "name", "tight header", "tight lists">>)
      BY <1>1, <3>1, <3>2
    <3> QED BY <1>2, <1>3, <2>1, <3>3, ReadsTightInit
  <2>2. CASE tight = FALSE
    <3>1. ServerInitUnits = <<"init", "name">> BY <2>2 DEF ServerInitUnits
    <3>2. Len(ServerInitUnits) = 2 BY <3>1, Tuples
    <3>3. Has(2) /\ Reads(<<"init", "name">>) BY <1>1, <3>1, <3>2
    <3> QED BY <1>2, <1>3, <2>2, <3>3, ReadsInit
  <2> QED BY <1>2, <2>1, <2>2, Meeting
<1>5. StreamOK' /\ KeepsPace'
  <2>1. PICK t : t = <<"setup">> OBVIOUS
  <2>2. Len(t) = 1 /\ DOMAIN t = {1} /\ t[1] = "setup" BY ONLY <2>1, Tuples
  <2>3. \E a \in ClientSays : t = <<a>> /\ said' = Append(said, a)
    <3>1. said' = Append(said, "setup") BY <1>1, <1>2 DEF Says, Serving
    <3>2. "setup" \in ClientSays BY Zenon DEF ClientSays
    <3> WITNESS "setup" \in ClientSays
    <3> QED BY <2>1, <3>1
  <2>4. Due' = Due + Len(t) /\ \A j \in DOMAIN t : script.answers[Due + j] = t[j]
    BY ONLY <1>4, <2>2
  <2>5. t = IF Owes' THEN Append(t, "shared") ELSE t BY <1>3
  <2>6. KeepsPace BY <1>2 DEF Serving
  <2> QED BY ONLY <1>2, <1>3, <1>4, <2>3, <2>4, <2>5, <2>6, Paced
<1>6. said' = script'.answers
  <2>1. PICK d : d = said' OBVIOUS
  <2>2. PICK i : i = taken' + 1 OBVIOUS
  <2>3. /\ KeepsProtocol(script) /\ d \in Seq(ClientSays)
        /\ \A j \in DOMAIN d : d[j] = script.answers[j]
    BY <1>4, <1>5, <2>1 DEF StreamOK
  <2>4. Len(d) = script.after[i] /\ script.stages[i].want = "end"
    BY <1>3, <1>4, <1>5, <2>1, <2>2 DEF KeepsPace, Due, Place
  <2>5. i \in 1 .. Len(script.units) + 1
    <3>1. /\ arrived \in Nat /\ Len(script.units) \in Nat /\ arrived <= Len(script.units)
      BY <1>2, DueTyped
    <3> QED BY ONLY <1>4, <2>2, <3>1
  <2>6. d = script.answers BY <2>3, <2>4, <2>5, AllSaid
  <2> QED BY <1>4, <2>1, <2>6
<1>7. conn' = "connected" /\ pc' = "idle" /\ resumes' = 0
  BY <1>1, <1>2 DEF Connected, Moved, ComesFrom, Again, Serving
<1>8. ResumesOK'
  <2>1. 0 \in Nat OBVIOUS
  <2> QED BY ONLY <1>7, <2>1 DEF ResumesOK
<1>9. CallsOK' BY <1>1, <1>2, <1>6, <1>7 DEF CallsOK
<1> QED BY <1>5, <1>7, <1>8, <1>9 DEF InStepInv, Underway

LEMMA InitMsgInStep ==
    ASSUME InStepInv, PageInv, InitMsg PROVE InStepInv'
<1>1. CASE Version \/ Repeater \/ VersionRefused \/ NoSecurity \/ Security \/ SecurityDictated
  BY <1>1, VersionKeeps, RepeaterKeeps, VersionRefusedKeeps, NoSecurityKeeps, SecurityKeeps,
     SecurityDictatedKeeps
<1>2. CASE \/ VersionStarves \/ SecurityStarves \/ MSLogonStarves \/ StdVNCStarves \/ VeNCryptStarves
           \/ TightStarves \/ Ra2Waits \/ ResultStarves \/ ReasonStarves \/ ServerInitStarves
  BY <1>2, StarvesKeeps
<1>3. CASE UsernameMissing \/ NoAuth \/ Unsupported \/ StdVNCAsks \/ StdVNCAuth
  BY <1>3, UsernameMissingKeeps, NoAuthKeeps, UnsupportedKeeps, StdVNCAsksKeeps, StdVNCAuthKeeps
<1>4. CASE VeNCryptVersion \/ VeNCryptAck \/ VeNCryptCount \/ VeNCryptTypes
  BY <1>4, VeNCryptVersionKeeps, VeNCryptAckKeeps, VeNCryptCountKeeps, VeNCryptTypesKeeps
<1>5. CASE TightNoTunnels \/ TightTunnels \/ TightNone \/ TightAuth
  BY <1>5, TightNoTunnelsKeeps, TightTunnelsKeeps, TightNoneKeeps, TightAuthKeeps
<1>6. CASE Ra2Pokes \/ Ra2KeyLength \/ Ra2Key
  BY <1>6, Ra2PokesKeeps, Ra2KeyLengthKeeps, Ra2KeyKeeps
<1>7. CASE SecurityResult \/ SecurityReason \/ ClientInitialisation \/ ServerInit
  BY <1>7, SecurityResultKeeps, SecurityReasonKeeps, ClientInitialisationKeeps, ServerInitKeeps
<1> QED BY <1>1, <1>2, <1>3, <1>4, <1>5, <1>6, <1>7 DEF InitMsg

\* A server that waits for the answer to its challenge sends nothing after it.
LEMMA ChallengeWaits ==
    ASSUME StreamOK, Placed, KeepsPace, init = "Authentication", scheme = "VNCAuth",
           NEW m \in Nat, m <= Len(script.units), \A i \in 1 .. m : script.after[i] <= Len(said)
    PROVE  m <= taken + 1
<1>1. Place.want = "challenge" BY DEF Placed, Meets, Wanted, Scheming
<1>2. PICK u : u = <<"response">> OBVIOUS
<1>3. Turn(Place, Next1).answers = u BY <1>1, <1>2 DEF Turn, Goes
<1>4. taken \in Nat /\ Len(script.units) \in Nat BY DueTyped
<1>5. ASSUME ~(m <= taken + 1) PROVE FALSE
  <2>1. taken + 1 \in 1 .. Len(script.units) /\ taken + 1 + 1 \in 1 .. m
    BY ONLY <1>4, <1>5, m \in Nat, m <= Len(script.units)
  <2>2. script.after[taken + 1 + 1] = Due + Len(Turn(Place, Next1).answers)
    BY <2>1, TurnTaken DEF StreamOK, Place, Next1, Due
  <2>3. Len(u) = 1 BY ONLY <1>2, Tuples
  <2>4. Len(said) = Due /\ Len(said) \in Nat
    <3>1. ~Owes BY DEF Owes
    <3> QED BY <3>1 DEF KeepsPace, StreamOK
  <2>5. script.after[taken + 1 + 1] <= Len(said) BY <2>1
  <2> QED BY ONLY <1>3, <2>2, <2>3, <2>4, <2>5
<1> QED BY <1>5

\* What the server may send it may have sent.
LEMMA SendableSent ==
    ASSUME StreamOK, NEW m \in Nat, m <= Sendable
    PROVE  m <= Len(script.units) /\ \A i \in 1 .. m : script.after[i] <= Len(said)
<1> DEFINE waits == {i \in DOMAIN script.units : script.after[i] > Len(said)}
<1>1. /\ DOMAIN script.units = 1 .. Len(script.units) /\ Len(script.units) \in Nat
      /\ Len(script.answers) \in Nat
  BY Scripted DEF StreamOK
<1>2. Len(said) \in Nat BY DEF StreamOK
<1>3. Sendable = IF waits = {} THEN Len(script.units) ELSE Min(waits) - 1 BY DEF Sendable
<1>4. ASSUME NEW i \in 1 .. Len(script.units), i \notin waits PROVE script.after[i] <= Len(said)
  <2>1. i \in 1 .. Len(script.units) + 1 BY ONLY <1>1, i \in 1 .. Len(script.units)
  <2>2. script.after[i] \in 0 .. Len(script.answers) BY <2>1, Scripted DEF StreamOK
  <2>3. ~(script.after[i] > Len(said)) BY <1>1, <1>4
  <2> QED BY ONLY <1>1, <1>2, <2>2, <2>3
<1>5. CASE waits = {}
  <2>1. m <= Len(script.units) BY <1>3, <1>5
  <2>2. \A i \in 1 .. m : i \in 1 .. Len(script.units) BY ONLY <1>1, <2>1, m \in Nat
  <2> QED BY <1>4, <1>5, <2>1, <2>2
<1>6. CASE waits # {}
  <2>1. PICK k : k = Min(waits) OBVIOUS
  <2>2. waits \in SUBSET Nat BY <1>1
  <2>3. k \in waits /\ \A i \in waits : k <= i BY <1>6, <2>1, <2>2, Least
  <2>4. k \in 1 .. Len(script.units) BY <1>1, <2>3
  <2>5. m <= k - 1 BY <1>3, <1>6, <2>1
  <2>6. m <= Len(script.units) /\ \A i \in 1 .. m : i \in 1 .. Len(script.units) /\ ~(k <= i)
    BY ONLY <1>1, <2>4, <2>5, m \in Nat
  <2> QED BY <1>4, <2>3, <2>6
<1> QED BY <1>5, <1>6

LEMMA ArrivesKeeps ==
    ASSUME InStepInv, PageInv, NEW n \in 1 .. Len(script.units), HandshakeArrives(n)
    PROVE  InStepInv'
<1>1. /\ UNCHANGED <<conn, sock, script, taken, said, init, version, scheme, tight, vencrypt, ra2,
                     password, resumes, misread>>
      /\ conn = "connecting" /\ sock = "open" /\ pc = "idle" /\ pc' = "loop"
      /\ arrived' = arrived + n /\ arrived + n <= Sendable
  BY DEF HandshakeArrives, connection, progress
<1>2. StreamOK /\ ResumesOK /\ CallsOK /\ init # "" /\ Placed /\ KeepsPace
  BY <1>1 DEF InStepInv, CallsOK, Underway
<1>3. /\ arrived \in Nat /\ taken \in 0 .. arrived /\ n \in Nat /\ n >= 1
      /\ Len(script.units) \in Nat
  <2>1. arrived \in Nat /\ taken \in 0 .. arrived /\ Len(script.units) \in Nat
    BY <1>2, DueTyped DEF StreamOK
  <2>2. n \in Nat /\ n >= 1 BY ONLY <2>1, n \in 1 .. Len(script.units)
  <2> QED BY <2>1, <2>2
<1>4. PICK m : m = arrived + n OBVIOUS
<1>5. m \in Nat /\ m >= arrived + 1 /\ taken \in 0 .. m /\ m - taken >= 1 BY ONLY <1>3, <1>4
<1>6. m <= Len(script.units) /\ \A i \in 1 .. m : script.after[i] <= Len(said)
  BY <1>1, <1>2, <1>4, <1>5, SendableSent
<1>7. StreamOK'
  <2>1. m \in 0 .. Len(script.units) BY ONLY <1>3, <1>5, <1>6
  <2> QED BY <1>1, <1>2, <1>4, <1>5, <1>6, <2>1 DEF StreamOK, Units
<1>8. ResumesOK'
  <2>1. ASSUME resumes # 0, scheme = "VNCAuth", arrived = taken + 1, init = "Authentication"
        PROVE  FALSE
    <3>1. m <= taken + 1 BY <1>2, <1>5, <1>6, <2>1, ChallengeWaits
    <3> QED BY ONLY <1>3, <1>5, <2>1, <3>1
  <2> QED BY <1>1, <1>2, <2>1 DEF ResumesOK
<1>9. CallsOK'
  <2>1. Has(1)'
    <3>1. Has(1)' = (m - taken >= 1) BY <1>1, <1>4 DEF Has
    <3> QED BY <1>5, <3>1
  <2> QED BY <1>1, <1>2, <2>1 DEF CallsOK
<1>10. Placed' /\ KeepsPace'
  BY <1>1, <1>2 DEF Placed, Meets, Begun, Wanted, Scheming, Place, KeepsPace, Owes, Due
<1> QED BY <1>7, <1>8, <1>9, <1>10 DEF InStepInv

LEMMA ResumeKeeps ==
    ASSUME InStepInv, PageInv, Resume PROVE InStepInv'
<1>1. /\ UNCHANGED <<conn, sock, script, arrived, taken, said, init, version, scheme, tight, vencrypt,
                     ra2, password, misread>>
      /\ pc = "idle" /\ pc' = "timer" /\ resumes > 0 /\ resumes' = resumes - 1
  BY DEF Resume, connection, progress, stream
<1>2. StreamOK /\ ResumesOK /\ CallsOK BY DEF InStepInv
<1>3. resumes \in Nat BY <1>2 DEF ResumesOK
<1>4. resumes # 0 /\ resumes' \in Nat /\ (resumes \in {0, 1} => resumes' = 0)
  BY ONLY <1>1, <1>3
<1>5. Underway /\ init # "" BY <1>1, <1>2, <1>4 DEF Underway, CallsOK
<1>6. StreamOK' BY <1>1, <1>2 DEF StreamOK, Units
<1>7. ResumesOK' BY <1>1, <1>2, <1>4 DEF ResumesOK
<1>8. CallsOK' BY <1>1, <1>2, <1>4, <1>5 DEF CallsOK
<1>9. Placed' /\ (conn = "connecting" => KeepsPace')
  <2>1. Placed /\ (conn = "connecting" => KeepsPace) BY <1>5 DEF InStepInv
  <2> QED BY <1>1, <2>1 DEF Placed, Meets, Begun, Wanted, Scheming, Place, KeepsPace, Owes, Due
<1> QED BY <1>1, <1>6, <1>7, <1>8, <1>9 DEF InStepInv

LEMMA SocketOpensKeeps ==
    ASSUME InStepInv, PageInv, SocketOpens PROVE InStepInv'
<1>1. conn = "connecting" /\ sock = "connecting" /\ init = "" /\ pc = "idle"
  BY DEF SocketOpens, PageInv, PageShape, PageFollows
<1>2. /\ UNCHANGED <<conn, script, arrived, taken, said, version, scheme, tight, vencrypt,
                     ra2, password, pc, resumes, misread>>
      /\ init' = "ProtocolVersion"
  BY <1>1 DEF SocketOpens, To, stream
<1>3. StreamOK /\ ResumesOK /\ CallsOK BY DEF InStepInv
<1>4. /\ arrived = 0 /\ said = <<>> /\ resumes = 0
      /\ version = 0 /\ tight = FALSE /\ vencrypt = 0 /\ ra2 = "none"
  BY <1>1, <1>3 DEF CallsOK
<1>5. taken = 0
  <2>1. taken \in 0 .. 0 BY <1>3, <1>4 DEF StreamOK
  <2> QED BY ONLY <2>1
<1>6. taken + 1 = 1 BY ONLY <1>5
<1>7. Place = Start /\ Due = 0
  BY <1>3, <1>6 DEF StreamOK, KeepsProtocol, Place, Due
<1>8. StreamOK' BY <1>2, <1>3 DEF StreamOK, Units
<1>9. ResumesOK' BY <1>1, <1>2, <1>3, <1>4 DEF ResumesOK
<1>10. CallsOK' BY <1>1, <1>2, <1>3, <1>4 DEF CallsOK
<1>11. Placed'
  <2>1. Place' = Start BY <1>2, <1>7 DEF Place
  <2>2. Place'.want = "version" /\ Place'.version = 0 /\ Place'.tight = FALSE
    BY <2>1 DEF Start, Stage
  <2>3. Wanted' = "version" BY <1>2 DEF Wanted
  <2> QED BY <1>2, <1>4, <2>2, <2>3 DEF Placed, Meets, Begun
<1>12. KeepsPace'
  <2>1. ~Owes' BY <1>2 DEF Owes
  <2>2. Due' = 0 BY <1>2, <1>7 DEF Due
  <2>3. Len(said') = 0 BY <1>2, <1>4
  <2> QED BY <2>1, <2>2, <2>3 DEF KeepsPace
<1> QED BY <1>8, <1>9, <1>10, <1>11, <1>12 DEF InStepInv

\* What leaves the handshake where it is: it is not in the middle of a call, and
\* the connection stays, ends, or begins.
Leaves ==
    /\ UNCHANGED handshake /\ pc = "idle"
    /\ \/ UNCHANGED <<conn, sock>>
       \/ conn' \notin {"connecting", "connected"}
       \/ init = "" /\ conn' = "connecting" /\ sock' = "connecting"

LEMMA LeavesInStep ==
    ASSUME InStepInv, Leaves PROVE InStepInv'
<1>1. UNCHANGED <<script, arrived, taken, said, init, version, scheme, tight, vencrypt, ra2,
                  password, pc, resumes, misread>>
  BY DEF Leaves, handshake, stream, progress
<1>2. StreamOK /\ ResumesOK /\ CallsOK BY DEF InStepInv
<1>3. StreamOK' BY <1>1, <1>2 DEF StreamOK, Units
<1>4. ResumesOK' BY <1>1, <1>2 DEF ResumesOK
<1>5. CallsOK' BY <1>1, <1>2 DEF CallsOK, Leaves, Has
<1>6. ASSUME Underway', init' # "" PROVE Placed'
  <2>1. Placed BY <1>1, <1>6 DEF InStepInv, Underway, Leaves
  <2> QED BY <1>1, <2>1 DEF Placed, Meets, Begun, Wanted, Scheming, Place
<1>7. ASSUME conn' = "connecting", init' # "" PROVE KeepsPace'
  <2>1. KeepsPace BY <1>1, <1>7 DEF InStepInv, Leaves
  <2> QED BY <1>1, <2>1 DEF KeepsPace, Owes, Due
<1> QED BY <1>3, <1>4, <1>5, <1>6, <1>7 DEF InStepInv

LEMMA PageLeaves ==
    ASSUME PageInv, Page PROVE Leaves
<1>1. UNCHANGED handshake /\ pc = "idle" BY DEF Page, idle
<1>2. CASE StartViewer
  BY <1>1, <1>2 DEF StartViewer, Leaves, PageInv, PageShape, Moved, ComesFrom
<1>3. CASE ViewerFails \/ Slow BY <1>1, <1>3 DEF ViewerFails, Slow, Leaves
<1>4. CASE SocketCloses
  <2>1. conn \in {"connecting", "connected", "disconnected"}
    BY <1>4 DEF SocketCloses, PageInv, PageShape
  <2>2. conn' = "disconnected" BY <1>4, <2>1 DEF SocketCloses, Moved, ComesFrom
  <2> QED BY <1>1, <2>2 DEF Leaves
<1> QED BY <1>2, <1>3, <1>4 DEF Page

LEMMA ClipboardLeaves ==
    ASSUME UsesClipboard PROVE Leaves
<1>1. UNCHANGED handshake /\ pc = "idle" BY DEF UsesClipboard, idle
<1>2. CASE OddReceived
  <2>1. Fails /\ conn = "connected" BY <1>2 DEF OddReceived, HostReceives
  <2>2. conn' = "disconnected" BY <2>1 DEF Fails, Terminated, Moved, ComesFrom
  <2> QED BY <1>1, <2>2 DEF Leaves
<1>3. CASE ~OddReceived
  <2>1. UNCHANGED <<conn, sock>> BY <1>3, ClipboardLeavesConnection
  <2> QED BY <1>1, <2>1 DEF Leaves
<1> QED BY <1>2, <1>3

LEMMA InStepNext ==
    ASSUME InStepInv, PageInv, [Next]_vars PROVE InStepInv'
<1>1. CASE Page BY <1>1, PageLeaves, LeavesInStep
<1>2. CASE Handshaking
  <2>1. CASE InitMsg BY <2>1, InitMsgInStep
  <2>2. CASE SocketOpens BY <2>2, SocketOpensKeeps
  <2>3. CASE Resume BY <2>3, ResumeKeeps
  <2>4. CASE \E n \in 1 .. Len(script.units) : HandshakeArrives(n) BY <2>4, ArrivesKeeps
  <2> QED BY <1>2, <2>1, <2>2, <2>3, <2>4 DEF Handshaking
<1>3. CASE UsesClipboard BY <1>3, ClipboardLeaves, LeavesInStep
<1>4. CASE Types
  <2>1. UNCHANGED <<conn, sock>> BY <1>4, KeyboardLeavesConnection
  <2>2. Leaves BY <1>4, <2>1 DEF Types, Leaves, idle
  <2> QED BY <2>2, LeavesInStep
<1>5. CASE Resizes
  <2>1. Leaves BY <1>5 DEF Resizes, ResizeNext, Leaves, idle, connection
  <2> QED BY <2>1, LeavesInStep
<1>6. CASE Points
  <2>1. UNCHANGED <<conn, sock>> BY <1>6, PointerLeavesConnection DEF connection
  <2>2. Leaves BY <1>6, <2>1 DEF Points, Leaves, idle
  <2> QED BY <2>2, LeavesInStep
<1>7. CASE UNCHANGED vars
  <2>1. UNCHANGED <<conn, sock, script, arrived, taken, said, init, version, scheme, tight, vencrypt,
                    ra2, password, pc, resumes, misread>>
    BY <1>7 DEF vars, connection, handshake, stream, progress
  <2>2. StreamOK' BY <2>1 DEF InStepInv, StreamOK, Units
  <2>3. ResumesOK' BY <2>1 DEF InStepInv, ResumesOK
  <2>4. CallsOK' BY <2>1 DEF InStepInv, CallsOK, Has
  <2>5. Underway' = Underway BY <2>1 DEF Underway
  <2>6. ASSUME Underway', init' # "" PROVE Placed'
    <3>1. Placed BY <2>1, <2>5, <2>6 DEF InStepInv
    <3> QED BY <2>1, <3>1 DEF Placed, Meets, Begun, Wanted, Scheming, Place
  <2>7. ASSUME conn' = "connecting", init' # "" PROVE KeepsPace'
    <3>1. KeepsPace BY <2>1, <2>7 DEF InStepInv
    <3> QED BY <2>1, <3>1 DEF KeepsPace, Owes, Due
  <2> QED BY <2>2, <2>3, <2>4, <2>6, <2>7 DEF InStepInv
<1> QED BY <1>1, <1>2, <1>3, <1>4, <1>5, <1>6, <1>7 DEF Next

LEMMA InStepInit == Init => InStepInv
<1> SUFFICES ASSUME Init PROVE InStepInv OBVIOUS
<1>1. /\ script \in Servers /\ arrived = 0 /\ taken = 0 /\ said = <<>> /\ init = ""
      /\ version = 0 /\ tight = FALSE /\ vencrypt = 0 /\ ra2 = "none" /\ pc = "idle"
      /\ resumes = 0 /\ misread = FALSE /\ conn = ""
  BY DEF Init, HandshakeInit, ConnectionInit
<1>2. KeepsProtocol(script) BY <1>1, ServersAssumption
<1>3. Len(script.units) \in Nat /\ Len(script.answers) \in Nat BY <1>2, Scripted
<1>4. StreamOK
  <2>1. 0 \in 0 .. Len(script.units) /\ 0 \in 0 .. 0 /\ 1 .. 0 = {} BY ONLY <1>3
  <2>2. <<>> \in Seq(ClientSays) /\ Len(<<>>) = 0 /\ DOMAIN <<>> = {} BY ONLY <1>3
  <2>3. 0 <= Len(script.answers) BY ONLY <1>3
  <2> QED BY <1>1, <1>2, <2>1, <2>2, <2>3 DEF StreamOK, Units
<1>5. ResumesOK
  <2>1. 0 \in Nat OBVIOUS
  <2> QED BY <1>1, <2>1 DEF ResumesOK
<1>6. CallsOK BY <1>1 DEF CallsOK
<1> QED BY <1>1, <1>4, <1>5, <1>6 DEF InStepInv

LEMMA InStepHolds ==
    ASSUME InStepInv PROVE HandshakeInStep
<1>1. StreamOK /\ CallsOK BY DEF InStepInv
<1>2. /\ said \in Seq(ClientSays) /\ Len(said) <= Len(script.answers)
      /\ \A i \in DOMAIN said : said[i] = script.answers[i]
      /\ ~misread
  BY <1>1 DEF StreamOK
<1>3. \A i \in 1 .. Len(said) : said[i] = script.answers[i] BY <1>2
<1>4. IsPrefix(said, script.answers) BY <1>2, <1>3 DEF IsPrefix
<1>5. conn = "connected" => said = script.answers /\ resumes = 0 BY <1>1 DEF CallsOK
<1> QED BY <1>2, <1>4, <1>5 DEF HandshakeInStep

\* Against every server that keeps to the protocol for as long as it says anything,
\* however the network cuts what it sends, whenever the page's answers come and
\* whatever ends the connection: RFB._initMsg and its negotiation steps read every
\* unit for what it is, give each answer once and in order, and leave no timer of
\* _resumeAuthentication behind when the session is up.
THEOREM HandshakeInStepAlways == Spec => []HandshakeInStep
<1>1. Init => InStepInv /\ PageInv BY InStepInit, PageInit
<1>2. (InStepInv /\ PageInv) /\ [Next]_vars => (InStepInv /\ PageInv)' BY InStepNext, PageNext
<1>3. InStepInv /\ PageInv => HandshakeInStep BY InStepHolds
<1> QED BY <1>1, <1>2, <1>3, PTL DEF Spec

=============================================================================
