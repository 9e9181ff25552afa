---------------------------- MODULE Connection ------------------------------
(***************************************************************************)
(* A console window: the connection states of the noVNC client (rfb.js in  *)
(* novnc-rfb.js), its socket, and the page around it (console-viewer.js),  *)
(* which the client tells of its changes within the same task.             *)
(***************************************************************************)
EXTENDS Naturals

VARIABLES
    conn,          \* RFB._rfbConnectionState, "" before there is a client
    sock,          \* Websock.readyState
    clean,         \* RFB._rfbCleanDisconnect
    status,        \* the line at the top of the page
    keys,          \* btnPaste and btnCad are enabled
    box,           \* the message over the screen, "" when it is hidden
    late,          \* the timer for a slow connection is pending
    disconnects    \* history variable: disconnect events dispatched

page == <<status, keys, box, late>>
connection == <<conn, sock, clean, page, disconnects>>

\* The server that rendered the page knows whether the machine is up: if it is
\* not, its message is all there is.
ConnectionInit ==
    /\ conn = "" /\ sock = "unused" /\ clean = TRUE
    /\ keys = FALSE /\ late = FALSE /\ disconnects = 0
    /\ \/ status = "loading" /\ box = ""
       \/ status = "not ready" /\ box = "unavailable"

-----------------------------------------------------------------------------
\* RFB._updateConnectionState: a change that is not in this table is refused.
ComesFrom ==
    [connecting |-> {""}, connected |-> {"connecting"},
     disconnecting |-> {"connecting", "connected"}, disconnected |-> {"disconnecting"}]
Moved(from, to) == IF from \in ComesFrom[to] THEN to ELSE from

\* The page's handler of "disconnect".
TellDisconnect(isClean) ==
    /\ keys' = FALSE
    /\ box' = IF isClean THEN box ELSE "disconnected"
    /\ status' = "disconnected"
    /\ disconnects' = disconnects + 1

\* Faulty: skips "disconnecting", and the table refuses.
TerminatedAtOnce(isClean) ==
    /\ conn' = Moved(conn, "disconnected")
    /\ clean' = isClean
    /\ sock' = "closing"
    /\ IF conn' # conn /\ conn' = "disconnected" THEN TellDisconnect(isClean)
       ELSE UNCHANGED <<keys, box, status, disconnects>>
    /\ UNCHANGED late

\* Disconnecting, which closes the socket and lets go of the input, and at once
\* disconnected, which stops the timer that would give up waiting, and the
\* event that would say it again. For good: a second failure changes nothing.
Terminated(isClean) ==
    LET to == Moved(Moved(conn, "disconnecting"), "disconnected")
    IN /\ conn' = to
       /\ clean' = isClean
       /\ sock' = IF to # conn /\ sock # "closed" THEN "closing" ELSE sock
       /\ IF to # conn /\ to = "disconnected" THEN TellDisconnect(isClean)
          ELSE UNCHANGED <<keys, box, status, disconnects>>
       /\ UNCHANGED late

\* RFB._fail.
Fails == Terminated(FALSE)

\* "securityfailure", and the _fail that follows it: the page says that the
\* authentication failed, and in the same task that it was disconnected.
SecurityFails == Fails

\* "connect".
Connected ==
    /\ conn' = Moved(conn, "connected")
    /\ IF conn' # conn THEN keys' = TRUE /\ status' = "connected" /\ box' = ""
       ELSE UNCHANGED <<keys, status, box>>
    /\ UNCHANGED <<sock, clean, late, disconnects>>

-----------------------------------------------------------------------------
\* The page.

\* The client is loaded, constructed and told of the handlers, and connects.
StartViewer ==
    /\ status = "loading"
    /\ conn' = Moved(conn, "connecting")
    /\ sock' = "connecting"
    /\ status' = "connecting"
    /\ late' = TRUE
    /\ UNCHANGED <<clean, keys, box, disconnects>>

ViewerFails ==
    /\ status = "loading"
    /\ status' = "load failed" /\ box' = "load failed"
    /\ UNCHANGED <<conn, sock, clean, keys, late, disconnects>>

\* Eight seconds later.
Slow ==
    /\ late
    /\ late' = FALSE
    /\ status' = IF ~keys /\ status = "connecting" THEN "still connecting" ELSE status
    /\ UNCHANGED <<conn, sock, clean, keys, box, disconnects>>

\* The socket's close event, for whatever reason it closed: in the middle of a
\* session it counts as clean. A client that has closed it listens no more.
SocketCloses ==
    /\ sock \in {"connecting", "open", "closing"}
    /\ IF conn = "disconnected"
       THEN sock' = "closed" /\ UNCHANGED <<conn, clean, page, disconnects>>
       ELSE /\ conn' = Moved(Moved(conn, "disconnecting"), "disconnected")
            /\ sock' = "closed"
            /\ clean' = (clean /\ conn = "connected")
            /\ TellDisconnect(clean')
            /\ UNCHANGED late

-----------------------------------------------------------------------------
ConnectionTypeOK ==
    /\ conn \in {"", "connecting", "connected", "disconnected"}
    /\ sock \in {"unused", "connecting", "open", "closing", "closed"}
    /\ clean \in BOOLEAN /\ keys \in BOOLEAN /\ late \in BOOLEAN
    /\ box \in {"", "unavailable", "load failed", "disconnected"}
    /\ disconnects \in Nat

\* The page and the connection agree at the end of every task: the buttons work
\* while the session is up and only then, a session that is up has no message
\* over its screen, the end is told once, and an end that was not a plain close
\* of a session that was up leaves its message on the screen.
PageFollows ==
    /\ keys <=> conn = "connected"
    /\ conn = "connected" => box = "" /\ sock = "open"
    /\ disconnects = IF conn = "disconnected" THEN 1 ELSE 0
    /\ conn = "disconnected" /\ ~clean => box = "disconnected"
    /\ conn = "disconnected" => sock \in {"closing", "closed"}

=============================================================================
