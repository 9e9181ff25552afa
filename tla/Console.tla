------------------------------ MODULE Console -------------------------------
(***************************************************************************)
(* A console window from its loading to its end: the page and the          *)
(* connection (Connection), the handshake (Handshake), and what goes on    *)
(* besides the pictures (Frames) while a session is up: the clipboard      *)
(* (Clipboard), the size of the desktop (Resize), the keyboard (Keyboard)  *)
(* and the pointer (Pointer, Gestures).                                    *)
(*                                                                         *)
(* JavaScript runs one task at a time: between two tasks pc is "idle", and *)
(* the steps of a task interleave with nothing.                            *)
(***************************************************************************)
EXTENDS Handshake, Clipboard, Resize, Gestures

CONSTANTS
    Uses,          \* bound: what a session is used for, with which keyboards, fingers and places
    Simple         \* the server of the sessions that are used for more than a handshake

\* A session is used for one thing, the better to explore it, or for several that
\* share state: a pinch presses a key and tells the guest's caps lock, mouse and
\* touches share the pointer. What is left to share is the connection.
VARIABLE use

ASSUME UsesAssumption ==
    \A u \in Uses : /\ u.things \subseteq {"handshake", "clipboard", "resize", "keyboard", "mouse", "touch"}
                   /\ u.keyboards \subseteq Keyboards /\ u.fingers \subseteq Fingers
                   /\ u.places \subseteq Positions

vars == <<connection, handshake, clipboard, resizing, typing, pointing, touching, use>>

For(thing) == thing \in use.things

AnySize == CHOOSE s \in Sizes : TRUE
AnyPosition == CHOOSE p \in Positions : TRUE

Init ==
    /\ ConnectionInit /\ HandshakeInit /\ ClipboardInit /\ ResizeInit
    /\ KeyboardInit /\ PointerInit /\ GesturesInit
    /\ use \in Uses
    /\ keyboard \in use.keyboards
    /\ For("clipboard") \/ announces = None
    /\ For("resize") \/ (~unseen /\ ~frame /\ ~timer /\ size = desktop /\ desktop = AnySize)
    /\ For("mouse") \/ mousePos = AnyPosition
    /\ For("handshake") \/ (script = Simple /\ status = "loading")

idle == pc = "idle"

inputs == <<typing, pointing, touching>>

\* What the end of the connection does to the keyboard.
Ends == conn' = "disconnected" /\ conn # conn'
OtherInput == Ungrab(Ends) /\ UNCHANGED <<pointing, touching>>

Page ==
    /\ idle
    /\ StartViewer \/ ViewerFails \/ Slow \/ SocketCloses
    /\ OtherInput
    /\ UNCHANGED <<handshake, clipboard, resizing, use>>

Handshaking ==
    /\ SocketOpens \/ InitMsg \/ Resume \/ \E n \in 1 .. Len(script.units) : HandshakeArrives(n)
    /\ OtherInput
    /\ UNCHANGED <<clipboard, resizing, use>>

UsesClipboard ==
    /\ idle /\ For("clipboard")
    /\ ClipboardNext
    /\ OtherInput
    /\ UNCHANGED <<handshake, resizing, use>>

Resizes ==
    /\ idle /\ For("resize")
    /\ ResizeNext
    /\ UNCHANGED <<handshake, clipboard, inputs, use>>

Types ==
    /\ idle /\ For("keyboard")
    /\ KeyboardNext
    /\ UNCHANGED <<handshake, clipboard, resizing, pointing, touching, use>>

\* While a session is set up the pointer is listened to already, which makes no
\* difference to the handshake: here, until the socket opens.
Points ==
    /\ idle
    /\ sock = "connecting" \/ conn = "connected"
    /\ \/ For("mouse") /\ MouseNext /\ UNCHANGED touching
       \/ For("touch") /\ DelayedMouseMove /\ UNCHANGED touching
       \/ /\ For("touch") /\ GesturesNext
          /\ fingers' \subseteq use.fingers /\ lastPos' \in use.places \cup {lastPos}
    /\ UNCHANGED <<handshake, clipboard, resizing, use>>

Next == Page \/ Handshaking \/ UsesClipboard \/ Resizes \/ Types \/ Points

Spec == Init /\ [][Next]_vars

\* A task that has begun runs to its end, and a timer that is due fires; the
\* server, the network and the user owe nothing.
Answers == (InitMsg \/ Resume) /\ Handshaking

FairSpec == Spec /\ WF_vars(Answers)

-----------------------------------------------------------------------------
\* The console's parts hold what they are meant to.
TypeOK ==
    /\ ConnectionTypeOK /\ HandshakeTypeOK /\ ClipboardTypeOK /\ ResizeTypeOK
    /\ KeyboardTypeOK /\ PointerTypeOK /\ GesturesTypeOK

=============================================================================
