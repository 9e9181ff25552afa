------------------------------ MODULE Pointer -------------------------------
(***************************************************************************)
(* The pointer of a console (rfb.js in novnc-rfb.js): the mouse, its       *)
(* wheel, and the gestures that stand for them. Moves are sent 17 ms apart *)
(* at most, buttons at once.                                               *)
(***************************************************************************)
EXTENDS Keyboard

CONSTANTS
    Positions      \* bound: places on the screen

ASSUME PositionsAssumption == Positions # {}

VARIABLES
    mask,          \* RFB._mouseButtonMask, as a set of buttons
    mousePos,      \* RFB._mousePos
    moveTimer,     \* RFB._mouseMoveTimer is pending
    guestPointer,  \* the last position and mask the guest was sent, or none
    buttons,       \* the mouse buttons that are physically down
    over,          \* the mouse is over the canvas
    captured,      \* document.captureElement is the canvas
    lastPos,       \* history variable: where the pointer was last
    lost           \* history variable: buttons let go of where nobody heard of it

mouse == <<buttons, over, captured, lost>>
pointing == <<mask, mousePos, moveTimer, guestPointer, lastPos, mouse>>

MouseButtons == {"left", "right"}
WheelButtons == {"up", "down", "scroll left", "scroll right"}

PointerInit ==
    /\ mask = {} /\ moveTimer = FALSE /\ guestPointer = <<>>
    /\ buttons = {} /\ over = FALSE /\ captured = FALSE /\ lost = {}
    /\ mousePos \in Positions /\ lastPos = mousePos

-----------------------------------------------------------------------------
\* What a handler does, step by step. s is the state it passes through.

PointerState == [mask |-> mask, pos |-> mousePos, timer |-> moveTimer,
                 guest |-> guestPointer, last |-> lastPos]

\* RFB._sendMouse
SendMouse(s, p) == IF conn = "connected" THEN [s EXCEPT !.guest = <<p, s.mask>>] ELSE s

\* RFB._handleMouseMove: a move too soon after the last that was sent is left to a timer.
HandleMouseMove(s, p, soon) ==
    LET moved == [s EXCEPT !.pos = p, !.last = p]
    IN IF s.timer THEN moved
       ELSE IF soon THEN [moved EXCEPT !.timer = TRUE]
       ELSE SendMouse(moved, p)

Changed(s, b, down) == [s EXCEPT !.mask = IF down THEN @ \cup {b} ELSE @ \ {b}]

\* Faulty: leaves the timer to send the older position afterwards.
HandleMouseButtonLate(s, p, b, down) == SendMouse([Changed(s, b, down) EXCEPT !.last = p], p)

\* RFB._handleMouseButton: a move that waits goes first, with the old mask.
HandleMouseButton(s, p, b, down) ==
    LET flushed == IF s.timer THEN SendMouse([s EXCEPT !.timer = FALSE], p) ELSE s
    IN SendMouse([Changed(flushed, b, down) EXCEPT !.last = p], p)

ButtonDown(s, p, b) == HandleMouseButton(s, p, b, TRUE)
ButtonUp(s, p, b) == HandleMouseButton(s, p, b, FALSE)
Click(s, p, b) == ButtonUp(ButtonDown(s, p, b), p, b)
WheelClick(s, p, wheel) == IF wheel = "none" THEN s ELSE Click(s, p, wheel)

Does(s) ==
    /\ mask' = s.mask /\ mousePos' = s.pos /\ moveTimer' = s.timer
    /\ guestPointer' = s.guest /\ lastPos' = s.last

-----------------------------------------------------------------------------
\* The mouse: RFB._handleMouse, and the capture of events.js.

Attached == conn \in {"connecting", "connected"}
SameUser == UNCHANGED <<connection, typing>>

\* On to the canvas, or off it.
MouseCrosses ==
    /\ over' = ~over
    /\ UNCHANGED <<mask, mousePos, moveTimer, guestPointer, lastPos, buttons, captured, lost>>
    /\ SameUser

MouseMoves ==
    /\ Attached
    /\ over \/ captured
    /\ \E p \in Positions, soon \in BOOLEAN : Does(HandleMouseMove(PointerState, p, soon))
    /\ UNCHANGED mouse /\ SameUser

\* setCapture: an element over the whole page takes the mouse, until a button
\* goes up. It passes on moves and releases, and swallows another button.
MousePressed ==
    /\ Attached
    /\ over \/ captured
    /\ \E p \in Positions, b \in MouseButtons \ buttons :
          /\ buttons' = buttons \cup {b}
          /\ IF captured
             THEN UNCHANGED <<mask, mousePos, moveTimer, guestPointer, lastPos, lost>>
             ELSE Does(ButtonDown(PointerState, p, b)) /\ lost' = lost \ {b}
    /\ captured' = TRUE
    /\ UNCHANGED over /\ SameUser

\* _captureProxy and releaseCapture: whichever button it was.
MouseReleased ==
    /\ Attached
    /\ \E p \in Positions, b \in buttons :
          /\ buttons' = buttons \ {b}
          /\ IF over \/ captured
             THEN Does(ButtonUp(PointerState, p, b)) /\ lost' = lost \ {b}
             ELSE /\ lost' = lost \cup {b}
                  /\ UNCHANGED <<mask, mousePos, moveTimer, guestPointer, lastPos>>
    /\ captured' = FALSE
    /\ UNCHANGED over /\ SameUser

\* RFB._handleWheel: one step of the wheel has added up in one direction, or
\* in two.
HandleWheel ==
    /\ conn = "connected"
    /\ over
    /\ \E p \in Positions, horizontal \in {"none", "scroll left", "scroll right"},
          vertical \in {"none", "up", "down"} :
          Does(WheelClick(WheelClick(PointerState, p, horizontal), p, vertical))
    /\ UNCHANGED mouse /\ SameUser

\* RFB._handleDelayedMouseMove, of a timer that _disconnect has cleared.
DelayedMouseMove ==
    /\ moveTimer /\ conn # "disconnected"
    /\ LET s == SendMouse([PointerState EXCEPT !.timer = FALSE], mousePos)
       IN moveTimer' = s.timer /\ guestPointer' = s.guest
    /\ UNCHANGED <<mask, mousePos, lastPos, mouse>> /\ SameUser

MouseNext == MouseCrosses \/ MouseMoves \/ MousePressed \/ MouseReleased \/ HandleWheel \/ DelayedMouseMove

-----------------------------------------------------------------------------
\* Gestures: RFB._handleGesture and _handleTapEvent, for an event of a gesture
\* at p. A tap is a click, a drag and a long press hold a button, two fingers
\* turn the wheel, and a pinch turns it with Ctrl down.

TapButton == [onetap |-> "left", twotap |-> "right", threetap |-> "middle"]
HoldButton == [drag |-> "left", longpress |-> "right"]

GestureStep(s, type, g, p, soon, wheel) ==
    LET moved == HandleMouseMove(s, p, soon)
    IN CASE type = "start" /\ g \in DOMAIN TapButton -> Click(moved, p, TapButton[g])
         [] type = "start" /\ g \in DOMAIN HoldButton -> ButtonDown(moved, p, HoldButton[g])
         [] type = "end" /\ g \in DOMAIN HoldButton -> ButtonUp(moved, p, HoldButton[g])
         [] type = "move" /\ g \in DOMAIN HoldButton -> moved
         [] type = "start" /\ g \in {"twodrag", "pinch"} -> moved
         [] type = "move" /\ g \in {"twodrag", "pinch"} -> WheelClick(moved, p, wheel)
         [] OTHER -> s

\* RFB._handleKeyEvent without the keyboard. It leaves out the lock, which is
\* then taken for another than the guest's.
PinchKey(s, down) ==
    LET e == Key("ControlLeft", "ControlLeft", down, IF s.remote = NoSym THEN NoSym ELSE ~s.remote)
    IN OnKeyEvent(Overruling(s, e), e)

\* Faulty: Ctrl goes up only if it did not go down.
PinchKeysStuck(s, type, g, wheel) ==
    IF type # "move" \/ g # "pinch" THEN s ELSE PinchKey(s, wheel # "none")

\* The keys of a pinch, which the keyboard knows nothing of: Ctrl goes up
\* whether or not it went down.
PinchKeys(s, type, g, wheel) ==
    IF type # "move" \/ g # "pinch" THEN s
    ELSE PinchKey(IF wheel = "none" THEN s ELSE PinchKey(s, TRUE), FALSE)

Wheels(g) ==
    {"none"} \cup IF g = "twodrag" THEN WheelButtons ELSE IF g = "pinch" THEN {"up", "down"} ELSE {}

\* The events of a gesture in one task, one or two. A drag starts where the fingers
\* came down and goes on where they are; one of two fingers stays where it began.
Gesture(types, g) ==
    \E at \in [DOMAIN types -> Positions], soon \in [DOMAIN types -> BOOLEAN], wheel \in Wheels(g) :
        LET first == GestureStep(PointerState, types[1], g, at[1], soon[1], wheel)
            typed == PinchKeys(State, types[1], g, wheel)
        IN /\ g \in {"twodrag", "pinch"} => \A i \in DOMAIN at : at[i] = at[1]
           /\ Does(IF Len(types) = 1 THEN first
                   ELSE GestureStep(first, types[2], g, at[2], soon[2], wheel))
           /\ Become(IF Len(types) = 1 THEN typed ELSE PinchKeys(typed, types[2], g, wheel))
           /\ UNCHANGED <<armed, keyboard, user, mouse>>

-----------------------------------------------------------------------------
PointerTypeOK ==
    /\ mask \subseteq MouseButtons \cup WheelButtons \cup {"middle"}
    /\ mousePos \in Positions /\ lastPos \in Positions
    /\ moveTimer \in BOOLEAN /\ captured \in BOOLEAN /\ over \in BOOLEAN
    /\ buttons \subseteq MouseButtons /\ lost \subseteq MouseButtons

=============================================================================
