------------------------------ MODULE Gestures ------------------------------
(***************************************************************************)
(* The gesture recognizer of a console (gesturehandler.js in novnc-rfb.js) *)
(* between the touches of a screen and the events Pointer acts on. Its     *)
(* state is the set of gestures that the touches may still become; one     *)
(* that is alone has been detected.                                        *)
(***************************************************************************)
EXTENDS Pointer

CONSTANTS
    Fingers        \* bound: touches at the same time

VARIABLES
    state,         \* GestureHandler._state, the bits as a set
    tracked,       \* GestureHandler._tracked
    ignoring,      \* GestureHandler._ignored
    waitingRelease, \* GestureHandler._waitingRelease
    longpress,     \* the timer of _longpressTimeoutId is pending
    twoTouchId,    \* GestureHandler._twoTouchTimeoutId # null
    twoTouch,      \* and its timer is pending
    fingers,       \* the touches that are on the screen
    threw          \* history variable: a handler has thrown

touching == <<state, tracked, ignoring, waitingRelease, longpress, twoTouchId, twoTouch,
              fingers, threw>>

Taps == {"onetap", "twotap", "threetap"}
InitState == Taps \cup {"drag", "longpress", "twodrag", "pinch"}

GesturesInit ==
    /\ state = InitState /\ tracked = <<>> /\ ignoring = {}
    /\ waitingRelease = FALSE /\ longpress = FALSE /\ twoTouchId = FALSE /\ twoTouch = FALSE
    /\ fingers = {} /\ threw = FALSE

Active(touches) == {touches[i].id : i \in {j \in DOMAIN touches : touches[j].active}}

\* GestureHandler._hasDetectedGesture
Detected(s, touches) ==
    /\ Cardinality(s) = 1
    /\ s \subseteq Taps => Active(touches) = {}

TheGesture(s) == CHOOSE g \in s : TRUE
NoEvent == UNCHANGED <<client, guest, overruled, pointing, keyboard, user>>

\* _pushEvent, for each of these types.
Pushes(types, s) == Gesture(types, TheGesture(s))

SameTouches == UNCHANGED <<connection, tracked, ignoring, waitingRelease, fingers>>

-----------------------------------------------------------------------------
\* GestureHandler._touchStart. Once a gesture is decided or given up, or too
\* late, or when a finger has already left, a touch is ignored.
TouchStart(id) ==
    LET n == Len(tracked) + 1
    IN /\ Attached /\ id \notin fingers
       /\ fingers' = fingers \cup {id}
       /\ \E late250 \in BOOLEAN :
             IF Detected(state, tracked) \/ state = {}
             THEN ignoring' = ignoring \cup {id} /\ UNCHANGED <<state, tracked, longpress>>
             ELSE IF (tracked # <<>> /\ late250) \/ waitingRelease
             THEN /\ state' = {} /\ ignoring' = ignoring \cup {id}
                  /\ UNCHANGED <<tracked, longpress>>
             ELSE /\ tracked' = Append(tracked, [id |-> id, active |-> TRUE, far |-> FALSE])
                  /\ state' = CASE n = 1 -> state
                                [] n = 2 -> state \ {"onetap", "drag", "longpress"}
                                [] n = 3 -> state \ {"twotap", "twodrag", "pinch"}
                                [] OTHER -> {}
                  /\ longpress' = (n = 1 \/ (longpress /\ n > 2))
                  /\ UNCHANGED ignoring
       /\ UNCHANGED <<connection, waitingRelease, twoTouchId, twoTouch, threw>> /\ NoEvent

\* GestureHandler._touchMove, of a gesture under way. A touch that has left moves
\* when a new one comes with its identifier.
TouchMoveDetected(i) ==
    /\ Attached /\ tracked[i].id \in fingers /\ Detected(state, tracked)
    /\ Pushes(<<"move">>, state)
    /\ SameTouches /\ UNCHANGED <<state, longpress, twoTouchId, twoTouch, threw>>

\* Before there is one: the touch is now near or far from where it began. Two
\* that are both far go the same way, or not.
TouchMove(i, far, sameWay) ==
    LET n     == Len(tracked)
        moved == state \ (Taps \cup {"longpress"} \cup (IF n = 1 THEN {} ELSE {"drag"})
                                 \cup (IF n = 2 THEN {} ELSE {"twodrag", "pinch"}))
        both  == n = 2 /\ tracked[3 - i].far
        left  == IF both THEN moved \ {IF sameWay THEN "pinch" ELSE "twodrag"} ELSE moved
    IN /\ Attached /\ tracked[i].id \in fingers /\ ~Detected(state, tracked)
       /\ tracked' = [tracked EXCEPT ![i].far = far]
       /\ IF ~far THEN UNCHANGED <<state, longpress, twoTouchId, twoTouch>> /\ NoEvent
          ELSE /\ state' = left /\ longpress' = FALSE
               /\ twoTouchId' = IF n # 2 THEN twoTouchId ELSE ~both
               /\ twoTouch' = IF n # 2 THEN twoTouch ELSE ~both /\ (twoTouch \/ ~twoTouchId)
               /\ IF Detected(left, tracked) THEN Pushes(<<"start", "move">>, left) ELSE NoEvent
       /\ UNCHANGED <<connection, ignoring, waitingRelease, fingers, threw>>

\* GestureHandler._touchEnd of a touch that was ignored.
TouchEndIgnored(id) ==
    /\ Attached /\ id \in ignoring
    /\ fingers' = fingers \ {id}
    /\ ignoring' = ignoring \ {id}
    /\ LET last == ignoring' = {} /\ tracked = <<>>
       IN /\ state' = IF last THEN InitState ELSE state
          /\ waitingRelease' = (waitingRelease /\ ~last)
    /\ UNCHANGED <<connection, tracked, longpress, twoTouchId, twoTouch, threw>> /\ NoEvent

\* What _touchEnd has when it has looked at a gesture that was not detected: it
\* can only be a tap now, if it has not moved.
Released ==
    LET given   == IF twoTouchId THEN {} ELSE state
        still   == given \ {"drag", "longpress", "twodrag", "pinch"}
    IN IF waitingRelease THEN still
       ELSE CASE Len(tracked) = 1 -> still \ {"twotap", "threetap"}
              [] Len(tracked) = 2 -> still \ {"onetap", "threetap"}
              [] OTHER -> still

\* The rest of the tracked touches are ignored, and with the last one it all
\* starts over.
AllOver(id) ==
    /\ ignoring' = (ignoring \cup Active(tracked)) \ {id}
    /\ tracked' = <<>>
    /\ state' = IF ignoring' = {} THEN InitState ELSE {}

\* GestureHandler._touchEnd of a tracked touch, of a gesture under way: its end.
\* Two fingers of which one left before the gesture was known begin it again,
\* unless the second one took too long.
TouchEndDetected(i, slow) ==
    /\ Attached /\ tracked[i].active /\ Detected(state, tracked)
    /\ fingers' = fingers \ {tracked[i].id}
    /\ AllOver(tracked[i].id)
    /\ IF ~waitingRelease THEN Pushes(<<"end">>, state)
       ELSE IF slow THEN NoEvent ELSE Pushes(<<"start", "end">>, state)
    /\ waitingRelease' = (waitingRelease /\ ignoring' # {})
    /\ UNCHANGED <<connection, longpress, twoTouchId, twoTouch, threw>>

\* Of taps: the gesture is known when the last touch is lifted, unless that or
\* the tap took too long.
TouchEnd(i, slow) ==
    LET left  == IF slow THEN {} ELSE Released
        after == [tracked EXCEPT ![i].active = FALSE]
    IN /\ Attached /\ tracked[i].active /\ ~Detected(state, tracked)
       /\ fingers' = fingers \ {tracked[i].id}
       /\ longpress' = FALSE
       /\ twoTouchId' = FALSE /\ twoTouch' = FALSE
       /\ IF left # {} /\ ~Detected(left, after)
          THEN /\ state' = left /\ tracked' = after /\ waitingRelease' = TRUE
               /\ UNCHANGED ignoring /\ NoEvent
          ELSE /\ ignoring' = (ignoring \cup Active(after)) \ {tracked[i].id}
               /\ tracked' = <<>>
               /\ state' = IF ignoring' = {} THEN InitState ELSE {}
               /\ waitingRelease' = (ignoring' # {})
               /\ IF left # {} THEN Pushes(<<"start", "end">>, left) ELSE NoEvent
       /\ UNCHANGED <<connection, threw>>

\* The timers. A gesture that was given up may come back with them.
LongpressTimeout ==
    /\ Attached /\ longpress /\ longpress' = FALSE
    /\ IF Detected(state, tracked) \/ tracked = <<>>
       THEN threw' = TRUE /\ UNCHANGED state /\ NoEvent
       ELSE state' = {"longpress"} /\ Pushes(<<"start">>, state') /\ UNCHANGED threw
    /\ SameTouches /\ UNCHANGED <<twoTouchId, twoTouch>>

\* Two touches, or with a third one that came too late to count.
TwoTouchTimeout ==
    /\ Attached /\ twoTouch /\ twoTouch' = FALSE
    /\ IF tracked = <<>> THEN threw' = TRUE /\ UNCHANGED state /\ NoEvent
       ELSE /\ state' \in {{"pinch"}, {"twodrag"}}
            /\ Pushes(<<"start", "move">>, state') /\ UNCHANGED threw
    /\ SameTouches /\ UNCHANGED <<longpress, twoTouchId>>

GesturesNext ==
    \/ \E id \in Fingers : TouchStart(id) \/ TouchEndIgnored(id)
    \/ \E i \in DOMAIN tracked :
          \/ TouchMoveDetected(i) \/ \E far, sameWay \in BOOLEAN : TouchMove(i, far, sameWay)
          \/ \E slow \in BOOLEAN : TouchEndDetected(i, slow) \/ TouchEnd(i, slow)
    \/ LongpressTimeout \/ TwoTouchTimeout

-----------------------------------------------------------------------------
GesturesTypeOK ==
    /\ state \subseteq InitState /\ ignoring \subseteq fingers /\ fingers \subseteq Fingers
    /\ waitingRelease \in BOOLEAN /\ longpress \in BOOLEAN /\ threw \in BOOLEAN
    /\ twoTouch => twoTouchId

\* What a gesture under way holds down.
GestureHolds ==
    {HoldButton[g] : g \in IF Detected(state, tracked) THEN state \cap DOMAIN HoldButton ELSE {}}

\* Whatever fingers come and go in whatever order, and whichever timer fires in
\* between: no timer finds a gesture that it cannot be for, and when the last
\* finger has left, the next one starts a new gesture.
GesturesStartOver ==
    /\ ~threw
    /\ Attached /\ fingers = {} =>
          state = InitState /\ tracked = <<>> /\ ~waitingRelease /\ ~longpress /\ ~twoTouch

\* And the guest's pointer is where the last event was, with the buttons the
\* client means, unless a move still waits for its timer; and no button stays
\* down that neither the mouse nor a gesture under way holds, but one that was
\* let go of off the canvas, with no capture since another one went up.
PointerAgrees ==
    /\ conn = "connected" /\ guestPointer # <<>> /\ ~moveTimer => guestPointer = <<lastPos, mask>>
    /\ Attached => mask \subseteq buttons \cup lost \cup GestureHolds
    /\ GesturesStartOver

=============================================================================
