------------------------------- MODULE Resize -------------------------------
(***************************************************************************)
(* The size of the guest's desktop and the scale of its picture follow the *)
(* size of the page (rfb.js, with scaleViewport and resizeSession as       *)
(* console-viewer.js sets them): an observer, an animation frame and a     *)
(* timer on one side, the server's answers on the other.                   *)
(***************************************************************************)
EXTENDS Connection, Sequences, SequencesExt

CONSTANTS
    Sizes,         \* bound: sizes of the page and of the desktop
    MaxChanges     \* bound: changes of size by the page, and by the server

ASSUME SizesAssumption == Sizes # {} /\ MaxChanges \in Nat

VARIABLES
    size,          \* the size of the screen element
    unseen,        \* the browser has a new size to tell the observer of
    expected,      \* RFB._expectedClientWidth and -Height
    frame,         \* an animation frame has been requested
    timer,         \* RFB._resizeTimeout
    settable,      \* RFB._supportsSetDesktopSize
    desktop,       \* RFB._fbWidth and _fbHeight
    scaled,        \* the screen and desktop sizes _updateScale last used
    wanted,        \* the last size asked of the server
    requests,      \* SetDesktopSize messages under way
    layouts,       \* ExtendedDesktopSize rectangles under way
    changes,       \* sizes changed so far
    ignored        \* history variable: the observer passed over a size that mattered

resizing == <<size, unseen, expected, frame, timer, settable, desktop, scaled, wanted,
              requests, layouts, changes, ignored>>

NoSize == "none"

\* As _resize leaves it in _negotiateServerInit; the page may have changed its
\* size while the session was being set up.
ResizeInit ==
    /\ size \in Sizes /\ desktop \in Sizes /\ settable = FALSE
    /\ expected = size /\ scaled = <<size, desktop>>
    /\ unseen \in BOOLEAN /\ frame \in BOOLEAN /\ timer \in BOOLEAN
    /\ wanted = NoSize /\ requests = <<>> /\ layouts = <<>>
    /\ changes = 0 /\ ignored = FALSE

\* _updateScale.
UpdateScale == scaled' = <<size, desktop'>>

\* _requestRemoteResize.
RequestRemoteResize ==
    /\ timer' = FALSE
    /\ IF settable' THEN wanted' = size /\ requests' = Append(requests, size)
       ELSE UNCHANGED <<wanted, requests>>

\* The window, or the page's layout, changes.
PageResizes ==
    /\ changes < MaxChanges /\ conn = "connected"
    /\ changes' = changes + 1
    /\ size' \in Sizes \ {size}
    /\ unseen' = TRUE
    /\ UNCHANGED <<expected, frame, timer, settable, desktop, scaled, wanted, requests,
                   layouts, ignored>>

\* The scale or the server is not what the page's size calls for, and nothing
\* is pending that would see to it.
Behind == (scaled # <<size, desktop>> /\ ~frame) \/ (wanted # size /\ ~timer)

\* Faulty: does not ask the server.
HandleResizeScaling ==
    /\ unseen /\ conn = "connected"
    /\ unseen' = FALSE
    /\ IF size = expected
       THEN ignored' = (ignored \/ Behind) /\ UNCHANGED <<frame, timer>>
       ELSE frame' = TRUE /\ ignored' = FALSE /\ UNCHANGED timer
    /\ UNCHANGED <<size, expected, settable, desktop, scaled, wanted, requests, layouts, changes>>

\* _handleResize: what comes last within half a second is asked for; a size like
\* that of the last change of the desktop is taken for its consequence.
HandleResize ==
    /\ unseen /\ conn = "connected"
    /\ unseen' = FALSE
    /\ IF size = expected
       THEN ignored' = (ignored \/ Behind) /\ UNCHANGED <<frame, timer>>
       ELSE frame' = TRUE /\ timer' = TRUE /\ ignored' = FALSE
    /\ UNCHANGED <<size, expected, settable, desktop, scaled, wanted, requests, layouts, changes>>

\* The animation frame: _updateClip, which changes nothing while the picture is
\* scaled, and _updateScale.
AnimationFrame ==
    /\ frame
    /\ frame' = FALSE
    /\ UNCHANGED desktop /\ UpdateScale
    /\ UNCHANGED <<size, unseen, expected, timer, settable, wanted, requests, layouts,
                   changes, ignored>>

\* The timer; a disconnect has cleared it.
ResizeTimeout ==
    /\ timer /\ conn = "connected"
    /\ UNCHANGED settable /\ RequestRemoteResize
    /\ UNCHANGED <<size, unseen, expected, frame, desktop, scaled, layouts, changes, ignored>>

\* _handleExtendedDesktopSize, with _resize unless it says that a request was
\* refused; the first one is when the client learns that it may ask.
HandleExtendedDesktopSize ==
    LET layout == Head(layouts)
        first  == ~settable
    IN /\ layouts # <<>> /\ conn = "connected"
       /\ layouts' = Tail(layouts)
       /\ settable' = TRUE
       /\ IF layout.accepted
          THEN desktop' = layout.size /\ UpdateScale /\ expected' = size
          ELSE UNCHANGED <<desktop, scaled, expected>>
       /\ IF first THEN RequestRemoteResize ELSE UNCHANGED <<timer, wanted, requests>>
       /\ UNCHANGED <<size, unseen, frame, changes, ignored>>

-----------------------------------------------------------------------------
\* The server: it answers requests, and may change the desktop by itself.

ServerAnswers ==
    /\ requests # <<>> /\ conn = "connected"
    /\ requests' = Tail(requests)
    /\ \E ok \in BOOLEAN :
          layouts' = Append(layouts, [accepted |-> ok, size |-> Head(requests)])
    /\ UNCHANGED <<size, unseen, expected, frame, timer, settable, desktop, scaled, wanted,
                   changes, ignored>>

ServerResizes ==
    /\ changes < MaxChanges /\ conn = "connected"
    /\ changes' = changes + 1
    /\ \E s \in Sizes : layouts' = Append(layouts, [accepted |-> TRUE, size |-> s])
    /\ UNCHANGED <<size, unseen, expected, frame, timer, settable, desktop, scaled, wanted,
                   requests, ignored>>

ResizeNext ==
    /\ PageResizes \/ HandleResize \/ AnimationFrame \/ ResizeTimeout
       \/ HandleExtendedDesktopSize \/ ServerAnswers \/ ServerResizes
    /\ UNCHANGED connection

-----------------------------------------------------------------------------
ResizeTypeOK ==
    /\ size \in Sizes /\ expected \in Sizes /\ desktop \in Sizes
    /\ scaled \in Sizes \X Sizes
    /\ wanted \in Sizes \cup {NoSize}
    /\ changes \in 0 .. MaxChanges
    /\ unseen \in BOOLEAN /\ frame \in BOOLEAN /\ timer \in BOOLEAN
    /\ settable \in BOOLEAN /\ ignored \in BOOLEAN

\* When nothing is pending, the picture is scaled from the desktop's size to the
\* page's, and the size last asked for, of a server that can be asked, is the
\* page's: whatever the order of observer, frame, timer and server. The
\* exception is a size that _handleResize took for the expected one, which is
\* not always that of the last scaling or of the last request.
SizeSettles ==
    conn = "connected" /\ ~unseen /\ ~frame /\ ~timer /\ ~ignored =>
        scaled = <<size, desktop>> /\ (settable => wanted = size)

=============================================================================
