------------------------------ MODULE Display -------------------------------
(***************************************************************************)
(* The screen of the console (display.js in novnc-rfb.js): a back buffer   *)
(* that is drawn on, a visible canvas it is copied to, and the render      *)
(* queue, in which everything waits as soon as an image is still being     *)
(* decoded by the browser.                                                 *)
(*                                                                         *)
(* An operation is what it draws: "want" is the unit of the stream the     *)
(* server means, "got" the unit whose bytes the operation holds.           *)
(***************************************************************************)
EXTENDS Integers, Sequences

VARIABLES
    renderQ,       \* Display._renderQ
    decoded,       \* images the browser has decoded
    broken,        \* images it cannot decode, or of other dimensions
    flushPromise,  \* Display._flushPromise # null
    executed,      \* what has been done, in order: the back buffer's content
    damage,        \* Display._damageBounds: ranks in executed not yet copied
    visible,       \* ranks in executed that the visible canvas shows
    issued         \* history variable: the operations handed over, in order

screen == <<executed, damage, visible>>
images == <<decoded, broken>>
display == <<renderQ, images, flushPromise, screen, issued>>

DrawKinds == {"fill", "copy", "blit", "view", "img", "void"}
Operations == [kind : DrawKinds \cup {"flip"}, want : Nat, got : Nat, queued : BOOLEAN]
Flip == [kind |-> "flip", want |-> 0, got |-> 0, queued |-> FALSE]

\* Display.pending
Pending == renderQ # <<>>

DisplayInit ==
    /\ renderQ = <<>> /\ decoded = {} /\ broken = {}
    /\ flushPromise = FALSE
    /\ executed = <<>> /\ damage = {} /\ visible = {}
    /\ issued = <<>>

\* What drawing unit w comes to. The bytes of a "view" are a window into the
\* receive queue: blitImage, when it has to queue them, copies from the start
\* of the array they are in, where the unit is that front names.
Draw(kind, w, front) ==
    [kind |-> kind, want |-> w, queued |-> Pending,
     got |-> IF kind = "view" /\ Pending THEN front ELSE w]

-----------------------------------------------------------------------------
IsFlip(op) == op.kind = "flip"

\* f is the place of the last flip of q, 0 when it has none.
LastFlip(q, f) ==
    /\ f \in 0 .. Len(q)
    /\ f > 0 => IsFlip(q[f])
    /\ \A i \in f + 1 .. Len(q) : ~IsFlip(q[i])

\* Faulty: a flip copies only the newest part of the damage.
ExecuteForgetfully(q) ==
    \E f \in 0 .. Len(q) :
        LET n == Len(executed) + Len(q)
        IN /\ LastFlip(q, f)
           /\ executed' = executed \o q
           /\ visible' = IF f = 0 THEN visible ELSE visible \cup {Len(executed) + f}
           /\ damage' = IF f = 0 THEN damage \cup (Len(executed) + 1 .. n) ELSE {}

\* Executes the operations of q: a draw changes the back buffer and adds to the
\* damage, a flip copies the damage there is by then to the visible canvas.
Execute(q) ==
    \E f \in 0 .. Len(q) :
        LET all    == damage \cup (Len(executed) + 1 .. Len(executed) + Len(q))
            copied == {r \in all : f > 0 /\ r <= Len(executed) + f}
        IN /\ LastFlip(q, f)
           /\ executed' = executed \o q
           /\ visible' = visible \cup copied
           /\ damage' = all \ copied

\* Faulty: draws at once although something waits in the queue.
HandOverAtOnce(op) ==
    /\ IF op.kind = "img" THEN renderQ' = Append(renderQ, op) /\ UNCHANGED screen
       ELSE Execute(<<op>>) /\ UNCHANGED renderQ
    /\ issued' = Append(issued, op)
    /\ UNCHANGED <<images, flushPromise>>

\* fillRect, copyImage, blitImage, flip and imageRect with _renderQPush: behind
\* anything that waits an operation waits too, and an image always does: it is
\* decoded in the background, and the scan of its push finds it incomplete.
HandOver(op) ==
    /\ IF Pending \/ op.kind = "img"
       THEN renderQ' = Append(renderQ, op) /\ UNCHANGED screen
       ELSE Execute(<<op>>) /\ UNCHANGED renderQ
    /\ issued' = Append(issued, op)
    /\ UNCHANGED <<images, flushPromise>>

\* Display.resize to a new size with viewportChangeSize, of a screen that is
\* not clipped: the visible canvas is cleared, all of it is damage, and it is
\* flipped, behind what waits.
ChangeSize ==
    /\ executed' = IF Pending THEN executed ELSE Append(executed, Flip)
    /\ visible' = IF Pending THEN {} ELSE DOMAIN executed'
    /\ damage' = IF Pending THEN DOMAIN executed ELSE {}
    /\ renderQ' = IF Pending THEN Append(renderQ, Flip) ELSE renderQ
    /\ issued' = Append(issued, Flip)
    /\ UNCHANGED <<images, flushPromise>>

-----------------------------------------------------------------------------
\* _scanRenderQ executes the first n operations of q when the images of done
\* are decoded: neither an image still being decoded nor one that came out
\* wrong lets anything pass, nor does a "void", a fill with undefined, which
\* throws out of the load event each time.
Blocks(op, done) == op.kind = "void" \/ (op.kind = "img" /\ op.want \notin done)
Scans(q, done, n) ==
    /\ n \in 0 .. Len(q)
    /\ \A i \in 1 .. n : ~Blocks(q[i], done)
    /\ n < Len(q) => Blocks(q[n + 1], done)

\* Images that are still being decoded.
Decoding == {renderQ[i].want : i \in {j \in DOMAIN renderQ : renderQ[j].kind = "img"}}
            \ (decoded \cup broken)

\* The load event of image w, and _resumeRenderQ when w is the head's. An empty
\* queue resolves the promise of flush.
ImageLoads(w) ==
    \E n \in 0 .. Len(renderQ) :
        /\ Scans(renderQ, decoded \cup {w}, n)
        /\ decoded' = decoded \cup {w}
        /\ Execute(SubSeq(renderQ, 1, n))
        /\ renderQ' = SubSeq(renderQ, n + 1, Len(renderQ))
        /\ flushPromise' = (flushPromise /\ renderQ' # <<>>)
        /\ UNCHANGED <<broken, issued>>

\* The browser gives up on image w, or finds another size than the rectangle's:
\* nobody listens to its error event.
ImageBreaks(w) ==
    /\ broken' = broken \cup {w}
    /\ UNCHANGED <<renderQ, decoded, flushPromise, screen, issued>>

-----------------------------------------------------------------------------
DisplayTypeOK ==
    /\ renderQ \in Seq(Operations)
    /\ executed \in Seq(Operations) /\ issued \in Seq(Operations)
    /\ decoded \subseteq Nat /\ broken \subseteq Nat
    /\ flushPromise \in BOOLEAN
    /\ damage \subseteq Nat /\ visible \subseteq Nat

\* Whatever waits for whichever image, everything is done in the order in which
\* the decoders asked for it: nothing is lost, doubled or overtaken in the
\* queue. A CopyRect copies what an earlier draw put there.
DrawnInOrder == executed \o renderQ = issued

\* The visible canvas is never caught between two flips: it shows everything
\* done up to one of them (or nothing, while a resize waits for its own).
FlippedWhole ==
    visible = {} \/ \E b \in DOMAIN executed : IsFlip(executed[b]) /\ visible = 1 .. b

=============================================================================
