---------------------------- MODULE FramesProofs -----------------------------
(***************************************************************************)
(* For every stream that keeps to the protocol, every way the network cuts *)
(* it and every size of the receive queue: the queue loses and reorders    *)
(* nothing, the screen is drawn in the order of the stream, and what it    *)
(* shows ends at a flip (IInv); the console takes nothing for another      *)
(* (SyncInv), draws what the server means, shows whole updates only, and   *)
(* does not stop asking for them.                                          *)
(***************************************************************************)
EXTENDS Frames, SequenceTheorems, TLAPS

\* What the console relies on in a decoder's step.
StepOK(s) ==
    /\ Len(s.reads) \in Nat
    /\ s.draws \in DrawKinds \cup {NoDraw}
    /\ s.draws # NoDraw => Len(s.reads) >= 1
    /\ s.next.left \in Nat

LEMMA Kinds == /\ "fill" \in DrawKinds /\ "copy" \in DrawKinds /\ "blit" \in DrawKinds
               /\ "view" \in DrawKinds /\ "img" \in DrawKinds /\ "void" \in DrawKinds
BY DEF DrawKinds

LEMMA Lengths == \A a, b : Len(<<a>>) = 1 /\ Len(<<a, b>>) = 2
OBVIOUS

LEMMA StepIsOK ==
    ASSUME NEW reads, NEW draws, NEW next,
           Len(reads) \in Nat, draws \in DrawKinds \cup {NoDraw}, next.left \in Nat,
           draws # NoDraw => Len(reads) >= 1
    PROVE  StepOK(Step(reads, draws, next))
BY DEF Step, StepOK

LEMMA LastStepIsOK ==
    ASSUME NEW reads, NEW draws, Len(reads) \in Nat, draws \in DrawKinds \cup {NoDraw},
           draws # NoDraw => Len(reads) >= 1
    PROVE  StepOK(LastStep(reads, draws))
BY DEF LastStep, StepOK, Start

LEMMA ThrowIsOK ==
    ASSUME NEW reads, Len(reads) \in Nat PROVE StepOK(Throw(reads))
BY DEF Throw, StepOK, Start

LEMMA PieceIsOK ==
    ASSUME NEW reads, NEW draws, NEW at, NEW left \in Nat,
           Len(reads) \in Nat, draws \in DrawKinds \cup {NoDraw},
           draws # NoDraw => Len(reads) >= 1
    PROVE  StepOK(Piece(reads, draws, at, left))
<1>1. At(at, left).left \in Nat BY DEF At
<1> QED BY <1>1, StepIsOK, LastStepIsOK DEF Piece

LEMMA PiecesAreOK ==
    ASSUME NEW a, NEW b, NEW draws \in DrawKinds \cup {NoDraw}, NEW at, NEW left \in Nat
    PROVE  StepOK(Piece(<<a>>, draws, at, left)) /\ StepOK(Piece(<<a, b>>, draws, at, left))
<1>1. Len(<<a>>) = 1 /\ Len(<<a, b>>) = 2 BY Lengths
<1>2. StepOK(Piece(<<a>>, draws, at, left)) BY <1>1, PieceIsOK
<1>3. StepOK(Piece(<<a, b>>, draws, at, left)) BY <1>1, PieceIsOK
<1> QED BY <1>2, <1>3

LEMMA RawIsOK ==
    ASSUME NEW r, NEW d, NEW u, r.n \in Nat, d.left \in Nat
    PROVE  StepOK(Raw(r, d, u))
<1>1. CASE r.n = 0 BY <1>1, LastStepIsOK DEF Raw
<1>2. CASE r.n # 0
  <2>1. (IF d.left = 0 THEN r.n ELSE d.left) - 1 \in Nat BY <1>2
  <2> QED BY <1>2, <2>1, PiecesAreOK, Kinds DEF Raw
<1> QED BY <1>1, <1>2

LEMMA CopyRectIsOK ==
    ASSUME NEW r, NEW d, NEW u PROVE StepOK(CopyRect(r, d, u))
<1>1. Len(<<"source">>) = 1 BY Lengths
<1>2. StepOK(LastStep(<<"source">>, NoDraw)) BY <1>1, LastStepIsOK
<1>3. StepOK(LastStep(<<"source">>, "copy")) BY <1>1, LastStepIsOK, Kinds
<1> QED BY <1>2, <1>3 DEF CopyRect

LEMMA RREIsOK ==
    ASSUME NEW r, NEW d, NEW u, u.n \in Nat, d.left \in Nat
    PROVE  StepOK(RRE(r, d, u))
<1>1. CASE d.left = 0 BY <1>1, PiecesAreOK, Kinds DEF RRE
<1>2. CASE d.left # 0
  <2>1. d.left - 1 \in Nat BY <1>2
  <2>2. RRE(r, d, u) = Piece(<<"subrect">>, "fill", "subrects", d.left - 1)
    BY <1>2 DEF RRE
  <2> QED BY <2>1, <2>2, PiecesAreOK, Kinds
<1> QED BY <1>1, <1>2

LEMMA HextileTileIsOK ==
    ASSUME NEW r, NEW d, NEW m, NEW u, r.n \in Nat, r.n # 0, d.left \in Nat
    PROVE  StepOK(HextileTile(r, d, m, u))
<1> DEFINE left == IF d.left = 0 THEN r.n - 1 ELSE d.left - 1
           blank == IF "raw" \in m THEN NoDraw ELSE IF "colours" \in m THEN "fill" ELSE "void"
<1>1. left \in Nat OBVIOUS
<1>2. blank \in DrawKinds \cup {NoDraw} BY Kinds
<1> HIDE DEF left, blank
<1>3. /\ StepOK(Piece(<<"tile">>, blank, "tiles", left))
      /\ StepOK(Piece(<<"tile", "body">>, "view", "tiles", left))
      /\ StepOK(Piece(<<"tile", "body">>, "blit", "tiles", left))
      /\ StepOK(Throw(<<"tile">>)) /\ StepOK(Throw(<<"tile", "body">>))
  BY <1>1, <1>2, ThrowIsOK, PiecesAreOK, Kinds
<1> QED BY <1>3 DEF HextileTile, left, blank

LEMMA HextileIsOK ==
    ASSUME NEW r, NEW d, NEW m, NEW u, r.n \in Nat, d.left \in Nat
    PROVE  StepOK(Hextile(r, d, m, u))
BY HextileTileIsOK, LastStepIsOK DEF Hextile

LEMMA TightFilterIsOK ==
    ASSUME NEW m, NEW u PROVE StepOK(TightFilter(m, u))
<1>1. \A a : At(a, 0).left \in Nat BY DEF At
<1>2. \A a : StepOK(Step(<<"filter">>, NoDraw, At(a, 0))) BY <1>1, StepIsOK
<1>3. StepOK(Throw(<<"filter">>)) BY ThrowIsOK
<1> QED BY <1>2, <1>3 DEF TightFilter

LEMMA TightIsOK ==
    ASSUME NEW r, NEW d, NEW m, NEW u PROVE StepOK(Tight(r, d, m, u))
<1>1. \A a : At(a, 0).left \in Nat BY DEF At
<1>2. \A a : /\ StepOK(Step(<<"ctl">>, NoDraw, At(a, 0)))
             /\ StepOK(Step(<<"length">>, NoDraw, At(a, 0)))
             /\ StepOK(Step(<<"palette">>, NoDraw, At(a, 0)))
  BY <1>1, StepIsOK
<1>3. /\ StepOK(LastStep(<<>>, NoDraw))
      /\ StepOK(LastStep(<<"pixels">>, "blit")) /\ StepOK(LastStep(<<"pixels">>, "fill"))
      /\ StepOK(LastStep(<<"block">>, "blit"))
      /\ StepOK(LastStep(<<"image">>, "img")) /\ StepOK(LastStep(<<"image">>, NoDraw))
      /\ StepOK(Throw(<<>>))
  BY LastStepIsOK, ThrowIsOK, Kinds
<1>4. StepOK(TightBody(r)) BY <1>2, <1>3 DEF TightBody
<1>5. StepOK(TightFilter(m, u)) BY TightFilterIsOK
<1> QED BY <1>2, <1>3, <1>4, <1>5 DEF Tight

LEMMA TightPNGIsOK ==
    ASSUME NEW r, NEW d, NEW m, NEW u PROVE StepOK(TightPNG(r, d, m, u))
<1>1. At("image", 0).left \in Nat BY DEF At
<1>2. StepOK(Step(<<"length">>, NoDraw, At("image", 0))) BY <1>1, StepIsOK
<1>3. StepOK(Throw(<<>>)) BY ThrowIsOK
<1> QED BY <1>2, <1>3, TightIsOK DEF TightPNG

LEMMA ZRLEIsOK ==
    ASSUME NEW r, NEW d, NEW u PROVE StepOK(ZRLE(r, d, u))
<1>1. At("block", 0).left \in Nat BY DEF At
<1>2. StepOK(Step(<<"length">>, NoDraw, At("block", 0))) BY <1>1, StepIsOK
<1>3. StepOK(Throw(<<"block">>)) BY ThrowIsOK
<1>4. StepOK(LastStep(<<"block">>, "blit")) /\ StepOK(LastStep(<<"block">>, NoDraw))
  BY LastStepIsOK, Kinds
<1> QED BY <1>2, <1>3, <1>4 DEF ZRLE

LEMMA JPEGIsOK ==
    ASSUME NEW r, NEW d, NEW u PROVE StepOK(JPEG(r, d, u))
<1>1. At("segments", 0).left \in Nat BY DEF At
<1>2. StepOK(Step(<<"segment">>, NoDraw, At("segments", 0))) BY <1>1, StepIsOK
<1>3. StepOK(Throw(<<"segment">>)) BY ThrowIsOK
<1>4. StepOK(LastStep(<<"segment">>, "img")) /\ StepOK(LastStep(<<"segment">>, NoDraw))
  BY LastStepIsOK, Kinds
<1> QED BY <1>2, <1>3, <1>4 DEF JPEG

LEMMA PseudoIsOK ==
    ASSUME NEW u
    PROVE  /\ StepOK(Cursor) /\ StepOK(VMwareCursor(u)) /\ StepOK(DesktopName)
           /\ StepOK(LedState) /\ StepOK(DesktopLayout) /\ StepOK(Bare)
<1>1. StepOK(GiveUp(<<"cursortype">>)) BY DEF GiveUp, StepOK, Start
<1> QED
  BY <1>1, LastStepIsOK
  DEF Cursor, VMwareCursor, DesktopName, LedState, DesktopLayout, Bare

\* Every decoder's step has a number of units to read, draws something there
\* is, and leaves the decoder with a number of pieces to go.
LEMMA DecodeRectIsOK ==
    ASSUME NEW r, NEW d, NEW m, NEW u, r.n \in Nat, d.left \in Nat, u.n \in Nat
    PROVE  StepOK(DecodeRect(r, d, m, u))
<1>1. StepOK(Throw(<<>>)) BY ThrowIsOK
<1> QED
  BY <1>1, RawIsOK, CopyRectIsOK, RREIsOK, HextileIsOK, TightIsOK, TightPNGIsOK,
     ZRLEIsOK, JPEGIsOK, PseudoIsOK DEF DecodeRect

LEMMA RemembersKeepsakes ==
    ASSUME NEW r, NEW d, NEW m \in SUBSET Keepsakes, NEW u
    PROVE  Remembers(r, d, m, u) \subseteq Keepsakes
<1>1. {"raw"} \subseteq Keepsakes /\ {"colours"} \subseteq Keepsakes
      /\ {"palette"} \subseteq Keepsakes
  BY DEF Keepsakes
<1>2. \A k \in {"raw", "colours", "palette"} :
         m \cup {k} \subseteq Keepsakes /\ (m \ {"raw"}) \cup {k} \subseteq Keepsakes
         /\ m \ {k} \subseteq Keepsakes
  BY <1>1
<1> QED BY <1>2 DEF Remembers

-----------------------------------------------------------------------------
\* The receive queue.

\* Every slot up to rQlen still holds its unit, the ones already read too: this
\* is what lets a handler put back what it took.
Stored ==
    /\ rQlen <= arrived
    /\ taken = arrived - rQlen + rQi
    /\ \A s \in 0 .. rQlen - 1 : rQ[s] = arrived - rQlen + 1 + s

QueueInv == QueueTypeOK /\ Stored

LEMMA StoredIsKept == QueueInv => StreamKept
BY DEF QueueInv, QueueTypeOK, Stored, StreamKept, Avail, Peek

LEMMA QueueInitially == QueueInit => QueueInv
<1> SUFFICES ASSUME QueueInit PROVE QueueInv OBVIOUS
<1>1. /\ rQ \in [Slots -> Nat] /\ rQi = 0 /\ rQlen = 0 /\ rQbufferSize = BufferSize
      /\ overrun = FALSE /\ arrived = 0 /\ taken = 0
  BY DEF QueueInit, NoUnit
<1>2. BufferSize \in 1 .. MaxGrow BY BufferAssumption
<1>3. QueueTypeOK
  <2>1. rQbufferSize \in 1 .. MaxGrow BY <1>1, <1>2
  <2>2. rQlen <= rQbufferSize BY <1>1, BufferAssumption
  <2>3. rQi \in Nat /\ rQlen \in Nat /\ rQi <= rQlen BY <1>1
  <2>4. overrun \in BOOLEAN /\ arrived \in Nat /\ taken \in Nat BY <1>1
  <2> QED BY <1>1, <2>1, <2>2, <2>3, <2>4 DEF QueueTypeOK
<1>4. Stored BY <1>1 DEF Stored
<1> QED BY <1>3, <1>4 DEF QueueInv

LEMMA ShiftKeepsQueue ==
    ASSUME QueueInv, NEW n \in Nat, n <= Avail, RQshift(n)
    PROVE  QueueInv'
BY DEF QueueInv, QueueTypeOK, Stored, Avail, RQshift

LEMMA GobackKeepsQueue ==
    ASSUME QueueInv, NEW n \in Nat, RQgoback(n)
    PROVE  QueueInv'
BY DEF QueueInv, QueueTypeOK, Stored, Avail, RQgoback

LEMMA Multiple == \A a \in Nat, h \in Nat \ {0} : a * h \in Nat /\ a <= a * h
<1> TAKE a \in Nat, h \in Nat \ {0}
<1>1. h - 1 \in Nat /\ h = (h - 1) + 1 OBVIOUS
<1>2. a * h = a * (h - 1) + a BY <1>1
<1>3. a * (h - 1) \in Nat BY <1>1
<1> QED BY <1>2, <1>3

\* What _recvMessage starts from, an empty queue being put back to slot 0.
Restarted(from, len) ==
    /\ from = IF rQlen = rQi THEN 0 ELSE rQi
    /\ len = IF rQlen = rQi THEN 0 ELSE rQlen

LEMMA FitsKeepsQueue ==
    ASSUME QueueInv, NEW n \in Nat, NEW from, NEW len, Restarted(from, len),
           Fits(from, len, n)
    PROVE  QueueInv'
<1>1. /\ from \in Nat /\ len \in Nat /\ from <= len /\ len + n <= rQbufferSize
      /\ rQbufferSize \in 1 .. MaxGrow /\ MaxGrow \in Nat
      /\ arrived \in Nat /\ len <= arrived
  BY BufferAssumption DEF QueueInv, QueueTypeOK, Stored, Restarted, Fits
<1>2. rQ' = Written(rQ, len, n) BY DEF Fits
<1>3. \A s \in Slots : rQ'[s] = IF len <= s /\ s < len + n THEN arrived + 1 + s - len ELSE rQ[s]
  BY <1>2 DEF Written
<1>4. rQ' \in [Slots -> Nat]
  BY <1>1, <1>2 DEF Written, Slots, QueueInv, QueueTypeOK
<1>5. rQlen' = len + n /\ rQi' = from /\ arrived' = arrived + n BY DEF Fits
<1>6. rQbufferSize' = rQbufferSize /\ overrun' = overrun /\ taken' = taken BY DEF Fits
<1>7. QueueTypeOK'
  BY <1>1, <1>4, <1>5, <1>6 DEF QueueInv, QueueTypeOK
<1>8. rQlen' <= arrived' /\ taken' = arrived' - rQlen' + rQi'
  BY <1>1, <1>5, <1>6 DEF QueueInv, QueueTypeOK, Stored, Restarted
<1>9. ASSUME NEW s \in 0 .. rQlen' - 1
      PROVE  rQ'[s] = arrived' - rQlen' + 1 + s
  <2>1. s \in Slots BY <1>1, <1>5 DEF Slots
  <2>2. CASE s < len
    BY <1>1, <1>3, <1>5, <2>1, <2>2 DEF QueueInv, QueueTypeOK, Stored, Restarted
  <2>3. CASE len <= s
    BY <1>1, <1>3, <1>5, <2>1, <2>3
  <2> QED BY <1>1, <2>2, <2>3
<1> QED BY <1>7, <1>8, <1>9 DEF QueueInv, Stored

LEMMA ExpandCompactKeepsQueue ==
    ASSUME QueueInv, NEW n \in Nat, NEW from, NEW len, Restarted(from, len),
           ExpandCompact(from, len, n)
    PROVE  QueueInv'
<1> DEFINE unread == len - from
           size == MinOf(Grown(n, unread), MaxGrow)
           fresh == Resizes(n, unread)
<1>1. /\ from \in Nat /\ len \in Nat /\ from <= len /\ len <= rQbufferSize
      /\ rQbufferSize \in 1 .. MaxGrow /\ MaxGrow \in Nat
      /\ arrived \in Nat /\ len <= arrived /\ unread \in Nat
  BY BufferAssumption DEF QueueInv, QueueTypeOK, Stored, Restarted
<1>2. unread + n <= size /\ size \in 1 .. MaxGrow
  <2>1. Required(n, unread) \in Nat /\ unread + n <= Required(n, unread)
    <3>1. unread + n \in Nat BY <1>1
    <3> QED BY <3>1, Multiple, BufferAssumption DEF Required
  <2>2. Grown(n, unread) \in Nat /\ unread + n <= Grown(n, unread)
    BY <1>1, <2>1 DEF Grown, Resizes, MaxOf
  <2>3. rQbufferSize <= Grown(n, unread)
    BY <1>1, <2>1 DEF Grown, Resizes, MaxOf
  <2>4. Grown(n, unread) <= MaxGrow \/ MaxGrow - unread >= n BY DEF ExpandCompact
  <2> QED BY <1>1, <2>2, <2>3, <2>4 DEF MinOf
<1>3. rQ' = Written(Compacted(from, len, fresh), unread, n) BY DEF ExpandCompact
<1>4. \A s \in Slots : rQ'[s] = IF unread <= s /\ s < unread + n
                                THEN arrived + 1 + s - unread
                                ELSE Compacted(from, len, fresh)[s]
  BY <1>3 DEF Written
<1>5. \A s \in Slots : Compacted(from, len, fresh)[s] =
          IF s < unread THEN rQ[from + s] ELSE IF fresh THEN NoUnit ELSE rQ[s]
  BY DEF Compacted
<1>6. \A s \in Slots : s < unread => from + s \in Slots BY <1>1 DEF Slots
<1>7. \A s \in Slots : Compacted(from, len, fresh)[s] \in Nat
  BY <1>5, <1>6 DEF QueueInv, QueueTypeOK, NoUnit
<1>8. rQ' \in [Slots -> Nat]
  <2>1. \A s \in Slots : rQ'[s] \in Nat
    BY <1>1, <1>4, <1>7 DEF Slots
  <2> QED BY <1>3, <2>1 DEF Written
<1>9. /\ rQlen' = unread + n /\ rQi' = 0 /\ arrived' = arrived + n
      /\ rQbufferSize' = size /\ overrun' = overrun /\ taken' = taken
  BY DEF ExpandCompact
<1>10. QueueTypeOK'
  <2> HIDE DEF unread, size
  <2> QED BY <1>1, <1>2, <1>8, <1>9 DEF QueueInv, QueueTypeOK
<1>11. rQlen' <= arrived' /\ taken' = arrived' - rQlen' + rQi'
  BY <1>1, <1>9 DEF QueueInv, QueueTypeOK, Stored, Restarted
<1>12. ASSUME NEW s \in 0 .. rQlen' - 1
       PROVE  rQ'[s] = arrived' - rQlen' + 1 + s
  <2>1. s \in Slots
    <3> HIDE DEF unread, size
    <3> QED BY <1>1, <1>2, <1>9 DEF Slots
  <2>2. CASE s < unread
    <3>1. rQ'[s] = rQ[from + s] BY <1>1, <1>4, <1>5, <2>1, <2>2
    <3>2. from = rQi /\ len = rQlen BY <1>1, <2>2, <2>1 DEF Restarted, Slots
    <3>3. from + s \in 0 .. rQlen - 1 BY <1>1, <2>1, <2>2, <3>2 DEF Slots
    <3>4. rQ[from + s] = arrived - rQlen + 1 + (from + s)
      BY <3>3 DEF QueueInv, Stored
    <3> QED BY <1>1, <1>9, <2>1, <3>1, <3>2, <3>4 DEF Slots
  <2>3. CASE unread <= s
    BY <1>1, <1>4, <1>9, <2>1, <2>3 DEF Slots
  <2> QED BY <1>1, <2>1, <2>2, <2>3 DEF Slots
<1> QED BY <1>10, <1>11, <1>12 DEF QueueInv, Stored

LEMMA OverrunKeepsQueue ==
    ASSUME QueueInv, NEW n \in Nat, NEW from, NEW len, Restarted(from, len),
           Overrun(from, len, n)
    PROVE  QueueInv'
<1>1. /\ from \in Nat /\ len \in Nat /\ from <= len /\ len <= rQbufferSize
      /\ rQbufferSize \in 1 .. MaxGrow /\ MaxGrow \in Nat /\ MaxGrow >= 1
  BY BufferAssumption DEF QueueInv, QueueTypeOK, Restarted
<1>2. /\ rQi' = from /\ rQlen' = len /\ rQbufferSize' = MaxGrow /\ overrun' = TRUE
      /\ rQ' = rQ /\ arrived' = arrived /\ taken' = taken
  BY DEF Overrun
<1>3. QueueTypeOK' BY <1>1, <1>2 DEF QueueInv, QueueTypeOK
<1>4. Stored' BY <1>1, <1>2 DEF QueueInv, QueueTypeOK, Stored, Restarted
<1> QED BY <1>3, <1>4 DEF QueueInv

LEMMA RecvKeepsQueue ==
    ASSUME QueueInv, NEW n \in Nat, RecvMessage(n)
    PROVE  QueueInv'
<1> DEFINE from == IF rQlen = rQi THEN 0 ELSE rQi
           len == IF rQlen = rQi THEN 0 ELSE rQlen
<1>1. Restarted(from, len) BY DEF Restarted
<1>2. Fits(from, len, n) \/ ExpandCompact(from, len, n) \/ Overrun(from, len, n)
  BY DEF RecvMessage
<1> HIDE DEF from, len
<1> QED BY <1>1, <1>2, FitsKeepsQueue, ExpandCompactKeepsQueue, OverrunKeepsQueue

-----------------------------------------------------------------------------
\* The screen.

\* What is visible and what is damaged together are everything done, and the
\* border between them is a flip.
Shown(b) ==
    /\ b \in 0 .. Len(executed)
    /\ b > 0 => IsFlip(executed[b])
    /\ visible = 1 .. b /\ damage = b + 1 .. Len(executed)

ShownToFlip == \E b \in Nat : Shown(b)

DisplayInv == DisplayTypeOK /\ DrawnInOrder /\ ShownToFlip

LEMMA ShownIsWhole == DisplayInv => FlippedWhole
<1> SUFFICES ASSUME DisplayInv PROVE FlippedWhole OBVIOUS
<1>1. PICK b \in Nat : Shown(b) BY DEF DisplayInv, ShownToFlip
<1>2. CASE b = 0 BY <1>1, <1>2 DEF Shown, FlippedWhole
<1>3. CASE b > 0
  <2>1. b \in DOMAIN executed BY <1>1, <1>3 DEF Shown, DisplayInv, DisplayTypeOK
  <2> QED BY <1>1, <1>3, <2>1 DEF Shown, FlippedWhole
<1> QED BY <1>2, <1>3

LEMMA DisplayInitially == DisplayInit => DisplayInv
<1> SUFFICES ASSUME DisplayInit PROVE DisplayInv OBVIOUS
<1>1. /\ renderQ = <<>> /\ executed = <<>> /\ issued = <<>>
      /\ decoded = {} /\ broken = {} /\ damage = {} /\ visible = {} /\ flushPromise = FALSE
  BY DEF DisplayInit
<1>2. <<>> \in Seq(Operations) /\ Len(<<>>) = 0 OBVIOUS
<1>3. DisplayTypeOK BY <1>1, <1>2 DEF DisplayTypeOK
<1>4. DrawnInOrder BY <1>1 DEF DrawnInOrder
<1>5. Shown(0)
  <2>1. 1 .. 0 = {} /\ 0 + 1 .. 0 = {} /\ 0 \in 0 .. 0 OBVIOUS
  <2> QED BY <1>1, <1>2, <2>1 DEF Shown
<1> QED BY <1>3, <1>4, <1>5 DEF DisplayInv, ShownToFlip

\* Executing operations of q moves the border to the last flip among them.
LEMMA ExecuteShows ==
    ASSUME executed \in Seq(Operations), ShownToFlip,
           NEW q \in Seq(Operations), Execute(q)
    PROVE  executed' = executed \o q /\ executed' \in Seq(Operations) /\ ShownToFlip'
<1> DEFINE n == Len(executed)
           m == Len(q)
           all == damage \cup (n + 1 .. n + m)
           copied(f) == {r \in all : f > 0 /\ r <= n + f}
<1>1. n \in Nat /\ m \in Nat OBVIOUS
<1>2. PICK f \in 0 .. m : /\ LastFlip(q, f)
                          /\ executed' = executed \o q
                          /\ visible' = visible \cup copied(f)
                          /\ damage' = all \ copied(f)
  BY DEF Execute
<1>3. PICK b \in Nat : Shown(b) BY DEF ShownToFlip
<1>4. executed' \in Seq(Operations) /\ Len(executed') = n + m
  BY <1>2
<1>5. /\ b <= n /\ visible = 1 .. b /\ damage = b + 1 .. n
      /\ b > 0 => IsFlip(executed[b])
  BY <1>3 DEF Shown
<1>6. all = b + 1 .. n + m BY <1>1, <1>5
<1>7. CASE f = 0
  <2>1. copied(f) = {} BY <1>7
  <2>2. visible' = 1 .. b /\ damage' = b + 1 .. Len(executed')
    BY <1>2, <1>4, <1>5, <1>6, <2>1
  <2>3. b > 0 => executed'[b] = executed[b] BY <1>1, <1>2, <1>5
  <2>4. b \in 0 .. Len(executed') BY <1>1, <1>4, <1>5
  <2>5. Shown(b)' BY <1>5, <2>2, <2>3, <2>4 DEF Shown
  <2> QED BY <1>2, <1>4, <2>5 DEF ShownToFlip
<1>8. CASE f > 0
  <2>1. copied(f) = b + 1 .. n + f BY <1>1, <1>5, <1>6, <1>8
  <2> HIDE DEF copied, all, n, m
  <2>2. visible' = 1 .. n + f BY <1>1, <1>2, <1>5, <2>1
  <2>3. damage' = n + f + 1 .. Len(executed') BY <1>1, <1>2, <1>4, <1>5, <1>6, <2>1
  <2>4. executed'[n + f] = q[f] BY <1>1, <1>2, <1>8 DEF n, m
  <2>5. IsFlip(q[f]) BY <1>2, <1>8 DEF LastFlip
  <2>6. n + f \in 0 .. Len(executed') /\ n + f \in Nat BY <1>1, <1>2, <1>4
  <2>7. PICK c \in Nat : c = n + f BY <2>6
  <2>8. Shown(c)' BY <2>2, <2>3, <2>4, <2>5, <2>6, <2>7 DEF Shown
  <2> QED BY <1>2, <1>4, <2>8 DEF ShownToFlip
<1> QED BY <1>1, <1>2, <1>7, <1>8

LEMMA StillShows == ASSUME ShownToFlip, UNCHANGED screen PROVE ShownToFlip'
<1>1. executed' = executed /\ visible' = visible /\ damage' = damage BY DEF screen
<1> QED BY <1>1 DEF ShownToFlip, Shown

LEMMA HandOverKeepsDisplay ==
    ASSUME DisplayInv, NEW op \in Operations, HandOver(op)
    PROVE  DisplayInv'
<1>1. /\ renderQ \in Seq(Operations) /\ executed \in Seq(Operations)
      /\ issued \in Seq(Operations) /\ executed \o renderQ = issued
  BY DEF DisplayInv, DisplayTypeOK, DrawnInOrder
<1>2. issued' = Append(issued, op) /\ issued' \in Seq(Operations)
  BY <1>1 DEF HandOver
<1>3. decoded' = decoded /\ broken' = broken /\ flushPromise' = flushPromise
  BY DEF HandOver, images
<1>4. CASE Pending \/ op.kind = "img"
  <2>1. renderQ' = Append(renderQ, op) /\ UNCHANGED screen BY <1>4 DEF HandOver
  <2>2. renderQ' \in Seq(Operations) BY <1>1, <2>1
  <2>3. executed' = executed /\ visible' = visible /\ damage' = damage
    BY <2>1 DEF screen
  <2>4. DrawnInOrder' BY <1>1, <1>2, <2>1, <2>3 DEF DrawnInOrder
  <2>5. ShownToFlip' BY <2>1, StillShows DEF DisplayInv
  <2>6. DisplayTypeOK' BY <1>2, <1>3, <2>2, <2>3 DEF DisplayInv, DisplayTypeOK
  <2> QED BY <2>4, <2>5, <2>6 DEF DisplayInv
<1>5. CASE ~(Pending \/ op.kind = "img")
  <2>1. Execute(<<op>>) /\ renderQ' = renderQ /\ renderQ = <<>>
    BY <1>5 DEF HandOver, Pending
  <2>2. <<op>> \in Seq(Operations) OBVIOUS
  <2>3. executed' = executed \o <<op>> /\ executed' \in Seq(Operations) /\ ShownToFlip'
    BY <1>1, <2>1, <2>2, ExecuteShows DEF DisplayInv
  <2>4. DrawnInOrder' BY <1>1, <1>2, <2>1, <2>3 DEF DrawnInOrder
  <2>5. visible' \subseteq Nat /\ damage' \subseteq Nat
    BY <2>3 DEF ShownToFlip, Shown
  <2>6. DisplayTypeOK'
    BY <1>1, <1>2, <1>3, <2>1, <2>3, <2>5 DEF DisplayInv, DisplayTypeOK
  <2> QED BY <2>3, <2>4, <2>6 DEF DisplayInv
<1> QED BY <1>4, <1>5

LEMMA FlipIsOperation == Flip \in Operations /\ IsFlip(Flip)
BY DEF Flip, Operations, DrawKinds, IsFlip

LEMMA ChangeSizeKeepsDisplay ==
    ASSUME DisplayInv, ChangeSize
    PROVE  DisplayInv'
<1>1. /\ renderQ \in Seq(Operations) /\ executed \in Seq(Operations)
      /\ issued \in Seq(Operations) /\ executed \o renderQ = issued
  BY DEF DisplayInv, DisplayTypeOK, DrawnInOrder
<1>2. issued' = Append(issued, Flip) /\ issued' \in Seq(Operations)
  BY <1>1, FlipIsOperation DEF ChangeSize
<1>3. decoded' = decoded /\ broken' = broken /\ flushPromise' = flushPromise
  BY DEF ChangeSize, images
<1>4. CASE Pending
  <2>1. /\ executed' = executed /\ renderQ' = Append(renderQ, Flip)
        /\ visible' = {} /\ damage' = DOMAIN executed
    BY <1>4 DEF ChangeSize
  <2>2. renderQ' \in Seq(Operations) BY <1>1, <2>1, FlipIsOperation
  <2>3. DrawnInOrder' BY <1>1, <1>2, <2>1 DEF DrawnInOrder
  <2>4. Shown(0)'
    <3>1. Len(executed) \in Nat /\ DOMAIN executed = 1 .. Len(executed) BY <1>1
    <3> QED BY <2>1, <3>1 DEF Shown
  <2>5. damage' \subseteq Nat BY <1>1, <2>1
  <2>6. DisplayTypeOK'
    BY <1>1, <1>2, <1>3, <2>1, <2>2, <2>5 DEF DisplayInv, DisplayTypeOK
  <2> QED BY <2>3, <2>4, <2>6 DEF DisplayInv, ShownToFlip
<1>5. CASE ~Pending
  <2>1. /\ executed' = Append(executed, Flip) /\ renderQ' = renderQ /\ renderQ = <<>>
        /\ visible' = DOMAIN executed' /\ damage' = {}
    BY <1>5 DEF ChangeSize, Pending
  <2>2. /\ executed' \in Seq(Operations) /\ Len(executed') = Len(executed) + 1
        /\ executed'[Len(executed')] = Flip /\ Len(executed') \in Nat
        /\ DOMAIN executed' = 1 .. Len(executed')
    BY <1>1, <2>1, FlipIsOperation
  <2>3. DrawnInOrder' BY <1>1, <1>2, <2>1 DEF DrawnInOrder
  <2>4. Shown(Len(executed))'
    <3>1. Len(executed') + 1 .. Len(executed') = {} BY <2>2
    <3> QED BY <2>1, <2>2, <3>1, FlipIsOperation DEF Shown
  <2>5. DisplayTypeOK'
    BY <1>1, <1>2, <1>3, <2>1, <2>2 DEF DisplayInv, DisplayTypeOK
  <2> QED BY <2>2, <2>3, <2>4, <2>5 DEF DisplayInv, ShownToFlip
<1> QED BY <1>4, <1>5

LEMMA SplitSequence ==
    ASSUME NEW S, NEW q \in Seq(S), NEW n \in 0 .. Len(q)
    PROVE  SubSeq(q, 1, n) \o SubSeq(q, n + 1, Len(q)) = q
<1>1. Len(q) \in Nat OBVIOUS
<1>2. 1 \in 1 .. Len(q) + 1 /\ n \in 1 - 1 .. Len(q) /\ Len(q) \in n .. Len(q) BY <1>1
<1>3. SubSeq(q, 1, n) \o SubSeq(q, n + 1, Len(q)) = SubSeq(q, 1, Len(q))
  BY <1>2, ConcatAdjacentSubSeq, Zenon
<1> QED BY <1>3, SubSeqFull

LEMMA Associative ==
    ASSUME NEW S, NEW s \in Seq(S), NEW t \in Seq(S), NEW u \in Seq(S)
    PROVE  (s \o t) \o u = s \o (t \o u)
BY ConcatAssociative

LEMMA LoadKeepsDisplay ==
    ASSUME DisplayInv, NEW w \in Nat, ImageLoads(w)
    PROVE  DisplayInv'
<1>1. /\ renderQ \in Seq(Operations) /\ executed \in Seq(Operations)
      /\ issued \in Seq(Operations) /\ executed \o renderQ = issued
  BY DEF DisplayInv, DisplayTypeOK, DrawnInOrder
<1>2. PICK n \in 0 .. Len(renderQ) :
        /\ decoded' = decoded \cup {w}
        /\ Execute(SubSeq(renderQ, 1, n))
        /\ renderQ' = SubSeq(renderQ, n + 1, Len(renderQ))
        /\ flushPromise' = (flushPromise /\ renderQ' # <<>>)
        /\ broken' = broken /\ issued' = issued
  BY DEF ImageLoads
<1>3. /\ SubSeq(renderQ, 1, n) \in Seq(Operations) /\ renderQ' \in Seq(Operations)
      /\ SubSeq(renderQ, 1, n) \o renderQ' = renderQ
  <2>1. Len(renderQ) \in Nat /\ n \in Nat /\ n <= Len(renderQ) BY <1>1
  <2>2. \A i \in 1 .. Len(renderQ) : renderQ[i] \in Operations BY <1>1
  <2>3. SubSeq(renderQ, 1, n) \in Seq(Operations) BY <2>1, <2>2, SubSeqProperties
  <2>4. SubSeq(renderQ, n + 1, Len(renderQ)) \in Seq(Operations)
    BY <2>1, <2>2, SubSeqProperties
  <2>5. SubSeq(renderQ, 1, n) \o SubSeq(renderQ, n + 1, Len(renderQ)) = renderQ
    BY <1>1, SplitSequence, Zenon
  <2> QED BY <1>2, <2>3, <2>4, <2>5
<1>4. /\ executed' = executed \o SubSeq(renderQ, 1, n)
      /\ executed' \in Seq(Operations) /\ ShownToFlip'
  BY <1>1, <1>2, <1>3, ExecuteShows DEF DisplayInv
<1>5. executed' \o renderQ' = executed \o renderQ
  <2>1. PICK s \in Seq(Operations) : s = SubSeq(renderQ, 1, n) BY <1>3
  <2>2. PICK t \in Seq(Operations) : t = renderQ' BY <1>3
  <2>3. PICK e \in Seq(Operations) : e = executed BY <1>1
  <2>4. (e \o s) \o t = e \o (s \o t) BY Associative
  <2> QED BY <1>3, <1>4, <2>1, <2>2, <2>3, <2>4
<1>6. DrawnInOrder' BY <1>1, <1>2, <1>5 DEF DrawnInOrder
<1>7. visible' \subseteq Nat /\ damage' \subseteq Nat BY <1>4 DEF ShownToFlip, Shown
<1>8. flushPromise' \in BOOLEAN BY <1>2
<1>9. DisplayTypeOK'
  BY <1>1, <1>2, <1>3, <1>4, <1>7, <1>8 DEF DisplayInv, DisplayTypeOK
<1> QED BY <1>4, <1>6, <1>9 DEF DisplayInv

LEMMA BreakKeepsDisplay ==
    ASSUME DisplayInv, NEW w \in Nat, ImageBreaks(w)
    PROVE  DisplayInv'
<1>1. /\ broken' = broken \cup {w} /\ UNCHANGED screen
      /\ UNCHANGED <<renderQ, decoded, flushPromise, issued>>
  BY DEF ImageBreaks
<1>2. executed' = executed /\ visible' = visible /\ damage' = damage
  BY <1>1 DEF screen
<1> QED BY <1>1, <1>2, StillShows DEF DisplayInv, DisplayTypeOK, DrawnInOrder

-----------------------------------------------------------------------------
\* In step with the server.

\* Where the stream is when a rectangle's decoder has got to d, with rects
\* rectangles to go, this one included: the place of the client, so to speak.
TightPlace(h, d) ==
    CASE d.at = "start"   -> Inside(h, "ctl", "none", 0)
      [] d.at = "fill"    -> Inside(h, "pixels", "none", 0)
      [] d.at = "jpeg"    -> Inside(h, "length", "image", 0)
      [] d.at = "image"   -> Inside(h, "image", "none", 0)
      [] d.at = "basic"   -> TightData(h)
      [] d.at = "filter"  -> Inside(h, "filter", "none", 0)
      [] d.at = "palette" -> Inside(h, "palette", "none", 0)
      [] d.at = "block"   -> Inside(h, "block", "none", 0)
      [] OTHER            -> Unsaid

TightPNGPlace(h, d) ==
    CASE d.at = "png"                 -> Inside(h, "length", "image", 0)
      [] d.at \in {"basic", "filter"} -> Unsaid
      [] OTHER                        -> TightPlace(h, d)

HextilePlace(h, d, of) == Inside(h, "tile", of, IF d.left = 0 THEN h.size ELSE d.left)

DecoderPlace(h, d) ==
    CASE h.kind = "raw" /\ h.size # 0 ->
            Inside(h, "line", "none", IF d.left = 0 THEN h.size ELSE d.left)
      [] h.kind = "rre" -> IF d.left = 0 THEN Inside(h, "background", "none", 0)
                           ELSE Inside(h, "subrect", "none", d.left)
      [] h.kind = "tight" -> TightPlace(h, d)
      [] h.kind = "tightpng" -> TightPNGPlace(h, d)
      [] h.kind = "zrle" -> IF d.at = "start" THEN Inside(h, "length", "block", 0)
                            ELSE Inside(h, "block", "none", 0)
      [] OTHER -> AfterHeader(h)

\* The header of rectangle r with n to go; that the stream is where the decoder
\* has got to, which for a tile of Hextile leaves open what the last one was; that
\* it is where the client thinks.
Header(r, n) == Place("none", "none", 0, n, r.k, r.n)
StandsAt(r, n, d, p) ==
    IF r.k = "hextile" /\ r.n # 0
    THEN p.of \in {"first", "raw", "none"} /\ p = HextilePlace(Header(r, n), d, p.of)
    ELSE p = DecoderPlace(Header(r, n), d)
ClientAt(n, r, d, p) == IF r = NoRect THEN p = Between(n) ELSE StandsAt(r, n, d, p)

\* But after the first tile the decoder remembers what the last one was.
Knows(m, of) ==
    /\ of = "raw" => "raw" \in m /\ "colours" \in m
    /\ of = "none" => "raw" \notin m /\ "colours" \in m

\* An empty rectangle of Tight has no block, and one of TightPNG has neither
\* blocks nor palettes.
Possible(r, d) ==
    /\ r.k = "tight" /\ d.at = "block" => r.n # 0
    /\ r.k = "tightpng" => d.at \notin {"block", "palette"}

\* The server's stage after n units.
Here(n) == Stages[script][n + 1]

\* A console that has failed reads on no more. Until then it is where the stream
\* is, in a message (Handling) or a rectangle, with its inflators in the context
\* the next block is deflated in; the type of a message half read is still known.
Stopped == conn = "disconnected" /\ pc \in {"idle", "flushed"}
Handling == [header |-> Outside("rects", "none"), cuttext |-> Outside("length", "text"),
             fence |-> Outside("flags", "none"), xvp |-> Outside("power", "none")]
Synced ==
    /\ Here(taken).blocks = inflated
    /\ rect = NoRect => dec = Start
    /\ Possible(rect, dec)
    /\ rects = 0 => rect = NoRect
    /\ pc \in DOMAIN Handling \cup {"next"} => rects = 0
    /\ pc \in DOMAIN Handling =>
          /\ Here(taken).place = Handling[pc]
          /\ taken > 0 /\ Here(taken - 1).place = Between(0) /\ Here(taken - 1).blocks = inflated
          /\ pc = "header" <=> IsUpdate(taken)
    /\ pc \notin DOMAIN Handling => ClientAt(rects, rect, dec, Here(taken).place)
    /\ rect.k = "hextile" /\ rect.n # 0 => Knows(kept, Here(taken).place.of)
    /\ pc = "rects" \/ rects > 0 =>
          taken > 0 /\ script[taken].role \notin {"type", "text", "payload", "power"}
SyncInv == ~misread /\ (Stopped \/ Synced)

\* Every flip handed over shows whole updates, or is that of a new size.
FlipsWhole ==
    \A b \in DOMAIN issued :
        IsFlip(issued[b]) => b \in resizes \/ \E n \in 0 .. taken :
                                  (n = 0 \/ UpdateEnd(n)) /\ DrawnBy(b) = Painting(n)
\* The chain of requests, wherever the console stands: the server owes an
\* update, has sent one that was not begun, or the console is in the middle of it.
AskedInv ==
    conn = "connected" =>
        \/ asked \/ updates # "unsupported" \/ skipped
        \/ \E i \in taken + 1 .. written : IsUpdate(i)
        \/ pc \in {"header", "rects"} \/ rects > 0
-----------------------------------------------------------------------------
\* The message loop.

\* The loop goes round only when there is something to read.
Ready == pc = "loop" => Avail >= 1

IInv == QueueInv /\ DisplayInv /\ LoopTypeOK /\ Ready

LEMMA ScriptKept ==
    ASSUME script \in Scripts
    PROVE  /\ Len(script) \in Nat /\ Here(0) = Opening
           /\ \A i \in 1 .. Len(script) : Leads(Here(i - 1), script[i], Here(i))
<1>1. KeepsProtocol(script, Stages[script]) BY ScriptsAssumption
<1>2. \A i \in 1 .. Len(script) : (i - 1) + 1 = i OBVIOUS
<1> QED BY <1>1, <1>2 DEF KeepsProtocol, Here

LEMMA Initially == Init => IInv
<1> SUFFICES ASSUME Init PROVE IInv OBVIOUS
<1>1. QueueInv /\ DisplayInv BY QueueInitially, DisplayInitially DEF Init
<1>2. pc = "idle" /\ arrived = 0 /\ written = 0 /\ script \in Scripts
  BY DEF Init, QueueInit
<1>3. Len(script) \in Nat BY <1>2, ScriptKept
<1>4. /\ conn = "connected" /\ rects = 0 /\ rect = NoRect /\ dec = Start
      /\ inflated = [i \in Inflators |-> 0] /\ flushing = FALSE /\ asked = TRUE
      /\ updates = "unsupported" /\ misread = FALSE /\ skipped = FALSE /\ resizes = {}
      /\ astray = FALSE /\ kept = {}
  BY DEF Init
<1>5. rect.n \in Nat /\ dec.left \in Nat /\ kept \subseteq Keepsakes
  BY <1>4 DEF NoRect, Blank, Start
<1>6. inflated \in [Inflators -> Nat] BY <1>4
<1>7. written \in 0 .. Len(script) /\ arrived <= written BY <1>2, <1>3
<1>8. /\ conn \in {"connected", "disconnected"} /\ rects \in Nat
      /\ pc \in {"idle", "loop", "next", "header", "cuttext", "fence", "xvp", "rects", "flushed"}
      /\ flushing \in BOOLEAN /\ asked \in BOOLEAN
  BY <1>2, <1>4
<1>9. /\ updates \in {"unsupported", "enabled", "disabled"}
      /\ misread \in BOOLEAN /\ skipped \in BOOLEAN /\ resizes \subseteq Nat
      /\ astray \in BOOLEAN
  BY <1>4
<1>10. LoopTypeOK BY <1>2, <1>5, <1>6, <1>7, <1>8, <1>9 DEF LoopTypeOK
<1> QED BY <1>1, <1>2, <1>10 DEF IInv, Ready

\* An unread unit is a unit of the script.
LEMMA UnreadIsUnit ==
    ASSUME IInv, NEW k \in Nat, 1 <= k, k <= Avail
    PROVE  /\ Peek(k) \in 1 .. Len(script) /\ Peek(k) \in Nat
           /\ UnitOK(script[Peek(k)]) /\ Peek(k) = taken + k
<1>1. /\ rQi \in Nat /\ rQlen \in Nat /\ rQlen <= arrived /\ arrived \in Nat
      /\ taken = arrived - rQlen + rQi
  BY DEF IInv, QueueInv, QueueTypeOK, Stored
<1>2. rQi + k - 1 \in 0 .. rQlen - 1 BY <1>1 DEF Avail
<1>3. Peek(k) = arrived - rQlen + 1 + (rQi + k - 1)
  BY <1>2 DEF IInv, QueueInv, Stored, Peek
<1>4. arrived <= written /\ written \in 0 .. Len(script) /\ script \in Scripts
  BY DEF IInv, LoopTypeOK
<1>5. Len(script) \in Nat BY <1>4, ScriptKept
<1>6. Peek(k) \in 1 .. Len(script) BY <1>1, <1>2, <1>3, <1>4, <1>5
<1>7. Leads(Here(Peek(k) - 1), script[Peek(k)], Here(Peek(k))) BY <1>4, <1>6, ScriptKept
<1> QED BY <1>1, <1>3, <1>6, <1>7 DEF Leads

LEMMA AvailIsNat == IInv => Avail \in Nat
BY DEF IInv, QueueInv, QueueTypeOK, Avail

\* What reading leaves of the queue, and what not reading does.
LEMMA StillQueue == ASSUME QueueInv, UNCHANGED queue
                    PROVE  QueueInv' /\ Avail' = Avail /\ arrived' = arrived
BY DEF QueueInv, QueueTypeOK, Stored, queue, Avail

LEMMA StillDisplay == ASSUME DisplayInv, UNCHANGED display PROVE DisplayInv'
<1>1. /\ renderQ' = renderQ /\ decoded' = decoded /\ broken' = broken
      /\ flushPromise' = flushPromise /\ issued' = issued /\ UNCHANGED screen
  BY DEF display, images
<1>2. executed' = executed /\ visible' = visible /\ damage' = damage
  BY <1>1 DEF screen
<1> QED BY <1>1, <1>2, StillShows DEF DisplayInv, DisplayTypeOK, DrawnInOrder

LEMMA ReadsKeepsQueue ==
    ASSUME IInv, NEW roles, Len(roles) \in Nat, ~RQwait(Len(roles)), Reads(roles)
    PROVE  QueueInv' /\ arrived' = arrived /\ misread' \in BOOLEAN /\ astray' \in BOOLEAN
<1>1. Len(roles) <= Avail BY AvailIsNat DEF RQwait
<1>2. RQshift(Len(roles)) BY DEF Reads
<1>3. QueueInv' BY <1>1, <1>2, ShiftKeepsQueue DEF IInv
<1>4. misread' \in BOOLEAN /\ astray' \in BOOLEAN BY DEF Reads, LoopTypeOK, IInv
<1> QED BY <1>2, <1>3, <1>4 DEF RQshift

LEMMA ServerWritesSafe == ASSUME IInv, ServerWrites PROVE IInv'
<1>1. QueueInv' /\ Avail' = Avail /\ arrived' = arrived
  BY StillQueue DEF IInv, ServerWrites
<1>2. DisplayInv' BY StillDisplay DEF IInv, ServerWrites
<1>3. PICK end \in written + 1 .. Len(script) : written' = end BY DEF ServerWrites
<1>4. /\ script' = script /\ asked' \in BOOLEAN
      /\ UNCHANGED <<loop, history>>
  BY DEF ServerWrites, IInv, LoopTypeOK
<1>5. script \in Scripts /\ Len(script) \in Nat /\ written \in 0 .. Len(script)
      /\ arrived <= written /\ arrived \in Nat
  BY ScriptKept DEF IInv, LoopTypeOK, QueueInv, QueueTypeOK
<1>6. written' \in 0 .. Len(script') /\ arrived' <= written'
  BY <1>1, <1>3, <1>4, <1>5
<1>7. LoopTypeOK' BY <1>4, <1>6 DEF IInv, LoopTypeOK, loop, rest, history
<1>8. Ready' BY <1>1, <1>4 DEF IInv, Ready, loop
<1> QED BY <1>1, <1>2, <1>7, <1>8 DEF IInv

LEMMA ArriveSafe == ASSUME IInv, NEW n \in 1 .. MaxGrow, Arrive(n) PROVE IInv'
<1>1. n \in Nat /\ n >= 1 BY BufferAssumption
<1>2. QueueInv' BY <1>1, RecvKeepsQueue DEF IInv, Arrive
<1>3. DisplayInv' BY StillDisplay DEF IInv, Arrive
<1>4. /\ pc' = IF flushing \/ overrun' THEN "idle" ELSE "loop"
      /\ UNCHANGED <<conn, rects, rect, dec, kept, inflated, flushing, updates>>
      /\ UNCHANGED server /\ UNCHANGED history /\ n <= written - arrived
  BY DEF Arrive
<1>5. arrived' <= arrived + n /\ arrived' \in Nat
  BY <1>1, <1>2 DEF Arrive, RecvMessage, Fits, ExpandCompact, Overrun, IInv, QueueInv, QueueTypeOK
<1>6. arrived' <= written'
  <2>1. written \in Nat /\ written' = written
    BY <1>4, ScriptKept DEF IInv, LoopTypeOK, server
  <2> QED BY <1>1, <1>4, <1>5, <2>1 DEF IInv, QueueInv, QueueTypeOK
<1>7. LoopTypeOK' BY <1>4, <1>6 DEF IInv, LoopTypeOK, server, history
<1>8. Ready'
  <2>1. CASE overrun' BY <1>4, <2>1 DEF Ready
  <2>2. CASE ~overrun'
    <3> DEFINE from == IF rQlen = rQi THEN 0 ELSE rQi
               len == IF rQlen = rQi THEN 0 ELSE rQlen
    <3>1. Fits(from, len, n) \/ ExpandCompact(from, len, n) \/ Overrun(from, len, n)
      BY DEF Arrive, RecvMessage
    <3>2. from \in Nat /\ len \in Nat /\ from <= len
      BY DEF IInv, QueueInv, QueueTypeOK
    <3>3. rQlen' - rQi' >= 1
      BY <1>1, <2>2, <3>1, <3>2 DEF Fits, ExpandCompact, Overrun
    <3> QED BY <3>3 DEF Ready, Avail
  <2> QED BY <2>1, <2>2
<1> QED BY <1>2, <1>3, <1>7, <1>8 DEF IInv

\* Actions that leave the queue, the screen and the server alone.
LEMMA PlainSafe ==
    ASSUME IInv, UNCHANGED queue, UNCHANGED display, UNCHANGED server, UNCHANGED history,
           UNCHANGED <<rest, updates>>,
           pc' \in {"idle", "loop", "rects"}, conn' \in {"connected", "disconnected"},
           flushing' \in BOOLEAN, pc' = "loop" => Avail >= 1
    PROVE  IInv'
<1>1. QueueInv' /\ Avail' = Avail /\ arrived' = arrived BY StillQueue DEF IInv
<1>2. DisplayInv' BY StillDisplay DEF IInv
<1>3. LoopTypeOK' BY <1>1 DEF IInv, LoopTypeOK, server, history, rest
<1>4. Ready' BY <1>1 DEF Ready
<1> QED BY <1>1, <1>2, <1>3, <1>4 DEF IInv

LEMMA WaitMeansLess == ASSUME IInv, NEW n \in Nat PROVE ~RQwait(n) => Avail >= n
BY AvailIsNat DEF RQwait

LEMMA PlainActionsSafe ==
    ASSUME IInv,
           ResumeUpdate \/ NextMessage \/ DecoderStarves \/ DecoderFails \/ Flushed
    PROVE  IInv'
<1>1. ~RQwait(1) => Avail >= 1 BY WaitMeansLess
<1>2. conn \in {"connected", "disconnected"} /\ flushing \in BOOLEAN
  BY DEF IInv, LoopTypeOK
<1>3. CASE ResumeUpdate BY <1>2, <1>3, PlainSafe DEF ResumeUpdate
<1>4. CASE NextMessage BY <1>1, <1>2, <1>4, PlainSafe DEF NextMessage
<1>5. CASE DecoderStarves BY <1>2, <1>5, PlainSafe DEF DecoderStarves
<1>6. CASE DecoderFails BY <1>2, <1>6, PlainSafe DEF DecoderFails, Fail
<1>7. CASE Flushed BY <1>1, <1>2, <1>7, PlainSafe DEF Flushed
<1> QED BY <1>3, <1>4, <1>5, <1>6, <1>7

\* Actions that read the message and leave the screen alone.
LEMMA MessageSafe ==
    ASSUME IInv, NEW roles, Len(roles) \in Nat, ~RQwait(Len(roles)), Reads(roles),
           UNCHANGED display, UNCHANGED server, UNCHANGED <<rest, flushing, skipped, resizes>>,
           pc' \in {"idle", "next", "header", "cuttext", "fence", "xvp"},
           conn' \in {"connected", "disconnected"},
           updates' \in {"unsupported", "enabled", "disabled"}
    PROVE  IInv'
<1>1. QueueInv' /\ arrived' = arrived /\ misread' \in BOOLEAN /\ astray' \in BOOLEAN BY ReadsKeepsQueue
<1>2. DisplayInv' BY StillDisplay DEF IInv
<1>3. LoopTypeOK' BY <1>1 DEF IInv, LoopTypeOK, server, rest
<1>4. Ready' BY DEF Ready
<1> QED BY <1>1, <1>2, <1>3, <1>4 DEF IInv

LEMMA TypeActionsSafe ==
    ASSUME IInv, ReadType \/ Bell \/ EndOfContinuousUpdates \/ BadType
    PROVE  IInv'
<1>1. pc = "loop" BY DEF ReadType, Bell, EndOfContinuousUpdates, BadType
<1>2. ~RQwait(1) BY <1>1, AvailIsNat DEF IInv, Ready, RQwait
<1>3. Len(<<"type">>) = 1 OBVIOUS
<1>4. /\ conn \in {"connected", "disconnected"}
      /\ updates \in {"unsupported", "enabled", "disabled"}
  BY DEF IInv, LoopTypeOK
<1>5. CASE ReadType
  <2>1. pc' \in {"header", "cuttext", "fence", "xvp"} BY <1>5 DEF ReadType, Handler
  <2> QED BY <1>2, <1>3, <1>4, <1>5, <2>1, MessageSafe DEF ReadType
<1>6. CASE Bell BY <1>2, <1>3, <1>4, <1>6, MessageSafe DEF Bell
<1>7. CASE EndOfContinuousUpdates
  BY <1>2, <1>3, <1>4, <1>7, MessageSafe DEF EndOfContinuousUpdates
<1>8. CASE BadType BY <1>2, <1>3, <1>4, <1>8, MessageSafe DEF BadType, Fail
<1> QED BY <1>5, <1>6, <1>7, <1>8

LEMMA UpcomingIsUnit == ASSUME IInv PROVE Upcoming.n \in Nat
<1>1. CASE RQwait(1) BY <1>1 DEF Upcoming, Blank
<1>2. CASE ~RQwait(1)
  <2>1. Avail >= 1 BY <1>2, WaitMeansLess
  <2>2. Unit.n \in Nat BY <2>1, UnreadIsUnit DEF Unit, UnitOK
  <2> QED BY <1>2, <2>2 DEF Upcoming
<1> QED BY <1>1, <1>2

LEMMA FenceHasCome == ASSUME IInv, ServerFence PROVE ~RQwait(2)
BY AvailIsNat, UpcomingIsUnit DEF ServerFence, RQwait

LEMMA BodyActionsSafe ==
    ASSUME IInv, ServerCutText \/ ServerFence \/ Xvp
    PROVE  IInv'
<1>1. /\ conn \in {"connected", "disconnected"}
      /\ updates \in {"unsupported", "enabled", "disabled"}
  BY DEF IInv, LoopTypeOK
<1>2. /\ Len(<<"length", "text">>) = 2 /\ Len(<<"flags", "payload">>) = 2
      /\ Len(<<"length">>) = 1 /\ Len(<<"power">>) = 1
  OBVIOUS
<1>3. CASE ServerCutText
  <2>1. ~RQwait(1) /\ ~RQwait(2) BY <1>3, AvailIsNat DEF ServerCutText, RQwait
  <2>2. CASE Unit.k \in {"other", "bad"}
    BY <1>1, <1>2, <1>3, <2>1, <2>2, MessageSafe DEF ServerCutText, Fail
  <2>3. CASE Unit.k \notin {"other", "bad"}
    BY <1>1, <1>2, <1>3, <2>1, <2>3, MessageSafe DEF ServerCutText, Fail
  <2> QED BY <2>2, <2>3
<1>4. CASE ServerFence
  <2>1. ~RQwait(2) BY <1>4, FenceHasCome
  <2> QED BY <1>1, <1>2, <1>4, <2>1, MessageSafe DEF ServerFence, Fail
<1>5. CASE Xvp BY <1>1, <1>2, <1>5, MessageSafe DEF Xvp, Fail
<1> QED BY <1>3, <1>4, <1>5

LEMMA MessageStarvesSafe == ASSUME IInv, MessageStarves PROVE IInv'
<1>1. pc' = "idle" /\ RQgoback(1) BY DEF MessageStarves, Starved
<1>2. QueueInv' BY <1>1, GobackKeepsQueue DEF IInv
<1>3. arrived' = arrived BY <1>1 DEF RQgoback
<1>4. DisplayInv' BY StillDisplay DEF IInv, MessageStarves
<1>5. LoopTypeOK'
  BY <1>1, <1>3 DEF MessageStarves, IInv, LoopTypeOK, server, history, rest
<1> QED BY <1>1, <1>2, <1>4, <1>5 DEF IInv, Ready

-----------------------------------------------------------------------------
\* Updates.

LEMMA UpdateHeaderSafe == ASSUME IInv, UpdateHeader PROVE IInv'
<1>1. Len(<<"rects">>) = 1 OBVIOUS
<1>2. QueueInv' /\ arrived' = arrived /\ misread' \in BOOLEAN /\ astray' \in BOOLEAN
  BY <1>1, ReadsKeepsQueue DEF UpdateHeader
<1>3. Unit.n \in Nat
  <2>1. Avail >= 1 BY WaitMeansLess DEF UpdateHeader
  <2> QED BY <2>1, UnreadIsUnit DEF Unit, UnitOK
<1>4. DisplayInv'
  <2>1. /\ UNCHANGED screen /\ decoded' = decoded /\ broken' = broken
        /\ renderQ' = renderQ /\ issued' = issued
        /\ flushPromise' = (flushPromise \/ Pending)
    BY DEF UpdateHeader, images
  <2>2. executed' = executed /\ visible' = visible /\ damage' = damage
    BY <2>1 DEF screen
  <2> QED BY <2>1, <2>2, StillShows DEF IInv, DisplayInv, DisplayTypeOK, DrawnInOrder
<1>5. /\ pc' \in {"idle", "rects"} /\ rects' = Unit.n
      /\ flushing' \in BOOLEAN /\ skipped' \in BOOLEAN
      /\ UNCHANGED <<conn, rect, dec, kept, inflated, updates, server, resizes>>
  BY DEF UpdateHeader, Pending, IInv, LoopTypeOK
<1>6. LoopTypeOK' BY <1>2, <1>3, <1>5 DEF IInv, LoopTypeOK, server
<1>7. Ready' BY <1>5 DEF Ready
<1> QED BY <1>2, <1>4, <1>6, <1>7 DEF IInv

LEMMA RectHeaderSafe == ASSUME IInv, RectHeader PROVE IInv'
<1>1. Len(<<"rect">>) = 1 OBVIOUS
<1>2. /\ pc' \in {"idle", "rects"} /\ UNCHANGED display
      /\ UNCHANGED <<conn, rects, dec, kept, inflated, flushing, updates, server, skipped, resizes>>
  BY DEF RectHeader
<1>3. DisplayInv' BY <1>2, StillDisplay DEF IInv
<1>4. QueueInv' /\ arrived' = arrived /\ misread' \in BOOLEAN /\ astray' \in BOOLEAN /\ rect'.n \in Nat
  <2>1. CASE RQwait(1)
    <3>1. UNCHANGED queue /\ rect' = rect /\ misread' = misread /\ astray' = astray BY <2>1 DEF RectHeader
    <3> QED BY <3>1, StillQueue DEF IInv, LoopTypeOK
  <2>2. CASE ~RQwait(1)
    <3>1. Reads(<<"rect">>) /\ rect' = Unit BY <2>2 DEF RectHeader
    <3>2. Unit.n \in Nat
      <4>1. Avail >= 1 BY <2>2, WaitMeansLess
      <4> QED BY <4>1, UnreadIsUnit DEF Unit, UnitOK
    <3> QED BY <1>1, <2>2, <3>1, <3>2, ReadsKeepsQueue
  <2> QED BY <2>1, <2>2
<1>5. LoopTypeOK' BY <1>2, <1>4 DEF IInv, LoopTypeOK, server
<1>6. Ready' BY <1>2 DEF Ready
<1> QED BY <1>3, <1>4, <1>5, <1>6 DEF IInv

LEMMA UpdateDoneSafe == ASSUME IInv, UpdateDone PROVE IInv'
<1>1. /\ HandOver(Flip) /\ pc' = "next" /\ asked' \in BOOLEAN
      /\ UNCHANGED <<queue, conn, rest, flushing, updates, script, written, history>>
  BY DEF UpdateDone, IInv, LoopTypeOK
<1>2. QueueInv' /\ arrived' = arrived BY <1>1, StillQueue DEF IInv
<1>3. DisplayInv' BY <1>1, HandOverKeepsDisplay, FlipIsOperation DEF IInv
<1>4. LoopTypeOK' BY <1>1, <1>2 DEF IInv, LoopTypeOK, rest, history
<1>5. Ready' BY <1>1 DEF Ready
<1> QED BY <1>2, <1>3, <1>4, <1>5 DEF IInv

LEMMA DecodeStepSafe == ASSUME IInv, DecodeStep PROVE IInv'
<1> DEFINE d == CurrentStep
           n == Len(d.reads)
           u == IF n = 0 THEN Blank ELSE script[Peek(n)]
<1>1. rect.n \in Nat /\ dec.left \in Nat /\ rects \in Nat BY DEF IInv, LoopTypeOK
<1>2. Upcoming.n \in Nat BY UpcomingIsUnit
<1>3. StepOK(d) BY <1>1, <1>2, DecodeRectIsOK DEF CurrentStep
<1>4. n \in Nat /\ ~RQwait(n) /\ n <= Avail
  <2>1. n \in Nat BY <1>3 DEF StepOK
  <2>2. ~RQwait(n) BY DEF DecodeStep
  <2> QED BY <2>1, <2>2, WaitMeansLess
<1>5. QueueInv' /\ arrived' = arrived
  <2>1. RQshift(n) BY DEF DecodeStep
  <2> QED BY <1>4, <2>1, ShiftKeepsQueue DEF IInv, RQshift
<1>6. DisplayInv' /\ resizes' \subseteq Nat
  <2>1. CASE d.draws # NoDraw
    <3>1. HandOver(Draw(d.draws, Peek(n), rQ[0])) /\ resizes' = resizes
      BY <2>1 DEF DecodeStep
    <3>2. d.draws \in DrawKinds BY <1>3, <2>1 DEF StepOK
    <3>3. rQ[0] \in Nat
      <4>1. 0 \in Slots BY BufferAssumption DEF Slots
      <4> QED BY <4>1 DEF IInv, QueueInv, QueueTypeOK
    <3>4. Peek(n) \in Nat
      <4>1. n >= 1 BY <1>3, <2>1 DEF StepOK
      <4> QED BY <1>4, <4>1, UnreadIsUnit
    <3>5. Draw(d.draws, Peek(n), rQ[0]) \in Operations
      BY <3>2, <3>3, <3>4 DEF Draw, Operations, Pending
    <3> QED BY <3>1, <3>5, HandOverKeepsDisplay DEF IInv, LoopTypeOK
  <2>2. CASE d.draws = NoDraw
    <3>1. \/ ChangeSize /\ resizes' = resizes \cup {Len(issued')}
          \/ UNCHANGED <<display, resizes>>
      BY <2>2 DEF DecodeStep
    <3>2. CASE ChangeSize /\ resizes' = resizes \cup {Len(issued')}
      <4>1. DisplayInv' BY <3>2, ChangeSizeKeepsDisplay DEF IInv
      <4>2. Len(issued') \in Nat BY <4>1 DEF DisplayInv, DisplayTypeOK
      <4> QED BY <3>2, <4>1, <4>2 DEF IInv, LoopTypeOK
    <3>3. CASE UNCHANGED <<display, resizes>>
      BY <3>3, StillDisplay DEF IInv, LoopTypeOK
    <3> QED BY <3>1, <3>2, <3>3
  <2> QED BY <2>1, <2>2
<1>7. /\ dec' = d.next /\ rect' = (IF d.ends THEN NoRect ELSE rect)
      /\ rects' = (IF ~d.ends THEN rects ELSE IF rect.k = "lastrect" THEN 0 ELSE rects - 1)
      /\ misread' = (misread \/ ~ReadAs(d.reads) \/ OutOfContext(u))
      /\ rects > 0 /\ pc = "rects"
      /\ astray' = (astray \/ Strays(n) \/ Overlooks(d, Upcoming))
      /\ kept' = Remembers(rect, dec, kept, Upcoming)
      /\ pc' = (IF d.stops THEN "idle" ELSE pc)
      /\ UNCHANGED <<conn, flushing, updates, server, skipped>>
  BY DEF DecodeStep, AtRect
<1>8. Inflates(u) BY DEF DecodeStep
<1>9. inflated' \in [Inflators -> Nat]
  BY <1>8 DEF Inflates, IInv, LoopTypeOK
<1>10. rects' \in Nat /\ rect'.n \in Nat /\ dec'.left \in Nat
       /\ misread' \in BOOLEAN /\ astray' \in BOOLEAN /\ kept' \subseteq Keepsakes
       /\ pc' \in {"idle", "rects"}
  <2>1. NoRect.n \in Nat BY DEF NoRect, Blank
  <2>2. dec'.left \in Nat BY <1>3, <1>7 DEF StepOK
  <2>3. misread' \in BOOLEAN /\ astray' \in BOOLEAN BY <1>7 DEF IInv, LoopTypeOK
  <2>4. kept' \subseteq Keepsakes BY <1>7, RemembersKeepsakes DEF IInv, LoopTypeOK
  <2>5. pc' \in {"idle", "rects"} BY <1>7
  <2> HIDE DEF d, u
  <2> QED BY <1>1, <1>7, <2>1, <2>2, <2>3, <2>4, <2>5
<1>11. LoopTypeOK' BY <1>5, <1>6, <1>7, <1>9, <1>10 DEF IInv, LoopTypeOK, server
<1>12. Ready' BY <1>10 DEF Ready
<1> QED BY <1>5, <1>6, <1>11, <1>12 DEF IInv

-----------------------------------------------------------------------------
\* The browser, and all of it.

LEMMA DecodingAreUnits == ASSUME IInv, NEW w \in Decoding PROVE w \in Nat
<1>1. renderQ \in Seq(Operations) BY DEF IInv, DisplayInv, DisplayTypeOK
<1>2. PICK i \in DOMAIN renderQ : w = renderQ[i].want BY DEF Decoding
<1>3. renderQ[i] \in Operations BY <1>1, <1>2
<1> QED BY <1>2, <1>3 DEF Operations

LEMMA LoadSafe == ASSUME IInv, NEW w \in Decoding, Load(w) PROVE IInv'
<1>1. w \in Nat BY DecodingAreUnits
<1>2. DisplayInv' BY <1>1, LoadKeepsDisplay DEF IInv, Load
<1>3. QueueInv' /\ arrived' = arrived BY StillQueue DEF IInv, Load
<1>4. pc' \in {"idle", "flushed"} BY DEF Load
<1>5. LoopTypeOK' BY <1>3, <1>4 DEF Load, IInv, LoopTypeOK, server, history, rest
<1> QED BY <1>2, <1>3, <1>4, <1>5 DEF IInv, Ready

LEMMA BreakSafe == ASSUME IInv, NEW w \in Decoding, Break(w) PROVE IInv'
<1>1. w \in Nat BY DecodingAreUnits
<1>2. DisplayInv' BY <1>1, BreakKeepsDisplay DEF IInv, Break
<1>3. QueueInv' /\ Avail' = Avail /\ arrived' = arrived BY StillQueue DEF IInv, Break
<1>4. LoopTypeOK' BY <1>3 DEF Break, IInv, LoopTypeOK, loop, server, history
<1>5. Ready' BY <1>3 DEF Break, IInv, Ready, loop
<1> QED BY <1>2, <1>3, <1>4, <1>5 DEF IInv

LEMMA StutterSafe == ASSUME IInv, UNCHANGED vars PROVE IInv'
<1>1. UNCHANGED queue /\ UNCHANGED display /\ UNCHANGED loop /\ UNCHANGED server /\ UNCHANGED history
  BY DEF vars
<1>2. QueueInv' /\ Avail' = Avail /\ arrived' = arrived BY <1>1, StillQueue DEF IInv
<1>3. DisplayInv' BY <1>1, StillDisplay DEF IInv
<1>4. LoopTypeOK' BY <1>1, <1>2 DEF IInv, LoopTypeOK, loop, server, history
<1>5. Ready' BY <1>1, <1>2 DEF IInv, Ready, loop
<1> QED BY <1>2, <1>3, <1>4, <1>5 DEF IInv

LEMMA StepSafe == ASSUME IInv, [Next]_vars PROVE IInv'
<1>1. ASSUME Message PROVE IInv'
  BY <1>1, PlainActionsSafe, TypeActionsSafe, BodyActionsSafe, MessageStarvesSafe DEF Message
<1>2. ASSUME Update PROVE IInv'
  BY <1>2, PlainActionsSafe, UpdateHeaderSafe, RectHeaderSafe, DecodeStepSafe, UpdateDoneSafe
  DEF Update
<1>3. ASSUME Task PROVE IInv' BY <1>1, <1>2, <1>3, PlainActionsSafe DEF Task
<1> QED BY <1>3, ServerWritesSafe, ArriveSafe, LoadSafe, BreakSafe, StutterSafe DEF Next

\* The queue, the screen and the loop are sound, one by one.
THEOREM IInvHolds == Spec => []IInv
BY Initially, StepSafe, PTL DEF Spec

\* The queue, the screen and the message loop are well typed; in particular the
\* write position never passes the size of the array, nor the read position
\* what has been received.
THEOREM TypeCorrect == Spec => []TypeOK
<1>1. IInv => TypeOK BY DEF IInv, TypeOK, QueueInv, DisplayInv
<1> QED BY <1>1, IInvHolds, PTL

\* However the stream is cut and the queue moved, what is unread is what the
\* server wrote and no handler has taken.
THEOREM QueueKeepsStream == Spec => []StreamKept
<1>1. IInv => StreamKept BY StoredIsKept DEF IInv
<1> QED BY <1>1, IInvHolds, PTL

\* Whatever the browser decodes first, the screen is drawn in the stream's order.
THEOREM ScreenDrawnInOrder == Spec => []DrawnInOrder
<1>1. IInv => DrawnInOrder BY DEF IInv, DisplayInv
<1> QED BY <1>1, IInvHolds, PTL

\* The visible canvas always shows everything up to a flip, and nothing after it.
THEOREM ScreenFlippedWhole == Spec => []FlippedWhole
<1>1. IInv => FlippedWhole BY ShownIsWhole DEF IInv
<1> QED BY <1>1, IInvHolds, PTL

-----------------------------------------------------------------------------
\* The decoders, against the stream.

DecoderRoles ==
    {"line", "source", "background", "subrect", "tile", "body", "ctl", "filter", "palette",
     "length", "pixels", "image", "block", "segment", "cursor", "cursortype", "name", "leds",
     "screens"}

\* Where a step s of the decoder of rectangle r leaves the stream.
LeadsTo(r, n, s, q) ==
    IF s.ends THEN q = Between(n - 1) ELSE StandsAt(r, n, s.next, q)

\* At place p the step s takes the stream for what it is: it reads nothing at
\* the end of a rectangle, or one unit, or two, draws if they paint and gets to
\* where the stream does.
ReadsNone(r, n, p, s) ==
    /\ s.reads = <<>> /\ s.draws = NoDraw /\ s.ends
    /\ p = Between(IF r.k = "lastrect" THEN 0 ELSE n - 1)
ReadsOne(r, n, p, s, u) ==
    /\ p.want \in DecoderRoles /\ s.reads = <<p.want>>
    /\ s.draws # NoDraw <=> Paints(p, u)
    /\ LeadsTo(r, n, s, After(p, u)) /\ r.k # "lastrect"
ReadsTwo(r, n, p, s, u, v) ==
    /\ {p.want, After(p, u).want} \subseteq DecoderRoles \ {"ctl", "block"}
    /\ s.reads = <<p.want, After(p, u).want>>
    /\ ~Paints(p, u)
    /\ s.draws # NoDraw <=> Paints(After(p, u), v)
    /\ LeadsTo(r, n, s, After(After(p, u), v)) /\ r.k # "lastrect"
\* Or the stream leaves the protocol, or a palette is not seen for one left over.
Off(p, s, u) ==
    p.want \in DecoderRoles /\ Len(s.reads) >= 1 /\ After(p, u).want = "any"
InTurn(r, n, p, s, u, v) ==
    \/ s.fails \/ Off(p, s, u) \/ Overlooks(s, u)
    \/ /\ ~s.stops
       /\ IF s.ends THEN s.next = Start ELSE Possible(r, s.next)
       /\ ReadsNone(r, n, p, s) \/ ReadsOne(r, n, p, s, u) \/ ReadsTwo(r, n, p, s, u, v)

\* The shapes a step has.
LEMMA EmptyInTurn ==
    ASSUME NEW r, NEW n, NEW p, NEW s, NEW u, NEW v, s = LastStep(<<>>, NoDraw),
           p = Between(IF r.k = "lastrect" THEN 0 ELSE n - 1)
    PROVE  InTurn(r, n, p, s, u, v)
BY DEF LastStep, InTurn, ReadsNone

LEMMA ThrowInTurn ==
    ASSUME NEW r, NEW n, NEW p, NEW s, NEW u, NEW v, NEW reads, s = Throw(reads)
    PROVE  InTurn(r, n, p, s, u, v)
BY DEF Throw, InTurn

LEMMA LastInTurn ==
    ASSUME NEW r, NEW n, NEW p, NEW s, NEW u, NEW v, NEW draws,
           p.want \in DecoderRoles, s = LastStep(<<p.want>>, draws), r.k # "lastrect",
           draws # NoDraw <=> Paints(p, u), After(p, u) = Between(n - 1)
    PROVE  InTurn(r, n, p, s, u, v)
BY DEF LastStep, InTurn, ReadsOne, LeadsTo

LEMMA StepInTurn ==
    ASSUME NEW r, NEW n, NEW p, NEW s, NEW u, NEW v, NEW draws, NEW next,
           p.want \in DecoderRoles, s = Step(<<p.want>>, draws, next), r.k # "lastrect",
           draws # NoDraw <=> Paints(p, u), Possible(r, next), StandsAt(r, n, next, After(p, u))
    PROVE  InTurn(r, n, p, s, u, v)
BY DEF Step, InTurn, ReadsOne, LeadsTo

LEMMA PlainStep ==
    ASSUME NEW r, NEW n, NEW p, NEW s, NEW u, NEW v, NEW draws, NEW next,
           p.want \in DecoderRoles, s = Step(<<p.want>>, draws, next),
           r.k # "lastrect", r.k # "hextile", draws # NoDraw <=> Paints(p, u), Possible(r, next),
           After(p, u) = DecoderPlace(Header(r, n), next)
    PROVE  InTurn(r, n, p, s, u, v)
<1>1. StandsAt(r, n, next, After(p, u)) BY DEF StandsAt
<1> QED BY <1>1, StepInTurn

LEMMA PieceInTurn ==
    ASSUME NEW r, NEW n, NEW p, NEW s, NEW u, NEW v, NEW draws, NEW stage, NEW left \in Nat,
           p.want \in DecoderRoles, s = Piece(<<p.want>>, draws, stage, left),
           r.k # "lastrect", stage \notin {"block", "palette"}, draws # NoDraw <=> Paints(p, u),
           left = 0 => After(p, u) = Between(n - 1),
           left # 0 => StandsAt(r, n, At(stage, left), After(p, u))
    PROVE  InTurn(r, n, p, s, u, v)
<1>1. CASE left = 0 BY <1>1, LastInTurn DEF Piece
<1>2. CASE left # 0
  <2>1. Possible(r, At(stage, left)) BY DEF Possible, At
  <2> QED BY <1>2, <2>1, StepInTurn DEF Piece
<1> QED BY <1>1, <1>2

LEMMA PlainPiece ==
    ASSUME NEW r, NEW n, NEW p, NEW s, NEW u, NEW v, NEW draws, NEW stage, NEW left \in Nat,
           p.want \in DecoderRoles, s = Piece(<<p.want>>, draws, stage, left),
           r.k # "lastrect", r.k # "hextile", stage \notin {"block", "palette"},
           draws # NoDraw <=> Paints(p, u),
           left = 0 => After(p, u) = Between(n - 1),
           left # 0 => After(p, u) = DecoderPlace(Header(r, n), At(stage, left))
    PROVE  InTurn(r, n, p, s, u, v)
<1>1. left # 0 => StandsAt(r, n, At(stage, left), After(p, u)) BY DEF StandsAt
<1> QED BY <1>1, PieceInTurn

LEMMA LastTwoInTurn ==
    ASSUME NEW r, NEW n, NEW p, NEW s, NEW u, NEW v, NEW q, NEW draws, q = After(p, u),
           p.want \in DecoderRoles \ {"ctl", "block"},
           q.want \in DecoderRoles \ {"ctl", "block"},
           s = LastStep(<<p.want, q.want>>, draws), r.k # "lastrect",
           ~Paints(p, u), draws # NoDraw <=> Paints(q, v), After(q, v) = Between(n - 1)
    PROVE  InTurn(r, n, p, s, u, v)
BY DEF LastStep, InTurn, ReadsTwo, LeadsTo

LEMMA PieceTwoInTurn ==
    ASSUME NEW r, NEW n, NEW p, NEW s, NEW u, NEW v, NEW q, NEW draws, NEW stage,
           NEW left \in Nat, q = After(p, u), p.want \in DecoderRoles \ {"ctl", "block"},
           q.want \in DecoderRoles \ {"ctl", "block"},
           s = Piece(<<p.want, q.want>>, draws, stage, left), r.k # "lastrect",
           stage \notin {"block", "palette"}, ~Paints(p, u), draws # NoDraw <=> Paints(q, v),
           left = 0 => After(q, v) = Between(n - 1),
           left # 0 => StandsAt(r, n, At(stage, left), After(q, v))
    PROVE  InTurn(r, n, p, s, u, v)
<1>1. CASE left = 0 BY <1>1, LastTwoInTurn DEF Piece
<1>2. CASE left # 0
  <2>1. Possible(r, At(stage, left)) BY DEF Possible, At
  <2>2. s = Step(<<p.want, q.want>>, draws, At(stage, left)) BY <1>2 DEF Piece
  <2>3. /\ s.reads = <<p.want, After(p, u).want>> /\ s.draws = draws /\ s.ends = FALSE
        /\ s.next = At(stage, left)
      /\ s.stops = FALSE
    BY <2>2 DEF Step
  <2> QED BY <1>2, <2>1, <2>3 DEF InTurn, ReadsTwo, LeadsTo
<1> QED BY <1>1, <1>2

\* The header's place, and places in its rectangle.
LEMMA HeaderIs ==
    ASSUME NEW r, NEW n
    PROVE  Header(r, n).kind = r.k /\ Header(r, n).size = r.n /\ Header(r, n).rects = n
BY DEF Header, Place

LEMMA InsideIs ==
    ASSUME NEW r, NEW n, NEW want, NEW of, NEW left, NEW p, p = Inside(Header(r, n), want, of, left)
    PROVE  /\ p.want = want /\ p.of = of /\ p.left = left
           /\ p.rects = n /\ p.kind = r.k /\ p.size = r.n
           /\ RectDone(p) = Between(n - 1)
           /\ \A w, o, l : Inside(p, w, o, l) = Inside(Header(r, n), w, o, l)
BY DEF Header, Place, Inside, RectDone

\* What comes after a unit that is the last of its rectangle, and one of many.
LEMMA AfterLast ==
    ASSUME NEW p, NEW u,
           p.want \in {"source", "pixels", "image", "block", "cursor", "name", "leds", "screens"}
    PROVE  After(p, u) = RectDone(p)
BY DEF After

LEMMA RawInTurn ==
    ASSUME NEW r, NEW d, NEW u, NEW v, NEW n, r.k = "raw", r.n \in Nat, d.left \in Nat
    PROVE  InTurn(r, n, DecoderPlace(Header(r, n), d), Raw(r, d, u), u, v)
<1> DEFINE h == Header(r, n)
<1>1. CASE r.n = 0
  <2>1. Raw(r, d, u) = LastStep(<<>>, NoDraw) BY <1>1 DEF Raw
  <2>2. DecoderPlace(h, d) = Between(n - 1)
    BY <1>1, HeaderIs DEF DecoderPlace, AfterHeader, RectDone
  <2> QED BY <2>1, <2>2, EmptyInTurn
<1>2. CASE r.n # 0
  <2> DEFINE lines == IF d.left = 0 THEN r.n ELSE d.left
  <2>1. lines \in Nat /\ lines # 0 BY <1>2
  <2>2. Raw(r, d, u) = Piece(<<"line">>, "view", "lines", lines - 1) BY <1>2 DEF Raw
  <2>3. PICK p : p = Inside(h, "line", "none", lines) OBVIOUS
  <2>4. DecoderPlace(h, d) = p BY <1>2, <2>3, HeaderIs DEF DecoderPlace
  <2> HIDE DEF lines, h
  <2>5. /\ p.want = "line" /\ p.left = lines /\ RectDone(p) = Between(n - 1)
        /\ Inside(p, "line", "none", lines - 1) = Inside(h, "line", "none", lines - 1)
    BY <2>3, InsideIs DEF h
  <2>6. After(p, u) = OneLess(p, "line", "none") /\ Paints(p, u) BY <2>5 DEF After, Paints
  <2>7. lines - 1 # 0 => After(p, u) = DecoderPlace(h, At("lines", lines - 1))
    BY <1>2, <2>1, <2>5, <2>6, HeaderIs DEF OneLess, DecoderPlace, At, h
  <2>8. lines - 1 = 0 => After(p, u) = Between(n - 1) BY <2>1, <2>5, <2>6 DEF OneLess
  <2>9. p.want \in DecoderRoles /\ r.k # "lastrect" BY <2>5 DEF DecoderRoles
  <2>10. PICK left \in Nat : left = lines - 1 BY <2>1
  <2>11. PICK draws, stage : draws = "view" /\ stage = "lines" OBVIOUS
  <2>12. draws # NoDraw /\ stage \notin {"block", "palette"} BY <2>11 DEF NoDraw
  <2>13. Raw(r, d, u) = Piece(<<p.want>>, draws, stage, left) BY <2>2, <2>5, <2>10, <2>11
  <2>14. InTurn(r, n, p, Raw(r, d, u), u, v)
    BY <2>6, <2>7, <2>8, <2>9, <2>10, <2>11, <2>12, <2>13, PlainPiece DEF h
  <2> QED BY <2>4, <2>14 DEF h
<1> QED BY <1>1, <1>2

LEMMA CopyRectInTurn ==
    ASSUME NEW r, NEW d, NEW u, NEW v, NEW n, r.k = "copyrect"
    PROVE  InTurn(r, n, DecoderPlace(Header(r, n), d), CopyRect(r, d, u), u, v)
<1> DEFINE h == Header(r, n)
<1>1. PICK p : p = Inside(h, "source", "none", 0) OBVIOUS
<1>2. DecoderPlace(h, d) = p BY <1>1, HeaderIs DEF DecoderPlace, AfterHeader
<1>3. p.want = "source" /\ RectDone(p) = Between(n - 1) /\ p.size = r.n BY <1>1, InsideIs
<1>4. Paints(p, u) <=> r.n # 0 BY <1>3 DEF Paints
<1>5. After(p, u) = Between(n - 1) BY <1>3, AfterLast
<1>6. PICK draws : draws = IF r.n = 0 THEN NoDraw ELSE "copy" OBVIOUS
<1>7. draws # NoDraw <=> r.n # 0 BY <1>6 DEF NoDraw
<1>8. CopyRect(r, d, u) = LastStep(<<p.want>>, draws) BY <1>3, <1>6 DEF CopyRect
<1>9. p.want \in DecoderRoles /\ r.k # "lastrect" BY <1>3 DEF DecoderRoles
<1>10. InTurn(r, n, p, CopyRect(r, d, u), u, v)
  BY <1>4, <1>5, <1>7, <1>8, <1>9, LastInTurn
<1> QED BY <1>2, <1>10

LEMMA RREInTurn ==
    ASSUME NEW r, NEW d, NEW u, NEW v, NEW n, r.k = "rre", u.n \in Nat, d.left \in Nat
    PROVE  InTurn(r, n, DecoderPlace(Header(r, n), d), RRE(r, d, u), u, v)
<1> DEFINE h == Header(r, n)
<1>1. PICK draws, stage : draws = "fill" /\ stage = "subrects" OBVIOUS
<1>2. draws # NoDraw /\ stage \notin {"block", "palette"} /\ r.k # "lastrect" BY <1>1 DEF NoDraw
<1>3. \A left : left # 0 => DecoderPlace(h, At(stage, left)) = Inside(h, "subrect", "none", left)
  BY HeaderIs DEF DecoderPlace, At
<1>4. CASE d.left = 0
  <2>1. PICK p : p = Inside(h, "background", "none", 0) OBVIOUS
  <2>2. DecoderPlace(h, d) = p BY <1>4, <2>1, HeaderIs DEF DecoderPlace
  <2>3. p.want = "background" /\ RectDone(p) = Between(n - 1)
        /\ Inside(p, "subrect", "none", u.n) = Inside(h, "subrect", "none", u.n)
    BY <2>1, InsideIs
  <2>4. Paints(p, u) /\ p.want \in DecoderRoles BY <2>3 DEF Paints, DecoderRoles
  <2>5. After(p, u) = IF u.n = 0 THEN Between(n - 1) ELSE Inside(h, "subrect", "none", u.n)
    BY <2>3 DEF After
  <2>6. RRE(r, d, u) = Piece(<<p.want>>, draws, stage, u.n) BY <1>1, <1>4, <2>3 DEF RRE
  <2>7. /\ u.n = 0 => After(p, u) = Between(n - 1)
        /\ u.n # 0 => After(p, u) = DecoderPlace(h, At(stage, u.n))
    BY <1>3, <2>5
  <2>8. InTurn(r, n, p, RRE(r, d, u), u, v) BY <1>2, <2>4, <2>6, <2>7, PlainPiece
  <2> QED BY <2>2, <2>8
<1>5. CASE d.left # 0
  <2>1. PICK p : p = Inside(h, "subrect", "none", d.left) OBVIOUS
  <2>2. DecoderPlace(h, d) = p BY <1>5, <2>1, HeaderIs DEF DecoderPlace
  <2>3. PICK left \in Nat : left = d.left - 1 BY <1>5
  <2>4. p.want = "subrect" /\ RectDone(p) = Between(n - 1) /\ p.left = d.left
        /\ Inside(p, "subrect", "none", left) = Inside(h, "subrect", "none", left)
    BY <2>1, InsideIs
  <2>5. Paints(p, u) /\ p.want \in DecoderRoles BY <2>4 DEF Paints, DecoderRoles
  <2>6. After(p, u) = IF left = 0 THEN Between(n - 1) ELSE Inside(h, "subrect", "none", left)
    BY <2>3, <2>4 DEF After, OneLess
  <2>7. RRE(r, d, u) = Piece(<<p.want>>, draws, stage, left) BY <1>1, <1>5, <2>3, <2>4 DEF RRE
  <2>8. /\ left = 0 => After(p, u) = Between(n - 1)
        /\ left # 0 => After(p, u) = DecoderPlace(h, At(stage, left))
    BY <1>3, <2>6
  <2>9. InTurn(r, n, p, RRE(r, d, u), u, v) BY <1>2, <2>5, <2>7, <2>8, PlainPiece
  <2> QED BY <2>2, <2>9
<1> QED BY <1>4, <1>5

\* One tile of Hextile.
LEMMA HextileInTurn ==
    ASSUME NEW r, NEW d, NEW m, NEW u, NEW v, NEW n, NEW p, r.k = "hextile", r.n \in Nat,
           d.left \in Nat, StandsAt(r, n, d, p), r.n # 0 => Knows(m, p.of)
    PROVE  InTurn(r, n, p, Hextile(r, d, m, u), u, v)
<1> DEFINE h == Header(r, n)
<1>1. CASE r.n = 0
  <2>1. Hextile(r, d, m, u) = LastStep(<<>>, NoDraw) BY <1>1 DEF Hextile
  <2>2. p = Between(n - 1)
    BY <1>1, HeaderIs DEF StandsAt, DecoderPlace, AfterHeader, RectDone
  <2> QED BY <2>1, <2>2, EmptyInTurn
<1>2. CASE r.n # 0
  <2> DEFINE s == Hextile(r, d, m, u)
  <2>1. PICK tiles \in Nat \ {0} : tiles = IF d.left = 0 THEN r.n ELSE d.left BY <1>2
  <2>2. PICK left \in Nat : left = tiles - 1 BY <2>1
  <2>3. PICK of : of = p.of OBVIOUS
  <2>4. p = Inside(h, "tile", of, tiles) /\ of \in {"first", "raw", "none"} /\ Knows(m, of)
    BY <1>2, <2>1, <2>3, HeaderIs DEF StandsAt, HextilePlace
  <2>6. /\ p.want = "tile" /\ p.of = of /\ p.left = tiles
        /\ p.kind = r.k /\ p.size = r.n /\ RectDone(p) = Between(n - 1)
        /\ \A w, o, l : Inside(p, w, o, l) = Inside(h, w, o, l)
    BY <2>4, InsideIs
  <2>7. \A at, after : left # 0 /\ after \in {"first", "raw", "none"} =>
            StandsAt(r, n, At(at, left), Inside(h, "tile", after, left))
    <3>1. \A after : Inside(h, "tile", after, left).of = after BY DEF Inside, Place
    <3> QED BY <1>2, <3>1 DEF StandsAt, HextilePlace, At
  <2>8. p.want \in DecoderRoles \ {"ctl", "block"} /\ r.k # "lastrect" BY <2>6 DEF DecoderRoles
  <2>9. s = HextileTile(r, d, m, u) BY <1>2 DEF Hextile
  <2>10. left = (IF d.left = 0 THEN r.n - 1 ELSE d.left - 1) BY <2>1, <2>2
  <2>11. After(p, u) = AfterTile(p, u) BY <2>6 DEF After
  <2>12. PICK stage : stage = "tiles" OBVIOUS
  <2>13. stage \notin {"block", "palette"} BY <2>12
  <2> HIDE DEF h, s
  <2>14. CASE u.k = "blank"
    <3>1. PICK draws : draws = IF "raw" \in m THEN NoDraw
                               ELSE IF "colours" \in m THEN "fill" ELSE "void"
      OBVIOUS
    <3>2. s = Piece(<<p.want>>, draws, stage, left)
      BY <2>6, <2>9, <2>10, <2>12, <2>14, <3>1 DEF HextileTile
    <3>3. CASE of = "first"
      <4>1. After(p, u).want = "any"
        BY <2>6, <2>11, <2>14, <3>3 DEF AfterTile, Unsaid, Outside, Place
      <4>2. Len(s.reads) >= 1
        <5>1. s.reads = <<p.want>> BY <3>2 DEF Piece, Step, LastStep
        <5>2. Len(<<p.want>>) = 1 OBVIOUS
        <5> QED BY <5>1, <5>2
      <4> QED BY <2>8, <4>1, <4>2 DEF InTurn, Off, s
    <3>4. CASE of # "first"
      <4>1. draws # NoDraw <=> Paints(p, u)
        BY <2>4, <2>6, <2>14, <3>1, <3>4 DEF Paints, NoDraw, Knows
      <4>2. After(p, u) = OneLess(p, "tile", "none")
        BY <2>6, <2>11, <2>14, <3>4 DEF AfterTile
      <4>3. left = 0 => After(p, u) = Between(n - 1) BY <2>1, <2>2, <2>6, <4>2 DEF OneLess
      <4>4. left # 0 => StandsAt(r, n, At(stage, left), After(p, u))
        BY <2>1, <2>2, <2>6, <2>7, <4>2 DEF OneLess
      <4>5. InTurn(r, n, p, s, u, v)
        BY <2>8, <2>13, <3>2, <4>1, <4>3, <4>4, PieceInTurn
      <4> QED BY <4>5 DEF s
    <3> QED BY <3>3, <3>4
  <2>15. CASE u.k \in {"raw", "colours"} \/ (u.k = "again" /\ of # "first")
    <3>1. PICK after : after = IF u.k # "raw" THEN "none"
                               ELSE IF of = "first" THEN "first" ELSE "raw"
      OBVIOUS
    <3>2. PICK q : q = Inside(h, "body", after, tiles) OBVIOUS
    <3>3. q = After(p, u) BY <2>6, <2>11, <2>15, <3>1, <3>2 DEF AfterTile
    <3>4. /\ q.want = "body" /\ q.of = after /\ q.left = tiles
          /\ RectDone(q) = Between(n - 1)
          /\ \A w, o, l : Inside(q, w, o, l) = Inside(h, w, o, l)
      BY <3>2, InsideIs DEF h
    <3>5. After(q, v) = OneLess(q, "tile", after) BY <3>4 DEF After
    <3>6. PICK draws : draws = IF u.k = "raw" THEN "view" ELSE "blit" OBVIOUS
    <3>7. s = Piece(<<p.want, q.want>>, draws, stage, left)
      <4>1. u.k = "again" => "colours" \in m BY <2>4, <2>15 DEF Knows
      <4> QED BY <2>6, <2>9, <2>10, <2>12, <2>15, <3>4, <3>6, <4>1 DEF HextileTile
    <3>8. ~Paints(p, u) BY <2>6, <2>15 DEF Paints
    <3>9. Paints(q, v) /\ draws # NoDraw /\ q.want \in DecoderRoles \ {"ctl", "block"}
      BY <3>4, <3>6 DEF Paints, NoDraw, DecoderRoles
    <3>10. left = 0 => After(q, v) = Between(n - 1) BY <2>1, <2>2, <3>4, <3>5 DEF OneLess
    <3>11. left # 0 => StandsAt(r, n, At(stage, left), After(q, v))
      BY <2>1, <2>2, <2>7, <3>1, <3>4, <3>5 DEF OneLess
    <3>12. InTurn(r, n, p, s, u, v)
      BY <2>8, <2>13, <3>3, <3>7, <3>8, <3>9, <3>10, <3>11, PieceTwoInTurn
    <3> QED BY <3>12 DEF s
  <2>16. CASE u.k = "again" /\ of = "first"
    <3>1. After(p, u).want = "any"
      BY <2>6, <2>11, <2>16 DEF AfterTile, Unsaid, Outside, Place
    <3>2. Len(s.reads) >= 1
      <4>1. s.reads = <<"tile", "body">>
        BY <2>9, <2>16 DEF HextileTile, Piece, Step, LastStep, Throw
      <4>2. Len(<<"tile", "body">>) = 2 OBVIOUS
      <4> QED BY <4>1, <4>2
    <3> QED BY <2>8, <3>1, <3>2 DEF InTurn, Off, s
  <2>17. CASE u.k \notin {"blank", "raw", "colours", "again"}
    <3>1. s = Throw(<<"tile">>) BY <2>9, <2>17 DEF HextileTile
    <3> QED BY <3>1, ThrowInTurn DEF s
  <2> QED BY <2>14, <2>15, <2>16, <2>17
<1> QED BY <1>1, <1>2

\* What the decoder remembers of a tile is what the stream goes by.
LEMMA TileRemembered ==
    ASSUME NEW r, NEW d, NEW m, NEW u, NEW v, NEW n, NEW p, NEW s, NEW q, r.k = "hextile", r.n # 0,
           StandsAt(r, n, d, p), Knows(m, p.of), s = Hextile(r, d, m, u),
           ~s.fails, ~s.ends, ~Off(p, s, u),
           q = IF u.k = "blank" THEN After(p, u) ELSE After(After(p, u), v)
    PROVE  Knows(Remembers(r, d, m, u), q.of)
<1> DEFINE h == Header(r, n)
<1>1. PICK of, left : p = Inside(h, "tile", of, left) /\ p.of = of
                      /\ of \in {"first", "raw", "none"} /\ p.want = "tile"
                      /\ left = IF d.left = 0 THEN h.size ELSE d.left
  BY DEF StandsAt, HextilePlace, Inside, Place
<1>2. /\ p.left = left /\ RectDone(p) = Between(n - 1)
      /\ \A w, o, l : Inside(p, w, o, l) = Inside(h, w, o, l)
  BY <1>1, InsideIs
<1>3. After(p, u) = AfterTile(p, u) /\ p.want \in DecoderRoles
  BY <1>1 DEF After, DecoderRoles
<1>4. s = HextileTile(r, d, m, u) BY DEF Hextile
<1>5. \A w, o, l : Inside(h, w, o, l).of = o /\ Inside(h, w, o, l).want = w
                   /\ Inside(h, w, o, l).left = l
  BY DEF Inside, Place
<1>6. left # 1
  <2>1. h.size = r.n BY HeaderIs
  <2>2. u.k \in {"blank", "raw", "colours", "again"} BY <1>4 DEF HextileTile, Throw
  <2> QED BY <1>1, <1>4, <2>1, <2>2 DEF HextileTile, Piece, LastStep, Throw
<1> HIDE DEF h
<1>7. CASE u.k = "blank"
  <2>1. of # "first"
    <3>1. SUFFICES ASSUME of = "first" PROVE FALSE OBVIOUS
    <3>2. After(p, u).want = "any"
      BY <1>1, <1>3, <1>7, <3>1 DEF AfterTile, Unsaid, Outside, Place
    <3>3. Len(s.reads) >= 1
      <4>1. s.reads = <<"tile">> BY <1>4, <1>7 DEF HextileTile, Piece, Step, LastStep
      <4>2. Len(<<"tile">>) = 1 OBVIOUS
      <4> QED BY <4>1, <4>2
    <3> QED BY <1>3, <3>2, <3>3 DEF Off
  <2>2. q = Inside(h, "tile", "none", left - 1)
    BY <1>1, <1>2, <1>3, <1>6, <1>7, <2>1 DEF AfterTile, OneLess
  <2>3. q.of = "none" BY <1>5, <2>2
  <2>4. "colours" \in m BY <1>1, <2>1 DEF Knows
  <2>5. Remembers(r, d, m, u) = m \ {"raw"} BY <1>7 DEF Remembers
  <2> QED BY <2>3, <2>4, <2>5 DEF Knows
<1>8. CASE u.k \in {"raw", "colours"} \/ (u.k = "again" /\ of # "first")
  <2>1. PICK after : after = IF u.k # "raw" THEN "none"
                             ELSE IF of = "first" THEN "first" ELSE "raw"
    OBVIOUS
  <2>2. After(p, u) = Inside(h, "body", after, left)
    BY <1>1, <1>2, <1>3, <1>8, <2>1 DEF AfterTile
  <2>3. PICK b : b = Inside(h, "body", after, left) OBVIOUS
  <2>4. b.want = "body" /\ b.of = after /\ b.left = left
        /\ \A w, o, l : Inside(b, w, o, l) = Inside(h, w, o, l)
    BY <2>3, InsideIs DEF h
  <2>5. After(b, v) = Inside(h, "tile", after, left - 1) BY <1>6, <2>4 DEF After, OneLess
  <2>6. q.of = after BY <1>5, <1>8, <2>2, <2>3, <2>5
  <2>7. CASE u.k = "raw"
    <3>1. Remembers(r, d, m, u) = m \cup {"raw"} BY <2>7 DEF Remembers
    <3> QED BY <1>1, <2>1, <2>6, <2>7, <3>1 DEF Knows
  <2>8. CASE u.k = "colours"
    <3>1. Remembers(r, d, m, u) = (m \ {"raw"}) \cup {"colours"} BY <2>8 DEF Remembers
    <3> QED BY <2>1, <2>6, <2>8, <3>1 DEF Knows
  <2>9. CASE u.k = "again"
    <3>1. Remembers(r, d, m, u) = m \ {"raw"} BY <2>9 DEF Remembers
    <3> QED BY <1>1, <1>8, <2>1, <2>6, <2>9, <3>1 DEF Knows
  <2> QED BY <1>8, <2>7, <2>8, <2>9
<1>9. CASE u.k = "again" /\ of = "first"
  <2>1. After(p, u).want = "any"
    BY <1>1, <1>3, <1>9 DEF AfterTile, Unsaid, Outside, Place
  <2>2. Len(s.reads) >= 1
    <3>1. s.reads = <<"tile", "body">>
      BY <1>4, <1>9 DEF HextileTile, Piece, Step, LastStep, Throw
    <3>2. Len(<<"tile", "body">>) = 2 OBVIOUS
    <3> QED BY <3>1, <3>2
  <2> QED BY <1>3, <2>1, <2>2 DEF Off
<1>10. CASE u.k \notin {"blank", "raw", "colours", "again"}
  BY <1>4, <1>10 DEF HextileTile, Throw
<1> QED BY <1>7, <1>8, <1>9, <1>10

LEMMA ZRLEInTurn ==
    ASSUME NEW r, NEW d, NEW u, NEW v, NEW n, r.k = "zrle"
    PROVE  InTurn(r, n, DecoderPlace(Header(r, n), d), ZRLE(r, d, u), u, v)
<1> DEFINE h == Header(r, n)
<1>1. r.k # "lastrect" OBVIOUS
<1>2. CASE d.at = "start"
  <2>1. PICK p, next : p = Inside(h, "length", "block", 0) /\ next = At("block", 0) OBVIOUS
  <2>2. DecoderPlace(h, d) = p BY <1>2, <2>1, HeaderIs DEF DecoderPlace
  <2>3. p.want = "length" /\ p.of = "block"
        /\ Inside(p, "block", "none", 0) = Inside(h, "block", "none", 0)
    BY <2>1, InsideIs
  <2>4. After(p, u) = DecoderPlace(h, next)
    BY <2>1, <2>3, HeaderIs DEF After, AfterLength, DecoderPlace, At
  <2>5. ~Paints(p, u) /\ p.want \in DecoderRoles /\ Possible(r, next)
    BY <2>3 DEF Paints, DecoderRoles, Possible
  <2>6. ZRLE(r, d, u) = Step(<<p.want>>, NoDraw, next) BY <1>2, <2>1, <2>3 DEF ZRLE
  <2>7. InTurn(r, n, p, ZRLE(r, d, u), u, v) BY <1>1, <2>4, <2>5, <2>6, PlainStep
  <2> QED BY <2>2, <2>7
<1>3. CASE d.at # "start" /\ u.k = "bad"
  <2>1. ZRLE(r, d, u) = Throw(<<"block">>) BY <1>3 DEF ZRLE
  <2> QED BY <2>1, ThrowInTurn
<1>4. CASE d.at # "start" /\ u.k # "bad"
  <2>1. PICK p, draws : p = Inside(h, "block", "none", 0)
                        /\ draws = IF r.n = 0 THEN NoDraw ELSE "blit"
    OBVIOUS
  <2>2. DecoderPlace(h, d) = p BY <1>4, <2>1, HeaderIs DEF DecoderPlace
  <2>3. p.want = "block" /\ p.size = r.n /\ RectDone(p) = Between(n - 1) BY <2>1, InsideIs
  <2>4. After(p, u) = Between(n - 1) BY <2>3, AfterLast
  <2>5. (draws # NoDraw <=> Paints(p, u)) /\ p.want \in DecoderRoles
    BY <1>4, <2>1, <2>3 DEF Paints, DecoderRoles, NoDraw
  <2>6. ZRLE(r, d, u) = LastStep(<<p.want>>, draws) BY <1>4, <2>1, <2>3 DEF ZRLE
  <2>7. InTurn(r, n, p, ZRLE(r, d, u), u, v) BY <1>1, <2>4, <2>5, <2>6, LastInTurn
  <2> QED BY <2>2, <2>7
<1> QED BY <1>2, <1>3, <1>4

LEMMA JPEGInTurn ==
    ASSUME NEW r, NEW d, NEW u, NEW v, NEW n, r.k = "jpeg"
    PROVE  InTurn(r, n, DecoderPlace(Header(r, n), d), JPEG(r, d, u), u, v)
<1> DEFINE h == Header(r, n)
<1>1. PICK p, next, draws : /\ p = Inside(h, "segment", "none", 0)
                            /\ next = At("segments", 0)
                            /\ draws = IF r.n = 0 THEN NoDraw ELSE "img"
  OBVIOUS
<1>2. \A e : DecoderPlace(h, e) = p BY <1>1, HeaderIs DEF DecoderPlace, AfterHeader
<1>3. /\ p.want = "segment" /\ p.size = r.n /\ RectDone(p) = Between(n - 1)
      /\ Inside(p, "segment", "none", 0) = p
  BY <1>1, InsideIs
<1>4. p.want \in DecoderRoles /\ r.k # "lastrect" BY <1>3 DEF DecoderRoles
<1>5. After(p, u) = AfterSegment(p, u) BY <1>3 DEF After
<1>6. CASE u.k = "end"
  <2>1. JPEG(r, d, u) = LastStep(<<p.want>>, draws) BY <1>1, <1>3, <1>6 DEF JPEG
  <2>2. draws # NoDraw <=> Paints(p, u) BY <1>1, <1>3, <1>6 DEF Paints, NoDraw
  <2>3. After(p, u) = Between(n - 1) BY <1>3, <1>5, <1>6 DEF AfterSegment
  <2>4. InTurn(r, n, p, JPEG(r, d, u), u, v) BY <1>4, <2>1, <2>2, <2>3, LastInTurn
  <2> QED BY <1>2, <2>4
<1>7. CASE u.k = "segment"
  <2>1. JPEG(r, d, u) = Step(<<p.want>>, NoDraw, next) BY <1>1, <1>3, <1>7 DEF JPEG
  <2>2. ~Paints(p, u) /\ Possible(r, next)
    BY <1>1, <1>3, <1>7 DEF Paints, Possible, At
  <2>3. After(p, u) = DecoderPlace(h, next) BY <1>2, <1>3, <1>5, <1>7 DEF AfterSegment
  <2>4. InTurn(r, n, p, JPEG(r, d, u), u, v) BY <1>4, <2>1, <2>2, <2>3, PlainStep
  <2> QED BY <1>2, <2>4
<1>8. CASE u.k \notin {"end", "segment"}
  <2>1. JPEG(r, d, u) = Throw(<<"segment">>) BY <1>8 DEF JPEG
  <2> QED BY <2>1, ThrowInTurn
<1> QED BY <1>6, <1>7, <1>8

\* What Tight and TightPNG share: pixels, images and lengths.
LEMMA PixelsInTurn ==
    ASSUME NEW r, NEW u, NEW v, NEW n, NEW p, NEW draws, r.k # "lastrect",
           p = Inside(Header(r, n), "pixels", "none", 0), draws # NoDraw
    PROVE  InTurn(r, n, p, LastStep(<<"pixels">>, draws), u, v)
<1>1. p.want = "pixels" /\ RectDone(p) = Between(n - 1) BY InsideIs
<1>2. After(p, u) = Between(n - 1) BY <1>1, AfterLast
<1>3. Paints(p, u) /\ p.want \in DecoderRoles BY <1>1 DEF Paints, DecoderRoles
<1>4. PICK s : s = LastStep(<<p.want>>, draws) OBVIOUS
<1>5. InTurn(r, n, p, s, u, v) BY <1>2, <1>3, <1>4, LastInTurn
<1> QED BY <1>1, <1>4, <1>5

LEMMA ImageInTurn ==
    ASSUME NEW r, NEW u, NEW v, NEW n, NEW p, NEW s, r.k # "lastrect",
           p = Inside(Header(r, n), "image", "none", 0),
           s = LastStep(<<"image">>, IF r.n = 0 THEN NoDraw ELSE "img")
    PROVE  InTurn(r, n, p, s, u, v)
<1>1. p.want = "image" /\ RectDone(p) = Between(n - 1) /\ p.size = r.n BY InsideIs
<1>2. After(p, u) = Between(n - 1) BY <1>1, AfterLast
<1>3. PICK draws : draws = IF r.n = 0 THEN NoDraw ELSE "img" OBVIOUS
<1>4. (draws # NoDraw <=> Paints(p, u)) /\ p.want \in DecoderRoles
  BY <1>1, <1>3 DEF Paints, DecoderRoles, NoDraw
<1>5. s = LastStep(<<p.want>>, draws) BY <1>1, <1>3
<1> QED BY <1>2, <1>4, <1>5, LastInTurn

LEMMA LengthInTurn ==
    ASSUME NEW r, NEW u, NEW v, NEW n, NEW p, NEW s, NEW of, NEW next, r.k # "lastrect",
           r.k # "hextile", of # "text",
           p = Inside(Header(r, n), "length", of, 0), Possible(r, next),
           s = Step(<<"length">>, NoDraw, next),
           DecoderPlace(Header(r, n), next) = Inside(Header(r, n), of, "none", 0)
    PROVE  InTurn(r, n, p, s, u, v)
<1>1. p.want = "length" /\ p.of = of
      /\ Inside(p, of, "none", 0) = Inside(Header(r, n), of, "none", 0)
  BY InsideIs
<1>2. After(p, u) = DecoderPlace(Header(r, n), next) BY <1>1 DEF After, AfterLength
<1>3. ~Paints(p, u) /\ p.want \in DecoderRoles BY <1>1 DEF Paints, DecoderRoles
<1>4. s = Step(<<p.want>>, NoDraw, next) BY <1>1
<1> QED BY <1>2, <1>3, <1>4, PlainStep

\* The data of Tight, from wherever in the rectangle they begin.
LEMMA TightDataIs ==
    ASSUME NEW r, NEW n, NEW want, NEW of, NEW left, NEW p,
           p = Inside(Header(r, n), want, of, left)
    PROVE  TightData(p) = TightData(Header(r, n))
BY InsideIs, HeaderIs DEF TightData, RectDone

LEMMA TightBodyInTurn ==
    ASSUME NEW r, NEW u, NEW v, NEW n, r.k = "tight"
    PROVE  InTurn(r, n, TightData(Header(r, n)), TightBody(r), u, v)
<1> DEFINE h == Header(r, n)
<1>1. CASE r.n = 0
  <2>1. TightBody(r) = LastStep(<<>>, NoDraw) BY <1>1 DEF TightBody
  <2>2. TightData(h) = Between(n - 1) BY <1>1, HeaderIs DEF TightData, RectDone
  <2> QED BY <2>1, <2>2, EmptyInTurn
<1>2. CASE r.n = 1
  <2>1. PICK p, draws : p = Inside(h, "pixels", "none", 0) /\ draws = "blit" OBVIOUS
  <2>2. TightData(h) = p BY <1>2, <2>1, HeaderIs DEF TightData
  <2>3. TightBody(r) = LastStep(<<"pixels">>, draws) BY <1>2, <2>1 DEF TightBody
  <2>4. draws # NoDraw BY <2>1 DEF NoDraw
  <2> QED BY <2>1, <2>2, <2>3, <2>4, PixelsInTurn
<1>3. CASE r.n \notin {0, 1}
  <2>1. PICK p, next, of : /\ p = Inside(h, "length", of, 0) /\ of = "block"
                           /\ next = At("block", 0)
    OBVIOUS
  <2>2. TightData(h) = p BY <1>3, <2>1, HeaderIs DEF TightData
  <2>3. TightBody(r) = Step(<<"length">>, NoDraw, next) BY <1>3, <2>1 DEF TightBody
  <2>4. DecoderPlace(h, next) = Inside(h, of, "none", 0)
    BY <2>1, HeaderIs DEF DecoderPlace, TightPlace, At
  <2>5. Possible(r, next) BY <1>3 DEF Possible
  <2> QED BY <2>1, <2>2, <2>3, <2>4, <2>5, LengthInTurn
<1> QED BY <1>1, <1>2, <1>3

\* The control byte.
LEMMA ControlInTurn ==
    ASSUME NEW r, NEW u, NEW v, NEW n, NEW p, NEW s, NEW next, r.k \in {"tight", "tightpng"},
           p = Inside(Header(r, n), "ctl", "none", 0), u.k \in Controls \cup {"none"},
           next = At(u.k, 0), s = Step(<<"ctl">>, NoDraw, next)
    PROVE  InTurn(r, n, p, s, u, v)
<1> DEFINE h == Header(r, n)
<1>1. /\ p.want = "ctl" /\ p.kind = r.k
      /\ \A w, o, l : Inside(p, w, o, l) = Inside(h, w, o, l)
  BY InsideIs
<1>2. TightData(p) = TightData(h) BY TightDataIs
<1>3. After(p, u) = AfterControl(p, u) BY <1>1 DEF After
<1>4. next.at = u.k /\ next.left = 0 BY DEF At
<1>5. AfterControl(p, u) = DecoderPlace(h, next)
  <2>1. CASE r.k = "tight"
    <3>1. DecoderPlace(h, next) = TightPlace(h, next) BY <2>1, HeaderIs DEF DecoderPlace
    <3> QED BY <1>1, <1>2, <1>4, <2>1, <3>1 DEF AfterControl, TightPlace, Controls
  <2>2. CASE r.k = "tightpng"
    <3>1. DecoderPlace(h, next) = TightPNGPlace(h, next) BY <2>2, HeaderIs DEF DecoderPlace
    <3> QED BY <1>1, <1>2, <1>4, <2>2, <3>1 DEF AfterControl, TightPNGPlace, TightPlace, Controls
  <2> QED BY <2>1, <2>2
<1>6. Possible(r, next) BY <1>4 DEF Possible, Controls
<1>7. ~Paints(p, u) /\ p.want \in DecoderRoles /\ r.k # "lastrect"
  BY <1>1 DEF Paints, DecoderRoles
<1>8. s = Step(<<p.want>>, NoDraw, next) BY <1>1
<1> QED BY <1>3, <1>5, <1>6, <1>7, <1>8, PlainStep

LEMMA TightInTurn ==
    ASSUME NEW r, NEW d, NEW m, NEW u, NEW v, NEW n, r.k = "tight", Possible(r, d),
           d.at = "start" => u.k \in Controls \cup {"none"}
    PROVE  InTurn(r, n, DecoderPlace(Header(r, n), d), Tight(r, d, m, u), u, v)
<1> DEFINE h == Header(r, n)
           s == Tight(r, d, m, u)
<1>1. \A e : DecoderPlace(h, e) = TightPlace(h, e) BY HeaderIs DEF DecoderPlace
<1>2. r.k # "lastrect" OBVIOUS
<1>3. CASE d.at = "start"
  <2>1. PICK p, next : p = Inside(h, "ctl", "none", 0) /\ next = At(u.k, 0) OBVIOUS
  <2>2. TightPlace(h, d) = p BY <1>3, <2>1 DEF TightPlace
  <2>3. s = Step(<<"ctl">>, NoDraw, next) BY <1>3, <2>1 DEF Tight
  <2> QED BY <1>1, <1>3, <2>1, <2>2, <2>3, ControlInTurn
<1>4. CASE d.at = "fill"
  <2>1. PICK p, draws : p = Inside(h, "pixels", "none", 0) /\ draws = "fill" OBVIOUS
  <2>2. TightPlace(h, d) = p BY <1>4, <2>1 DEF TightPlace
  <2>3. s = LastStep(<<"pixels">>, draws) BY <1>4, <2>1 DEF Tight
  <2>4. draws # NoDraw BY <2>1 DEF NoDraw
  <2> QED BY <1>1, <1>2, <2>1, <2>2, <2>3, <2>4, PixelsInTurn
<1>5. CASE d.at = "jpeg"
  <2>1. PICK p, next, of : /\ p = Inside(h, "length", of, 0) /\ of = "image"
                           /\ next = At("image", 0)
    OBVIOUS
  <2>2. TightPlace(h, d) = p BY <1>5, <2>1 DEF TightPlace
  <2>3. s = Step(<<"length">>, NoDraw, next) BY <1>5, <2>1 DEF Tight
  <2>4. TightPlace(h, next) = Inside(h, of, "none", 0) BY <2>1 DEF TightPlace, At
  <2>5. Possible(r, next) BY <2>1 DEF Possible, At
  <2> QED BY <1>1, <1>2, <2>1, <2>2, <2>3, <2>4, <2>5, LengthInTurn
<1>6. CASE d.at = "image"
  <2>1. PICK p : p = Inside(h, "image", "none", 0) OBVIOUS
  <2>2. TightPlace(h, d) = p BY <1>6, <2>1 DEF TightPlace
  <2>3. s = LastStep(<<"image">>, IF r.n = 0 THEN NoDraw ELSE "img") BY <1>6 DEF Tight
  <2> QED BY <1>1, <1>2, <2>1, <2>2, <2>3, ImageInTurn
<1>7. CASE d.at = "basic"
  <2>1. TightPlace(h, d) = TightData(h) /\ s = TightBody(r) BY <1>7 DEF TightPlace, Tight
  <2> QED BY <1>1, <2>1, TightBodyInTurn
<1>8. CASE d.at = "filter"
  <2>1. PICK p : p = Inside(h, "filter", "none", 0) OBVIOUS
  <2>2. TightPlace(h, d) = p BY <1>8, <2>1 DEF TightPlace
  <2>3. p.want = "filter" /\ \A w, o, l : Inside(p, w, o, l) = Inside(h, w, o, l)
    BY <2>1, InsideIs
  <2>4. After(p, u) = AfterFilter(p, u) BY <2>3 DEF After
  <2>5. TightData(p) = TightData(h) BY <2>1, TightDataIs
  <2>6. s = TightFilter(m, u) BY <1>8 DEF Tight
  <2>7. CASE u.k = "palette" /\ "palette" \in m
    <3>1. s.reads = <<"filter">> /\ s.next.at = "basic" BY <2>6, <2>7 DEF TightFilter, Step, At
    <3> QED BY <1>1, <2>7, <3>1 DEF InTurn, Overlooks
  <2>8. CASE u.k \in {"copy", "gradient"} \/ (u.k = "palette" /\ "palette" \notin m)
    <3>1. PICK next : next = At(IF u.k = "palette" THEN "palette" ELSE "basic", 0) OBVIOUS
    <3>2. next.at = IF u.k = "palette" THEN "palette" ELSE "basic" BY <3>1 DEF At
    <3>3. After(p, u) = DecoderPlace(h, next)
      BY <1>1, <2>3, <2>4, <2>5, <2>8, <3>2 DEF AfterFilter, TightPlace
    <3>4. Possible(r, next) BY <3>2 DEF Possible
    <3>5. ~Paints(p, u) /\ p.want \in DecoderRoles BY <2>3 DEF Paints, DecoderRoles
    <3>6. s = Step(<<p.want>>, NoDraw, next) BY <2>3, <2>6, <2>8, <3>1 DEF TightFilter
    <3>7. InTurn(r, n, p, s, u, v) BY <1>2, <3>3, <3>4, <3>5, <3>6, PlainStep
    <3> QED BY <1>1, <2>2, <3>7
  <2>9. CASE u.k \notin {"palette", "copy", "gradient"}
    <3>1. s = Throw(<<"filter">>) BY <2>6, <2>9 DEF TightFilter
    <3> QED BY <3>1, ThrowInTurn
  <2> QED BY <2>7, <2>8, <2>9
<1>9. CASE d.at = "palette"
  <2>1. PICK p, next : p = Inside(h, "palette", "none", 0) /\ next = At("basic", 0) OBVIOUS
  <2>2. TightPlace(h, d) = p BY <1>9, <2>1 DEF TightPlace
  <2>3. p.want = "palette" /\ TightData(p) = TightData(h) BY <2>1, InsideIs, TightDataIs
  <2>4. next.at = "basic" BY <2>1 DEF At
  <2>5. After(p, u) = DecoderPlace(h, next) BY <1>1, <2>3, <2>4 DEF After, TightPlace
  <2>6. Possible(r, next) BY <2>4 DEF Possible
  <2>7. ~Paints(p, u) /\ p.want \in DecoderRoles BY <2>3 DEF Paints, DecoderRoles
  <2>8. s = Step(<<p.want>>, NoDraw, next) BY <1>9, <2>1, <2>3 DEF Tight
  <2>9. InTurn(r, n, p, s, u, v) BY <1>2, <2>5, <2>6, <2>7, <2>8, PlainStep
  <2> QED BY <1>1, <2>2, <2>9
<1>10. CASE d.at = "block"
  <2>1. PICK p, draws : p = Inside(h, "block", "none", 0) /\ draws = "blit" OBVIOUS
  <2>2. TightPlace(h, d) = p BY <1>10, <2>1 DEF TightPlace
  <2>3. p.want = "block" /\ RectDone(p) = Between(n - 1) /\ p.size = r.n BY <2>1, InsideIs
  <2>4. After(p, u) = Between(n - 1) BY <2>3, AfterLast
  <2>5. r.n # 0 BY <1>10 DEF Possible
  <2>6. p.want \in DecoderRoles /\ draws # NoDraw BY <2>1, <2>3 DEF DecoderRoles, NoDraw
  <2>7. s = LastStep(<<p.want>>, draws) BY <1>10, <2>1, <2>3 DEF Tight
  <2>8. Paints(p, u) BY <2>3, <2>5 DEF Paints
  <2>9. InTurn(r, n, p, s, u, v) BY <1>2, <2>4, <2>6, <2>7, <2>8, LastInTurn
  <2> QED BY <1>1, <2>2, <2>9
<1>11. CASE d.at \notin {"start", "fill", "jpeg", "image", "basic", "filter", "palette", "block"}
  <2>1. s = Throw(<<>>) BY <1>11 DEF Tight
  <2> QED BY <2>1, ThrowInTurn
<1> QED BY <1>3, <1>4, <1>5, <1>6, <1>7, <1>8, <1>9, <1>10, <1>11

LEMMA TightPNGInTurn ==
    ASSUME NEW r, NEW d, NEW m, NEW u, NEW v, NEW n, r.k = "tightpng", Possible(r, d),
           d.at = "start" => u.k \in Controls \cup {"none"}
    PROVE  InTurn(r, n, DecoderPlace(Header(r, n), d), TightPNG(r, d, m, u), u, v)
<1> DEFINE h == Header(r, n)
           s == TightPNG(r, d, m, u)
<1>1. \A e : DecoderPlace(h, e) = TightPNGPlace(h, e) BY HeaderIs DEF DecoderPlace
<1>2. r.k # "lastrect" /\ d.at \notin {"block", "palette"} BY DEF Possible
<1>3. CASE d.at \in {"jpeg", "png"}
  <2>1. PICK p, next, of : /\ p = Inside(h, "length", of, 0) /\ of = "image"
                           /\ next = At("image", 0)
    OBVIOUS
  <2>2. TightPNGPlace(h, d) = p BY <1>3, <2>1 DEF TightPNGPlace, TightPlace
  <2>3. s = Step(<<"length">>, NoDraw, next) BY <1>3, <2>1 DEF TightPNG, Tight
  <2>4. TightPNGPlace(h, next) = Inside(h, of, "none", 0)
    BY <2>1 DEF TightPNGPlace, TightPlace, At
  <2>5. Possible(r, next) BY <2>1 DEF Possible, At
  <2> QED BY <1>1, <1>2, <2>1, <2>2, <2>3, <2>4, <2>5, LengthInTurn
<1>4. CASE d.at = "start"
  <2>1. PICK p, next : p = Inside(h, "ctl", "none", 0) /\ next = At(u.k, 0) OBVIOUS
  <2>2. TightPNGPlace(h, d) = p BY <1>4, <2>1 DEF TightPNGPlace, TightPlace
  <2>3. s = Step(<<"ctl">>, NoDraw, next) BY <1>4, <2>1 DEF TightPNG, Tight
  <2> QED BY <1>1, <1>4, <2>1, <2>2, <2>3, ControlInTurn
<1>5. CASE d.at = "fill"
  <2>1. PICK p, draws : p = Inside(h, "pixels", "none", 0) /\ draws = "fill" OBVIOUS
  <2>2. TightPNGPlace(h, d) = p BY <1>5, <2>1 DEF TightPNGPlace, TightPlace
  <2>3. s = LastStep(<<"pixels">>, draws) BY <1>5, <2>1 DEF TightPNG, Tight
  <2>4. draws # NoDraw BY <2>1 DEF NoDraw
  <2> QED BY <1>1, <1>2, <2>1, <2>2, <2>3, <2>4, PixelsInTurn
<1>6. CASE d.at = "image"
  <2>1. PICK p : p = Inside(h, "image", "none", 0) OBVIOUS
  <2>2. TightPNGPlace(h, d) = p BY <1>6, <2>1 DEF TightPNGPlace, TightPlace
  <2>3. s = LastStep(<<"image">>, IF r.n = 0 THEN NoDraw ELSE "img")
    BY <1>6 DEF TightPNG, Tight
  <2> QED BY <1>1, <1>2, <2>1, <2>2, <2>3, ImageInTurn
<1>7. CASE d.at \notin {"jpeg", "png", "start", "fill", "image"}
  <2>1. s = Throw(<<>>) BY <1>2, <1>7 DEF TightPNG, Tight
  <2> QED BY <2>1, ThrowInTurn
<1> QED BY <1>3, <1>4, <1>5, <1>6, <1>7

\* The pseudo-encodings that read one unit, and the ones that read nothing.
LEMMA OnlyUnitInTurn ==
    ASSUME NEW r, NEW u, NEW v, NEW n, NEW want, NEW p, NEW s, r.k # "lastrect",
           want \in {"cursor", "leds", "screens"},
           p = Inside(Header(r, n), want, "none", 0), s = LastStep(<<want>>, NoDraw)
    PROVE  InTurn(r, n, p, s, u, v)
<1>1. p.want = want /\ RectDone(p) = Between(n - 1) BY InsideIs
<1>2. After(p, u) = Between(n - 1) BY <1>1, AfterLast
<1>3. ~Paints(p, u) /\ p.want \in DecoderRoles BY <1>1 DEF Paints, DecoderRoles
<1>4. s = LastStep(<<p.want>>, NoDraw) BY <1>1
<1> QED BY <1>2, <1>3, <1>4, LastInTurn

Pair(first, then, of) ==
    \/ first = "length" /\ then = "name" /\ of = "name"
    \/ first = "cursortype" /\ then = "cursor" /\ of = "none"

LEMMA TwoUnitsInTurn ==
    ASSUME NEW r, NEW u, NEW v, NEW n, NEW first, NEW then, NEW of, NEW p, NEW s,
           r.k # "lastrect", Pair(first, then, of),
           first = "cursortype" => u.k \in {"classic", "alpha"},
           p = Inside(Header(r, n), first, of, 0), s = LastStep(<<first, then>>, NoDraw)
    PROVE  InTurn(r, n, p, s, u, v)
<1>1. /\ p.want = first /\ p.of = of
      /\ Inside(p, then, "none", 0) = Inside(Header(r, n), then, "none", 0)
  BY InsideIs
<1>2. PICK q : q = Inside(Header(r, n), then, "none", 0) OBVIOUS
<1>3. q = After(p, u)
  <2>1. CASE first = "length" BY <1>1, <1>2, <2>1 DEF After, AfterLength, Pair
  <2>2. CASE first = "cursortype" BY <1>1, <1>2, <2>2 DEF After, Pair
  <2> QED BY <2>1, <2>2 DEF Pair
<1>4. q.want = then /\ RectDone(q) = Between(n - 1) BY <1>2, InsideIs
<1>5. After(q, v) = Between(n - 1) BY <1>4, AfterLast DEF Pair
<1>6. /\ ~Paints(p, u) /\ ~Paints(q, v)
      /\ p.want \in DecoderRoles \ {"ctl", "block"}
      /\ q.want \in DecoderRoles \ {"ctl", "block"}
  BY <1>1, <1>4 DEF Paints, DecoderRoles, Pair
<1>7. s = LastStep(<<p.want, q.want>>, NoDraw) BY <1>1, <1>4
<1> QED BY <1>3, <1>5, <1>6, <1>7, LastTwoInTurn

LEMMA PseudoInTurn ==
    ASSUME NEW r, NEW d, NEW m, NEW u, NEW v, NEW n,
           r.k \in {"cursor", "vmware", "name", "leds", "layout", "lastrect", "desktopsize",
                    "extkeys"}
    PROVE  InTurn(r, n, DecoderPlace(Header(r, n), d), DecodeRect(r, d, m, u), u, v)
<1> DEFINE h == Header(r, n)
           s == DecodeRect(r, d, m, u)
<1>1. DecoderPlace(h, d) = AfterHeader(h) BY HeaderIs DEF DecoderPlace
<1>2. PICK p : p = AfterHeader(h) OBVIOUS
<1>3. CASE r.k \in {"cursor", "leds", "layout"}
  <2>1. PICK want : want = IF r.k = "cursor" THEN "cursor"
                           ELSE IF r.k = "leds" THEN "leds" ELSE "screens"
    OBVIOUS
  <2>2. p = Inside(h, want, "none", 0) BY <1>2, <1>3, <2>1, HeaderIs DEF AfterHeader
  <2>3. s = LastStep(<<want>>, NoDraw)
    BY <1>3, <2>1 DEF DecodeRect, Cursor, LedState, DesktopLayout
  <2>4. want \in {"cursor", "leds", "screens"} /\ r.k # "lastrect" BY <1>3, <2>1
  <2> QED BY <1>1, <1>2, <2>2, <2>3, <2>4, OnlyUnitInTurn
<1>4. CASE r.k = "name" \/ (r.k = "vmware" /\ u.k \in {"classic", "alpha"})
  <2>1. PICK first, then, of : /\ first = IF r.k = "name" THEN "length" ELSE "cursortype"
                               /\ then = IF r.k = "name" THEN "name" ELSE "cursor"
                               /\ of = IF r.k = "name" THEN "name" ELSE "none"
    OBVIOUS
  <2>2. p = Inside(h, first, of, 0) BY <1>2, <1>4, <2>1, HeaderIs DEF AfterHeader
  <2>3. s = LastStep(<<first, then>>, NoDraw)
    BY <1>4, <2>1 DEF DecodeRect, VMwareCursor, DesktopName
  <2>4. r.k # "lastrect" /\ Pair(first, then, of)
        /\ (first = "cursortype" => u.k \in {"classic", "alpha"})
    BY <1>4, <2>1 DEF Pair
  <2> QED BY <1>1, <1>2, <2>2, <2>3, <2>4, TwoUnitsInTurn
<1>5. CASE r.k = "vmware" /\ u.k \notin {"classic", "alpha"}
  <2>1. p = Inside(h, "cursortype", "none", 0) BY <1>2, <1>5, HeaderIs DEF AfterHeader
  <2>2. p.want = "cursortype" BY <2>1, InsideIs
  <2>3. After(p, u).want = "any" BY <1>5, <2>2 DEF After, Unsaid, Outside, Place
  <2>4. s.reads = <<"cursortype">> BY <1>5 DEF DecodeRect, VMwareCursor, GiveUp
  <2>5. Len(<<"cursortype">>) = 1 OBVIOUS
  <2>6. Off(p, s, u) BY <2>2, <2>3, <2>4, <2>5 DEF Off, DecoderRoles
  <2> QED BY <1>1, <1>2, <2>6 DEF InTurn
<1>6. CASE r.k \in {"lastrect", "desktopsize", "extkeys"}
  <2>1. s = LastStep(<<>>, NoDraw) BY <1>6 DEF DecodeRect, Bare
  <2>2. p = Between(IF r.k = "lastrect" THEN 0 ELSE n - 1)
    BY <1>2, <1>6, HeaderIs DEF AfterHeader, RectDone
  <2> QED BY <1>1, <1>2, <2>1, <2>2, EmptyInTurn
<1> QED BY <1>3, <1>4, <1>5, <1>6

\* Every decoder keeps in turn with the stream.
LEMMA DecodeRectInTurn ==
    ASSUME NEW r, NEW d, NEW m, NEW u, NEW v, NEW n, NEW p, r.n \in Nat, d.left \in Nat,
           u.n \in Nat, Possible(r, d), StandsAt(r, n, d, p),
           r.k = "hextile" /\ r.n # 0 => Knows(m, p.of),
           p.want = "ctl" => u.k \in Controls \cup {"none"}
    PROVE  InTurn(r, n, p, DecodeRect(r, d, m, u), u, v)
<1> DEFINE h == Header(r, n)
           s == DecodeRect(r, d, m, u)
<1>1. r.k # "hextile" => p = DecoderPlace(h, d) BY DEF StandsAt
<1>2. ASSUME r.k \in {"tight", "tightpng"}, d.at = "start" PROVE u.k \in Controls \cup {"none"}
  <2>1. p = Inside(h, "ctl", "none", 0)
    BY <1>1, <1>2, HeaderIs DEF DecoderPlace, TightPlace, TightPNGPlace
  <2> QED BY <2>1, InsideIs
<1>3. CASE r.k = "raw" BY <1>1, <1>3, RawInTurn DEF DecodeRect
<1>4. CASE r.k = "copyrect" BY <1>1, <1>4, CopyRectInTurn DEF DecodeRect
<1>5. CASE r.k = "rre" BY <1>1, <1>5, RREInTurn DEF DecodeRect
<1>6. CASE r.k = "hextile" BY <1>6, HextileInTurn DEF DecodeRect
<1>7. CASE r.k = "tight" BY <1>1, <1>2, <1>7, TightInTurn DEF DecodeRect
<1>8. CASE r.k = "tightpng" BY <1>1, <1>2, <1>8, TightPNGInTurn DEF DecodeRect
<1>9. CASE r.k = "zrle" BY <1>1, <1>9, ZRLEInTurn DEF DecodeRect
<1>10. CASE r.k = "jpeg" BY <1>1, <1>10, JPEGInTurn DEF DecodeRect
<1>11. CASE r.k \in {"cursor", "vmware", "name", "leds", "layout", "lastrect", "desktopsize",
                     "extkeys"}
  BY <1>1, <1>11, PseudoInTurn
<1>12. CASE r.k \notin {"raw", "copyrect", "rre", "hextile", "tight", "tightpng", "zrle", "jpeg",
                        "cursor", "vmware", "name", "leds", "layout", "lastrect",
                        "desktopsize", "extkeys"}
  <2>1. s = Throw(<<>>) BY <1>12 DEF DecodeRect
  <2> QED BY <2>1, ThrowInTurn
<1> QED BY <1>3, <1>4, <1>5, <1>6, <1>7, <1>8, <1>9, <1>10, <1>11, <1>12

-----------------------------------------------------------------------------
\* In step.

\* The first units unread, if they have come.
LEMMA FirstUnit ==
    ASSUME IInv, Avail >= 1
    PROVE  /\ Peek(1) = taken + 1 /\ Unit = script[taken + 1] /\ taken \in Nat
           /\ UnitOK(Unit) /\ Leads(Here(taken), Unit, Here(taken + 1))
           /\ taken + 1 <= written /\ taken + 1 \in 1 .. Len(script)
<1>1. /\ Peek(1) \in 1 .. Len(script) /\ UnitOK(script[Peek(1)]) /\ Peek(1) = taken + 1
  BY UnreadIsUnit
<1>2. taken \in Nat BY DEF IInv, QueueInv, QueueTypeOK
<1>3. script \in Scripts BY DEF IInv, LoopTypeOK
<1>4. PICK i \in 1 .. Len(script) : i = taken + 1 BY <1>1
<1>5. Leads(Here(taken), script[taken + 1], Here(taken + 1))
  <2>1. Leads(Here(i - 1), script[i], Here(i)) BY <1>3, ScriptKept
  <2>2. i - 1 = taken BY <1>2, <1>4
  <2> QED BY <1>4, <2>1, <2>2
<1>6. taken + 1 <= written
  <2>1. taken + Avail = arrived /\ arrived <= written /\ Avail \in Nat /\ arrived \in Nat
    BY StoredIsKept, AvailIsNat DEF IInv, StreamKept, LoopTypeOK, QueueInv, QueueTypeOK
  <2>2. written \in Nat BY <1>3, ScriptKept DEF IInv, LoopTypeOK
  <2> QED BY <1>2, <2>1, <2>2
<1> QED BY <1>1, <1>2, <1>5, <1>6 DEF Unit

LEMMA SecondUnit ==
    ASSUME IInv, Avail >= 2
    PROVE  /\ Peek(2) = taken + 2 /\ taken + 2 \in 1 .. Len(script) /\ taken + 2 <= written
           /\ Leads(Here(taken + 1), script[taken + 2], Here(taken + 2))
<1>1. Peek(2) \in 1 .. Len(script) /\ Peek(2) = taken + 2 BY UnreadIsUnit
<1>2. taken \in Nat BY DEF IInv, QueueInv, QueueTypeOK
<1>3. script \in Scripts BY DEF IInv, LoopTypeOK
<1>4. PICK i \in 1 .. Len(script) : i = taken + 2 BY <1>1
<1>5. Leads(Here(taken + 1), script[taken + 2], Here(taken + 2))
  <2>1. Leads(Here(i - 1), script[i], Here(i)) BY <1>3, ScriptKept
  <2>2. i - 1 = taken + 1 BY <1>2, <1>4
  <2> QED BY <1>4, <2>1, <2>2
<1>6. taken + 2 <= written
  <2>1. taken + Avail = arrived /\ arrived <= written /\ Avail \in Nat /\ arrived \in Nat
    BY StoredIsKept, AvailIsNat DEF IInv, StreamKept, LoopTypeOK, QueueInv, QueueTypeOK
  <2>2. written \in Nat BY <1>3, ScriptKept DEF IInv, LoopTypeOK
  <2> QED BY <1>2, <2>1, <2>2
<1> QED BY <1>1, <1>5, <1>6

\* What a unit that is none of a compression stream's leads to.
LEMMA LeadsOn ==
    ASSUME NEW a, NEW u, NEW b, Leads(a, u, b), a.place.want # "any",
           a.place.want \notin {"ctl", "block"}, a.blocks \in [Inflators -> Nat]
    PROVE  u.role = a.place.want /\ b.place = After(a.place, u) /\ b.blocks = a.blocks
<1>1. /\ UnitOK(u) /\ b = NextStage(a, u) /\ u.role = a.place.want BY DEF Leads
<1>2. u.z = {} BY <1>1 DEF UnitOK
<1>3. b.place = After(a.place, u) /\ b.blocks = Deflated(a.place, a.blocks, u)
  BY <1>1 DEF NextStage, Stage
<1>4. Deflated(a.place, a.blocks, u) = a.blocks BY <1>2 DEF Deflated
<1> QED BY <1>1, <1>3, <1>4

LEMMA ReadOne ==
    ASSUME NEW role, Reads(<<role>>), Unit.role = role, misread = FALSE
    PROVE  misread' = FALSE /\ taken' = taken + 1
<1>1. Len(<<role>>) = 1 /\ <<role>>[1] = role OBVIOUS
<1>2. ReadAs(<<role>>) BY <1>1 DEF ReadAs, Unit
<1> QED BY <1>1, <1>2 DEF Reads, RQshift

LEMMA ReadTwo ==
    ASSUME NEW a, NEW b, Reads(<<a, b>>), Unit.role = a, script[Peek(2)].role = b,
           misread = FALSE
    PROVE  misread' = FALSE /\ taken' = taken + 2
<1>1. Len(<<a, b>>) = 2 /\ <<a, b>>[1] = a /\ <<a, b>>[2] = b OBVIOUS
<1>2. ReadAs(<<a, b>>) BY <1>1 DEF ReadAs, Unit
<1> QED BY <1>1, <1>2 DEF Reads, RQshift

\* Actions that read nothing.
Turned ==
    \/ pc' = pc
    \/ /\ pc \notin DOMAIN Handling /\ pc' \notin DOMAIN Handling
       /\ pc' = "next" => rects = 0
       /\ pc' = "rects" => rects > 0 \/ pc = "rects"

LEMMA NothingRead ==
    ASSUME SyncInv, UNCHANGED <<taken, script, rects, rect, dec, kept, inflated, misread>>,
           Stopped' \/ (Synced /\ Turned)
    PROVE  SyncInv'
<1>1. ~misread' BY DEF SyncInv
<1>2. ASSUME Synced, Turned PROVE Synced'
  <2>1. CASE pc' = pc BY <1>2, <2>1 DEF Synced, Here, IsUpdate, Possible, ClientAt
  <2>2. CASE pc' # pc
    BY <1>2, <2>2 DEF Turned, Synced, Here, IsUpdate, Possible, ClientAt, Handling
  <2> QED BY <2>1, <2>2
<1> QED BY <1>1, <1>2 DEF SyncInv

LEMMA StillSync == ASSUME SyncInv, UNCHANGED vars PROVE SyncInv'
<1>1. UNCHANGED <<taken, script, rects, rect, dec, kept, inflated, misread, pc, conn>>
  BY DEF vars, queue, loop, server, history
<1>2. Stopped => Stopped' BY <1>1 DEF Stopped
<1> QED BY <1>1, <1>2, NothingRead DEF SyncInv, Turned

LEMMA QuietSync ==
    ASSUME IInv, SyncInv,
           \/ ServerWrites \/ (\E n \in 1 .. MaxGrow : Arrive(n)) \/ ResumeUpdate
           \/ NextMessage \/ DecoderStarves \/ DecoderFails \/ UpdateDone \/ Flushed
           \/ (\E w \in Decoding : Load(w) \/ Break(w))
    PROVE  SyncInv'
<1>1. CASE ServerWrites
  <2>1. UNCHANGED <<taken, script, rects, rect, dec, kept, inflated, misread, pc, conn>>
    BY <1>1 DEF ServerWrites, queue, loop, history
  <2>2. Stopped => Stopped' BY <2>1 DEF Stopped
  <2> QED BY <2>1, <2>2, NothingRead DEF SyncInv, Turned
<1>2. ASSUME NEW n \in 1 .. MaxGrow, Arrive(n) PROVE SyncInv'
  <2>1. UNCHANGED <<taken, script, rects, rect, dec, kept, inflated, misread>>
    BY <1>2 DEF Arrive, RecvMessage, Fits, ExpandCompact, Overrun, server, history
  <2>2. Synced BY <1>2 DEF Arrive, SyncInv, Stopped
  <2>3. Turned BY <1>2 DEF Arrive, Turned, Handling
  <2> QED BY <2>1, <2>2, <2>3, NothingRead
<1>3. CASE ResumeUpdate
  <2>1. UNCHANGED <<taken, script, rects, rect, dec, kept, inflated, misread>>
    BY <1>3 DEF ResumeUpdate, queue, rest, server, history
  <2>2. Synced /\ Turned BY <1>3 DEF ResumeUpdate, SyncInv, Stopped, Turned, Handling
  <2> QED BY <2>1, <2>2, NothingRead
<1>4. CASE NextMessage
  <2>1. UNCHANGED <<taken, script, rects, rect, dec, kept, inflated, misread>>
    BY <1>4 DEF NextMessage, queue, rest, server, history
  <2>2. Synced /\ Turned BY <1>4 DEF NextMessage, SyncInv, Stopped, Turned, Handling
  <2> QED BY <2>1, <2>2, NothingRead
<1>5. CASE DecoderStarves
  <2>1. UNCHANGED <<taken, script, rects, rect, dec, kept, inflated, misread>>
    BY <1>5 DEF DecoderStarves, queue, rest, server, history
  <2>2. Synced /\ Turned BY <1>5 DEF DecoderStarves, AtRect, SyncInv, Stopped, Turned, Handling
  <2> QED BY <2>1, <2>2, NothingRead
<1>6. CASE DecoderFails
  <2>1. UNCHANGED <<taken, script, rects, rect, dec, kept, inflated, misread>>
    BY <1>6 DEF DecoderFails, queue, rest, server, history
  <2>2. Stopped' BY <1>6 DEF DecoderFails, Fail, Stopped
  <2> QED BY <2>1, <2>2, NothingRead
<1>7. CASE UpdateDone
  <2>1. UNCHANGED <<taken, script, rects, rect, dec, kept, inflated, misread>>
    BY <1>7 DEF UpdateDone, queue, rest, history
  <2>2. Synced /\ Turned BY <1>7 DEF UpdateDone, SyncInv, Stopped, Turned, Handling
  <2> QED BY <2>1, <2>2, NothingRead
<1>8. CASE Flushed
  <2>1. UNCHANGED <<taken, script, rects, rect, dec, kept, inflated, misread, conn>>
    BY <1>8 DEF Flushed, queue, rest, server, history
  <2>2. Turned BY <1>8 DEF Flushed, Turned, Handling
  <2>3. Stopped => Stopped' BY <1>8, <2>1 DEF Flushed, Stopped
  <2> QED BY <2>1, <2>2, <2>3, NothingRead DEF SyncInv
<1>9. ASSUME NEW w \in Decoding, Load(w) \/ Break(w) PROVE SyncInv'
  <2>1. UNCHANGED <<taken, script, rects, rect, dec, kept, inflated, misread, conn>>
    BY <1>9 DEF Load, Break, queue, rest, loop, server, history
  <2>2. pc = "idle" /\ pc' \in {"idle", "flushed"} BY <1>9 DEF Load, Break, loop
  <2>3. Turned BY <2>2 DEF Turned, Handling
  <2>4. Stopped => Stopped' BY <2>1, <2>2 DEF Stopped
  <2> QED BY <2>1, <2>3, <2>4, NothingRead DEF SyncInv
<1> QED BY <1>1, <1>2, <1>3, <1>4, <1>5, <1>6, <1>7, <1>8, <1>9

\* Where the loop stands in a message, and nothing between two.
LEMMA PlacesApart ==
    /\ DOMAIN Handling = {"header", "cuttext", "fence", "xvp"}
    /\ Handling["header"] = Outside("rects", "none")
    /\ Handling["cuttext"] = Outside("length", "text")
    /\ Handling["fence"] = Outside("flags", "none")
    /\ Handling["xvp"] = Outside("power", "none")
BY DEF Handling

LEMMA BetweenWants == Between(0).want = "type" /\ \A n : n # 0 => Between(n).want = "rect"
BY DEF Between, Place

\* A unit read between two messages is a type.
LEMMA TypeComes ==
    ASSUME IInv, SyncInv, pc = "loop", rects = 0
    PROVE  /\ Synced /\ misread = FALSE /\ Unit.role = "type" /\ Avail >= 1
           /\ Here(taken).place = Between(0) /\ Here(taken).blocks = inflated
           /\ Here(taken + 1).place = AfterType(Unit) /\ Here(taken + 1).blocks = inflated
           /\ rect = NoRect /\ dec = Start
<1>1. Synced /\ misread = FALSE /\ Avail >= 1
  BY DEF SyncInv, Stopped, IInv, LoopTypeOK, Ready
<1>2. rect = NoRect /\ dec = Start /\ Here(taken).blocks = inflated BY <1>1 DEF Synced
<1>3. Here(taken).place = Between(0) BY <1>1, <1>2, PlacesApart DEF Synced, ClientAt
<1>4. Leads(Here(taken), Unit, Here(taken + 1)) BY <1>1, FirstUnit
<1>5. inflated \in [Inflators -> Nat] BY DEF IInv, LoopTypeOK
<1>6. PICK a, b : a = Here(taken) /\ b = Here(taken + 1) OBVIOUS
<1>7. a.place.want = "type" BY <1>3, <1>6, BetweenWants
<1>8. Unit.role = "type" /\ b.place = After(a.place, Unit) /\ b.blocks = a.blocks
  BY <1>2, <1>4, <1>5, <1>6, <1>7, LeadsOn
<1>9. After(a.place, Unit) = AfterType(Unit) BY <1>7 DEF After
<1> QED BY <1>1, <1>2, <1>3, <1>6, <1>8, <1>9

LEMMA TypesSync ==
    ASSUME IInv, SyncInv, ReadType \/ Bell \/ EndOfContinuousUpdates \/ BadType
    PROVE  SyncInv'
<1>1. /\ pc = "loop" /\ rects = 0 /\ Reads(<<"type">>)
      /\ UNCHANGED <<script, rects, rect, dec, kept, inflated>>
  BY DEF ReadType, Bell, EndOfContinuousUpdates, BadType, rest, server
<1>2. /\ Synced /\ misread = FALSE /\ Unit.role = "type" /\ Avail >= 1
      /\ Here(taken).place = Between(0) /\ Here(taken).blocks = inflated
      /\ Here(taken + 1).place = AfterType(Unit) /\ Here(taken + 1).blocks = inflated
      /\ rect = NoRect /\ dec = Start
  BY <1>1, TypeComes
<1>3. misread' = FALSE /\ taken' = taken + 1
  <2>1. PICK role : role = "type" OBVIOUS
  <2>2. Reads(<<role>>) BY <1>1, <2>1
  <2> QED BY <1>2, <2>1, <2>2, ReadOne
<1>4. taken \in Nat /\ Unit = script[taken + 1] BY <1>2, FirstUnit
<1>5. /\ Here(taken)'.place = AfterType(Unit) /\ Here(taken)'.blocks = inflated'
      /\ Here(taken - 1)'.place = Between(0) /\ Here(taken - 1)'.blocks = inflated'
      /\ taken' > 0 /\ Possible(rect, dec)'
  <2>1. taken + 1 - 1 = taken BY <1>4
  <2> QED BY <1>1, <1>2, <1>3, <1>4, <2>1 DEF Here, Synced, Possible
<1>6. IsUpdate(taken)' <=> Unit.k = "update" BY <1>1, <1>2, <1>3, <1>4 DEF IsUpdate
<1>10. rect'.k = "none" BY <1>1, <1>2 DEF NoRect, Blank
<1>7. CASE ReadType
  <2>1. pc' = Handler[Unit.k] /\ Unit.k \in DOMAIN Handler BY <1>7 DEF ReadType
  <2>2. /\ pc' \in DOMAIN Handling /\ AfterType(Unit) = Handling[pc']
        /\ pc' = "header" <=> Unit.k = "update"
    BY <2>1, PlacesApart DEF Handler, AfterType
  <2>3. Synced' BY <1>1, <1>2, <1>5, <1>6, <1>10, <2>2, PlacesApart DEF Synced
  <2> QED BY <1>3, <2>3 DEF SyncInv
<1>8. CASE Bell \/ EndOfContinuousUpdates \/ (BadType /\ Unit.k # "colourmap")
  <2>1. pc' = "next" /\ AfterType(Unit) = Between(0)
    BY <1>8 DEF Bell, EndOfContinuousUpdates, BadType, AfterType, Handler
  <2>2. ClientAt(rects, rect, dec, Here(taken).place)'
    BY <1>1, <1>2, <1>5, <2>1 DEF ClientAt
  <2>3. Synced' BY <1>1, <1>2, <1>5, <1>10, <2>1, <2>2, PlacesApart DEF Synced
  <2> QED BY <1>3, <2>3 DEF SyncInv
<1>9. CASE BadType /\ Unit.k = "colourmap"
  <2>1. Stopped' BY <1>9 DEF BadType, Fail, Stopped
  <2> QED BY <1>3, <2>1 DEF SyncInv
<1> QED BY <1>7, <1>8, <1>9

\* A message that has not come whole: back to its type.
LEMMA StarvesSync == ASSUME IInv, SyncInv, MessageStarves PROVE SyncInv'
<1>1. /\ pc \in DOMAIN Handling /\ pc' = "idle" /\ taken' = taken - 1
      /\ UNCHANGED <<script, rects, rect, dec, kept, inflated, misread>>
  BY PlacesApart DEF MessageStarves, Starved, RQgoback, rest, server, history
<1>2. Synced BY <1>1, PlacesApart DEF SyncInv, Stopped
<1>3. rects = 0 /\ rect = NoRect /\ dec = Start /\ Possible(rect, dec)
  BY <1>1, <1>2 DEF Synced
<1>4. Here(taken - 1).place = Between(0) /\ Here(taken - 1).blocks = inflated
  BY <1>1, <1>2 DEF Synced
<1>5. Here(taken)'.place = Between(0) /\ Here(taken)'.blocks = inflated'
  BY <1>1, <1>4 DEF Here
<1>6. ClientAt(rects, rect, dec, Here(taken).place)' BY <1>1, <1>3, <1>5 DEF ClientAt
<1>7. Possible(rect, dec)' /\ rect'.k = "none" BY <1>1, <1>3 DEF Possible, NoRect, Blank
<1>8. Synced' BY <1>1, <1>3, <1>5, <1>6, <1>7, PlacesApart DEF Synced
<1> QED BY <1>1, <1>8 DEF SyncInv

\* Actions after which the loop is between two messages.
LEMMA MessageDone ==
    ASSUME SyncInv, Synced, rects = 0, UNCHANGED <<rects, rect, dec, kept, inflated>>,
           pc' \notin DOMAIN Handling \cup {"rects"}, misread' = FALSE,
           Here(taken)'.place = Between(0), Here(taken)'.blocks = inflated
    PROVE  SyncInv'
<1>1. rect = NoRect /\ dec = Start /\ Possible(rect, dec) BY DEF Synced
<1>2. ClientAt(rects, rect, dec, Here(taken).place)' BY <1>1 DEF ClientAt
<1>3. Possible(rect, dec)' /\ rect'.k = "none" BY <1>1 DEF Possible, NoRect, Blank
<1>4. Synced' BY <1>1, <1>2, <1>3 DEF Synced
<1> QED BY <1>4 DEF SyncInv

\* A message of two units or more.
LEMMA EnoughForTwo ==
    ASSUME IInv, ServerCutText \/ ServerFence
    PROVE  Avail >= 2 /\ pc \in {"cuttext", "fence"}
<1>1. Avail \in Nat BY AvailIsNat
<1>2. CASE ServerCutText BY <1>1, <1>2 DEF ServerCutText, RQwait
<1>3. CASE ServerFence
  <2>1. ~RQwait(2 + Upcoming.n) /\ pc = "fence" BY <1>3 DEF ServerFence
  <2>2. Upcoming.n \in Nat
    <3>1. CASE RQwait(1) BY <3>1 DEF Upcoming, Blank
    <3>2. CASE ~RQwait(1)
      <4>1. UnitOK(Unit) BY <3>2, WaitMeansLess, FirstUnit
      <4> QED BY <3>2, <4>1 DEF Upcoming, UnitOK
    <3> QED BY <3>1, <3>2
  <2> QED BY <1>1, <2>1, <2>2 DEF RQwait
<1> QED BY <1>2, <1>3

\* Until the stream goes astray, something known follows what is read.
LEMMA ReadsNoStray ==
    ASSUME NEW roles, Reads(roles), ~astray', NEW i \in 1 .. Len(roles)
    PROVE  ~script[Peek(i)].strays
BY DEF Reads, Strays

LEMMA NoStray ==
    ASSUME NEW a, NEW u, NEW b, Leads(a, u, b), a.place.want # "any", ~u.strays
    PROVE  b.place.want # "any"
BY DEF Leads

LEMMA BodyKeepsOn ==
    ASSUME IInv, SyncInv, ServerCutText \/ ServerFence, ~astray'
    PROVE  Here(taken + 1).place.want # "any"
<1>1. PICK roles : Reads(roles) /\ 1 \in 1 .. Len(roles)
  <2>1. Len(<<"length">>) = 1 /\ Len(<<"length", "text">>) = 2 /\ Len(<<"flags", "payload">>) = 2
    OBVIOUS
  <2>2. 1 \in 1 .. 1 /\ 1 \in 1 .. 2 OBVIOUS
  <2>3. CASE ServerCutText BY <2>1, <2>2, <2>3 DEF ServerCutText
  <2>4. CASE ServerFence BY <2>1, <2>2, <2>4 DEF ServerFence
  <2> QED BY <2>3, <2>4
<1>2. ~script[Peek(1)].strays BY <1>1, ReadsNoStray
<1>3. Leads(Here(taken), Unit, Here(taken + 1)) /\ Unit = script[Peek(1)]
  BY EnoughForTwo, AvailIsNat, FirstUnit DEF Unit
<1>4. Here(taken).place.want # "any"
  <2>1. pc \in {"cuttext", "fence"} BY EnoughForTwo
  <2>2. Synced BY <2>1 DEF SyncInv, Stopped
  <2> QED BY <2>1, <2>2, PlacesApart DEF Synced, Outside, Place
<1> QED BY <1>2, <1>3, <1>4, NoStray

LEMMA BodyWhole ==
    ASSUME IInv, SyncInv, ServerCutText, ~astray'
    PROVE  Reads(<<"length", "text">>)
<1>1. PICK p, q : p = Here(taken).place /\ q = Here(taken + 1).place OBVIOUS
<1>2. Synced /\ pc = "cuttext" BY DEF ServerCutText, SyncInv, Stopped
<1>3. p = Outside("length", "text") BY <1>1, <1>2, PlacesApart DEF Synced
<1>4. p.want = "length" /\ p.of = "text" BY <1>3 DEF Outside, Place
<1>5. q = After(p, Unit)
  <2>1. Leads(Here(taken), Unit, Here(taken + 1)) BY EnoughForTwo, AvailIsNat, FirstUnit
  <2> QED BY <1>1, <2>1 DEF Leads, NextStage, Stage
<1>6. q.want # "any" BY <1>1, BodyKeepsOn
<1>7. Unit.k \notin {"other", "bad"}
  BY <1>4, <1>5, <1>6 DEF After, AfterLength, Unsaid, Outside, Place
<1> QED BY <1>7 DEF ServerCutText

LEMMA BodiesSync ==
    ASSUME IInv, SyncInv, ServerCutText \/ ServerFence \/ Xvp, ~astray'
    PROVE  SyncInv'
<1>1. /\ pc \in DOMAIN Handling /\ pc # "header" /\ UNCHANGED <<script, rects, rect, dec, kept, inflated>>
      /\ pc' \in {"idle", "next"} /\ pc' \notin DOMAIN Handling \cup {"rects"}
  BY PlacesApart DEF ServerCutText, ServerFence, Xvp, rest, server
<1>2. Synced /\ misread = FALSE
  BY <1>1, PlacesApart DEF SyncInv, Stopped, IInv, LoopTypeOK
<1>3. rects = 0 /\ Here(taken).place = Handling[pc] /\ Here(taken).blocks = inflated
  BY <1>1, <1>2 DEF Synced
<1>4. inflated \in [Inflators -> Nat] BY DEF IInv, LoopTypeOK
<1>5. PICK a, b, c : a = Here(taken) /\ b = Here(taken + 1) /\ c = Here(taken + 2) OBVIOUS
<1>6. CASE Xvp
  <2>1. pc = "xvp" /\ Reads(<<"power">>) /\ Avail >= 1 BY <1>6, WaitMeansLess DEF Xvp
  <2>2. a.place.want = "power" BY <1>3, <1>5, <2>1, PlacesApart DEF Outside, Place
  <2>3. Leads(a, Unit, b) BY <1>5, <2>1, FirstUnit
  <2>4. Unit.role = "power" /\ b.place = After(a.place, Unit) /\ b.blocks = inflated
    BY <1>3, <1>4, <1>5, <2>2, <2>3, LeadsOn
  <2>5. b.place = Between(0) BY <2>2, <2>4 DEF After
  <2>6. misread' = FALSE /\ taken' = taken + 1
    <3>1. PICK role : role = "power" OBVIOUS
    <3> QED BY <1>2, <2>1, <2>4, <3>1, ReadOne
  <2>7. Here(taken)' = b BY <1>1, <1>5, <2>6 DEF Here
  <2> QED BY <1>1, <1>2, <1>3, <2>4, <2>5, <2>6, <2>7, MessageDone
<1>7. CASE ServerCutText \/ ServerFence
  <2>1. PICK first, second : /\ first = IF pc = "cuttext" THEN "length" ELSE "flags"
                             /\ second = IF pc = "cuttext" THEN "text" ELSE "payload"
    OBVIOUS
  <2>2. Avail >= 2 /\ pc \in {"cuttext", "fence"}
    BY <1>7, EnoughForTwo DEF ServerCutText, ServerFence
  <2>3. a.place.want = first BY <1>3, <1>5, <2>1, <2>2, PlacesApart DEF Outside, Place
  <2>4. Leads(a, Unit, b) /\ Leads(b, script[taken + 2], c) /\ Peek(2) = taken + 2
    BY <1>5, <2>2, AvailIsNat, FirstUnit, SecondUnit
  <2>5. Unit.role = first /\ b.place = After(a.place, Unit) /\ b.blocks = inflated
    BY <1>3, <1>4, <1>5, <2>1, <2>3, <2>4, LeadsOn
  <2>6. b.place.want # "any" BY <1>5, <1>7, BodyKeepsOn
  <2>7. Reads(<<first, second>>)
    <3>1. CASE ServerCutText
      <4>1. Reads(<<"length", "text">>) BY <3>1, BodyWhole
      <4> QED BY <2>1, <3>1, <4>1 DEF ServerCutText
    <3>2. CASE ServerFence BY <2>1, <3>2 DEF ServerFence
    <3> QED BY <1>7, <3>1, <3>2
  <2>8. b.place.want = second
    <3>1. CASE pc = "cuttext"
      <4>1. a.place = Outside("length", "text") BY <1>3, <1>5, <3>1, PlacesApart
      <4>2. a.place.want = "length" /\ a.place.of = "text" BY <4>1 DEF Outside, Place
      <4>3. b.place = AfterLength(a.place, Unit) BY <2>5, <4>2 DEF After
      <4> QED BY <2>1, <2>6, <3>1, <4>2, <4>3 DEF AfterLength, Unsaid, Outside, Inside, Place
    <3>2. CASE pc = "fence"
      <4>1. b.place = AfterFlags(Unit) BY <2>1, <2>3, <2>5, <3>2 DEF After
      <4> QED BY <2>1, <2>6, <3>2, <4>1 DEF AfterFlags, Unsaid, Outside, Place
    <3> QED BY <2>2, <3>1, <3>2
  <2>9. script[taken + 2].role = second /\ c.place = After(b.place, script[taken + 2])
        /\ c.blocks = inflated
    BY <1>4, <2>1, <2>4, <2>5, <2>8, LeadsOn
  <2>10. c.place = Between(0) BY <2>1, <2>8, <2>9 DEF After
  <2>11. misread' = FALSE /\ taken' = taken + 2 BY <1>2, <2>4, <2>5, <2>7, <2>9, ReadTwo
  <2>12. Here(taken)' = c BY <1>1, <1>5, <2>11 DEF Here
  <2> QED BY <1>1, <1>2, <1>3, <2>9, <2>10, <2>11, <2>12, MessageDone
<1> QED BY <1>6, <1>7

LEMMA UpdateHeaderSync == ASSUME IInv, SyncInv, UpdateHeader PROVE SyncInv'
<1>1. /\ pc = "header" /\ Reads(<<"rects">>) /\ Avail >= 1 /\ rects' = Unit.n
      /\ pc' \in {"idle", "rects"} /\ UNCHANGED <<script, rect, dec, kept, inflated>>
  BY WaitMeansLess DEF UpdateHeader, server
<1>2. Synced /\ misread = FALSE BY <1>1 DEF SyncInv, Stopped, IInv, LoopTypeOK
<1>3. /\ rect = NoRect /\ dec = Start /\ Possible(rect, dec)
      /\ Here(taken).place = Outside("rects", "none") /\ Here(taken).blocks = inflated
  BY <1>1, <1>2, PlacesApart DEF Synced
<1>4. inflated \in [Inflators -> Nat] BY DEF IInv, LoopTypeOK
<1>5. PICK a, b : a = Here(taken) /\ b = Here(taken + 1) OBVIOUS
<1>6. a.place.want = "rects" BY <1>3, <1>5 DEF Outside, Place
<1>7. Leads(a, Unit, b) /\ Unit = script[taken + 1] /\ taken \in Nat BY <1>1, <1>5, FirstUnit
<1>8. Unit.role = "rects" /\ b.place = After(a.place, Unit) /\ b.blocks = inflated
  BY <1>3, <1>4, <1>5, <1>6, <1>7, LeadsOn
<1>9. b.place = Between(Unit.n) BY <1>6, <1>8 DEF After
<1>10. misread' = FALSE /\ taken' = taken + 1
  <2>1. PICK role : role = "rects" OBVIOUS
  <2> QED BY <1>1, <1>2, <1>8, <2>1, ReadOne
<1>11. Here(taken)' = b /\ taken' > 0 /\ script[taken]'.role = "rects"
  BY <1>1, <1>5, <1>7, <1>8, <1>10 DEF Here
<1>12. ClientAt(rects, rect, dec, Here(taken).place)' BY <1>1, <1>3, <1>9, <1>11 DEF ClientAt
<1>13. Possible(rect, dec)' /\ rect'.k = "none" BY <1>1, <1>3 DEF Possible, NoRect, Blank
<1>14. Synced'
  BY <1>1, <1>3, <1>8, <1>9, <1>11, <1>12, <1>13, PlacesApart DEF Synced
<1> QED BY <1>10, <1>14 DEF SyncInv

\* A decoder starts where the header leads.
LEMMA DecoderStarts ==
    ASSUME NEW r, NEW n, NEW p, p = AfterHeader(Header(r, n))
    PROVE  StandsAt(r, n, Start, p) /\ (r.k = "hextile" /\ r.n # 0 => p.of = "first")
<1> DEFINE h == Header(r, n)
<1>1. h.kind = r.k /\ h.size = r.n BY HeaderIs
<1>2. CASE r.k = "hextile" /\ r.n # 0
  <2>1. p = Inside(h, "tile", "first", h.size) BY <1>1, <1>2 DEF AfterHeader
  <2>2. p.of = "first" BY <2>1 DEF Inside, Place
  <2> QED BY <1>2, <2>1, <2>2 DEF StandsAt, HextilePlace, Start
<1>3. CASE ~(r.k = "hextile" /\ r.n # 0)
  <2>1. DecoderPlace(h, Start) = AfterHeader(h)
    BY DEF DecoderPlace, AfterHeader, Start, TightPlace, TightPNGPlace
  <2> QED BY <1>3, <2>1 DEF StandsAt
<1> QED BY <1>2, <1>3

LEMMA RectHeaderSync == ASSUME IInv, SyncInv, RectHeader PROVE SyncInv'
<1>1. /\ pc = "rects" /\ rects > 0 /\ rect = NoRect
      /\ UNCHANGED <<script, rects, dec, kept, inflated>>
  BY DEF RectHeader, server
<1>2. Synced /\ misread = FALSE BY <1>1 DEF SyncInv, Stopped, IInv, LoopTypeOK
<1>3. CASE RQwait(1)
  <2>1. UNCHANGED <<taken, rect, misread>> /\ pc' = "idle" BY <1>3 DEF RectHeader, queue
  <2>2. Turned BY <1>1, <2>1, PlacesApart DEF Turned
  <2> QED BY <1>1, <1>2, <2>1, <2>2, NothingRead
<1>4. CASE ~RQwait(1)
  <2>1. Reads(<<"rect">>) /\ rect' = Unit /\ pc' = pc /\ Avail >= 1
    BY <1>4, WaitMeansLess DEF RectHeader
  <2>2. dec = Start /\ Here(taken).blocks = inflated /\ Here(taken).place = Between(rects)
    BY <1>1, <1>2, PlacesApart DEF Synced, ClientAt
  <2>3. inflated \in [Inflators -> Nat] /\ rects \in Nat BY DEF IInv, LoopTypeOK
  <2>4. PICK a, b : a = Here(taken) /\ b = Here(taken + 1) OBVIOUS
  <2>5. a.place.want = "rect" /\ a.place.rects = rects
    BY <1>1, <2>2, <2>3, <2>4 DEF Between, Place
  <2>6. Leads(a, Unit, b) /\ Unit = script[taken + 1] /\ taken \in Nat BY <2>1, <2>4, FirstUnit
  <2>7. Unit.role = "rect" /\ b.place = After(a.place, Unit) /\ b.blocks = inflated
    BY <2>2, <2>3, <2>4, <2>5, <2>6, LeadsOn
  <2>8. After(a.place, Unit) = AfterHeader(Header(Unit, rects))
    BY <2>5 DEF After, Header
  <2>9. misread' = FALSE /\ taken' = taken + 1
    <3>1. PICK role : role = "rect" OBVIOUS
    <3> QED BY <1>2, <2>1, <2>7, <3>1, ReadOne
  <2>10. Here(taken)' = b /\ taken' > 0 /\ script[taken]'.role = "rect"
    BY <1>1, <2>4, <2>6, <2>7, <2>9 DEF Here
  <2>11. rect' # NoRect BY <2>1, <2>7 DEF NoRect, Blank
  <2>12. /\ ClientAt(rects, rect, dec, Here(taken).place)'
         /\ (rect.k = "hextile" /\ rect.n # 0 => Knows(kept, Here(taken).place.of))'
    <3>1. PICK p : p = AfterHeader(Header(Unit, rects)) OBVIOUS
    <3>2. StandsAt(Unit, rects, Start, p)
          /\ (Unit.k = "hextile" /\ Unit.n # 0 => p.of = "first")
      BY <3>1, DecoderStarts
    <3>3. Here(taken)'.place = p BY <2>7, <2>8, <2>10, <3>1
    <3>4. Knows(kept', "first") BY DEF Knows
    <3>5. rect' = Unit /\ rects' = rects /\ dec' = Start BY <1>1, <2>1, <2>2
    <3>6. ClientAt(rects', rect', dec', p) BY <2>11, <3>2, <3>5 DEF ClientAt
    <3> QED BY <3>2, <3>3, <3>4, <3>5, <3>6
  <2>13. Possible(rect, dec)' BY <1>1, <2>2 DEF Possible, Start
  <2>14. Synced'
    BY <1>1, <2>1, <2>3, <2>7, <2>8, <2>10, <2>11, <2>12, <2>13, PlacesApart DEF Synced
  <2> QED BY <2>9, <2>14 DEF SyncInv
<1> QED BY <1>3, <1>4

LEMMA RoleWanted ==
    \A a \in DecoderRoles : a # "any" /\ a \notin {"type", "text", "payload", "power"}
BY DEF DecoderRoles

LEMMA StepLength ==
    ASSUME IInv PROVE Len(CurrentStep.reads) \in Nat /\ Upcoming.n \in Nat
<1>1. Upcoming.n \in Nat
  <2>1. CASE RQwait(1) BY <2>1 DEF Upcoming, Blank
  <2>2. CASE ~RQwait(1)
    <3>1. UnitOK(Unit) BY <2>2, WaitMeansLess, FirstUnit
    <3> QED BY <2>2, <3>1 DEF Upcoming, UnitOK
  <2> QED BY <2>1, <2>2
<1>2. rect.n \in Nat /\ dec.left \in Nat BY DEF IInv, LoopTypeOK
<1>3. StepOK(CurrentStep) BY <1>1, <1>2, DecodeRectIsOK DEF CurrentStep
<1> QED BY <1>1, <1>3 DEF StepOK

\* Until the rectangle is over, its kind is that of the place.
LEMMA KindStands ==
    ASSUME NEW r, NEW n, NEW d, NEW p, StandsAt(r, n, d, p), p.want \in DecoderRoles
    PROVE  p.kind = r.k
<1> DEFINE h == Header(r, n)
<1>1. \A want, of, left : Inside(h, want, of, left).kind = r.k BY HeaderIs DEF Inside, Place
<1>2. Between(n - 1).want \notin DecoderRoles /\ Between(0).want \notin DecoderRoles
      /\ Unsaid.want \notin DecoderRoles /\ RectDone(h) = Between(n - 1)
  BY HeaderIs DEF Between, Unsaid, Outside, Place, DecoderRoles, RectDone
<1> HIDE DEF h
<1>3. CASE r.k = "hextile" /\ r.n # 0 BY <1>1, <1>3 DEF StandsAt, HextilePlace, h
<1>4. CASE ~(r.k = "hextile" /\ r.n # 0)
  <2>1. p = DecoderPlace(h, d) BY <1>4 DEF StandsAt, h
  <2>2. p = AfterHeader(h) => p.kind = r.k BY <1>1, <1>2 DEF AfterHeader
  <2>3. p = TightData(h) => p.kind = r.k BY <1>1, <1>2 DEF TightData
  <2>4. p = TightPlace(h, d) => p.kind = r.k BY <1>1, <1>2, <2>3 DEF TightPlace
  <2>5. p = TightPNGPlace(h, d) => p.kind = r.k BY <1>1, <1>2, <2>4 DEF TightPNGPlace
  <2> QED BY <1>1, <2>1, <2>2, <2>4, <2>5 DEF DecoderPlace
<1> QED BY <1>3, <1>4

\* What is true when a decoder takes a step: it is in turn with the stream.
LEMMA DecoderTurns ==
    ASSUME IInv, SyncInv, DecodeStep
    PROVE  /\ Synced /\ misread = FALSE /\ rects > 0 /\ rect # NoRect /\ pc = "rects"
           /\ Here(taken).blocks = inflated
           /\ StandsAt(rect, rects, dec, Here(taken).place)
           /\ ~CurrentStep.fails
           /\ \A v : InTurn(rect, rects, Here(taken).place, CurrentStep, Upcoming, v)
<1>1. pc = "rects" /\ rects > 0 /\ rect # NoRect /\ ~CurrentStep.fails
  BY DEF DecodeStep, AtRect, Throws
<1>2. Synced /\ misread = FALSE BY <1>1 DEF SyncInv, Stopped, IInv, LoopTypeOK
<1>3. Here(taken).blocks = inflated /\ Possible(rect, dec) BY <1>2 DEF Synced
<1>4. StandsAt(rect, rects, dec, Here(taken).place)
  BY <1>1, <1>2, PlacesApart DEF Synced, ClientAt
<1>5. rect.n \in Nat /\ dec.left \in Nat BY DEF IInv, LoopTypeOK
<1>6. /\ Upcoming.n \in Nat
      /\ Here(taken).place.want = "ctl" => Upcoming.k \in Controls \cup {"none"}
  <2>1. CASE RQwait(1) BY <2>1 DEF Upcoming, Blank
  <2>2. CASE ~RQwait(1)
    <3>1. UnitOK(Unit) /\ Leads(Here(taken), Unit, Here(taken + 1))
      BY <2>2, WaitMeansLess, FirstUnit
    <3>2. Upcoming = Unit BY <2>2 DEF Upcoming
    <3> QED BY <3>1, <3>2 DEF UnitOK, Leads
  <2> QED BY <2>1, <2>2
<1>7. ASSUME NEW v
      PROVE  InTurn(rect, rects, Here(taken).place, CurrentStep, Upcoming, v)
  <2>1. rect.k = "hextile" /\ rect.n # 0 => Knows(kept, Here(taken).place.of)
    BY <1>2 DEF Synced
  <2>2. PICK p : p = Here(taken).place OBVIOUS
  <2>3. InTurn(rect, rects, p, DecodeRect(rect, dec, kept, Upcoming), Upcoming, v)
    BY <1>3, <1>4, <1>5, <1>6, <2>1, <2>2, DecodeRectInTurn
  <2> QED BY <2>2, <2>3 DEF CurrentStep
<1> QED BY <1>1, <1>2, <1>3, <1>4, <1>7

\* A step the stream does not go astray with.
LEMMA DecoderKeepsOn ==
    ASSUME IInv, SyncInv, DecodeStep, ~astray'
    PROVE  /\ ~Off(Here(taken).place, CurrentStep, Upcoming)
           /\ ~Overlooks(CurrentStep, Upcoming)
           /\ ~CurrentStep.stops
<1> DEFINE d == CurrentStep
           p == Here(taken).place
<1>1. /\ astray' = (astray \/ Strays(Len(d.reads)) \/ Overlooks(d, Upcoming))
      /\ ~RQwait(Len(d.reads))
  BY DEF DecodeStep
<1>2. ~Strays(Len(d.reads)) /\ ~Overlooks(d, Upcoming) BY <1>1
<1>3. ~Off(p, d, Upcoming)
  <2> SUFFICES ASSUME Off(p, d, Upcoming) PROVE FALSE OBVIOUS
  <2>1. p.want \in DecoderRoles /\ Len(d.reads) >= 1 /\ After(p, Upcoming).want = "any"
    BY DEF Off
  <2>2. Len(d.reads) \in Nat BY StepLength
  <2>3. 1 \in 1 .. Len(d.reads) BY <2>1, <2>2
  <2>4. ~Unit.strays BY <1>2, <2>3 DEF Strays, Unit
  <2>5. Avail >= 1 BY <1>1, <2>1, <2>2, AvailIsNat DEF RQwait
  <2>6. Upcoming = Unit BY <2>5, AvailIsNat DEF Upcoming, RQwait
  <2>7. Leads(Here(taken), Unit, Here(taken + 1)) BY <2>5, FirstUnit
  <2>8. Here(taken + 1).place = After(p, Unit) BY <2>7 DEF Leads, NextStage, Stage
  <2> QED BY <2>1, <2>4, <2>6, <2>7, <2>8, NoStray, RoleWanted
<1>4. ~d.stops
  <2>1. InTurn(rect, rects, p, d, Upcoming, Blank) /\ ~d.fails BY DecoderTurns
  <2> QED BY <1>2, <1>3, <2>1 DEF InTurn
<1> QED BY <1>2, <1>3, <1>4

\* What Hextile remembers after a step.
LEMMA StepKnows ==
    ASSUME IInv, SyncInv, DecodeStep, ~astray', rect.k = "hextile", rect.n # 0,
           ~CurrentStep.ends, NEW v, v = script[taken + 2], NEW q,
           q = IF Len(CurrentStep.reads) = 1 THEN After(Here(taken).place, Upcoming)
               ELSE After(After(Here(taken).place, Upcoming), v)
    PROVE  Knows(kept', q.of)
<1>1. PICK p, s, u : p = Here(taken).place /\ s = CurrentStep /\ u = Upcoming OBVIOUS
<1>2. /\ StandsAt(rect, rects, dec, p) /\ ~s.fails /\ Synced BY <1>1, DecoderTurns
<1>3. ~Off(p, s, u) BY <1>1, DecoderKeepsOn
<1>4. Knows(kept, p.of) BY <1>1, <1>2 DEF Synced
<1>5. s = Hextile(rect, dec, kept, u) BY <1>1 DEF CurrentStep, DecodeRect
<1>6. Len(s.reads) = 1 <=> u.k = "blank"
  <2>1. Len(<<"tile">>) = 1 /\ Len(<<"tile", "body">>) = 2 OBVIOUS
  <2>2. s = HextileTile(rect, dec, kept, u) BY <1>5 DEF Hextile
  <2>3. s.reads = IF u.k = "blank" THEN <<"tile">> ELSE <<"tile", "body">>
    BY <1>2, <2>2 DEF HextileTile, Piece, Step, LastStep, Throw
  <2> QED BY <2>1, <2>3
<1>7. q = IF u.k = "blank" THEN After(p, u) ELSE After(After(p, u), v) BY <1>1, <1>6
<1>8. Knows(Remembers(rect, dec, kept, u), q.of)
  BY <1>1, <1>2, <1>3, <1>4, <1>5, <1>7, TileRemembered
<1>9. kept' = Remembers(rect, dec, kept, u) BY <1>1 DEF DecodeStep
<1> QED BY <1>8, <1>9

LeadsThere(d, q) ==
    IF d.ends THEN q = Between(rects') ELSE StandsAt(rect, rects, d.next, q)

\* A step that ends where the stream is leaves the two in step.
LEMMA StepEndsInStep ==
    ASSUME Synced, pc = "rects", pc' = pc, rect # NoRect, rects > 0, rects \in Nat,
           NEW d, IF d.ends THEN d.next = Start ELSE Possible(rect, d.next),
           dec' = d.next, rect' = IF d.ends THEN NoRect ELSE rect, rects' \in Nat,
           ~d.ends => rects' = rects,
           LeadsThere(d, Here(taken)'.place),
           Here(taken)'.blocks = inflated', misread' = FALSE,
           rect.k = "hextile" /\ rect.n # 0 /\ ~d.ends => Knows(kept', Here(taken)'.place.of),
           taken' > 0, script[taken]'.role \notin {"type", "text", "payload", "power"}
    PROVE  SyncInv'
<1>1. CASE d.ends
  <2>1. /\ rect' = NoRect /\ dec' = Start /\ Here(taken)'.place = Between(rects')
    BY <1>1 DEF LeadsThere
  <2>2. ClientAt(rects, rect, dec, Here(taken).place)' BY <2>1 DEF ClientAt
  <2>3. Possible(rect, dec)' /\ rect'.k = "none" BY <2>1 DEF Possible, NoRect, Blank
  <2>4. Synced' BY <2>1, <2>2, <2>3, PlacesApart DEF Synced
  <2> QED BY <2>4 DEF SyncInv
<1>2. CASE ~d.ends
  <2>1. /\ rect' = rect /\ rects' = rects /\ dec' = d.next
        /\ StandsAt(rect, rects, d.next, Here(taken)'.place)
    BY <1>2 DEF LeadsThere
  <2>2. ClientAt(rects, rect, dec, Here(taken).place)' BY <2>1 DEF ClientAt
  <2>3. Possible(rect, dec)' BY <1>2, <2>1 DEF Possible
  <2>4. Synced' BY <1>2, <2>1, <2>2, <2>3, PlacesApart DEF Synced
  <2> QED BY <2>4 DEF SyncInv
<1> QED BY <1>1, <1>2

\* A compressed block comes in the context it was made in.
LEMMA ContextKept ==
    ASSUME NEW a, NEW u, NEW b, Leads(a, u, b), a.place.want # "any", a.blocks = inflated
    PROVE  /\ ~OutOfContext(u) /\ u.role = a.place.want
           /\ b.place = After(a.place, u) /\ b.blocks = Deflated(a.place, inflated, u)
BY DEF Leads, NextStage, Stage, OutOfContext

LEMMA InflatesAsDeflated ==
    ASSUME NEW u, Inflates(u), NEW p, p.kind = rect.k \/ u.z = {}
    PROVE  inflated' = Deflated(p, inflated, u)
BY DEF Inflates, Deflated

LEMMA DecodeStepSync == ASSUME IInv, SyncInv, DecodeStep, ~astray' PROVE SyncInv'
<1> DEFINE d == CurrentStep
           p == Here(taken).place
<1>1. /\ Synced /\ misread = FALSE /\ rects > 0 /\ rect # NoRect /\ pc = "rects"
      /\ Here(taken).blocks = inflated /\ ~d.fails /\ StandsAt(rect, rects, dec, p)
      /\ \A v : InTurn(rect, rects, p, d, Upcoming, v)
  BY DecoderTurns
<1>13. ~Off(p, d, Upcoming) /\ ~Overlooks(d, Upcoming) /\ ~d.stops BY DecoderKeepsOn
<1>2. /\ RQshift(Len(d.reads)) /\ ~RQwait(Len(d.reads))
      /\ dec' = d.next /\ rect' = (IF d.ends THEN NoRect ELSE rect)
      /\ rects' = (IF ~d.ends THEN rects ELSE IF rect.k = "lastrect" THEN 0 ELSE rects - 1)
      /\ UNCHANGED <<script, pc>>
  BY <1>13 DEF DecodeStep, server
<1>3. taken \in Nat /\ rects \in Nat /\ inflated \in [Inflators -> Nat] /\ rects' \in Nat
  BY <1>1, <1>2 DEF IInv, LoopTypeOK, QueueInv, QueueTypeOK
<1>4. taken > 0 /\ script[taken].role \notin {"type", "text", "payload", "power"}
  BY <1>1 DEF Synced
<1>5. IF d.ends THEN d.next = Start ELSE Possible(rect, d.next) BY <1>1, <1>13 DEF InTurn
<1>6. PICK last : /\ last = IF Len(d.reads) = 0 THEN Blank ELSE script[Peek(Len(d.reads))]
                  /\ Inflates(last)
                  /\ ReadAs(d.reads) /\ ~OutOfContext(last) => misread' = FALSE
  BY <1>1 DEF DecodeStep
<1>7. PICK v : v = script[taken + 2] OBVIOUS
<1>8. ReadsNone(rect, rects, p, d) \/ ReadsOne(rect, rects, p, d, Upcoming)
      \/ ReadsTwo(rect, rects, p, d, Upcoming, v)
  BY <1>1, <1>13 DEF InTurn
<1>9. \A reads : reads = <<>> => Len(reads) = 0
  OBVIOUS
<1>10. CASE ReadsNone(rect, rects, p, d)
  <2>1. Len(d.reads) = 0 /\ d.ends BY <1>10 DEF ReadsNone
  <2>2. Blank.role = "none" /\ Blank.z = {} BY DEF Blank
  <2>3. taken' = taken BY <1>2, <1>3, <2>1 DEF RQshift
  <2>4. misread' = FALSE
    <3>1. last = Blank BY <1>6, <2>1
    <3>2. ~OutOfContext(last) BY <2>2, <3>1 DEF OutOfContext
    <3>3. ReadAs(d.reads) BY <2>1 DEF ReadAs
    <3> QED BY <1>6, <3>2, <3>3
  <2>5. inflated' = inflated BY <1>3, <1>6, <2>1, <2>2 DEF Inflates
  <2>6. p = Between(rects') BY <1>2, <1>10, <2>1 DEF ReadsNone
  <2>7. Here(taken)' = Here(taken) /\ script[taken]' = script[taken] BY <1>2, <2>3 DEF Here
  <2>8. LeadsThere(d, Here(taken)'.place) BY <2>1, <2>6, <2>7 DEF LeadsThere
  <2> HIDE DEF d
  <2> QED
    BY <1>1, <1>2, <1>3, <1>4, <1>5, <2>1, <2>3, <2>4, <2>5, <2>7, <2>8, StepEndsInStep
<1>11. CASE ReadsOne(rect, rects, p, d, Upcoming)
  <2>1. Len(d.reads) = 1 /\ d.reads = <<p.want>> /\ p.want \in DecoderRoles
    BY <1>11 DEF ReadsOne
  <2>2. Avail >= 1 /\ Upcoming = Unit BY <1>2, <2>1, WaitMeansLess DEF Upcoming
  <2>3. /\ Leads(Here(taken), Unit, Here(taken + 1)) /\ Peek(1) = taken + 1
        /\ Unit = script[taken + 1]
    BY <2>2, FirstUnit
  <2>4. /\ ~OutOfContext(Unit) /\ Unit.role = p.want
        /\ Here(taken + 1).place = After(p, Unit)
        /\ Here(taken + 1).blocks = Deflated(p, inflated, Unit)
    BY <1>1, <2>1, <2>3, ContextKept, RoleWanted
  <2>5. taken' = taken + 1 BY <1>2, <2>1 DEF RQshift
  <2>6. misread' = FALSE
    <3>1. ReadAs(d.reads) BY <2>1, <2>4 DEF ReadAs, Unit
    <3>2. last = Unit BY <1>6, <2>1 DEF Unit
    <3> QED BY <1>6, <2>4, <3>1, <3>2
  <2>7. inflated' = Deflated(p, inflated, Unit)
    <3>1. p.kind = rect.k BY <1>1, <2>1, KindStands
    <3> QED BY <1>6, <2>1, <3>1, InflatesAsDeflated DEF Unit
  <2>8. Here(taken)' = Here(taken + 1) /\ script[taken]' = Unit BY <1>2, <2>3, <2>5 DEF Here
  <2>9. Unit.role \notin {"type", "text", "payload", "power"} BY <2>1, <2>4, RoleWanted
  <2>10. LeadsThere(d, After(p, Unit))
    BY <1>2, <1>11, <2>2 DEF ReadsOne, LeadsTo, LeadsThere
  <2>11. rect.k = "hextile" /\ rect.n # 0 /\ ~d.ends => Knows(kept', After(p, Unit).of)
    <3>1. SUFFICES ASSUME rect.k = "hextile", rect.n # 0, ~d.ends
                   PROVE  Knows(kept', After(p, Unit).of)
      OBVIOUS
    <3>2. PICK q : q = After(p, Unit) OBVIOUS
    <3> QED BY <1>7, <2>1, <2>2, <3>1, <3>2, StepKnows
  <2>12. /\ Here(taken)'.place = After(p, Unit)
         /\ Here(taken)'.blocks = inflated' /\ taken' > 0
         /\ script[taken]'.role \notin {"type", "text", "payload", "power"}
    BY <1>3, <2>4, <2>5, <2>7, <2>8, <2>9
  <2> HIDE DEF d
  <2> QED BY <1>1, <1>2, <1>3, <1>5, <2>6, <2>10, <2>11, <2>12, StepEndsInStep
<1>12. CASE ReadsTwo(rect, rects, p, d, Upcoming, v)
  <2> DEFINE q == After(p, Upcoming)
  <2>1. /\ Len(d.reads) = 2 /\ d.reads = <<p.want, q.want>>
        /\ p.want \in DecoderRoles \ {"ctl", "block"}
        /\ q.want \in DecoderRoles \ {"ctl", "block"}
    BY <1>12 DEF ReadsTwo
  <2>2. Avail >= 2 BY <1>2, <2>1, WaitMeansLess
  <2>3. Upcoming = Unit BY <2>2, AvailIsNat DEF Upcoming, RQwait
  <2>4. /\ Leads(Here(taken), Unit, Here(taken + 1)) /\ Unit = script[taken + 1]
        /\ Leads(Here(taken + 1), v, Here(taken + 2)) /\ Peek(2) = taken + 2
    BY <1>7, <2>2, AvailIsNat, FirstUnit, SecondUnit
  <2>5. Unit.role = p.want /\ Here(taken + 1).place = q /\ Here(taken + 1).blocks = inflated
    <3>1. p.want # "any" /\ p.want \notin {"ctl", "block"} BY <2>1, RoleWanted
    <3> QED BY <1>1, <1>3, <2>3, <2>4, <3>1, LeadsOn
  <2>6. /\ ~OutOfContext(v) /\ v.role = q.want
        /\ Here(taken + 2).place = After(q, v)
        /\ Here(taken + 2).blocks = Deflated(q, inflated, v) /\ v.z = {}
    BY <2>1, <2>4, <2>5, ContextKept, RoleWanted DEF Leads, UnitOK
  <2>7. taken' = taken + 2 BY <1>2, <2>1 DEF RQshift
  <2>8. misread' = FALSE
    <3>1. script[Peek(1)].role = p.want /\ script[Peek(2)].role = q.want
      BY <1>7, <2>4, <2>5, <2>6 DEF Unit
    <3>2. PICK a, b : a = p.want /\ b = q.want OBVIOUS
    <3>3. d.reads = <<a, b>> BY <2>1, <3>2
    <3>4. ReadAs(d.reads) BY <3>1, <3>2, <3>3 DEF ReadAs
    <3>5. last = v BY <1>6, <1>7, <2>1, <2>4
    <3> QED BY <1>6, <2>6, <3>4, <3>5
  <2>9. inflated' = Deflated(q, inflated, v)
    BY <1>6, <1>7, <2>1, <2>4, <2>6, InflatesAsDeflated
  <2>10. Here(taken)' = Here(taken + 2) /\ script[taken]' = v BY <1>2, <1>7, <2>7 DEF Here
  <2>11. v.role \notin {"type", "text", "payload", "power"} BY <2>1, <2>6, RoleWanted
  <2>12. LeadsThere(d, After(q, v))
    BY <1>2, <1>12 DEF ReadsTwo, LeadsTo, LeadsThere
  <2>13. rect.k = "hextile" /\ rect.n # 0 /\ ~d.ends => Knows(kept', After(q, v).of)
    <3>1. SUFFICES ASSUME rect.k = "hextile", rect.n # 0, ~d.ends
                   PROVE  Knows(kept', After(q, v).of)
      OBVIOUS
    <3>2. PICK after : after = After(q, v) OBVIOUS
    <3> QED BY <1>7, <2>1, <3>1, <3>2, StepKnows
  <2>14. /\ Here(taken)'.place = After(q, v)
         /\ Here(taken)'.blocks = inflated' /\ taken' > 0
         /\ script[taken]'.role \notin {"type", "text", "payload", "power"}
    BY <1>3, <2>6, <2>7, <2>9, <2>10, <2>11
  <2> HIDE DEF d
  <2> QED BY <1>1, <1>2, <1>3, <1>5, <2>8, <2>12, <2>13, <2>14, StepEndsInStep
<1> QED BY <1>8, <1>10, <1>11, <1>12

LEMMA SyncInitially == Init => SyncInv
<1> SUFFICES ASSUME Init PROVE SyncInv OBVIOUS
<1>1. /\ taken = 0 /\ script \in Scripts /\ pc = "idle" /\ rects = 0 /\ rect = NoRect
      /\ dec = Start /\ inflated = [i \in Inflators |-> 0] /\ misread = FALSE
      /\ rect.k = "none"
  BY DEF Init, QueueInit, NoRect, Blank
<1>2. Here(taken).place = Between(0) /\ Here(taken).blocks = inflated
  BY <1>1, ScriptKept DEF Opening, Stage
<1>3. ClientAt(rects, rect, dec, Here(taken).place) BY <1>1, <1>2 DEF ClientAt
<1>4. Possible(rect, dec) BY <1>1 DEF Possible, Start
<1>5. Synced BY <1>1, <1>2, <1>3, <1>4, PlacesApart DEF Synced
<1> QED BY <1>1, <1>5 DEF SyncInv

LEMMA SyncStep == ASSUME IInv, SyncInv, [Next]_vars, ~astray' PROVE SyncInv'
<1>1. ASSUME Message PROVE SyncInv'
  BY <1>1, QuietSync, TypesSync, StarvesSync, BodiesSync DEF Message
<1>2. ASSUME Update PROVE SyncInv'
  BY <1>2, QuietSync, UpdateHeaderSync, RectHeaderSync, DecodeStepSync DEF Update
<1>3. CASE Task BY <1>1, <1>2, <1>3, QuietSync DEF Task
<1> QED BY <1>3, QuietSync, StillSync DEF Next

\* A stream that has gone astray stays so.
LEMMA AstrayStays == ASSUME [Next]_vars, astray PROVE astray'
<1>1. ASSUME Message PROVE astray'
  BY <1>1 DEF Message, ResumeUpdate, ReadType, Bell, EndOfContinuousUpdates, BadType, NextMessage,
              MessageStarves, ServerCutText, ServerFence, Xvp, Reads, history
<1>2. ASSUME Update PROVE astray'
  BY <1>2 DEF Update, UpdateHeader, RectHeader, DecoderStarves, DecoderFails, DecodeStep,
              UpdateDone, Reads, history
<1>3. CASE Task BY <1>1, <1>2, <1>3 DEF Task, Flushed, history
<1>4. CASE ServerWrites \/ (\E n \in 1 .. MaxGrow : Arrive(n))
  BY <1>4 DEF ServerWrites, Arrive, history
<1>5. CASE \E w \in Decoding : Load(w) \/ Break(w) BY <1>5 DEF Load, Break, history
<1>6. CASE UNCHANGED vars BY <1>6 DEF vars, history
<1> QED BY <1>3, <1>4, <1>5, <1>6 DEF Next

-----------------------------------------------------------------------------
\* What is drawn.

\* The places at which the server gives something to draw.
PaintingRoles == {"line", "background", "subrect", "body", "pixels", "source", "image",
                  "block", "segment", "tile"}

LEMMA NothingToPaint ==
    ASSUME NEW a, NEW u, NEW b, Leads(a, u, b), a.place.want # "any",
           a.place.want \notin PaintingRoles
    PROVE  ~u.paints
BY DEF Leads, Paints, PaintingRoles

Silent == PaintingRoles \cup {"any"}

LEMMA OneSilent ==
    ASSUME IInv, Avail >= 1, Here(taken).place.want \notin Silent,
           taken' = taken + 1, UNCHANGED script
    PROVE  Painting(taken)' = Painting(taken)
<1>1. /\ Leads(Here(taken), script[taken + 1], Here(taken + 1)) /\ taken \in Nat
  BY FirstUnit
<1>2. ~script[taken + 1].paints BY <1>1, NothingToPaint DEF Silent
<1>3. 1 .. taken' = 1 .. taken \cup {taken + 1} BY <1>1
<1> QED BY <1>2, <1>3 DEF Painting

LEMMA TwoSilent ==
    ASSUME IInv, Avail >= 2, Here(taken).place.want \notin Silent,
           Here(taken + 1).place.want \notin Silent, taken' = taken + 2, UNCHANGED script
    PROVE  Painting(taken)' = Painting(taken)
<1>1. /\ Leads(Here(taken), script[taken + 1], Here(taken + 1)) /\ taken \in Nat
      /\ Leads(Here(taken + 1), script[taken + 2], Here(taken + 2))
  BY AvailIsNat, FirstUnit, SecondUnit
<1>2. ~script[taken + 1].paints /\ ~script[taken + 2].paints
  BY <1>1, NothingToPaint DEF Silent
<1>3. 1 .. taken' = 1 .. taken \cup {taken + 1, taken + 2} BY <1>1
<1> QED BY <1>2, <1>3 DEF Painting

\* Actions that read, or put back, nothing to be seen.
LEMMA HandlersWant ==
    ASSUME SyncInv, pc \in DOMAIN Handling
    PROVE  Synced /\ Here(taken).place = Handling[pc] /\ Handling[pc].want \notin Silent
<1>1. Synced BY PlacesApart DEF SyncInv, Stopped
<1>2. Handling[pc].want \in {"rects", "length", "flags", "power"}
  BY PlacesApart DEF Outside, Place
<1> QED BY <1>1, <1>2 DEF Synced, Silent, PaintingRoles

SawNothing ==
    /\ UNCHANGED <<issued, script, resizes>> /\ Painting(taken)' = Painting(taken)
    /\ taken' \in Nat
    /\ taken' >= taken \/ (taken' = taken - 1 /\ ~UpdateEnd(taken) /\ taken # 0)

LEMMA TypesSeeNothing ==
    ASSUME IInv, SyncInv, ReadType \/ Bell \/ EndOfContinuousUpdates \/ BadType
    PROVE  SawNothing
<1>1. /\ pc = "loop" /\ rects = 0 /\ taken' = taken + 1
      /\ UNCHANGED <<issued, script, resizes>>
  <2>1. Len(<<"type">>) = 1 OBVIOUS
  <2> QED BY <2>1 DEF ReadType, Bell, EndOfContinuousUpdates, BadType, display, server, Reads, RQshift
<1>2. Avail >= 1 /\ Here(taken).place.want = "type" BY <1>1, TypeComes, BetweenWants
<1>3. taken \in Nat BY <1>2, FirstUnit
<1>4. Painting(taken)' = Painting(taken)
  BY <1>1, <1>2, OneSilent DEF Silent, PaintingRoles
<1> QED BY <1>1, <1>3, <1>4 DEF SawNothing

LEMMA StarvesSeesNothing == ASSUME IInv, SyncInv, MessageStarves PROVE SawNothing
<1>1. /\ pc \in DOMAIN Handling /\ taken' = taken - 1 /\ UNCHANGED <<issued, script, resizes>>
  BY PlacesApart DEF MessageStarves, Starved, RQgoback, display, server, history
<1>2. taken > 0 /\ Here(taken - 1).place = Between(0) BY <1>1, HandlersWant DEF Synced
<1>3. taken \in Nat /\ script \in Scripts /\ taken <= Len(script)
  <2>1. /\ taken \in Nat /\ taken + Avail = arrived /\ Avail \in Nat /\ arrived <= written
        /\ arrived \in Nat /\ written \in 0 .. Len(script) /\ script \in Scripts
    BY StoredIsKept, AvailIsNat DEF IInv, StreamKept, LoopTypeOK, QueueInv, QueueTypeOK
  <2>2. Len(script) \in Nat BY <2>1, ScriptKept
  <2> QED BY <2>1, <2>2
<1>4. Leads(Here(taken - 1), script[taken], Here(taken))
  <2>1. taken \in 1 .. Len(script) BY <1>2, <1>3, ScriptKept
  <2> QED BY <1>3, <2>1, ScriptKept
<1>5. script[taken].role = "type" /\ ~script[taken].paints
  BY <1>2, <1>4, BetweenWants, NothingToPaint DEF Leads, PaintingRoles
<1>6. 1 .. taken = 1 .. taken' \cup {taken} BY <1>1, <1>2, <1>3
<1>7. Painting(taken)' = Painting(taken) BY <1>1, <1>5, <1>6 DEF Painting
<1> QED BY <1>1, <1>2, <1>3, <1>5, <1>7 DEF SawNothing, UpdateEnd

LEMMA BodiesSeeNothing ==
    ASSUME IInv, SyncInv, ServerCutText \/ ServerFence \/ Xvp \/ UpdateHeader, ~astray'
    PROVE  SawNothing
<1>1. /\ pc \in DOMAIN Handling /\ UNCHANGED <<issued, script, resizes>>
  BY PlacesApart DEF ServerCutText, ServerFence, Xvp, UpdateHeader, display, server
<1>2. Here(taken).place = Handling[pc] /\ Handling[pc].want \notin Silent
  BY <1>1, HandlersWant
<1>3. CASE Xvp \/ UpdateHeader
  <2>1. \A a : Len(<<a>>) = 1 OBVIOUS
  <2>2. taken' = taken + 1 /\ Avail >= 1
    BY <1>3, <2>1, WaitMeansLess DEF Xvp, UpdateHeader, Reads, RQshift
  <2>3. Painting(taken)' = Painting(taken) BY <1>1, <1>2, <2>2, OneSilent
  <2>4. taken \in Nat BY <2>2, FirstUnit
  <2> QED BY <1>1, <2>2, <2>3, <2>4 DEF SawNothing
<1>4. CASE ServerCutText \/ ServerFence
  <2>1. \A a, b : Len(<<a, b>>) = 2 OBVIOUS
  <2>2. Avail >= 2 /\ pc \in {"cuttext", "fence"} BY <1>4, EnoughForTwo
  <2>3. Leads(Here(taken), Unit, Here(taken + 1)) /\ taken \in Nat
    BY <2>2, AvailIsNat, FirstUnit
  <2>4. Here(taken + 1).place = After(Here(taken).place, Unit)
    BY <1>2, <2>3 DEF Leads, NextStage, Stage
  <2>5. Here(taken + 1).place.want \in {"text", "payload"} /\ taken' = taken + 2
    <3>1. PICK p, q : p = Here(taken).place /\ q = Here(taken + 1).place OBVIOUS
    <3>2. q = After(p, Unit) /\ q.want # "any" BY <1>4, <2>4, <3>1, BodyKeepsOn
    <3>3. CASE ServerCutText
      <4>1. p = Outside("length", "text") /\ pc = "cuttext"
        BY <1>2, <3>1, <3>3, PlacesApart DEF ServerCutText
      <4>2. p.want = "length" /\ p.of = "text" BY <4>1 DEF Outside, Place
      <4>3. q = AfterLength(p, Unit) BY <3>2, <4>2 DEF After
      <4>4. Unit.k \notin {"other", "bad"} /\ q.want = "text"
        BY <3>2, <4>2, <4>3 DEF AfterLength, Unsaid, Outside, Inside, Place
      <4> QED BY <2>1, <3>1, <3>3, <4>4 DEF ServerCutText, Reads, RQshift
    <3>4. CASE ServerFence
      <4>1. p = Outside("flags", "none") BY <1>2, <3>1, <3>4, PlacesApart DEF ServerFence
      <4>2. p.want = "flags" BY <4>1 DEF Outside, Place
      <4>3. q = AfterFlags(Unit) BY <3>2, <4>2 DEF After
      <4>4. q.want = "payload" BY <3>2, <4>3 DEF AfterFlags, Unsaid, Outside, Place
      <4> QED BY <2>1, <3>1, <3>4, <4>4 DEF ServerFence, Reads, RQshift
    <3> QED BY <1>4, <3>3, <3>4
  <2>6. Painting(taken)' = Painting(taken)
    BY <1>1, <1>2, <2>2, <2>5, TwoSilent DEF Silent, PaintingRoles
  <2> QED BY <1>1, <2>3, <2>5, <2>6 DEF SawNothing
<1> QED BY <1>3, <1>4 DEF SawNothing

LEMMA RectHeaderSeesNothing == ASSUME IInv, SyncInv, RectHeader PROVE SawNothing
<1>1. /\ pc = "rects" /\ rects > 0 /\ rect = NoRect /\ UNCHANGED <<issued, script, resizes>>
  BY DEF RectHeader, display, server
<1>2. Synced BY <1>1 DEF SyncInv, Stopped
<1>3. Here(taken).place = Between(rects) /\ rects \in Nat /\ taken \in Nat
  BY <1>1, <1>2, PlacesApart DEF Synced, ClientAt, IInv, LoopTypeOK, QueueInv, QueueTypeOK
<1>4. CASE RQwait(1)
  <2>1. taken' = taken BY <1>4 DEF RectHeader, queue
  <2> QED BY <1>1, <1>3, <2>1 DEF SawNothing, Painting
<1>5. CASE ~RQwait(1)
  <2>1. Len(<<"rect">>) = 1 OBVIOUS
  <2>2. taken' = taken + 1 /\ Avail >= 1
    BY <1>5, <2>1, WaitMeansLess DEF RectHeader, Reads, RQshift
  <2>3. Here(taken).place.want = "rect" BY <1>1, <1>3, BetweenWants
  <2>4. Painting(taken)' = Painting(taken)
    BY <1>1, <2>2, <2>3, OneSilent DEF Silent, PaintingRoles
  <2> QED BY <1>1, <1>3, <2>2, <2>4 DEF SawNothing
<1> QED BY <1>4, <1>5

LEMMA QuietSeesNothing ==
    ASSUME IInv,
           \/ ServerWrites \/ (\E n \in 1 .. MaxGrow : Arrive(n)) \/ ResumeUpdate
           \/ NextMessage \/ DecoderStarves \/ DecoderFails \/ Flushed
           \/ (\E w \in Decoding : Load(w) \/ Break(w)) \/ UNCHANGED vars
    PROVE  SawNothing
<1>1. taken \in Nat BY DEF IInv, QueueInv, QueueTypeOK
<1>2. UNCHANGED <<taken, issued, script, resizes>>
  <2>1. ASSUME NEW n \in 1 .. MaxGrow, Arrive(n) PROVE UNCHANGED <<taken, issued, script, resizes>>
    BY <2>1 DEF Arrive, RecvMessage, Fits, ExpandCompact, Overrun, display, server, history
  <2>2. ASSUME NEW w \in Decoding, Load(w) \/ Break(w)
        PROVE  UNCHANGED <<taken, issued, script, resizes>>
    BY <2>2 DEF Load, Break, ImageLoads, ImageBreaks, queue, server, history
  <2>3. ASSUME ServerWrites \/ ResumeUpdate \/ NextMessage \/ DecoderStarves \/ DecoderFails
               \/ Flushed \/ UNCHANGED vars
        PROVE  UNCHANGED <<taken, issued, script, resizes>>
    BY <2>3 DEF ServerWrites, ResumeUpdate, NextMessage, DecoderStarves, DecoderFails,
                Flushed, vars, queue, display, server, history
  <2> QED BY <2>1, <2>2, <2>3
<1> QED BY <1>1, <1>2 DEF SawNothing, Painting

LEMMA PaintsAsPlaced ==
    ASSUME NEW a, NEW u, NEW b, Leads(a, u, b), a.place.want # "any"
    PROVE  u.paints <=> Paints(a.place, u)
BY DEF Leads

\* What a decoder's step draws, and of what it has read.
Draws == CurrentStep.draws # NoDraw
LEMMA StepPaints ==
    ASSUME IInv, SyncInv, DecodeStep, ~astray'
    PROVE  /\ taken \in Nat /\ taken' \in Nat /\ taken' >= taken
           /\ ~Draws => Painting(taken)' = Painting(taken)
           /\ Draws => /\ Painting(taken)' = Painting(taken) \cup {taken'}
                       /\ taken' > taken /\ Peek(Len(CurrentStep.reads)) = taken'
<1> DEFINE d == CurrentStep
           p == Here(taken).place
<1>1. /\ \A v : InTurn(rect, rects, p, d, Upcoming, v)
      /\ ~d.fails /\ ~Off(p, d, Upcoming) /\ ~Overlooks(d, Upcoming)
  BY DecoderTurns, DecoderKeepsOn
<1>2. RQshift(Len(d.reads)) /\ ~RQwait(Len(d.reads)) /\ script' = script
  BY DEF DecodeStep, server
<1>3. taken \in Nat BY DEF IInv, QueueInv, QueueTypeOK
<1>4. PICK v : v = script[taken + 2] OBVIOUS
<1>5. ReadsNone(rect, rects, p, d) \/ ReadsOne(rect, rects, p, d, Upcoming)
      \/ ReadsTwo(rect, rects, p, d, Upcoming, v)
  BY <1>1 DEF InTurn
<1>6. CASE ReadsNone(rect, rects, p, d)
  <2>1. taken' = taken /\ ~Draws BY <1>2, <1>3, <1>6 DEF ReadsNone, RQshift, Draws
  <2> QED BY <1>2, <1>3, <2>1 DEF Painting
<1>7. CASE ReadsOne(rect, rects, p, d, Upcoming)
  <2>1. /\ Len(d.reads) = 1 /\ p.want \in DecoderRoles
        /\ Draws <=> Paints(p, Upcoming)
    BY <1>7 DEF ReadsOne, Draws
  <2>2. Avail >= 1 /\ Upcoming = Unit BY <1>2, <2>1, WaitMeansLess DEF Upcoming
  <2>3. Leads(Here(taken), Unit, Here(taken + 1)) /\ Peek(1) = taken + 1 /\ Unit = script[taken + 1]
    BY <2>2, FirstUnit
  <2>4. script[taken + 1].paints <=> Draws
    BY <2>1, <2>2, <2>3, RoleWanted DEF Leads
  <2>5. taken' = taken + 1 BY <1>2, <2>1 DEF RQshift
  <2>6. 1 .. taken' = 1 .. taken \cup {taken + 1} BY <1>3, <2>5
  <2>7. ~Draws => Painting(taken)' = Painting(taken) BY <1>2, <2>4, <2>6 DEF Painting
  <2>8. Draws => Painting(taken)' = Painting(taken) \cup {taken'}
    BY <1>2, <2>4, <2>5, <2>6 DEF Painting
  <2>9. Peek(Len(d.reads)) = taken' BY <2>1, <2>3, <2>5
  <2>10. taken' \in Nat /\ taken' > taken BY <1>3, <2>5
  <2> QED BY <1>3, <2>7, <2>8, <2>9, <2>10
<1>8. CASE ReadsTwo(rect, rects, p, d, Upcoming, v)
  <2> DEFINE q == After(p, Upcoming)
  <2>1. /\ Len(d.reads) = 2 /\ p.want \in DecoderRoles /\ q.want \in DecoderRoles
        /\ ~Paints(p, Upcoming)
        /\ Draws <=> Paints(q, v)
    BY <1>8 DEF ReadsTwo, Draws
  <2>2. Avail >= 2 BY <1>2, <2>1, WaitMeansLess
  <2>3. Upcoming = Unit BY <2>2, AvailIsNat DEF Upcoming, RQwait
  <2>4. /\ Leads(Here(taken), Unit, Here(taken + 1)) /\ Unit = script[taken + 1]
        /\ Leads(Here(taken + 1), v, Here(taken + 2)) /\ Peek(2) = taken + 2
    BY <1>4, <2>2, AvailIsNat, FirstUnit, SecondUnit
  <2>5. Here(taken + 1).place = q BY <2>3, <2>4 DEF Leads, NextStage, Stage
  <2>6. ~script[taken + 1].paints
    <3>1. p.want # "any" BY <2>1, RoleWanted
    <3>2. Unit.paints <=> Paints(p, Unit) BY <2>4, <3>1, PaintsAsPlaced
    <3> QED BY <2>1, <2>3, <2>4, <3>2
  <2>7. script[taken + 2].paints <=> Draws
    <3>1. q.want # "any" BY <2>1, RoleWanted
    <3>2. v.paints <=> Paints(q, v) BY <2>4, <2>5, <3>1, PaintsAsPlaced
    <3> QED BY <1>4, <2>1, <3>2
  <2>8. taken' = taken + 2 BY <1>2, <2>1 DEF RQshift
  <2>9. 1 .. taken' = 1 .. taken \cup {taken + 1, taken + 2} BY <1>3, <2>8
  <2>10. ~Draws => Painting(taken)' = Painting(taken) BY <1>2, <2>6, <2>7, <2>9 DEF Painting
  <2>11. Draws => Painting(taken)' = Painting(taken) \cup {taken'}
    BY <1>2, <2>6, <2>7, <2>8, <2>9 DEF Painting
  <2>12. Peek(Len(d.reads)) = taken' BY <2>1, <2>4, <2>8
  <2>13. taken' \in Nat /\ taken' > taken BY <1>3, <2>8
  <2> QED BY <1>3, <2>10, <2>11, <2>12, <2>13
<1> QED BY <1>5, <1>6, <1>7, <1>8

\* One more operation is handed over.
LEMMA AppendDraw ==
    ASSUME issued \in Seq(Operations), NEW op \in Operations, issued' = Append(issued, op),
           ~IsFlip(op)
    PROVE  DrawnBy(Len(issued))' = DrawnBy(Len(issued)) \cup {op.want}
<1>1. /\ Len(issued) \in Nat /\ Len(issued') = Len(issued) + 1
      /\ issued'[Len(issued) + 1] = op
      /\ \A i \in 1 .. Len(issued) : issued'[i] = issued[i]
  OBVIOUS
<1>2. 1 .. Len(issued') = 1 .. Len(issued) \cup {Len(issued) + 1} BY <1>1
<1> QED BY <1>1, <1>2 DEF DrawnBy

LEMMA AppendKeepsDrawn ==
    ASSUME issued \in Seq(Operations), NEW op \in Operations, issued' = Append(issued, op),
           NEW b \in 0 .. Len(issued)
    PROVE  DrawnBy(b)' = DrawnBy(b)
<1>1. /\ Len(issued) \in Nat
      /\ \A i \in 1 .. Len(issued) : issued'[i] = issued[i]
  OBVIOUS
<1>2. \A i \in 1 .. b : issued'[i] = issued[i] BY <1>1
<1> QED BY <1>2 DEF DrawnBy

LEMMA AppendFlip ==
    ASSUME issued \in Seq(Operations), issued' = Append(issued, Flip)
    PROVE  DrawnBy(Len(issued))' = DrawnBy(Len(issued))
<1>1. /\ Len(issued) \in Nat /\ Len(issued') = Len(issued) + 1
      /\ issued'[Len(issued) + 1] = Flip
      /\ \A i \in 1 .. Len(issued) : issued'[i] = issued[i]
  BY FlipIsOperation
<1>2. 1 .. Len(issued') = 1 .. Len(issued) \cup {Len(issued) + 1} BY <1>1
<1> QED BY <1>1, <1>2, FlipIsOperation DEF DrawnBy

\* DrawnAsSent, of operations that draw in order and from the right place.
InOrder(ops) ==
    \A i, j \in DOMAIN ops :
        i < j /\ ~IsFlip(ops[i]) /\ ~IsFlip(ops[j]) => ops[i].want < ops[j].want
Faithful(op) == op.got # op.want => op.kind = "view" /\ op.queued

LEMMA FlipKeepsPainting ==
    ASSUME IInv, DrawnAsSent, issued' = Append(issued, Flip),
           Painting(taken)' = Painting(taken)
    PROVE  DrawnAsSent'
<1>1. issued \in Seq(Operations) BY DEF IInv, DisplayInv, DisplayTypeOK
<1>2. DrawnBy(Len(issued))' = Painting(taken)' BY <1>1, AppendFlip DEF DrawnAsSent
<1>3. /\ Len(issued) \in Nat /\ DOMAIN issued = 1 .. Len(issued)
      /\ DOMAIN issued' = 1 .. Len(issued) + 1
      /\ issued'[Len(issued) + 1] = Flip
      /\ \A i \in 1 .. Len(issued) : issued'[i] = issued[i]
  BY <1>1, FlipIsOperation
<1>4. InOrder(issued) /\ \A i \in DOMAIN issued : Faithful(issued[i])
  BY DEF DrawnAsSent, InOrder, Faithful
<1>5. InOrder(issued') BY <1>3, <1>4, FlipIsOperation DEF InOrder
<1>6. Faithful(Flip) BY DEF Flip, Faithful
<1>7. \A i \in DOMAIN issued' : Faithful(issued'[i]) BY <1>3, <1>4, <1>6
<1> QED BY <1>2, <1>5, <1>7 DEF DrawnAsSent, InOrder, Faithful

LEMMA DrawKeepsPainting ==
    ASSUME IInv, DrawnAsSent, NEW op \in Operations, issued' = Append(issued, op),
           ~IsFlip(op), taken \in Nat, taken' \in Nat, op.want = taken', taken' > taken,
           Faithful(op), Painting(taken)' = Painting(taken) \cup {taken'}
    PROVE  DrawnAsSent'
<1>1. issued \in Seq(Operations) BY DEF IInv, DisplayInv, DisplayTypeOK
<1>2. DrawnBy(Len(issued))' = Painting(taken)' BY <1>1, AppendDraw DEF DrawnAsSent
<1>3. /\ Len(issued) \in Nat /\ DOMAIN issued = 1 .. Len(issued)
      /\ DOMAIN issued' = 1 .. Len(issued) + 1
      /\ issued'[Len(issued) + 1] = op
      /\ \A i \in 1 .. Len(issued) : issued'[i] = issued[i]
  BY <1>1
<1>4. InOrder(issued) /\ \A i \in DOMAIN issued : Faithful(issued[i])
  BY DEF DrawnAsSent, InOrder, Faithful
<1>5. ASSUME NEW i \in DOMAIN issued, ~IsFlip(issued[i]) PROVE issued[i].want < taken'
  <2>1. issued[i].want \in DrawnBy(Len(issued)) BY <1>3, <1>5 DEF DrawnBy
  <2>2. issued[i].want \in 1 .. taken BY <2>1 DEF DrawnAsSent, Painting
  <2> QED BY <2>2
<1>6. ASSUME NEW i \in DOMAIN issued', NEW j \in DOMAIN issued', i < j,
             ~IsFlip(issued'[i]), ~IsFlip(issued'[j])
      PROVE  issued'[i].want < issued'[j].want
  <2>1. i \in DOMAIN issued /\ issued'[i] = issued[i] BY <1>3, <1>6
  <2>2. CASE j \in DOMAIN issued
    <3>1. issued'[j] = issued[j] BY <1>3, <2>2
    <3> QED BY <1>4, <1>6, <2>1, <2>2, <3>1 DEF InOrder
  <2>3. CASE j \notin DOMAIN issued
    <3>1. issued'[j] = op BY <1>3, <2>3
    <3> QED BY <1>5, <1>6, <2>1, <3>1
  <2> QED BY <2>2, <2>3
<1>7. InOrder(issued') BY <1>6 DEF InOrder
<1>8. \A i \in DOMAIN issued' : Faithful(issued'[i]) BY <1>3, <1>4
<1> QED BY <1>2, <1>7, <1>8 DEF DrawnAsSent, InOrder, Faithful

LEMMA SawNothingKeepsPainting ==
    ASSUME DrawnAsSent, UNCHANGED issued, Painting(taken)' = Painting(taken)
    PROVE  DrawnAsSent'
<1>1. DrawnBy(Len(issued))' = DrawnBy(Len(issued)) BY DEF DrawnBy
<1> QED BY <1>1 DEF DrawnAsSent

\* A decoder's step hands over a draw, or the flip of a new size, or nothing.
LEMMA StepHandsOver ==
    ASSUME IInv, SyncInv, DecodeStep, ~astray'
    PROVE  \/ \E op \in Operations :
                 /\ Draws /\ ~IsFlip(op) /\ op.want = taken' /\ Faithful(op)
                 /\ issued' = Append(issued, op) /\ resizes' = resizes
           \/ /\ ~Draws /\ issued' = Append(issued, Flip)
              /\ resizes' = resizes \cup {Len(issued')}
           \/ ~Draws /\ issued' = issued /\ resizes' = resizes
<1> DEFINE d == CurrentStep
<1>1. CASE Draws
  <2>1. PICK w : w = Peek(Len(d.reads)) OBVIOUS
  <2>2. PICK op : op = Draw(d.draws, w, rQ[0]) OBVIOUS
  <2>3. HandOver(op) /\ resizes' = resizes BY <1>1, <2>1, <2>2 DEF DecodeStep, Draws
  <2>4. w = taken' /\ taken' \in Nat BY <1>1, <2>1, StepPaints
  <2>5. d.draws \in DrawKinds
    <3>1. Upcoming.n \in Nat
      <4>1. CASE RQwait(1) BY <4>1 DEF Upcoming, Blank
      <4>2. CASE ~RQwait(1)
        <5>1. UnitOK(Unit) BY <4>2, WaitMeansLess, FirstUnit
        <5> QED BY <4>2, <5>1 DEF Upcoming, UnitOK
      <4> QED BY <4>1, <4>2
    <3>2. rect.n \in Nat /\ dec.left \in Nat BY DEF IInv, LoopTypeOK
    <3>3. StepOK(d) BY <3>1, <3>2, DecodeRectIsOK DEF CurrentStep
    <3> QED BY <1>1, <3>3 DEF StepOK, Draws
  <2>6. rQ[0] \in Nat
    <3>1. 0 \in Slots BY BufferAssumption DEF Slots
    <3> QED BY <3>1 DEF IInv, QueueInv, QueueTypeOK
  <2>7. op \in Operations BY <2>2, <2>4, <2>5, <2>6 DEF Draw, Operations, Pending
  <2>8. ~IsFlip(op) BY <2>2, <2>5 DEF Draw, IsFlip, DrawKinds
  <2>9. op.want = taken' /\ Faithful(op)
    BY <2>2, <2>4 DEF Draw, Faithful
  <2>10. issued' = Append(issued, op) BY <2>3 DEF HandOver
  <2> QED BY <1>1, <2>3, <2>7, <2>8, <2>9, <2>10
<1>2. CASE ~Draws
  <2>1. \/ ChangeSize /\ resizes' = resizes \cup {Len(issued')}
        \/ UNCHANGED <<display, resizes>>
    BY <1>2 DEF DecodeStep, Draws
  <2> QED BY <1>2, <2>1 DEF ChangeSize, display
<1> QED BY <1>1, <1>2

LEMMA PaintInitially == Init => DrawnAsSent
<1> SUFFICES ASSUME Init PROVE DrawnAsSent OBVIOUS
<1>1. issued = <<>> /\ taken = 0 BY DEF Init, DisplayInit, QueueInit
<1>2. Len(<<>>) = 0 /\ DOMAIN <<>> = {} OBVIOUS
<1>3. DrawnBy(0) = {} /\ Painting(0) = {} BY DEF DrawnBy, Painting
<1> QED BY <1>1, <1>2, <1>3 DEF DrawnAsSent

\* All steps but those that hand over something.
LEMMA OthersSeeNothing ==
    ASSUME IInv, SyncInv, [Next]_vars, ~astray'
    PROVE  SawNothing \/ DecodeStep \/ UpdateDone
<1>1. ASSUME Message PROVE SawNothing
  BY <1>1, QuietSeesNothing, TypesSeeNothing, StarvesSeesNothing, BodiesSeeNothing DEF Message
<1>2. ASSUME Update PROVE SawNothing \/ DecodeStep \/ UpdateDone
  BY <1>2, QuietSeesNothing, BodiesSeeNothing, RectHeaderSeesNothing DEF Update
<1>3. CASE Task BY <1>1, <1>2, <1>3, QuietSeesNothing DEF Task
<1> QED BY <1>3, QuietSeesNothing DEF Next

LEMMA PaintStep == ASSUME IInv, SyncInv, DrawnAsSent, [Next]_vars, ~astray' PROVE DrawnAsSent'
<1>1. CASE SawNothing BY <1>1, SawNothingKeepsPainting DEF SawNothing
<1>2. CASE DecodeStep
  <2>1. /\ taken \in Nat /\ taken' \in Nat
        /\ ~Draws => Painting(taken)' = Painting(taken)
        /\ Draws => Painting(taken)' = Painting(taken) \cup {taken'} /\ taken' > taken
    BY <1>2, StepPaints
  <2>2. CASE Draws
    <3>1. PICK op \in Operations :
            ~IsFlip(op) /\ op.want = taken' /\ Faithful(op) /\ issued' = Append(issued, op)
      BY <1>2, <2>2, StepHandsOver
    <3> QED BY <2>1, <2>2, <3>1, DrawKeepsPainting
  <2>3. CASE ~Draws
    <3>1. issued' = Append(issued, Flip) \/ issued' = issued BY <1>2, <2>3, StepHandsOver
    <3> QED BY <2>1, <2>3, <3>1, FlipKeepsPainting, SawNothingKeepsPainting
  <2> QED BY <2>2, <2>3
<1>3. CASE UpdateDone
  <2>1. /\ issued' = Append(issued, Flip) /\ taken' = taken /\ script' = script
    BY <1>3 DEF UpdateDone, HandOver, queue
  <2>2. Painting(taken)' = Painting(taken) BY <2>1 DEF Painting
  <2> QED BY <2>1, <2>2, FlipKeepsPainting
<1> QED BY <1>1, <1>2, <1>3, OthersSeeNothing

-----------------------------------------------------------------------------
\* What is shown.

\* The screen after b operations: that of an update that has been read whole.
Complete(b) ==
    \E n \in 0 .. taken : (n = 0 \/ UpdateEnd(n)) /\ DrawnBy(b) = Painting(n)

LEMMA PaintingStays == ASSUME UNCHANGED script, NEW n PROVE Painting(n)' = Painting(n)
BY DEF Painting

LEMMA CompleteStays ==
    ASSUME NEW b, Complete(b), script' = script, taken \in Nat, taken' \in Nat,
           taken' >= taken \/ (taken' = taken - 1 /\ ~UpdateEnd(taken) /\ taken # 0),
           DrawnBy(b)' = DrawnBy(b)
    PROVE  Complete(b)'
<1>1. PICK n \in 0 .. taken : (n = 0 \/ UpdateEnd(n)) /\ DrawnBy(b) = Painting(n)
  BY DEF Complete
<1>2. n \in 0 .. taken' BY <1>1
<1>3. (n = 0 \/ UpdateEnd(n)') /\ DrawnBy(b)' = Painting(n)'
  BY <1>1, PaintingStays DEF UpdateEnd
<1> QED BY <1>2, <1>3 DEF Complete

LEMMA FlipsKept ==
    ASSUME FlipsWhole, UNCHANGED issued, resizes \subseteq resizes', script' = script,
           taken \in Nat, taken' \in Nat,
           taken' >= taken \/ (taken' = taken - 1 /\ ~UpdateEnd(taken) /\ taken # 0)
    PROVE  FlipsWhole'
<1> SUFFICES ASSUME NEW b \in DOMAIN issued', IsFlip(issued'[b])
             PROVE  b \in resizes' \/ Complete(b)'
  BY DEF FlipsWhole, Complete
<1>1. b \in resizes \/ Complete(b) BY DEF FlipsWhole, Complete
<1>2. DrawnBy(b)' = DrawnBy(b) BY DEF DrawnBy
<1> QED BY <1>1, <1>2, CompleteStays

\* One more operation that is a flip only of a whole update or a new size.
LEMMA FlipsKeptWithOne ==
    ASSUME IInv, FlipsWhole, NEW op \in Operations, issued' = Append(issued, op),
           resizes \subseteq resizes', script' = script, taken' \in Nat, taken' >= taken,
           NEW c, c = Len(issued'), IsFlip(op) => c \in resizes' \/ Complete(c)'
    PROVE  FlipsWhole'
<1>1. issued \in Seq(Operations) /\ taken \in Nat
  BY DEF IInv, DisplayInv, DisplayTypeOK, QueueInv, QueueTypeOK
<1>2. /\ Len(issued) \in Nat /\ DOMAIN issued = 1 .. Len(issued)
      /\ DOMAIN issued' = 1 .. Len(issued) + 1 /\ Len(issued') = Len(issued) + 1
      /\ issued'[Len(issued) + 1] = op
      /\ \A i \in 1 .. Len(issued) : issued'[i] = issued[i]
  BY <1>1
<1> SUFFICES ASSUME NEW b \in DOMAIN issued', IsFlip(issued'[b])
             PROVE  b \in resizes' \/ Complete(b)'
  BY DEF FlipsWhole, Complete
<1>3. CASE b \in DOMAIN issued
  <2>1. issued'[b] = issued[b] /\ b \in 0 .. Len(issued) BY <1>2, <1>3
  <2>2. b \in resizes \/ Complete(b) BY <1>3, <2>1 DEF FlipsWhole, Complete
  <2>3. DrawnBy(b)' = DrawnBy(b) BY <1>1, <2>1, AppendKeepsDrawn
  <2> QED BY <1>1, <2>2, <2>3, CompleteStays
<1>4. CASE b \notin DOMAIN issued
  <2>1. b = c /\ issued'[b] = op BY <1>2, <1>4
  <2> QED BY <2>1
<1> QED BY <1>3, <1>4

\* When the last rectangle is done, the server has said all of the update.
LEMMA UpdateIsWhole ==
    ASSUME IInv, SyncInv, UpdateDone
    PROVE  taken > 0 /\ UpdateEnd(taken)
<1>1. pc = "rects" /\ rects = 0 BY DEF UpdateDone
<1>2. Synced BY <1>1 DEF SyncInv, Stopped
<1>3. Here(taken).place = Between(0) BY <1>1, <1>2, PlacesApart DEF Synced, ClientAt
<1>4. taken > 0 /\ script[taken].role \notin {"type", "text", "payload", "power"}
  BY <1>1, <1>2 DEF Synced
<1>5. taken \in 1 .. Len(script) /\ script \in Scripts
  <2>1. /\ taken \in Nat /\ taken + Avail = arrived /\ Avail \in Nat /\ arrived <= written
        /\ arrived \in Nat /\ written \in 0 .. Len(script) /\ script \in Scripts
    BY StoredIsKept, AvailIsNat DEF IInv, StreamKept, LoopTypeOK, QueueInv, QueueTypeOK
  <2>2. Len(script) \in Nat BY <2>1, ScriptKept
  <2> QED BY <1>4, <2>1, <2>2
<1>6. Leads(Here(taken - 1), script[taken], Here(taken)) BY <1>5, ScriptKept
<1>7. script[taken].ends BY <1>3, <1>6, BetweenWants DEF Leads
<1> QED BY <1>4, <1>7 DEF UpdateEnd

LEMMA FlipsInitially == Init => FlipsWhole
BY DEF Init, DisplayInit, FlipsWhole

LEMMA FlipsStep ==
    ASSUME IInv, SyncInv, DrawnAsSent, FlipsWhole, [Next]_vars, ~astray' PROVE FlipsWhole'
<1>1. taken \in Nat BY DEF IInv, QueueInv, QueueTypeOK
<1>2. CASE SawNothing
  <2>1. /\ UNCHANGED issued /\ resizes' = resizes /\ script' = script /\ taken' \in Nat
        /\ taken' >= taken \/ (taken' = taken - 1 /\ ~UpdateEnd(taken) /\ taken # 0)
    BY <1>2 DEF SawNothing
  <2> QED BY <1>1, <2>1, FlipsKept
<1>3. CASE DecodeStep
  <2>1. taken' \in Nat /\ taken' >= taken BY <1>3, StepPaints
  <2>2. script' = script BY <1>3 DEF DecodeStep, server
  <2>3. CASE \E op \in Operations :
                 ~IsFlip(op) /\ issued' = Append(issued, op) /\ resizes' = resizes
    <3>1. PICK c : c = Len(issued') OBVIOUS
    <3> QED BY <2>1, <2>2, <2>3, <3>1, FlipsKeptWithOne
  <2>4. CASE issued' = Append(issued, Flip) /\ resizes' = resizes \cup {Len(issued')}
    <3>1. PICK c : c = Len(issued') OBVIOUS
    <3> QED BY <2>1, <2>2, <2>4, <3>1, FlipIsOperation, FlipsKeptWithOne
  <2>5. CASE issued' = issued /\ resizes' = resizes
    BY <1>1, <2>1, <2>2, <2>5, FlipsKept
  <2> QED BY <1>3, <2>3, <2>4, <2>5, StepHandsOver
<1>4. CASE UpdateDone
  <2>1. /\ issued' = Append(issued, Flip) /\ taken' = taken /\ script' = script
        /\ resizes' = resizes
    BY <1>4 DEF UpdateDone, HandOver, queue, history
  <2>2. issued \in Seq(Operations) BY DEF IInv, DisplayInv, DisplayTypeOK
  <2>3. DrawnBy(Len(issued))' = DrawnBy(Len(issued)) BY <2>1, <2>2, AppendFlip
  <2>4. PICK c : c = Len(issued') OBVIOUS
  <2>5. DrawnBy(c)' = Painting(taken)'
    BY <2>1, <2>3, <2>4 DEF DrawnAsSent, Painting, DrawnBy
  <2>6. taken' \in 0 .. taken' /\ UpdateEnd(taken)'
    BY <1>1, <1>4, <2>1, UpdateIsWhole DEF UpdateEnd
  <2>7. Complete(c)' BY <2>5, <2>6 DEF Complete
  <2> QED BY <1>1, <2>1, <2>4, <2>7, FlipIsOperation, FlipsKeptWithOne
<1> QED BY <1>2, <1>3, <1>4, OthersSeeNothing

LEMMA ShownIsWholeUpdates ==
    ASSUME IInv, FlipsWhole PROVE WholeUpdates
<1>1. PICK b \in Nat : Shown(b) BY DEF IInv, DisplayInv, ShownToFlip
<1>2. b \in 0 .. Len(executed) /\ visible = 1 .. b BY <1>1 DEF Shown
<1>3. taken \in Nat BY DEF IInv, QueueInv, QueueTypeOK
<1>4. b \in resizes \/ Complete(b)
  <2>1. CASE b = 0
    <3>1. DrawnBy(0) = {} /\ Painting(0) = {} BY DEF DrawnBy, Painting
    <3> QED BY <1>3, <2>1, <3>1 DEF Complete
  <2>2. CASE b > 0
    <3>1. /\ executed \in Seq(Operations) /\ renderQ \in Seq(Operations)
          /\ executed \o renderQ = issued
      BY DEF IInv, DisplayInv, DisplayTypeOK, DrawnInOrder
    <3>2. b \in DOMAIN issued /\ issued[b] = executed[b] BY <1>2, <2>2, <3>1
    <3>3. IsFlip(executed[b]) BY <1>1, <2>2 DEF Shown
    <3> QED BY <3>2, <3>3 DEF FlipsWhole, Complete
  <2> QED BY <2>1, <2>2
<1> QED BY <1>2, <1>4 DEF WholeUpdates, Complete

-----------------------------------------------------------------------------
\* What is asked for.

InUpdate == pc \in {"header", "rects"} \/ rects > 0

LEMMA TakenIsWritten ==
    IInv => /\ taken \in Nat /\ written \in Nat /\ taken <= written
            /\ script \in Scripts /\ written <= Len(script) /\ Len(script) \in Nat
<1> SUFFICES ASSUME IInv PROVE /\ taken \in Nat /\ written \in Nat /\ taken <= written
                               /\ script \in Scripts /\ written <= Len(script)
                               /\ Len(script) \in Nat
  OBVIOUS
<1>1. /\ taken \in Nat /\ taken + Avail = arrived /\ Avail \in Nat /\ arrived <= written
      /\ arrived \in Nat /\ written \in 0 .. Len(script) /\ script \in Scripts
  BY StoredIsKept, AvailIsNat DEF IInv, StreamKept, LoopTypeOK, QueueInv, QueueTypeOK
<1>2. Len(script) \in Nat BY <1>1, ScriptKept
<1> QED BY <1>1, <1>2

\* Steps that read no header of an update.
LEMMA AskedKept ==
    ASSUME IInv, AskedInv, script' = script, asked => asked', skipped => skipped',
           updates # "unsupported" => updates' # "unsupported",
           conn' = "connected" => conn = "connected", InUpdate => InUpdate',
           written' \in Nat, taken' \in Nat, written' >= written,
           \A i \in taken + 1 .. taken' : ~IsUpdate(i)
    PROVE  AskedInv'
<1> SUFFICES ASSUME conn' = "connected", ~asked', updates' = "unsupported", ~skipped',
                    ~InUpdate'
             PROVE  \E i \in taken' + 1 .. written' : IsUpdate(i)'
  BY DEF AskedInv, InUpdate
<1>1. PICK i \in taken + 1 .. written : IsUpdate(i) BY DEF AskedInv, InUpdate
<1>2. taken \in Nat /\ written \in Nat BY TakenIsWritten
<1>3. i \in taken' + 1 .. written'
  <2>1. ~(i <= taken') BY <1>1, <1>2
  <2>2. PICK t \in Nat, w \in Nat, w0 \in Nat : t = taken' /\ w = written' /\ w0 = written
    BY <1>2
  <2>3. i \in Int /\ i <= w0 /\ w0 <= w /\ ~(i <= t) BY <1>1, <1>2, <2>1, <2>2
  <2>4. i \in t + 1 .. w BY ONLY <2>3, t \in Nat, w \in Nat, w0 \in Nat
  <2> QED BY <2>2, <2>4
<1>4. IsUpdate(i)' BY <1>1 DEF IsUpdate
<1> QED BY <1>3, <1>4

LEMMA AskedInitially == Init => AskedInv
BY DEF Init, AskedInv

LEMMA ServerWritesAsked == ASSUME IInv, AskedInv, ServerWrites PROVE AskedInv'
<1>1. /\ written' \in written + 1 .. Len(script) /\ asked' = (asked /\ ~IsUpdate(written + 1))
      /\ UNCHANGED <<taken, script, conn, pc, rects, updates, skipped>>
  BY DEF ServerWrites, queue, loop, history
<1>2. taken \in Nat /\ written \in Nat /\ taken <= written /\ Len(script) \in Nat
  BY TakenIsWritten
<1>3. written' \in Nat /\ written' >= written BY <1>1, <1>2
<1>4. CASE asked => asked'
  BY <1>1, <1>2, <1>3, <1>4, AskedKept DEF InUpdate
<1>5. CASE IsUpdate(written + 1)
  <2>1. PICK i : i = written + 1 OBVIOUS
  <2>2. i \in taken' + 1 .. written' BY <1>1, <1>2, <2>1
  <2>3. IsUpdate(i)' BY <1>1, <1>5, <2>1 DEF IsUpdate
  <2> QED BY <2>2, <2>3 DEF AskedInv
<1> QED BY <1>1, <1>4, <1>5

LEMMA QuietAsked ==
    ASSUME IInv, AskedInv,
           \/ (\E n \in 1 .. MaxGrow : Arrive(n)) \/ ResumeUpdate
           \/ NextMessage \/ DecoderStarves \/ DecoderFails \/ Flushed
           \/ (\E w \in Decoding : Load(w) \/ Break(w)) \/ UNCHANGED vars
    PROVE  AskedInv'
<1>1. taken \in Nat /\ written \in Nat BY TakenIsWritten
<1>2. /\ UNCHANGED <<taken, written, script, asked, skipped, updates, rects>>
      /\ conn' = "connected" => conn = "connected"
      /\ InUpdate => InUpdate'
  <2>1. ASSUME NEW n \in 1 .. MaxGrow, Arrive(n)
        PROVE  /\ UNCHANGED <<taken, written, script, asked, skipped, updates, rects, conn>>
               /\ InUpdate => InUpdate'
    BY <2>1 DEF Arrive, RecvMessage, Fits, ExpandCompact, Overrun, server, history, InUpdate
  <2>2. ASSUME NEW w \in Decoding, Load(w) \/ Break(w)
        PROVE  /\ UNCHANGED <<taken, written, script, asked, skipped, updates, rects, conn>>
               /\ InUpdate => InUpdate'
    BY <2>2 DEF Load, Break, queue, loop, rest, server, history, InUpdate
  <2>3. ASSUME ResumeUpdate \/ NextMessage \/ DecoderStarves \/ Flushed \/ UNCHANGED vars
        PROVE  /\ UNCHANGED <<taken, written, script, asked, skipped, updates, rects, conn>>
               /\ InUpdate => InUpdate'
    BY <2>3 DEF ResumeUpdate, NextMessage, DecoderStarves, AtRect, Flushed, vars, queue, rest,
                loop, server, history, InUpdate
  <2>4. ASSUME DecoderFails
        PROVE  /\ UNCHANGED <<taken, written, script, asked, skipped, updates, rects>>
               /\ conn' # "connected"
               /\ InUpdate => InUpdate'
    BY <2>4 DEF DecoderFails, Fail, AtRect, queue, rest, server, history, InUpdate
  <2> QED BY <2>1, <2>2, <2>3, <2>4
<1>3. \A i \in taken + 1 .. taken' : ~IsUpdate(i) BY <1>1, <1>2
<1> QED BY <1>1, <1>2, <1>3, AskedKept

LEMMA TypesAsked ==
    ASSUME IInv, SyncInv, AskedInv, ReadType \/ Bell \/ EndOfContinuousUpdates \/ BadType
    PROVE  AskedInv'
<1>1. /\ pc = "loop" /\ rects = 0 /\ taken' = taken + 1
      /\ UNCHANGED <<written, script, asked, skipped, rects>>
  <2>1. Len(<<"type">>) = 1 OBVIOUS
  <2> QED
    BY <2>1 DEF ReadType, Bell, EndOfContinuousUpdates, BadType, Reads, RQshift, rest, server
<1>2. CASE ReadType /\ Unit.k = "update"
  <2>1. pc' = "header" BY <1>2 DEF ReadType, Handler
  <2> QED BY <2>1 DEF AskedInv
<1>3. CASE EndOfContinuousUpdates
  <2>1. updates' # "unsupported" BY <1>3 DEF EndOfContinuousUpdates
  <2> QED BY <2>1 DEF AskedInv
<1>4. CASE BadType BY <1>4 DEF BadType, Fail, AskedInv
<1>5. CASE (ReadType \/ Bell) /\ Unit.k # "update"
  <2>1. UNCHANGED <<conn, updates>> BY <1>5 DEF ReadType, Bell
  <2>2. Avail >= 1 BY <1>1, TypeComes
  <2>3. taken \in Nat /\ Unit = script[taken + 1] /\ written \in Nat
    BY <2>2, FirstUnit, TakenIsWritten
  <2>4. ~IsUpdate(taken + 1) BY <1>5, <2>3 DEF IsUpdate
  <2>5. \A i \in taken + 1 .. taken' : ~IsUpdate(i) BY <1>1, <2>3, <2>4
  <2>6. ~InUpdate /\ taken' \in Nat BY <1>1, <2>3 DEF InUpdate
  <2> QED BY <1>1, <2>1, <2>3, <2>5, <2>6, AskedKept
<1> QED BY <1>2, <1>3, <1>4, <1>5 DEF Bell

LEMMA StarvesAsked == ASSUME IInv, SyncInv, AskedInv, MessageStarves PROVE AskedInv'
<1>1. /\ pc \in DOMAIN Handling /\ pc' = "idle" /\ taken' = taken - 1
      /\ UNCHANGED <<written, script, asked, skipped, rects, updates, conn>>
  BY PlacesApart DEF MessageStarves, Starved, RQgoback, rest, server, history
<1>2. Synced /\ taken > 0 /\ rects = 0 BY <1>1, HandlersWant DEF Synced
<1>3. taken \in Nat /\ written \in Nat /\ taken <= written BY TakenIsWritten
<1>4. CASE pc = "header"
  <2>1. IsUpdate(taken) BY <1>1, <1>2, <1>4 DEF Synced
  <2>2. PICK i : i = taken OBVIOUS
  <2>3. i \in taken' + 1 .. written' BY <1>1, <1>2, <1>3, <2>2
  <2>4. IsUpdate(i)' BY <1>1, <2>1, <2>2 DEF IsUpdate
  <2> QED BY <2>3, <2>4 DEF AskedInv
<1>5. CASE pc # "header"
  <2>1. ~InUpdate BY <1>1, <1>2, <1>5, PlacesApart DEF InUpdate
  <2>2. taken' \in Nat /\ \A i \in taken + 1 .. taken' : ~IsUpdate(i) BY <1>1, <1>2, <1>3
  <2> QED BY <1>1, <1>3, <2>1, <2>2, AskedKept
<1> QED BY <1>4, <1>5

LEMMA BodiesAsked ==
    ASSUME IInv, SyncInv, AskedInv, ServerCutText \/ ServerFence \/ Xvp, ~astray'
    PROVE  AskedInv'
<1>1. /\ pc \in DOMAIN Handling /\ pc # "header"
      /\ UNCHANGED <<written, script, asked, skipped, rects, updates>>
  BY PlacesApart DEF ServerCutText, ServerFence, Xvp, rest, server
<1>2. Synced /\ rects = 0 BY <1>1, HandlersWant DEF Synced
<1>3. ~InUpdate BY <1>1, <1>2, PlacesApart DEF InUpdate
<1>4. taken \in Nat /\ written \in Nat BY TakenIsWritten
<1>5. conn' = "connected" => conn = "connected"
  BY DEF ServerCutText, ServerFence, Xvp, Fail
<1>6. misread' = FALSE BY BodiesSync DEF SyncInv
<1>7. taken' \in Nat /\ \A i \in taken + 1 .. taken' : ~IsUpdate(i)
  <2>1. CASE Xvp
    <3>1. Len(<<"power">>) = 1 /\ <<"power">>[1] = "power" OBVIOUS
    <3>2. Reads(<<"power">>) /\ Avail >= 1 BY <2>1, WaitMeansLess DEF Xvp
    <3>3. taken' = taken + 1 /\ ReadAs(<<"power">>)
      BY <1>6, <3>1, <3>2 DEF Reads, RQshift
    <3>4. script[taken + 1].role = "power" BY <3>1, <3>2, <3>3, FirstUnit DEF ReadAs, Unit
    <3>5. ~IsUpdate(taken + 1) BY <3>4 DEF IsUpdate
    <3> QED BY <1>4, <3>3, <3>5
  <2>2. CASE ServerCutText \/ ServerFence
    <3>1. PICK first, second : /\ first = IF pc = "cuttext" THEN "length" ELSE "flags"
                               /\ second = IF pc = "cuttext" THEN "text" ELSE "payload"
      OBVIOUS
    <3>2. /\ Len(<<first, second>>) = 2 /\ <<first, second>>[1] = first
          /\ <<first, second>>[2] = second
      OBVIOUS
    <3>3. Reads(<<first, second>>) /\ Avail >= 2
      <4>1. Avail >= 2 /\ pc \in {"cuttext", "fence"} BY <2>2, EnoughForTwo
      <4>2. CASE ServerCutText
        <5>1. ServerCutText => Reads(<<"length", "text">>) BY BodyWhole
        <5> QED BY <3>1, <4>1, <4>2, <5>1 DEF ServerCutText
      <4>3. CASE ServerFence BY <3>1, <4>1, <4>3 DEF ServerFence
      <4> QED BY <2>2, <4>2, <4>3
    <3>4. taken' = taken + 2 /\ ReadAs(<<first, second>>)
      BY <1>6, <3>2, <3>3 DEF Reads, RQshift
    <3>5. Peek(1) = taken + 1 /\ Peek(2) = taken + 2
      BY <3>3, AvailIsNat, FirstUnit, SecondUnit
    <3>6. script[taken + 1].role = first /\ script[taken + 2].role = second
      BY <3>2, <3>4, <3>5 DEF ReadAs
    <3>7. ~IsUpdate(taken + 1) /\ ~IsUpdate(taken + 2) BY <3>1, <3>6 DEF IsUpdate
    <3> QED BY <1>4, <3>4, <3>7
  <2> QED BY <2>1, <2>2
<1> QED BY <1>1, <1>3, <1>4, <1>5, <1>7, AskedKept

LEMMA UpdateAsked ==
    ASSUME IInv, SyncInv, AskedInv, UpdateHeader \/ RectHeader \/ DecodeStep \/ UpdateDone,
           ~astray'
    PROVE  AskedInv'
<1>1. CASE UpdateHeader
  <2>1. /\ Pending => skipped' \/ Unit.n # 0
        /\ rects' = Unit.n
        /\ ~Pending => pc' = "rects"
    BY <1>1 DEF UpdateHeader
  <2>2. Unit.n \in Nat
    <3>1. Avail >= 1 BY <1>1, WaitMeansLess DEF UpdateHeader
    <3> QED BY <3>1, FirstUnit DEF UnitOK
  <2> QED BY <2>1, <2>2 DEF AskedInv
<1>2. CASE RectHeader
  <2>1. rects' > 0 BY <1>2 DEF RectHeader
  <2> QED BY <2>1 DEF AskedInv
<1>3. CASE DecodeStep
  <2>1. pc' = "rects" BY <1>3, DecoderKeepsOn DEF DecodeStep, AtRect
  <2> QED BY <2>1 DEF AskedInv
<1>4. CASE UpdateDone
  <2>1. asked' \/ updates' # "unsupported" BY <1>4 DEF UpdateDone
  <2> QED BY <2>1 DEF AskedInv
<1> QED BY <1>1, <1>2, <1>3, <1>4

LEMMA AskedStep == ASSUME IInv, SyncInv, AskedInv, [Next]_vars, ~astray' PROVE AskedInv'
<1>1. ASSUME Message PROVE AskedInv'
  BY <1>1, QuietAsked, TypesAsked, StarvesAsked, BodiesAsked DEF Message
<1>2. ASSUME Update PROVE AskedInv' BY <1>2, QuietAsked, UpdateAsked DEF Update
<1>3. CASE Task BY <1>1, <1>2, <1>3, QuietAsked DEF Task
<1> QED BY <1>3, ServerWritesAsked, QuietAsked DEF Next

-----------------------------------------------------------------------------
\* The course of the stream.

\* As long as the stream has not gone astray, all of this holds together.
OnCourse == SyncInv /\ DrawnAsSent /\ FlipsWhole /\ AskedInv

THEOREM CourseKept == Spec => [](IInv /\ (astray \/ OnCourse))
<1>1. Init => IInv /\ (astray \/ OnCourse)
  BY Initially, SyncInitially, PaintInitially, FlipsInitially, AskedInitially DEF OnCourse
<1>2. IInv /\ (astray \/ OnCourse) /\ [Next]_vars => (IInv /\ (astray \/ OnCourse))'
  <2> SUFFICES ASSUME IInv, astray \/ OnCourse, [Next]_vars PROVE IInv' /\ (astray' \/ OnCourse')
    OBVIOUS
  <2>1. IInv' BY StepSafe
  <2>2. CASE ~astray'
    <3>1. OnCourse BY <2>2, AstrayStays
    <3>2. SyncInv /\ DrawnAsSent /\ FlipsWhole /\ AskedInv BY <3>1 DEF OnCourse
    <3>3. SyncInv' BY <2>2, <3>2, SyncStep
    <3>4. DrawnAsSent' BY <2>2, <3>2, PaintStep
    <3>5. FlipsWhole' BY <2>2, <3>2, FlipsStep
    <3>6. AskedInv' BY <2>2, <3>2, AskedStep
    <3> QED BY <2>1, <3>3, <3>4, <3>5, <3>6 DEF OnCourse
  <2> QED BY <2>1, <2>2
<1> QED BY <1>1, <1>2, PTL DEF Spec

\* For every stream, cut anywhere, as long as it keeps to the protocol: no
\* handler and no decoder takes a unit for another, and every compressed block is
\* inflated in the context it was deflated in, unless Tight has overlooked a
\* palette for one left over.
THEOREM StreamReadInStep == Spec => []InStep
<1>1. astray \/ OnCourse => InStep BY DEF OnCourse, SyncInv, InStep
<1> QED BY <1>1, CourseKept, PTL

\* With the same exception, every unit the server means to be seen is drawn once,
\* in the stream's order, and from its own bytes unless it had to wait in a view
\* of the receive queue.
THEOREM StreamPaintedAsSent == Spec => []PaintedAsSent
<1>1. astray \/ OnCourse => PaintedAsSent BY DEF OnCourse, PaintedAsSent
<1> QED BY <1>1, CourseKept, PTL

\* With the same exception, the visible canvas shows what whole updates drew,
\* each of them all of it, or what there was when the screen changed size.
THEOREM ScreenShowsWholeUpdates == Spec => []WholeUpdates
<1>1. IInv /\ (astray \/ OnCourse) => WholeUpdates
  <2>1. IInv /\ astray => WholeUpdates BY DEF WholeUpdates
  <2>2. IInv /\ OnCourse => WholeUpdates BY ShownIsWholeUpdates DEF OnCourse
  <2> QED BY <2>1, <2>2
<1> QED BY <1>1, CourseKept, PTL

\* The chain of update requests does not break: when all that was sent has been
\* dealt with, the server owes an update or sends them by itself.
THEOREM UpdatesAskedFor == Spec => []AskedForMore
<1>1. IInv /\ (astray \/ OnCourse) => AskedForMore
  <2> SUFFICES ASSUME IInv, astray \/ OnCourse, pc = "idle", conn = "connected",
                      taken = written, rects = 0
               PROVE  asked \/ updates # "unsupported" \/ skipped \/ astray
    BY DEF AskedForMore
  <2>1. taken + 1 .. written = {} BY TakenIsWritten
  <2> QED BY <2>1 DEF OnCourse, AskedInv
<1> QED BY <1>1, CourseKept, PTL

=============================================================================
