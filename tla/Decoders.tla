----------------------------- MODULE Decoders -------------------------------
(***************************************************************************)
(* The rectangle decoders of the console (decoders/ in novnc-rfb.js) as    *)
(* automata over the units of the stream. decodeRect returns false when a  *)
(* unit has not come and is called again with the same rectangle; what it  *)
(* remembers in between (_lines, _subrects, _tiles, _ctl, _filter, _len,   *)
(* _length) is the stage "at" and the count "left". Each decoder is back   *)
(* at the start when its rectangle is done, so that one stage serves them  *)
(* all. What outlives a rectangle is a set m:                              *)
(*   "raw"      the last tile of Hextile was raw (_lastsubencoding)        *)
(*   "colours"  a tile has named its colours (_background, _foreground)    *)
(*   "palette"  Tight still has the palette of an empty rectangle          *)
(*              (_numColors)                                               *)
(*                                                                         *)
(* A step names the units it waits for and reads, and what it draws.       *)
(***************************************************************************)
EXTENDS Integers, Sequences

Start == [at |-> "start", left |-> 0]
At(stage, left) == [at |-> stage, left |-> left]

Keepsakes == {"raw", "colours", "palette"}

NoDraw == "none"

\* A step that reads units of these roles, draws, and leaves the decoder in next.
Step(reads, draws, next) ==
    [reads |-> reads, draws |-> draws, next |-> next,
     ends |-> FALSE, fails |-> FALSE, stops |-> FALSE]

\* The last step of a rectangle.
LastStep(reads, draws) ==
    [reads |-> reads, draws |-> draws, next |-> Start,
     ends |-> TRUE, fails |-> FALSE, stops |-> FALSE]

\* A step after which left pieces of the rectangle remain.
Piece(reads, draws, stage, left) ==
    IF left = 0 THEN LastStep(reads, draws) ELSE Step(reads, draws, At(stage, left))

\* The decoder throws.
Throw(reads) ==
    [reads |-> reads, draws |-> NoDraw, next |-> Start,
     ends |-> FALSE, fails |-> TRUE, stops |-> FALSE]

\* The decoder returns false although nothing was missing.
GiveUp(reads) ==
    [reads |-> reads, draws |-> NoDraw, next |-> Start,
     ends |-> FALSE, fails |-> FALSE, stops |-> TRUE]

\* Below, r is the rectangle's header, d the stage, u the first unread unit: a
\* decoder looks at its kind k or number n only once it has waited for it.

\* RawDecoder: one line after the other, drawn from the receive queue itself.
Raw(r, d, u) ==
    LET lines == IF d.left = 0 THEN r.n ELSE d.left
    IN IF r.n = 0 THEN LastStep(<<>>, NoDraw)
       ELSE Piece(<<"line">>, "view", "lines", lines - 1)

\* CopyRectDecoder
CopyRect(r, d, u) == LastStep(<<"source">>, IF r.n = 0 THEN NoDraw ELSE "copy")

\* RREDecoder: the background and the number of subrectangles, then those.
RRE(r, d, u) ==
    IF d.left = 0 THEN Piece(<<"background">>, "fill", "subrects", u.n)
    ELSE Piece(<<"subrect">>, "fill", "subrects", d.left - 1)

\* Faulty: fills a blank tile after a raw one.
HextileTileFilling(r, d, m, u) ==
    LET left == IF d.left = 0 THEN r.n - 1 ELSE d.left - 1
        blank == IF "colours" \in m THEN "fill" ELSE "void"
    IN CASE u.k = "blank"   -> Piece(<<"tile">>, blank, "tiles", left)
         [] u.k = "raw"     -> Piece(<<"tile", "body">>, "view", "tiles", left)
         [] u.k = "colours" -> Piece(<<"tile", "body">>, "blit", "tiles", left)
         [] u.k = "again"   -> IF "colours" \in m
                               THEN Piece(<<"tile", "body">>, "blit", "tiles", left)
                               ELSE Throw(<<"tile", "body">>)
         [] OTHER           -> Throw(<<"tile">>)

\* HextileDecoder, one tile: it is looked at until the whole of it is there. Raw
\* tiles are drawn from the receive queue, and a blank one after one of them, be
\* it the last of an earlier rectangle, is passed over. Coloured ones are drawn
\* from a buffer, in the colours they name or ("again") an earlier one named,
\* and so is a blank one: before there are any it is filled with undefined, and
\* a buffer cannot be started.
HextileTile(r, d, m, u) ==
    LET left == IF d.left = 0 THEN r.n - 1 ELSE d.left - 1
        blank == IF "raw" \in m THEN NoDraw ELSE IF "colours" \in m THEN "fill" ELSE "void"
    IN CASE u.k = "blank"   -> Piece(<<"tile">>, blank, "tiles", left)
         [] u.k = "raw"     -> Piece(<<"tile", "body">>, "view", "tiles", left)
         [] u.k = "colours" -> Piece(<<"tile", "body">>, "blit", "tiles", left)
         [] u.k = "again"   -> IF "colours" \in m
                               THEN Piece(<<"tile", "body">>, "blit", "tiles", left)
                               ELSE Throw(<<"tile", "body">>)
         [] OTHER           -> Throw(<<"tile">>)

Hextile(r, d, m, u) == IF r.n = 0 THEN LastStep(<<>>, NoDraw) ELSE HextileTile(r, d, m, u)

\* A body of this size with what is before it read: nothing, a few bytes as
\* they are, or a compressed block with its length.
TightBody(r) ==
    CASE r.n = 0 -> LastStep(<<>>, NoDraw)
      [] r.n = 1 -> LastStep(<<"pixels">>, "blit")
      [] OTHER   -> Step(<<"length">>, NoDraw, At("block", 0))

\* The filter of a rectangle: a palette is read unless there is one left over
\* from an empty rectangle, whose bytes are then taken for the body.
TightFilter(m, u) ==
    CASE u.k = "palette" -> Step(<<"filter">>, NoDraw,
                                 At(IF "palette" \in m THEN "basic" ELSE "palette", 0))
      [] u.k \in {"copy", "gradient"} -> Step(<<"filter">>, NoDraw, At("basic", 0))
      [] OTHER -> Throw(<<"filter">>)

\* TightDecoder: the control byte, then a fill, an image, or a filter with its
\* palette and the body.
Tight(r, d, m, u) ==
    CASE d.at = "start"   -> Step(<<"ctl">>, NoDraw, At(u.k, 0))
      [] d.at = "fill"    -> LastStep(<<"pixels">>, "fill")
      [] d.at = "jpeg"    -> Step(<<"length">>, NoDraw, At("image", 0))
      [] d.at = "image"   -> LastStep(<<"image">>, IF r.n = 0 THEN NoDraw ELSE "img")
      [] d.at = "basic"   -> TightBody(r)
      [] d.at = "filter"  -> TightFilter(m, u)
      [] d.at = "palette" -> Step(<<"palette">>, NoDraw, At("basic", 0))
      [] d.at = "block"   -> LastStep(<<"block">>, "blit")
      [] OTHER            -> Throw(<<>>)

\* TightPNGDecoder: PNG instead of the basic compression.
TightPNG(r, d, m, u) ==
    CASE d.at = "png"                -> Step(<<"length">>, NoDraw, At("image", 0))
      [] d.at \in {"basic", "filter"} -> Throw(<<>>)
      [] OTHER                       -> Tight(r, d, m, u)

\* ZRLEDecoder: the length, then all tiles out of one compressed block.
ZRLE(r, d, u) ==
    IF d.at = "start" THEN Step(<<"length">>, NoDraw, At("block", 0))
    ELSE IF u.k = "bad" THEN Throw(<<"block">>)
    ELSE LastStep(<<"block">>, IF r.n = 0 THEN NoDraw ELSE "blit")

\* JPEGDecoder: segments up to the end of the image, kept in _segments.
JPEG(r, d, u) ==
    CASE u.k = "end"     -> LastStep(<<"segment">>, IF r.n = 0 THEN NoDraw ELSE "img")
      [] u.k = "segment" -> Step(<<"segment">>, NoDraw, At("segments", 0))
      [] OTHER           -> Throw(<<"segment">>)

\* A VMware cursor has one of two types; of another type, and of the rectangle,
\* nothing more is read, and the rectangle is begun again.
VMwareCursor(u) ==
    IF u.k \in {"classic", "alpha"} THEN LastStep(<<"cursortype", "cursor">>, NoDraw)
    ELSE GiveUp(<<"cursortype">>)

\* The other pseudo-encodings, which draw nothing: the cursor, the name and size
\* of the desktop, the lock keys.
Cursor        == LastStep(<<"cursor">>, NoDraw)
DesktopName   == LastStep(<<"length", "name">>, NoDraw)
LedState      == LastStep(<<"leds">>, NoDraw)
DesktopLayout == LastStep(<<"screens">>, NoDraw)
Bare          == LastStep(<<>>, NoDraw)

\* _handleRect: the step for a rectangle of the header's encoding; there is no
\* decoder for others, and _handleDataRect fails.
DecodeRect(r, d, m, u) ==
    CASE r.k = "raw"      -> Raw(r, d, u)
      [] r.k = "copyrect" -> CopyRect(r, d, u)
      [] r.k = "rre"      -> RRE(r, d, u)
      [] r.k = "hextile"  -> Hextile(r, d, m, u)
      [] r.k = "tight"    -> Tight(r, d, m, u)
      [] r.k = "tightpng" -> TightPNG(r, d, m, u)
      [] r.k = "zrle"     -> ZRLE(r, d, u)
      [] r.k = "jpeg"     -> JPEG(r, d, u)
      [] r.k = "cursor"   -> Cursor
      [] r.k = "vmware"   -> VMwareCursor(u)
      [] r.k = "name"     -> DesktopName
      [] r.k = "leds"     -> LedState
      [] r.k = "layout"   -> DesktopLayout
      [] r.k \in {"lastrect", "desktopsize", "extkeys"} -> Bare
      [] OTHER            -> Throw(<<>>)

\* What is left of m when that step is done. The palette is forgotten with the
\* rectangle that it was for, but not with an empty one.
Remembers(r, d, m, u) ==
    CASE r.k = "hextile" /\ r.n # 0 ->
            CASE u.k = "raw"     -> m \cup {"raw"}
              [] u.k = "colours" -> (m \ {"raw"}) \cup {"colours"}
              [] OTHER           -> m \ {"raw"}
      [] r.k = "tight" /\ d.at = "filter" /\ u.k = "palette" ->
            IF r.n = 0 THEN m \cup {"palette"} ELSE m \ {"palette"}
      [] OTHER -> m

=============================================================================
