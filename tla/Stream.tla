------------------------------- MODULE Stream -------------------------------
(***************************************************************************)
(* What a VNC server may say, apart from the console that hears it: the    *)
(* messages of the remote framebuffer protocol as far as the console asks  *)
(* for them, as an automaton over the units of the stream. A place says    *)
(* which unit comes next; a stage adds how often each compression stream   *)
(* has been used, which is the context of its next block.                  *)
(*                                                                         *)
(* A unit has a role; a kind k, a number n and a set z of compression      *)
(* streams as the role needs them; whether it is meant to be seen, whether *)
(* it ends a message, and whether it strays: what comes after it, the      *)
(* protocol does not say.                                                  *)
(***************************************************************************)
EXTENDS Integers, Sequences

Inflators == 0 .. 4     \* four of Tight, one of ZRLE
Controls == {"fill", "jpeg", "png", "basic", "filter", "bad"}

UnitOK(u) ==
    /\ u.n \in Nat /\ u.z \subseteq Inflators
    /\ u.z # {} => u.role \in {"ctl", "block"}
    /\ u.role = "ctl" => u.k \in Controls

\* The role of the next unit, and what that is the length or the body of; the
\* pieces of the rectangle and the rectangles of the update that are left, the
\* current ones included; the rectangle's encoding and size.
Place(want, of, left, rects, kind, size) ==
    [want |-> want, of |-> of, left |-> left, rects |-> rects, kind |-> kind, size |-> size]

Outside(want, of) == Place(want, of, 0, 0, "none", 0)
Between(rects) == Place(IF rects = 0 THEN "type" ELSE "rect", "none", 0, rects, "none", 0)
Inside(p, want, of, left) == Place(want, of, left, p.rects, p.kind, p.size)
RectDone(p) == Between(p.rects - 1)

\* After what the console does not know nothing is said about the rest.
Unsaid == Outside("any", "none")

OneLess(p, want, of) ==
    IF p.left = 1 THEN RectDone(p) ELSE Inside(p, want, of, p.left - 1)

\* A type the console does not know is a message of its own.
AfterType(u) ==
    CASE u.k = "update"    -> Outside("rects", "none")
      [] u.k = "cuttext"   -> Outside("length", "text")
      [] u.k = "fence"     -> Outside("flags", "none")
      [] u.k = "xvp"       -> Outside("power", "none")
      [] u.k = "colourmap" -> Unsaid
      [] OTHER             -> Between(0)

\* h is the rectangle whose header has been read.
AfterHeader(h) ==
    CASE h.kind = "raw" /\ h.size # 0     -> Inside(h, "line", "none", h.size)
      [] h.kind = "copyrect"              -> Inside(h, "source", "none", 0)
      [] h.kind = "rre"                   -> Inside(h, "background", "none", 0)
      [] h.kind = "hextile" /\ h.size # 0 -> Inside(h, "tile", "first", h.size)
      [] h.kind \in {"tight", "tightpng"} -> Inside(h, "ctl", "none", 0)
      [] h.kind = "zrle"                  -> Inside(h, "length", "block", 0)
      [] h.kind = "jpeg"                  -> Inside(h, "segment", "none", 0)
      [] h.kind = "cursor"                -> Inside(h, "cursor", "none", 0)
      [] h.kind = "vmware"                -> Inside(h, "cursortype", "none", 0)
      [] h.kind = "name"                  -> Inside(h, "length", "name", 0)
      [] h.kind = "leds"                  -> Inside(h, "leds", "none", 0)
      [] h.kind = "layout"                -> Inside(h, "screens", "none", 0)
      [] h.kind = "lastrect"              -> Between(0)
      [] h.kind \in {"raw", "hextile"} /\ h.size = 0 -> RectDone(h)
      [] h.kind \in {"desktopsize", "extkeys"}       -> RectDone(h)
      [] OTHER                            -> Unsaid

\* Tight compresses what is not tiny.
TightData(p) ==
    CASE p.size = 0 -> RectDone(p)
      [] p.size = 1 -> Inside(p, "pixels", "none", 0)
      [] OTHER      -> Inside(p, "length", "block", 0)

\* A picture in PNG is TightPNG's own, and stands for the other data.
AfterControl(p, u) ==
    CASE u.k = "fill"                       -> Inside(p, "pixels", "none", 0)
      [] u.k = "jpeg"                       -> Inside(p, "length", "image", 0)
      [] u.k = "png" /\ p.kind = "tightpng" -> Inside(p, "length", "image", 0)
      [] u.k = "basic" /\ p.kind = "tight"  -> TightData(p)
      [] u.k = "filter" /\ p.kind = "tight" -> Inside(p, "filter", "none", 0)
      [] OTHER                              -> Unsaid

AfterFilter(p, u) ==
    CASE u.k = "palette"              -> Inside(p, "palette", "none", 0)
      [] u.k \in {"copy", "gradient"} -> TightData(p)
      [] OTHER                        -> Unsaid

\* The first tile of a rectangle that is not raw names its colours. Until then
\* the place is of the first, and later of a raw one or none.
AfterTile(p, u) ==
    CASE u.k = "blank" /\ p.of # "first" -> OneLess(p, "tile", "none")
      [] u.k = "raw"     -> Inside(p, "body", IF p.of = "first" THEN "first" ELSE "raw", p.left)
      [] u.k = "colours" -> Inside(p, "body", "none", p.left)
      [] u.k = "again" /\ p.of # "first" -> Inside(p, "body", "none", p.left)
      [] OTHER           -> Unsaid

AfterSegment(p, u) ==
    CASE u.k = "end"     -> RectDone(p)
      [] u.k = "segment" -> Inside(p, "segment", "none", 0)
      [] OTHER           -> Unsaid

\* The end of a cut text may be missing (of kind "other" when it is in none of
\* the formats the console has asked for), and a payload has up to 64 bytes.
AfterLength(p, u) ==
    IF p.of = "text" /\ u.k \in {"other", "bad"} THEN Unsaid ELSE Inside(p, p.of, "none", 0)
AfterFlags(u) == IF u.n = 0 THEN Outside("payload", "none") ELSE Unsaid

\* The place after unit u at place p.
After(p, u) ==
    CASE p.want = "type"       -> AfterType(u)
      [] p.want = "flags"      -> AfterFlags(u)
      [] p.want \in {"text", "payload", "power"} -> Between(0)
      [] p.want = "rects"      -> Between(u.n)
      [] p.want = "rect"       -> AfterHeader(Place("none", "none", 0, p.rects, u.k, u.n))
      [] p.want = "line"       -> OneLess(p, "line", "none")
      [] p.want = "background" -> IF u.n = 0 THEN RectDone(p)
                                  ELSE Inside(p, "subrect", "none", u.n)
      [] p.want = "subrect"    -> OneLess(p, "subrect", "none")
      [] p.want = "tile"       -> AfterTile(p, u)
      [] p.want = "body"       -> OneLess(p, "tile", p.of)
      [] p.want = "ctl"        -> AfterControl(p, u)
      [] p.want = "filter"     -> AfterFilter(p, u)
      [] p.want = "palette"    -> TightData(p)
      [] p.want = "length"     -> AfterLength(p, u)
      [] p.want = "segment"    -> AfterSegment(p, u)
      [] p.want = "cursortype" -> IF u.k \in {"classic", "alpha"}
                                  THEN Inside(p, "cursor", "none", 0) ELSE Unsaid
      [] p.want \in {"source", "pixels", "image", "block", "cursor", "name", "leds", "screens"}
                               -> RectDone(p)
      [] OTHER                 -> Unsaid

\* Whether the unit gives the console something to draw: nothing is to be seen
\* of an empty rectangle, and a blank tile says nothing after a raw one.
Paints(p, u) ==
    \/ p.want \in {"line", "background", "subrect", "body", "pixels"}
    \/ p.want \in {"source", "image", "block"} /\ p.size # 0
    \/ p.want = "segment" /\ p.size # 0 /\ u.k = "end"
    \/ p.want = "tile" /\ u.k = "blank" /\ p.of = "none"

\* A block takes its stream further, a control byte resets the streams it names;
\* those of TightPNG are its own, and not used.
Deflated(p, blocks, u) ==
    [i \in Inflators |->
        IF i \notin u.z \/ p.kind = "tightpng" THEN blocks[i]
        ELSE IF u.role = "block" THEN blocks[i] + 1 ELSE 0]

Stage(place, blocks) == [place |-> place, blocks |-> blocks]
Opening == Stage(Between(0), [i \in Inflators |-> 0])
NextStage(stage, u) == Stage(After(stage.place, u), Deflated(stage.place, stage.blocks, u))

\* Unit u may come at this stage, and leads to the other one.
Leads(stage, u, other) ==
    /\ UnitOK(u)
    /\ other = NextStage(stage, u)
    /\ stage.place.want # "any" =>
          /\ u.role = stage.place.want
          /\ u.paints <=> Paints(stage.place, u)
          /\ u.strays <=> other.place.want = "any"
          /\ u.role = "block" => \A i \in u.z : u.n = stage.blocks[i] + 1
    /\ other.place.want # "any" => (u.ends <=> other.place.want = "type")

\* The stream s keeps to the protocol, with these stages before its units and
\* after the last.
KeepsProtocol(s, stages) ==
    /\ Len(s) \in Nat
    /\ stages[1] = Opening
    /\ \A i \in 1 .. Len(s) : Leads(stages[i], s[i], stages[i + 1])

=============================================================================
