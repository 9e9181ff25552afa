----------------------------- MODULE MCFrames -------------------------------
(***************************************************************************)
(* Small instances of Frames for TLC: what a server may send, message by   *)
(* message.                                                                *)
(***************************************************************************)
EXTENDS Frames

U(role, k, n) ==
    [role |-> role, k |-> k, n |-> n, z |-> {}, paints |-> FALSE, ends |-> FALSE,
     strays |-> FALSE]
Stray(u) == [u EXCEPT !.strays = TRUE]
Seen(u) == [u EXCEPT !.paints = TRUE]
In(u, streams) == [u EXCEPT !.z = streams]
Closed(units) == [units EXCEPT ![Len(units)].ends = TRUE]

\* Rectangles.
Rect(k, n) == U("rect", k, n)
Line == Seen(U("line", "line", 0))
Tile(k) == Seen(U("tile", k, 0))
Body == Seen(U("body", "body", 0))
Ctl(k, reset) == In(U("ctl", k, 0), reset)
Length == U("length", "length", 0)
Block(z, n) == Seen(In(U("block", "block", n), {z}))

RawRect(lines)  == <<Rect("raw", lines)>> \o [i \in 1 .. lines |-> Line]
CopyRectRect    == <<Rect("copyrect", 1), Seen(U("source", "source", 0))>>
RRERect         == <<Rect("rre", 1), Seen(U("background", "background", 1)),
                     Seen(U("subrect", "subrect", 0))>>
Hextile1(units) == <<Rect("hextile", 1)>> \o units
HextileRaw      == Hextile1(<<U("tile", "raw", 0), Body>>)
HextileBlank    == Hextile1(<<Stray(U("tile", "blank", 0))>>)
HextileAgain    == Hextile1(<<Stray(U("tile", "again", 0)), Body>>)
HextileBad      == Hextile1(<<Stray(U("tile", "bad", 0))>>)
HextileRect     == <<Rect("hextile", 5), U("tile", "colours", 0), Body, Tile("blank"),
                     U("tile", "raw", 0), Body, U("tile", "blank", 0),
                     U("tile", "again", 0), Body>>
TightFill       == <<Rect("tight", 1), Ctl("fill", {}), Seen(U("pixels", "pixels", 0))>>
TightImage(k)   == <<Rect(k, 1), Ctl("jpeg", {}), Length, Seen(U("image", "image", 0))>>
TightPng(reset) == <<Rect("tightpng", 1), Ctl("png", reset), Length, Seen(U("image", "image", 0))>>
TightBasic(z, n, reset) == <<Rect("tight", 2), Ctl("basic", reset), Length, Block(z, n)>>
TightPalette(n) == <<Rect("tight", n), Ctl("filter", {}), U("filter", "palette", 0),
                     U("palette", "palette", 0)>>
                   \o (IF n = 0 THEN <<>> ELSE <<Seen(U("pixels", "pixels", 0))>>)
TightFilterBad  == <<Rect("tight", 1), Ctl("filter", {}), Stray(U("filter", "bad", 0))>>
TightGradient(n) == <<Rect("tight", 2), Ctl("filter", {}), U("filter", "gradient", 0),
                     Length, Block(1, n)>>
TightBad(k, ctl) == <<Rect(k, 1), Stray(Ctl(ctl, {}))>>
ZRLERect(n)     == <<Rect("zrle", 1), Length, Block(4, n)>>
ZRLEBad         == <<Rect("zrle", 1), Length, Seen(U("block", "bad", 1))>>
JPEGRect        == <<Rect("jpeg", 1), U("segment", "segment", 0),
                     Seen(U("segment", "end", 0))>>
JPEGBad         == <<Rect("jpeg", 1), Stray(U("segment", "bad", 0))>>
Pseudo          == <<Rect("cursor", 1), U("cursor", "cursor", 0),
                     Rect("leds", 0), U("leds", "leds", 0), Rect("extkeys", 0)>>
VMwareBad       == <<Rect("vmware", 1), Stray(U("cursortype", "bad", 0)), U("cursor", "cursor", 0)>>
Pseudo2         == <<Rect("vmware", 1), U("cursortype", "alpha", 0), U("cursor", "cursor", 0),
                     Rect("name", 0), Length, U("name", "name", 0)>>
Layout(n, k)    == <<Rect("layout", n), U("screens", k, 0)>>
DesktopSize     == <<Rect("desktopsize", 1)>>
LastRect        == <<Rect("lastrect", 0)>>
Unsupported     == <<Stray(Rect("other", 1))>>

\* Messages.
Type(k) == U("type", k, 0)
FBU(n, units) == Closed(<<Type("update"), U("rects", "rects", n)>> \o units)
Ring == Closed(<<Type("bell")>>)
Continuous == Closed(<<Type("continuous")>>)
Unknown(k) == Closed(<<Type(k)>>)
CutText == Closed(<<Type("cuttext"), Length, U("text", "text", 0)>>)
Extended(k) == Closed(<<Type("cuttext"), Stray(U("length", k, 0)), U("text", "text", 0)>>)
Fence(k) == Closed(<<Type("fence"), U("flags", k, 0), U("payload", "payload", 0)>>)
LongFence == Closed(<<Type("fence"), Stray(U("flags", "request", 1)), U("payload", "payload", 0),
                      U("payload", "payload", 0)>>)
XvpMsg(k) == Closed(<<Type("xvp"), U("power", k, 0)>>)

\* Images and what may overtake them, with an update waiting for them; every
\* decoder and message, and what their decoders keep; what fails; every way the
\* screen changes; and what the protocol says nothing about.
AllScripts == {
    FBU(2, TightImage("tight") \o RawRect(2)) \o FBU(1, CopyRectRect) \o Ring,
    FBU(2, TightPng({}) \o TightImage("tightpng")) \o FBU(1, RawRect(1)),
    FBU(3, JPEGRect \o HextileRect \o CopyRectRect) \o CutText,
    FBU(2, RRERect \o HextileRaw) \o Fence("request") \o FBU(1, TightFill),
    FBU(3, TightBasic(0, 1, {}) \o TightPng({0}) \o TightBasic(0, 2, {}))
        \o FBU(1, TightBasic(0, 1, {0})),
    FBU(2, TightPalette(1) \o TightGradient(1)) \o FBU(1, TightGradient(2)),
    FBU(2, TightPalette(0) \o TightFill) \o Ring,
    FBU(1, ZRLERect(1)) \o XvpMsg("enabled") \o FBU(1, ZRLERect(2)),
    FBU(4, Pseudo \o RawRect(1)) \o FBU(2, Pseudo2),
    Continuous \o FBU(1, TightImage("tight")) \o FBU(1, RawRect(1)) \o FBU(1, RawRect(1)),
    FBU(3, TightImage("tight") \o Layout(1, "accepted") \o RawRect(1)) \o FBU(1, Layout(1, "refused")),
    FBU(2, RawRect(1) \o DesktopSize) \o FBU(4, RawRect(1) \o LastRect) \o Ring,
    FBU(1, TightImage("tight")) \o FBU(0, <<>>) \o FBU(1, RawRect(1)),
    FBU(2, RawRect(1) \o HextileBad) \o Ring,
    FBU(1, TightBad("tight", "bad")) \o Ring,
    FBU(1, TightBad("tight", "png")), FBU(1, TightBad("tightpng", "basic")),
    FBU(1, TightFilterBad), FBU(1, ZRLEBad), FBU(1, JPEGBad), FBU(1, Unsupported),
    Unknown("unknown") \o Ring, <<Stray(Type("colourmap"))>> \o Ring,
    Fence("response") \o Ring, XvpMsg("illegal") \o Ring,
    FBU(1, HextileRaw) \o FBU(1, HextileBlank) \o Ring,
    FBU(1, HextileBlank) \o Ring, FBU(1, HextileAgain) \o Ring,
    FBU(2, TightImage("tight") \o HextileBlank) \o FBU(1, RawRect(1)),
    FBU(2, TightPalette(0) \o TightPalette(1)) \o Ring,
    FBU(2, VMwareBad \o RawRect(1)) \o Ring,
    LongFence \o Ring, Extended("other") \o Ring, Extended("bad") \o Ring }

\* The stages of each script, one after the other.
AllStages ==
    [s \in AllScripts |->
        LET at[i \in 1 .. Len(s) + 1] ==
                IF i = 1 THEN Opening ELSE NextStage(at[i - 1], s[i - 1])
        IN at]

=============================================================================
