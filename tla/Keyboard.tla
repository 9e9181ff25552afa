------------------------------ MODULE Keyboard ------------------------------
(***************************************************************************)
(* The keyboard of a console (keyboard.js and rfb.js in novnc-rfb.js): the *)
(* browser's key events, the list of keys the client holds down, the fix   *)
(* of the guest's caps lock, and the keys the guest is told of. Num lock   *)
(* is treated as caps lock is, and is left out.                            *)
(***************************************************************************)
EXTENDS Connection, Sequences, FiniteSets

CONSTANTS
    NoSym,         \* not in the list of keys that are down; also: not known
    Keyboards,     \* bound: platforms with the keys that are used on them
    MaxHeld,       \* bound: keys held at the same time
    MaxLamps       \* bound: LED messages under way

\* What getKeysym returns for a dead key, or one that an input method takes.
Null == "null"

\* Keysyms that are not the name of a code.
Levels == {Null, "a", "A", "Alt_L", "Alt_R", "Super_L", "ISO_Level3_Shift"}

\* The name of a code is no other key's keysym.
ASSUME KeyboardsAssumption ==
    /\ NoSym \notin BOOLEAN /\ NoSym \notin Levels
    /\ \A k \in Keyboards :
          k.codes \cap Levels = {} /\ NoSym \notin k.codes /\ k.scancodes \in BOOLEAN /\ k.lamps \in BOOLEAN

VARIABLES
    keyboard,      \* this session's: platform, codes, scancodes, lamps
    downList,      \* Keyboard._keyDownList
    armed,         \* Keyboard._altGrArmed, and its timer is pending
    remoteCaps,    \* RFB._remoteCapsLock
    guestHeld,     \* what the guest has down: codes, or keysyms without the extension
    guestCaps,     \* its caps lock
    leds,          \* LED messages under way from it
    pressed,       \* the keys that are physically down
    hostCaps,      \* the caps lock of the browser's machine
    focus,         \* "canvas", "page", or "elsewhere": another window
    unheard,       \* history variable: keys let go of while the canvas had no events of it
    overruled,     \* history variable: keys the guest was told are up by something else
    mistyped       \* history variable: a key was typed under the wrong caps lock

client == <<downList, armed, remoteCaps>>
guest == <<guestHeld, guestCaps, leds>>
user == <<pressed, hostCaps, focus, unheard, mistyped>>
typing == <<keyboard, client, guest, overruled, user>>

On(platform) == keyboard.platform = platform
Shifts == {"ShiftLeft", "ShiftRight"}

\* getKeycode and getKeysym, and what a Mac's modifiers are taken for: what a
\* code may mean. A letter has two levels, or is dead or taken by an input method.
Keysyms(code) ==
    CASE code = "KeyA"     -> {"a", "A", Null}
      [] code = "Unidentified" -> {code, Null}
      [] code = "AltRight" -> {IF On("mac") THEN "ISO_Level3_Shift" ELSE "Alt_R"}
      [] code = "MetaLeft" -> {IF On("mac") THEN "Alt_L" ELSE "Super_L"}
      [] OTHER             -> {code}

\* Keys that xtscancodes.js has a scancode for.
HasScancode(code) == code # "Unidentified"

KeyboardInit ==
    /\ keyboard \in Keyboards
    /\ downList = [c \in keyboard.codes |-> NoSym] /\ armed = FALSE
    /\ remoteCaps = NoSym
    /\ guestHeld = {} /\ hostCaps = FALSE
    /\ guestCaps \in IF keyboard.lamps THEN BOOLEAN ELSE {FALSE}
    /\ leds = IF keyboard.lamps THEN <<guestCaps>> ELSE <<>>
    /\ pressed = {} /\ focus = "canvas"
    /\ unheard = {} /\ overruled = {} /\ mistyped = FALSE

-----------------------------------------------------------------------------
\* One key event on its way to the guest. s is the state it passes through.

State == [down |-> downList, held |-> guestHeld, caps |-> guestCaps,
          remote |-> remoteCaps, leds |-> leds, overruled |-> overruled]

\* An event: capslock is the browser's, NoSym when a handler has none.
Key(code, keysym, down, capslock) ==
    [code |-> code, keysym |-> keysym, down |-> down, capslock |-> capslock]

\* The guest: a caps lock that goes down toggles, and lights the lamp.
GuestKey(s, id, down) ==
    LET toggles == down /\ id = "CapsLock" /\ id \notin s.held
    IN [s EXCEPT !.held = IF down THEN @ \cup {id} ELSE @ \ {id},
                 !.caps = IF toggles THEN ~@ ELSE @,
                 !.leds = IF toggles /\ keyboard.lamps THEN Append(@, ~s.caps) ELSE @]

\* RFB.sendKey: as a scancode if the guest and the key know one, else as a keysym
\* if there is one, else not at all.
SendKey(s, e) ==
    LET id == IF keyboard.scancodes /\ HasScancode(e.code) THEN e.code ELSE e.keysym
    IN IF conn # "connected" \/ id = Null THEN s ELSE GuestKey(s, id, e.down)

IsDown(s, code) == code \in DOMAIN s.down /\ s.down[code] # NoSym

\* The same behind the back of the list of keys that are down.
Overruling(s, e) ==
    IF ~e.down /\ IsDown(s, e.code)
    THEN [s EXCEPT !.overruled = @ \cup {e.code}] ELSE s
Bypass(s, code, down) ==
    LET e == Key(code, code, down, NoSym) IN SendKey(Overruling(s, e), e)

\* RFB._handleKeyEvent: a caps lock that is not the browser's is tapped first.
OnKeyEvent(s, e) ==
    LET known == IF e.code = "CapsLock" /\ e.down THEN [s EXCEPT !.remote = NoSym] ELSE s
        wrong == e.down /\ NoSym \notin {known.remote, e.capslock} /\ known.remote # e.capslock
        fixed == Bypass(Bypass([known EXCEPT !.remote = NoSym], "CapsLock", TRUE), "CapsLock", FALSE)
    IN SendKey(IF wrong THEN fixed ELSE known, e)

\* Keyboard._sendKeyEvent: only a key that is down can go up.
SendKeyEvent(s, e) ==
    IF ~e.down /\ ~IsDown(s, e.code) THEN s
    ELSE OnKeyEvent([s EXCEPT !.down[e.code] = IF e.down THEN e.keysym ELSE NoSym,
                              !.overruled = @ \ {e.code}], e)

Become(s) ==
    /\ downList' = s.down /\ guestHeld' = s.held /\ guestCaps' = s.caps
    /\ remoteCaps' = s.remote /\ leds' = s.leds /\ overruled' = s.overruled

Press(s, code, keysym, capslock) == SendKeyEvent(s, Key(code, keysym, TRUE, capslock))
Tap(s, code, keysym, capslock) ==
    SendKeyEvent(Press(s, code, keysym, capslock), Key(code, keysym, FALSE, capslock))
Release(s, code) ==
    SendKeyEvent(s, Key(code, IF IsDown(s, code) THEN s.down[code] ELSE code, FALSE, NoSym))

-----------------------------------------------------------------------------
\* The handlers.

\* A Ctrl that has waited goes down after all.
AfterCtrl(waited, capslock) ==
    IF waited THEN Press(State, "ControlLeft", "ControlLeft", capslock) ELSE State

\* The lists of keys that a platform never tells the release of.
TapsOnly(code) ==
    \/ code = "Unidentified"
    \/ On("mac") /\ (code = "CapsLock" \/ ("MetaLeft" \in pressed /\ code # "MetaLeft"))
    \/ On("windows") /\ code = "Kanji"

\* Keyboard._handleKeyDown. A left Ctrl on Windows waits: with a right Alt
\* within 50 ms (soon) it was an AltGr, else it was a Ctrl after all. A key that
\* is down keeps the keysym it went down with.
HandleKeyDown(code, keysym, soon, capslock) ==
    LET altGr == armed /\ code = "AltRight" /\ soon
        s     == AfterCtrl(armed /\ ~altGr, capslock)
        sym   == IF IsDown(s, code) THEN s.down[code]
                 ELSE IF altGr THEN "ISO_Level3_Shift" ELSE keysym
        waits == On("windows") /\ code = "ControlLeft" /\ ~IsDown(s, code)
    IN /\ armed' = waits
       /\ Become(IF waits \/ (code = "Unidentified" /\ sym = Null) THEN s
                 ELSE IF TapsOnly(code) THEN Tap(s, code, sym, capslock)
                 ELSE Press(s, code, sym, capslock))

\* Keyboard._handleKeyUp. Windows does not tell of a Shift that goes up while
\* the other is down: both go up with the last. A Mac's caps lock goes up when
\* it is turned off.
HandleKeyUp(code) ==
    LET s  == AfterCtrl(armed, NoSym)
        up == Release(s, code)
    IN /\ armed' = FALSE
       /\ Become(IF On("mac") /\ code = "CapsLock" THEN Tap(s, code, code, NoSym)
                 ELSE IF On("windows") /\ code \in Shifts
                 THEN Release(Release(up, "ShiftRight"), "ShiftLeft")
                 ELSE up)

\* Keyboard._handleAltGrTimeout
AltGrTimeout ==
    /\ armed /\ armed' = FALSE
    /\ Become(AfterCtrl(TRUE, NoSym))
    /\ UNCHANGED <<connection, keyboard, user>>

\* What the guest knows a key by that is down.
Id(c) == IF keyboard.scancodes /\ HasScancode(c) THEN c ELSE downList[c]

\* Keyboard._allKeysUp, in whatever order; an armed Ctrl stays armed.
AllKeysUp ==
    LET all == {c \in keyboard.codes : IsDown(State, c)}
    IN /\ downList' = [c \in keyboard.codes |-> NoSym]
       /\ guestHeld' = IF conn = "connected" THEN guestHeld \ {Id(c) : c \in all} ELSE guestHeld
       /\ overruled' = overruled \ all
       /\ UNCHANGED <<guestCaps, remoteCaps, leds, armed>>

\* Keyboard.ungrab when the connection ends: the guest is not told.
Ungrab(ends) ==
    /\ downList' = IF ends THEN [c \in keyboard.codes |-> NoSym] ELSE downList
    /\ UNCHANGED <<keyboard, armed, remoteCaps, guest, overruled, user>>

\* RFB._handleLedEvent
LedArrives ==
    /\ conn = "connected" /\ leds # <<>>
    /\ remoteCaps' = Head(leds) /\ leds' = Tail(leds)
    /\ UNCHANGED <<connection, keyboard, downList, armed, guestHeld, guestCaps, overruled, user>>

\* The page's Ctrl+Alt+Del button: RFB.sendCtrlAltDel, with the keyboard knowing
\* nothing of it.
CtrlAltDel ==
    LET down == Bypass(Bypass(Bypass(State, "ControlLeft", TRUE), "AltLeft", TRUE), "Delete", TRUE)
    IN /\ keys /\ focus = "page"
       /\ focus' = "canvas"
       /\ Become(Bypass(Bypass(Bypass(down, "Delete", FALSE), "AltLeft", FALSE), "ControlLeft", FALSE))
       /\ status' = "sent Ctrl+Alt+Del"
       /\ UNCHANGED <<conn, sock, clean, keys, box, late, disconnects, keyboard, armed,
                      pressed, hostCaps, unheard, mistyped>>

-----------------------------------------------------------------------------
\* The user and the browser. Two Shifts on Windows and any key under a Mac's
\* Command go up without an event.

Listens == conn = "connected" /\ focus = "canvas"
Room == Len(leds) < MaxLamps

\* Typed with nothing under way, its lamp known and the key up in the guest: it
\* must have the letter under the browser's caps lock.
Judged(code) ==
    mistyped' = (mistyped \/ (code = "KeyA" /\ keyboard.lamps /\ leds = <<>> /\ remoteCaps # NoSym
                              /\ "CapsLock" \notin guestHeld /\ guestCaps' # hostCaps'))

KeyPressed ==
    /\ Listens /\ Room /\ Cardinality(pressed) < MaxHeld
    /\ \E code \in keyboard.codes \ pressed :
          /\ ~(On("mac") /\ code = "CapsLock")
          /\ pressed' = pressed \cup {code}
          /\ hostCaps' = (hostCaps # (code = "CapsLock"))
          /\ \E sym \in Keysyms(code), soon \in BOOLEAN : HandleKeyDown(code, sym, soon, hostCaps')
          /\ unheard' = unheard \ {code}
          /\ Judged(code)
    /\ UNCHANGED <<connection, keyboard, focus>>

KeyRepeats ==
    /\ Listens /\ Room
    /\ \E code \in pressed :
          /\ \E sym \in Keysyms(code) : HandleKeyDown(code, sym, FALSE, hostCaps)
          /\ UNCHANGED hostCaps /\ Judged(code)
    /\ UNCHANGED <<connection, keyboard, pressed, focus, unheard>>

\* A Mac's caps lock is down as long as it is on.
MacCapsLock ==
    /\ Listens /\ Room /\ On("mac") /\ "CapsLock" \in keyboard.codes
    /\ hostCaps' = ~hostCaps
    /\ IF hostCaps' THEN HandleKeyDown("CapsLock", "CapsLock", FALSE, TRUE)
       ELSE HandleKeyUp("CapsLock")
    /\ UNCHANGED <<connection, keyboard, pressed, focus, unheard, mistyped>>

Swallowed(code) ==
    \/ On("windows") /\ code \in Shifts /\ Shifts \subseteq pressed
    \/ On("mac") /\ "MetaLeft" \in pressed /\ code # "MetaLeft"

KeyReleased ==
    /\ Listens
    /\ \E code \in pressed :
          /\ ~Swallowed(code)
          /\ pressed' = pressed \ {code}
          /\ HandleKeyUp(code)
    /\ UNCHANGED <<connection, keyboard, hostCaps, focus, unheard, mistyped>>

\* A release the client does not hear of: of a key it holds, or is about to.
KeyReleasedUnheard ==
    /\ \E code \in pressed :
          /\ focus # "canvas" \/ Swallowed(code)
          /\ pressed' = pressed \ {code}
          /\ unheard' = unheard \cup
                {c \in keyboard.codes :
                    /\ c = code \/ (code \in Shifts /\ c \in Shifts)
                    /\ ~(On("windows") /\ Swallowed(code) /\ focus = "canvas")
                    /\ downList[c] # NoSym \/ (c = "ControlLeft" /\ armed)}
    /\ UNCHANGED <<connection, keyboard, client, guest, hostCaps, focus, mistyped, overruled>>

\* The focus moves to something else on the page, to another window, and back.
StepsAway ==
    /\ conn = "connected" /\ focus = "canvas" /\ focus' = "page"
    /\ UNCHANGED <<connection, keyboard, client, guest, pressed, hostCaps, unheard, mistyped, overruled>>

Blurs ==
    /\ conn = "connected" /\ focus # "elsewhere" /\ focus' = "elsewhere"
    /\ AllKeysUp
    /\ unheard' = IF armed /\ "ControlLeft" \notin pressed THEN {"ControlLeft"} ELSE {}
    /\ UNCHANGED <<connection, keyboard, pressed, hostCaps, mistyped>>

Returns ==
    /\ conn = "connected" /\ focus # "canvas" /\ focus' = "canvas"
    /\ UNCHANGED <<connection, keyboard, client, guest, pressed, hostCaps, unheard, mistyped, overruled>>

KeyboardNext ==
    \/ AltGrTimeout \/ LedArrives \/ CtrlAltDel
    \/ KeyPressed \/ KeyRepeats \/ MacCapsLock \/ KeyReleased \/ KeyReleasedUnheard
    \/ StepsAway \/ Blurs \/ Returns

-----------------------------------------------------------------------------
KeyboardTypeOK ==
    /\ keyboard \in Keyboards
    /\ DOMAIN downList = keyboard.codes /\ pressed \subseteq keyboard.codes
    /\ armed \in BOOLEAN /\ guestCaps \in BOOLEAN /\ hostCaps \in BOOLEAN /\ mistyped \in BOOLEAN
    /\ focus \in {"canvas", "page", "elsewhere"}

Holding == {c \in keyboard.codes : downList[c] # NoSym}

\* The guest holds the keys that the client has down, and those only; the
\* client has no key down that the user has let go of; and a key typed when all
\* is quiet is typed under the browser's caps lock. Exceptions: a key without a
\* keysym, of which a guest that takes no scancodes is told nothing; a key that
\* the guest was told is up by Ctrl+Alt+Del, by a pinch or by the fix of the caps
\* lock; a release the canvas had no event of (the focus was elsewhere on the
\* page, or a Mac's Command was down; or the window lost the focus within the
\* 100 ms that a Ctrl waits); and one of two Shifts, until the other goes up.
KeysAgree ==
    conn = "connected" =>
        /\ guestHeld \subseteq {Id(c) : c \in Holding}
        /\ \A c \in Holding \ overruled : Id(c) \in guestHeld \cup {Null}
        /\ Holding \subseteq pressed \cup unheard
                             \cup (IF On("windows") /\ pressed \cap Shifts # {} THEN Shifts ELSE {})
        /\ ~mistyped

=============================================================================
