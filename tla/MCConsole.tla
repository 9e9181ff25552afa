----------------------------- MODULE MCConsole ------------------------------
(***************************************************************************)
(* Consoles with small servers, for TLC: between them the scripts take     *)
(* every branch of the handshake that this page can reach.                 *)
(***************************************************************************)
EXTENDS Console

\* A script as it is played: S, the server sends; C, the client answers. The
\* stages follow from what is sent.
S(role, k, n, offers) == [answer |-> "", unit |-> Unit(role, k, n, offers)]
Sends(role) == S(role, "", 1, <<>>)
C(answer) == [answer |-> answer, unit |-> Unit("none", "", 0, <<>>)]

Script(play) ==
    LET IsUnit(item) == item.answer = ""
        IsAnswer(item) == item.answer # ""
        units == SelectSeq(play, IsUnit)
        At2(i) == CHOOSE j \in DOMAIN play :
                    /\ IsUnit(play[j])
                    /\ Len(SelectSeq(SubSeq(play, 1, j), IsUnit)) = i
        stages[i \in 1 .. Len(units) + 1] ==
            IF i = 1 THEN Start ELSE Turn(stages[i - 1], units[i - 1].unit).stage
        answers == SelectSeq(play, IsAnswer)
    IN [units   |-> [i \in DOMAIN units |-> units[i].unit],
        stages  |-> stages,
        after   |-> [i \in 1 .. Len(units) + 1 |->
                        IF i > Len(units) THEN Len(answers)
                        ELSE Len(SelectSeq(SubSeq(play, 1, At2(i)), IsAnswer))],
        answers |-> [i \in DOMAIN answers |-> answers[i].answer]]

Hello(v) == <<S("version", v, 1, <<>>), C("version")>>
Offers(types) == <<S("count", "", Len(types), <<>>), S("types", "", 1, types), C("type")>>
Dictates(s) == <<S("scheme", s, 1, <<>>)>>
Result(k) == <<S("result", k, 1, <<>>)>>
Welcome == <<C("shared"), Sends("init"), Sends("name"), C("setup")>>
TightWelcome == <<C("shared"), Sends("init"), Sends("name"), Sends("tight header"),
                  Sends("tight lists"), C("setup")>>
Challenge == <<Sends("challenge"), C("response")>>
Reason == <<Sends("reason length"), Sends("reason")>>
\* A server may hope for an answer that it does not get.
Unanswered(play) == SubSeq(play, 1, Len(play) - 1)
NoReason == <<S("reason length", "", 0, <<>>)>>

VeNCrypt(types) ==
    <<S("vencrypt version", "0.2", 1, <<>>), C("vencrypt version"),
      S("vencrypt ack", "ok", 1, <<>>), S("vencrypt count", "", Len(types), <<>>),
      S("vencrypt types", "", 1, types), C("vencrypt type")>>
NoTunnels == <<S("tunnels", "", 0, <<>>)>>
Tunnels(k) == <<Sends("tunnels"), S("tunnel list", k, 1, <<>>), C("tunnel")>>
Kinds(kinds) == <<S("auth count", "", Len(kinds), <<>>), S("auth list", "", 1, kinds), C("auth kind")>>

PlainScript == Script(Hello("v38") \o Offers(<<"None">>) \o Result("ok") \o Welcome)
OldScript == Script(Hello("v33") \o Dictates("None") \o Welcome)

Accepting ==
    {Script(p) : p \in {
        Hello("v37") \o Offers(<<"Odd", "None">>) \o Welcome,
        Hello("v36") \o Dictates("VNCAuth") \o Challenge \o Result("ok") \o Welcome,
        Hello("v5") \o Offers(<<"Odd", "VNCAuth", "None">>) \o Challenge \o Result("ok") \o Welcome,
        <<S("version", "repeater", 1, <<>>), C("repeater id")>>
            \o Hello("v38") \o Offers(<<"None">>) \o Result("ok") \o Welcome,
        Hello("v38") \o Offers(<<"VeNCrypt">>) \o VeNCrypt(<<"VeNCrypt", "None">>) \o Result("ok") \o Welcome,
        Hello("v38") \o Offers(<<"VeNCrypt">>) \o VeNCrypt(<<"VNCAuth">>) \o Challenge \o Result("ok") \o Welcome,
        Hello("v38") \o Offers(<<"VeNCrypt">>) \o VeNCrypt(<<"Tight">>) \o NoTunnels
            \o Kinds(<<"None">>) \o Result("ok") \o TightWelcome,
        Hello("v38") \o Offers(<<"Tight">>) \o NoTunnels \o <<S("auth count", "", 0, <<>>)>>
            \o Result("ok") \o TightWelcome,
        Hello("v38") \o Offers(<<"Tight">>) \o Tunnels("notunnel") \o Kinds(<<"VNCAuth", "None">>)
            \o Result("ok") \o TightWelcome,
        Hello("v37") \o Offers(<<"Tight">>) \o Tunnels("siemens") \o Kinds(<<"VNCAuth">>)
            \o Challenge \o Result("ok") \o TightWelcome}}

Refusing ==
    {Script(p) : p \in {
        <<S("version", "v99", 1, <<>>)>>,
        Hello("v38") \o <<S("count", "", 0, <<>>)>> \o Reason,
        Hello("v33") \o Dictates("none") \o NoReason,
        Hello("v33") \o Dictates("Odd"),
        Hello("v37") \o Unanswered(Offers(<<"Odd">>)),
        Hello("v38") \o Offers(<<"VNCAuth">>) \o Challenge \o Result("failed") \o Reason,
        Hello("v37") \o Offers(<<"VNCAuth">>) \o Challenge \o Result("failed"),
        Hello("v38") \o Offers(<<"VeNCrypt">>) \o <<S("vencrypt version", "0.1", 1, <<>>)>>,
        Hello("v38") \o Offers(<<"VeNCrypt">>) \o SubSeq(VeNCrypt(<<>>), 1, 2)
            \o <<S("vencrypt ack", "no", 1, <<>>)>>,
        Hello("v38") \o Offers(<<"VeNCrypt">>) \o SubSeq(VeNCrypt(<<>>), 1, 4),
        Hello("v38") \o Offers(<<"VeNCrypt">>) \o Unanswered(VeNCrypt(<<"Odd">>)),
        Hello("v38") \o Offers(<<"Tight">>) \o Unanswered(Tunnels("odd")),
        Hello("v38") \o Offers(<<"Tight">>) \o NoTunnels \o Unanswered(Kinds(<<"Odd">>)),
        Hello("v38") \o Offers(<<"RA2ne">>) \o <<S("key length", "bad", 1, <<>>)>>}}

\* What they ask for, this page does not have.
Demanding ==
    {Script(p) : p \in
        {Hello("v38") \o Offers(<<s>>) : s \in {"XVP", "ARD", "Plain"}}
        \cup {Hello("v38") \o Offers(<<"MSLogonII">>) \o <<Sends("parameters")>>,
              Hello("v38") \o Offers(<<"Tight">>) \o NoTunnels \o Kinds(<<"UnixLogon">>),
              Hello("v38") \o Offers(<<"RA2ne">>) \o <<S("key length", "good", 1, <<>>), Sends("key")>>}}

MCServers == {PlainScript, OldScript} \cup Accepting \cup Refusing \cup Demanding

\* Guests: without the extension, with part of it, with all of it.
MCGuestCaps == {{"text", "request", "provide"}, {"text", "request", "peek", "notify", "provide"}}

\* Keyboards: of Windows, with its AltGr and its Shifts; of a Mac; of a machine
\* whose guest tells of its caps lock, with scancodes and without.
Board(platform, codes, scancodes, lamps) ==
    [platform |-> platform, codes |-> codes, scancodes |-> scancodes, lamps |-> lamps]
MCPlainest == Board("other", {"KeyA"}, FALSE, FALSE)
MCAlone ==
    {MCPlainest,
     Board("windows", {"KeyA", "ControlLeft", "AltRight", "ShiftLeft", "ShiftRight", "Kanji"}, TRUE, FALSE),
     Board("mac", {"KeyA", "MetaLeft", "AltRight", "CapsLock"}, FALSE, TRUE),
     Board("other", {"KeyA", "CapsLock", "ControlLeft"}, TRUE, TRUE),
     Board("other", {"KeyA", "CapsLock", "Unidentified"}, FALSE, TRUE)}

\* And one to pinch with, where Ctrl may be held already.
MCPinched == Board("other", {"ControlLeft"}, FALSE, TRUE)
MCKeyboards == MCAlone \cup {MCPinched}

\* What sessions are used for: for one thing each; and for things that share state,
\* with fewer keys, fingers and places.
Use(things, boards, hand, touched) ==
    [things |-> things, keyboards |-> boards, fingers |-> hand, places |-> touched]
MCSome(n, all) == CHOOSE some \in SUBSET all : Cardinality(some) = n
MCPlaces(n) == MCSome(n, Positions)
MCHand(n) == MCSome(n, Fingers)
MCUses ==
    {Use({thing}, {MCPlainest}, {}, {}) : thing \in {"handshake", "clipboard", "resize", "mouse"}}
    \cup {Use({"keyboard"}, MCAlone, {}, {}),
          Use({"touch"}, {MCPlainest}, MCHand(3), MCPlaces(1)),
          Use({"touch"}, {MCPlainest}, MCHand(2), MCPlaces(2)),
          Use({"mouse", "touch"}, {MCPlainest}, MCHand(1), MCPlaces(1)),
          Use({"keyboard", "touch"}, {MCPinched}, MCHand(2), MCPlaces(1))}

=============================================================================
