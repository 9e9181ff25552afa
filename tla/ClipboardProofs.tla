-------------------------- MODULE ClipboardProofs ---------------------------
(***************************************************************************)
(* For every guest that takes what it asks to be told of, every length of  *)
(* the texts and of the send queue, and any number of copies and pastes:   *)
(* what is pasted arrives.                                                 *)
(***************************************************************************)
EXTENDS Console, TLAPS

-----------------------------------------------------------------------------
\* What is under way.

Capabilities == {"text", "request", "peek", "notify", "provide"}
AllTexts == [at : Nat, units : Nat \ {0}, latin : BOOLEAN, intact : BOOLEAN]
Messages(kinds) == [kind : kinds, text : AllTexts, caps : SUBSET Capabilities]
GuestMessages == Messages({"caps", "request", "notify", "provide", "cut"})
HostMessages == Messages({"caps", "request", "peek", "notify", "provide", "text", "odd"})

ClipboardShape ==
    /\ toGuest \in Seq(GuestMessages) /\ toHost \in Seq(HostMessages)
    /\ held \in AllTexts \cup {None}
    /\ hostHas \in AllTexts /\ guestHas \in AllTexts /\ pasted \in AllTexts
    /\ clock \in 0 .. MaxCopies /\ clicks \in 0 .. MaxPastes
    /\ announces \in GuestCaps \cup {None} /\ caps \in GuestCaps \cup {{}}
    /\ reading \in BOOLEAN /\ guestExtended \in BOOLEAN /\ crossed \in BOOLEAN

\* The guest announces what it can once, before which nothing is held for it;
\* and what is held was pasted last.
AnnouncedOnce ==
    /\ announces # None => caps = {} /\ \A i \in DOMAIN toHost : toHost[i].kind # "caps"
    /\ \A i \in DOMAIN toHost :
          toHost[i].kind = "caps" =>
              /\ caps = {} /\ toHost[i].caps \in GuestCaps
              /\ \A j \in DOMAIN toHost : toHost[j].kind = "caps" => j = i
    /\ held # None => held = pasted /\ {"text", "notify"} \subseteq caps

\* Texts that were copied at the same time are one text, whoever has it, and a
\* text that fits and is Latin-1 is always whole.
Like(t, u) == t.at = u.at /\ t.units = u.units /\ t.latin = u.latin
Whole(t) == Fits(t) /\ t.latin => t.intact
TextsOf(q) == {q[i].text : i \in DOMAIN q}
Around == {NoText, hostHas, guestHas, pasted} \cup TextsOf(toGuest) \cup TextsOf(toHost)

Coherent ==
    /\ \A t \in Around : t.at <= clock /\ Whole(t)
    /\ \A t, u \in Around : t.at = u.at => Like(t, u)

\* The guest has a text as new as p, or one is on its way to it, and nothing
\* older comes after that one.
Carries(m) == m.kind \in {"provide", "cut"}
NewAfter(q, p, i) == \A j \in DOMAIN q : j > i /\ Carries(q[j]) => q[j].text.at >= p
Delivered(q, at, p) ==
    \/ at >= p /\ NewAfter(q, p, 0)
    \/ \E i \in DOMAIN q : Carries(q[i]) /\ q[i].text.at >= p /\ NewAfter(q, p, i)

\* Or it is to come for the text, which is held for it.
Notified(q) == \E i \in DOMAIN q : q[i].kind = "notify" /\ q[i].text # NoText
Requested(q) == \E i \in DOMAIN q : q[i].kind = "request"

Delivers ==
    pasted # NoText /\ ~crossed =>
        \/ held # None /\ (Notified(toGuest) \/ Requested(toHost))
        \/ Delivered(toGuest, guestHas.at, pasted.at)

ClipboardInv == ClipboardShape /\ AnnouncedOnce /\ Coherent /\ Delivers

-----------------------------------------------------------------------------
\* Sequences of messages.

LEMMA Appended ==
    ASSUME NEW S, NEW q \in Seq(S), NEW m \in S
    PROVE  /\ Append(q, m) \in Seq(S) /\ DOMAIN Append(q, m) = 1 .. Len(q) + 1
           /\ DOMAIN q = 1 .. Len(q) /\ Len(q) \in Nat
           /\ Append(q, m)[Len(q) + 1] = m
           /\ \A i \in 1 .. Len(q) : Append(q, m)[i] = q[i]
OBVIOUS

LEMMA Shortened ==
    ASSUME NEW S, NEW q \in Seq(S), q # <<>>
    PROVE  /\ Tail(q) \in Seq(S) /\ DOMAIN Tail(q) = 1 .. Len(q) - 1
           /\ DOMAIN q = 1 .. Len(q) /\ Len(q) \in Nat \ {0}
           /\ Head(q) = q[1] /\ Head(q) \in S
           /\ \A i \in 1 .. Len(q) - 1 : Tail(q)[i] = q[i + 1]
OBVIOUS

LEMMA TextsAppended ==
    ASSUME NEW S, NEW q \in Seq(S), NEW m \in S
    PROVE  TextsOf(Append(q, m)) \subseteq TextsOf(q) \cup {m.text}
BY Appended DEF TextsOf

LEMMA TextsShortened ==
    ASSUME NEW S, NEW q \in Seq(S), q # <<>>
    PROVE  TextsOf(Tail(q)) \subseteq TextsOf(q) /\ Head(q).text \in TextsOf(q)
<1> USE Shortened
<1>1. Head(q).text \in TextsOf(q) BY DEF TextsOf
<1>2. ASSUME NEW i \in DOMAIN Tail(q) PROVE Tail(q)[i].text \in TextsOf(q)
  <2>1. i + 1 \in DOMAIN q /\ Tail(q)[i] = q[i + 1] OBVIOUS
  <2> QED BY <2>1 DEF TextsOf
<1> QED BY <1>1, <1>2 DEF TextsOf

\* A message that carries nothing old changes nothing.
LEMMA DeliveredAppend ==
    ASSUME NEW q \in Seq(GuestMessages), NEW m \in GuestMessages, NEW at \in Nat, NEW p \in Nat,
           Delivered(q, at, p), Carries(m) => m.text.at >= p
    PROVE  Delivered(Append(q, m), at, p)
<1> USE Appended
<1>1. ASSUME NEW i \in 0 .. Len(q), NewAfter(q, p, i) PROVE NewAfter(Append(q, m), p, i)
  BY <1>1 DEF NewAfter
<1>2. CASE at >= p /\ NewAfter(q, p, 0) BY <1>1, <1>2 DEF Delivered
<1>3. CASE \E i \in DOMAIN q : Carries(q[i]) /\ q[i].text.at >= p /\ NewAfter(q, p, i)
  BY <1>1, <1>3 DEF Delivered
<1> QED BY <1>2, <1>3 DEF Delivered

\* One that carries something new is what counts.
LEMMA DeliveredNew ==
    ASSUME NEW q \in Seq(GuestMessages), NEW m \in GuestMessages, NEW at, NEW p \in Nat,
           Carries(m), m.text.at >= p
    PROVE  Delivered(Append(q, m), at, p)
BY Appended DEF Delivered, NewAfter

LEMMA DeliveredShorter ==
    ASSUME NEW q \in Seq(GuestMessages), q # <<>>, NEW p \in Nat, NEW i \in DOMAIN q, NewAfter(q, p, i)
    PROVE  NewAfter(Tail(q), p, i - 1)
<1> USE Shortened
<1> SUFFICES ASSUME NEW j \in DOMAIN Tail(q), j > i - 1, Carries(Tail(q)[j])
             PROVE  Tail(q)[j].text.at >= p
  BY DEF NewAfter
<1>1. j + 1 \in DOMAIN q /\ j + 1 > i /\ Tail(q)[j] = q[j + 1] OBVIOUS
<1> QED BY <1>1 DEF NewAfter

LEMMA DeliveredReceived ==
    ASSUME NEW q \in Seq(GuestMessages), q # <<>>, NEW at \in Nat, NEW p \in Nat,
           Delivered(q, at, p)
    PROVE  Delivered(Tail(q), IF Carries(Head(q)) THEN Head(q).text.at ELSE at, p)
<1> USE Shortened
<1>1. CASE at >= p /\ NewAfter(q, p, 0)
  <2>1. NewAfter(Tail(q), p, 0)
    <3>1. NewAfter(q, p, 1) BY <1>1 DEF NewAfter
    <3> QED BY <3>1, DeliveredShorter
  <2>2. Carries(Head(q)) => Head(q).text.at >= p BY <1>1 DEF NewAfter
  <2> QED BY <1>1, <2>1, <2>2 DEF Delivered
<1>2. CASE \E i \in DOMAIN q : Carries(q[i]) /\ q[i].text.at >= p /\ NewAfter(q, p, i)
  <2>1. PICK i \in DOMAIN q : Carries(q[i]) /\ q[i].text.at >= p /\ NewAfter(q, p, i) BY <1>2
  <2>2. NewAfter(Tail(q), p, i - 1) BY <2>1, DeliveredShorter
  <2>3. CASE i = 1 BY <2>1, <2>2, <2>3 DEF Delivered
  <2>4. CASE i # 1
    <3>1. i - 1 \in DOMAIN Tail(q) /\ Tail(q)[i - 1] = q[i] BY <2>4
    <3> QED BY <2>1, <2>2, <3>1 DEF Delivered
  <2> QED BY <2>3, <2>4
<1> QED BY <1>1, <1>2 DEF Delivered

LEMMA SaidAppend ==
    ASSUME NEW S, NEW q \in Seq(S), NEW m \in S
    PROVE  /\ Notified(q) => Notified(Append(q, m))
           /\ m.kind = "notify" /\ m.text # NoText => Notified(Append(q, m))
           /\ Requested(q) => Requested(Append(q, m))
           /\ m.kind = "request" => Requested(Append(q, m))
BY Appended DEF Notified, Requested

LEMMA SaidReceived ==
    ASSUME NEW S, NEW q \in Seq(S), q # <<>>
    PROVE  /\ Notified(q) => Notified(Tail(q)) \/ (Head(q).kind = "notify" /\ Head(q).text # NoText)
           /\ Requested(q) => Requested(Tail(q)) \/ Head(q).kind = "request"
<1> USE Shortened
<1>1. ASSUME NEW i \in DOMAIN q PROVE i = 1 \/ (i - 1 \in DOMAIN Tail(q) /\ Tail(q)[i - 1] = q[i])
  OBVIOUS
<1> QED BY <1>1 DEF Notified, Requested

-----------------------------------------------------------------------------
\* Texts.

LEMMA NoTextIsText == NoText \in AllTexts /\ Whole(NoText)
BY DEF NoText, AllTexts, Whole

\* Websock.sQpushBytes: a text that fits into what is free of the send queue is
\* taken from where it is.
LEMMA PushedWhole ==
    ASSUME NEW n \in Nat, NEW free \in Nat, n <= free
    PROVE  \A i \in 1 .. n : Pushed(n, free)[i] = i
<1> SUFFICES ASSUME NEW i \in 1 .. n PROVE Pushed(n, free)[i] = i
  OBVIOUS
<1>1. Chunk(n, free, i) = n BY DEF Chunk
<1> QED BY <1>1 DEF Pushed

\* What is sent is the same text, and whole if it was and fits.
LEMMA SentLike ==
    ASSUME NEW t \in AllTexts
    PROVE  Sent(t) \in AllTexts /\ Like(Sent(t), t) /\ (Whole(t) => Whole(Sent(t)))
<1>1. Sent(t) \in AllTexts /\ Like(Sent(t), t)
  BY DEF Sent, AllTexts, Like
<1>2. Fits(t) => \A i \in 1 .. t.units : Pushed(t.units, SendSize - 1)[i] = i
  BY PushedWhole, ClipboardAssumption DEF Fits, AllTexts
<1>3. Sent(t).intact = (t.intact /\ \A i \in 1 .. t.units : Pushed(t.units, SendSize - 1)[i] = i)
  BY DEF Sent, AllTexts
<1> QED BY <1>1, <1>2, <1>3 DEF Whole, Like, Fits

LEMMA MaskedLike ==
    ASSUME NEW t \in AllTexts
    PROVE  Masked(t) \in AllTexts /\ Like(Masked(t), t) /\ (Whole(t) => Whole(Masked(t)))
BY DEF Masked, AllTexts, Like, Whole, Fits

LEMMA CopiedText ==
    ASSUME NEW at \in Nat, NEW t \in Texts(at)
    PROVE  t \in AllTexts /\ t.intact = TRUE /\ t.at = at
<1>1. t.at = at /\ t.intact = TRUE BY DEF Texts
<1>2. t.units \in Lengths BY DEF Texts
<1>3. t.units \in Nat \ {0} BY <1>2, ClipboardAssumption
<1>4. t \in [at : {at}, units : Nat \ {0}, latin : BOOLEAN, intact : {TRUE}]
  BY <1>3 DEF Texts
<1> QED BY <1>1, <1>4 DEF AllTexts

LEMMA FreshText ==
    ASSUME ClipboardShape, NEW t,
           t \in Texts(clock + 1) \/ t = [NoText EXCEPT !.at = clock + 1]
    PROVE  t \in AllTexts /\ Whole(t) /\ t.at = clock + 1
<1>1. clock \in Nat BY ClipboardAssumption DEF ClipboardShape
<1>2. CASE t \in Texts(clock + 1)
  <2>1. clock + 1 \in Nat BY <1>1
  <2>2. t \in AllTexts /\ t.intact = TRUE /\ t.at = clock + 1 BY <1>2, <2>1, CopiedText
  <2> QED BY <2>2 DEF Whole
<1>3. CASE t = [NoText EXCEPT !.at = clock + 1]
  <2>1. t = [at |-> clock + 1, units |-> 1, latin |-> TRUE, intact |-> TRUE]
    BY <1>3 DEF NoText
  <2>2. t.at = clock + 1 /\ t.intact = TRUE BY <2>1
  <2>3. t \in AllTexts BY <1>1, <2>1 DEF AllTexts
  <2> QED BY <2>2, <2>3 DEF Whole
<1> QED BY <1>2, <1>3

-----------------------------------------------------------------------------
\* What a step adds to what is around.

\* A text that is like one that was there.
LEMMA CoherentSame ==
    ASSUME Coherent, clock' = clock, NEW t, Whole(t), \E u \in Around : Like(t, u),
           Around' \subseteq Around \cup {t}
    PROVE  Coherent'
<1>1. PICK u \in Around : Like(t, u) OBVIOUS
<1>2. t.at <= clock BY <1>1 DEF Coherent, Like
<1>3. ASSUME NEW v \in Around', NEW w \in Around', v.at = w.at PROVE Like(v, w)
  BY <1>1, <1>3 DEF Coherent, Like
<1>4. ASSUME NEW v \in Around' PROVE v.at <= clock /\ Whole(v)
  BY <1>2 DEF Coherent
<1> QED BY <1>3, <1>4 DEF Coherent

\* A text that is new.
LEMMA CoherentFresh ==
    ASSUME Coherent, clock \in Nat, \A u \in Around : u.at \in Nat, clock' = clock + 1,
           NEW t, Whole(t), t.at = clock + 1, Around' \subseteq Around \cup {t}
    PROVE  Coherent'
<1>1. ASSUME NEW v \in Around' PROVE v.at <= clock' /\ Whole(v)
  BY DEF Coherent
<1>2. \A u \in Around : u.at # t.at BY DEF Coherent
<1>3. ASSUME NEW v \in Around', NEW w \in Around', v.at = w.at PROVE Like(v, w)
  BY <1>2, <1>3 DEF Coherent, Like
<1> QED BY <1>1, <1>3 DEF Coherent

LEMMA AroundIsText ==
    ASSUME ClipboardShape PROVE \A t \in Around : t \in AllTexts
<1>1. \A q : q \in Seq(GuestMessages) \/ q \in Seq(HostMessages) => \A i \in DOMAIN q : q[i].text \in AllTexts
  <2> TAKE q
  <2>1. ASSUME NEW K, q \in Seq(Messages(K)), NEW i \in DOMAIN q PROVE q[i].text \in AllTexts
    <3>1. q[i] \in Messages(K) BY <2>1
    <3> QED BY <3>1 DEF Messages
  <2> QED BY <2>1 DEF GuestMessages, HostMessages
<1> QED BY <1>1, NoTextIsText DEF ClipboardShape, Around, TextsOf

LEMMA MessagesFrom ==
    ASSUME NEW t \in AllTexts
    PROVE  /\ \A k \in {"caps", "request", "notify", "provide", "cut"} : Msg(k, t) \in GuestMessages
           /\ \A k \in {"caps", "request", "peek", "notify", "provide", "text", "odd"} :
                 Msg(k, t) \in HostMessages
           /\ \A k : Msg(k, t).kind = k /\ Msg(k, t).text = t
BY DEF Msg, GuestMessages, HostMessages, Messages

LEMMA CapsAreCapabilities ==
    ASSUME ClipboardShape
    PROVE  /\ caps \subseteq Capabilities /\ (announces # None => announces \subseteq Capabilities)
           /\ {"text", "notify"} \subseteq caps => "provide" \in caps
BY GuestCapsAssumption DEF ClipboardShape, Capabilities

-----------------------------------------------------------------------------
\* The steps: what each does to the messages and the texts.

LEMMA SameKeeps ==
    ASSUME ClipboardInv, UNCHANGED clipboard PROVE ClipboardInv'
BY DEF clipboard, ClipboardInv, ClipboardShape, AnnouncedOnce, Coherent, Around, TextsOf, Delivers,
       Notified, Requested, Delivered, NewAfter, Carries, Like, Whole, Fits

LEMMA HostCopiesKeeps ==
    ASSUME ClipboardInv, HostCopies PROVE ClipboardInv'
<1> USE DEF ClipboardInv
<1>1. PICK t \in Texts(clock + 1) : hostHas' = t BY DEF HostCopies
<1>2. t \in AllTexts /\ Whole(t) /\ t.at = clock + 1 BY <1>1, FreshText
<1>3. ClipboardShape'
  BY <1>1, <1>2, ClipboardAssumption DEF HostCopies, ClipboardShape
<1>4. AnnouncedOnce' BY DEF HostCopies, AnnouncedOnce
<1>5. Delivers' BY DEF HostCopies, Delivers, Notified, Requested, Delivered, NewAfter, Carries
<1>6. Coherent'
  <2>1. Around' \subseteq Around \cup {t} BY <1>1 DEF HostCopies, Around, TextsOf
  <2>2. \A u \in Around : u.at \in Nat BY AroundIsText DEF AllTexts
  <2>3. clock \in Nat /\ clock' = clock + 1
    BY ClipboardAssumption DEF ClipboardShape, HostCopies
  <2> QED BY <1>2, <2>1, <2>2, <2>3, CoherentFresh
<1> QED BY <1>3, <1>4, <1>5, <1>6

LEMMA PageStepsKeep ==
    ASSUME ClipboardInv, PasteClicked \/ PasteBlocked PROVE ClipboardInv'
<1> USE DEF ClipboardInv
<1>1. UNCHANGED <<held, caps, toGuest, toHost, hostHas, guestHas, guestExtended, announces, clock,
                  pasted, crossed>>
  BY DEF PasteClicked, PasteBlocked
<1>2. ClipboardShape'
  <2>1. reading' \in BOOLEAN /\ clicks' \in 0 .. MaxPastes
    <3>1. CASE PasteClicked BY <3>1, ClipboardAssumption DEF PasteClicked, ClipboardShape
    <3>2. CASE PasteBlocked BY <3>2 DEF PasteBlocked, ClipboardShape
    <3> QED BY <3>1, <3>2
  <2> QED BY <1>1, <2>1 DEF ClipboardShape
<1>3. AnnouncedOnce' BY <1>1 DEF AnnouncedOnce
<1>4. Delivers' BY <1>1 DEF Delivers, Notified, Requested, Delivered, NewAfter, Carries
<1>5. Coherent' BY <1>1 DEF Coherent, Around, TextsOf
<1> QED BY <1>2, <1>3, <1>4, <1>5

LEMMA PasteKeeps ==
    ASSUME ClipboardInv, Paste PROVE ClipboardInv'
<1> USE DEF ClipboardInv
<1>1. CASE conn # "connected"
  <2>1. UNCHANGED <<held, caps, toGuest, toHost, hostHas, guestHas, guestExtended, announces, clock,
                    clicks, pasted, crossed>> /\ reading' = FALSE
    BY <1>1 DEF Paste
  <2>2. ClipboardShape' BY <2>1 DEF ClipboardShape
  <2>3. AnnouncedOnce' BY <2>1 DEF AnnouncedOnce
  <2>4. Delivers' BY <2>1 DEF Delivers, Notified, Requested, Delivered, NewAfter, Carries
  <2>5. Coherent' BY <2>1 DEF Coherent, Around, TextsOf
  <2> QED BY <2>2, <2>3, <2>4, <2>5
<1>2. CASE conn = "connected"
  <2> DEFINE told == {"text", "notify"} \subseteq caps
             t == IF told THEN hostHas ELSE Sent(Masked(hostHas))
             m == Msg(IF told THEN "notify" ELSE "cut", t)
  <2>1. /\ pasted' = hostHas /\ crossed' = FALSE /\ reading' = FALSE /\ hostHas # NoText
        /\ held' = (IF told THEN hostHas ELSE held) /\ toGuest' = Append(toGuest, m)
        /\ UNCHANGED <<caps, toHost, hostHas, guestHas, guestExtended, announces, clock, clicks>>
    BY <1>2 DEF Paste, PasteFrom, ToGuest
  <2>2. hostHas \in AllTexts /\ hostHas \in Around /\ Whole(hostHas)
    BY DEF ClipboardShape, Coherent, Around
  <2>3. t \in AllTexts /\ Like(t, hostHas) /\ Whole(t)
    <3>1. Like(hostHas, hostHas) BY DEF Like
    <3>2. CASE told BY <2>2, <3>1, <3>2
    <3>3. CASE ~told
      <4>1. Masked(hostHas) \in AllTexts /\ Like(Masked(hostHas), hostHas) /\ Whole(Masked(hostHas))
        BY <2>2, MaskedLike
      <4>2. /\ Sent(Masked(hostHas)) \in AllTexts /\ Whole(Sent(Masked(hostHas)))
            /\ Like(Sent(Masked(hostHas)), Masked(hostHas))
        BY <4>1, SentLike
      <4> QED BY <3>3, <4>1, <4>2 DEF Like
    <3> QED BY <3>2, <3>3
  <2>4. m \in GuestMessages /\ m.text = t /\ m.kind = (IF told THEN "notify" ELSE "cut")
    BY <2>3, MessagesFrom
  <2> HIDE DEF t, m
  <2>5. ClipboardShape'
    <3>1. toGuest' \in Seq(GuestMessages) BY <2>1, <2>4, Appended DEF ClipboardShape
    <3>2. held' \in AllTexts \cup {None} BY <2>1, <2>2 DEF ClipboardShape
    <3> QED BY <2>1, <3>1, <3>2 DEF ClipboardShape
  <2>6. AnnouncedOnce'
    <3>1. held' # None => held' = pasted' /\ {"text", "notify"} \subseteq caps'
      BY <2>1 DEF AnnouncedOnce
    <3> QED BY <2>1, <3>1 DEF AnnouncedOnce
  <2>7. Delivers'
    <3>1. toGuest \in Seq(GuestMessages) BY DEF ClipboardShape
    <3>2. CASE told
      <4>1. Notified(toGuest') BY <2>1, <2>4, <3>1, <3>2, SaidAppend DEF t
      <4>2. held' # None BY <2>1, <2>2, <3>2, GuestCapsAssumption DEF AllTexts
      <4> QED BY <4>1, <4>2 DEF Delivers
    <3>3. CASE ~told
      <4>1. Carries(m) /\ m.text.at >= pasted'.at /\ pasted'.at \in Nat
        BY <2>1, <2>2, <2>3, <2>4, <3>3 DEF Carries, Like, AllTexts
      <4>2. Delivered(toGuest', guestHas'.at, pasted'.at) BY <2>1, <2>4, <3>1, <4>1, DeliveredNew
      <4> QED BY <4>2 DEF Delivers
    <3> QED BY <3>2, <3>3
  <2>8. Coherent'
    <3>1. TextsOf(toGuest') \subseteq TextsOf(toGuest) \cup {t}
      BY <2>1, <2>4, TextsAppended DEF ClipboardShape
    <3>2. Around' \subseteq Around \cup {t} BY <2>1, <3>1 DEF Around
    <3> QED BY <2>1, <2>2, <2>3, <3>2, CoherentSame
  <2> QED BY <2>5, <2>6, <2>7, <2>8
<1> QED BY <1>1, <1>2

\* What comes from the guest is taken off its end, and may be answered.
ReceivedAndAnswered(t) ==
    /\ toHost # <<>> /\ toHost' = Tail(toHost)
    /\ \/ toGuest' = toGuest
       \/ \E k \in {"caps", "request", "notify", "provide"} :
             /\ toGuest' = Append(toGuest, Msg(k, t))
             /\ k = "provide" => held # None /\ t = Sent(held)

LEMMA AnswersKeepShape ==
    ASSUME ClipboardInv, NEW t, ReceivedAndAnswered(t), t \in AllTexts
    PROVE  /\ toHost' \in Seq(HostMessages) /\ toGuest' \in Seq(GuestMessages)
           /\ Around' \subseteq {NoText, hostHas', guestHas', pasted'} \cup Around \cup {t}
<1> USE DEF ClipboardInv
<1>1. toHost' \in Seq(HostMessages) /\ TextsOf(toHost') \subseteq TextsOf(toHost)
  BY Shortened, TextsShortened DEF ReceivedAndAnswered, ClipboardShape
<1>2. toGuest' \in Seq(GuestMessages) /\ TextsOf(toGuest') \subseteq TextsOf(toGuest) \cup {t}
  <2>1. CASE toGuest' = toGuest BY <2>1 DEF ClipboardShape
  <2>2. ASSUME NEW k \in {"caps", "request", "notify", "provide"}, toGuest' = Append(toGuest, Msg(k, t))
        PROVE  toGuest' \in Seq(GuestMessages) /\ TextsOf(toGuest') \subseteq TextsOf(toGuest) \cup {t}
    <3>1. Msg(k, t) \in GuestMessages /\ Msg(k, t).text = t BY MessagesFrom
    <3>2. toGuest \in Seq(GuestMessages) BY DEF ClipboardShape
    <3> QED BY <2>2, <3>1, <3>2, Appended, TextsAppended
  <2> QED BY <2>1, <2>2 DEF ReceivedAndAnswered
<1> QED BY <1>1, <1>2 DEF Around

\* As long as what is held stays, and a request for it is answered.
LEMMA AnswersKeepDelivers ==
    ASSUME ClipboardInv, NEW t, ReceivedAndAnswered(t), t \in AllTexts,
           UNCHANGED <<held, guestHas, pasted, crossed>>,
           Head(toHost).kind = "request" /\ held # None =>
              t = Sent(held) /\ toGuest' = Append(toGuest, Msg("provide", t))
    PROVE  Delivers'
<1> USE DEF ClipboardInv
<1> SUFFICES ASSUME pasted # NoText, ~crossed PROVE Delivers' BY DEF Delivers
<1>1. toGuest \in Seq(GuestMessages) /\ toHost \in Seq(HostMessages) /\ toHost # <<>>
  BY DEF ClipboardShape, ReceivedAndAnswered
<1>2. pasted.at \in Nat /\ guestHas.at \in Nat /\ pasted \in AllTexts
  BY DEF ClipboardShape, AllTexts
<1>3. held # None => Sent(held).at = pasted.at
  BY <1>2, SentLike DEF AnnouncedOnce, Like
<1>4. CASE toGuest' = toGuest
  <2>1. CASE held # None /\ Head(toHost).kind = "request"
    <3>1. Msg("provide", t) \in GuestMessages BY MessagesFrom
    <3>2. Len(Append(toGuest, Msg("provide", t))) = Len(toGuest) + 1 BY <1>1, <3>1
    <3> QED BY <1>1, <1>4, <2>1, <3>2
  <2>2. CASE held # None /\ Head(toHost).kind # "request"
    BY <1>1, <1>4, <2>2, SaidReceived DEF Delivers, ReceivedAndAnswered
  <2>3. CASE held = None BY <1>4, <2>3 DEF Delivers
  <2> QED BY <2>1, <2>2, <2>3
<1>5. ASSUME NEW k \in {"caps", "request", "notify", "provide"}, toGuest' = Append(toGuest, Msg(k, t)),
             k = "provide" => held # None /\ t = Sent(held)
      PROVE  Delivers'
  <2>1. Msg(k, t) \in GuestMessages /\ Msg(k, t).kind = k /\ Msg(k, t).text = t BY MessagesFrom
  <2>2. Carries(Msg(k, t)) => Msg(k, t).text.at >= pasted.at
    BY <1>2, <1>3, <1>5, <2>1 DEF Carries
  <2>3. CASE Delivered(toGuest, guestHas.at, pasted.at)
    BY <1>1, <1>2, <1>5, <2>1, <2>2, <2>3, DeliveredAppend DEF Delivers
  <2>4. CASE held # None /\ Notified(toGuest)
    BY <1>1, <1>5, <2>1, <2>4, SaidAppend DEF Delivers
  <2>5. CASE held # None /\ Requested(toHost)
    <3>1. CASE Head(toHost).kind = "request"
      <4>1. t = Sent(held) /\ toGuest' = Append(toGuest, Msg("provide", t)) BY <2>5, <3>1
      <4>2. Msg("provide", t) \in GuestMessages /\ Carries(Msg("provide", t)) /\ Msg("provide", t).text = t
        BY MessagesFrom DEF Carries
      <4>3. t.at >= pasted.at BY <1>2, <1>3, <2>5, <4>1
      <4> QED BY <1>1, <1>2, <4>1, <4>2, <4>3, DeliveredNew DEF Delivers
    <3>2. CASE Head(toHost).kind # "request"
      BY <1>1, <2>5, <3>2, SaidReceived DEF Delivers, ReceivedAndAnswered
    <3> QED BY <3>1, <3>2
  <2> QED BY <2>3, <2>4, <2>5 DEF Delivers
<1> QED BY <1>4, <1>5 DEF ReceivedAndAnswered

\* As long as the guest's capabilities stay.
LEMMA AnswersKeepAnnounced ==
    ASSUME ClipboardInv, NEW t, ReceivedAndAnswered(t), UNCHANGED <<caps, pasted, announces>>,
           held' = held \/ held' = None
    PROVE  AnnouncedOnce'
<1> USE DEF ClipboardInv
<1>1. ASSUME NEW i \in DOMAIN toHost' PROVE i + 1 \in DOMAIN toHost /\ toHost'[i] = toHost[i + 1] /\ i \in Nat
  BY Shortened DEF ReceivedAndAnswered, ClipboardShape
<1>2. announces' # None => caps' = {} /\ \A i \in DOMAIN toHost' : toHost'[i].kind # "caps"
  BY <1>1 DEF AnnouncedOnce
<1>3. ASSUME NEW i \in DOMAIN toHost', toHost'[i].kind = "caps"
      PROVE  /\ caps' = {} /\ toHost'[i].caps \in GuestCaps
             /\ \A j \in DOMAIN toHost' : toHost'[j].kind = "caps" => j = i
  <2>1. i + 1 \in DOMAIN toHost /\ toHost[i + 1].kind = "caps" BY <1>1, <1>3
  <2>2. caps' = {} /\ toHost'[i].caps \in GuestCaps BY <1>1, <2>1 DEF AnnouncedOnce
  <2>3. ASSUME NEW j \in DOMAIN toHost', toHost'[j].kind = "caps" PROVE j = i
    <3>1. j + 1 \in DOMAIN toHost /\ toHost[j + 1].kind = "caps" BY <1>1, <2>3
    <3>2. j + 1 = i + 1 BY <2>1, <3>1 DEF AnnouncedOnce
    <3> QED BY <1>1, <3>2
  <2> QED BY <2>2, <2>3
<1>4. held' # None => held' = pasted' /\ {"text", "notify"} \subseteq caps' BY DEF AnnouncedOnce
<1> QED BY <1>2, <1>3, <1>4 DEF AnnouncedOnce

\* What is left of a received message that changes nothing else.
LEMMA AnsweredKeeps ==
    ASSUME ClipboardInv, NEW t, ReceivedAndAnswered(t), t \in AllTexts,
           Whole(t), \E u \in Around : Like(t, u),
           UNCHANGED <<held, caps, reading, hostHas, guestHas, guestExtended, announces, clock, clicks,
                       pasted, crossed>>,
           Head(toHost).kind = "request" /\ held # None =>
              t = Sent(held) /\ toGuest' = Append(toGuest, Msg("provide", t))
    PROVE  ClipboardInv'
<1>1. /\ toHost' \in Seq(HostMessages) /\ toGuest' \in Seq(GuestMessages)
      /\ Around' \subseteq {NoText, hostHas', guestHas', pasted'} \cup Around \cup {t}
  BY AnswersKeepShape
<1>2. ClipboardShape' BY <1>1 DEF ClipboardInv, ClipboardShape
<1>3. Delivers' BY AnswersKeepDelivers
<1>4. AnnouncedOnce' BY AnswersKeepAnnounced
<1>5. Coherent'
  <2>1. Around' \subseteq Around \cup {t} BY <1>1 DEF Around
  <2> QED BY <2>1, CoherentSame DEF ClipboardInv
<1> QED BY <1>2, <1>3, <1>4, <1>5 DEF ClipboardInv

LEMMA NoTextAround == NoText \in AllTexts /\ Whole(NoText) /\ \E u \in Around : Like(NoText, u)
BY NoTextIsText DEF Around, Like

LEMMA HeldAround ==
    ASSUME ClipboardInv, held # None
    PROVE  /\ held \in AllTexts /\ Whole(held) /\ \E u \in Around : Like(held, u)
           /\ Sent(held) \in AllTexts /\ Whole(Sent(held)) /\ \E u \in Around : Like(Sent(held), u)
<1>1. held = pasted /\ held \in AllTexts /\ held \in Around
  BY DEF ClipboardInv, AnnouncedOnce, ClipboardShape, Around
<1>2. Whole(held) BY <1>1 DEF ClipboardInv, Coherent
<1> QED BY <1>1, <1>2, SentLike DEF Like

LEMMA RequestKeeps ==
    ASSUME ClipboardInv, RequestReceived PROVE ClipboardInv'
<1>1. toHost # <<>> /\ toHost' = Tail(toHost)
      /\ UNCHANGED <<held, caps, reading, hostHas, guestHas, guestExtended, announces, clock, clicks,
                     pasted, crossed>>
  BY DEF RequestReceived, HostReceives
<1>2. CASE held # None
  <2>1. "provide" \in caps
    BY <1>2, CapsAreCapabilities DEF ClipboardInv, AnnouncedOnce
  <2>2. toGuest' = Append(toGuest, Msg("provide", Sent(held)))
    BY <1>2, <2>1 DEF RequestReceived, ToGuest
  <2>3. ReceivedAndAnswered(Sent(held)) BY <1>1, <1>2, <2>2 DEF ReceivedAndAnswered
  <2> QED BY <1>1, <1>2, <2>2, <2>3, HeldAround, AnsweredKeeps
<1>3. CASE held = None
  <2>1. toGuest' = toGuest BY <1>3 DEF RequestReceived
  <2>2. ReceivedAndAnswered(NoText) BY <1>1, <2>1 DEF ReceivedAndAnswered
  <2> QED BY <1>1, <1>3, <2>2, NoTextAround, AnsweredKeeps
<1> QED BY <1>2, <1>3

LEMMA PeekKeeps ==
    ASSUME ClipboardInv, PeekReceived PROVE ClipboardInv'
<1> DEFINE t == IF held = None THEN NoText ELSE held
<1>1. /\ toHost # <<>> /\ toHost' = Tail(toHost) /\ Head(toHost).kind = "peek"
      /\ UNCHANGED <<held, caps, reading, hostHas, guestHas, guestExtended, announces, clock, clicks,
                     pasted, crossed>>
      /\ toGuest' = toGuest \/ toGuest' = Append(toGuest, Msg("notify", t))
  BY DEF PeekReceived, HostReceives, ToGuest
<1>2. t \in AllTexts /\ Whole(t) /\ \E u \in Around : Like(t, u) BY NoTextAround, HeldAround
<1> HIDE DEF t
<1>3. ReceivedAndAnswered(t) BY <1>1 DEF ReceivedAndAnswered
<1> QED BY <1>1, <1>2, <1>3, AnsweredKeeps

LEMMA NotifyKeeps ==
    ASSUME ClipboardInv, NotifyReceived PROVE ClipboardInv'
<1>1. /\ toHost # <<>> /\ toHost' = Tail(toHost) /\ Head(toHost).kind = "notify"
      /\ UNCHANGED <<held, caps, reading, hostHas, guestHas, guestExtended, announces, clock, clicks,
                     pasted, crossed>>
      /\ toGuest' = toGuest \/ toGuest' = Append(toGuest, Msg("request", NoText))
  BY DEF NotifyReceived, HostReceives, ToGuest
<1>2. ReceivedAndAnswered(NoText) BY <1>1 DEF ReceivedAndAnswered
<1> QED BY <1>1, <1>2, NoTextAround, AnsweredKeeps

LEMMA OddKeeps ==
    ASSUME ClipboardInv, OddReceived PROVE ClipboardInv'
<1>1. /\ toHost # <<>> /\ toHost' = Tail(toHost) /\ Head(toHost).kind = "odd" /\ toGuest' = toGuest
      /\ UNCHANGED <<held, caps, reading, hostHas, guestHas, guestExtended, announces, clock, clicks,
                     pasted, crossed>>
  BY DEF OddReceived, HostReceives
<1>2. ReceivedAndAnswered(NoText) BY <1>1 DEF ReceivedAndAnswered
<1> QED BY <1>1, <1>2, NoTextAround, AnsweredKeeps

\* The guest's capabilities come while nothing is held.
LEMMA CapsKeeps ==
    ASSUME ClipboardInv, CapsReceived PROVE ClipboardInv'
<1> USE DEF ClipboardInv
<1>1. /\ toHost # <<>> /\ toHost' = Tail(toHost) /\ Head(toHost).kind = "caps"
      /\ UNCHANGED <<held, reading, hostHas, guestHas, guestExtended, announces, clock, clicks,
                     pasted, crossed>>
      /\ caps' = Head(toHost).caps /\ toGuest' = Append(toGuest, Msg("caps", NoText))
  BY DEF CapsReceived, HostReceives, ToGuest
<1>2. ReceivedAndAnswered(NoText) BY <1>1 DEF ReceivedAndAnswered
<1>3. toHost \in Seq(HostMessages) BY DEF ClipboardShape
<1>4. 1 \in DOMAIN toHost /\ toHost[1].kind = "caps" /\ caps' = toHost[1].caps
  BY <1>1, <1>3, Shortened
<1>5. caps = {} /\ caps' \in GuestCaps /\ held = None /\ announces = None
  BY <1>4 DEF AnnouncedOnce
<1>6. /\ toHost' \in Seq(HostMessages) /\ toGuest' \in Seq(GuestMessages)
      /\ Around' \subseteq {NoText, hostHas', guestHas', pasted'} \cup Around \cup {NoText}
  BY <1>2, NoTextAround, AnswersKeepShape
<1>7. ClipboardShape' BY <1>1, <1>5, <1>6 DEF ClipboardShape
<1>8. Delivers' BY <1>1, <1>2, NoTextAround, AnswersKeepDelivers
<1>9. AnnouncedOnce'
  <2>1. ASSUME NEW i \in DOMAIN toHost' PROVE toHost'[i].kind # "caps"
    <3>1. i + 1 \in DOMAIN toHost /\ toHost'[i] = toHost[i + 1] /\ i + 1 # 1
      BY <1>1, <1>3, Shortened
    <3> QED BY <1>4, <3>1 DEF AnnouncedOnce
  <2> QED BY <1>1, <1>5, <2>1 DEF AnnouncedOnce
<1>10. Coherent'
  <2>1. Around' \subseteq Around \cup {NoText} BY <1>1, <1>6 DEF Around
  <2> QED BY <1>1, <2>1, NoTextAround, CoherentSame
<1> QED BY <1>7, <1>8, <1>9, <1>10

\* A text of the guest's: what it displaces is lost, and not counted on.
LEMMA TextKeeps ==
    ASSUME ClipboardInv, ProvideReceived \/ TextReceived PROVE ClipboardInv'
<1> USE DEF ClipboardInv
<1>1. /\ toHost # <<>> /\ toHost' = Tail(toHost) /\ Head(toHost).kind # "request" /\ toGuest' = toGuest
      /\ UNCHANGED <<caps, reading, guestHas, guestExtended, announces, clock, clicks, pasted>>
      /\ hostHas' = hostHas \/ hostHas' = Head(toHost).text
  BY DEF ProvideReceived, TextReceived, HostReceives, Clipped
<1>2. \/ UNCHANGED <<held, crossed>>
      \/ held' = None /\ crossed' = (crossed \/ held # None)
  BY DEF ProvideReceived, TextReceived
<1>3. ReceivedAndAnswered(NoText) BY <1>1 DEF ReceivedAndAnswered
<1>4. toHost \in Seq(HostMessages) BY DEF ClipboardShape
<1>5. Head(toHost).text \in AllTexts /\ Head(toHost).text \in TextsOf(toHost)
  <2>1. Head(toHost) \in HostMessages BY <1>1, <1>4, Shortened
  <2>2. Head(toHost).text \in AllTexts BY <2>1 DEF HostMessages, Messages
  <2>3. Head(toHost).text \in TextsOf(toHost) BY <1>1, <1>4, TextsShortened
  <2> QED BY <2>2, <2>3
<1>6. /\ toHost' \in Seq(HostMessages) /\ toGuest' \in Seq(GuestMessages)
      /\ Around' \subseteq {NoText, hostHas', guestHas', pasted'} \cup Around \cup {NoText}
  BY <1>3, NoTextAround, AnswersKeepShape
<1>7. ClipboardShape'
  <2>1. held' \in AllTexts \cup {None} /\ crossed' \in BOOLEAN BY <1>2 DEF ClipboardShape
  <2> QED BY <1>1, <1>5, <1>6, <2>1 DEF ClipboardShape
<1>8. AnnouncedOnce' BY <1>1, <1>2, <1>3, AnswersKeepAnnounced
<1>9. Delivers'
  <2>1. CASE UNCHANGED <<held, crossed>> BY <1>1, <1>3, <2>1, NoTextAround, AnswersKeepDelivers
  <2>2. CASE held' = None /\ crossed' = (crossed \/ held # None)
    <3>1. CASE held = None
      <4>1. UNCHANGED <<held, crossed>> BY <2>2, <3>1 DEF ClipboardShape
      <4> QED BY <2>1, <4>1
    <3>2. CASE held # None BY <2>2, <3>2 DEF Delivers
    <3> QED BY <3>1, <3>2
  <2> QED BY <1>2, <2>1, <2>2
<1>10. Coherent'
  <2>1. hostHas' \in Around BY <1>1, <1>5 DEF Around
  <2>2. Around' \subseteq Around \cup {NoText} BY <1>1, <1>6, <2>1 DEF Around
  <2> QED BY <1>1, <2>2, NoTextAround, CoherentSame
<1> QED BY <1>7, <1>8, <1>9, <1>10

\* The guest.

\* A message to the host that is not an announcement.
SendsToHost(t) ==
    \E k \in {"request", "peek", "notify", "provide", "text", "odd"} : toHost' = Append(toHost, Msg(k, t))

LEMMA SendsKeep ==
    ASSUME ClipboardInv, NEW t \in AllTexts, SendsToHost(t), UNCHANGED <<held, caps, pasted, announces>>
    PROVE  /\ toHost' \in Seq(HostMessages) /\ TextsOf(toHost') \subseteq TextsOf(toHost) \cup {t}
           /\ AnnouncedOnce'
           /\ Requested(toHost) => Requested(toHost')
<1> USE DEF ClipboardInv
<1>1. PICK k \in {"request", "peek", "notify", "provide", "text", "odd"} : toHost' = Append(toHost, Msg(k, t))
  BY DEF SendsToHost
<1>2. toHost \in Seq(HostMessages) BY DEF ClipboardShape
<1>3. Msg(k, t) \in HostMessages /\ Msg(k, t).text = t /\ Msg(k, t).kind = k BY MessagesFrom
<1>4. toHost' \in Seq(HostMessages) /\ TextsOf(toHost') \subseteq TextsOf(toHost) \cup {t}
  BY <1>1, <1>2, <1>3, Appended, TextsAppended
<1>5. ASSUME NEW i \in DOMAIN toHost', toHost'[i].kind = "caps"
      PROVE  i \in DOMAIN toHost /\ toHost'[i] = toHost[i]
  BY <1>1, <1>2, <1>3, <1>5, Appended
<1>6. AnnouncedOnce' BY <1>5 DEF AnnouncedOnce
<1>7. Requested(toHost) => Requested(toHost') BY <1>1, <1>2, <1>3, SaidAppend
<1> QED BY <1>4, <1>6, <1>7

LEMMA GuestErrsKeeps ==
    ASSUME ClipboardInv, GuestErrs PROVE ClipboardInv'
<1> USE DEF ClipboardInv
<1>1. /\ SendsToHost(NoText)
      /\ UNCHANGED <<held, caps, reading, toGuest, hostHas, guestHas, guestExtended, announces, clock,
                     clicks, pasted, crossed>>
  BY DEF GuestErrs, SendsToHost, ToHost
<1>2. /\ toHost' \in Seq(HostMessages) /\ TextsOf(toHost') \subseteq TextsOf(toHost) \cup {NoText}
      /\ AnnouncedOnce' /\ (Requested(toHost) => Requested(toHost'))
  BY <1>1, NoTextAround, SendsKeep
<1>3. ClipboardShape' BY <1>1, <1>2 DEF ClipboardShape
<1>4. Delivers' BY <1>1, <1>2 DEF Delivers
<1>5. Coherent'
  <2>1. Around' \subseteq Around \cup {NoText} BY <1>1, <1>2 DEF Around
  <2> QED BY <1>1, <2>1, NoTextAround, CoherentSame
<1> QED BY <1>2, <1>3, <1>4, <1>5

LEMMA GuestCopiesKeeps ==
    ASSUME ClipboardInv, GuestCopies PROVE ClipboardInv'
<1> USE DEF ClipboardInv
<1> DEFINE t == [NoText EXCEPT !.at = clock + 1]
<1>1. /\ SendsToHost(t) /\ guestHas' = t /\ clock' = clock + 1 /\ clock < MaxCopies
      /\ UNCHANGED <<held, caps, reading, toGuest, hostHas, guestExtended, announces, clicks, pasted, crossed>>
  <2>1. guestHas' = t /\ ToHost(IF guestExtended THEN "notify" ELSE "text", guestHas') BY DEF GuestCopies
  <2>2. SendsToHost(t) BY <2>1 DEF SendsToHost, ToHost
  <2> QED BY <2>1, <2>2 DEF GuestCopies
<1>2. t \in AllTexts /\ Whole(t) /\ t.at = clock + 1 BY FreshText
<1> HIDE DEF t
<1>3. /\ toHost' \in Seq(HostMessages) /\ TextsOf(toHost') \subseteq TextsOf(toHost) \cup {t}
      /\ AnnouncedOnce' /\ (Requested(toHost) => Requested(toHost'))
  BY <1>1, <1>2, SendsKeep
<1>4. clock \in Nat /\ clock' \in 0 .. MaxCopies
  BY <1>1, ClipboardAssumption DEF ClipboardShape
<1>5. ClipboardShape' BY <1>1, <1>2, <1>3, <1>4 DEF ClipboardShape
<1>6. Delivers'
  <2>1. pasted.at \in Nat /\ pasted.at <= clock
    BY <1>4 DEF ClipboardShape, AllTexts, Coherent, Around
  <2>2. guestHas'.at >= pasted.at BY <1>1, <1>2, <1>4, <2>1
  <2>3. Delivered(toGuest, guestHas.at, pasted.at) => Delivered(toGuest', guestHas'.at, pasted'.at)
    BY <1>1, <2>2 DEF Delivered
  <2> QED BY <1>1, <1>3, <2>3 DEF Delivers
<1>7. Coherent'
  <2>1. Around' \subseteq Around \cup {t} BY <1>1, <1>3 DEF Around
  <2>2. \A u \in Around : u.at \in Nat BY AroundIsText DEF AllTexts
  <2> QED BY <1>1, <1>2, <1>4, <2>1, <2>2, CoherentFresh
<1> QED BY <1>3, <1>5, <1>6, <1>7

LEMMA GuestAnnouncesKeeps ==
    ASSUME ClipboardInv, GuestAnnounces PROVE ClipboardInv'
<1> USE DEF ClipboardInv
<1> DEFINE m == [Msg("caps", NoText) EXCEPT !.caps = announces]
<1>1. /\ toHost' = Append(toHost, m) /\ announces # None /\ announces' = None
      /\ UNCHANGED <<held, caps, reading, toGuest, hostHas, guestHas, guestExtended, clock,
                     clicks, pasted, crossed>>
  BY DEF GuestAnnounces
<1>2. m = [kind |-> "caps", text |-> NoText, caps |-> announces] BY DEF Msg
<1> HIDE DEF m
<1>3. m.kind = "caps" /\ m.text = NoText /\ m.caps = announces BY <1>2
<1>4. m \in HostMessages
  BY <1>1, <1>2, NoTextAround, CapsAreCapabilities DEF HostMessages, Messages
<1>5. toHost \in Seq(HostMessages) BY DEF ClipboardShape
<1>6. toHost' \in Seq(HostMessages) /\ TextsOf(toHost') \subseteq TextsOf(toHost) \cup {NoText}
  BY <1>1, <1>3, <1>4, <1>5, Appended, TextsAppended
<1>7. ClipboardShape' BY <1>1, <1>6 DEF ClipboardShape
<1>8. AnnouncedOnce'
  <2>1. caps' = {} /\ announces \in GuestCaps BY <1>1 DEF AnnouncedOnce, ClipboardShape
  <2>2. ASSUME NEW i \in DOMAIN toHost', toHost'[i].kind = "caps"
        PROVE  i = Len(toHost) + 1 /\ toHost'[i] = m
    <3>1. CASE i \in DOMAIN toHost
      BY <1>1, <1>4, <1>5, <2>2, <3>1, Appended DEF AnnouncedOnce
    <3>2. CASE i \notin DOMAIN toHost
      BY <1>1, <1>4, <1>5, <3>2, Appended
    <3> QED BY <3>1, <3>2
  <2> QED BY <1>1, <1>3, <2>1, <2>2 DEF AnnouncedOnce
<1>9. Delivers'
  <2>1. Requested(toHost) => Requested(toHost') BY <1>1, <1>4, <1>5, SaidAppend
  <2> QED BY <1>1, <2>1 DEF Delivers
<1>10. Coherent'
  <2>1. Around' \subseteq Around \cup {NoText} BY <1>1, <1>6 DEF Around
  <2> QED BY <1>1, <2>1, NoTextAround, CoherentSame
<1> QED BY <1>7, <1>8, <1>9, <1>10

\* It comes for what it is told of, and keeps what it gets.
LEMMA GuestReceivesKeeps ==
    ASSUME ClipboardInv, GuestReceives PROVE ClipboardInv'
<1> USE DEF ClipboardInv
<1> DEFINE m == Head(toGuest)
<1>1. /\ toGuest # <<>> /\ toGuest' = Tail(toGuest)
      /\ UNCHANGED <<held, caps, reading, hostHas, announces, clock, clicks, pasted, crossed>>
  BY DEF GuestReceives
<1>2. toGuest \in Seq(GuestMessages) BY DEF ClipboardShape
<1>3. m \in GuestMessages /\ m.text \in TextsOf(toGuest) /\ TextsOf(toGuest') \subseteq TextsOf(toGuest)
  BY <1>1, <1>2, Shortened, TextsShortened
<1>4. /\ m.kind \in {"caps", "request", "notify", "provide", "cut"}
      /\ m.text \in AllTexts /\ toGuest' \in Seq(GuestMessages)
  BY <1>1, <1>2, <1>3, Shortened DEF GuestMessages, Messages
<1>5. /\ guestHas' = (IF Carries(m) THEN m.text ELSE guestHas)
      /\ guestExtended' = (IF m.kind = "caps" THEN TRUE ELSE guestExtended)
      /\ \/ SendsToHost(NoText) \/ SendsToHost(guestHas) \/ toHost' = toHost
      /\ m.kind = "notify" /\ m.text # NoText => toHost' = Append(toHost, Msg("request", NoText))
  <2> HIDE DEF m
  <2>0. /\ m.kind = "caps" => guestExtended' = TRUE /\ UNCHANGED guestHas /\ ToHost("peek", NoText)
        /\ m.kind = "request" => ToHost("provide", guestHas) /\ UNCHANGED <<guestHas, guestExtended>>
        /\ m.kind = "notify" => /\ UNCHANGED <<guestHas, guestExtended>>
                                /\ IF m.text = NoText THEN UNCHANGED toHost ELSE ToHost("request", NoText)
        /\ m.kind \in {"provide", "cut"} => guestHas' = m.text /\ UNCHANGED <<toHost, guestExtended>>
    BY DEF GuestReceives, m
  <2>1. CASE m.kind = "caps" BY <2>0, <2>1 DEF SendsToHost, ToHost, Carries
  <2>2. CASE m.kind = "request" BY <2>0, <2>2 DEF SendsToHost, ToHost, Carries
  <2>3. CASE m.kind = "notify" BY <2>0, <2>3 DEF SendsToHost, ToHost, Carries
  <2>4. CASE m.kind \in {"provide", "cut"} BY <2>0, <2>4 DEF Carries
  <2> QED BY <1>4, <2>1, <2>2, <2>3, <2>4
<1> HIDE DEF m
<1>6. guestHas \in AllTexts BY DEF ClipboardShape
<1>7. /\ toHost' \in Seq(HostMessages) /\ TextsOf(toHost') \subseteq TextsOf(toHost) \cup {NoText, guestHas}
      /\ AnnouncedOnce' /\ (Requested(toHost) => Requested(toHost'))
  <2>1. CASE SendsToHost(NoText) BY <1>1, <2>1, NoTextAround, SendsKeep
  <2>2. CASE SendsToHost(guestHas) BY <1>1, <1>6, <2>2, SendsKeep
  <2>3. CASE toHost' = toHost BY <1>1, <2>3 DEF ClipboardShape, AnnouncedOnce
  <2> QED BY <1>5, <2>1, <2>2, <2>3
<1>8. ClipboardShape'
  <2>1. guestHas' \in AllTexts /\ guestExtended' \in BOOLEAN BY <1>4, <1>5, <1>6 DEF ClipboardShape
  <2> QED BY <1>1, <1>4, <1>7, <2>1 DEF ClipboardShape
<1>9. Delivers'
  <2> SUFFICES ASSUME pasted # NoText, ~crossed PROVE Delivers' BY <1>1 DEF Delivers
  <2>1. pasted.at \in Nat /\ guestHas.at \in Nat BY DEF ClipboardShape, AllTexts
  <2>2. CASE Delivered(toGuest, guestHas.at, pasted.at)
    <3>1. Delivered(toGuest', IF Carries(m) THEN m.text.at ELSE guestHas.at, pasted.at)
      BY <1>1, <1>2, <2>1, <2>2, DeliveredReceived DEF m
    <3>2. guestHas'.at = IF Carries(m) THEN m.text.at ELSE guestHas.at BY <1>5
    <3> QED BY <1>1, <3>1, <3>2 DEF Delivers
  <2>3. CASE held # None /\ Notified(toGuest)
    <3>1. CASE m.kind = "notify" /\ m.text # NoText
      <4>1. Msg("request", NoText) \in HostMessages /\ Msg("request", NoText).kind = "request"
        BY NoTextAround, MessagesFrom
      <4>2. toHost \in Seq(HostMessages) BY DEF ClipboardShape
      <4>3. Requested(toHost') BY <1>5, <3>1, <4>1, <4>2, SaidAppend
      <4> QED BY <1>1, <2>3, <4>3 DEF Delivers
    <3>2. CASE ~(m.kind = "notify" /\ m.text # NoText)
      <4>1. Notified(toGuest') BY <1>1, <1>2, <2>3, <3>2, SaidReceived DEF m
      <4> QED BY <1>1, <2>3, <4>1 DEF Delivers
    <3> QED BY <3>1, <3>2
  <2>4. CASE held # None /\ Requested(toHost) BY <1>1, <1>7, <2>4 DEF Delivers
  <2> QED BY <2>2, <2>3, <2>4 DEF Delivers
<1>10. Coherent'
  <2>1. guestHas' \in Around BY <1>3, <1>5 DEF Around
  <2>2. Around' \subseteq Around \cup {NoText} BY <1>1, <1>3, <1>7, <2>1 DEF Around
  <2> QED BY <1>1, <2>2, NoTextAround, CoherentSame
<1> QED BY <1>7, <1>8, <1>9, <1>10

-----------------------------------------------------------------------------
LEMMA ClipboardInitially ==
    ASSUME Init PROVE ClipboardInv
<1> USE NoTextIsText, ClipboardAssumption DEF Init, ClipboardInit
<1>1. ClipboardShape
  <2>1. toGuest \in Seq(GuestMessages) /\ toHost \in Seq(HostMessages) OBVIOUS
  <2>2. announces \in GuestCaps \cup {None} /\ caps = {} OBVIOUS
  <2>3. clock \in 0 .. MaxCopies /\ clicks \in 0 .. MaxPastes OBVIOUS
  <2>4. held = None /\ hostHas = NoText /\ guestHas = NoText /\ pasted = NoText OBVIOUS
  <2>5. reading \in BOOLEAN /\ guestExtended \in BOOLEAN /\ crossed \in BOOLEAN OBVIOUS
  <2> QED BY <2>1, <2>2, <2>3, <2>4, <2>5 DEF ClipboardShape
<1>2. AnnouncedOnce BY DEF AnnouncedOnce
<1>3. Delivers BY DEF Delivers
<1>4. Coherent
  <2>1. Around = {NoText} BY DEF Around, TextsOf
  <2>2. NoText.at = 0 /\ clock = 0 BY DEF NoText
  <2> QED BY <2>1, <2>2 DEF Coherent, Like
<1> QED BY <1>1, <1>2, <1>3, <1>4 DEF ClipboardInv

LEMMA ClipboardStep ==
    ASSUME ClipboardInv, [Next]_vars PROVE ClipboardInv'
<1>1. CASE UsesClipboard
  <2>1. ClipboardNext BY <1>1 DEF UsesClipboard
  <2> QED BY <2>1, HostCopiesKeeps, PageStepsKeep, PasteKeeps, CapsKeeps, RequestKeeps, PeekKeeps,
             NotifyKeeps, TextKeeps, OddKeeps, GuestAnnouncesKeeps, GuestCopiesKeeps,
             GuestReceivesKeeps, GuestErrsKeeps DEF ClipboardNext
<1>2. CASE ~UsesClipboard
  <2>1. UNCHANGED clipboard
    BY <1>2 DEF Next, vars, Page, Handshaking, Resizes, Types, Points
  <2> QED BY <2>1, SameKeeps
<1> QED BY <1>1, <1>2

LEMMA DeliveredWhole ==
    ASSUME ClipboardInv PROVE PasteDelivered
<1> USE DEF ClipboardInv
<1> SUFFICES ASSUME toGuest = <<>>, toHost = <<>>, pasted # NoText, ~crossed
             PROVE  /\ guestHas.at >= pasted.at
                    /\ guestHas.at = pasted.at /\ Fits(pasted) /\ pasted.latin => guestHas.intact
  BY DEF PasteDelivered, Settled
<1>1. guestHas.at >= pasted.at BY DEF Delivers, Delivered, Notified, Requested
<1>2. guestHas \in Around /\ pasted \in Around BY DEF Around
<1>3. Whole(guestHas) /\ (guestHas.at = pasted.at => Like(guestHas, pasted)) BY <1>2 DEF Coherent
<1> QED BY <1>1, <1>3 DEF Whole, Like, Fits

\* In whatever order the two clipboards are copied to, the button is clicked and
\* the messages of both sides arrive: a text that is pasted reaches the guest, or
\* gives way to one that it copied later, and is whole if it fits into the send
\* queue (RFB.clipboardPasteFrom, _handleServerCutText, Websock.sQpushBytes).
THEOREM PasteDeliveredAlways == Spec => []PasteDelivered
<1>1. Init => ClipboardInv BY ClipboardInitially
<1>2. ClipboardInv /\ [Next]_vars => ClipboardInv' BY ClipboardStep
<1>3. ClipboardInv => PasteDelivered BY DeliveredWhole
<1> QED BY <1>1, <1>2, <1>3, PTL DEF Spec

=============================================================================
