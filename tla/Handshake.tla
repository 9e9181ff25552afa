----------------------------- MODULE Handshake ------------------------------
(***************************************************************************)
(* The handshake of a console with its VNC server (rfb.js and ra2.js in    *)
(* novnc-rfb.js): _initMsg and the negotiation steps it dispatches to,     *)
(* called in a loop when a message comes, and alone from the timer that    *)
(* resumes it when the page has answered for the credentials.              *)
(*                                                                         *)
(* A script is a server's side: the units it sends, a unit being what the  *)
(* client waits for at once, the stage of the protocol before each, how    *)
(* many answers it has had by then, and which. The network cuts the units  *)
(* anywhere.                                                               *)
(***************************************************************************)
EXTENDS Connection, Sequences, SequencesExt

CONSTANTS
    Servers        \* bound: the scripts

\* What a unit carries: a kind, a number, the schemes it offers in order.
Unit(role, k, n, offers) == [role |-> role, k |-> k, n |-> n, offers |-> offers]

VARIABLES
    script,        \* this server's
    arrived,       \* units of it in the receive queue, or read
    taken,         \* units read
    said,          \* the client's answers
    init,          \* RFB._rfbInitState
    version,       \* RFB._rfbVersion, in tenths
    scheme,        \* RFB._rfbAuthScheme
    tight,         \* RFB._rfbTightVNC
    vencrypt,      \* RFB._rfbVeNCryptState
    ra2,           \* RFB._rfbRSAAESAuthenticationState: what it awaits
    password,      \* RFB._rfbCredentials has a password, and nothing else
    pc,            \* the running task: _handleMessage, a timer, or none
    resumes,       \* timers of _resumeAuthentication
    misread        \* history variable: a unit was taken for another, or was not there

stream == <<script, arrived, taken, said>>
progress == <<init, version, scheme, tight, vencrypt, ra2, password>>
handshake == <<stream, progress, pc, resumes, misread>>

HandshakeInit ==
    /\ script \in Servers
    /\ arrived = 0 /\ taken = 0 /\ said = <<>>
    /\ init = "" /\ version = 0 /\ scheme = "none" /\ tight = FALSE
    /\ vencrypt = 0 /\ ra2 = "none" /\ password = FALSE
    /\ pc = "idle" /\ resumes = 0 /\ misread = FALSE

-----------------------------------------------------------------------------
\* The queue.

Has(n) == arrived - taken >= n
Next1 == script.units[taken + 1]
Next2 == script.units[taken + 2]

ReadAs(roles) == \A i \in DOMAIN roles : script.units[taken + i].role = roles[i]

\* What is read now, and taken for those roles.
Reads(roles) ==
    /\ taken' = taken + Len(roles)
    /\ misread' = (misread \/ ~Has(Len(roles)) \/ ~ReadAs(roles))
    /\ UNCHANGED <<script, arrived>>

ReadsNothing == UNCHANGED <<script, arrived, taken, misread>>

\* sQpush and flush: what a closed socket does not take is never sent.
Says(answer) == said' = IF sock = "open" THEN Append(said, answer) ELSE said

\* How much of its script the server may have sent by now.
Sendable ==
    LET waits == {i \in DOMAIN script.units : script.after[i] > Len(said)}
    IN IF waits = {} THEN Len(script.units) ELSE Min(waits) - 1

-----------------------------------------------------------------------------
\* A call of _initMsg in a given state, and what its result does.

At(s) == pc \in {"loop", "timer"} /\ init = s
AtScheme(s) == At("Authentication") /\ scheme = s

\* return true: the loop goes on while there is no session and no end; a timer
\* does not look.
Again == pc' = IF pc = "loop" /\ conn' = "connecting" THEN "loop" ELSE "idle"
\* return false.
Stop == pc' = "idle"

\* rQwait, with all that was read put back.
Starves(n) ==
    /\ ~Has(n) /\ Stop /\ ReadsNothing
    /\ UNCHANGED <<said, progress, resumes, connection>>

To(s) == init' = s
Refuses == Fails /\ Stop
Quiet == UNCHANGED connection

\* Faulty: keeps the page's answer and does not resume.
AsksCredentialsIgnored ==
    /\ password' = TRUE
    /\ Stop /\ Quiet /\ ReadsNothing
    /\ UNCHANGED <<said, init, version, scheme, tight, vencrypt, ra2, resumes>>

\* "credentialsrequired": the page answers with an empty password and nothing
\* else, which resumes from a timer.
AsksCredentials ==
    /\ password' = TRUE
    /\ resumes' = resumes + 1
    /\ Stop /\ Quiet /\ ReadsNothing
    /\ UNCHANGED <<said, init, version, scheme, tight, vencrypt, ra2>>

-----------------------------------------------------------------------------
\* _negotiateProtocolVersion.

Versions == [v33 |-> 33, v36 |-> 33, v37 |-> 37, v38 |-> 38, v889 |-> 38, v5 |-> 38]

\* After its answer the client has nothing to read: the function ends without a
\* value, and so the loop does.
Version ==
    /\ At("ProtocolVersion") /\ Has(1) /\ Next1.k \in DOMAIN Versions
    /\ Reads(<<"version">>) /\ Says("version")
    /\ version' = Versions[Next1.k]
    /\ To("Security") /\ Quiet /\ Stop
    /\ UNCHANGED <<scheme, tight, vencrypt, ra2, password, resumes>>

\* A repeater is told which server, whose version comes next.
Repeater ==
    /\ At("ProtocolVersion") /\ Has(1) /\ Next1.k = "repeater"
    /\ Reads(<<"version">>) /\ Says("repeater id")
    /\ Quiet /\ Again
    /\ UNCHANGED <<progress, resumes>>

VersionRefused ==
    /\ At("ProtocolVersion") /\ Has(1) /\ Next1.k \notin DOMAIN Versions \cup {"repeater"}
    /\ Reads(<<"version">>) /\ Refuses
    /\ UNCHANGED <<said, progress, resumes>>

VersionStarves == At("ProtocolVersion") /\ Starves(1)

-----------------------------------------------------------------------------
\* _negotiateSecurity.

Supported ==
    {"None", "VNCAuth", "RA2ne", "Tight", "VeNCrypt", "XVP", "ARD", "MSLogonII", "Plain"}

\* The first offer the client can take, in the server's order.
Able(offers, schemes) == {i \in DOMAIN offers : offers[i] \in schemes}
Choice(offers, schemes) == offers[Min(Able(offers, schemes))]

\* From 3.7 on the number of types is read without a look whether it is there.
Blind == version >= 37 /\ ~Has(1)

SecurityStarves ==
    /\ At("Security")
    /\ IF version < 37 THEN ~Has(1) ELSE ~Has(1) \/ (~Has(2) /\ Next1.n > 0)
    /\ misread' = (misread \/ Blind)
    /\ Stop /\ Quiet
    /\ UNCHANGED <<stream, progress, resumes>>

NoSecurity ==
    /\ At("Security") /\ Has(1)
    /\ IF version < 37 THEN Next1.k = "none" /\ Reads(<<"scheme">>)
       ELSE Next1.n = 0 /\ Reads(<<"count">>)
    /\ To("SecurityReason") /\ Quiet /\ Again
    /\ UNCHANGED <<said, version, scheme, tight, vencrypt, ra2, password, resumes>>

Security ==
    /\ At("Security") /\ version >= 37 /\ Has(2) /\ Next1.n > 0
    /\ Reads(<<"count", "types">>)
    /\ IF Able(Next2.offers, Supported) = {}
       THEN Refuses /\ UNCHANGED <<said, progress>>
       ELSE /\ scheme' = Choice(Next2.offers, Supported)
            /\ Says("type") /\ To("Authentication") /\ Quiet /\ Again
            /\ UNCHANGED <<version, tight, vencrypt, ra2, password>>
    /\ UNCHANGED resumes

\* An old server decides.
SecurityDictated ==
    /\ At("Security") /\ version < 37 /\ Has(1) /\ Next1.k # "none"
    /\ Reads(<<"scheme">>)
    /\ scheme' = Next1.k
    /\ To("Authentication") /\ Quiet /\ Again
    /\ UNCHANGED <<said, version, tight, vencrypt, ra2, password, resumes>>

-----------------------------------------------------------------------------
\* _negotiateAuthentication. The schemes that ask for a user name (and XVP for a
\* target) before anything else, and, with MS Logon, after the parameters.

NeedUsername == {"XVP", "ARD", "Plain", "UnixLogon", "MSLogonII"}

UsernameMissing ==
    /\ At("Authentication") /\ scheme \in NeedUsername
    /\ scheme = "MSLogonII" => Has(1)
    /\ AsksCredentials

MSLogonStarves == AtScheme("MSLogonII") /\ Starves(1)

NoAuth ==
    /\ AtScheme("None")
    /\ To(IF version >= 38 THEN "SecurityResult" ELSE "ClientInitialisation")
    /\ ReadsNothing /\ Quiet /\ Again
    /\ UNCHANGED <<said, version, scheme, tight, vencrypt, ra2, password, resumes>>

StdVNCStarves == AtScheme("VNCAuth") /\ Starves(1)

\* The challenge stays in the queue until there is a password.
StdVNCAsks == AtScheme("VNCAuth") /\ Has(1) /\ ~password /\ AsksCredentials

StdVNCAuth ==
    /\ AtScheme("VNCAuth") /\ Has(1) /\ password
    /\ Reads(<<"challenge">>) /\ Says("response")
    /\ To("SecurityResult") /\ Quiet /\ Again
    /\ UNCHANGED <<version, scheme, tight, vencrypt, ra2, password, resumes>>

Unsupported ==
    /\ At("Authentication")
    /\ scheme \notin Supported \cup {"UnixLogon"}
    /\ ReadsNothing /\ Refuses
    /\ UNCHANGED <<said, progress, resumes>>

-----------------------------------------------------------------------------
\* _negotiateVeNCryptAuth: four states in one function that returns when it
\* lacks data, and finds its place again.

InVeNCrypt(n) == AtScheme("VeNCrypt") /\ vencrypt = n
VeNCryptTo(n) ==
    /\ vencrypt' = n /\ UNCHANGED <<init, version, tight, ra2, password, resumes>>

\* Faulty: starts over.
VeNCryptStarvesForgetful ==
    /\ AtScheme("VeNCrypt") /\ vencrypt < 4 /\ ~Has(1)
    /\ vencrypt' = 0
    /\ Stop /\ Quiet /\ ReadsNothing
    /\ UNCHANGED <<said, init, version, scheme, tight, ra2, password, resumes>>

VeNCryptStarves == AtScheme("VeNCrypt") /\ vencrypt < 4 /\ Starves(1)

VeNCryptVersion ==
    /\ InVeNCrypt(0) /\ Has(1) /\ Reads(<<"vencrypt version">>)
    /\ IF Next1.k = "0.2"
       THEN Says("vencrypt version") /\ VeNCryptTo(1) /\ UNCHANGED pc /\ Quiet
       ELSE Refuses /\ UNCHANGED <<said, init, version, tight, vencrypt, ra2, password, resumes>>
    /\ UNCHANGED scheme

VeNCryptAck ==
    /\ InVeNCrypt(1) /\ Has(1) /\ Reads(<<"vencrypt ack">>)
    /\ IF Next1.k = "ok" THEN VeNCryptTo(2) /\ UNCHANGED pc /\ Quiet
       ELSE Refuses /\ UNCHANGED <<init, version, tight, vencrypt, ra2, password, resumes>>
    /\ UNCHANGED <<said, scheme>>

VeNCryptCount ==
    /\ InVeNCrypt(2) /\ Has(1) /\ Reads(<<"vencrypt count">>)
    /\ IF Next1.n > 0 THEN VeNCryptTo(3) /\ UNCHANGED pc /\ Quiet
       ELSE Refuses /\ UNCHANGED <<init, version, tight, vencrypt, ra2, password, resumes>>
    /\ UNCHANGED <<said, scheme>>

SubTypes == Supported \ {"VeNCrypt"}

VeNCryptTypes ==
    /\ InVeNCrypt(3) /\ Has(1) /\ Reads(<<"vencrypt types">>)
    /\ IF Able(Next1.offers, SubTypes) = {}
       THEN /\ Refuses
            /\ UNCHANGED <<said, scheme, init, version, tight, vencrypt, ra2, password, resumes>>
       ELSE /\ scheme' = Choice(Next1.offers, SubTypes)
            /\ Says("vencrypt type") /\ VeNCryptTo(4) /\ Quiet /\ Again

-----------------------------------------------------------------------------
\* _negotiateTightAuth and _negotiateTightTunnels.

TightStarves ==
    /\ AtScheme("Tight")
    /\ ~Has(1) \/ (~Has(2) /\ Next1.n > 0)
    /\ Stop /\ Quiet /\ ReadsNothing
    /\ UNCHANGED <<said, progress, resumes>>

\* No tunnels: on to the kinds of authentication, in the same call.
TightNoTunnels ==
    /\ AtScheme("Tight") /\ ~tight /\ Has(1) /\ Next1.n = 0
    /\ Reads(<<"tunnels">>)
    /\ tight' = TRUE /\ UNCHANGED pc /\ Quiet
    /\ UNCHANGED <<said, init, version, scheme, vencrypt, ra2, password, resumes>>

\* Tunnels: one of them must be none at all, which a Siemens server means.
TightTunnels ==
    /\ AtScheme("Tight") /\ ~tight /\ Has(2) /\ Next1.n > 0
    /\ Reads(<<"tunnels", "tunnel list">>)
    /\ tight' = TRUE
    /\ IF Next2.k \in {"notunnel", "siemens"} THEN Says("tunnel") /\ Stop /\ Quiet
       ELSE Refuses /\ UNCHANGED said
    /\ UNCHANGED <<init, version, scheme, vencrypt, ra2, password, resumes>>

\* A server without kinds of authentication wants none.
TightNone ==
    /\ AtScheme("Tight") /\ tight /\ Has(1) /\ Next1.n = 0
    /\ Reads(<<"auth count">>)
    /\ To("SecurityResult") /\ Quiet /\ Again
    /\ UNCHANGED <<said, version, scheme, tight, vencrypt, ra2, password, resumes>>

\* The client's order decides here.
TightKinds == <<"None", "VNCAuth", "UnixLogon">>
TightAble(offers) == {i \in DOMAIN TightKinds : \E j \in DOMAIN offers : offers[j] = TightKinds[i]}
TightKind(offers) == TightKinds[Min(TightAble(offers))]

TightAuth ==
    LET kind == TightKind(Next2.offers)
    IN /\ AtScheme("Tight") /\ tight /\ Has(2) /\ Next1.n > 0
       /\ Reads(<<"auth count", "auth list">>)
       /\ IF TightAble(Next2.offers) = {} THEN Refuses /\ UNCHANGED <<said, init, scheme>>
          ELSE /\ Says("auth kind") /\ Quiet /\ Again
               /\ IF kind = "None" THEN To("SecurityResult") /\ UNCHANGED scheme
                  ELSE scheme' = kind /\ UNCHANGED init
       /\ UNCHANGED <<version, tight, vencrypt, ra2, password, resumes>>

-----------------------------------------------------------------------------
\* _negotiateRA2neAuth and ra2.js: an asynchronous function of its own, which
\* _initMsg only pokes; what follows a poke runs in the same task. It waits for
\* approveServer, which the page never calls.

Ra2Pokes ==
    /\ AtScheme("RA2ne")
    /\ ra2' = IF ra2 = "none" THEN "key length" ELSE ra2
    /\ pc' = "ra2" /\ Quiet /\ ReadsNothing
    /\ UNCHANGED <<said, init, version, scheme, tight, vencrypt, password, resumes>>

Ra2Waits ==
    /\ pc = "ra2" /\ (ra2 = "approval" \/ ~Has(1))
    /\ Stop /\ Quiet /\ ReadsNothing
    /\ UNCHANGED <<said, progress, resumes>>

\* A bad length rejects the promise: a failure, after which the handler of
\* success runs all the same.
Ra2KeyLength ==
    /\ pc = "ra2" /\ ra2 = "key length" /\ Has(1)
    /\ Reads(<<"key length">>)
    /\ IF Next1.k = "good" THEN ra2' = "key" /\ UNCHANGED <<init, pc>> /\ Quiet
       ELSE Refuses /\ To("SecurityResult") /\ ra2' = "none"
    /\ UNCHANGED <<said, version, scheme, tight, vencrypt, password, resumes>>

Ra2Key ==
    /\ pc = "ra2" /\ ra2 = "key" /\ Has(1)
    /\ Reads(<<"key">>) /\ ra2' = "approval" /\ Stop /\ Quiet
    /\ UNCHANGED <<said, init, version, scheme, tight, vencrypt, password, resumes>>

-----------------------------------------------------------------------------
\* The end of the handshake.

ResultStarves == At("SecurityResult") /\ Starves(1)

\* _handleSecurityResult: a new server says why it refuses.
SecurityResult ==
    /\ At("SecurityResult") /\ Has(1) /\ Reads(<<"result">>)
    /\ IF Next1.k = "ok" THEN To("ClientInitialisation") /\ Quiet /\ Again
       ELSE IF version >= 38 THEN To("SecurityReason") /\ Quiet /\ Again
       ELSE SecurityFails /\ Stop /\ UNCHANGED init
    /\ UNCHANGED <<said, version, scheme, tight, vencrypt, ra2, password, resumes>>

ReasonStarves ==
    /\ At("SecurityReason")
    /\ ~Has(1) \/ (~Has(2) /\ Next1.n > 0)
    /\ Stop /\ Quiet /\ ReadsNothing
    /\ UNCHANGED <<said, progress, resumes>>

\* _handleSecurityReason.
SecurityReason ==
    /\ At("SecurityReason") /\ Has(1) /\ (Next1.n > 0 => Has(2))
    /\ Reads(IF Next1.n > 0 THEN <<"reason length", "reason">> ELSE <<"reason length">>)
    /\ SecurityFails /\ Stop
    /\ UNCHANGED <<said, progress, resumes>>

\* Nothing of the server's triggers this state.
ClientInitialisation ==
    /\ At("ClientInitialisation")
    /\ Says("shared") /\ To("ServerInitialisation") /\ ReadsNothing /\ Quiet /\ Again
    /\ UNCHANGED <<version, scheme, tight, vencrypt, ra2, password, resumes>>

ServerInitUnits ==
    IF tight THEN <<"init", "name", "tight header", "tight lists">> ELSE <<"init", "name">>

ServerInitStarves == At("ServerInitialisation") /\ Starves(Len(ServerInitUnits))

\* Faulty: looks only for the fixed part.
ServerInitHasty ==
    /\ At("ServerInitialisation") /\ Has(1)
    /\ Reads(ServerInitUnits) /\ Says("setup")
    /\ Connected /\ Again
    /\ UNCHANGED <<progress, resumes>>

\* _negotiateServerInit: all of it or none.
ServerInit ==
    /\ At("ServerInitialisation") /\ Has(Len(ServerInitUnits))
    /\ Reads(ServerInitUnits) /\ Says("setup")
    /\ Connected /\ Again
    /\ UNCHANGED <<progress, resumes>>

InitMsg ==
    \/ Version \/ Repeater \/ VersionRefused \/ VersionStarves
    \/ SecurityStarves \/ NoSecurity \/ Security \/ SecurityDictated
    \/ UsernameMissing \/ MSLogonStarves \/ NoAuth \/ Unsupported
    \/ StdVNCStarves \/ StdVNCAsks \/ StdVNCAuth
    \/ VeNCryptStarves \/ VeNCryptVersion \/ VeNCryptAck \/ VeNCryptCount \/ VeNCryptTypes
    \/ TightStarves \/ TightNoTunnels \/ TightTunnels \/ TightNone \/ TightAuth
    \/ Ra2Pokes \/ Ra2Waits \/ Ra2KeyLength \/ Ra2Key
    \/ ResultStarves \/ SecurityResult \/ ReasonStarves \/ SecurityReason
    \/ ClientInitialisation \/ ServerInitStarves \/ ServerInit

-----------------------------------------------------------------------------
\* The tasks that start a call.

\* _socketOpen.
SocketOpens ==
    /\ pc = "idle" /\ sock = "connecting"
    /\ sock' = "open"
    /\ IF conn = "connecting" /\ init = "" THEN To("ProtocolVersion") /\ UNCHANGED conn
       ELSE UNCHANGED <<init, conn>>
    /\ UNCHANGED <<clean, page, disconnects, stream, version, scheme, tight, vencrypt, ra2,
                   password, pc, resumes, misread>>

\* A message event with n units, and _handleMessage.
HandshakeArrives(n) ==
    /\ pc = "idle" /\ sock = "open" /\ conn = "connecting"
    /\ arrived + n <= Sendable
    /\ arrived' = arrived + n
    /\ pc' = "loop"
    /\ UNCHANGED <<connection, script, taken, said, progress, resumes, misread>>

\* The timer of _resumeAuthentication, which nothing clears.
Resume ==
    /\ pc = "idle" /\ resumes > 0
    /\ resumes' = resumes - 1
    /\ pc' = "timer"
    /\ UNCHANGED <<connection, stream, progress, misread>>

-----------------------------------------------------------------------------
(***************************************************************************)
(* The other end: a server that keeps to the protocol, for as long as it   *)
(* says anything. The stage of a server is what it sends next, with what   *)
(* has been agreed on; after "end" it has nothing to say to this client.   *)
(***************************************************************************)
Stage(want, v, t) == [want |-> want, version |-> v, tight |-> t]
Start == Stage("version", 0, FALSE)

Goes(p, want, answers) == [stage |-> Stage(want, p.version, p.tight), answers |-> answers]
GoesTight(p, answers) == [stage |-> Stage("auth count", p.version, TRUE), answers |-> answers]
Quits(p) == Goes(p, "end", <<>>)

\* What a scheme begins with; one that needs no proof is done.
FirstUnit ==
    [VNCAuth |-> "challenge", Tight |-> "tunnels", VeNCrypt |-> "vencrypt version",
     RA2ne |-> "key length", MSLogonII |-> "parameters"]
Under(p, s, answers) ==
    IF s = "None" /\ p.version >= 38 THEN Goes(p, "result", answers)
    ELSE IF s = "None" THEN Goes(p, "init", Append(answers, "shared"))
    ELSE Goes(p, IF s \in DOMAIN FirstUnit THEN FirstUnit[s] ELSE "end", answers)

\* The stage after a unit, and what the client answers to it.
Turn(p, u) ==
    CASE p.want = "version" ->
           IF u.k = "repeater" THEN Goes(p, "version", <<"repeater id">>)
           ELSE IF u.k \notin DOMAIN Versions THEN Quits(p)
           ELSE LET v == Versions[u.k]
                IN [stage   |-> Stage(IF v < 37 THEN "scheme" ELSE "count", v, FALSE),
                    answers |-> <<"version">>]
      [] p.want = "scheme" ->
           IF u.k = "none" THEN Goes(p, "reason length", <<>>) ELSE Under(p, u.k, <<>>)
      [] p.want = "count" -> Goes(p, IF u.n > 0 THEN "types" ELSE "reason length", <<>>)
      [] p.want = "types" ->
           IF Able(u.offers, Supported) = {} THEN Quits(p)
           ELSE Under(p, Choice(u.offers, Supported), <<"type">>)
      [] p.want = "vencrypt version" ->
           IF u.k = "0.2" THEN Goes(p, "vencrypt ack", <<"vencrypt version">>) ELSE Quits(p)
      [] p.want = "vencrypt ack" -> Goes(p, IF u.k = "ok" THEN "vencrypt count" ELSE "end", <<>>)
      [] p.want = "vencrypt count" -> Goes(p, IF u.n > 0 THEN "vencrypt types" ELSE "end", <<>>)
      [] p.want = "vencrypt types" ->
           IF Able(u.offers, SubTypes) = {} THEN Quits(p)
           ELSE Under(p, Choice(u.offers, SubTypes), <<"vencrypt type">>)
      [] p.want = "tunnels" -> IF u.n > 0 THEN Goes(p, "tunnel list", <<>>) ELSE GoesTight(p, <<>>)
      [] p.want = "tunnel list" ->
           IF u.k \in {"notunnel", "siemens"} THEN GoesTight(p, <<"tunnel">>) ELSE Quits(p)
      [] p.want = "auth count" -> Goes(p, IF u.n > 0 THEN "auth list" ELSE "result", <<>>)
      [] p.want = "auth list" ->
           IF TightAble(u.offers) = {} THEN Quits(p)
           ELSE Goes(p, [None |-> "result", VNCAuth |-> "challenge", UnixLogon |-> "end"]
                          [TightKind(u.offers)], <<"auth kind">>)
      [] p.want = "challenge" -> Goes(p, "result", <<"response">>)
      [] p.want = "key length" -> Goes(p, IF u.k = "good" THEN "key" ELSE "end", <<>>)
      [] p.want = "result" ->
           IF u.k = "ok" THEN Goes(p, "init", <<"shared">>)
           ELSE Goes(p, IF p.version >= 38 THEN "reason length" ELSE "end", <<>>)
      [] p.want = "reason length" -> Goes(p, IF u.n > 0 THEN "reason" ELSE "end", <<>>)
      [] p.want = "init" -> Goes(p, "name", <<>>)
      [] p.want = "name" ->
           IF p.tight THEN Goes(p, "tight header", <<>>) ELSE Goes(p, "end", <<"setup">>)
      [] p.want = "tight header" -> Goes(p, "tight lists", <<>>)
      [] p.want = "tight lists" -> Goes(p, "end", <<"setup">>)
      [] OTHER -> Quits(p)

KeepsProtocol(s) ==
    LET n == Len(s.units)
    IN /\ s.units \in Seq([role : STRING, k : STRING, n : Nat, offers : Seq(STRING)])
       /\ s.stages \in Seq([want : STRING, version : {0, 33, 37, 38}, tight : BOOLEAN])
       /\ Len(s.stages) = n + 1 /\ s.stages[1] = Start
       /\ s.answers \in Seq(STRING) /\ s.after \in Seq(0 .. Len(s.answers))
       /\ Len(s.after) = n + 1 /\ s.after[1] = 0 /\ s.after[n + 1] = Len(s.answers)
       /\ \A i \in 1 .. n :
             LET turn == Turn(s.stages[i], s.units[i])
             IN /\ s.units[i].role = s.stages[i].want /\ s.stages[i].want # "end"
                /\ s.stages[i + 1] = turn.stage
                /\ s.after[i + 1] = s.after[i] + Len(turn.answers)
                /\ \A j \in DOMAIN turn.answers : s.answers[s.after[i] + j] = turn.answers[j]

ASSUME ServersAssumption == \A s \in Servers : KeepsProtocol(s)

-----------------------------------------------------------------------------
HandshakeTypeOK ==
    /\ script \in Servers
    /\ taken \in Nat /\ arrived \in Nat /\ taken <= arrived /\ arrived <= Len(script.units)
    /\ version \in {0, 33, 37, 38}
    /\ vencrypt \in 0 .. 4 /\ ra2 \in {"none", "key length", "key", "approval"}
    /\ tight \in BOOLEAN /\ password \in BOOLEAN /\ misread \in BOOLEAN
    /\ pc \in {"idle", "loop", "timer", "ra2"} /\ resumes \in Nat

\* The two ends never disagree on where they are: the client reads every unit
\* for what it is and none that is not there, gives the server the answers it
\* awaits, in its order, and once the session is up no timer is left that would
\* go on with the handshake in the middle of it.
HandshakeInStep ==
    /\ ~misread
    /\ IsPrefix(said, script.answers)
    /\ conn = "connected" => said = script.answers /\ resumes = 0

\* Schemes this page can never satisfy.
Hopeless == scheme \in NeedUsername \/ ra2 = "approval"

\* The handshake never stops for want of the client: a server that has been read
\* to the end gets its answer, or the session begins or fails, unless the page
\* lacks what is asked of it.
Decides ==
    <>[](conn = "connecting" /\ sock = "open" =>
            arrived < Sendable \/ Hopeless)

=============================================================================
