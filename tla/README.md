# Kryton in TLA+

A model of Kryton, kept beside its code: the control plane `krytond` (Go), and
what it serves to browsers, the console of a machine and the dashboard
(JavaScript). Paths are relative to the repository root. The modules are
translated from the source; where a comment or a document says something the code
does not do, a run shows it (see *Where code and documentation differ*).

## 1. The system

`krytond` serves a REST API over Windows machines that some *provider* runs: an
in-memory demo, Docker containers (dockur), or KubeVirt. Handlers are goroutines;
so is the TTL reconciler. They meet in the provider and in the event bus.

```
 clients --HTTP--> middleware (auth, rate limit) --> handlers (internal/api)
                                                        |            |
   TTL reconciler (internal/reconciler) ---------> provider      event bus ---> SSE streams
                                                  demo | dockur | kubevirt  |--> events.jsonl
                                                        |                   '--> webhook
   settings store, storage setup, golden builds    state.json, containers, Kubernetes API

 browser:  dashboard (app.js) --REST, SSE--> krytond
           console page (console-viewer.js) -- RFB client (novnc-rfb.js) --WebSocket--> krytond --> guest's VNC server
```

The console is noVNC 1.5.0, bundled into one file that krytond serves, under a
page of Kryton's. In a browser one task runs at a time: nothing interleaves within a task,
everything between two of them (messages, timers, promises, events of the user).

| component | state | operations | what is hard | what makes it correct |
|---|---|---|---|---|
| handlers, `internal/api/server.go` | none of their own between requests; in a request, what the last provider call returned | create, start, stop, delete, snapshot, restore, list, summary | run concurrently; each is a sequence of provider calls and a `Publish`, with anything in between | each effect announced once and never before it happened |
| demo provider, `internal/demo` | maps of machines and snapshots, `nextIP`, one mutex | the provider interface, one critical section per method | check and insertion in one section; snapshots keyed apart from machines | unique names and addresses; no orphaned snapshot |
| TTL reconciler, `internal/reconciler` | a ticker; in a pass, `now` and the listed machines | `runOnce`: list, delete, publish | works on copies; races deletes, creates and the clock | nothing expires early; nothing due is missed for ever; announced once |
| event bus, `internal/events` | ring, subscriber map (RWMutex), file (own mutex), webhook (read unlocked) | `Publish`, `Subscribe`, `SetWebhookURL`, `New`/reload | stamps before the lock, file after it; slow clients; torn writes; kills | order, no duplicates, accounted losses; `Publish` never waits for a client |
| dockur provider, `internal/dockur` | machines and ports (mutex), `state.json`, directories, containers | create, get, list, start, stop, delete, `New` | side effects outside memory, each may fail or be cut by a kill; ports tried and released | unique ports; deletes are final; what is saved is what is |
| kubevirt provider, `internal/kubevirt` | none: all in the Kubernetes API; namespaces and roles | the provider interface over HTTP | get, then act by name; asynchronous deletion; get-then-post | acts on the machine it was asked to; one expiry per machine |
| golden images, `internal/golden` | builds and bootstraps in flight (mutex), `status.json` per build | start, bootstrap, resume, list | goroutines outlive requests; restart in mid build; read before lock | at most one run per build; no status that stays "running" |
| storage setup and store, `internal/storage` | setup status, selected class, two files | start, save | rename outside the lock; restart in mid setup | memory and file agree; a setup can be started again |
| runtime settings, `internal/settings`, `internal/api/settings.go` | current settings, file | get, put, merge at start | read-modify-write without a lock; effects before validation | no lost update; a refused PUT changes nothing |
| rate limiter, `internal/api/middleware.go` | a bucket per client | allow, sweep | sweep against use | never more than rate and burst allow |
| pagination, errors, `internal/api` | none | cursor walk | machines come and go between pages | whoever is there throughout is listed once |
| auth and roles, `internal/auth` | tables, constant after start | authenticate, authorize | none of the kinds a model checker reaches | |
| jobs, image inventory, catalog, config, metrics, id | constant, derived or counters | read | `id.New` must not repeat | |
| console proxy, lab, static files, Kubernetes client, doctor, connection tests, Atlas client | none | I/O | | |
| console client: pictures, `web/novnc-rfb.js` | receive queue, place in the message and in the rectangle, render queue, two canvases, images the browser decodes | message loop, decoders, flips, update requests | messages cut at any byte; the queue moves under half-read messages; images finish late, out of order or never | nothing misread; drawn in order and flipped whole; never stops asking |
| console client: handshake | step of the negotiation, credentials, socket and connection state | `_initMsg` and its steps, socket events, credentials | the same cuts; sub-protocols within sub-protocols; a timer that resumes beside the messages | both ends agree where they are; it is decided in the end |
| console client: input and clipboard | keys held, AltGr timer, mouse mask and timers, touches, clipboard text, sizes | browser events, timers, messages of the guest | several timers race the user and the guest | the guest has the keys, buttons, text and size the user means |
| console page, `web/console-viewer.js` | status line, buttons, message | handlers of the client's events | called in the middle of the client's own changes | tells what is |
| dashboard, `web/app.js` | project, machines, events, token, calls in flight, stream | bootstrap, refresh, sign in and out, create, operate, event stream | answers that come after the page has changed | ends up showing what the server has |
| `krytond`, `krytonctl`, deployment | wiring and a command line | | | |

The hazards, each at its line, are in `PROJECT.json`; those with properties are
checked, the others say why none is. Hazards of the parts that are not modelled
are in section 6.

## 2. Modules

```
Lifecycle <--implemented by-- ControlPlane <-- ControlPlaneProofs <-- ReconcilerProofs
                                   ^------- MCControlPlane
EventLog  <--implemented by-- EventBus <-- EventBusProofs
                                   ^------- MCEventBus
                              Dockur <---- DockurProofs
                                   ^------- MCDockur

Websock, Display, Decoders, Stream <-- Frames <-- FramesProofs
                                          ^------- MCFrames
Connection <-- Handshake                       \
           <-- Clipboard                        |            ,-- MCConsole
           <-- Resize                           |-- Console <--- ConsoleProofs, ClipboardProofs,
           <-- Keyboard <-- Pointer <-- Gestures/             both <-- InputProofs
                              Dashboard <-- MCDashboard
```

`ControlPlane` uses the history as a sequence of events appended to by one atomic
`Publish`; `EventBus` is that `Publish` in detail, with what `ControlPlane`
leaves out: ring, streams, file, webhook. `Dockur` is another provider behind the
same handlers.

### Lifecycle (abstract)

A machine's ID goes from *unborn* to *live* to *gone* to *announced*, each step
once: what `internal/provider/provider.go` says of `Create` and `Delete`, and what
a reader of the events may rely on.

### ControlPlane

Handlers, demo provider, reconciler and history composed. `machines`,
`snapshots`, `nextIP` are the fields of `demo.Provider`. `pending[q]` is the event
goroutine `q` holds between the provider's return and `Publish`; `target[r]` is
where `deleteMachine` stands between its `Get` and its `Delete`; `sweep` holds
`runOnce`'s local variables.

* One action per provider call, since each runs under one mutex; guards are the
  early returns, and a request refused before it changes anything is no step.
  `CreateMachine`, `MachineAction`, `DeleteMachineGet`, `DeleteMachine`,
  `SnapshotMachine`, `RestoreSnapshot`, `DeleteSnapshot` are the handlers;
  `SweepStart`, `SweepList`, `SweepDelete`, `SweepEnd` the reconciler's loops;
  `Publish` any goroutine's.
* Errors that change something are outcomes of their action: `DeleteMachine` and
  `SweepDelete` find the machine gone, publish nothing, and go on.
* `deadline` and `raced` are history variables.
* Abstracted: specs to name and TTL; addresses to their last number; events to
  type and machine. `machine.install.started` is left out: it is sent for
  machines created in state *provisioning*, which the demo provider never returns.
  `List` cannot fail with the demo provider. A request that was refused, or reads
  only, is no step.

### EventLog (abstract), EventBus

`EventLog` is the list `GET /events` shows: each publication on top, once;
at most `Window` long; a restart brings back nothing unpublished.

`EventBus` takes `Publish` apart where another goroutine may come between:
`Stamp` (ID and time, no lock), `Record` (the critical section: ring and every
channel with room), `Store` (the file, another mutex), `CheckWebhook`,
`PostWebhook` (two unlocked reads). `Subscribe`, `Receive`, `Cancel` are
`streamEvents`; `SetWebhookBegin`/`SetWebhookEnd` is an assignment of a two-word
Go string, so that unlocked readers may see half of it; `Restart` is a kill
at any point followed by `New`, which reloads the ring from the file.

* An event is its rank in order of creation, which stands for its ID and Time.
* A write to the file reaches it whole, without its newline, torn, or not at all.
  A line survives a reload when it is whole and not run together with a neighbour
  (`Readable`).
* `Sees` is the verdict of `eventVisible`, a constant: roles do not change while
  krytond runs. Keep-alive comments of a stream are left out.
* `order`, `joined`, `lagged`, `wire`, `posted` are history variables.

### Dockur

Every method holds the mutex throughout, so `call` names the one method under
way and what it has still to do outside memory; `Restart` may cut it at each such
step. Methods end by saving (`SaveTruncate`, `SaveWrite`: `os.WriteFile`
truncates, then writes). `disk`, `dirs`, `containers`, `foreign` are what
outlives krytond.

* The project is left out: names are unique per project, and one project is the
  case in which that says most. The HTTP/RDP port pair is one port. `Ports` is
  finite; where the code would search on, `CreateBegin` is disabled.
* A machine of the model is an entry of both `machines` and `ports`, which the
  code always changes together.
* `faults` bounds failures, kills and foreign programs taken together.

### Websock, Display, Decoders, Stream, Frames

A connected console and its pictures. The server's stream is a sequence of
*units*, a unit being what a handler waits for in one `rQwait`; a unit says what it
is (`role`), so that a handler that takes it for something else is found out
(`misread`). The network delivers any number of units at a time.

* `Websock` is the receive queue: `rQ`, `rQi`, `rQlen` and `rQbufferSize` are the
  code's, a slot holding the rank of a unit instead of a byte. `RecvMessage` is
  `_recvMessage` with `_expandCompactRQ` in its three outcomes (it fits; room is
  made; there is none, the exception drops the message, and the run goes no further).
* `Display` is the render queue. An operation is what it draws: `want`, the unit
  the server means, and `got`, the unit whose bytes it holds (`Draw` says when they
  differ). `executed` is the back buffer, `visible` the canvas; `Load` and `Break` are
  the browser's verdicts on an image.
* `Decoders` has every decoder as an automaton: a step names the units it waits
  for, what it draws and what the decoder remembers until the next. `Remembers` says what
  outlives a rectangle (`kept`): that the last tile of Hextile was raw, that a tile has named its
  colours, and the palette of an empty rectangle, which Tight does not forget. Compression is
  reduced to context: a block of an inflator follows the block before it, or a reset.
* `Stream` is the protocol from the server's side (external), as far as the console asks
  for it: an automaton over units, written without a look at the decoders' stages.
  `After` says where a unit leads, `Paints` whether it gives something to draw, `Deflated` how
  the compression streams go on, `KeepsProtocol` that a script follows all that. A
  script comes with its stages (`Stages`), so that no recursion is needed to say so. A message type the
  console does not know counts as a message of its own. After what the protocol does not have
  (an encoding, a control byte, a filter or a cursor type the console does not know, a tile that
  leaves out its colours when no tile of its rectangle has named any, a fence of more than 64
  bytes, a cut text in formats nobody asked for) nothing is assumed
  of what follows (`Unsaid`): such a unit `strays`.
* `Frames` is `_handleMessage`, `_normalMsg`, `_framebufferUpdate` and `_handleRect`.
  `pc` is the place in the running task. A handler of a message puts back what it
  read when the rest is missing (`Starved`); a decoder does not. `astray` remembers that the
  console has read a unit that strays, or has overlooked a palette for one left over (`Overlooks`).
* Left out: pixels, the contents of compressed data, the drawing of cursors.

### Connection, Handshake, Clipboard, Resize, Keyboard, Pointer, Gestures, Console

Everything else of a console window. `Console` composes them.

* `Connection` is `_updateConnectionState`, the socket's events and the page. The
  page's handlers run inside the client's change of state, so they are part of the
  same action (`TellDisconnect`, `Connected`); that includes the message of a
  security failure that the disconnect of the same task replaces.
* `Handshake` has one action per step of `_initMsg` and one for each way a step can
  lack data. A server is a script: its units, its stage before each, how many answers
  it has had by then, and which. `said` is what the client has answered. `Turn` is the
  protocol from the server's side (external): the stage after a unit and the answer to
  it; `KeepsProtocol` says that a script follows it, as far as it goes. Schemes that need
  what this page never gives (a user name, the approval of a key) are followed up to
  there, and so are their servers, which then wait.
* `Clipboard`: a text is when it was copied, its length, whether it is Latin-1 and
  whether it is still what was copied. `Pushed` is `sQpushBytes` unit by unit. The
  guest is external: with the extension, with part of it, or without.
* `Resize`: `unseen`, `frame` and `timer` are the observer's, the animation frame's
  and the time-out's pending callbacks.
* `Keyboard`: one action per browser event. An event may send several keys: that is a
  composition of `Press`, `Release` and `Tap` on the state passed through (`State`).
  A key may have no keysym (`Null`): it is held like any other, and a guest that takes no
  scancodes is told nothing of it. `Bypass` and `PinchKey` are the keys sent without the list of keys: by Ctrl+Alt+Del
  and the fix of the caps lock, and by a pinch. `guestHeld` is what the guest was told.
* `Pointer` is the mouse and what gestures do to it; `Gestures` the recognizer, with
  its state as the set of gestures still possible and its two timers. A gesture's two events of
  one task have places of their own: a drag starts where the finger came down.
* A session is used for some things (`use`, out of the constant `Uses`): for one alone, or for
  several that share state. A pinch shares the guest's Ctrl and the state of its caps lock with the
  keyboard, mouse and touches share the pointer. Handshake, clipboard and size share
  nothing with those but the connection, so the product with them would say no more.

### Dashboard

`calls` are the asynchronous functions under way, each with the answers it has and
the project it was started with. A function that awaits several requests goes on
when all are there, and gives up when one failed. `world` counts the changes of a
project on the server, so that what the page shows can be compared with it. The
server, the user and failures are external. Rendering and the pages loaded on
demand are left out.

## 3. Runs

| run | asks | bounds |
|---|---|---|
| `control_plane` | do machines, snapshots and events stay consistent while two handlers and the reconciler race; is `Lifecycle` implemented | 2 projects, 1 name, 3 IDs, 1 snapshot, TTL 0 or 1, clock to 2, new requests until 3 events; 1.3 million states |
| `control_plane_live` | is what expires removed, and every removal announced | 1 project, 2 names, 2 IDs, no snapshot, no symmetry |
| `event_bus` | order, duplicates and losses of history, streams and file | 2 publishers, 1 client, 4 events, ring of 2, channel of 2, 1 failed write, 1 restart |
| `event_bus_live` | does `Publish` return though clients never read | 2 events, channel of 1, 1 webhook URL, 1 failed write, 1 restart |
| `dockur` | what stays unique, final and durable over failures and kills | 2 names, 3 IDs, 3 ports, 2 faults; 1.6 million states |
| `frames` | is the stream kept and read in step however it is cut; is the screen drawn in order, whole, and does it catch up | 34 streams of up to 19 units, a queue of 4 growing to 8; 260 thousand states |
| `console` | handshake, page, clipboard, size, keyboard and pointer, each against timers, guest and disconnection; pinches against keys and lamps, touches against the mouse | 32 servers; 2 texts of 2 lengths copied and 2 pastes; 3 sizes, 3 changes; 5 keyboards, 2 keys held, 2 LED messages; the mouse in 2 places; touches of 3 fingers in a place or 2 fingers in 2; a Ctrl, lamps and 2 fingers in a place; a mouse and a finger; 1.1 million states |
| `dashboard` | does the page end up showing what the server has | 2 projects, 2 calls in flight, 1 event shown, 3 upsets; 1.5 million states |
| `event_order`, `event_webhook`, `dockur_torn`, `dockur_delete` | four claims the code does not keep | the smallest that shows it |

### What the properties say

*ControlPlane.* `DistinctIdentities`: no two live machines share name and
project, or address. `OneObituary`, `NoSilentDeath`: however deletes and the
reconciler race for a machine, its end is announced at most once, by whoever
removed it, never while it lives; and a machine that is gone is announced or
about to be. `SnapshotsHaveOwners`. `NeverExpiredEarly`, `SweepMissesNothing`: a
pass works with one `now` and old copies, and still neither expires a machine
before its deadline nor ends with one left that was due when it began.
`PowerEventsAgree`: the last start/stop event of a machine agrees with its state,
unless one is under way or two such requests overlapped (then they may be
published the other way round; this exception is needed). `ExpiredIsAnnounced`.
`ImplementsLifecycle`, `ImplementsLifecycleFair`.

*EventBus.* `NoRepeats`, across torn files and reloads. `StreamsFollowHistory`:
what a client was sent, then what its channel holds, is what was recorded since it
subscribed and it may see, in order, as long as its channel was never full when an
event was due. `LossesAccountedFor`: of the recorded
events, the file lacks only those whose write failed, at most one neighbour of
each, those a kill caught, and those not yet written. `PublishReturns`. `ImplementsEventLog`.

*Dockur.* `DistinctMachines`: ports and names, stopped and reloaded machines
included. `DeletedForGood`: a delete that returned nil is final. `KillCostsOneCall`: a kill after a
save that succeeded, and not in the middle of one, costs no more than the work of the
method it meets; every other machine comes back as it was (`Get` and `List` may lose that a
machine was found running). In the middle of a save a kill costs everything: that is
`dockur_torn`, where `Mirrored` is the promise of the comment.
`WorldAgrees`: as long as nothing has failed, machines, containers and directories agree.
`SavedInTheEnd`: a failed save is made good.

*Frames.* `StreamKept`: what is unread is what arrived and was not taken, in order.
`InStep`: no handler or decoder takes a unit for another, no block is inflated out
of context; until the stream leaves the protocol or a palette is overlooked (`astray`: from then on
the console itself takes bytes for what they are not, see section 5). `DrawnInOrder`: the render queue loses, doubles and reorders nothing.
`PaintedAsSent`: what has been drawn is what the server meant with all that has been
read, once and in its order; besides `astray` the one exception is the code's (raw bytes that were queued). `WholeUpdates`: the canvas
never shows half an update. `AskedForMore`: the chain of requests does not break.
`CatchesUp`: what has arrived whole is shown in the end.

*Console.* `HandshakeInStep`: every unit read for what it is, every answer given once
and in order, and no timer left over when the session is up. `Decides`: the
handshake never stops for want of the client. `PageFollows`: page and connection
agree after every task. `PasteDelivered`, `SizeSettles`, `KeysAgree`,
`PointerAgrees`: when nothing is pending, the guest has the text, size, keys and
pointer the user means. Each names its exceptions, and each exception is needed:
without it TLC finds the code doing that.

*Dashboard.* `PageCatchesUp`: a page with its timer ends up following the server.

### Why the bounds are enough

* A race for a machine needs two handlers and the reconciler; a third handler
  adds more of the same, and the proofs cover any number. A third ID lets a new
  machine take the name of a deleted one while its event is on its way.
* A TTL of 1 and a clock to 2 give machines not due, due and overdue in one
  pass, and time that passes between `now` and the end of the pass.
* A ring of 2 and 4 events: events are pushed out, and reloads find more lines
  than fit. A channel of 2 fills while a client does not read. One failed write
  next to good ones gives the run-together line; the second publisher gives files
  ordered otherwise than the history.
* A queue of 4 units is filled, emptied, compacted, reallocated (to 8) and overrun
  by streams of up to 19 units; the cuts are exhaustive. Each stream puts together
  what may disturb each other: an image and what follows it, an update that waits
  and the next, a pause and a resize, a raw tile and a blank one of the next rectangle, two
  palettes; the proofs cover every stream and size.
* Each of the 32 servers takes the handshake another way; between them they take
  every branch this page can reach. Texts of 1 and 3 units and a send queue of 3 are
  one that fits beside its header and one that does not. Two keys held are a
  modifier and another; two pastes cross each other and a copy of the guest.
  Three fingers are all the recognizer counts. Two places are where a drag starts and where it
  has got to.
* Keys and pinches meet over what they share: a Ctrl of the user's beside that of the pinch, and a
  caps lock that the guest reports. A pinch takes two fingers, and where they are is nothing to the
  keys; one finger is enough to move the pointer under the mouse.
* Two calls in flight are an old one and a new one; three upsets are a change, a
  switch of project or sign-out, and a failure. One event shown is pushed out by the
  next.
* Two faults let a failed save meet a kill, or a failed compose a port that was
  taken. Three ports for two names: one in use, one stopped, one taken by others.

Symmetry is used in the safety runs of ControlPlane and EventBus only. It is
sound: no operator orders or names the values permuted (`OneHidden` names an
event, not a publisher). `Ports` and `Events` are ordered and not permuted.
`CHECK_DEADLOCK` is left on for the control plane: those models can always go on.
It is off for the console and the dashboard: a server may have nothing more to
say, a session may end, and the user may do nothing more.

### Fairness

* A goroutine that has begun runs on: weak fairness of `Publish`, `DeleteMachine`,
  the sweep, `SetWebhookEnd`, `Continue`. A client that hangs up does not stop a
  handler before its `Publish`; the webhook request has a timeout of 3 s; docker
  commands are assumed to end.
* Mutexes: Go's `sync.Mutex` and `sync.RWMutex` hand the lock to who waits
  longest, so a goroutine that wants it again and again gets it: strong fairness
  of `Publish` (EventBus) and of the reconciler's `List` (Dockur).
* The ticker fires and time passes: weak fairness of the sweep and of `Tick`.
* In the browser a task that has begun runs to its end, a timer that is due fires
  and an image is decoded or given up: weak fairness of `Task` and of
  `Load`/`Break` (Frames), and of `Answers`, the steps of a handshake (Console). An
  image that breaks may hold up the screen for ever, and `CatchesUp` says so.
* In the dashboard requests are answered or fail, and its timer fires: weak fairness
  of each call's `Progress` and of `Tick`. The event stream has none.
* Clients, users, VNC servers, networks, administrators, other programs, faults and
  kills: none.

## 4. Proofs

Checked by TLAPS for all values of the constants that meet the named assumptions
(`NoneAssumption`, `SweeperAssumption`, `BoundsAssumption` in ControlPlane;
`SizesAssumption`, `SeesAssumption`, `OffAssumption`, `PublishersAssumption` in EventBus;
`PortsAssumption`, `BoundAssumption`, `NobodyAssumption` in Dockur;
`BufferAssumption`, `ScriptsAssumption` in Websock and Frames; `ClipboardAssumption`,
`GuestCapsAssumption` in Clipboard, `SizesAssumption` in Resize,
`KeyboardsAssumption` in Keyboard, `PositionsAssumption` in Pointer,
`ServersAssumption` in Handshake, `UsesAssumption` in Console), which TLC evaluates in the runs.
`KeyboardsAssumption` only keeps names apart: no code is called what a keysym of another key
is, and "no keysym" is neither (in the code these are strings, numbers and `null`). `GuestCapsAssumption` is about the guest, which is not part of the code: one that
announces text and notify also announces provide. To a guest that did not, the client
would announce a text and then ignore its request (`novnc-rfb.js:12766`).
`ServersAssumption` and `ScriptsAssumption` are about servers: each keeps to the protocol,
in the handshake and after it, for as long as it says anything (`KeepsProtocol`). A server may offer, refuse or break off whatever and
whenever it likes; of one that sends what is not its turn, no client could tell what it
means. The bounds on time, events and faults, the streams and the size of the queue are
constants, so the theorems hold for any of them.

| theorem | says |
|---|---|
| `ControlPlaneProofs!TypeCorrect` | `Spec => []TypeOK` |
| `ControlPlaneProofs!OneObituaryAlways` | `Spec => []OneObituary` |
| `ControlPlaneProofs!NoSilentDeathAlways` | `Spec => []NoSilentDeath` |
| `ControlPlaneProofs!ImplementsLifecycleAlways` | `Spec => ImplementsLifecycle` |
| `ReconcilerProofs!DistinctIdentitiesAlways` | `Spec => []DistinctIdentities` |
| `ReconcilerProofs!SnapshotsHaveOwnersAlways` | `Spec => []SnapshotsHaveOwners` |
| `ReconcilerProofs!NeverExpiredEarlyAlways` | `Spec => []NeverExpiredEarly` |
| `ReconcilerProofs!SweepMissesNothingAlways` | `Spec => []SweepMissesNothing` |
| `ReconcilerProofs!PowerEventsAgreeAlways` | `Spec => []PowerEventsAgree` |
| `EventBusProofs!TypeCorrect` | `Spec => []TypeOK` |
| `EventBusProofs!NoRepeatsAlways` | `Spec => []NoRepeats` |
| `EventBusProofs!StreamsFollowHistoryAlways` | `Spec => []StreamsFollowHistory` |
| `EventBusProofs!LossesAccountedForAlways` | `Spec => []LossesAccountedFor` |
| `EventBusProofs!ImplementsEventLogAlways` | `Spec => ImplementsEventLog` |
| `DockurProofs!TypeCorrect` | `Spec => []TypeOK` |
| `DockurProofs!DeletedForGoodAlways` | `Spec => []DeletedForGood` |
| `DockurProofs!DistinctMachinesAlways` | `Spec => []DistinctMachines` |
| `DockurProofs!KillCostsOneCallAlways` | `Spec => KillCostsOneCall` |
| `DockurProofs!WorldAgreesAlways` | `Spec => []WorldAgrees` |
| `FramesProofs!TypeCorrect` | `Spec => []TypeOK` |
| `FramesProofs!QueueKeepsStream` | `Spec => []StreamKept` |
| `FramesProofs!StreamReadInStep` | `Spec => []InStep` |
| `FramesProofs!StreamPaintedAsSent` | `Spec => []PaintedAsSent` |
| `FramesProofs!ScreenShowsWholeUpdates` | `Spec => []WholeUpdates` |
| `FramesProofs!UpdatesAskedFor` | `Spec => []AskedForMore` |
| `FramesProofs!ScreenDrawnInOrder` | `Spec => []DrawnInOrder` |
| `FramesProofs!ScreenFlippedWhole` | `Spec => []FlippedWhole` |
| `ConsoleProofs!PageFollowsAlways` | `Spec => []PageFollows` |
| `ConsoleProofs!SizeSettlesAlways` | `Spec => []SizeSettles` |
| `ConsoleProofs!HandshakeInStepAlways` | `Spec => []HandshakeInStep` |
| `ClipboardProofs!PasteDeliveredAlways` | `Spec => []PasteDelivered` |
| `InputProofs!GesturesStartOverAlways` | `Spec => []GesturesStartOver`, the part of `PointerAgrees` about the recognizer |
| `InputProofs!PointerAgreesAlways` | `Spec => []PointerAgrees` |
| `InputProofs!KeysAgreeAlways` | `Spec => []KeysAgree` |
| `InputProofs!TypeCorrect` | `Spec => []TypeOK`, of all parts of a console together |

In every module lemmas of *shape* first reduce the actions to the few kinds of
step that matter to an invariant; the proofs then have one case per kind.

*ControlPlane.* `OneObituary` is not inductive: a goroutine could hold a second
announcement of a machine already announced. `LifeInv` adds `Sequential` (a
handler between the two calls of `deleteMachine` holds no event), `KnownIds` (only
IDs handed out are live or spoken of, so a fresh ID has no past) and `OneHolder`
(who holds the announcement of a machine is the only one to, the machine is gone,
and it is not yet announced). The kinds of step are a birth, a death, a remark on
a live machine, a publication, or nothing of interest; the refinement of
`Lifecycle` is proved by the same five cases.

*Reconciler.* An expiry is announced long after the comparison that led to it, so
`TimelyInv` says that all that is on its way is overdue: the machines the pass has
picked (`PicksTimely`) and the events goroutines hold (`HoldsTimely`). That a pass
misses nothing rests on `PicksTimely` as well: a machine created meanwhile has a
deadline after the clock, which is not behind the pass's `now`.
Addresses are distinct because `nextIP` is ahead of all of them (`IdentityInv`).
`PowerEventsAgree` allows for an event on its way, but says nothing of what that
event will say: `OneSpeaker` does. Of a machine whose requests have not overlapped,
at most one goroutine holds a power event, and it tells the machine's state; so its
publication puts the log right. The reconciler holds none (`SweeperHasNoSay`).

*EventBus.* `NoRepeats` must survive a reload, so it has to be known of the file.
`BusInv` adds `Holders` (an event being published is new, and held by one
goroutine), `Recordings` (it is recorded once), `Filings` (each event is written
at most once) and `Listing` (ring and file hold recorded events only).
`StreamsFollowHistory` is inductive given `BusInv`, once it is known that no client
joined in the future (`JoinedInTime`); the work is in the arithmetic of positions,
as a recording extends the history and a channel, a receipt moves an event from the
channel to the wire, and both keep what is due in order.
`LossesAccountedFor` counts events, and a failed write may cost one that has not been
written yet. `LossInv` therefore counts what costs it: a line that is torn or lacks its
newline (`BadLines`) is paid for twice by its fault, the line itself and the next; an event
without any line (`Unwritten`) by its fault, by the restart that killed its
goroutine, or not yet, while its goroutine is about to write (`Charged`).

*Dockur.* What a restart brings back is on disk, so each invariant speaks of
`state.json` as well as of the machines: `FinalInv` (what is deleted is in
neither, and a delete that is still to be saved has removed its machine),
`DistinctInv` (distinct in both, and a create under way has a name and a port that
are nobody's). For `KillCostsOneCall`, `BehindInv` says how far `state.json` is behind the
machines while the last save has succeeded and no other has begun: not at all between calls, and
while a create prepares, as that may return without a save; by the machine of the call under way
otherwise. `AgreeInv` carries `WorldAgrees` through a
call: it says which one machine the containers, or the directories, have too many or
lack at each step, and `Stands` that each container there is agrees with its machine.

*Frames.* The invariant `IInv` has a part for each component. `QueueInv`:
`StreamKept` speaks of the unread units only, but a handler may put some back, so
`Stored` says of every slot up to `rQlen` which unit it holds, read ones included.
`DisplayInv`: with `DrawnInOrder`, `Shown` says that canvas and damage together are
what was executed, with a flip between them (`FlippedWhole`). `LoopTypeOK`, and
`Ready`: a loop that looks at the next unit has one. Lemmas on the operations of
queue and screen are proved once and cited by the actions of `Frames`, of which
each disturbs one of the two at most, or both through a decoder's step.

`InStep` follows from `SyncInv`: unless the console has failed and stopped (`Stopped`), the
stream is where the console takes it to be (`Synced`), until it goes astray, after which it stays
so (`AstrayStays`) and nothing more is claimed. Between messages and rectangles that
is plain to see from `rects` and `rect`; inside a message it depends on `pc`
(`Handling`), and the place before the type has to be remembered, because a handler that
starves puts the type back; inside a rectangle it is `DecoderPlace`, a function of
what the decoder remembers, with what a tile of Hextile needs to know of the tiles before it,
those of earlier rectangles included (`Knows`). `DecodeRectInTurn` says of each decoder, in one form (`InTurn`), that
a step reads what is due there, one unit or two, draws if and only if they paint,
and ends where they lead. Two stages of the Tight decoders had to be excluded
(`Possible`): what is read there would be painted and not drawn if the rectangle were empty. The contexts of the inflators are part of `Synced`; that is why nothing
read outside rectangles may touch them (`UnitOK`).
From `InTurn` also follows what a step adds to the screen and to what was to be painted
(`StepPaints`), and that no other action reads anything to be seen (`SawNothing`), so that
`PaintedAsSent` is inductive. `WholeUpdates` needs it at every flip that was handed over and not
only at those on the canvas (`FlipsWhole`), and that the server has ended its
update when the console has (`UpdateIsWhole`); `Shown` and `DrawnInOrder` bring it to the canvas.
For `AskedForMore`, `AskedInv` follows the one request: it is with the server, or
answered by an update that has been written and not begun, or under way in the console.

*Console.* `PageInv` adds to `PageFollows` how socket, handshake and connection stand to
each other (`PageShape`). Its main lemma, `InitMsgHandshakes`, is about all of the
handshake at once: whatever the server sends, a call of `_initMsg` leaves the connection
alone, fails before the server's last message, or is that message and connects.
That is how two thirds of the actions are dealt with in one case. `ResizeInv` splits
`SizeSettles` in two, the scale and the request, each with the callbacks that may still
be pending for it.

`HandshakeInStep` says what the client has read and answered, and not where it is, so
it is not inductive. `InStepInv` relates the two ends: the server's stage before the next unit is
the one the client's state, scheme and sub-state wait for, with the same version
and the same idea of Tight (`Meets`), and the answers given are those due by then
(`KeepsPace`, but for one the client still owes). Two steps of the code make it subtle.
After the version the client ends its loop, and from 3.7 on it reads the number of security
types without a look whether it is there: that it is rests on a loop starting with
a message only (`CallsOK`). And the timer that goes on with a challenge must be the only one,
and gone when the session is up: a challenge not answered is the last unit that has
arrived (`ChallengeWaits`, from what a server that waits may send), so no message can start
a loop that asks for the credentials again (`ResumesOK`). Each action then has a lemma of its
own; `ReadsOne`, `ReadsTwo` and `Paced` do the arithmetic of units and answers for all of them.

*Clipboard.* `PasteDelivered` speaks of a state in which nothing is under way; `Delivers` says
where a pasted text is until then. Either it is held for the guest, and the guest is to be
told of it or has asked; or the guest has it or a later one, with nothing older
behind (`Delivered`); or the message that carries it is in the queue with nothing older
after it. `Coherent` adds that texts copied at the same time are the same text, wherever
they are, and that one that fits is whole (`PushedWhole`: the send queue sends it
unit by unit); `AnnouncedOnce` that the guest's announcement, which
changes the way a text takes, comes before anything is held.

*Gestures.* `GesturesInv` ties three views of the same fingers to each other: those on the screen,
those tracked or ignored (`TouchesOK`), and the gestures still possible (`Reached`, by
how many are tracked and whether releases are awaited). From `Reached` follows what each
timer finds when it fires (`TimersOK`), hence that it never throws, and that
the last release leaves no gesture in progress.

*Pointer.* `PointerInv` says when the guest may not yet have the pointer: only while a move
waits for its timer, and then the move that waits is to where the mouse is. The buttons the
guest was told of are the mouse's, those whose release went to another part of the page
(`lost`), or the one the gesture under way holds (`GestureHolds`); that the last is
let go of rests on `GesturesInv`, which knows which gesture may end. And nothing is sent before
the session is up.

*Keyboard.* `KeyboardInv` says that the guest holds what the client's list of keys has
(`HeldOK`), with the keys of an event under way excepted (`HeldBut`): each of
`Press`, `Release` and `Tap` has a lemma that starts from such an exception and ends in
one, and an event composes them. That one key going up takes no other with it rests on
names that stay apart (`MeansApart`), whatever the guest goes by; keys without a name are the
exception, and the guest never holds one. For the caps lock, `LampsIn`
says that the last report of the lamps under way, or without one what the client
remembers, is the guest's lock; so what is typed then is typed right (`TypedRight`).
`Accounted` has the keys that may be in the list: those the user holds, those whose release
nobody heard, the second of two Shifts; and a Ctrl that still waits for its AltGr.

*Types.* `TypeOK` is mostly a consequence: page, handshake, clipboard, pointer, gestures
and keyboard keep their types because of their invariants (`PartsInv`). `Typed` adds the
variables that none of them speaks of.

Each strengthened invariant was model-checked before it was proved.

*Only model-checked, out of the prover's reach.* Everything under fairness
(`ExpiredIsAnnounced`, `ImplementsLifecycleFair`, `PublishReturns`, `SavedInTheEnd`,
`CatchesUp`, `Decides`, `PageCatchesUp`).

## 5. Where code and documentation differ

* `event_order`: `List` "returns the most recent events, newest first", but events
  are stamped before the lock is taken; of two publishers the older event may end
  up on top. Readers that sort by position and by time see different orders.
* `event_webhook`: `Bus` is "safe for concurrent use", but `webhook` is read
  without the lock under which it is assigned.
* `dockur_torn`: machines are "mirrored to state.json" so that a restart "reattaches to
  already-running containers". `os.WriteFile`
  truncates the file before it writes; a kill in between leaves one that does not parse,
  `New` drops the error (`provider.go:119`), and krytond comes back with no machine at all. The
  next save makes that permanent.
* `dockur_delete`: `Delete` "permanently removes a machine and its backing
  resources", but the error of `compose down` is dropped, together with the
  directory that would be needed to try again.

### What the code does that one might not expect

The properties above are stated around these.

* A container whose machine is being created when krytond is killed, after `compose up` and before
  the save (`provider.go:203`), is in no `state.json`: it runs on, holds its port, and nothing reattaches to
  it. So does one whose `compose up` was cut short (`KillCostsOneCall` speaks of the other machines).

* A pasted text that does not fit into the rest of the send queue (10 KiB) arrives
  damaged: `sQpushBytes` (`novnc-rfb.js:7969`) takes `subarray(offset, chunkSize)`, a
  length for an end. For a guest without the extension everything but Latin-1 is
  sent as question marks.
* A text of the guest that comes in makes the client forget what it had announced
  (`PasteDelivered`, `crossed`).
* Raw lines and tiles that have to wait for an image are copied from the start of
  the receive queue (`novnc-rfb.js:735`; `PaintedAsSent`).
* An empty Tight rectangle with a palette leaves the palette behind (`novnc-rfb.js:10532`-`:10534`
  return before `_numColors` is reset): of the next rectangle with a palette the palette is not read, and
  is taken for its body (`Overlooks`).
* What a tile of Hextile is drawn as depends on the tile before it, of an earlier rectangle too: a
  blank one after a raw one is passed over (`:10276`); a blank one before any colours
  were named fills with `undefined`, which throws (`:787`) or, when it has to wait for an
  image, jams the queue when its turn comes; colours left out are those of an earlier rectangle.
* A cursor of a type it does not know makes `_handleVMwareCursor` return false with nothing
  missing (`:13084`): the rest of it is taken for a cursor when the next data come. Of a fence of more
  than 64 bytes the rest is left unread (`:12851`), as is a clipboard message that provides other
  formats than text (`:12795`); both are then taken for messages. One with an action it does not know fails (`:12836`).
* A key without a keysym (dead, or taken by an input method) is never sent to a guest without scancodes
  (`:11313`), although the client holds it (`KeysAgree`).
* An image that the browser cannot decode holds up the screen, and with it the
  next update, for ever. An update of no rectangles that meets a busy screen loses
  its flip and its request (`skipped`).
* A message that would need more than 40 MiB of queue is dropped and the connection goes on.
* A size that `_handleResize` takes for the expected one is neither scaled to nor
  asked for (`ignored`). A Ctrl that waits for an AltGr when the window loses the
  focus goes down in the guest afterwards (`unheard`).
* A pinch toggles the guest's caps lock when its state is known: it sends its Ctrl by a call
  of `_handleKeyEvent` that says nothing of the lock (`novnc-rfb.js:11995`), and an
  unknown state differs from the known one (`:11707`-`:11717`).
* "Console authentication failed" is replaced at once by "Console disconnected",
  and a session that is closed cleanly shows no message. After 8 seconds the page
  changes its status and enables nothing, against the comment at
  `console-viewer.js:100`. Whoever asks for a user name or the approval of a key
  waits for ever (`Hopeless`).
* The dashboard: a bootstrap that fails before its refresh leaves neither timer nor
  stream, and `PageCatchesUp` speaks of pages that have their timer; the stream is
  never opened again; the lab's token replaces one signed in with meanwhile; a
  bootstrap that ends after a sign-out uncovers the page until the next 401.

## 6. What is not modelled

*No behaviour a model checker reaches:* auth (constant tables), jobs, inventory,
catalog, metrics (derived data or counters nobody reads back), console proxy, static
files, Kubernetes client, doctor, Atlas client, command-line client, test scripts
(I/O). In the browser: rendering, keysym tables, cryptography, inflate and deflate.

*Left out, with hazards worth a module of their own:*

* KubeVirt: `Get` by ID and then delete and patch by name; asynchronous deletion, which
  the reconciler sees again at its next tick (`reconciler/ttl.go:62`) and announces
  again; namespace, role and binding looked up and then posted
  (`kubevirt/namespaces.go:57`). Its abstract specification would be `Lifecycle`.
* Golden images: a build ID is version and second (`golden/manager.go:234`); a failed first
  status leaves the ID among the running (`:252`); a restart leaves a status running
  (`:306`); a status read before the mutex is written back after it (`:187`).
* Storage and settings: a setup that stays "running" over a restart; saves renamed
  outside the lock in any order (`storage/config.go:132`); PUTs that read, change and
  write without a lock, and take effect before they are validated
  (`api/settings.go:86`, `:98`); an empty string does not override the environment
  (`settings/store.go:120`). The abstract specification would be one register.
* Pagination (`api/server.go:307`) and the rate limiter (`api/middleware.go:184`): pure algorithms.
* Of the modelled parts: the demo provider's addresses past 255, the unbounded event
  file, the port search past 65535, the webhook request cancelled with its client.
