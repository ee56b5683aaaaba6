# A TLA+ model of OpenPods for Linux

OpenPods shows the battery of AirPods and Beats headsets on a Linux desktop. A
daemon listens to Bluetooth LE beacons through BlueZ, decides which beacon is
"mine", decodes it, tracks whether the headset is connected and whether the
reading is still fresh, and streams snapshots over a Unix socket to a CLI, a
tray icon and a window. This directory holds TLA+ modules of that program, TLC
configurations that check them on small instances, and TLAPS proofs.

All paths below are relative to the repository (`src/`).

## 1. Inventory

Goroutines and channels of the daemon; every arrow is a Go channel.

    BlueZ signals -> bluezSource.run ==unbuffered==> scanner.run
                     (tracker)        beacons, conns   |  selector.best, pods.Decode
                                                       |
                                     updates, conns (one slot, latest wins)
                                                       v
                                                  Monitor.run  <- ticker
                                                   |         |
                        snapshots (one slot)       |         |  notes (8 slots, newest dropped)
                                                   v         v
                                       daemon's main loop   forwardNotifications
                                                   |
                                   Server.Broadcast -> one-slot channel per client
                                                   -> serve goroutine -> socket -> Client

| Component | State | Operations | What is hard | What makes it correct |
| --- | --- | --- | --- | --- |
| `emit`, `pushLatest`, `pushLatestSnap` (the same ten lines, three times) | a channel of capacity 1 | two non-blocking selects | a receiver between the two | newest value never lost, never blocks, values never go back |
| `core.Monitor` | core state, `lastStale`, `current`, two output channels | the cases of `run`'s select, `notify`, `Close` | cached staleness flag, link edges that collapse, bounded queue, ticker | published state is the true one; staleness honest both ways; notifications alternate |
| `ble.scanner`, `ble.selector` | beacons of the window, set of connected headsets, aggregate flag | a beacon, a link event, end of source, `Close` | choice between devices, two thresholds, latest-wins outputs | readings recent, above the floor, of the loudest device; flag = "any link" |
| `ble.bluezSource`, `deviceTracker` | per device the merged payload, strength and kind; the signal channel | construct, enumerate, seed, a signal, two blocking sends, `Close` | partial updates, signals that repeat the enumeration, an edge before the UUIDs, a full channel, a lost bus | an idle source has told the scanner BlueZ's links and pairs; it ends from every state |
| `pods`, `ipc.FromStatus` | none (pure) | `Decode`, `detectModel`, `Percent`, the view | overlapping id fields, five permuted fields | swap of buds invisible, rules unambiguous |
| `render`, `assets`, `notify.Message`, the window's view model | tables | five texts and cards | five loops over one snapshot, three tables kept by hand | frontends agree; every card has its image |
| `ipc.Server`, `ipc.Client` | client map, current snapshot, one goroutine per client | accept, add, serve, remove, `Broadcast`, `Close`; dial, read, hang up | registration vs broadcast, stalled clients, `Close` at any moment | every client's stream goes forward and misses nothing new; nothing left after `Close` |
| `openpodsd` | what `run` is doing | its select, `forwardNotifications`, signals, deferred closes | order of the closes, a monitor that ends first | clients follow the core state; every way to stop ends the process, a hung notification service included |
| the socket file, systemd unit | who listens at the path | `os.Remove`, `Listen`, the listener's `Close`, restart on failure | leftovers of a crash, two daemons | the path leads to the daemon |
| CLI, tray, window | connection, what is shown | dial, read, reconnect, one-shot scan | reconnection, fallback, silence | screens follow the daemon; the command ends |
| `ble.replaySource` | index | canned beacons | none | - |

The hazards, each at its line and with the properties that would catch it going
wrong, are listed in `PROJECT.json`.

## 2. Modules

| Module | Models | Kind |
| --- | --- | --- |
| `LatestWins` | the promise of a latest-wins channel | abstract specification |
| `Emit` | the two selects, step by step | refines `LatestWins`; proofs in `PipelineProofs` |
| `Monitor`, `MCMonitor`, `MonitorProofs` | `core/core.go` | component, instance, proofs |
| `Source`, `MCSource`, `SourceProofs` | `ble/bluez.go`, `ble/bluez_track.go` | component, instance, proofs |
| `Scanner`, `MCScanner`, `ScannerProofs` | `ble/scanner.go`, `ble/selector.go` | component, instance, proofs |
| `Pipeline`, `MCPipeline`, `PipelineProofs` | scanner, monitor and the daemon's loops | composition, refines `Scanner` and `Monitor`; instance, proofs |
| `Pods` | `pods/pods.go`, `ipc/snapshot.go` | pure functions |
| `Render`, `MCPods`, `PodsProofs` | `render/render.go`, `pods/model.go`, `assets/pods.go`, `notify.Message`, the window's cards | pure functions on top of `Pods`; instance, proofs about both |
| `Server`, `MCServer`, `ServerProofs` | `ipc/server.go`, `ipc/client.go` | component, instance, proofs |
| `Daemon`, `MCDaemon`, `DaemonProofs` | `cmd/openpodsd/main.go` between `Monitor` and `Server` | composition, instance, proofs |
| `Frontend`, `MCFrontend`, `FrontendProofs` | daemons around one socket path, `cmd/openpods*`, `ble.Scan` | system of processes, instance, proofs |

In each component module, definitions whose comment starts with "Mutant:" are
broken variants of the definition that follows them. No specification uses them;
`PROJECT.json` ("mutants") says which property each one violates when it takes
that definition's place.

### Emit and LatestWins

`Emit` has one action per select (`Drain`, `Send`) and the receiver in between.
The producer is single in all three uses: the scanner and the monitor send from
one goroutine, the server under its mutex. The refinement mapping puts the
atomic `Put` at `Drain`: from then on the slot is seen to hold the new value,
which nobody can receive before `Send`. This is why all other modules write a
latest-wins send as one assignment to a variable that is `None` or the value.

### Monitor

One action per case of `run`'s select. `emit` is the closure of that name,
`setConnected`, `onStatus`, `stale`, `snapshot` are the methods of `state`;
`RecvConn` is the whole handler (state, emit, notify). A snapshot keeps which
status names the model (shown even when stale) apart from the figures (hidden
when stale). The handler reads the clock twice in a row; the model reads it once.
The environment is a scanner that puts statuses and alternating flags in the two
channels, the daemon's two loops, a clock with a ticker whose channel
holds one tick, and `Close`. `Never` is the zero `time.Time`.

`shown`, `lastNote` and `dropped` record what the daemon received and whether the
warning "dropped notification" was logged; no guard reads them.

### Source

The goroutine `run` and the constructor that starts it. `FindAdapter`,
`StartDiscovery` and `Register` are the constructor up to `conn.Signal`;
`Enumerate` and `Seed` are `seed`; `RecvSignal` is the select's case. `feed` runs
`deviceTracker.update` and stops at its first blocking send: `SendBeacon` and
`SendLink` are the rendezvous with the scanner, and `Stop` is `done`, which both
sends look at. `Close` is cut in its four steps. A signal carries the names of the
properties it is about and the device's values; the handler looks at the named
ones only.

Two external parties are modelled as the code uses them. BlueZ owns `bz` and
`objects`: it adds and removes devices, changes properties and signals each
change; `namesOf` and `changed` are what it puts into a signal. The two parse
functions of `handleSignal` drop signals of another shape or another interface,
which BlueZ does not send or which change nothing; these are left out. The D-Bus library puts signals in the channel's buffer in order; once it
is full, each further one waits in `late` for room and may be overtaken. It closes
the channel when the bus goes away. `RemoveSignal` ends the deliveries that wait.

`heard` and `links` are the scanner's side. `seedFailed`, `overflowed` and
`knownAtEdge` are history; no guard reads them.

### Scanner

`RecvBeacon` is a received beacon all the way through `best` (append, prune,
strongest, prefer the fresh reading, RSSI gate), `Decode` and `emit`. The payload
is abstracted to its device: payloads of `PodsAddr` decode, those of `OtherAddr`
(phones, tags, keyboards, which also send Apple manufacturer data) do not.
`RecvConn` maintains the set of connected addresses and publishes the aggregate
when it changes. `prune` is a recursive function, so that proofs can use it.

### Pipeline

The variables of the two components side by side, with the channels shared. Each
action is a step of one component conjoined with `UNCHANGED` of the other's own
variables; the close chain `Monitor.Close -> Scanner.Close -> Source.Close` adds
the order of the calls. `ImplementsScanner` and `ImplementsMonitor` are the
component specifications under the obvious mapping, so the environments the
components were checked against are the ones the other provides.

### Pods and Render

A payload is the record of the nibbles `Decode` reads; a bit field is the set of
its set bits. The only action is the headset's: the other bud starts sending, the
flip flag toggles and every left/right field is exchanged (`swapped`, external).

`Render` draws that payload. A text is the sequence of the figures it mentions,
each with its label, in their order: `Human`, `Line`, `Compact`, `Message` and the
window's `viewModel` each have their own selection and order, as in the code.
`modelNames`, `modelArtwork` and `images` are the table of names, the table of
artwork and the files of `assets/drawable`. `MCPods` extends `Render`, so one run
checks decoder and frontends over the same payloads.

### Server

One action per section between two points where goroutines interleave: `Accept`,
the locked part of `add`, `go serve`, taking a snapshot, the blocking `Write`, the
deferred `conn.Close` and `remove`, and `Close` cut in its four steps (done,
listener, clients, wait). A socket holds up to `SockCap` lines and a write into a
full one blocks; it fails when the peer hung up, when `Close` closed the
connection, or, for a client outside `Readers`, when the deadline passes. That a
client inside `Readers` reads within `writeTimeout` is what `Readers` means.

### Daemon

`Monitor` and `Server` side by side (`M!` and `S!`), joined by the main goroutine:
`main` says where `run` is, from the source that opened to the exit. The loop
takes a snapshot from the monitor's slot (`M!TakeSnapshot`) and broadcasts it
(`S!Broadcast`); the server knows snapshots by number and `sent` holds number
`i`'s content. It leaves the loop on a signal or when the monitor's channel is
closed and empty, and runs its deferred calls in order. The scanner is the
monitor's environment here, for `Pipeline` shows that the real one is one. The
server's goroutines and clients that dial need a server (`created`): a daemon whose
`NewServer` failed goes straight to `Monitor.Close`.

`notifier` says where `forwardNotifications` is: not started, receiving, inside
`Notify`, or at the end of its channel. `Notify` is a D-Bus call without a deadline,
so `NotifyReturns` need never happen. Nobody waits for this goroutine: `goroutines`
is the set of those that are left, and when `run` returns it holds no other one
(`ExitLeavesOnlyNotifier`).

### Frontend

Daemons numbered in order of their start, one path in the file system, reconnecting
screens and one command. A daemon clears the path (`RemoveSocket`), listens
(`Listen`, which fails if something is there) and on its way out removes whatever
is at the path, also another daemon's socket; a crash leaves its own behind.
`Restart=on-failure` is `RestartUnit`. A process that ends takes its memory along
(`Ends`). A peer (a screen or the command) that dials reaches whoever listens, and
waits in the backlog until `Accept`; after an `AcceptError` the listener stays and
nobody accepts any more (`deaf`), so the peer waits until that daemon ends
(`stranded`). What an accepted connection does is left to `Server` and `Daemon`: its
client reads the daemon's last broadcast, which a beacon, a link edge or the
staleness of the figures makes. `Dial`, `DialFails`, `Read`, `ReadFails`, `Wake` are
the loop that the tray and the window share; the `Cli` actions are every path of
`openpods status`, the one-shot scan and its exits included.

## 3. Runs

| Run | Instance | Shows |
| --- | --- | --- |
| `emit` | 10 sends | the two selects implement the mailbox |
| `monitor` | one status, stale after 1, poll 2, queue of 2, clock to 3 | published state, latest wins, staleness, notifications |
| `source` | one device, two payloads, one strength, buffer of 2, 3 property changes, one by one or together | merging, what an idle source has told the scanner, every end |
| `scanner` | two AirPods, one other device, two headsets, three strengths around the floor, window 1, at most 3 beacons per window, clock to 2 | the window, the selector's choice, the link flag |
| `pipeline` | one AirPods, two headsets, stale after 0, poll 1, clock to 1 | both refinements, the link flag end to end, the close chain and the end of the source |
| `pipeline_age` | two AirPods and another device, no links, prompt goroutines, clock to 5 | the end-to-end age bound |
| `pods` | all known ids, four near misses, all meaningful bits, levels 9 to 11 | decoder, view and every frontend's drawing of it |
| `server` | a reading and a stalling client, socket of one line, 3 broadcasts, `Accept` may fail | streams, map, `Close`, catching up |
| `daemon` | one status, one client, stale after 0, poll 1, two inputs, clock to 1 | a client follows the core state and loses old figures; what it displays, in which order and how often; every way to stop ends the process, also with a `Notify` that never returns, and what is left then |
| `frontend` | two daemons, one screen, the command, one beacon or link edge per daemon, `Accept` may fail | where the path leads, what a screen ends on, that the command ends |
| `server_accept`, `frontend_ghost` | | disagreements, section 6 |

Why the bounds are enough.

- The monitor compares times with two constants, so the interesting instants are
  before, at and after `StaleAfter`, with and without a tick in between: a clock
  of 3 with a tick at 2 has a reading that is hidden by the tick and one that is
  already too old but still shown, because its tick is yet to come. A queue of 2
  both fills and overflows. Nothing compares statuses, so one is enough.
- The tracker keeps nothing across devices, so one device shows the merging; two
  payloads make an old one visible. Three changes with a buffer of two are signals
  that repeat an enumeration with an outdated one in front, and an overflow that
  overtakes; the initial state is any state of BlueZ, so all changes are spent after
  discovery begins (`observed`). The bound counts properties, so that one signal
  may name several; a device that appears counts twice. More devices, changes and
  deeper buffers are the proofs' part.
- The selector distinguishes strengths below, at and above the floor and devices
  that are equal or not; three beacons are a strongest, a newest and a third that
  is neither, and at 2 the beacons of instant 0 have left the window.
- The server needs a client that stalls for another one to be independent of, a
  socket that can be full (1), and a snapshot that is overtaken in the slot while
  another is being written and a third is unread (3).
- In `daemon`, an input is emitted at most twice, when it arrives and when it has
  gone stale (`BroadcastsAreBounded`), so a `MaxSnap` of twice the inputs never
  stops a broadcast; `BoundNeverBinds` proves it. Two inputs are two beacons or a
  beacon and a link edge, and at instant 1 the ticker has hidden the figures of
  instant 0, which the second beacon brings back. Time and inputs stop once the loop has been left (`pumping`): nothing reaches a
  client after it, and `pipeline` has a scanner that goes on during a shutdown.
- Two daemons are a predecessor and a successor, in every overlap; both may
  broadcast, so a screen with the figures of the one meets the other before and
  after its first broadcast. A beacon whose figures go stale is two broadcasts of
  the same daemon. A screen's loop does not depend on other screens. That a third
  daemon is fine after two that overlapped is the theorem's part.

Deadlock checking is off where the system may really stop: after `Close`, or at
the bound of a clock or of a count. `Pods` never stops.

## 4. Fairness

Go schedules a goroutine that can run, and `select` picks among its ready cases
at random, so a case that stays ready is taken: weak fairness per case. Nothing
obliges headphones to send, users to call `Close`, clients to dial, the source
to fail or anybody to broadcast, and these actions have no fairness.

- `Pipeline`: the cases of each goroutine, the clock while the monitor runs, and
  `Close` once called.
- `Source`: `run` and `Close`; BlueZ answers the enumeration, with objects or an
  error. The scanner receives only until it closes the source: this is
  `WF(~done /\ ...)`, and afterwards `Stop` alone must end a blocked send. Waiting
  deliveries of the library happen when there is room.
- `Server`: the goroutines. Only `Readers` are obliged to read, and an `Accept`
  error is only certain when the listener is closed.
- `Daemon`: as in the components; the scanner ends when `Monitor.Close` closes
  it, and may end by itself, as when the source does. `forwardNotifications` has no
  fairness: `Notify` may never return, and no property may depend on it.
- `Frontend`: started processes go on, a serving daemon accepts unless its accept
  loop has ended, a daemon hides old figures (which
  `ClientsGoStale` of `Daemon` shows), the scan has a timeout. systemd's restart
  has no fairness: it may give up.

In `Pipeline` the constant `Prompt` states the assumption of the age bound, that
goroutines empty their channels before the clock moves; run `pipeline` does
without it.

## 5. Proofs

Everything is proved for every value of the constants that the named assumptions
admit; those are types, non-empty capacities and `None` being different from data,
and in `Daemon` that the server's bound is twice the inputs' (section 3).

- `MonitorProofs`. Type correctness; then `CurrentReflectsState` (every handler
  that changes the core state emits), on which `SnapshotNewest` rests.
  `StalenessHonest` is not inductive: it needs that the next tick is ahead of the
  clock by at most a period and that, unless a tick is waiting, staleness was
  looked at no longer than a period ago. `TickInv` states both.
  `FiguresReturnOnlyWithBeacon` is an action property on top of them.
  `ConnConverges` and the two notification properties are inductive with the
  type invariant; the queue's order is argued with the sequence lemmas, taking
  from the head and appending at the end separately.
- `SourceProofs`. Both properties are about an idle source, and not inductive: the
  invariants say what is still on its way. `HeardInv`: for each device, the last
  pending signal that names a property carries BlueZ's present value, and without
  one the tracker has it (`LatestComing`); what the tracker has, the scanner has
  heard or is being sent (`TrackedIsHeard`). `LinksInv` needs the history of a link
  and not only its last word, because an edge counts only if the device was known
  as AirPods when it was handled. It says there is a run of "known" and "edge" values
  through the pending signals that starts in the tracker and ends in BlueZ
  (`LinksComing`), quantified existentially, since an enumeration repeats signals
  that are still in the buffer; while the enumeration is to come there are two
  such starts.
- `ScannerProofs`. `ConsumerConverges` with the fact that the flag last offered
  is the aggregate one: an unread edge may be overwritten, never lost for good.
  `SelectorInv` is that `recent` is in order and holds nothing from the future; the
  loops of `prune` and of the search for the strongest are reasoned about through
  the least index at which the claim fails. From it follow the properties about
  what is published.
- `PipelineProofs`. Every step of `Pipeline` is one of `Scanner` and one of
  `Monitor`, or a stutter. The components' theorems then hold of the composition
  through `INSTANCE`, and `LinkIsTrue` joins both ends of the chain. `AgeInv`
  assumes `Prompt`: a published reading is a window old at most and is received in
  the instant it is published. The channels of these compositions are single
  assignments; the last section proves that the two selects of `Emit` are that.
  The invariant is `ch = 0` whenever the producer is between its selects
  (`NeverDrops`), and from it every step of `Emit` is one of `LatestWins` or a stutter.
- `PodsProofs`. The swap theorem splits on the flip flag and on the two kinds of
  headset. Each of the thirteen rules fixes the second character of the ids it
  matches, from which `Unambiguous` follows, and from that `TablesAgree`.
  `TextsAgree` first bounds the text of a terminal (`Human`) to no, one or three
  lines; every other text is a concatenation of parts, empty for an absent figure,
  and is compared with it in these three cases.
  `CardsHaveArtwork` goes through the tables row by row.
- `ServerProofs`. `NothingLeft` needs `Life`: the accept goroutine has at most
  one connection in hand, and says so; a connection is open only while some
  goroutine will close it; the map holds exactly the connections with such a
  goroutine; and once `Close` has returned there is no goroutine. The wait group
  is what ties the last one to the others.
  `StreamGoesForward` is proved from `Stream`: of the four places on a client's
  path (read, socket, being written, channel) each holds only newer snapshots
  than the one before it and none is newer than the current one, which keeps
  `Broadcast` inductive. `NewestIsOnItsWay` follows from `Newest`, whose only
  hard case is `Broadcast`: it needs that a registered client is in the map,
  which is `EntriesHaveServers`. The lemmas on concatenation carry both over to
  the sequence `stream`.
- `DaemonProofs`. `MonitorRefined` and `ServerRefined`: every step of the daemon is
  a step of `Monitor` and a step of `Server`, or leaves them alone, so both sets of
  theorems hold of the daemon. Its own invariant `MainInv` says in which order
  `run` creates and closes (`Ordered`) and that the last number broadcast is the
  snapshot taken last (`Pumped`). `OnlyNotifierLeft` and `RestingClientsAreCurrent`
  follow from the two together: at rest, what a client read is the newest
  broadcast, that is what `run` took last, and that is the current snapshot.
  `ScreensForward` uses the transitive relation `Forward` between snapshots:
  `GoesForward` says it holds along the whole path, from each broadcast to the
  later ones, to the one taken last and to the current one. A step of the monitor
  keeps it because hidden figures are stamped before now, or, by `NothingHeard`,
  with the zero time. `BroadcastsBounded` is a potential argument: what was
  broadcast, what is about to be, and what the monitor can still push without a
  further input (`pending`: an unread snapshot 1, figures not yet hidden 1, an
  unread status 2, an unread link edge 1) is at most twice the inputs.
- `FrontendProofs`. `PathInv`: a daemon that no other one overlaps is the only one
  alive while it lives (`Alone`), so between `RemoveSocket` and `Listen` it finds the
  path empty, and later itself at it. Daemons that overlapped before do not matter.

Only model-checked: everything about liveness (`AllEndTogether`, `SourceEnds`,
`ReadersCatchUp`, `CloseReturns`, the three liveness properties of
`Daemon`, `ScreensFollow`, `CommandEnds`), which is out of the prover's reach.
`DaemonProofs` has the safety side of the first two of `Daemon`: where a client
ends up if the goroutines stop moving.

Proved and not run: the type invariants of `Source` and `Scanner`, `SendNeverDrops`
and `RecentIsAWindow`, on which listed properties rest.

## 6. Where code and documentation disagree

Two are runs that TLC must find violated.

1. `server_accept`: "On connect a client immediately receives the current
   snapshot" (`ipc/server.go:28`). After one failed `Accept`, never again.
2. `frontend_ghost`: "frontends hide figures" without a beacon for 30 s
   (`docs/architecture.md:174`). A screen that reconnects to a restarted daemon
   keeps the old daemon's figures until the new one hears a beacon or a link edge:
   a daemon pushes nothing before. For the same reason "On connect it writes the current
   status immediately" (`docs/architecture.md:115`) does not hold of a fresh
   daemon, and the command, of which `README.md:109` says "it just reads the
   last-known status", waits for ever on one. `ScreensFollow` and `CommandEnds`
   name this exception and the one of item 1, a daemon that has stopped accepting,
   and show that there are no others in the model: the first lasts until the daemon
   broadcasts and both last no longer than the daemon.

The others were met while modelling and need no run.

- "The assumption: the loudest AirPods beacon nearby is yours"
  (`docs/linux-bluetooth.md:81`). The selector sees all Apple beacons and only its
  choice is decoded, so a louder phone suppresses the AirPods.
  `LoudestPodsPublished` states what does hold.
- "The scanner stamps capture time when it reads the beacon, which is what the
  staleness rule in core consumes" (`pods/pods.go:95`). The monitor stamps
  receipt, and readings may be a window old by then. `FiguresAgeBound` states what
  does hold.
- "We only treat status as "yours" while such a device is connected"
  (`docs/linux-bluetooth.md:88`). No code does.
- "Reconnect with exponential backoff" after a lost bus (`docs/architecture.md:172`)
  and "the daemon waits for org.bluez and retries"
  (`packaging/systemd/openpodsd.service:5`). A lost bus ends the source, the daemon
  exits with status 0, and `Restart=on-failure` does not restart it; without
  BlueZ the constructor fails, and it is systemd that retries.
- "Subscribe before StartDiscovery so no early advertisements are missed."
  (`ble/bluez.go:76`). The match rules come first, but the channel is registered
  after `StartDiscovery`, and the library discards signals without one. The
  enumeration makes up for it, which is what `LinksFollow` and `HeardLatest`
  show; when it fails, they are lost.
- `pods/pods.go:50-51` call battery A the left one when not flipped. It is battery
  B, as the note at line 125 and `docs/beacon-protocol.md:67` intend and
  `Pods!leftPod` models.

## 7. Not modelled

- `ble.replaySource`: each of its steps is one of the scanner's environment. In
  `Frontend` it is a source that cannot fail.
- Display names, JSON, flags, logging, widgets, menus, image scaling: wording,
  formatting and layout.
- The Bluetooth stack, the D-Bus library and the notification service are external.
  The calls of `Close` to D-Bus have no deadline and are assumed to return. The
  notification service may answer at any time or never.
- Go's runtime beyond scheduling and channels; wall-clock jumps (Go's times
  carry a monotonic reading).
- systemd's start limit and delays: no property relies on a restart.

## 8. Plan

Done: latest-wins channels, monitor, scanner, pipeline, decoder and server; then
the BlueZ source, the daemon's main goroutine, the frontends around the socket
path, the rendering, and the proofs of section 5. What is left:

1. `Source` composed with `Scanner`, so that `LinkIsTrue` starts at BlueZ. Today
   `LinksFollow` ends at the set where `LinkIsTrue` begins.
2. What follows if the code repaired the order after an overflow of the signal
   buffer, or asked BlueZ for removed objects; today nothing is promised there.
