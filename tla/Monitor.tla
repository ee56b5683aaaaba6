------------------------------- MODULE Monitor -------------------------------
(* core.Monitor (core/core.go): one goroutine that selects over the scanner's
   two latest-value channels, a ticker and a done channel, and publishes

     - the current snapshot, through a one-slot latest-wins channel, and
     - connect / disconnect notifications, through a bounded channel that
       drops the newest one when it is full.

   The scanner behind it (ble/scanner.go) appears as an environment that puts
   values in the two channels; module Scanner models it and Pipeline composes
   the two.  The daemon that empties both outputs (cmd/openpodsd/main.go) is an
   environment too.  A one-slot channel is a variable that holds None or the
   value; module Emit shows that the two selects of pushLatest implement the
   single assignment used here.  Time is an integer clock.                    *)
EXTENDS Integers, Sequences

CONSTANTS
    Statuses,       \* decoded beacons (pods.Status)
    None,           \* an empty channel, hidden figures, the zero Status
    StaleAfter,     \* freshness window (core.DefaultStaleAfter)
    PollInterval,   \* period of the staleness ticker
    NotesCap,       \* capacity of the notification channel
    MaxTime         \* bound on the clock

VARIABLES
    updates,     \* Scanner.Updates(): None or the unread status
    conns,       \* Scanner.Connected(): None or the unread aggregate flag
    scannerOpen, \* the scanner has not closed updates and conns
    aggregate,   \* the flag the scanner last sent on conns
    st,          \* the monitor's state struct
    lastStale,   \* staleness as of the last emit
    current,     \* the snapshot Current() returns
    snapshots,   \* Snapshots(): None or the unread snapshot
    notes,       \* Notifications()
    done,        \* Close was called
    running,     \* run has not returned (snapshots and notes are open)
    now,         \* the clock
    nextTick,    \* when the ticker fires next
    tick,        \* ticker.C holds an unread tick
    shown,       \* the last snapshot the daemon took, None at first
    lastNote,    \* kind of the last notification the daemon took
    dropped      \* a notification was dropped (the warning was logged)

scannerVars == <<updates, conns, scannerOpen, aggregate>>
coreVars    == <<st, lastStale, current, snapshots, notes, dropped>>
clockVars   == <<now, nextTick, tick>>
daemonVars  == <<shown, lastNote>>
vars == <<scannerVars, coreVars, clockVars, daemonVars, done, running>>

Never == -1      \* the zero time.Time: before every instant
Times == Never .. MaxTime

State == [status : Statuses \cup {None}, haveStatus : BOOLEAN,
          connected : BOOLEAN, lastBeacon : Times]

Snapshot == [connected : BOOLEAN, stale : BOOLEAN,
             status  : Statuses \cup {None},   \* names the model, even when stale
             figures : Statuses \cup {None},   \* the battery figures, None if hidden
             updated : Times]

Kind == {"connected", "disconnected"}
Notification == [kind : Kind, snapshot : Snapshot]

ASSUME MonitorAssumption ==
    /\ None \notin Statuses \cup BOOLEAN \cup Snapshot \cup Kind
    /\ StaleAfter \in Nat
    /\ PollInterval \in Nat \ {0}
    /\ NotesCap \in Nat \ {0}
    /\ MaxTime \in Nat

-----------------------------------------------------------------------------
(* The pure core state. *)

newState == [status |-> None, haveStatus |-> FALSE,
             connected |-> FALSE, lastBeacon |-> Never]

onStatus(s0, s, t) ==
    [status |-> s, haveStatus |-> TRUE, connected |-> s0.connected, lastBeacon |-> t]

\* Mutant: a link edge counts as a fresh reading.
setConnected_refresh(s0, c) == [s0 EXCEPT !.connected = c, !.lastBeacon = now]

setConnected(s0, c) == [s0 EXCEPT !.connected = c]

\* Mutant: a link keeps the figures fresh.
stale_linked(s0, t) == ~s0.haveStatus \/ (~s0.connected /\ t - s0.lastBeacon > StaleAfter)

stale(s0, t) == ~s0.haveStatus \/ t - s0.lastBeacon > StaleAfter

FromStatus(s, isConnected, isStale, t) ==
    [connected |-> isConnected, stale |-> isStale, status |-> s,
     figures |-> IF isStale THEN None ELSE s, updated |-> t]

snapshot(s0, t) == FromStatus(s0.status, s0.connected, stale(s0, t), s0.lastBeacon)

kindOf(c) == IF c THEN "connected" ELSE "disconnected"

-----------------------------------------------------------------------------
Init ==
    /\ updates = None /\ conns = None /\ scannerOpen = TRUE /\ aggregate = FALSE
    /\ st = newState /\ lastStale = TRUE
    /\ current = snapshot(newState, 0)     \* meaningful, but not pushed
    /\ snapshots = None /\ notes = <<>> /\ dropped = FALSE
    /\ done = FALSE /\ running = TRUE
    /\ now = 0 /\ nextTick = PollInterval /\ tick = FALSE
    /\ shown = None /\ lastNote = None

\* Mutant: a full channel keeps the old snapshot.
pushLatest_keepsOld(snap) ==
    snapshots' = IF snapshots = None THEN snap ELSE snapshots

pushLatest(snap) == snapshots' = snap

\* Mutant: lastStale is not updated.
emit_keepsLastStale(s0) ==
    /\ current' = snapshot(s0, now)
    /\ pushLatest(current')
    /\ UNCHANGED lastStale

\* The closure emit of run: publish the snapshot of core state s0.
emit(s0) ==
    /\ current' = snapshot(s0, now)
    /\ pushLatest(current')
    /\ lastStale' = current'.stale

\* Mutant: an unbounded queue.
notify_unbounded(n) == notes' = Append(notes, n) /\ UNCHANGED dropped

notify(n) ==
    IF Len(notes) < NotesCap
    THEN notes' = Append(notes, n) /\ UNCHANGED dropped
    ELSE dropped' = TRUE /\ UNCHANGED notes

-----------------------------------------------------------------------------
(* The cases of run's select. *)

RecvUpdate ==
    /\ running /\ updates # None
    /\ st' = onStatus(st, updates, now)
    /\ emit(st')
    /\ updates' = None
    /\ UNCHANGED <<conns, scannerOpen, aggregate, notes, dropped, clockVars,
                   daemonVars, done, running>>

\* Mutant: the notification is built before the edge is published.
ConnChanged_noteFirst(c) ==
    /\ c # st.connected
    /\ st' = setConnected(st, c)
    /\ emit(st')
    /\ notify([kind |-> kindOf(c), snapshot |-> current])

\* A changed flag is emitted and notified; a repeated one is swallowed.
ConnChanged(c) ==
    /\ c # st.connected
    /\ st' = setConnected(st, c)
    /\ emit(st')
    /\ notify([kind |-> kindOf(c), snapshot |-> current'])

\* Mutant: a repeated flag is notified too.
ConnRepeated_notifies(c) ==
    /\ c = st.connected
    /\ notify([kind |-> kindOf(c), snapshot |-> current])
    /\ UNCHANGED <<st, lastStale, current, snapshots>>

ConnRepeated(c) ==
    /\ c = st.connected
    /\ UNCHANGED coreVars

RecvConn ==
    /\ running /\ conns # None
    /\ ConnChanged(conns) \/ ConnRepeated(conns)
    /\ conns' = None
    /\ UNCHANGED <<updates, scannerOpen, aggregate, clockVars, daemonVars, done, running>>

\* Mutant: the tick is swallowed.
RecvTick_swallowed ==
    /\ running /\ tick
    /\ tick' = FALSE
    /\ UNCHANGED <<coreVars, scannerVars, now, nextTick, daemonVars, done, running>>

\* Mutant: every tick is emitted.
RecvTick_always ==
    /\ running /\ tick
    /\ tick' = FALSE
    /\ emit(st)
    /\ UNCHANGED <<st, notes, dropped, scannerVars, now, nextTick, daemonVars,
                   done, running>>

\* Emit only when the staleness flag flips.
RecvTick ==
    /\ running /\ tick
    /\ tick' = FALSE
    /\ IF stale(st, now) # lastStale
       THEN emit(st)
       ELSE UNCHANGED <<current, snapshots, lastStale>>
    /\ UNCHANGED <<st, notes, dropped, scannerVars, now, nextTick, daemonVars,
                   done, running>>

\* A closed channel still yields its buffered value first.
RecvClosed ==
    /\ running /\ ~scannerOpen /\ (updates = None \/ conns = None)
    /\ running' = FALSE
    /\ UNCHANGED <<scannerVars, coreVars, clockVars, daemonVars, done>>

RecvDone ==
    /\ running /\ done
    /\ running' = FALSE
    /\ UNCHANGED <<scannerVars, coreVars, clockVars, daemonVars, done>>

-----------------------------------------------------------------------------
(* The environment: scanner, daemon, clock. *)

ScannerStatus ==
    /\ scannerOpen
    /\ \E s \in Statuses : updates' = s
    /\ UNCHANGED <<conns, scannerOpen, aggregate, coreVars, clockVars, daemonVars,
                   done, running>>

ScannerConn ==
    /\ scannerOpen
    /\ aggregate' = ~aggregate
    /\ conns' = aggregate'
    /\ UNCHANGED <<updates, scannerOpen, coreVars, clockVars, daemonVars, done, running>>

\* The source ended, or Close closed the scanner.
ScannerStop ==
    /\ scannerOpen
    /\ scannerOpen' = FALSE
    /\ UNCHANGED <<updates, conns, aggregate, coreVars, clockVars, daemonVars,
                   done, running>>

\* The daemon's pump; it has left its loop when it calls Close.
TakeSnapshot ==
    /\ ~done /\ snapshots # None
    /\ shown' = snapshots /\ snapshots' = None
    /\ UNCHANGED <<scannerVars, st, lastStale, current, notes, dropped, clockVars,
                   lastNote, done, running>>

TakeNote ==
    /\ notes # <<>>
    /\ lastNote' = Head(notes).kind /\ notes' = Tail(notes)
    /\ UNCHANGED <<scannerVars, st, lastStale, current, snapshots, dropped,
                   clockVars, shown, done, running>>

Close ==
    /\ ~done
    /\ done' = TRUE
    /\ UNCHANGED <<scannerVars, coreVars, clockVars, daemonVars, running>>

\* Once run has returned its ticker is stopped and nothing reads the clock.
Clock ==
    /\ running /\ now < MaxTime
    /\ now' = now + 1
    /\ IF now' = nextTick
       THEN tick' = TRUE /\ nextTick' = nextTick + PollInterval
       ELSE UNCHANGED <<tick, nextTick>>
    /\ UNCHANGED <<scannerVars, coreVars, daemonVars, done, running>>

-----------------------------------------------------------------------------
Run == RecvUpdate \/ RecvConn \/ RecvTick \/ RecvClosed \/ RecvDone
Env == ScannerStatus \/ ScannerConn \/ ScannerStop \/ TakeSnapshot \/ TakeNote
       \/ Close \/ Clock
Next == Run \/ Env

Spec == Init /\ [][Next]_vars

-----------------------------------------------------------------------------
(* Every variable has its type; in particular the notification queue never
   outgrows its channel (notify never blocks run).                          *)
TypeOK ==
    /\ updates \in Statuses \cup {None}
    /\ conns \in BOOLEAN \cup {None}
    /\ scannerOpen \in BOOLEAN /\ aggregate \in BOOLEAN
    /\ st \in State
    /\ lastStale \in BOOLEAN
    /\ current \in Snapshot
    /\ snapshots \in Snapshot \cup {None}
    /\ notes \in Seq(Notification) /\ Len(notes) <= NotesCap
    /\ done \in BOOLEAN /\ running \in BOOLEAN
    /\ now \in 0 .. MaxTime /\ nextTick \in Nat /\ tick \in BOOLEAN
    /\ shown \in Snapshot \cup {None}
    /\ lastNote \in Kind \cup {None}
    /\ dropped \in BOOLEAN

(* Whatever handler ran last, the published snapshot is the core state's: no
   handler changes status, connection or staleness without emitting.         *)
CurrentReflectsState ==
    current = FromStatus(st.status, st.connected, lastStale, st.lastBeacon)

(* Latest wins, and the latest is never lost: the unread snapshot is the current
   one, and once the daemon has emptied the channel it holds the current one.
   Only the initial snapshot is never offered (NewMonitor does not push it).  *)
SnapshotNewest ==
    IF snapshots # None
    THEN snapshots = current
    ELSE shown = current \/ (shown = None /\ current = snapshot(newState, 0))

(* Staleness is honest in both directions.  Figures whose beacon was received
   within StaleAfter are never hidden; and while no tick is waiting to be
   handled, the figures on display were received less than StaleAfter plus one
   poll period ago.                                                          *)
StalenessHonest ==
    /\ st.haveStatus /\ now - st.lastBeacon <= StaleAfter => ~current.stale
    /\ running /\ ~tick /\ ~current.stale
          => now - st.lastBeacon < StaleAfter + PollInterval

(* However the scanner's latest-wins channel collapses link edges, the monitor
   ends on the right one: an unread flag is the scanner's own, and with none
   unread the monitor agrees with the scanner.                               *)
ConnConverges == (IF conns # None THEN conns ELSE st.connected) = aggregate

(* Unless one was dropped, connect and disconnect notifications alternate,
   starting with a connect, through the one taken last and those queued, and
   the newest of them matches the monitor's flag.                            *)
isConnect(kind) == kind = kindOf(TRUE)
newestKind == IF notes = <<>> THEN lastNote ELSE notes[Len(notes)].kind

NotesAlternate ==
    ~dropped =>
        /\ isConnect(newestKind) <=> st.connected
        /\ notes # <<>> => (isConnect(notes[1].kind) <=> ~isConnect(lastNote))
        /\ \A i \in 2 .. Len(notes) :
              isConnect(notes[i].kind) <=> ~isConnect(notes[i - 1].kind)

(* A notification carries the snapshot taken after its own edge, so its text
   never contradicts its title, even when the queue overflowed.             *)
NotesCarryTheirEdge ==
    \A i \in DOMAIN notes : isConnect(notes[i].kind) <=> notes[i].snapshot.connected

(* Hidden figures come back only with a beacon received in that very step: no
   tick and no reconnect brings old figures back.                            *)
FiguresReturnOnlyWithBeacon ==
    [][current.stale /\ ~current'.stale => updates # None /\ st'.lastBeacon = now]_vars
=============================================================================
