---------------------------- MODULE MonitorProofs ----------------------------
(* Machine-checked proofs about Monitor, for every value of its constants. *)
EXTENDS Monitor, SequenceTheorems, TLAPS

LEMMA FromStatusType ==
    ASSUME NEW s \in Statuses \cup {None}, NEW c \in BOOLEAN, NEW h \in BOOLEAN,
           NEW t \in Times
    PROVE  FromStatus(s, c, h, t) \in Snapshot
BY DEF FromStatus, Snapshot

LEMMA SnapshotType ==
    ASSUME NEW s0 \in State, NEW t \in Int
    PROVE  snapshot(s0, t) \in Snapshot
<1>1. stale(s0, t) \in BOOLEAN
  BY DEF stale
<1>2. s0.status \in Statuses \cup {None} /\ s0.connected \in BOOLEAN /\ s0.lastBeacon \in Times
  BY DEF State
<1>. QED  BY <1>1, <1>2, FromStatusType DEF snapshot

LEMMA NewStateType == newState \in State
BY MonitorAssumption DEF newState, State, Times, Never

LEMMA SetConnectedType ==
    ASSUME NEW s0 \in State, NEW c \in BOOLEAN
    PROVE  setConnected(s0, c) \in State
BY DEF setConnected, State

LEMMA OnStatusType ==
    ASSUME NEW s0 \in State, NEW s \in Statuses, NEW t \in 0 .. MaxTime
    PROVE  onStatus(s0, s, t) \in State
<1>1. t \in Times
  BY MonitorAssumption DEF Times, Never
<1>. QED  BY <1>1 DEF onStatus, State

LEMMA EmitType ==
    ASSUME NEW s0 \in State, now \in Int, emit(s0)
    PROVE  /\ current' = snapshot(s0, now) /\ current' \in Snapshot
           /\ snapshots' = current'
           /\ lastStale' = stale(s0, now) /\ lastStale' \in BOOLEAN
<1>1. current' = snapshot(s0, now)
  BY DEF emit
<1>2. current' \in Snapshot
  BY <1>1, SnapshotType
<1>3. current'.stale = stale(s0, now)
  BY <1>1 DEF snapshot, FromStatus
<1>4. stale(s0, now) \in BOOLEAN
  BY DEF stale
<1>. QED  BY <1>1, <1>2, <1>3, <1>4 DEF emit, pushLatest

LEMMA TypeOKStep ==
    ASSUME TypeOK, [Next]_vars
    PROVE  TypeOK'
<1>. USE MonitorAssumption DEF TypeOK
<1>1. CASE RecvUpdate
  <2>1. st' \in State
    BY <1>1, OnStatusType DEF RecvUpdate
  <2>2. emit(st')
    BY <1>1 DEF RecvUpdate
  <2>3. current' \in Snapshot /\ snapshots' = current' /\ lastStale' \in BOOLEAN
    BY <2>1, <2>2, EmitType
  <2>. QED  BY <1>1, <2>1, <2>3 DEF RecvUpdate, clockVars, daemonVars
<1>2. CASE RecvConn
  <2>1. CASE ConnChanged(conns)
    <3>1. conns \in BOOLEAN
      BY <1>2 DEF RecvConn
    <3>2. st' \in State
      BY <2>1, <3>1, SetConnectedType DEF ConnChanged
    <3>3. current' \in Snapshot /\ snapshots' = current' /\ lastStale' \in BOOLEAN
      BY <2>1, <3>2, EmitType DEF ConnChanged
    <3>4. [kind |-> kindOf(conns), snapshot |-> current'] \in Notification
      BY <3>3 DEF Notification, Kind, kindOf
    <3>5. notes' \in Seq(Notification) /\ Len(notes') <= NotesCap /\ dropped' \in BOOLEAN
      <4>1. CASE Len(notes) < NotesCap
        <5>1. notes' = Append(notes, [kind |-> kindOf(conns), snapshot |-> current'])
                /\ dropped' = dropped
          BY <2>1, <4>1 DEF ConnChanged, notify
        <5>2. notes' \in Seq(Notification) /\ Len(notes') = Len(notes) + 1
          BY <3>4, <5>1
        <5>. QED  BY <4>1, <5>1, <5>2
      <4>2. CASE ~(Len(notes) < NotesCap)
        BY <2>1, <4>2 DEF ConnChanged, notify
      <4>. QED  BY <4>1, <4>2
    <3>. QED  BY <1>2, <3>2, <3>3, <3>5 DEF RecvConn, clockVars, daemonVars
  <2>2. CASE ConnRepeated(conns)
    BY <1>2, <2>2 DEF RecvConn, ConnRepeated, coreVars, clockVars, daemonVars
  <2>. QED  BY <1>2, <2>1, <2>2 DEF RecvConn
<1>3. CASE RecvTick
  <2>1. CASE emit(st)
    <3>1. current' \in Snapshot /\ snapshots' = current' /\ lastStale' \in BOOLEAN
      BY <2>1, EmitType
    <3>. QED  BY <1>3, <3>1 DEF RecvTick, scannerVars, daemonVars
  <2>2. CASE UNCHANGED <<current, snapshots, lastStale>>
    BY <1>3, <2>2 DEF RecvTick, scannerVars, daemonVars
  <2>. QED  BY <1>3, <2>1, <2>2 DEF RecvTick
<1>4. CASE RecvClosed \/ RecvDone
  BY <1>4 DEF RecvClosed, RecvDone, scannerVars, coreVars, clockVars, daemonVars
<1>5. CASE ScannerStatus \/ ScannerConn \/ ScannerStop \/ Close
  BY <1>5 DEF ScannerStatus, ScannerConn, ScannerStop, Close, scannerVars,
              coreVars, clockVars, daemonVars
<1>6. CASE TakeSnapshot
  BY <1>6 DEF TakeSnapshot, scannerVars, clockVars
<1>7. CASE TakeNote
  <2>1. Head(notes) \in Notification /\ Tail(notes) \in Seq(Notification)
          /\ Len(Tail(notes)) = Len(notes) - 1
    BY <1>7 DEF TakeNote
  <2>. QED  BY <1>7, <2>1 DEF TakeNote, scannerVars, clockVars, Notification
<1>8. CASE Clock
  <2>1. now' \in 0 .. MaxTime /\ nextTick' \in Nat
    BY <1>8 DEF Clock
  <2>2. tick' \in BOOLEAN
    BY <1>8 DEF Clock
  <2>. QED  BY <1>8, <2>1, <2>2 DEF Clock, scannerVars, coreVars, daemonVars
<1>9. CASE UNCHANGED vars
  BY <1>9 DEF vars, scannerVars, coreVars, clockVars, daemonVars
<1>. QED  BY <1>1, <1>2, <1>3, <1>4, <1>5, <1>6, <1>7, <1>8, <1>9 DEF Next, Run, Env

(* Type correctness, the bound on the notification queue included. *)
THEOREM TypeCorrect == Spec => []TypeOK
<1>1. Init => TypeOK
  <2>. SUFFICES ASSUME Init PROVE TypeOK
    OBVIOUS
  <2>1. snapshot(newState, 0) \in Snapshot
    BY NewStateType, SnapshotType
  <2>2. notes \in Seq(Notification) /\ Len(notes) <= NotesCap
    BY MonitorAssumption DEF Init
  <2>3. now \in 0 .. MaxTime /\ nextTick \in Nat
    BY MonitorAssumption DEF Init
  <2>. QED  BY <2>1, <2>2, <2>3, NewStateType DEF Init, TypeOK
<1>2. TypeOK /\ [Next]_vars => TypeOK'
  BY TypeOKStep
<1>. QED  BY <1>1, <1>2, PTL DEF Spec

-----------------------------------------------------------------------------
(* Every step either runs the emit closure on the new core state or leaves the
   core state and the published snapshot alone.                              *)
Emits == st' \in State /\ emit(st')
Quiet == /\ UNCHANGED <<st, lastStale, current>>
         /\ TakeSnapshot \/ UNCHANGED <<snapshots, shown>>

LEMMA EmitsOrQuiet ==
    ASSUME TypeOK, [Next]_vars
    PROVE  Emits \/ Quiet
<1>. USE DEF TypeOK, Emits, Quiet
<1>1. CASE RecvUpdate
  BY <1>1, OnStatusType DEF RecvUpdate
<1>2. CASE RecvConn
  <2>1. CASE ConnChanged(conns)
    BY <1>2, <2>1, SetConnectedType DEF RecvConn, ConnChanged
  <2>. QED  BY <1>2, <2>1 DEF RecvConn, ConnRepeated, coreVars, daemonVars
<1>3. CASE RecvTick
  BY <1>3 DEF RecvTick, emit, daemonVars
<1>4. CASE RecvClosed \/ RecvDone \/ Env \/ UNCHANGED vars
  BY <1>4 DEF RecvClosed, RecvDone, Env, ScannerStatus, ScannerConn, ScannerStop,
     TakeSnapshot, TakeNote, Close, Clock, vars, coreVars, daemonVars
<1>. QED  BY <1>1, <1>2, <1>3, <1>4 DEF Next, Run

(* The published snapshot is the snapshot of the core state at every instant:
   run never changes its state without emitting.                             *)
THEOREM CurrentReflects == Spec => []CurrentReflectsState
<1>1. Init => CurrentReflectsState
  BY DEF Init, CurrentReflectsState, snapshot, stale, FromStatus, newState
<1>2. TypeOK /\ CurrentReflectsState /\ [Next]_vars => CurrentReflectsState'
  <2>. SUFFICES ASSUME TypeOK, CurrentReflectsState, [Next]_vars
                PROVE  CurrentReflectsState'
    OBVIOUS
  <2>1. CASE Emits
    <3>1. current' = snapshot(st', now) /\ lastStale' = stale(st', now)
      BY <2>1 DEF Emits, emit, snapshot, FromStatus
    <3>. QED  BY <3>1 DEF CurrentReflectsState, snapshot
  <2>2. CASE Quiet
    BY <2>2 DEF Quiet, CurrentReflectsState
  <2>. QED  BY <2>1, <2>2, EmitsOrQuiet
<1>. QED  BY <1>1, <1>2, TypeCorrect, PTL DEF Spec

(* Latest-wins hand-off to the daemon: the unread snapshot is the current one,
   and a daemon with nothing unread has seen the current one.                *)
THEOREM NewestDelivered == Spec => []SnapshotNewest
<1>1. Init => SnapshotNewest
  BY DEF Init, SnapshotNewest
<1>2. TypeOK /\ SnapshotNewest /\ [Next]_vars => SnapshotNewest'
  <2>. SUFFICES ASSUME TypeOK, SnapshotNewest, [Next]_vars PROVE SnapshotNewest'
    OBVIOUS
  <2>1. CASE Emits
    <3>1. current' \in Snapshot /\ snapshots' = current'
      BY <2>1, EmitType DEF Emits, TypeOK
    <3>2. snapshots' # None
      BY <3>1, MonitorAssumption
    <3>. QED  BY <3>1, <3>2 DEF SnapshotNewest
  <2>2. CASE Quiet
    <3>1. CASE TakeSnapshot
      BY <2>2, <3>1 DEF Quiet, TakeSnapshot, SnapshotNewest
    <3>2. CASE UNCHANGED <<snapshots, shown>>
      BY <2>2, <3>2 DEF Quiet, SnapshotNewest
    <3>. QED  BY <2>2, <3>1, <3>2 DEF Quiet
  <2>. QED  BY <2>1, <2>2, EmitsOrQuiet
<1>. QED  BY <1>1, <1>2, TypeCorrect, PTL DEF Spec

\* A step keeps the beacon's time, or sets it to the present.
LEMMA BeaconTime ==
    ASSUME TypeOK, [Next]_vars
    PROVE  \/ st'.lastBeacon = now
           \/ st'.lastBeacon = st.lastBeacon /\ st'.haveStatus = st.haveStatus
<1>1. CASE RecvUpdate
  BY <1>1 DEF RecvUpdate, onStatus
<1>2. CASE ~RecvUpdate
  BY <1>2 DEF Next, Run, Env, RecvConn, RecvTick, RecvClosed, RecvDone, ScannerStatus,
     ScannerConn, ScannerStop, TakeSnapshot, TakeNote, Close, Clock, ConnChanged,
     ConnRepeated, vars, coreVars, setConnected, State, TypeOK
<1>. QED  BY <1>1, <1>2

-----------------------------------------------------------------------------
(* What makes StalenessHonest inductive: the ticker is never behind, the figures
   were still fresh at its last firing once that tick has been handled, and
   fresh figures are never flagged stale.                                      *)
TickInv ==
    /\ nextTick - PollInterval <= now /\ now < nextTick
    /\ st.lastBeacon <= now
    /\ running /\ ~tick /\ ~lastStale
          => nextTick - PollInterval - st.lastBeacon <= StaleAfter
    /\ st.haveStatus /\ now - st.lastBeacon <= StaleAfter => ~lastStale

LEMMA TickInvariant == Spec => []TickInv
<1>1. Init => TickInv
  BY MonitorAssumption DEF Init, TickInv, newState, Never
<1>2. TypeOK /\ TickInv /\ [Next]_vars => TickInv'
  <2>. SUFFICES ASSUME TypeOK, TickInv, [Next]_vars PROVE TickInv'
    OBVIOUS
  <2>0. /\ now \in Int /\ now' \in Int /\ nextTick \in Int /\ nextTick' \in Int
        /\ PollInterval \in Nat \ {0} /\ StaleAfter \in Nat
        /\ st \in State /\ st.lastBeacon \in Int
    <3>1. TypeOK'
      BY TypeOKStep
    <3>. QED  BY <3>1, MonitorAssumption DEF TypeOK, State, Times, Never
  <2>1. CASE Clock
    <3>1. UNCHANGED <<st, lastStale, running>> /\ now' = now + 1
      BY <2>1 DEF Clock, coreVars
    <3>2. CASE now' = nextTick
      <4>1. tick' /\ nextTick' = nextTick + PollInterval
        BY <2>1, <3>2 DEF Clock
      <4>. QED  BY <2>0, <3>1, <3>2, <4>1 DEF TickInv
    <3>3. CASE now' # nextTick
      <4>1. UNCHANGED <<tick, nextTick>>
        BY <2>1, <3>3 DEF Clock
      <4>. QED  BY <2>0, <3>1, <3>3, <4>1 DEF TickInv
    <3>. QED  BY <3>2, <3>3
  <2>2. CASE ~Clock
    <3>1. UNCHANGED <<now, nextTick>> /\ (tick' = tick \/ RecvTick)
            /\ (running' => running)
      BY <2>2 DEF Next, Run, Env, RecvUpdate, RecvConn, RecvTick, RecvClosed,
         RecvDone, ScannerStatus, ScannerConn, ScannerStop, TakeSnapshot, TakeNote,
         Close, vars, clockVars
    <3>2. st'.lastBeacon = st.lastBeacon \/ st'.lastBeacon = now
      BY BeaconTime
    <3>3. CASE Emits
      <4>1. (lastStale' <=> stale(st', now)) /\ st' \in State
        BY <2>0, <3>3, EmitType DEF Emits
      <4>2. st'.lastBeacon \in Int
        BY <4>1 DEF State, Times
      <4>3. ~lastStale' => st'.haveStatus /\ now - st'.lastBeacon <= StaleAfter
        BY <2>0, <4>1, <4>2 DEF stale
      <4>4. st'.haveStatus /\ now - st'.lastBeacon <= StaleAfter => ~lastStale'
        BY <2>0, <4>1, <4>2 DEF stale
      <4>5. st'.lastBeacon <= now
        BY <2>0, <3>2 DEF TickInv
      <4>. HIDE <4>1, <3>3
      <4>. QED  BY <2>0, <3>1, <4>2, <4>3, <4>4, <4>5 DEF TickInv
    <3>4. CASE Quiet
      <4>1. CASE RecvTick
        <5>1. lastStale <=> stale(st, now)
          <6>1. CASE stale(st, now) # lastStale
            <7>1. emit(st)
              BY <4>1, <6>1 DEF RecvTick
            <7>2. lastStale' = stale(st, now)
              BY <7>1 DEF emit, snapshot, FromStatus
            <7>. QED  BY <3>4, <6>1, <7>2 DEF Quiet
          <6>. QED  BY <6>1
        <5>2. ~lastStale => now - st.lastBeacon <= StaleAfter
          BY <2>0, <5>1 DEF stale
        <5>. QED  BY <2>0, <3>1, <3>4, <5>2 DEF TickInv, Quiet
      <4>2. CASE ~RecvTick
        BY <2>0, <3>1, <3>4, <4>2 DEF TickInv, Quiet
      <4>. QED  BY <4>1, <4>2
    <3>. QED  BY <3>3, <3>4, EmitsOrQuiet
  <2>. QED  BY <2>1, <2>2
<1>. QED  BY <1>1, <1>2, TypeCorrect, PTL DEF Spec

(* Fresh figures are never hidden; figures on display are younger than the
   freshness window plus one poll period once the pending tick is handled.   *)
THEOREM HonestStaleness == Spec => []StalenessHonest
<1>1. TypeOK /\ TickInv /\ CurrentReflectsState => StalenessHonest
  <2>. SUFFICES ASSUME TypeOK, TickInv, CurrentReflectsState PROVE StalenessHonest
    OBVIOUS
  <2>1. current.stale = lastStale
    BY DEF CurrentReflectsState, FromStatus
  <2>2. /\ now \in Int /\ nextTick \in Int /\ PollInterval \in Int
        /\ StaleAfter \in Int /\ st.lastBeacon \in Int
    BY MonitorAssumption DEF TypeOK, State, Times
  <2>. QED  BY <2>1, <2>2 DEF StalenessHonest, TickInv
<1>. QED  BY <1>1, TypeCorrect, TickInvariant, CurrentReflects, PTL

-----------------------------------------------------------------------------
LEMMA ReturnStep ==
    ASSUME TypeOK, TickInv, CurrentReflectsState, CurrentReflectsState', [Next]_vars,
           current.stale, ~current'.stale
    PROVE  updates # None /\ st'.lastBeacon = now
<1>1. lastStale /\ ~lastStale'
  BY DEF CurrentReflectsState, FromStatus
<1>2. CASE RecvUpdate
  BY <1>2 DEF RecvUpdate, onStatus
<1>3. CASE ~RecvUpdate
  <2>1. Emits
    BY <1>1, EmitsOrQuiet DEF Quiet
  <2>2. st'.haveStatus = st.haveStatus /\ st'.lastBeacon = st.lastBeacon
    BY <1>3 DEF Next, Run, Env, RecvConn, RecvTick, RecvClosed, RecvDone, ScannerStatus,
       ScannerConn, ScannerStop, TakeSnapshot, TakeNote, Close, Clock, ConnChanged,
       ConnRepeated, vars, coreVars, setConnected, State, TypeOK
  <2>3. lastStale' <=> stale(st', now)
    BY <2>1, EmitType DEF Emits, TypeOK
  <2>4. now \in Int /\ StaleAfter \in Int /\ st.lastBeacon \in Int
    BY MonitorAssumption DEF TypeOK, State, Times
  <2>5. st.haveStatus /\ now - st.lastBeacon <= StaleAfter
    BY <1>1, <2>2, <2>3, <2>4 DEF stale
  <2>. QED  BY <1>1, <2>5 DEF TickInv
<1>. QED  BY <1>2, <1>3

(* Hidden figures come back only in the step that receives a beacon: neither a
   tick nor a reconnect un-hides them, because both re-evaluate a staleness that
   TickInv keeps honest.                                                       *)
THEOREM ReturnOnlyWithBeacon == Spec => FiguresReturnOnlyWithBeacon
<1>1. TypeOK /\ TickInv /\ CurrentReflectsState /\ CurrentReflectsState' /\ [Next]_vars
        => [current.stale /\ ~current'.stale => updates # None /\ st'.lastBeacon = now]_vars
  BY ReturnStep
<1>. QED
  BY <1>1, TypeCorrect, TickInvariant, CurrentReflects, PTL
     DEF Spec, FiguresReturnOnlyWithBeacon

-----------------------------------------------------------------------------
(* From one published snapshot to the next: time does not go back, and hidden
   figures come back only with a newer beacon.                                 *)
Forward(a, b) ==
    /\ a.updated <= b.updated
    /\ a.stale /\ ~b.stale => a.updated < b.updated

NothingHeard == ~st.haveStatus => st.lastBeacon = Never

LEMMA NothingHeardInvariant == Spec => []NothingHeard
<1>1. Init => NothingHeard
  BY DEF Init, NothingHeard, newState
<1>2. NothingHeard /\ TypeOK /\ [Next]_vars => NothingHeard'
  <2>. SUFFICES ASSUME NothingHeard, TypeOK, [Next]_vars PROVE NothingHeard'
    OBVIOUS
  <2>1. CASE RecvUpdate
    BY <2>1 DEF RecvUpdate, onStatus, NothingHeard
  <2>2. CASE ~RecvUpdate
    <3>1. st'.haveStatus = st.haveStatus /\ st'.lastBeacon = st.lastBeacon
      BY <2>2 DEF Next, Run, Env, RecvConn, RecvTick, RecvClosed, RecvDone, ScannerStatus,
         ScannerConn, ScannerStop, TakeSnapshot, TakeNote, Close, Clock, ConnChanged,
         ConnRepeated, vars, coreVars, setConnected, State, TypeOK
    <3>. QED  BY <3>1 DEF NothingHeard
  <2>. QED  BY <2>1, <2>2
<1>. QED  BY <1>1, <1>2, TypeCorrect, PTL DEF Spec

LEMMA CurrentForward ==
    ASSUME TypeOK, TickInv, NothingHeard, CurrentReflectsState, CurrentReflectsState',
           [Next]_vars
    PROVE  Forward(current, current')
<1>1. /\ now \in Int /\ 0 <= now /\ StaleAfter \in Nat /\ st.lastBeacon \in Int
  BY MonitorAssumption DEF TypeOK, State, Times
<1>2. /\ current.updated = st.lastBeacon /\ current'.updated = st'.lastBeacon
      /\ current.stale = lastStale
  BY DEF CurrentReflectsState, FromStatus
<1>3. st.lastBeacon <= now
  BY DEF TickInv
<1>4. current.updated <= current'.updated
  BY <1>1, <1>2, <1>3, BeaconTime
<1>5. ASSUME current.stale, ~current'.stale
      PROVE  current.updated < current'.updated
  <2>1. st'.lastBeacon = now
    BY <1>5, ReturnStep
  <2>2. CASE st.haveStatus
    <3>1. now - st.lastBeacon > StaleAfter
      BY <1>1, <1>2, <1>5, <2>2 DEF TickInv
    <3>. QED  BY <1>1, <1>2, <2>1, <3>1
  <2>3. CASE ~st.haveStatus
    <3>1. st.lastBeacon = -1
      BY <2>3 DEF NothingHeard, Never
    <3>. QED  BY <1>1, <1>2, <2>1, <3>1
  <2>. QED  BY <2>2, <2>3
<1>. QED  BY <1>4, <1>5 DEF Forward

-----------------------------------------------------------------------------
(* How many snapshots the monitor can still push without a further input: the
   unread one, one when fresh figures go stale, two for an unread beacon (it is
   shown, and it goes stale), one for an unread link edge.                     *)
one(b) == IF b THEN 1 ELSE 0
pending == one(snapshots # None) + one(~lastStale) + 2 * one(updates # None) + one(conns # None)

LEMMA PendingInput ==
    ASSUME ScannerStatus \/ ScannerConn
    PROVE  pending' <= pending + 2
<1>1. UNCHANGED <<snapshots, lastStale>>
  BY DEF ScannerStatus, ScannerConn, coreVars
<1>2. UNCHANGED conns \/ UNCHANGED updates
  BY DEF ScannerStatus, ScannerConn
<1>. QED  BY <1>1, <1>2 DEF pending, one

LEMMA PendingTake ==
    ASSUME TakeSnapshot
    PROVE  pending' + 1 = pending
<1>1. snapshots # None /\ snapshots' = None /\ UNCHANGED <<lastStale, updates, conns>>
  BY DEF TakeSnapshot, scannerVars
<1>. QED  BY <1>1 DEF pending, one

LEMMA PendingRun ==
    ASSUME TypeOK, TickInv,
           Run \/ ScannerStop \/ TakeNote \/ Close \/ Clock \/ UNCHANGED vars
    PROVE  pending' <= pending
<1>0. lastStale \in BOOLEAN /\ (lastStale => stale(st, now))
  <2>1. now \in Int /\ st.lastBeacon \in Int /\ StaleAfter \in Int
    BY MonitorAssumption DEF TypeOK, State, Times
  <2>. QED  BY <2>1 DEF TypeOK, TickInv, stale
<1>1. CASE RecvUpdate
  <2>1. updates # None /\ updates' = None /\ conns' = conns
    BY <1>1 DEF RecvUpdate
  <2>. QED  BY <2>1 DEF pending, one
<1>2. CASE RecvConn
  <2>1. conns # None /\ conns' = None /\ updates' = updates
    BY <1>2 DEF RecvConn
  <2>2. CASE ConnChanged(conns)
    <3>1. stale(st', now) = stale(st, now)
      BY <2>2 DEF ConnChanged, setConnected, stale, TypeOK, State
    <3>2. lastStale' = stale(st', now)
      BY <2>2 DEF ConnChanged, emit, snapshot, FromStatus
    <3>3. lastStale => lastStale'
      BY <1>0, <3>1, <3>2
    <3>. QED  BY <2>1, <3>3 DEF pending, one
  <2>3. CASE ConnRepeated(conns)
    BY <2>1, <2>3 DEF ConnRepeated, coreVars, pending, one
  <2>. QED  BY <1>2, <2>2, <2>3 DEF RecvConn
<1>3. CASE RecvTick
  <2>1. UNCHANGED <<updates, conns>>
    BY <1>3 DEF RecvTick, scannerVars
  <2>2. CASE stale(st, now) # lastStale
    <3>1. lastStale' = stale(st, now)
      BY <1>3, <2>2 DEF RecvTick, emit, snapshot, FromStatus
    <3>2. ~lastStale /\ lastStale'
      BY <1>0, <2>2, <3>1 DEF stale
    <3>. QED  BY <2>1, <3>2 DEF pending, one
  <2>3. CASE ~(stale(st, now) # lastStale)
    BY <1>3, <2>1, <2>3 DEF RecvTick, pending, one
  <2>. QED  BY <2>2, <2>3
<1>4. CASE RecvClosed \/ RecvDone \/ ScannerStop \/ TakeNote \/ Close \/ Clock
           \/ UNCHANGED vars
  <2>1. UNCHANGED <<snapshots, lastStale, updates, conns>>
    BY <1>4 DEF RecvClosed, RecvDone, ScannerStop, TakeNote, Close, Clock, scannerVars,
       coreVars, vars
  <2>. QED  BY <2>1 DEF pending, one
<1>. QED  BY <1>1, <1>2, <1>3, <1>4 DEF Run

(* However the scanner's latest-wins channel collapses link edges, the monitor
   holds the scanner's aggregate flag as soon as it has nothing left to read.  *)
THEOREM LinkConverges == Spec => []ConnConverges
<1>1. Init => ConnConverges
  <2>. SUFFICES ASSUME Init PROVE ConnConverges
    OBVIOUS
  <2>1. conns = None /\ st.connected = FALSE /\ aggregate = FALSE
    BY DEF Init, newState
  <2>. QED  BY <2>1 DEF ConnConverges
<1>2. TypeOK /\ ConnConverges /\ [Next]_vars => ConnConverges'
  <2>. SUFFICES ASSUME TypeOK, ConnConverges, [Next]_vars PROVE ConnConverges'
    OBVIOUS
  <2>. USE DEF ConnConverges
  <2>1. CASE RecvConn
    <3>1. conns # None /\ conns' = None /\ aggregate' = aggregate
      BY <2>1 DEF RecvConn
    <3>2. st'.connected = conns
      BY <2>1 DEF RecvConn, ConnChanged, ConnRepeated, setConnected, coreVars, TypeOK, State
    <3>. QED  BY <3>1, <3>2
  <2>2. CASE ScannerConn
    BY <2>2, MonitorAssumption DEF ScannerConn, TypeOK
  <2>3. CASE ~RecvConn /\ ~ScannerConn
    <3>1. UNCHANGED <<conns, aggregate>>
      BY <2>3 DEF Next, Run, Env, RecvUpdate, RecvTick, RecvClosed, RecvDone, ScannerStatus,
         ScannerStop, TakeSnapshot, TakeNote, Close, Clock, vars, scannerVars
    <3>2. st'.connected = st.connected
      BY <2>3 DEF Next, Run, Env, RecvUpdate, RecvTick, RecvClosed, RecvDone, ScannerStatus,
         ScannerStop, TakeSnapshot, TakeNote, Close, Clock, vars, coreVars, onStatus
    <3>. QED  BY <3>1, <3>2
  <2>. QED  BY <2>1, <2>2, <2>3
<1>. QED  BY <1>1, <1>2, TypeCorrect, PTL DEF Spec

-----------------------------------------------------------------------------
(* What a step does to the notification queue. *)
Notifies ==
    /\ conns \in BOOLEAN /\ conns # st.connected /\ st'.connected = conns
    /\ current'.connected = conns /\ lastNote' = lastNote
    /\ notify([kind |-> kindOf(conns), snapshot |-> current'])

LEMMA NotifiesOrNot ==
    ASSUME TypeOK, [Next]_vars
    PROVE  \/ Notifies
           \/ TakeNote /\ UNCHANGED <<st, dropped>>
           \/ UNCHANGED <<notes, lastNote, dropped>> /\ st'.connected = st.connected
<1>1. CASE RecvConn
  <2>1. CASE ConnChanged(conns)
    <3>1. conns \in BOOLEAN /\ lastNote' = lastNote
      BY <1>1 DEF RecvConn, TypeOK, daemonVars
    <3>2. st'.connected = conns
      BY <2>1 DEF ConnChanged, setConnected, TypeOK, State
    <3>3. current'.connected = conns
      BY <2>1, <3>2 DEF ConnChanged, emit, snapshot, FromStatus
    <3>. QED  BY <2>1, <3>1, <3>2, <3>3 DEF ConnChanged, Notifies
  <2>. QED  BY <1>1, <2>1 DEF RecvConn, ConnRepeated, coreVars, daemonVars
<1>2. CASE TakeNote
  BY <1>2 DEF TakeNote
<1>3. CASE ~RecvConn /\ ~TakeNote
  BY <1>3 DEF Next, Run, Env, RecvUpdate, RecvTick, RecvClosed, RecvDone, ScannerStatus,
     ScannerConn, ScannerStop, TakeSnapshot, Close, Clock, vars, coreVars, daemonVars,
     onStatus
<1>. QED  BY <1>1, <1>2, <1>3

(* Each queued notification carries a snapshot taken after its own edge. *)
THEOREM NotesCarry == Spec => []NotesCarryTheirEdge
<1>1. Init => NotesCarryTheirEdge
  BY DEF Init, NotesCarryTheirEdge
<1>2. TypeOK /\ NotesCarryTheirEdge /\ [Next]_vars => NotesCarryTheirEdge'
  <2>. SUFFICES ASSUME TypeOK, NotesCarryTheirEdge, [Next]_vars
                PROVE  NotesCarryTheirEdge'
    OBVIOUS
  <2>. USE DEF NotesCarryTheirEdge
  <2>0. notes \in Seq(Notification)
    BY DEF TypeOK
  <2>1. CASE Notifies
    <3>1. CASE Len(notes) < NotesCap
      <4>1. notes' = Append(notes, [kind |-> kindOf(conns), snapshot |-> current'])
        BY <2>1, <3>1 DEF Notifies, notify
      <4>2. isConnect(kindOf(conns)) <=> current'.connected
        BY <2>1 DEF Notifies, isConnect, kindOf
      <4>. QED  BY <2>0, <4>1, <4>2
    <3>2. CASE ~(Len(notes) < NotesCap)
      BY <2>1, <3>2 DEF Notifies, notify
    <3>. QED  BY <3>1, <3>2
  <2>2. CASE TakeNote
    BY <2>0, <2>2 DEF TakeNote
  <2>3. CASE UNCHANGED notes
    BY <2>3
  <2>. QED  BY <2>1, <2>2, <2>3, NotifiesOrNot
<1>. QED  BY <1>1, <1>2, TypeCorrect, PTL DEF Spec

LEMMA TailElements ==
    ASSUME NEW S, NEW q \in Seq(S), q # <<>>
    PROVE  /\ Len(q) \in Nat \ {0} /\ Len(Tail(q)) = Len(q) - 1
           /\ \A i \in 1 .. Len(q) - 1 : Tail(q)[i] = q[i + 1]
           /\ Tail(q) = <<>> <=> Len(q) = 1
<1>1. Len(q) \in Nat \ {0}
  BY EmptySeq
<1>2. /\ Tail(q) \in Seq(S) /\ Len(Tail(q)) = Len(q) - 1
      /\ \A i \in 1 .. Len(Tail(q)) : Tail(q)[i] = q[i + 1]
  BY HeadTailProperties
<1>3. Tail(q) = <<>> <=> Len(Tail(q)) = 0
  BY <1>2, EmptySeq
<1>. QED  BY <1>1, <1>2, <1>3

(* As long as none was dropped, connects and disconnects alternate and the
   newest notification tells the monitor's connection flag.                  *)
THEOREM NotesInOrder == Spec => []NotesAlternate
<1>1. Init => NotesAlternate
  BY MonitorAssumption
     DEF Init, NotesAlternate, newestKind, isConnect, kindOf, newState, Kind
<1>2. TypeOK /\ NotesAlternate /\ [Next]_vars => NotesAlternate'
  <2>. SUFFICES ASSUME TypeOK, NotesAlternate, [Next]_vars, ~dropped'
                PROVE  NotesAlternate'
    BY DEF NotesAlternate
  <2>0. notes \in Seq(Notification)
    BY DEF TypeOK
  <2>1. CASE Notifies
    <3>. DEFINE n == [kind |-> kindOf(conns), snapshot |-> current']
    <3>1. notes' = Append(notes, n) /\ ~dropped
      BY <2>1 DEF Notifies, notify
    <3>2. isConnect(n.kind) <=> ~isConnect(newestKind)
      BY <2>1, <3>1 DEF Notifies, NotesAlternate, isConnect, kindOf, TypeOK, State
    <3>3. isConnect(newestKind') <=> st'.connected
      BY <2>0, <2>1, <3>1 DEF Notifies, newestKind, isConnect, kindOf
    <3>4. isConnect(notes'[1].kind) <=> ~isConnect(lastNote')
      BY <2>0, <2>1, <3>1, <3>2 DEF Notifies, NotesAlternate, newestKind
    <3>5. \A i \in 2 .. Len(notes') :
             isConnect(notes'[i].kind) <=> ~isConnect(notes'[i - 1].kind)
      BY <2>0, <3>1, <3>2 DEF NotesAlternate, newestKind
    <3>. HIDE DEF n
    <3>. QED  BY <3>3, <3>4, <3>5 DEF NotesAlternate, isConnect
  <2>2. CASE TakeNote /\ UNCHANGED <<st, dropped>>
    <3>1. lastNote' = notes[1].kind /\ notes' = Tail(notes) /\ notes # <<>>
      BY <2>0, <2>2 DEF TakeNote
    <3>2. newestKind' = newestKind
      <4>1. CASE Len(notes) = 1
        BY <2>0, <3>1, <4>1 DEF newestKind
      <4>2. CASE Len(notes) > 1
        <5>1. notes' # <<>> /\ Len(notes') = Len(notes) - 1
          BY <2>0, <3>1, <4>2, TailElements
        <5>2. notes'[Len(notes')] = notes[Len(notes)]
          BY <2>0, <3>1, <4>2, <5>1, TailElements
        <5>. QED  BY <3>1, <5>1, <5>2 DEF newestKind
      <4>. QED  BY <2>0, <3>1, <4>1, <4>2, TailElements
    <3>3. notes' # <<>> => (isConnect(notes'[1].kind) <=> ~isConnect(lastNote'))
      BY <2>0, <2>2, <3>1 DEF NotesAlternate
    <3>4. \A i \in 2 .. Len(notes') :
             isConnect(notes'[i].kind) <=> ~isConnect(notes'[i - 1].kind)
      BY <2>0, <2>2, <3>1 DEF NotesAlternate
    <3>. QED  BY <2>2, <3>2, <3>3, <3>4 DEF NotesAlternate, isConnect
  <2>3. CASE UNCHANGED <<notes, lastNote, dropped>> /\ st'.connected = st.connected
    BY <2>3 DEF NotesAlternate, newestKind, isConnect
  <2>. QED  BY <2>1, <2>2, <2>3, NotifiesOrNot
<1>. QED  BY <1>1, <1>2, TypeCorrect, PTL DEF Spec
=============================================================================
