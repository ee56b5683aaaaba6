--------------------------- MODULE PipelineProofs ---------------------------
(* Machine-checked proofs about the daemon's data path: that the monitor is an
   environment module Scanner allows, and that link edges arrive end to end, for
   any number of headsets and devices, any windows and any queue capacity; and
   that the channels between its parts, written as one assignment there, are
   what two non-blocking selects implement (module Emit).                      *)
EXTENDS Pipeline, TLAPS

\* The components' theorems, under the pipeline's state.
ScP == INSTANCE ScannerProofs WITH seenConn <- st.connected
MP  == INSTANCE MonitorProofs WITH Statuses <- Status

LEMMA ScannerConstants ==
    /\ PodsAddr \cap OtherAddr = {} /\ RSSIs \subseteq Int /\ MinRSSI \in Int
    /\ Window \in Nat /\ MaxRecent \in Nat /\ MaxTime \in Nat
    /\ None \notin ScP!Status \cup BOOLEAN
BY PipelineAssumption DEF Status, ScP!Status

LEMMA MonitorConstants ==
    /\ None \notin Status \cup BOOLEAN \cup MP!Snapshot \cup MP!Kind
    /\ StaleAfter \in Nat /\ PollInterval \in Nat \ {0} /\ NotesCap \in Nat \ {0}
    /\ MaxTime \in Nat
BY PipelineAssumption DEF M!Snapshot, MP!Snapshot, M!Kind, MP!Kind, M!Times, MP!Times,
   M!Never, MP!Never

\* The part of the monitor's and the scanner's state a link edge passes through.
FlagType ==
    /\ st \in [status : {st.status}, haveStatus : {st.haveStatus},
               connected : BOOLEAN, lastBeacon : {st.lastBeacon}]
    /\ aggregate \in BOOLEAN
    /\ conns \in BOOLEAN \cup {None}

\* The scanner's flag is the truth, what is unread or was read last is the flag,
\* and what was read last is published.
PathInv ==
    /\ FlagType
    /\ aggregate <=> connected # {}
    /\ conns # None => conns = aggregate
    /\ conns = None => st.connected = aggregate
    /\ current.connected = st.connected

LEMMA NoneIsNoFlag == None \notin BOOLEAN
BY PipelineAssumption

LEMMA PathInvInit == Init => PathInv
<1>. SUFFICES ASSUME Init PROVE PathInv
  OBVIOUS
<1>1. st = [status |-> None, haveStatus |-> FALSE, connected |-> FALSE, lastBeacon |-> M!Never]
  BY DEF Init, M!Init, M!newState
<1>2. current.connected = FALSE
  BY DEF Init, M!Init, M!snapshot, M!newState, M!FromStatus
<1>3. aggregate = FALSE /\ conns = None /\ connected = {}
  BY DEF Init, M!Init, Sc!Init
<1>. QED  BY <1>1, <1>2, <1>3 DEF PathInv, FlagType

-----------------------------------------------------------------------------
(* What the monitor's cases do to st and current. *)

LEMMA EmitPublishes ==
    ASSUME NEW s, M!emit(s)
    PROVE  current'.connected = s.connected
BY DEF M!emit, M!snapshot, M!FromStatus

LEMMA ConnReads ==
    ASSUME PathInv, M!RecvConn
    PROVE  /\ st' \in [status : {st'.status}, haveStatus : {st'.haveStatus},
                       connected : BOOLEAN, lastBeacon : {st'.lastBeacon}]
           /\ st'.connected = conns /\ current'.connected = conns
           /\ conns # None /\ conns' = None /\ UNCHANGED aggregate
<1>1. conns \in BOOLEAN /\ conns # None /\ conns' = None /\ UNCHANGED aggregate
  BY DEF PathInv, FlagType, M!RecvConn
<1>2. CASE M!ConnChanged(conns)
  <2>1. st' = [st EXCEPT !.connected = conns] /\ M!emit(st')
    BY <1>2 DEF M!ConnChanged, M!setConnected
  <2>2. /\ st'.connected = conns
        /\ st' \in [status : {st'.status}, haveStatus : {st'.haveStatus},
                    connected : BOOLEAN, lastBeacon : {st'.lastBeacon}]
    BY <1>1, <2>1 DEF PathInv, FlagType
  <2>. QED  BY <1>1, <2>1, <2>2, EmitPublishes
<1>3. CASE M!ConnRepeated(conns)
  BY <1>1, <1>3 DEF M!ConnRepeated, M!coreVars, PathInv, FlagType
<1>. QED  BY <1>2, <1>3 DEF M!RecvConn

LEMMA UpdateKeepsLink ==
    ASSUME PathInv, M!RecvUpdate
    PROVE  /\ st' \in [status : {st'.status}, haveStatus : {st'.haveStatus},
                       connected : BOOLEAN, lastBeacon : {st'.lastBeacon}]
           /\ st'.connected = st.connected /\ current'.connected = st.connected
<1>1. st' = [status |-> updates, haveStatus |-> TRUE, connected |-> st.connected,
             lastBeacon |-> now] /\ M!emit(st')
  BY DEF M!RecvUpdate, M!onStatus
<1>2. st'.connected = st.connected /\ current'.connected = st.connected
  BY <1>1, EmitPublishes
<1>. QED  BY <1>1, <1>2 DEF PathInv, FlagType

LEMMA TickKeepsLink ==
    ASSUME PathInv, M!RecvTick
    PROVE  UNCHANGED st /\ current'.connected = st.connected
<1>1. UNCHANGED st
  BY DEF M!RecvTick
<1>2. M!emit(st) \/ UNCHANGED current
  BY DEF M!RecvTick
<1>. QED  BY <1>1, <1>2, EmitPublishes DEF PathInv

-----------------------------------------------------------------------------
(* Every step is a step of module Scanner, or leaves its state alone. *)

LEMMA ScannerRefines ==
    ASSUME PathInv, [Next]_vars
    PROVE  [Sc!Next]_Sc!vars
<1>. USE DEF Sc!Next, Sc!Run, Sc!Env
<1>1. CASE ScannerStep
  BY <1>1 DEF ScannerStep, ScannerBeacon, ScannerLink, ScannerEnds
<1>2. CASE MonitorUpdate
  <2>1. updates # None /\ updates' = None
        /\ UNCHANGED <<recent, connected, aggregate, conns, scannerOpen, scDone, srcOpen, now>>
    BY <1>2 DEF MonitorUpdate, M!RecvUpdate, M!clockVars, scannerOwn
  <2>2. st'.connected = st.connected
    BY <1>2, UpdateKeepsLink DEF MonitorUpdate
  <2>3. Sc!TakeUpdate
    BY <2>1, <2>2 DEF Sc!TakeUpdate
  <2>. QED  BY <2>3
<1>3. CASE MonitorConn
  <2>1. conns # None /\ st'.connected = conns /\ conns' = None
    BY <1>3, ConnReads DEF MonitorConn
  <2>2. UNCHANGED <<recent, connected, aggregate, updates, scannerOpen, scDone, srcOpen, now>>
    BY <1>3 DEF MonitorConn, M!RecvConn, M!clockVars, scannerOwn
  <2>3. Sc!TakeConn
    BY <2>1, <2>2 DEF Sc!TakeConn
  <2>. QED  BY <2>3
<1>4. CASE MonitorTick \/ MonitorEnds \/ DaemonStep \/ CloseMonitor \/ UNCHANGED vars
  BY <1>4 DEF MonitorTick, MonitorEnds, DaemonStep, DaemonSnapshot, DaemonNote,
     CloseMonitor, M!RecvTick, M!RecvClosed, M!RecvDone, M!TakeSnapshot, M!TakeNote,
     M!Close, M!scannerVars, M!coreVars, M!clockVars, scannerOwn, monitorOwn, vars, Sc!vars
<1>5. CASE CloseScanner \/ CloseSource \/ SourceFails
  BY <1>5 DEF CloseScanner, CloseSource, SourceFails
<1>6. CASE Clock
  <2>1. Sc!Clock
    BY <1>6 DEF Clock, M!Clock, M!scannerVars, M!coreVars, scannerOwn, Sc!Clock
  <2>. QED  BY <2>1
<1>. QED
  BY <1>1, <1>2, <1>3, <1>4, <1>5, <1>6 DEF Next, MonitorStep, CloseStep

-----------------------------------------------------------------------------
LEMMA PathInvStep == PathInv /\ [Next]_vars => PathInv'
<1>. SUFFICES ASSUME PathInv, [Next]_vars
              PROVE  PathInv'
  OBVIOUS
<1>. USE NoneIsNoFlag
<1>1. CASE ScannerLink
  <2>1. UNCHANGED <<st, current>>
    BY <1>1 DEF ScannerLink, monitorOwn
  <2>2. PICK l \in Links, c \in BOOLEAN :
            /\ aggregate' = Sc!anyLink(connected', c)
            /\ IF aggregate' # aggregate THEN Sc!emitConn(aggregate') ELSE UNCHANGED conns
    BY <1>1 DEF ScannerLink, Sc!RecvConn
  <2>3. aggregate' \in BOOLEAN /\ (aggregate' <=> connected' # {})
    BY <2>2 DEF Sc!anyLink
  <2>4. CASE aggregate' # aggregate
    <3>1. conns' = aggregate'
      BY <2>2, <2>4 DEF Sc!emitConn
    <3>. QED  BY <2>1, <2>3, <3>1 DEF PathInv, FlagType
  <2>5. CASE aggregate' = aggregate
    <3>1. conns' = conns
      BY <2>2, <2>5
    <3>. QED  BY <2>1, <2>3, <2>5, <3>1 DEF PathInv, FlagType
  <2>. QED  BY <2>4, <2>5
<1>2. CASE MonitorUpdate
  <2>1. UNCHANGED <<connected, aggregate, conns>>
    BY <1>2 DEF MonitorUpdate, M!RecvUpdate, scannerOwn
  <2>. QED  BY <1>2, <2>1, UpdateKeepsLink DEF MonitorUpdate, PathInv, FlagType
<1>3. CASE MonitorConn
  <2>1. UNCHANGED connected
    BY <1>3 DEF MonitorConn, scannerOwn
  <2>. QED  BY <1>3, <2>1, ConnReads DEF MonitorConn, PathInv, FlagType
<1>4. CASE MonitorTick
  <2>1. UNCHANGED <<connected, aggregate, conns>>
    BY <1>4 DEF MonitorTick, M!RecvTick, M!scannerVars, scannerOwn
  <2>. QED  BY <1>4, <2>1, TickKeepsLink DEF MonitorTick, PathInv, FlagType
<1>5. CASE UNCHANGED <<st, current, connected, aggregate, conns>>
  BY <1>5 DEF PathInv, FlagType
<1>6. CASE ScannerBeacon \/ ScannerEnds \/ MonitorEnds \/ DaemonStep \/ CloseStep
           \/ Clock \/ UNCHANGED vars
  <2>. USE DEF scannerOwn, monitorOwn, M!scannerVars, M!coreVars
  <2>1. CASE ScannerBeacon \/ ScannerEnds
    BY <1>5, <2>1 DEF ScannerBeacon, ScannerEnds, Sc!RecvBeacon, Sc!RecvClosed, Sc!RecvDone
  <2>2. CASE MonitorEnds \/ DaemonStep
    BY <1>5, <2>2 DEF MonitorEnds, DaemonStep, DaemonSnapshot, DaemonNote, M!RecvClosed,
       M!RecvDone, M!TakeSnapshot, M!TakeNote
  <2>3. CASE CloseStep
    BY <1>5, <2>3 DEF CloseStep, CloseMonitor, CloseScanner, CloseSource, SourceFails,
       M!Close, Sc!Close, Sc!SourceStop
  <2>4. CASE Clock
    BY <1>5, <2>4 DEF Clock, M!Clock
  <2>5. CASE UNCHANGED vars
    BY <1>5, <2>5 DEF vars
  <2>. QED  BY <1>6, <2>1, <2>2, <2>3, <2>4, <2>5
<1>. QED
  BY <1>1, <1>2, <1>3, <1>4, <1>6 DEF Next, ScannerStep, MonitorStep

(* Once the monitor has read the last flag, the published snapshot says connected
   exactly if some paired AirPods is, however many headsets there are and however
   their edges collapsed (scanner.run and Monitor.run).                        *)
THEOREM LinkArrives == Spec => []LinkIsTrue
<1>1. PathInv => LinkIsTrue
  BY DEF PathInv, FlagType, LinkIsTrue
<1>. QED  BY <1>1, PathInvInit, PathInvStep, PTL DEF Spec

(* The pipeline implements module Scanner: the monitor and the daemon's close
   sequence do nothing to the scanner that its own environment may not do.     *)
THEOREM ScannerImplemented == Spec => ImplementsScanner
<1>1. Init => Sc!Init
  BY DEF Init
<1>2. PathInv /\ [Next]_vars => [Sc!Next]_Sc!vars
  BY ScannerRefines
<1>. QED  BY <1>1, <1>2, PathInvInit, PathInvStep, PTL DEF Spec, Sc!Spec, ImplementsScanner

-----------------------------------------------------------------------------
(* What is proved of module Scanner holds of the pipeline. *)

LEMMA SameScannerStep == [Sc!Next]_Sc!vars => [ScP!Next]_ScP!vars
<1>1. Sc!RecvBeacon => ScP!RecvBeacon
  BY DEF Sc!RecvBeacon, ScP!RecvBeacon, Sc!Addr, ScP!Addr, Sc!prune, ScP!prune,
     Sc!passes, ScP!passes, Sc!chosen, ScP!chosen, Sc!strongest, ScP!strongest,
     Sc!decodes, ScP!decodes, Sc!decode, ScP!decode
<1>2. Sc!RecvConn => ScP!RecvConn
  BY DEF Sc!RecvConn, ScP!RecvConn, Sc!anyLink, ScP!anyLink, Sc!emitConn, ScP!emitConn
<1>3. Sc!RecvClosed \/ Sc!RecvDone => ScP!RecvClosed \/ ScP!RecvDone
  BY DEF Sc!RecvClosed, ScP!RecvClosed, Sc!RecvDone, ScP!RecvDone
<1>4. Sc!Env => ScP!Env
  BY DEF Sc!Env, ScP!Env, Sc!SourceStop, ScP!SourceStop, Sc!Close, ScP!Close,
     Sc!TakeUpdate, ScP!TakeUpdate, Sc!TakeConn, ScP!TakeConn, Sc!Clock, ScP!Clock
<1>. QED
  BY <1>1, <1>2, <1>3, <1>4 DEF Sc!Next, ScP!Next, Sc!Run, ScP!Run, Sc!vars, ScP!vars

LEMMA ScannerTheorems == Spec => [](ScP!TypeOK /\ ScP!SelectorInv)
<1>1. Sc!Init => ScP!Init
  BY DEF Sc!Init, ScP!Init
<1>. QED
  BY <1>1, SameScannerStep, ScannerImplemented, ScannerConstants, ScP!TypeCorrect,
     ScP!SelectorInvariant, PTL DEF ImplementsScanner, Sc!Spec, ScP!Spec

\* What the scanner does when a beacon arrives, the monitor's state unchanged.
LEMMA BeaconPublishes ==
    ASSUME ScP!SelectorInv, ScannerBeacon
    PROVE  \/ UNCHANGED updates
           \/ updates' \in Status /\ now - updates'.cap \in 0 .. Window
<1>1. ScP!RecvBeacon
  BY DEF ScannerBeacon, Sc!RecvBeacon, ScP!RecvBeacon, Sc!Addr, ScP!Addr, Sc!prune, ScP!prune,
     Sc!passes, ScP!passes, Sc!chosen, ScP!chosen, Sc!strongest, ScP!strongest,
     Sc!decodes, ScP!decodes, Sc!decode, ScP!decode
<1>2. PICK b \in ScP!Beacon :
          /\ ScP!Selected(recent', b)
          /\ updates' = IF ScP!passes(recent', b) /\ ScP!decodes(ScP!chosen(recent', b))
                        THEN ScP!decode(ScP!chosen(recent', b)) ELSE updates
  BY <1>1, ScannerConstants, ScP!BeaconArrives
<1>3. PICK i \in 1 .. Len(recent') :
          ScP!chosen(recent', b) = recent'[i] /\ recent'[i] \in ScP!Beacon
  BY <1>2, ScannerConstants, ScP!ChosenFacts
<1>4. ASSUME updates' # updates
      PROVE  updates' \in Status /\ now - updates'.cap \in 0 .. Window
  <2>1. updates' = ScP!decode(recent'[i]) /\ ScP!decodes(recent'[i])
    BY <1>2, <1>3, <1>4
  <2>2. updates' \in ScP!Status /\ updates'.cap = recent'[i].time
    BY <1>3, <2>1, ScannerConstants, ScP!DecodeType
  <2>3. recent'[i].time <= now /\ now - recent'[i].time <= Window
    BY <1>2 DEF ScP!Selected
  <2>4. recent'[i].time \in Int /\ now \in Int /\ Window \in Nat
    BY <1>3, ScannerConstants, ScP!BeaconFields DEF ScP!SelectorInv
  <2>. QED  BY <2>2, <2>3, <2>4 DEF Status, ScP!Status
<1>. QED  BY <1>4

-----------------------------------------------------------------------------
(* Every step is a step of module Monitor, or leaves its state alone. *)

LEMMA MonitorRefines ==
    ASSUME PathInv, ScP!SelectorInv, [Next]_vars
    PROVE  [M!Next]_M!vars
<1>. USE DEF M!Next, M!Run, M!Env
<1>1. CASE ScannerBeacon
  <2>1. /\ scannerOpen
        /\ UNCHANGED <<conns, scannerOpen, aggregate, now, monitorOwn>>
    BY <1>1 DEF ScannerBeacon, Sc!RecvBeacon
  <2>2. CASE UNCHANGED updates
    BY <2>1, <2>2 DEF M!vars, M!scannerVars, M!coreVars, M!clockVars, M!daemonVars, monitorOwn
  <2>3. CASE updates' \in Status
    <3>1. M!ScannerStatus
      BY <2>1, <2>3 DEF M!ScannerStatus, M!coreVars, M!clockVars, M!daemonVars, monitorOwn
    <3>. QED  BY <3>1
  <2>. QED  BY <1>1, <2>2, <2>3, BeaconPublishes
<1>2. CASE ScannerLink
  <2>1. /\ scannerOpen
        /\ UNCHANGED <<updates, scannerOpen, now, monitorOwn>>
    BY <1>2 DEF ScannerLink, Sc!RecvConn
  <2>2. /\ aggregate \in BOOLEAN /\ aggregate' \in BOOLEAN
        /\ IF aggregate' # aggregate THEN conns' = aggregate' ELSE UNCHANGED conns
    BY <1>2 DEF ScannerLink, Sc!RecvConn, Sc!anyLink, Sc!emitConn, PathInv, FlagType
  <2>3. CASE aggregate' = aggregate
    BY <2>1, <2>2, <2>3 DEF M!vars, M!scannerVars, M!coreVars, M!clockVars, M!daemonVars,
       monitorOwn
  <2>4. CASE aggregate' # aggregate
    <3>1. aggregate' = ~aggregate /\ conns' = aggregate'
      BY <2>2, <2>4
    <3>2. M!ScannerConn
      BY <2>1, <3>1 DEF M!ScannerConn, M!coreVars, M!clockVars, M!daemonVars, monitorOwn
    <3>. QED  BY <3>2
  <2>. QED  BY <2>3, <2>4
<1>3. CASE ScannerEnds
  <2>1. M!ScannerStop
    BY <1>3 DEF ScannerEnds, Sc!RecvClosed, Sc!RecvDone, M!ScannerStop, M!coreVars,
       M!clockVars, M!daemonVars, monitorOwn
  <2>. QED  BY <2>1
<1>4. CASE MonitorStep \/ DaemonStep \/ CloseMonitor \/ Clock
  BY <1>4 DEF MonitorStep, MonitorUpdate, MonitorConn, MonitorTick, MonitorEnds, DaemonStep,
     DaemonSnapshot, DaemonNote, CloseMonitor, Clock
<1>5. CASE CloseScanner \/ CloseSource \/ SourceFails \/ UNCHANGED vars
  BY <1>5 DEF CloseScanner, CloseSource, SourceFails, Sc!Close, Sc!SourceStop, vars,
     monitorOwn, scannerOwn, M!vars, M!scannerVars, M!coreVars, M!clockVars, M!daemonVars
<1>. QED
  BY <1>1, <1>2, <1>3, <1>4, <1>5 DEF Next, ScannerStep, CloseStep

(* The pipeline implements module Monitor: real scanners feed the monitor only
   what its environment was allowed to.                                        *)
THEOREM MonitorImplemented == Spec => ImplementsMonitor
<1>1. Init => M!Init
  BY DEF Init
<1>2. PathInv /\ ScP!SelectorInv /\ [Next]_vars => [M!Next]_M!vars
  BY MonitorRefines
<1>. QED
  BY <1>1, <1>2, PathInvInit, PathInvStep, ScannerTheorems, PTL
     DEF Spec, M!Spec, ImplementsMonitor

-----------------------------------------------------------------------------
(* What is proved of module Monitor holds of the pipeline. *)

LEMMA SameMonitorStep == [M!Next]_M!vars => [MP!Next]_MP!vars
<1>. USE DEF M!coreVars, MP!coreVars, M!clockVars, MP!clockVars, M!daemonVars, MP!daemonVars,
     M!scannerVars, MP!scannerVars
<1>1. ASSUME NEW s PROVE /\ M!emit(s) => MP!emit(s)
                         /\ M!stale(s, now) = MP!stale(s, now)
  BY DEF M!emit, MP!emit, M!pushLatest, MP!pushLatest, M!snapshot, MP!snapshot,
     M!FromStatus, MP!FromStatus, M!stale, MP!stale
<1>2. M!RecvUpdate => MP!RecvUpdate
  BY <1>1 DEF M!RecvUpdate, MP!RecvUpdate, M!onStatus, MP!onStatus
<1>3. M!RecvConn => MP!RecvConn
  BY <1>1 DEF M!RecvConn, MP!RecvConn, M!ConnChanged, MP!ConnChanged, M!ConnRepeated,
     MP!ConnRepeated, M!notify, MP!notify, M!setConnected, MP!setConnected, M!kindOf, MP!kindOf
<1>4. M!RecvTick => MP!RecvTick
  BY <1>1 DEF M!RecvTick, MP!RecvTick
<1>5. M!RecvClosed \/ M!RecvDone => MP!RecvClosed \/ MP!RecvDone
  BY DEF M!RecvClosed, MP!RecvClosed, M!RecvDone, MP!RecvDone
<1>6. M!Env => MP!Env
  BY DEF M!Env, MP!Env, M!ScannerStatus, MP!ScannerStatus, M!ScannerConn, MP!ScannerConn,
     M!ScannerStop, MP!ScannerStop, M!TakeSnapshot, MP!TakeSnapshot, M!TakeNote,
     MP!TakeNote, M!Close, MP!Close, M!Clock, MP!Clock
<1>. QED
  BY <1>2, <1>3, <1>4, <1>5, <1>6 DEF M!Next, MP!Next, M!Run, MP!Run, M!vars, MP!vars

LEMMA MonitorTheorems ==
    Spec => []( /\ MP!TypeOK /\ MP!CurrentReflectsState /\ MP!StalenessHonest)
<1>1. M!Init => MP!Init
  BY DEF M!Init, MP!Init, M!newState, MP!newState, M!snapshot, MP!snapshot,
     M!FromStatus, MP!FromStatus, M!stale, MP!stale, M!Never, MP!Never
<1>. QED
  BY <1>1, SameMonitorStep, MonitorImplemented, MonitorConstants, MP!TypeCorrect,
     MP!CurrentReflects, MP!HonestStaleness, PTL DEF ImplementsMonitor, M!Spec, MP!Spec

-----------------------------------------------------------------------------
(* A reading is at most Window old when it is published; with prompt goroutines
   the monitor stamps it in the same instant.                                 *)
AgeInv ==
    /\ ~lastStale => st.haveStatus
    /\ Prompt =>
          /\ updates # None => now - updates.cap \in 0 .. Window
          /\ st.haveStatus => st.status # None /\ st.lastBeacon - st.status.cap \in 0 .. Window

LEMMA AgeInvStep ==
    ASSUME AgeInv, MP!TypeOK, ScP!SelectorInv, [Next]_vars
    PROVE  AgeInv'
<1>0. now \in Int /\ None \notin Status
  BY MonitorConstants DEF MP!TypeOK
<1>1. CASE ScannerBeacon
  <2>1. UNCHANGED <<st, lastStale, now>>
    BY <1>1 DEF ScannerBeacon, Sc!RecvBeacon, monitorOwn
  <2>. QED  BY <1>0, <1>1, <2>1, BeaconPublishes DEF AgeInv
<1>2. CASE MonitorUpdate
  <2>1. /\ updates # None /\ updates' = None /\ UNCHANGED now
        /\ st' = [status |-> updates, haveStatus |-> TRUE, connected |-> st.connected,
                  lastBeacon |-> now]
    BY <1>2 DEF MonitorUpdate, M!RecvUpdate, M!onStatus, M!clockVars
  <2>. QED  BY <2>1 DEF AgeInv
<1>3. CASE MonitorConn
  <2>1. UNCHANGED <<updates, now>>
    BY <1>3 DEF MonitorConn, M!RecvConn, M!clockVars
  <2>2. CASE M!ConnChanged(conns)
    <3>1. st' = [st EXCEPT !.connected = conns] /\ lastStale' = M!stale(st', now)
      BY <2>2 DEF M!ConnChanged, M!setConnected, M!emit, M!snapshot, M!FromStatus
    <3>2. /\ st'.status = st.status /\ st'.haveStatus = st.haveStatus
          /\ st'.lastBeacon = st.lastBeacon
      BY <3>1 DEF MP!TypeOK, MP!State
    <3>3. ~lastStale' => st'.haveStatus
      BY <3>1 DEF M!stale
    <3>. QED  BY <2>1, <3>2, <3>3 DEF AgeInv
  <2>3. CASE M!ConnRepeated(conns)
    BY <2>1, <2>3 DEF M!ConnRepeated, M!coreVars, AgeInv
  <2>. QED  BY <1>3, <2>2, <2>3 DEF MonitorConn, M!RecvConn
<1>4. CASE MonitorTick
  <2>1. UNCHANGED <<st, updates, now>>
    BY <1>4 DEF MonitorTick, M!RecvTick, M!scannerVars
  <2>2. lastStale' = M!stale(st, now) \/ UNCHANGED lastStale
    BY <1>4 DEF MonitorTick, M!RecvTick, M!emit, M!snapshot, M!FromStatus
  <2>. QED  BY <2>1, <2>2 DEF AgeInv, M!stale
<1>5. CASE Clock
  <2>1. UNCHANGED <<st, lastStale, updates>> /\ (Prompt => updates = None)
    BY <1>5 DEF Clock, Drained, M!Clock, M!coreVars, M!scannerVars
  <2>. QED  BY <2>1 DEF AgeInv
<1>6. CASE UNCHANGED <<st, lastStale, updates, now>>
  BY <1>6 DEF AgeInv
<1>7. CASE ScannerLink \/ ScannerEnds \/ MonitorEnds \/ DaemonStep
  BY <1>6, <1>7 DEF ScannerLink, ScannerEnds, MonitorEnds, DaemonStep, DaemonSnapshot,
     DaemonNote, Sc!RecvConn, Sc!RecvClosed, Sc!RecvDone, M!RecvClosed, M!RecvDone,
     M!TakeSnapshot, M!TakeNote, M!coreVars, M!clockVars, M!scannerVars, monitorOwn
<1>8. CASE CloseStep \/ UNCHANGED vars
  BY <1>6, <1>8 DEF CloseStep, CloseMonitor, CloseScanner, CloseSource, SourceFails,
     M!Close, Sc!Close, Sc!SourceStop, M!coreVars, M!clockVars, M!scannerVars,
     monitorOwn, vars
<1>. QED
  BY <1>1, <1>2, <1>3, <1>4, <1>5, <1>7, <1>8 DEF Next, ScannerStep, MonitorStep

(* End to end, figures on display were captured less than Window + StaleAfter +
   PollInterval ago, for every window, period and mixture of devices, as long as
   goroutines are prompt (selector.best and Monitor.run).                      *)
THEOREM AgeBounded == Spec => []FiguresAgeBound
<1>1. Init => AgeInv
  <2>. SUFFICES ASSUME Init PROVE AgeInv
    OBVIOUS
  <2>1. lastStale = TRUE /\ updates = None /\ st.haveStatus = FALSE
    BY DEF Init, M!Init, M!newState
  <2>. QED  BY <2>1 DEF AgeInv
<1>2. AgeInv /\ MP!TypeOK /\ MP!CurrentReflectsState /\ MP!StalenessHonest => FiguresAgeBound
  <2>. SUFFICES ASSUME AgeInv, MP!TypeOK, MP!CurrentReflectsState, MP!StalenessHonest,
                       Prompt, running, ~tick, ~current.stale
                PROVE  now - current.figures.cap < Window + StaleAfter + PollInterval
    BY DEF FiguresAgeBound
  <2>1. current.stale = lastStale /\ current.figures = st.status
    BY DEF MP!CurrentReflectsState, MP!FromStatus
  <2>2. st.lastBeacon - st.status.cap \in 0 .. Window
    BY <2>1 DEF AgeInv
  <2>3. now - st.lastBeacon < StaleAfter + PollInterval
    BY DEF MP!StalenessHonest
  <2>4. st.status \in Status
    BY <2>1 DEF AgeInv, MP!TypeOK, MP!State
  <2>5. /\ st.status.cap \in Int /\ st.lastBeacon \in Int /\ now \in Int
        /\ Window \in Int /\ StaleAfter \in Int /\ PollInterval \in Int
    BY <2>4, PipelineAssumption DEF Status, MP!TypeOK, MP!State, MP!Times, MP!Never
  <2>. QED  BY <2>1, <2>2, <2>3, <2>5
<1>3. AgeInv /\ MP!TypeOK /\ ScP!SelectorInv /\ [Next]_vars => AgeInv'
  BY AgeInvStep
<1>. QED
  BY <1>1, <1>2, <1>3, ScannerTheorems, MonitorTheorems, PTL DEF Spec

-----------------------------------------------------------------------------
(* One of the latest-wins channels, for any number of sends. *)
CONSTANT MaxSent
VARIABLES calls, ch, at, got

E == INSTANCE Emit WITH sent <- calls, pc <- at

LEMMA EmitTypes ==
    ASSUME MaxSent \in Nat
    PROVE  E!Spec => []E!TypeOK
<1>. USE DEF E!TypeOK
<1>1. E!Init => E!TypeOK
  BY DEF E!Init
<1>2. E!TypeOK /\ [E!Next]_E!vars => E!TypeOK'
  BY DEF E!Next, E!vars, E!Call, E!Drain, E!Send, E!Receive
<1>. QED  BY <1>1, <1>2, PTL DEF E!Spec

(* Between the selects the buffer is empty, so the send always succeeds. *)
THEOREM NeverDrops == E!Spec => []E!SendNeverDrops
<1>1. E!Init => E!SendNeverDrops
  BY DEF E!Init, E!SendNeverDrops
<1>2. E!SendNeverDrops /\ [E!Next]_E!vars => E!SendNeverDrops'
  BY DEF E!SendNeverDrops, E!Next, E!vars, E!Call, E!Drain, E!Send, E!Receive
<1>. QED  BY <1>1, <1>2, PTL DEF E!Spec

(* Draining is the abstract Put, receiving the abstract Take; calling and
   sending are stutters.                                                     *)
THEOREM Refinement ==
    ASSUME MaxSent \in Nat
    PROVE  E!Spec => E!Implements
<1>1. E!Init => E!LW!Init
  BY DEF E!Init, E!LW!Init, E!sentBar, E!slotBar
<1>2. E!TypeOK /\ E!SendNeverDrops /\ [E!Next]_E!vars => [E!LW!Next]_E!LW!vars
  <2>. SUFFICES ASSUME E!TypeOK, E!SendNeverDrops, [E!Next]_E!vars
                PROVE  E!LW!Next \/ UNCHANGED E!LW!vars
    BY DEF E!LW!vars
  <2>. USE DEF E!TypeOK, E!SendNeverDrops, E!sentBar, E!slotBar
  <2>1. CASE E!Call
    BY <2>1 DEF E!Call, E!LW!vars
  <2>2. CASE E!Drain
    <3>1. E!LW!Put
      BY <2>2 DEF E!Drain, E!LW!Put
    <3>. QED  BY <3>1 DEF E!LW!Next
  <2>3. CASE E!Send
    BY <2>3 DEF E!Send, E!LW!vars
  <2>4. CASE E!Receive
    <3>1. E!LW!Take
      BY <2>4 DEF E!Receive, E!LW!Take
    <3>. QED  BY <3>1 DEF E!LW!Next
  <2>5. CASE UNCHANGED E!vars
    BY <2>5 DEF E!vars, E!LW!vars
  <2>. QED  BY <2>1, <2>2, <2>3, <2>4, <2>5 DEF E!Next
<1>. QED
  BY <1>1, <1>2, EmitTypes, NeverDrops, PTL DEF E!Spec, E!LW!Spec, E!Implements
=============================================================================
