----------------------------- MODULE DaemonProofs -----------------------------
(* Machine-checked proofs about the daemon's data path, from the scanner's two
   channels to a client's screen, for any number of clients, any socket size, any
   windows and any number of inputs.  What is proved of modules Monitor and Server
   holds of the daemon, because each of its steps is a step of theirs; the rest is
   about run (cmd/openpodsd/main.go), which ties the two together.             *)
EXTENDS Daemon, SequenceTheorems, TLAPS

\* The components' theorems, under the daemon's state.
MP == INSTANCE MonitorProofs
SP == INSTANCE ServerProofs WITH current <- srvCurrent

LEMMA MonitorConstants ==
    /\ None \notin Statuses \cup BOOLEAN \cup MP!Snapshot \cup MP!Kind
    /\ StaleAfter \in Nat /\ PollInterval \in Nat \ {0} /\ NotesCap \in Nat \ {0}
    /\ MaxTime \in Nat
BY DaemonAssumption DEF M!Snapshot, MP!Snapshot, M!Kind, MP!Kind, M!Times, MP!Times,
   M!Never, MP!Never

LEMMA ServerConstants ==
    /\ Readers \subseteq Clients /\ SockCap \in Nat \ {0} /\ MaxSnap \in Nat
    /\ AcceptFails \in BOOLEAN
BY DaemonAssumption

-----------------------------------------------------------------------------
(* Every step is a step of module Monitor and a step of module Server, or leaves
   their state alone.                                                          *)

LEMMA SameMonitorRun == M!Run => MP!Run
<1>. USE DEF M!coreVars, MP!coreVars, M!clockVars, MP!clockVars, M!daemonVars, MP!daemonVars,
     M!scannerVars, MP!scannerVars
<1>1. ASSUME NEW s PROVE /\ M!emit(s) => MP!emit(s)
                         /\ M!stale(s, now) = MP!stale(s, now)
  BY DEF M!emit, MP!emit, M!pushLatest, MP!pushLatest, M!snapshot, MP!snapshot,
     M!FromStatus, MP!FromStatus, M!stale, MP!stale
<1>2. M!RecvUpdate => MP!RecvUpdate
  BY <1>1 DEF M!RecvUpdate, MP!RecvUpdate, M!onStatus, MP!onStatus
<1>3. M!RecvConn => MP!RecvConn
  BY <1>1 DEF M!RecvConn, MP!RecvConn, M!ConnChanged, MP!ConnChanged, M!ConnRepeated,
     MP!ConnRepeated, M!notify, MP!notify, M!setConnected, MP!setConnected, M!kindOf, MP!kindOf
<1>4. M!RecvTick => MP!RecvTick
  BY <1>1 DEF M!RecvTick, MP!RecvTick
<1>5. M!RecvClosed \/ M!RecvDone => MP!RecvClosed \/ MP!RecvDone
  BY DEF M!RecvClosed, MP!RecvClosed, M!RecvDone, MP!RecvDone
<1>. QED  BY <1>2, <1>3, <1>4, <1>5 DEF M!Run, MP!Run

LEMMA SameMonitorEnv ==
    /\ (M!ScannerStatus => MP!ScannerStatus) /\ (M!ScannerConn => MP!ScannerConn)
    /\ (M!ScannerStop => MP!ScannerStop) /\ (M!TakeSnapshot => MP!TakeSnapshot)
    /\ (M!TakeNote => MP!TakeNote) /\ (M!Close => MP!Close) /\ (M!Clock => MP!Clock)
    /\ (UNCHANGED monitorVars => UNCHANGED MP!vars)
BY DEF M!ScannerStatus, MP!ScannerStatus, M!ScannerConn, MP!ScannerConn, M!ScannerStop,
   MP!ScannerStop, M!TakeSnapshot, MP!TakeSnapshot, M!TakeNote, MP!TakeNote, M!Close,
   MP!Close, M!Clock, MP!Clock, monitorVars, MP!vars, M!coreVars, MP!coreVars, M!clockVars,
   MP!clockVars, M!daemonVars, MP!daemonVars, M!scannerVars, MP!scannerVars

\* What the daemon's steps are to the monitor.
MonitorIdles == MP!Run \/ MP!ScannerStop \/ MP!TakeNote \/ MP!Close \/ MP!Clock \/ UNCHANGED MP!vars

LEMMA MonitorSteps ==
    ASSUME [Next]_vars
    PROVE  \/ ScannerInput /\ (MP!ScannerStatus \/ MP!ScannerConn)
           \/ RecvSnapshot /\ MP!TakeSnapshot
           \/ ~ScannerInput /\ ~RecvSnapshot /\ MonitorIdles
<1>1. CASE ScannerInput \/ RecvSnapshot
  BY <1>1, SameMonitorEnv DEF RecvSnapshot, ScannerInput
<1>2. CASE ~ScannerInput /\ ~RecvSnapshot
  <2>. USE DEF MonitorIdles
  <2>1. CASE NewServer \/ NewServerFails \/ RecvCtx \/ Broadcast \/ RecvClosed \/ CloseServer
             \/ Return \/ NotifyReturns \/ NotesEnd \/ ServerRuns \/ ClientRuns \/ Signal
             \/ UNCHANGED vars
    <3>1. UNCHANGED monitorVars
      BY <2>1 DEF NewServer, NewServerFails, RecvCtx, Broadcast, RecvClosed, CloseServer,
         Return, NotifyReturns, NotesEnd, ServerRuns, ClientRuns, Signal, vars
    <3>. QED  BY <1>2, <3>1, SameMonitorEnv
  <2>2. CASE CloseMonitor \/ ForwardNote \/ Clock \/ ScannerStop
    <3>1. MonitorIdles
      BY <2>2, SameMonitorEnv DEF CloseMonitor, ForwardNote, Clock, ScannerStop
    <3>. QED  BY <1>2, <3>1
  <2>3. CASE MonitorRuns
    BY <1>2, <2>3, SameMonitorRun DEF MonitorRuns, M!Run
  <2>. QED  BY <1>2, <2>1, <2>2, <2>3 DEF Next, Run, Notifier
<1>. QED  BY <1>1, <1>2

LEMMA MonitorRefined == [Next]_vars => [MP!Next]_MP!vars
BY MonitorSteps DEF MonitorIdles, MP!Next, MP!Env

LEMMA SameServerStep ==
    /\ (S!AcceptError => SP!AcceptError) /\ (S!Broadcast => SP!Broadcast)
    /\ (S!Close => SP!Close)
    /\ \A c \in Clients : /\ S!Accept(c) => SP!Accept(c)
                          /\ S!Add(c) => SP!Add(c)
                          /\ S!Serve(c) => SP!Serve(c)
                          /\ S!Dial(c) \/ S!Read(c) \/ S!HangUp(c) => SP!Peer(c)
    /\ (UNCHANGED serverVars => UNCHANGED SP!vars)
<1>. USE DEF S!Goto, SP!Goto, S!serverVars, SP!serverVars, S!connVars, SP!connVars,
     S!listening, SP!listening, S!done, SP!done
<1>1. /\ (S!AcceptError => SP!AcceptError) /\ (S!Broadcast => SP!Broadcast)
      /\ (UNCHANGED serverVars => UNCHANGED SP!vars)
  BY DEF S!AcceptError, SP!AcceptError, S!Broadcast, SP!Broadcast, S!pushLatestSnap,
     SP!pushLatestSnap, serverVars, SP!vars
<1>2. S!Close => SP!Close
  BY DEF S!Close, SP!Close, S!CloseDone, SP!CloseDone, S!CloseListener, SP!CloseListener,
     S!CloseConns, SP!CloseConns, S!CloseReturn, SP!CloseReturn, S!allDone, SP!allDone,
     S!Serving, SP!Serving
<1>3. ASSUME NEW c \in Clients
      PROVE  /\ S!Accept(c) => SP!Accept(c)
             /\ S!Add(c) => SP!Add(c)
             /\ S!Serve(c) => SP!Serve(c)
             /\ S!Dial(c) \/ S!Read(c) \/ S!HangUp(c) => SP!Peer(c)
  <2>1. (S!Accept(c) => SP!Accept(c)) /\ (S!Add(c) => SP!Add(c))
    BY DEF S!Accept, SP!Accept, S!Add, SP!Add, S!Register, SP!Register, S!StartServe,
       SP!StartServe
  <2>2. S!Serve(c) => SP!Serve(c)
    BY DEF S!Serve, SP!Serve, S!ServeTake, SP!ServeTake, S!ServeDone, SP!ServeDone, S!Write,
       SP!Write, S!WriteLine, SP!WriteLine, S!WriteFails, SP!WriteFails, S!Defers, SP!Defers,
       S!CloseConn, SP!CloseConn, S!Remove, SP!Remove
  <2>3. S!Dial(c) \/ S!Read(c) \/ S!HangUp(c) => SP!Peer(c)
    BY DEF SP!Peer, S!Dial, SP!Dial, S!Read, SP!Read, S!HangUp, SP!HangUp
  <2>. QED  BY <2>1, <2>2, <2>3
<1>. QED  BY <1>1, <1>2, <1>3

LEMMA ServerRefined == [Next]_vars => [SP!Next]_SP!vars
<1>. SUFFICES ASSUME [Next]_vars PROVE [SP!Next]_SP!vars
  OBVIOUS
<1>1. CASE NewServer \/ NewServerFails \/ RecvCtx \/ RecvSnapshot \/ RecvClosed \/ CloseMonitor
           \/ Return \/ MonitorRuns \/ Notifier \/ Clock \/ ScannerInput \/ ScannerStop
           \/ Signal \/ UNCHANGED vars
  <2>1. UNCHANGED serverVars
    BY <1>1 DEF NewServer, NewServerFails, RecvCtx, RecvSnapshot, RecvClosed, CloseMonitor,
       Return, MonitorRuns, Notifier, ForwardNote, NotifyReturns, NotesEnd, Clock, ScannerInput,
       ScannerStop, Signal, vars
  <2>. QED  BY <2>1, SameServerStep
<1>2. CASE Broadcast \/ CloseServer
  BY <1>2, SameServerStep DEF Broadcast, CloseServer, SP!Next
<1>3. CASE ServerRuns
  <2>1. S!AcceptError \/ \E c \in Clients : S!Accept(c) \/ S!Add(c) \/ S!Serve(c)
    BY <1>3 DEF ServerRuns
  <2>. QED  BY <2>1, SameServerStep DEF SP!Next
<1>4. CASE ClientRuns
  <2>1. \E c \in Clients : S!Dial(c) \/ S!Read(c) \/ S!HangUp(c)
    BY <1>4 DEF ClientRuns
  <2>. QED  BY <2>1, SameServerStep DEF SP!Next
<1>. QED  BY <1>1, <1>2, <1>3, <1>4 DEF Next, Run

\* What is proved of the components holds of the daemon.
MonitorFacts ==
    /\ MP!TypeOK /\ MP!TickInv /\ MP!NothingHeard /\ MP!CurrentReflectsState
    /\ MP!SnapshotNewest /\ MP!StalenessHonest

ServerFacts == SP!TypeOK /\ SP!Life /\ SP!Stream /\ SP!Newest /\ SP!NothingLeft

LEMMA MonitorHolds == Spec => []MonitorFacts
<1>1. Init => MP!Init
  BY DEF Init, M!Init, MP!Init, M!newState, MP!newState, M!snapshot, MP!snapshot,
     M!FromStatus, MP!FromStatus, M!stale, MP!stale, M!Never, MP!Never
<1>2. Spec => MP!Spec
  BY <1>1, MonitorRefined, PTL DEF Spec, MP!Spec
<1>. QED
  BY <1>2, MonitorConstants, MP!TypeCorrect, MP!TickInvariant, MP!NothingHeardInvariant,
     MP!CurrentReflects, MP!NewestDelivered, MP!HonestStaleness, PTL DEF MonitorFacts

LEMMA ServerHolds == Spec => []ServerFacts
<1>1. Init => SP!Init
  BY DEF Init, S!Init, SP!Init
<1>2. Spec => SP!Spec
  BY <1>1, ServerRefined, PTL DEF Spec, SP!Spec
<1>. QED
  BY <1>2, ServerConstants, SP!TypeCorrect, SP!LifeInvariant, SP!StreamInvariant,
     SP!NewestInvariant, SP!CloseLeavesNothing, PTL DEF ServerFacts

-----------------------------------------------------------------------------
(* Where run is, what it has created and closed, and that what it broadcast last
   is what it took last.                                                       *)

\* Without a server there is no connection.
NoServer ==
    /\ clients = {} /\ \A c \in Clients : pc[c] = "out" /\ ~connOpen[c]

Ordered ==
    /\ main \in Main /\ created \in BOOLEAN /\ inputs \in Nat /\ inputs <= MaxInputs
    /\ main \in {"start", "select", "broadcast"} => closer = "no"
    /\ main = "start" => ~created
    /\ main \in {"select", "broadcast", "srvClose"} => created
    /\ main \in {"monClose", "monWait", "exited"} /\ created => closer = "returned"
    /\ ~created => NoServer
    /\ main = "exited" => ~scannerOpen /\ ~running

Pumped ==
    /\ sent \in Seq(MP!Snapshot) /\ Len(sent) = srvCurrent
    /\ IF main = "broadcast" THEN shown \in MP!Snapshot
       ELSE IF srvCurrent = 0 THEN shown = None ELSE shown = sent[srvCurrent]

MainInv == Ordered /\ Pumped

LEMMA OrderedStep ==
    ASSUME Ordered, [Next]_vars
    PROVE  Ordered'
<1>. USE DEF Ordered, Main, NoServer, monitorVars, serverVars, mainVars
<1>1. CASE NewServer \/ NewServerFails \/ RecvCtx \/ RecvClosed \/ Return \/ Signal
  <2>1. CASE NewServer
    BY <2>1 DEF NewServer
  <2>2. CASE NewServerFails
    BY <2>2 DEF NewServerFails
  <2>3. CASE RecvCtx
    BY <2>3 DEF RecvCtx
  <2>4. CASE RecvClosed
    BY <2>4 DEF RecvClosed
  <2>5. CASE Return
    BY <2>5 DEF Return
  <2>6. CASE Signal
    BY <2>6 DEF Signal
  <2>. QED  BY <1>1, <2>1, <2>2, <2>3, <2>4, <2>5, <2>6
<1>2. CASE RecvSnapshot
  BY <1>2 DEF RecvSnapshot, M!TakeSnapshot
<1>3. CASE Broadcast
  BY <1>3 DEF Broadcast, S!Broadcast
<1>4. CASE CloseServer
  <2>1. main = "srvClose" /\ created /\ created' = created /\ inputs' = inputs
        /\ main' = IF closer' = "returned" THEN "monClose" ELSE "srvClose"
    BY <1>4 DEF CloseServer
  <2>. QED  BY <2>1
<1>5. CASE CloseMonitor
  BY <1>5 DEF CloseMonitor, M!Close
<1>6. CASE MonitorRuns
  <2>1. running /\ UNCHANGED <<serverVars, main, created, inputs>>
    BY <1>6 DEF MonitorRuns, M!RecvUpdate, M!RecvConn, M!RecvTick, M!RecvClosed, M!RecvDone
  <2>. QED  BY <2>1
<1>7. CASE Notifier \/ Clock \/ ScannerInput \/ ScannerStop
  <2>. USE DaemonAssumption
  <2>1. /\ UNCHANGED <<serverVars, main, created, running>>
        /\ inputs' \in Nat /\ inputs' <= MaxInputs
        /\ scannerOpen' = scannerOpen \/ scannerOpen' = FALSE
    BY <1>7 DEF Notifier, ForwardNote, NotifyReturns, NotesEnd, Clock, ScannerInput, ScannerStop, M!TakeNote, M!Clock,
       M!ScannerStatus, M!ScannerConn, M!ScannerStop, M!scannerVars
  <2>. QED  BY <2>1
<1>8. CASE ServerRuns
  <2>1. /\ created /\ closer' = closer
        /\ UNCHANGED <<main, created, inputs, scannerOpen, running>>
    BY <1>8 DEF ServerRuns, S!AcceptError, S!Accept, S!Add, S!Register, S!StartServe, S!Serve,
       S!ServeTake, S!ServeDone, S!Write, S!WriteLine, S!WriteFails, S!Defers, S!CloseConn,
       S!Remove, S!serverVars, S!connVars
  <2>. QED  BY <2>1
<1>9. CASE ClientRuns
  <2>1. /\ closer' = closer /\ UNCHANGED <<main, created, inputs, scannerOpen, running>>
        /\ created \/ UNCHANGED <<clients, pc, connOpen>>
    BY <1>9 DEF ClientRuns, S!Dial, S!Read, S!HangUp, S!serverVars
  <2>. QED  BY <2>1
<1>10. CASE UNCHANGED vars
  BY <1>10 DEF vars
<1>. QED  BY <1>1, <1>2, <1>3, <1>4, <1>5, <1>6, <1>7, <1>8, <1>9, <1>10 DEF Next, Run

LEMMA PumpedStep ==
    ASSUME Pumped, MonitorFacts, ServerFacts, [Next]_vars
    PROVE  Pumped'
<1>. USE DEF Pumped, Main
<1>0. srvCurrent \in Nat /\ None \notin MP!Snapshot
  BY MonitorConstants DEF ServerFacts, SP!TypeOK, SP!Snap
<1>1. CASE RecvSnapshot
  <2>1. /\ main' = "broadcast" /\ shown' = snapshots /\ snapshots # None
        /\ sent' = sent /\ srvCurrent' = srvCurrent
    BY <1>1 DEF RecvSnapshot, M!TakeSnapshot, serverVars
  <2>2. snapshots \in MP!Snapshot
    BY <2>1 DEF MonitorFacts, MP!TypeOK
  <2>. QED  BY <2>1, <2>2
<1>2. CASE Broadcast
  <2>1. /\ main = "broadcast" /\ main' = "select" /\ srvCurrent' = srvCurrent + 1
        /\ sent' = Append(sent, shown) /\ shown' = shown
    BY <1>2 DEF Broadcast, S!Broadcast, monitorVars
  <2>2. /\ sent' \in Seq(MP!Snapshot) /\ Len(sent') = srvCurrent + 1
        /\ sent'[srvCurrent + 1] = shown
    BY <2>1
  <2>. QED  BY <1>0, <2>1, <2>2
<1>3. CASE ~RecvSnapshot /\ ~Broadcast
  <2>1. UNCHANGED sent /\ (main' = "broadcast" <=> main = "broadcast")
    BY <1>3 DEF Next, Run, NewServer, NewServerFails, RecvCtx, RecvClosed, CloseServer,
       CloseMonitor, Return, MonitorRuns, Notifier, ForwardNote, NotifyReturns, NotesEnd, Clock,
       ScannerInput, ScannerStop, ServerRuns, ClientRuns, Signal, vars, mainVars
  <2>2. UNCHANGED shown
    <3>1. CASE MonitorRuns
      BY <3>1 DEF MonitorRuns, M!RecvUpdate, M!RecvConn, M!RecvTick, M!RecvClosed, M!RecvDone,
         M!daemonVars
    <3>2. CASE CloseMonitor \/ ForwardNote \/ Clock \/ ScannerInput \/ ScannerStop
      BY <3>2 DEF CloseMonitor, ForwardNote, Clock, ScannerInput, ScannerStop, M!Close,
         M!TakeNote, M!Clock, M!ScannerStatus, M!ScannerConn, M!ScannerStop, M!daemonVars
    <3>3. CASE UNCHANGED monitorVars
      BY <3>3 DEF monitorVars
    <3>. QED  BY <1>3, <3>1, <3>2, <3>3 DEF Next, Run, Notifier, NewServer, NewServerFails,
                 RecvCtx, RecvClosed, CloseServer, Return, NotifyReturns, NotesEnd, ServerRuns,
                 ClientRuns, Signal, vars
  <2>3. UNCHANGED srvCurrent
    <3>1. CASE CloseServer
      BY <3>1 DEF CloseServer, S!Close, S!CloseDone, S!CloseListener, S!CloseConns, S!CloseReturn
    <3>2. CASE ServerRuns
      BY <3>2 DEF ServerRuns, S!AcceptError, S!Accept, S!Add, S!Register, S!StartServe, S!Serve,
         S!ServeTake, S!ServeDone, S!Write, S!WriteLine, S!WriteFails, S!Defers, S!CloseConn,
         S!Remove, S!serverVars, S!connVars
    <3>3. CASE ClientRuns
      BY <3>3 DEF ClientRuns, S!Dial, S!Read, S!HangUp, S!serverVars
    <3>4. CASE UNCHANGED serverVars
      BY <3>4 DEF serverVars
    <3>. QED  BY <1>3, <3>1, <3>2, <3>3, <3>4 DEF Next, Run, NewServer, NewServerFails, RecvCtx,
                 RecvClosed, CloseMonitor, Return, MonitorRuns, Notifier, ForwardNote,
                 NotifyReturns, NotesEnd, Clock, ScannerInput, ScannerStop, Signal, vars
  <2>. QED  BY <2>1, <2>2, <2>3
<1>. QED  BY <1>1, <1>2, <1>3

LEMMA MainInvariant == Spec => []MainInv
<1>1. Init => MainInv
  <2>. SUFFICES ASSUME Init PROVE MainInv
    OBVIOUS
  <2>1. /\ main = "start" /\ created = FALSE /\ inputs = 0 /\ sent = <<>> /\ closer = "no"
        /\ clients = {} /\ (\A c \in Clients : pc[c] = "out" /\ ~connOpen[c])
        /\ srvCurrent = 0 /\ shown = None
    BY DEF Init, M!Init, S!Init
  <2>2. <<>> \in Seq(MP!Snapshot) /\ Len(<<>>) = 0
    OBVIOUS
  <2>3. inputs <= MaxInputs
    BY <2>1, DaemonAssumption
  <2>. QED  BY <2>1, <2>2, <2>3 DEF MainInv, Ordered, Pumped, NoServer, Main
<1>2. MainInv /\ MonitorFacts /\ ServerFacts /\ [Next]_vars => MainInv'
  BY OrderedStep, PumpedStep DEF MainInv
<1>. QED  BY <1>1, <1>2, MonitorHolds, ServerHolds, PTL DEF Spec

(* However the daemon ends, by a signal at any instant, at the end of its source
   or because NewServer failed: when run returns, no map entry or open connection
   is left, and no goroutine but forwardNotifications.                         *)
THEOREM OnlyNotifierLeft == Spec => []ExitLeavesOnlyNotifier
<1>1. MainInv /\ ServerFacts => ExitLeavesOnlyNotifier
  <2>. SUFFICES ASSUME MainInv, ServerFacts, main = "exited"
                PROVE  /\ goroutines \subseteq {"forwardNotifications"}
                       /\ clients = {} /\ \A c \in Clients : ~connOpen[c]
    BY DEF ExitLeavesOnlyNotifier
  <2>1. ~running /\ ~scannerOpen
    BY DEF MainInv, Ordered
  <2>2. /\ clients = {} /\ \A c \in Clients : pc[c] \notin S!Serving /\ ~connOpen[c]
        /\ created => acceptor = "stopped"
    <3>1. CASE created
      <4>1. closer = "returned"
        BY <3>1 DEF MainInv, Ordered
      <4>. QED  BY <4>1 DEF ServerFacts, SP!NothingLeft, SP!Serving, S!Serving
    <3>2. CASE ~created
      BY <3>2 DEF MainInv, Ordered, NoServer, S!Serving
    <3>. QED  BY <3>1, <3>2
  <2>. QED  BY <2>1, <2>2 DEF goroutines
<1>. QED  BY <1>1, MainInvariant, ServerHolds, PTL

-----------------------------------------------------------------------------
(* A client to which nothing is on its way displays the core state, and figures on
   its screen are no older than the monitor allows: what it read last is the newest
   snapshot broadcast, which is the one run took last, which is the current one.  *)
THEOREM RestingClientsAreCurrent == Spec => []RestingClientsAgree
<1>1. MainInv /\ MonitorFacts /\ ServerFacts => RestingClientsAgree
  <2>. SUFFICES ASSUME MainInv, MonitorFacts, ServerFacts, NEW c \in Clients, AtRest(c)
                PROVE  /\ \/ display(c) = current
                          \/ sent = <<>> /\ current = M!snapshot(M!newState, 0)
                       /\ running /\ ~tick /\ display(c) # None /\ ~display(c).stale
                             => now - display(c).updated < StaleAfter + PollInterval
    BY DEF RestingClientsAgree
  <2>1. received[c] = srvCurrent
    <3>1. line[c] = 0
      BY DEF AtRest, ServerFacts, SP!Stream, SP!WritesLine
    <3>. QED  BY <3>1 DEF AtRest, ServerFacts, SP!Newest, SP!newest, SP!Registered
  <2>2. display(c) = shown /\ (shown = None => sent = <<>>)
    <3>1. CASE srvCurrent = 0
      <4>1. sent = <<>>
        BY <3>1, EmptySeq DEF MainInv, Pumped
      <4>. QED  BY <2>1, <3>1, <4>1 DEF display, MainInv, Pumped, AtRest
    <3>2. CASE srvCurrent # 0
      <4>1. srvCurrent \in 1 .. Len(sent) /\ shown = sent[srvCurrent]
        BY <3>2 DEF MainInv, Pumped, AtRest, ServerFacts, SP!TypeOK, SP!Snap
      <4>2. sent[srvCurrent] \in MP!Snapshot
        BY <4>1 DEF MainInv, Pumped
      <4>. QED  BY <2>1, <3>2, <4>1, <4>2, MonitorConstants DEF display
    <3>. QED  BY <3>1, <3>2
  <2>3. \/ shown = current
        \/ shown = None /\ current = M!snapshot(M!newState, 0)
    <3>1. M!snapshot(M!newState, 0) = MP!snapshot(MP!newState, 0)
      BY DEF M!snapshot, MP!snapshot, M!newState, MP!newState, M!FromStatus, MP!FromStatus,
         M!stale, MP!stale, M!Never, MP!Never
    <3>. QED  BY <3>1 DEF AtRest, MonitorFacts, MP!SnapshotNewest
  <2>4. ASSUME running, ~tick, display(c) # None, ~display(c).stale
        PROVE  now - display(c).updated < StaleAfter + PollInterval
    <3>1. display(c) = current
      BY <2>2, <2>3, <2>4
    <3>2. current.updated = st.lastBeacon
      BY DEF MonitorFacts, MP!CurrentReflectsState, MP!FromStatus
    <3>. QED  BY <2>4, <3>1, <3>2 DEF MonitorFacts, MP!StalenessHonest
  <2>. QED  BY <2>2, <2>3, <2>4
<1>. QED  BY <1>1, MainInvariant, MonitorHolds, ServerHolds, PTL

-----------------------------------------------------------------------------
(* Along the path the snapshots go forward: each broadcast one is behind all later
   ones, those are behind the one run took last, and that one is behind the
   current one.                                                                *)

LEMMA SnapshotFields ==
    ASSUME NEW s \in MP!Snapshot
    PROVE  s.stale \in BOOLEAN /\ s.updated \in Int
BY MonitorConstants DEF MP!Snapshot, MP!Times, MP!Never

LEMMA ForwardReflexive ==
    ASSUME NEW a \in MP!Snapshot
    PROVE  MP!Forward(a, a)
BY SnapshotFields DEF MP!Forward

LEMMA ForwardTransitive ==
    ASSUME NEW a \in MP!Snapshot, NEW b \in MP!Snapshot, NEW c \in MP!Snapshot,
           MP!Forward(a, b), MP!Forward(b, c)
    PROVE  MP!Forward(a, c)
<1>1. /\ a.updated \in Int /\ b.updated \in Int /\ c.updated \in Int
      /\ a.stale \in BOOLEAN /\ b.stale \in BOOLEAN /\ c.stale \in BOOLEAN
  BY SnapshotFields
<1>. QED  BY <1>1 DEF MP!Forward

GoesForward ==
    /\ \A i, j \in 1 .. Len(sent) : i < j => MP!Forward(sent[i], sent[j])
    /\ shown # None => /\ MP!Forward(shown, current)
                       /\ \A i \in 1 .. Len(sent) : MP!Forward(sent[i], shown)

\* What a step does to the path; current changes in a step of the monitor only.
LEMMA PathSteps ==
    ASSUME Pumped, MonitorFacts, [Next]_vars
    PROVE  \/ UNCHANGED <<sent, current>> /\ shown' = current
           \/ main = "broadcast" /\ sent' = Append(sent, shown) /\ UNCHANGED <<shown, current>>
           \/ UNCHANGED <<sent, shown>>
<1>1. CASE RecvSnapshot
  <2>1. snapshots # None /\ shown' = snapshots /\ UNCHANGED <<sent, current>>
    BY <1>1 DEF RecvSnapshot, M!TakeSnapshot
  <2>. QED  BY <2>1 DEF MonitorFacts, MP!SnapshotNewest
<1>2. CASE Broadcast
  BY <1>2 DEF Broadcast, monitorVars
<1>3. CASE ~RecvSnapshot /\ ~Broadcast
  <2>1. UNCHANGED sent
    BY <1>3 DEF Next, Run, NewServer, NewServerFails, RecvCtx, RecvClosed, CloseServer,
       CloseMonitor, Return, MonitorRuns, Notifier, ForwardNote, NotifyReturns, NotesEnd, Clock,
       ScannerInput, ScannerStop, ServerRuns, ClientRuns, Signal, vars, mainVars
  <2>2. UNCHANGED shown
    <3>1. CASE MonitorRuns
      BY <3>1 DEF MonitorRuns, M!RecvUpdate, M!RecvConn, M!RecvTick, M!RecvClosed, M!RecvDone,
         M!daemonVars
    <3>2. CASE CloseMonitor \/ ForwardNote \/ Clock \/ ScannerInput \/ ScannerStop
      BY <3>2 DEF CloseMonitor, ForwardNote, Clock, ScannerInput, ScannerStop, M!Close,
         M!TakeNote, M!Clock, M!ScannerStatus, M!ScannerConn, M!ScannerStop, M!daemonVars
    <3>3. CASE UNCHANGED monitorVars
      BY <3>3 DEF monitorVars
    <3>. QED  BY <1>3, <3>1, <3>2, <3>3 DEF Next, Run, Notifier, NewServer, NewServerFails,
                 RecvCtx, RecvClosed, CloseServer, Return, NotifyReturns, NotesEnd, ServerRuns,
                 ClientRuns, Signal, vars
  <2>. QED  BY <2>1, <2>2
<1>. QED  BY <1>1, <1>2, <1>3

LEMMA GoesForwardStep ==
    ASSUME GoesForward, Pumped, MonitorFacts, MonitorFacts', [Next]_vars
    PROVE  GoesForward'
<1>0. /\ sent \in Seq(MP!Snapshot) /\ current \in MP!Snapshot /\ current' \in MP!Snapshot
      /\ shown \in MP!Snapshot \cup {None} /\ None \notin MP!Snapshot
  BY MonitorConstants DEF Pumped, MonitorFacts, MP!TypeOK
<1>1. MP!Forward(current, current')
  <2>1. [MP!Next]_MP!vars
    BY MonitorRefined
  <2>. QED  BY <2>1, MonitorConstants, MP!CurrentForward DEF MonitorFacts
<1>2. CASE UNCHANGED <<sent, current>> /\ shown' = current
  <2>1. MP!Forward(current, current)
    BY <1>0, ForwardReflexive
  <2>2. ASSUME NEW i \in 1 .. Len(sent) PROVE MP!Forward(sent[i], current)
    <3>1. shown # None /\ sent[i] \in MP!Snapshot
      <4>1. Len(sent) # 0
        BY <1>0
      <4>2. sent[Len(sent)] \in MP!Snapshot
        BY <1>0, <4>1
      <4>. QED  BY <1>0, <4>1, <4>2 DEF Pumped
    <3>. QED  BY <1>0, <3>1, ForwardTransitive DEF GoesForward
  <2>. QED  BY <1>2, <2>1, <2>2 DEF GoesForward
<1>3. CASE main = "broadcast" /\ sent' = Append(sent, shown) /\ UNCHANGED <<shown, current>>
  <2>1. shown \in MP!Snapshot /\ shown # None
    BY <1>0, <1>3 DEF Pumped
  <2>2. /\ Len(sent') = Len(sent) + 1 /\ Len(sent) \in Nat
        /\ \A i \in 1 .. Len(sent) : sent'[i] = sent[i]
        /\ sent'[Len(sent) + 1] = shown
    BY <1>0, <1>3, <2>1
  <2>3. \A i \in 1 .. Len(sent') : i \in 1 .. Len(sent) \/ i = Len(sent) + 1
    BY <2>2
  <2>4. MP!Forward(shown, shown)
    BY <2>1, ForwardReflexive
  <2>5. \A i \in 1 .. Len(sent') : MP!Forward(sent'[i], shown)
    BY <2>1, <2>2, <2>3, <2>4 DEF GoesForward
  <2>6. ASSUME NEW i \in 1 .. Len(sent'), NEW j \in 1 .. Len(sent'), i < j
        PROVE  MP!Forward(sent'[i], sent'[j])
    <3>1. i \in 1 .. Len(sent)
      BY <2>2, <2>6
    <3>2. CASE j \in 1 .. Len(sent)
      BY <2>2, <2>6, <3>1, <3>2 DEF GoesForward
    <3>3. CASE j = Len(sent) + 1
      BY <2>2, <2>5, <3>3
    <3>. QED  BY <2>3, <3>2, <3>3
  <2>. QED  BY <1>3, <2>1, <2>5, <2>6 DEF GoesForward
<1>4. CASE UNCHANGED <<sent, shown>>
  <2>1. shown # None => MP!Forward(shown, current')
    BY <1>0, <1>1, ForwardTransitive DEF GoesForward
  <2>. QED  BY <1>4, <2>1 DEF GoesForward
<1>. QED  BY <1>2, <1>3, <1>4, PathSteps

(* What a client shows goes forward in time, and hidden figures come back only with
   a newer beacon, for every client, however many snapshots are dropped on the way. *)
THEOREM ScreensForward == Spec => ScreensGoForward
<1>1. Init => GoesForward
  <2>. SUFFICES ASSUME Init PROVE GoesForward
    OBVIOUS
  <2>1. Len(sent) = 0 /\ shown = None
    BY DEF Init, M!Init
  <2>. QED  BY <2>1 DEF GoesForward
<1>2. /\ MainInv /\ MonitorFacts /\ MonitorFacts' /\ GoesForward /\ [Next]_vars
      => GoesForward'
  BY GoesForwardStep DEF MainInv
<1>. DEFINE Screen(c) ==
        display(c) # None =>
          /\ display(c)' # None /\ display(c).updated <= display(c)'.updated
          /\ display(c).stale /\ ~display(c)'.stale => display(c).updated < display(c)'.updated
<1>3. /\ MainInv /\ MainInv' /\ MonitorFacts /\ MonitorFacts' /\ ServerFacts /\ GoesForward /\ GoesForward' /\ [Next]_vars
      => [\A c \in Clients : Screen(c)]_vars
  <2>. SUFFICES ASSUME MainInv, MainInv', MonitorFacts, MonitorFacts', ServerFacts, GoesForward, GoesForward', [Next]_vars,
                       NEW c \in Clients, display(c) # None
                PROVE  /\ display(c)' # None /\ display(c).updated <= display(c)'.updated
                       /\ display(c).stale /\ ~display(c)'.stale
                             => display(c).updated < display(c)'.updated
    OBVIOUS
  <2>. DEFINE i == received[c]
              j == received'[c]
  <2>1. i \in Nat /\ j \in Nat /\ i <= srvCurrent /\ j <= srvCurrent /\ i <= j
        /\ srvCurrent \in Nat
    <3>1. [SP!Next]_SP!vars
      BY ServerRefined
    <3>2. i \in 0 .. srvCurrent /\ j \in 0 .. srvCurrent /\ i <= j
      BY <3>1, ServerConstants, SP!ReceivedForward DEF ServerFacts
    <3>3. srvCurrent \in Nat
      BY DEF ServerFacts, SP!TypeOK, SP!Snap
    <3>. QED  BY <3>2, <3>3
  <2>2. i # 0 /\ display(c) = sent[i]
    BY DEF display
  <2>3. /\ Len(sent) = srvCurrent /\ sent \in Seq(MP!Snapshot)
        /\ \A k \in 1 .. Len(sent) : sent'[k] = sent[k]
    <3>1. Len(sent) = srvCurrent /\ sent \in Seq(MP!Snapshot) /\ shown \in MP!Snapshot \cup {None}
      BY DEF MainInv, Pumped, MonitorFacts, MP!TypeOK
    <3>2. CASE sent' = Append(sent, shown)
      BY <3>1, <3>2
    <3>3. CASE UNCHANGED sent
      BY <3>1, <3>3
    <3>4. sent' = Append(sent, shown) \/ UNCHANGED sent
      BY PathSteps DEF MainInv
    <3>. QED  BY <3>1, <3>2, <3>3, <3>4
  <2>4. i \in 1 .. Len(sent) /\ j \in 1 .. Len(sent) /\ (i < j \/ i = j)
    BY <2>1, <2>2, <2>3
  <2>5. display(c)' = sent[j]
    <3>1. display(c)' = sent'[j]
      BY <2>4 DEF display
    <3>. QED  BY <2>3, <2>4, <3>1
  <2>6. MP!Forward(sent[i], sent[j])
    <3>1. CASE i < j
      BY <2>4, <3>1 DEF GoesForward
    <3>2. CASE i = j
      <4>1. sent[i] \in MP!Snapshot
        BY <2>3, <2>4
      <4>. QED  BY <3>2, <4>1, ForwardReflexive
    <3>. QED  BY <2>4, <3>1, <3>2
  <2>7. sent[j] # None
    BY <2>3, <2>4, MonitorConstants
  <2>. QED  BY <2>2, <2>5, <2>6, <2>7 DEF MP!Forward
<1>. QED
  BY <1>1, <1>2, <1>3, MainInvariant, MonitorHolds, ServerHolds, PTL
     DEF Spec, ScreensGoForward

-----------------------------------------------------------------------------
(* Of every input at most two snapshots are made.  The budget counts what has been
   broadcast, what is about to be, and what the monitor can still push without a
   further input.                                                              *)
holding == IF main = "broadcast" THEN 1 ELSE 0
Budget == Len(sent) + holding + MP!pending <= 2 * inputs

LEMMA PumpKeeps ==
    ASSUME ~Broadcast, ~RecvSnapshot, [Next]_vars
    PROVE  /\ sent' = sent /\ (main' = "broadcast" <=> main = "broadcast")
           /\ ScannerInput \/ inputs' = inputs
BY DEF Next, Run, NewServer, NewServerFails, RecvCtx, RecvClosed, CloseServer, CloseMonitor,
   Return, MonitorRuns, Notifier, ForwardNote, NotifyReturns, NotesEnd, Clock, ScannerInput,
   ScannerStop, ServerRuns, ClientRuns, Signal, vars, mainVars

LEMMA BudgetStep ==
    ASSUME Budget, MainInv, MonitorFacts, [Next]_vars
    PROVE  Budget'
<1>1. PICK p \in Nat, q \in Nat : p = MP!pending /\ q = MP!pending'
  BY DEF MP!pending, MP!one
<1>2. PICK n \in Nat, m \in Nat : n = Len(sent) + holding /\ m = Len(sent') + holding'
  <2>1. Len(sent) \in Nat /\ Len(Append(sent, shown)) \in Nat
    BY PathSteps DEF MainInv, Pumped
  <2>2. sent' = sent \/ sent' = Append(sent, shown)
    BY PathSteps DEF MainInv
  <2>. QED  BY <2>1, <2>2 DEF holding
<1>3. n + p <= 2 * inputs /\ inputs \in Nat
  BY <1>1, <1>2 DEF Budget, MainInv, Ordered
<1>4. m + q <= 2 * inputs'
  <2>1. CASE ScannerInput /\ (MP!ScannerStatus \/ MP!ScannerConn)
    <3>1. inputs' = inputs + 1 /\ m = n
      BY <1>2, <2>1 DEF ScannerInput, mainVars, holding
    <3>2. q <= p + 2
      BY <1>1, <2>1, MonitorConstants, MP!PendingInput
    <3>. QED  BY <1>3, <3>1, <3>2
  <2>2. CASE RecvSnapshot /\ MP!TakeSnapshot
    <3>1. sent' = sent /\ inputs' = inputs /\ holding = 0 /\ holding' = 1 /\ Len(sent) \in Nat
      BY <2>2 DEF RecvSnapshot, holding, MainInv, Pumped
    <3>2. m = n + 1
      BY <1>2, <3>1
    <3>3. q + 1 = p
      BY <1>1, <2>2, MonitorConstants, MP!PendingTake
    <3>. QED  BY <1>3, <3>1, <3>2, <3>3
  <2>3. CASE ~ScannerInput /\ ~RecvSnapshot /\ MonitorIdles
    <3>1. q <= p
      BY <1>1, <2>3, MonitorConstants, MP!PendingRun DEF MonitorIdles, MonitorFacts
    <3>2. m = n /\ inputs' = inputs
      <4>1. CASE Broadcast
        <5>1. /\ holding = 1 /\ holding' = 0 /\ sent' = Append(sent, shown)
              /\ inputs' = inputs
          BY <4>1 DEF Broadcast, holding
        <5>2. Len(Append(sent, shown)) = Len(sent) + 1
          BY <4>1 DEF MainInv, Pumped, Broadcast
        <5>. QED  BY <1>2, <5>1, <5>2
      <4>2. CASE ~Broadcast
        BY <1>2, <2>3, <4>2, PumpKeeps DEF holding
      <4>. QED  BY <4>1, <4>2
    <3>. QED  BY <1>3, <3>1, <3>2
  <2>. QED  BY <2>1, <2>2, <2>3, MonitorSteps
<1>. QED  BY <1>1, <1>2, <1>4 DEF Budget

LEMMA BudgetInvariant == Spec => []Budget
<1>1. Init => Budget
  <2>. SUFFICES ASSUME Init PROVE Budget
    OBVIOUS
  <2>1. /\ Len(sent) = 0 /\ inputs = 0 /\ main # "broadcast"
        /\ snapshots = None /\ lastStale /\ updates = None /\ conns = None
    BY DEF Init, M!Init
  <2>2. MP!pending = 0
    BY <2>1 DEF MP!pending, MP!one
  <2>. QED  BY <2>1, <2>2 DEF Budget, holding
<1>2. Budget /\ MainInv /\ MonitorFacts /\ [Next]_vars => Budget'
  BY BudgetStep
<1>. QED  BY <1>1, <1>2, MainInvariant, MonitorHolds, PTL DEF Spec

LEMMA BudgetLeft ==
    ASSUME Budget, MainInv
    PROVE  /\ Len(sent) + holding <= 2 * inputs
           /\ Len(sent) \in Nat /\ inputs \in Nat /\ holding \in Nat
<1>1. PICK p \in Nat : p = MP!pending
  BY DEF MP!pending, MP!one
<1>2. Len(sent) \in Nat /\ inputs \in Nat /\ holding \in Nat
  BY DEF MainInv, Ordered, Pumped, holding
<1>3. Len(sent) + holding + p <= 2 * inputs
  BY <1>1 DEF Budget
<1>. QED  BY <1>2, <1>3

(* However often the monitor looks at its clock, however its inputs and the pump
   interleave, clients get at most two snapshots for each status or link edge.  *)
THEOREM BroadcastsBounded == Spec => []BroadcastsAreBounded
<1>1. Budget /\ MainInv => BroadcastsAreBounded
  BY BudgetLeft DEF BroadcastsAreBounded
<1>. QED  BY <1>1, BudgetInvariant, MainInvariant, PTL

(* Server's bound on broadcasts leaves out no behaviour of the daemon: when run is
   about to broadcast, there is room.                                          *)
THEOREM BoundNeverBinds == Spec => [](main = "broadcast" => srvCurrent < MaxSnap)
<1>1. ASSUME Budget, MainInv, main = "broadcast"
      PROVE  srvCurrent < MaxSnap
  <2>1. srvCurrent + 1 <= 2 * inputs /\ srvCurrent \in Nat /\ inputs \in Nat
    BY <1>1, BudgetLeft DEF MainInv, Pumped, holding
  <2>2. inputs <= MaxInputs
    BY <1>1 DEF MainInv, Ordered
  <2>. QED  BY <2>1, <2>2, DaemonAssumption
<1>. QED  BY <1>1, BudgetInvariant, MainInvariant, PTL
=============================================================================
