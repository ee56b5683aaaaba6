--------------------------- MODULE FrontendProofs ---------------------------
(* Machine-checked proof about the socket path of module Frontend, for any number
   of daemons started, stopped, crashed and restarted.                         *)
EXTENDS Frontend, TLAPS

\* What the daemons touch.
PathType ==
    /\ state \in [Daemons -> {"off", "starting", "removed", "serving", "closing",
                              "stopped", "failed"}]
    /\ started \in 0 .. MaxDaemons
    /\ overlapped \subseteq Daemons /\ listenFailed \subseteq Daemons

\* Daemon d is alone in its life: between its os.Remove and its Listen nobody creates
\* the path, and until it has closed its listener nobody removes it.
Alone(d) ==
    /\ d \notin listenFailed
    /\ state[d] \in Alive => \A e \in Daemons : state[e] \in Alive => e = d
    /\ state[d] = "removed" => path = 0
    /\ state[d] \in {"serving", "closing"} => path = d

PathInv == PathType /\ \A d \in Daemons \ overlapped : Alone(d)

LEMMA DaemonPreserves ==
    ASSUME PathInv, NEW d \in Daemons, DaemonStep(d)
    PROVE  PathInv'
<1>. USE DEF PathInv, PathType, Alone, Alive, Goto
<1>1. CASE SourceFails(d)
  BY <1>1 DEF SourceFails, unitVars
<1>2. CASE RemoveSocket(d)
  BY <1>2 DEF RemoveSocket, unitVars
<1>3. CASE Listen(d)
  <2>1. CASE path = 0
    BY <1>3, <2>1 DEF Listen, unitVars
  <2>2. CASE path # 0
    BY <1>3, <2>2 DEF Listen, unitVars
  <2>. QED  BY <2>1, <2>2
<1>4. CASE AcceptError(d) \/ Beacon(d) \/ LinkEdge(d) \/ GoStale(d)
  BY <1>4 DEF AcceptError, Beacon, LinkEdge, Push, GoStale, unitVars
<1>5. CASE Stop(d)
  BY <1>5 DEF Stop, unitVars
<1>6. CASE CloseListener(d)
  BY <1>6 DEF CloseListener, Ends, unitVars
<1>7. CASE Crash(d)
  BY <1>7 DEF Crash, Ends, unitVars
<1>. QED  BY <1>1, <1>2, <1>3, <1>4, <1>5, <1>6, <1>7, DaemonStep(d) DEF DaemonStep

LEMMA LaunchPreserves ==
    ASSUME PathInv, NEW b \in BOOLEAN, Launch(b)
    PROVE  PathInv'
<1>. USE FrontendAssumption DEF PathInv, PathType, Alive, Launch, Goto, Daemons
<1>1. started' \in Daemons /\ state' = [state EXCEPT ![started'] = "starting"]
  OBVIOUS
<1>2. PathType'
  <2>1. started' \in 0 .. MaxDaemons /\ listenFailed' \subseteq Daemons
    OBVIOUS
  <2>2. state' \in [Daemons -> {"off", "starting", "removed", "serving", "closing",
                               "stopped", "failed"}]
    BY <1>1
  <2>3. overlapped' \subseteq Daemons
    BY <1>1
  <2>. QED  BY <2>1, <2>2, <2>3
<1>3. ASSUME NEW d \in Daemons \ overlapped' PROVE Alone(d)'
  <2>1. d \notin overlapped /\ Alone(d)
    BY <1>3
  <2>2. CASE d = started'
    <3>1. \A e \in Daemons : state[e] \notin Alive
      BY <1>1, <1>3, <2>2
    <3>2. \A e \in Daemons : state'[e] \in Alive => e = d
      BY <1>1, <2>2, <3>1
    <3>3. d \notin listenFailed' /\ state'[d] = "starting"
      BY <1>1, <2>1, <2>2 DEF Alone
    <3>. QED  BY <3>2, <3>3 DEF Alone
  <2>3. CASE d # started'
    <3>1. state[d] \notin Alive
      BY <1>1, <1>3
    <3>2. state'[d] = state[d]
      BY <1>1, <2>3
    <3>. QED  BY <2>1, <3>1, <3>2 DEF Alone
  <2>. QED  BY <2>2, <2>3
<1>. QED  BY <1>2, <1>3

LEMMA PathInvStep == PathInv /\ [Next]_vars => PathInv'
<1>. SUFFICES ASSUME PathInv, [Next]_vars
              PROVE  PathInv'
  OBVIOUS
<1>1. CASE StartUnit \/ RestartUnit \/ StartByHand
  BY <1>1, LaunchPreserves DEF StartUnit, RestartUnit, StartByHand
<1>2. CASE \E d \in Daemons : DaemonStep(d)
  BY <1>2, DaemonPreserves
<1>3. CASE UNCHANGED daemonVars
  BY <1>3 DEF daemonVars, unitVars, PathInv, PathType, Alone
<1>4. ASSUME NEW s \in Screens, ScreenStep(s) PROVE UNCHANGED daemonVars
  BY <1>4 DEF ScreenStep, Dial, DialFails, Read, ReadFails, Wake
<1>5. CASE CliStart \/ CliStep
  BY <1>3, <1>5 DEF CliStart, CliStep, CliDial, CliRead, CliReadFails, CliSource,
     CliSourceFails, ScanFinds, ScanTimesOut, ScanReturns
<1>6. ASSUME NEW d \in Daemons, NEW p \in Peers, Accept(d, p) PROVE UNCHANGED daemonVars
  BY <1>6 DEF Accept
<1>. QED  BY <1>1, <1>2, <1>3, <1>4, <1>5, <1>6 DEF Next, vars

(* Whatever was stopped, crashed or restarted before, and whoever overlapped, a
   daemon that is alone in its life finds no socket in its way, and while it serves
   it is the one at the path (NewServer and Server.Close, ipc/server.go).      *)
THEOREM PathIsTheDaemons == Spec => []PathLeadsToDaemon
<1>1. Init => PathInv
  <2>. SUFFICES ASSUME Init PROVE PathInv
    OBVIOUS
  <2>1. \A d \in Daemons : state[d] = "off"
    BY DEF Init
  <2>2. PathType
    <3>1. state = [d \in Daemons |-> "off"] /\ started = 0
      BY DEF Init
    <3>2. overlapped = {} /\ listenFailed = {}
      BY DEF Init
    <3>. QED  BY <3>1, <3>2, FrontendAssumption DEF PathType
  <2>. QED  BY <2>1, <2>2 DEF Init, PathInv, Alone, Alive
<1>2. PathInv => PathLeadsToDaemon
  BY DEF PathInv, Alone, PathLeadsToDaemon
<1>. QED  BY <1>1, <1>2, PathInvStep, PTL DEF Spec
=============================================================================
