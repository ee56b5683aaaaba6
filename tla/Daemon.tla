------------------------------- MODULE Daemon -------------------------------
(* The daemon's main goroutine (cmd/openpodsd/main.go, run) between the monitor
   (module Monitor, with the scanner as its environment) and the IPC server
   (module Server): it pumps snapshots from the one to the other until it is told
   to stop or the monitor ends, then closes the server and the monitor, in the
   order of its deferred calls.

   Every step is a step of one component or of this goroutine.  The server knows
   snapshots by number: number i is sent[i].                                  *)
EXTENDS Integers, Sequences

CONSTANTS
    Statuses, None, StaleAfter, PollInterval, NotesCap, MaxTime,   \* Monitor
    Clients, Readers, SockCap, MaxSnap, AcceptFails,               \* Server
    MaxInputs    \* bound on the statuses and link edges of the scanner

VARIABLES
    updates, conns, scannerOpen, aggregate, st, lastStale, current, snapshots, notes,
    done, running, now, nextTick, tick, shown, lastNote, dropped,   \* Monitor
    srvCurrent, clients, acceptor, closer, pc, slot, line, sock, connOpen, peerOpen,
    received,                                                       \* Server
    main,      \* where run is
    ctx,       \* SIGINT or SIGTERM was received
    created,   \* NewServer succeeded; run's error, and the exit status, are its negation
    sent,      \* the snapshots broadcast, in order
    notifier,  \* where forwardNotifications is
    inputs     \* the scanner's statuses and link edges so far

M == INSTANCE Monitor
S == INSTANCE Server WITH current <- srvCurrent

\* The bound on broadcasts never binds: see BroadcastsAreBounded.
ASSUME DaemonAssumption ==
    /\ MaxInputs \in Nat /\ MaxSnap \in Nat /\ MaxSnap >= 2 * MaxInputs
    /\ StaleAfter \in Nat /\ MaxTime \in Nat
    /\ PollInterval \in Nat \ {0} /\ NotesCap \in Nat \ {0}
    /\ None \notin Statuses \cup BOOLEAN \cup M!Snapshot \cup M!Kind
    /\ Readers \subseteq Clients /\ SockCap \in Nat \ {0} /\ AcceptFails \in BOOLEAN

monitorVars == <<updates, conns, scannerOpen, aggregate, st, lastStale, current, snapshots,
                 notes, done, running, now, nextTick, tick, shown, lastNote, dropped>>
serverVars == <<srvCurrent, clients, acceptor, closer, pc, slot, line, sock, connOpen,
                peerOpen, received>>
mainVars == <<main, ctx, created, sent, notifier>>
vars == <<monitorVars, serverVars, mainVars, inputs>>

Main == {"start", "select", "broadcast", "srvClose", "monClose", "monWait", "exited"}

Init ==
    /\ M!Init /\ S!Init
    /\ main = "start" /\ ctx = FALSE /\ created = FALSE /\ sent = <<>> /\ inputs = 0
    /\ notifier = "off"

-----------------------------------------------------------------------------
(* run. *)

\* NewServer succeeds, and forwardNotifications is started.
NewServer ==
    /\ main = "start" /\ main' = "select" /\ created' = TRUE /\ notifier' = "receive"
    /\ UNCHANGED <<monitorVars, serverVars, ctx, sent, inputs>>

NewServerFails ==
    /\ main = "start" /\ main' = "monClose"
    /\ UNCHANGED <<monitorVars, serverVars, ctx, created, sent, notifier, inputs>>

RecvCtx ==
    /\ main = "select" /\ ctx /\ main' = "srvClose"
    /\ UNCHANGED <<monitorVars, serverVars, ctx, created, sent, notifier, inputs>>

RecvSnapshot ==
    /\ main = "select" /\ M!TakeSnapshot /\ main' = "broadcast"
    /\ UNCHANGED <<serverVars, ctx, created, sent, notifier, inputs>>

\* Mutant: nobody is connected, so the snapshot is not recorded.
Broadcast_ifClients ==
    /\ main = "broadcast" /\ main' = "select"
    /\ IF clients # {} THEN S!Broadcast /\ sent' = Append(sent, shown)
                       ELSE UNCHANGED <<serverVars, sent>>
    /\ UNCHANGED <<monitorVars, ctx, created, notifier, inputs>>

Broadcast ==
    /\ main = "broadcast" /\ main' = "select"
    /\ S!Broadcast /\ sent' = Append(sent, shown)
    /\ UNCHANGED <<monitorVars, ctx, created, notifier, inputs>>

\* The monitor has ended, and the closed channel is empty.
RecvClosed ==
    /\ main = "select" /\ ~running /\ snapshots = None /\ main' = "srvClose"
    /\ UNCHANGED <<monitorVars, serverVars, ctx, created, sent, notifier, inputs>>

(* The deferred calls: Server.Close, then Monitor.Close, which closes the scanner
   and waits for it and for its own goroutine.                                *)
CloseServer ==
    /\ main = "srvClose" /\ S!Close
    /\ main' = IF closer' = "returned" THEN "monClose" ELSE main
    /\ UNCHANGED <<monitorVars, ctx, created, sent, notifier, inputs>>

CloseMonitor ==
    /\ main = "monClose" /\ M!Close /\ main' = "monWait"
    /\ UNCHANGED <<serverVars, ctx, created, sent, notifier, inputs>>

\* Mutant: Close does not wait for the monitor's goroutine.
Return_unwaited ==
    /\ main = "monWait" /\ ~scannerOpen /\ main' = "exited"
    /\ UNCHANGED <<monitorVars, serverVars, ctx, created, sent, notifier, inputs>>

\* Mutant: run waits for forwardNotifications, too.
Return_waitsNotifier ==
    /\ main = "monWait" /\ ~scannerOpen /\ ~running /\ notifier \in {"off", "ended"}
    /\ main' = "exited"
    /\ UNCHANGED <<monitorVars, serverVars, ctx, created, sent, notifier, inputs>>

\* forwardNotifications is not waited for.
Return ==
    /\ main = "monWait" /\ ~scannerOpen /\ ~running /\ main' = "exited"
    /\ UNCHANGED <<monitorVars, serverVars, ctx, created, sent, notifier, inputs>>

-----------------------------------------------------------------------------
(* The other goroutines, the clients and the environment. *)

MonitorRuns ==
    /\ M!RecvUpdate \/ M!RecvConn \/ M!RecvTick \/ M!RecvClosed \/ M!RecvDone
    /\ UNCHANGED <<serverVars, mainVars, inputs>>

(* forwardNotifications, which ends with the process at the latest.  Notify is a
   D-Bus call without a deadline; without a notifier it returns at once.       *)
ForwardNote ==
    /\ notifier = "receive" /\ main # "exited" /\ M!TakeNote /\ notifier' = "notify"
    /\ UNCHANGED <<serverVars, main, ctx, created, sent, inputs>>

\* With or without an error.
NotifyReturns ==
    /\ notifier = "notify" /\ main # "exited" /\ notifier' = "receive"
    /\ UNCHANGED <<monitorVars, serverVars, main, ctx, created, sent, inputs>>

\* The closed channel is empty.
NotesEnd ==
    /\ notifier = "receive" /\ main # "exited" /\ ~running /\ notes = <<>>
    /\ notifier' = "ended"
    /\ UNCHANGED <<monitorVars, serverVars, main, ctx, created, sent, inputs>>

\* Bound: time, and the inputs, stop with the pump, after which nothing reaches a
\* client any more; Pipeline has a scanner that goes on during a shutdown.
pumping == main \in {"start", "select", "broadcast"}

Clock ==
    /\ pumping /\ M!Clock /\ UNCHANGED <<serverVars, mainVars, inputs>>

ScannerInput ==
    /\ pumping /\ inputs < MaxInputs /\ inputs' = inputs + 1
    /\ M!ScannerStatus \/ M!ScannerConn
    /\ UNCHANGED <<serverVars, mainVars>>

\* By itself at the end of the source, or closed by Monitor.Close.
ScannerStop ==
    /\ M!ScannerStop /\ UNCHANGED <<serverVars, mainVars, inputs>>

ServerRuns ==
    /\ created
    /\ S!AcceptError \/ \E c \in Clients : S!Accept(c) \/ S!Add(c) \/ S!Serve(c)
    /\ UNCHANGED <<monitorVars, mainVars, inputs>>

ClientRuns ==
    /\ \E c \in Clients : (created /\ S!Dial(c)) \/ S!Read(c) \/ S!HangUp(c)
    /\ UNCHANGED <<monitorVars, mainVars, inputs>>

\* Once run has left its loop it does not look at ctx again.
Signal ==
    /\ pumping /\ ~ctx /\ ctx' = TRUE
    /\ UNCHANGED <<monitorVars, serverVars, main, created, sent, notifier, inputs>>

Run == NewServer \/ NewServerFails \/ RecvCtx \/ RecvSnapshot \/ Broadcast \/ RecvClosed
       \/ CloseServer \/ CloseMonitor \/ Return
Notifier == ForwardNote \/ NotifyReturns \/ NotesEnd
Next == Run \/ MonitorRuns \/ Notifier \/ Clock \/ ScannerInput \/ ScannerStop
        \/ ServerRuns \/ ClientRuns \/ Signal

Spec == Init /\ [][Next]_vars

(* Each goroutine that can go on does, the scanner's Close ends it, and Readers
   read.  The scanner need not send anything, nobody has to connect or to stop the
   daemon, and forwardNotifications may be stuck in Notify: nothing is asked of it. *)
FairSpec ==
    /\ Spec
    /\ WF_vars(Run) /\ WF_vars(MonitorRuns) /\ WF_vars(Clock)
    /\ WF_vars(done /\ ScannerStop) /\ WF_vars(ServerRuns)
    /\ \A c \in Readers : WF_vars(S!Read(c) /\ UNCHANGED <<monitorVars, mainVars, inputs>>)

-----------------------------------------------------------------------------
\* The daemon is being stopped, or the scanner behind it has ended.
stopping == ctx \/ ~scannerOpen

\* The snapshot client c read last.
display(c) == IF received[c] = 0 THEN None ELSE sent[received[c]]

(* End to end, from the core state to a client's screen: a client that is being
   served keeps catching up with the monitor's current snapshot, through three
   latest-wins channels and a socket, whenever it connected.  Only the monitor's
   initial snapshot, which is never pushed, is never shown.                   *)
ClientsFollowMonitor ==
    \A c \in Readers :
        []<>(\/ stopping \/ pc[c] \notin S!Serving
             \/ display(c) = current
             \/ shown = None /\ current = M!snapshot(M!newState, 0))

(* End to end: if no beacon arrives any more, a client's figures are hidden. *)
ClientsGoStale ==
    \A c \in Readers :
        (pc[c] \in S!Serving /\ now - st.lastBeacon >= StaleAfter + PollInterval)
            ~> (\/ stopping \/ st.lastBeacon > now - StaleAfter - PollInterval
                \/ display(c) = None \/ display(c).stale)

(* A signal, the end of the source and a failed NewServer all end the process,
   whatever its goroutines are doing, also if a Notify never returns.         *)
ShutdownCompletes == (stopping \/ main = "monClose") ~> main = "exited"

\* The goroutines of the daemon that have been started and have not returned.
goroutines ==
    (IF running THEN {"monitor"} ELSE {})
    \cup (IF scannerOpen THEN {"scanner"} ELSE {})
    \cup (IF created /\ acceptor # "stopped" THEN {"accept"} ELSE {})
    \cup (IF \E c \in Clients : pc[c] \in S!Serving THEN {"serve"} ELSE {})
    \cup (IF notifier \in {"receive", "notify"} THEN {"forwardNotifications"} ELSE {})

(* Whichever way run ends, it leaves no connection or map entry behind, and of the
   goroutines only forwardNotifications, for which nobody waits: it may not have
   come to the end of its channel yet, or hang in Notify.                     *)
ExitLeavesOnlyNotifier ==
    main = "exited" =>
        /\ goroutines \subseteq {"forwardNotifications"}
        /\ clients = {} /\ \A c \in Clients : ~connOpen[c]

(* Nothing is on its way to client c, and its connection works. *)
AtRest(c) ==
    /\ main = "select" /\ snapshots = None
    /\ pc[c] = "select" /\ sock[c] = <<>> /\ slot[c] = 0

(* The safety side of ClientsFollowMonitor and ClientsGoStale: a client to which
   nothing is on its way displays the core state, so figures on its screen are no
   older than the monitor allows.                                             *)
RestingClientsAgree ==
    \A c \in Clients : AtRest(c) =>
        /\ display(c) = current \/ (sent = <<>> /\ current = M!snapshot(M!newState, 0))
        /\ running /\ ~tick /\ display(c) # None /\ ~display(c).stale
              => now - display(c).updated < StaleAfter + PollInterval

(* What a client shows goes forward in time, across every channel on the way, and
   hidden figures come back only with a beacon newer than those that were hidden. *)
ScreensGoForward ==
    [][\A c \in Clients : display(c) # None =>
          /\ display(c)' # None /\ display(c).updated <= display(c)'.updated
          /\ display(c).stale /\ ~display(c)'.stale => display(c).updated < display(c)'.updated
      ]_vars

(* Clients are not kept busy: however often the monitor looks at its clock, a
   beacon is broadcast at most when it arrives and when it has gone stale, and a
   link edge when it arrives.                                                 *)
BroadcastsAreBounded == Len(sent) <= 2 * inputs
=============================================================================
