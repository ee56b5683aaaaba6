------------------------------ MODULE Frontend ------------------------------
(* The processes around the socket: daemons that start, stop, fail and crash
   under systemd (packaging/systemd/openpodsd.service) or by hand, the tray and
   the window, which share one reconnecting loop, and the command openpods, which
   asks the daemon and falls back on a scan of its own.

   The socket file is a path in the file system: whoever listens on it last owns
   it, a crash leaves it behind, and closing a listener removes the file that is
   there, whose ever it is.  A dialled connection waits in the listener's backlog
   until the daemon accepts it.  What an accepted one does is in modules Server and
   Daemon; here its client reads the daemon's newest snapshot.  Daemons are
   numbered in the order they are started.                                    *)
EXTENDS Naturals

CONSTANTS
    Screens,      \* running trays and windows
    Command,      \* openpods status, as a client of the daemon
    AcceptFails,  \* Accept may return an error before the listener is closed
    MaxDaemons,   \* bound on the daemons that are started
    MaxPushes,    \* bound on the beacons and link edges a daemon receives
    None,         \* nothing broadcast; nothing shown yet
    NotRunning    \* what a screen shows when no daemon runs

ASSUME FrontendAssumption ==
    /\ MaxDaemons \in Nat /\ MaxPushes \in Nat
    /\ Command \notin Screens /\ AcceptFails \in BOOLEAN

Daemons == 1 .. MaxDaemons
Peers == Screens \cup {Command}
Snapshot == [by : Daemons, n : 1 .. MaxPushes, figures : BOOLEAN]

VARIABLES
    state,     \* per daemon, where it is
    started,   \* number of daemons started
    unit,      \* the daemon systemd supervises, or 0
    path,      \* the daemon whose socket is at the path, or 0
    last,      \* per daemon, what it broadcast last, or None
    deaf,      \* the daemons whose accept loop has ended on an error
    conn,      \* per peer, the daemon it is connected to, or 0
    accepted,  \* the peers whose connection was accepted
    at,        \* per screen, where its loop is
    shows,     \* per screen, what it displays
    cli,       \* where the command is
    opts,      \* its options --watch and --replay
    cliSource, \* its own source is open
    code       \* its exit code

\* History: the daemons that were alive while another was, and those whose Listen failed.
VARIABLES overlapped, listenFailed

unitVars   == <<started, unit, overlapped>>
daemonVars == <<state, path, last, listenFailed, deaf, unitVars>>
connVars   == <<conn, accepted>>
screenVars == <<at, shows>>
cliVars    == <<cli, opts, cliSource, code>>
peerVars   == <<connVars, screenVars, cliVars>>
vars == <<daemonVars, peerVars>>

Alive == {"starting", "removed", "serving", "closing"}

Init ==
    /\ state = [d \in Daemons |-> "off"] /\ started = 0 /\ unit = 0
    /\ path = 0 /\ last = [d \in Daemons |-> None] /\ deaf = {}
    /\ overlapped = {} /\ listenFailed = {}
    /\ conn = [p \in Peers |-> 0] /\ accepted = {}
    /\ at = [s \in Screens |-> "dial"] /\ shows = [s \in Screens |-> None]
    /\ cli = "off" /\ opts = [watch |-> FALSE, replay |-> FALSE]
    /\ cliSource = FALSE /\ code = 0

Goto(d, label) == state' = [state EXCEPT ![d] = label]

\* The process ends, and its memory with it.
Ends(d, label) ==
    /\ Goto(d, label)
    /\ last' = [last EXCEPT ![d] = None] /\ deaf' = deaf \ {d}

-----------------------------------------------------------------------------
(* Daemons. *)

\* systemd starts its unit on request and, Restart=on-failure, when it failed;
\* another daemon may be started by hand.
Launch(supervised) ==
    /\ started < MaxDaemons /\ started' = started + 1
    /\ Goto(started', "starting")
    /\ unit' = IF supervised THEN started' ELSE unit
    /\ LET others == {d \in Daemons : state[d] \in Alive}
       IN  overlapped' = overlapped \cup others \cup {d \in {started'} : others # {}}
    /\ UNCHANGED <<path, listenFailed, last, deaf, peerVars>>

StartUnit   == unit \in {0} \cup {d \in Daemons : state[d] = "stopped"} /\ Launch(TRUE)
RestartUnit == unit \in {d \in Daemons : state[d] = "failed"} /\ Launch(TRUE)
StartByHand == Launch(FALSE)

\* No adapter, adapter off, no bus.
SourceFails(d) ==
    /\ state[d] = "starting" /\ Goto(d, "failed")
    /\ UNCHANGED <<path, listenFailed, last, deaf, unitVars, peerVars>>

\* Mutant: a leftover socket is not cleared.
RemoveSocket_kept(d) ==
    /\ state[d] = "starting" /\ Goto(d, "removed")
    /\ UNCHANGED <<path, listenFailed, last, deaf, unitVars, peerVars>>

\* NewServer's os.Remove.
RemoveSocket(d) ==
    /\ state[d] = "starting" /\ Goto(d, "removed")
    /\ path' = 0
    /\ UNCHANGED <<listenFailed, last, deaf, unitVars, peerVars>>

\* Its net.Listen, which fails if the path exists: run returns the error.
Listen(d) ==
    /\ state[d] = "removed"
    /\ IF path = 0
       THEN Goto(d, "serving") /\ path' = d /\ UNCHANGED listenFailed
       ELSE Goto(d, "failed") /\ listenFailed' = listenFailed \cup {d} /\ UNCHANGED path
    /\ UNCHANGED <<last, deaf, unitVars, peerVars>>

\* The oldest connection of the backlog; in which order does not matter here.
Accept(d, p) ==
    /\ state[d] = "serving" /\ d \notin deaf /\ conn[p] = d /\ p \notin accepted
    /\ accepted' = accepted \cup {p}
    /\ UNCHANGED <<conn, daemonVars, screenVars, cliVars>>

\* No descriptor left, say.  The accept loop ends, and the listener stays.
AcceptError(d) ==
    /\ AcceptFails /\ state[d] = "serving" /\ deaf' = deaf \cup {d}
    /\ UNCHANGED <<state, path, listenFailed, last, unitVars, peerVars>>

Push(d, figures) ==
    /\ state[d] = "serving"
    /\ LET n == IF last[d] = None THEN 1 ELSE last[d].n + 1
       IN  n <= MaxPushes /\ last' = [last EXCEPT ![d] = [by |-> d, n |-> n, figures |-> figures]]
    /\ UNCHANGED <<state, path, listenFailed, deaf, unitVars, peerVars>>

Beacon(d)   == Push(d, TRUE)
LinkEdge(d) == Push(d, last[d] # None /\ last[d].figures)

\* No beacon for the freshness window.
GoStale(d) ==
    /\ state[d] = "serving" /\ last[d] # None /\ last[d].figures
    /\ last' = [last EXCEPT ![d].figures = FALSE]
    /\ UNCHANGED <<state, path, listenFailed, deaf, unitVars, peerVars>>

\* A signal, or the end of the source: also of a lost bus.
Stop(d) ==
    /\ state[d] = "serving" /\ Goto(d, "closing")
    /\ UNCHANGED <<path, listenFailed, last, deaf, unitVars, peerVars>>

\* The listener is closed, which removes the path; the exit status is 0.
CloseListener(d) ==
    /\ state[d] = "closing" /\ Ends(d, "stopped")
    /\ path' = 0
    /\ UNCHANGED <<listenFailed, unitVars, peerVars>>

Crash(d) ==
    /\ state[d] \in Alive /\ Ends(d, "failed")
    /\ UNCHANGED <<path, listenFailed, unitVars, peerVars>>

-----------------------------------------------------------------------------
(* A client's connection. *)

\* Somebody is listening at the path, though perhaps not accepting.
reachable == path # 0 /\ state[path] \in {"serving", "closing"}

\* What peer p can read: nothing before its daemon has accepted it and has broadcast.
readable(p) == p \in accepted /\ state[conn[p]] = "serving" /\ last[conn[p]] # None

\* The daemon's end is gone: it closed its connections and its listener, or died.
hungUp(p) == state[conn[p]] # "serving"

\* In the backlog of a listener that nobody accepts from any more.
stranded(p) == p \notin accepted /\ conn[p] \in deaf

Connect(p)    == reachable /\ conn' = [conn EXCEPT ![p] = path] /\ UNCHANGED accepted
Disconnect(p) == conn' = [conn EXCEPT ![p] = 0] /\ accepted' = accepted \ {p}

-----------------------------------------------------------------------------
(* A tray or a window. *)

Dial(s) ==
    /\ at[s] = "dial" /\ Connect(s) /\ at' = [at EXCEPT ![s] = "read"]
    /\ UNCHANGED <<shows, daemonVars, cliVars>>

\* Mutant: the screen is left as it is.
DialFails_silent(s) ==
    /\ at[s] = "dial" /\ ~reachable
    /\ at' = [at EXCEPT ![s] = "sleep"]
    /\ UNCHANGED <<shows, connVars, daemonVars, cliVars>>

DialFails(s) ==
    /\ at[s] = "dial" /\ ~reachable
    /\ at' = [at EXCEPT ![s] = "sleep"] /\ shows' = [shows EXCEPT ![s] = NotRunning]
    /\ UNCHANGED <<connVars, daemonVars, cliVars>>

Read(s) ==
    /\ at[s] = "read" /\ readable(s) /\ shows[s] # last[conn[s]]
    /\ shows' = [shows EXCEPT ![s] = last[conn[s]]]
    /\ UNCHANGED <<at, connVars, daemonVars, cliVars>>

\* The screen keeps what it shows.
ReadFails(s) ==
    /\ at[s] = "read" /\ hungUp(s)
    /\ at' = [at EXCEPT ![s] = "sleep"] /\ Disconnect(s)
    /\ UNCHANGED <<shows, daemonVars, cliVars>>

\* Two seconds after a connection ended, three after a failed Dial.
Wake(s) ==
    /\ at[s] = "sleep" /\ at' = [at EXCEPT ![s] = "dial"]
    /\ UNCHANGED <<shows, connVars, daemonVars, cliVars>>

-----------------------------------------------------------------------------
(* The command openpods status. *)

CliStart ==
    /\ cli = "off" /\ \E w, r \in BOOLEAN : opts' = [watch |-> w, replay |-> r]
    /\ cli' = IF opts'.replay THEN "source" ELSE "dial"
    /\ UNCHANGED <<cliSource, code, connVars, daemonVars, screenVars>>

CliDial ==
    /\ cli = "dial"
    /\ \/ Connect(Command) /\ cli' = "read"
       \/ ~reachable /\ cli' = "source" /\ UNCHANGED connVars
    /\ UNCHANGED <<opts, cliSource, code, daemonVars, screenVars>>

CliExit(c) ==
    /\ cli' = "exited" /\ code' = c
    /\ opts' = [watch |-> FALSE, replay |-> FALSE]

\* Without a deadline; with --watch it goes on reading.
CliRead ==
    /\ cli = "read" /\ ~opts.watch /\ readable(Command)
    /\ CliExit(0) /\ Disconnect(Command)
    /\ UNCHANGED <<cliSource, daemonVars, screenVars>>

\* Mutant: with --watch a Read error does not end the loop.
CliReadFails_goesOn ==
    /\ cli = "read" /\ hungUp(Command) /\ ~opts.watch
    /\ CliExit(1) /\ Disconnect(Command)
    /\ UNCHANGED <<cliSource, daemonVars, screenVars>>

CliReadFails ==
    /\ cli = "read" /\ hungUp(Command)
    /\ CliExit(1) /\ Disconnect(Command)
    /\ UNCHANGED <<cliSource, daemonVars, screenVars>>

CliSource ==
    /\ cli = "source" /\ cli' = "scan" /\ cliSource' = TRUE
    /\ UNCHANGED <<opts, code, connVars, daemonVars, screenVars>>

CliSourceFails ==
    /\ cli = "source" /\ ~opts.replay
    /\ CliExit(1)
    /\ UNCHANGED <<cliSource, connVars, daemonVars, screenVars>>

\* Scan's deferred Close closes the scanner, which closes the source.
ScanReturns(c) ==
    /\ cli = "scan" /\ CliExit(c) /\ cliSource' = FALSE
    /\ UNCHANGED <<connVars, daemonVars, screenVars>>

ScanFinds == ScanReturns(0)
ScanTimesOut == ScanReturns(1)     \* or the source has ended

-----------------------------------------------------------------------------
DaemonStep(d) == SourceFails(d) \/ RemoveSocket(d) \/ Listen(d) \/ AcceptError(d)
                 \/ Beacon(d) \/ LinkEdge(d) \/ GoStale(d)
                 \/ Stop(d) \/ CloseListener(d) \/ Crash(d)
ScreenStep(s) == Dial(s) \/ DialFails(s) \/ Read(s) \/ ReadFails(s) \/ Wake(s)
CliStep == CliDial \/ CliRead \/ CliReadFails \/ CliSource \/ CliSourceFails
           \/ ScanFinds \/ ScanTimesOut

Next ==
    \/ StartUnit \/ RestartUnit \/ StartByHand
    \/ \E d \in Daemons : DaemonStep(d) \/ \E p \in Peers : Accept(d, p)
    \/ \E s \in Screens : ScreenStep(s)
    \/ CliStart \/ CliStep

Spec == Init /\ [][Next]_vars

(* Processes run; a serving daemon accepts unless its accept loop has ended; the
   scan has a timeout; the daemon hides old figures (ClientsGoStale in module
   Daemon).  Nobody has to start or stop anything, no beacon has to arrive, no
   Accept has to fail or to be repaired, and systemd's restart, which it may give
   up after some failures, is not relied on.                                  *)
FairSpec ==
    /\ Spec
    /\ \A d \in Daemons : /\ WF_vars(SourceFails(d) \/ RemoveSocket(d)) /\ WF_vars(Listen(d))
                           /\ WF_vars(CloseListener(d)) /\ WF_vars(GoStale(d))
                           /\ \A p \in Peers : WF_vars(Accept(d, p))
    /\ \A s \in Screens : WF_vars(ScreenStep(s))
    /\ WF_vars(CliStep)

-----------------------------------------------------------------------------
(* Whatever was stopped, crashed or restarted before, the path leads to the
   daemon that serves, and no leftover socket keeps it from starting, unless that
   daemon was alive together with another one: a newcomer takes the path over, and
   the end of either removes it.  After such a pair the next daemon is fine.  *)
PathLeadsToDaemon ==
    \A d \in Daemons \ overlapped :
        /\ d \notin listenFailed
        /\ state[d] = "serving" => path = d

(* A screen always comes back to the truth: what the daemon it is connected to
   broadcast last, or that nobody listens at the path; also if daemons overlap and
   one removes the other's socket.  The exceptions are a daemon that has not
   broadcast yet and one whose accept loop has ended: the screen then waits in
   silence and keeps what it showed, until that daemon ends.                  *)
ScreensFollow ==
    \A s \in Screens :
        []<>(\/ /\ at[s] = "read" /\ state[conn[s]] = "serving"
                /\ last[conn[s]] \in {None, shows[s]} \/ stranded(s)
             \/ ~reachable /\ shows[s] = NotRunning)

(* The command ends and leaves no source open, except that with --watch it goes on
   reading, and that it waits for a daemon that broadcasts nothing, or that does not
   accept it, for as long as this daemon lives and remains so.                *)
CommandEnds ==
    []<>(\/ cli = "off"
         \/ cli = "exited" /\ ~cliSource
         \/ /\ cli = "read" /\ state[conn[Command]] = "serving"
            /\ opts.watch \/ last[conn[Command]] = None \/ stranded(Command))

(* "core marks status stale; frontends hide figures" when there is "No beacon >=
   30 s" (docs/architecture.md:174).  A screen that reconnects to a new daemon, which
   pushes nothing before its first beacon or link edge, keeps the figures of the old
   one, without any overlap and with every connection accepted.               *)
OldFiguresAreHidden ==
    \A s \in Screens :
        []<>(overlapped # {} \/ shows[s] \in {None, NotRunning} \/ ~shows[s].figures)
=============================================================================
