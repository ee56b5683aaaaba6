------------------------------- MODULE Server -------------------------------
(* ipc.Server (ipc/server.go): an accept goroutine, one serve goroutine per
   connection, and the daemon's main goroutine, which broadcasts and finally
   closes the server.  The sections under Server.mu are single actions; between
   them everything interleaves: a client may dial, stall or hang up, and Close
   may run, at any point of Accept - add - serve - Write - remove.

   Snapshots are numbered in the order they are broadcast (0: none).  A
   connection's socket holds up to SockCap lines; a write into a full socket
   blocks until the peer reads, the deadline passes or the connection closes. *)
EXTENDS Integers, Sequences

CONSTANTS
    Clients,     \* connections that may be made
    Readers,     \* the clients that read within writeTimeout
    SockCap,     \* lines the socket buffer holds
    MaxSnap,     \* bound on the number of broadcasts
    AcceptFails  \* whether Accept may fail for a passing reason (say EMFILE)

ASSUME ServerAssumption ==
    /\ Readers \subseteq Clients
    /\ SockCap \in Nat \ {0} /\ MaxSnap \in Nat
    /\ AcceptFails \in BOOLEAN

VARIABLES
    current,    \* the last broadcast snapshot; 0 is ~haveCurrent
    clients,    \* the keys of Server.clients
    acceptor,   \* "accept", "add" (a connection in hand), "stopped"
    closer,     \* "no", then the step of Close that comes next, then "returned"
    pc,         \* per connection, where its goroutine is
    slot,       \* per connection, its one-slot updates channel
    line,       \* per connection, the snapshot being written, or 0
    sock,       \* per connection, the unread lines
    connOpen,   \* per connection, whether the server's end is open
    peerOpen,   \* per connection, whether the client's end is open
    received    \* per connection, the last snapshot the client read, or 0

connVars   == <<pc, slot, line, sock, connOpen, peerOpen, received>>
serverVars == <<current, clients, acceptor, closer>>
vars == <<serverVars, connVars>>

Snap == 0 .. MaxSnap

\* "out" not dialled; "dialed" in the backlog; "accepted"; "added" to clients
\* without a goroutine yet; "select" and "write" in serve's loop; then the
\* deferred calls "close" and "remove"; "gone".
Serving == {"select", "write", "close", "remove"}
PC == {"out", "dialed", "accepted", "added", "gone"} \cup Serving

\* Close has closed done / the listener.
done == closer # "no"
listening == closer \in {"no", "listener"}

Init ==
    /\ current = 0 /\ clients = {} /\ acceptor = "accept" /\ closer = "no"
    /\ pc = [c \in Clients |-> "out"]
    /\ slot = [c \in Clients |-> 0] /\ line = [c \in Clients |-> 0]
    /\ sock = [c \in Clients |-> <<>>]
    /\ connOpen = [c \in Clients |-> FALSE] /\ peerOpen = [c \in Clients |-> FALSE]
    /\ received = [c \in Clients |-> 0]

Goto(c, label) == pc' = [pc EXCEPT ![c] = label]

-----------------------------------------------------------------------------
(* The accept goroutine. *)

Accept(c) ==
    /\ acceptor = "accept" /\ listening /\ pc[c] = "dialed"
    /\ acceptor' = "add" /\ Goto(c, "accepted")
    /\ connOpen' = [connOpen EXCEPT ![c] = TRUE]
    /\ UNCHANGED <<current, clients, closer, slot, line, sock, peerOpen, received>>

\* Mutant: a new client waits for the next broadcast.
Register_bare(c) ==
    /\ pc[c] = "accepted" /\ Goto(c, "added")
    /\ clients' = clients \cup {c}
    /\ UNCHANGED <<current, acceptor, closer, slot, line, sock, connOpen, peerOpen, received>>

\* The locked section of add.
Register(c) ==
    /\ pc[c] = "accepted" /\ Goto(c, "added")
    /\ clients' = clients \cup {c}
    /\ slot' = [slot EXCEPT ![c] = current]
    /\ UNCHANGED <<current, acceptor, closer, line, sock, connOpen, peerOpen, received>>

StartServe(c) ==
    /\ pc[c] = "added" /\ Goto(c, "select")
    /\ acceptor' = "accept"
    /\ UNCHANGED <<current, clients, closer, slot, line, sock, connOpen, peerOpen, received>>

\* Any error ends the loop: the listener is closed, or a passing failure.
AcceptError ==
    /\ acceptor = "accept" /\ (~listening \/ AcceptFails)
    /\ acceptor' = "stopped"
    /\ UNCHANGED <<current, clients, closer, connVars>>

-----------------------------------------------------------------------------
(* A serve goroutine. *)

\* Mutant: the snapshot stays in the channel.
ServeTake_peek(c) ==
    /\ pc[c] = "select" /\ slot[c] # 0 /\ Goto(c, "write")
    /\ line' = [line EXCEPT ![c] = slot[c]]
    /\ UNCHANGED <<serverVars, slot, sock, connOpen, peerOpen, received>>

ServeTake(c) ==
    /\ pc[c] = "select" /\ slot[c] # 0 /\ Goto(c, "write")
    /\ line' = [line EXCEPT ![c] = slot[c]] /\ slot' = [slot EXCEPT ![c] = 0]
    /\ UNCHANGED <<serverVars, sock, connOpen, peerOpen, received>>

\* Mutant: done is looked at only after a write.
ServeDone_busy(c) ==
    /\ pc[c] = "select" /\ done /\ slot[c] # 0 /\ Goto(c, "close")
    /\ UNCHANGED <<serverVars, slot, line, sock, connOpen, peerOpen, received>>

ServeDone(c) ==
    /\ pc[c] = "select" /\ done /\ Goto(c, "close")
    /\ UNCHANGED <<serverVars, slot, line, sock, connOpen, peerOpen, received>>

\* Mutant: a full socket does not block.
WriteLine_unbounded(c) ==
    /\ pc[c] = "write" /\ connOpen[c] /\ peerOpen[c]
    /\ Goto(c, "select")
    /\ sock' = [sock EXCEPT ![c] = Append(@, line[c])] /\ line' = [line EXCEPT ![c] = 0]
    /\ UNCHANGED <<serverVars, slot, connOpen, peerOpen, received>>

WriteLine(c) ==
    /\ pc[c] = "write" /\ connOpen[c] /\ peerOpen[c] /\ Len(sock[c]) < SockCap
    /\ Goto(c, "select")
    /\ sock' = [sock EXCEPT ![c] = Append(@, line[c])] /\ line' = [line EXCEPT ![c] = 0]
    /\ UNCHANGED <<serverVars, slot, connOpen, peerOpen, received>>

\* The client is gone, Close closed the connection, or the deadline passed.
WriteFails(c) ==
    /\ pc[c] = "write"
    /\ \/ ~connOpen[c] \/ ~peerOpen[c]
       \/ Len(sock[c]) = SockCap /\ c \notin Readers
    /\ Goto(c, "close") /\ line' = [line EXCEPT ![c] = 0]
    /\ UNCHANGED <<serverVars, slot, sock, connOpen, peerOpen, received>>

CloseConn(c) ==
    /\ pc[c] = "close" /\ Goto(c, "remove")
    /\ connOpen' = [connOpen EXCEPT ![c] = FALSE]
    /\ UNCHANGED <<serverVars, slot, line, sock, peerOpen, received>>

Remove(c) ==
    /\ pc[c] = "remove" /\ Goto(c, "gone")
    /\ clients' = clients \ {c}
    /\ UNCHANGED <<current, acceptor, closer, slot, line, sock, connOpen, peerOpen, received>>

-----------------------------------------------------------------------------
(* The daemon's main goroutine: it broadcasts, and calls Close once. *)

\* Mutant: an unread snapshot is kept and the new one dropped.
pushLatestSnap_keepsOld(c, n) == IF slot[c] = 0 THEN n ELSE slot[c]

pushLatestSnap(c, n) == n

Broadcast ==
    /\ closer = "no" /\ current < MaxSnap
    /\ current' = current + 1
    /\ slot' = [c \in Clients |-> IF c \in clients THEN pushLatestSnap(c, current + 1) ELSE slot[c]]
    /\ UNCHANGED <<clients, acceptor, closer, pc, line, sock, connOpen, peerOpen, received>>

CloseDone ==
    /\ closer = "no" /\ closer' = "listener"
    /\ UNCHANGED <<current, clients, acceptor, connVars>>

CloseListener ==
    /\ closer = "listener" /\ closer' = "conns"
    /\ UNCHANGED <<current, clients, acceptor, connVars>>

CloseConns ==
    /\ closer = "conns" /\ closer' = "wait"
    /\ connOpen' = [c \in Clients |-> connOpen[c] /\ c \notin clients]
    /\ UNCHANGED <<current, clients, acceptor, pc, slot, line, sock, peerOpen, received>>

\* Mutant: only the accept goroutine is waited for.
allDone_acceptor == acceptor = "stopped"

\* The wait group: the accept goroutine and every serve goroutine.
allDone == acceptor = "stopped" /\ \A c \in Clients : pc[c] \notin Serving

CloseReturn ==
    /\ closer = "wait" /\ allDone /\ closer' = "returned"
    /\ UNCHANGED <<current, clients, acceptor, connVars>>

-----------------------------------------------------------------------------
(* The clients (ipc.Client). *)

Dial(c) ==
    /\ pc[c] = "out" /\ listening /\ Goto(c, "dialed")
    /\ peerOpen' = [peerOpen EXCEPT ![c] = TRUE]
    /\ UNCHANGED <<serverVars, slot, line, sock, connOpen, received>>

Read(c) ==
    /\ peerOpen[c] /\ sock[c] # <<>>
    /\ received' = [received EXCEPT ![c] = Head(sock[c])]
    /\ sock' = [sock EXCEPT ![c] = Tail(@)]
    /\ UNCHANGED <<serverVars, pc, slot, line, connOpen, peerOpen>>

HangUp(c) ==
    /\ peerOpen[c] /\ c \notin Readers
    /\ peerOpen' = [peerOpen EXCEPT ![c] = FALSE]
    /\ UNCHANGED <<serverVars, pc, slot, line, sock, connOpen, received>>

-----------------------------------------------------------------------------
Add(c)   == Register(c) \/ StartServe(c)
Write(c) == WriteLine(c) \/ WriteFails(c)
Defers(c) == CloseConn(c) \/ Remove(c)
Serve(c) == ServeTake(c) \/ ServeDone(c) \/ Write(c) \/ Defers(c)
Close == CloseDone \/ CloseListener \/ CloseConns \/ CloseReturn
Peer(c) == Dial(c) \/ Read(c) \/ HangUp(c)

Next ==
    \/ \E c \in Clients : Accept(c) \/ Add(c) \/ Serve(c) \/ Peer(c)
    \/ AcceptError \/ Broadcast \/ Close

Spec == Init /\ [][Next]_vars

(* The server's goroutines run when they can, select's done case included (it
   is chosen at random among the ready ones), and Close runs to its end once it
   was called.  Only Readers are obliged to read; nobody has to dial or
   broadcast.                                                                 *)
FairSpec ==
    /\ Spec
    /\ \A c \in Clients :
        /\ WF_vars(Accept(c)) /\ WF_vars(Add(c)) /\ WF_vars(ServeTake(c))
        /\ WF_vars(ServeDone(c)) /\ WF_vars(Write(c)) /\ WF_vars(Defers(c))
    /\ \A c \in Readers : WF_vars(Read(c))
    /\ WF_vars(AcceptError /\ ~listening)
    /\ WF_vars(CloseListener) /\ WF_vars(CloseConns) /\ WF_vars(CloseReturn)

-----------------------------------------------------------------------------
TypeOK ==
    /\ current \in Snap /\ clients \subseteq Clients
    /\ acceptor \in {"accept", "add", "stopped"}
    /\ closer \in {"no", "listener", "conns", "wait", "returned"}
    /\ pc \in [Clients -> PC]
    /\ slot \in [Clients -> Snap] /\ line \in [Clients -> Snap]
    /\ sock \in [Clients -> Seq(Snap)] /\ \A c \in Clients : Len(sock[c]) <= SockCap
    /\ connOpen \in [Clients -> BOOLEAN] /\ peerOpen \in [Clients -> BOOLEAN]
    /\ received \in [Clients -> Snap]

\* What a client has, in the order it will read it: read, unread in the socket,
\* being written, waiting in the channel.
nonZero(n) == IF n = 0 THEN <<>> ELSE <<n>>
stream(c) == nonZero(received[c]) \o sock[c] \o nonZero(line[c]) \o nonZero(slot[c])

(* No client ever sees a snapshot twice or an older one after a newer one,
   whatever is dropped on the way.                                            *)
StreamGoesForward ==
    \A c \in Clients : \A i \in 2 .. Len(stream(c)) : stream(c)[i - 1] < stream(c)[i]

(* A registered client whose connection still works misses nothing newer than
   what is on its way to it: registering and broadcasting exclude each other, so
   there is no window in which a broadcast passes a new client by.            *)
NewestIsOnItsWay ==
    \A c \in Clients : pc[c] \in {"added", "select", "write"} /\ current > 0
        => stream(c) # <<>> /\ stream(c)[Len(stream(c))] = current

(* The map holds exactly the connections that have, or are about to get, a
   goroutine that will remove them.                                           *)
EntriesHaveServers ==
    \A c \in Clients : c \in clients <=> pc[c] \in Serving \cup {"added"}

(* When Close has returned, nothing of the server is left running, registered or
   open, even if a connection was accepted while Close was under way.        *)
NothingLeft ==
    closer = "returned" =>
        /\ acceptor = "stopped" /\ clients = {}
        /\ \A c \in Clients : pc[c] \notin Serving /\ ~connOpen[c]

(* A client that reads gets the newest snapshot however others stall or hang up,
   unless the server closes first.                                            *)
ReadersCatchUp ==
    \A c \in Readers : (pc[c] = "select" /\ current > 0) ~> (received[c] = current \/ done)

(* Close returns: no client, however slow, keeps it waiting. *)
CloseReturns == done ~> (closer = "returned")

(* "On connect a client immediately receives the current snapshot"
   (ipc/server.go:28): a client in the backlog is eventually registered unless
   the server is closed.  One failed Accept ends the accept goroutine.        *)
DialedIsServed == \A c \in Clients : (pc[c] = "dialed") ~> (pc[c] # "dialed" \/ done)
=============================================================================
