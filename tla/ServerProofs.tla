---------------------------- MODULE ServerProofs ----------------------------
(* Machine-checked proofs about Server, for every set of clients, socket size
   and number of broadcasts.                                                  *)
EXTENDS Server, SequenceTheorems, TLAPS


LEMMA WriteLineType ==
    ASSUME TypeOK, NEW c \in Clients, WriteLine(c)
    PROVE  /\ sock' \in [Clients -> Seq(Snap)]
           /\ \A d \in Clients : Len(sock'[d]) <= SockCap
<1>. USE DEF TypeOK, WriteLine
<1>1. sock[c] \in Seq(Snap) /\ line[c] \in Snap
  OBVIOUS
<1>2. Append(sock[c], line[c]) \in Seq(Snap) /\ Len(Append(sock[c], line[c])) = Len(sock[c]) + 1
  BY <1>1
<1>3. sock' = [sock EXCEPT ![c] = Append(sock[c], line[c])]
  OBVIOUS
<1>4. Len(Append(sock[c], line[c])) <= SockCap
  BY <1>1, <1>2, ServerAssumption
<1>. QED  BY <1>2, <1>3, <1>4

LEMMA ReadType ==
    ASSUME TypeOK, NEW c \in Clients, Read(c)
    PROVE  /\ sock' \in [Clients -> Seq(Snap)]
           /\ \A d \in Clients : Len(sock'[d]) <= SockCap
           /\ received' \in [Clients -> Snap]
<1>. USE DEF TypeOK, Read
<1>1. sock[c] \in Seq(Snap) /\ sock[c] # <<>>
  OBVIOUS
<1>2. Head(sock[c]) \in Snap /\ Tail(sock[c]) \in Seq(Snap) /\ Len(Tail(sock[c])) = Len(sock[c]) - 1
  BY <1>1, HeadTailProperties
<1>3. sock' = [sock EXCEPT ![c] = Tail(sock[c])] /\ received' = [received EXCEPT ![c] = Head(sock[c])]
  OBVIOUS
<1>4. Len(sock[c]) \in Nat /\ Len(sock[c]) <= SockCap
  BY <1>1
<1>5. Len(Tail(sock[c])) <= SockCap
  BY <1>2, <1>4, ServerAssumption
<1>. QED  BY <1>2, <1>3, <1>5

LEMMA TypeOKStep ==
    ASSUME TypeOK, [Next]_vars
    PROVE  TypeOK'
<1>. USE DEF TypeOK, Goto, PC, Serving, serverVars, connVars
<1>1. ASSUME NEW c \in Clients, Accept(c) PROVE TypeOK'
  BY <1>1 DEF Accept
<1>2. ASSUME NEW c \in Clients, Register(c) PROVE TypeOK'
  BY <1>2 DEF Register
<1>3. ASSUME NEW c \in Clients, StartServe(c) PROVE TypeOK'
  BY <1>3 DEF StartServe
<1>4. ASSUME NEW c \in Clients, ServeTake(c) PROVE TypeOK'
  <2>1. 0 \in Snap
    BY ServerAssumption DEF Snap
  <2>. QED  BY <1>4, <2>1 DEF ServeTake
<1>5. ASSUME NEW c \in Clients, ServeDone(c) PROVE TypeOK'
  BY <1>5 DEF ServeDone
<1>6. ASSUME NEW c \in Clients, WriteLine(c) PROVE TypeOK'
  <2>1. 0 \in Snap
    BY ServerAssumption DEF Snap
  <2>2. sock' \in [Clients -> Seq(Snap)] /\ \A d \in Clients : Len(sock'[d]) <= SockCap
    BY <1>6, WriteLineType
  <2>. QED  BY <1>6, <2>1, <2>2 DEF WriteLine
<1>7. ASSUME NEW c \in Clients, WriteFails(c) PROVE TypeOK'
  <2>1. 0 \in Snap
    BY ServerAssumption DEF Snap
  <2>. QED  BY <1>7, <2>1 DEF WriteFails
<1>8. ASSUME NEW c \in Clients, CloseConn(c) PROVE TypeOK'
  BY <1>8 DEF CloseConn
<1>9. ASSUME NEW c \in Clients, Remove(c) PROVE TypeOK'
  BY <1>9 DEF Remove
<1>10. ASSUME NEW c \in Clients, Dial(c) PROVE TypeOK'
  BY <1>10 DEF Dial
<1>11. ASSUME NEW c \in Clients, Read(c) PROVE TypeOK'
  <2>1. /\ sock' \in [Clients -> Seq(Snap)] /\ received' \in [Clients -> Snap]
        /\ \A d \in Clients : Len(sock'[d]) <= SockCap
    BY <1>11, ReadType
  <2>. QED  BY <1>11, <2>1 DEF Read
<1>12. ASSUME NEW c \in Clients, HangUp(c) PROVE TypeOK'
  BY <1>12 DEF HangUp
<1>13. ASSUME AcceptError PROVE TypeOK'
  BY <1>13 DEF AcceptError
<1>14. ASSUME Broadcast PROVE TypeOK'
  <2>1. current' \in Snap
    BY <1>14, ServerAssumption DEF Broadcast, Snap
  <2>2. slot' \in [Clients -> Snap]
    BY <1>14, <2>1 DEF Broadcast, pushLatestSnap
  <2>. QED  BY <1>14, <2>1, <2>2 DEF Broadcast
<1>15. ASSUME Close PROVE TypeOK'
  <2>1. CASE CloseDone
    BY <2>1 DEF CloseDone
  <2>2. CASE CloseListener
    BY <2>2 DEF CloseListener
  <2>3. CASE CloseConns
    BY <2>3 DEF CloseConns
  <2>4. CASE CloseReturn
    BY <2>4 DEF CloseReturn
  <2>. QED  BY <1>15, <2>1, <2>2, <2>3, <2>4 DEF Close
<1>16. CASE UNCHANGED vars
  BY <1>16 DEF vars
<1>. QED  BY <1>1, <1>2, <1>3, <1>4, <1>5, <1>6, <1>7, <1>8, <1>9, <1>10, <1>11, <1>12,
             <1>13, <1>14, <1>15, <1>16 DEF Next, Add, Serve, Write, Defers, Peer

(* Type correctness of the server's state, the socket's bound included. *)
THEOREM TypeCorrect == Spec => []TypeOK
<1>1. Init => TypeOK
  <2>. SUFFICES ASSUME Init PROVE TypeOK  OBVIOUS
  <2>1. 0 \in Snap /\ 0 <= SockCap
    BY ServerAssumption DEF Snap
  <2>2. <<>> \in Seq(Snap) /\ Len(<<>>) = 0
    OBVIOUS
  <2>. QED  BY <2>1, <2>2 DEF Init, TypeOK, PC, Serving
<1>2. TypeOK /\ [Next]_vars => TypeOK'
  BY TypeOKStep
<1>. QED  BY <1>1, <1>2, PTL DEF Spec

-----------------------------------------------------------------------------
(* Nothing is left after Close.  What is inductive is more: the accept
   goroutine has at most one connection in hand, and says so; a connection is
   open only while some goroutine will still close it; and once Close has
   returned there is neither an accept goroutine nor a serve goroutine.       *)

HandedOver == {"accepted", "added"}
Closes == HandedOver \cup {"select", "write", "close"}

OneInHand ==
    /\ \A c \in Clients : pc[c] \in HandedOver => acceptor = "add"
    /\ \A c, d \in Clients : pc[c] \in HandedOver /\ pc[d] \in HandedOver => c = d
OpenHasCloser == \A c \in Clients : connOpen[c] => pc[c] \in Closes
Quiet == closer = "returned" => acceptor = "stopped" /\ \A c \in Clients : pc[c] \notin Serving

Life == EntriesHaveServers /\ OneInHand /\ OpenHasCloser /\ Quiet

LEMMA LifeStep ==
    ASSUME TypeOK, Life, [Next]_vars
    PROVE  Life'
<1>. pc \in [Clients -> PC] /\ connOpen \in [Clients -> BOOLEAN] /\ clients \subseteq Clients
  BY DEF TypeOK
<1>. USE DEF Life, EntriesHaveServers, OneInHand, OpenHasCloser, Quiet, Goto, HandedOver,
             Closes, PC, Serving, serverVars, connVars
<1>1. ASSUME NEW c \in Clients, Accept(c) PROVE Life'
  BY <1>1 DEF Accept, listening
<1>2. ASSUME NEW c \in Clients, Register(c) PROVE Life'
  BY <1>2 DEF Register
<1>3. ASSUME NEW c \in Clients, StartServe(c) PROVE Life'
  BY <1>3 DEF StartServe
<1>4. ASSUME NEW c \in Clients, ServeTake(c) PROVE Life'
  BY <1>4 DEF ServeTake
<1>5. ASSUME NEW c \in Clients, ServeDone(c) PROVE Life'
  BY <1>5 DEF ServeDone
<1>6. ASSUME NEW c \in Clients, Write(c) PROVE Life'
  <2>1. /\ pc[c] = "write" /\ UNCHANGED <<clients, acceptor, closer, connOpen>>
        /\ pc' = [pc EXCEPT ![c] = "select"] \/ pc' = [pc EXCEPT ![c] = "close"]
    BY <1>6 DEF Write, WriteLine, WriteFails
  <2>. QED  BY <2>1
<1>7. ASSUME NEW c \in Clients, CloseConn(c) PROVE Life'
  BY <1>7 DEF CloseConn
<1>8. ASSUME NEW c \in Clients, Remove(c) PROVE Life'
  BY <1>8 DEF Remove
<1>9. ASSUME NEW c \in Clients, Peer(c) PROVE Life'
  <2>1. CASE Dial(c)
    BY <2>1 DEF Dial
  <2>2. CASE Read(c)
    BY <2>2 DEF Read
  <2>3. CASE HangUp(c)
    BY <2>3 DEF HangUp
  <2>. QED  BY <1>9, <2>1, <2>2, <2>3 DEF Peer
<1>10. ASSUME AcceptError PROVE Life'
  BY <1>10 DEF AcceptError
<1>11. ASSUME Broadcast PROVE Life'
  BY <1>11 DEF Broadcast
<1>12. ASSUME Close PROVE Life'
  <2>1. CASE CloseDone
    BY <2>1 DEF CloseDone
  <2>2. CASE CloseListener
    BY <2>2 DEF CloseListener
  <2>3. CASE CloseConns
    BY <2>3 DEF CloseConns
  <2>4. CASE CloseReturn
    BY <2>4 DEF CloseReturn, allDone
  <2>. QED  BY <1>12, <2>1, <2>2, <2>3, <2>4 DEF Close
<1>13. CASE UNCHANGED vars
  BY <1>13 DEF vars
<1>. QED  BY <1>1, <1>2, <1>3, <1>4, <1>5, <1>6, <1>7, <1>8, <1>9, <1>10, <1>11, <1>12, <1>13
             DEF Next, Add, Serve, Defers

THEOREM LifeInvariant == Spec => []Life
<1>1. Init => Life
  BY DEF Init, Life, EntriesHaveServers, OneInHand, OpenHasCloser, Quiet, HandedOver, Closes, Serving
<1>2. TypeOK /\ Life /\ [Next]_vars => Life'
  BY LifeStep
<1>. QED  BY <1>1, <1>2, TypeCorrect, PTL DEF Spec

(* Server.clients holds exactly the connections that have, or are about to get,
   a serve goroutine, whatever the clients do and whenever Close runs.        *)
THEOREM MapMatchesServers == Spec => []EntriesHaveServers
<1>1. Life => EntriesHaveServers
  BY DEF Life
<1>. QED  BY <1>1, LifeInvariant, PTL

(* When Server.Close has returned no goroutine, map entry or open connection is
   left, for any number of clients at any point of their lives.               *)
THEOREM CloseLeavesNothing == Spec => []NothingLeft
<1>1. TypeOK /\ Life => NothingLeft
  <2>. SUFFICES ASSUME TypeOK, Life, closer = "returned"
                PROVE  /\ acceptor = "stopped" /\ clients = {}
                       /\ \A c \in Clients : pc[c] \notin Serving /\ ~connOpen[c]
    BY DEF NothingLeft
  <2>1. acceptor = "stopped" /\ \A c \in Clients : pc[c] \notin Serving
    BY DEF Life, Quiet
  <2>2. \A c \in Clients : pc[c] \notin HandedOver
    BY <2>1 DEF Life, OneInHand
  <2>3. clients = {}
    BY <2>1, <2>2 DEF Life, EntriesHaveServers, TypeOK, HandedOver
  <2>4. \A c \in Clients : ~connOpen[c]
    BY <2>1, <2>2 DEF Life, OpenHasCloser, Closes, Serving
  <2>. QED  BY <2>1, <2>3, <2>4
<1>. QED  BY <1>1, LifeInvariant, TypeCorrect, PTL

-----------------------------------------------------------------------------
(* The streams.  The invariant says of a client's four places (read, socket,
   being written, channel) that each holds only newer snapshots than the ones
   before it, and none newer than the current one; and that the newest of a
   registered client's is the current one.                                    *)

Increasing(q) == \A i, j \in 1 .. Len(q) : i < j => q[i] < q[j]

Below(c, n) == received[c] < n /\ \A i \in 1 .. Len(sock[c]) : sock[c][i] < n

InOrder(c) ==
    /\ Increasing(sock[c])
    /\ \A i \in 1 .. Len(sock[c]) : received[c] < sock[c][i]
    /\ line[c] # 0 => Below(c, line[c])
    /\ slot[c] # 0 => Below(c, slot[c]) /\ line[c] < slot[c]

UpToCurrent(c) == Below(c, current + 1) /\ line[c] <= current /\ slot[c] <= current

Unregistered == {"out", "dialed", "accepted"}
WritesLine(c) == line[c] # 0 <=> pc[c] = "write"
StartsEmpty(c) ==
    pc[c] \in Unregistered => received[c] = 0 /\ sock[c] = <<>> /\ line[c] = 0 /\ slot[c] = 0

Stream == \A c \in Clients : InOrder(c) /\ UpToCurrent(c) /\ WritesLine(c) /\ StartsEmpty(c)

\* A step that leaves everything of a client but its program counter alone.
LEMMA SameStream ==
    ASSUME TypeOK, Stream, NEW c \in Clients,
           received'[c] = received[c], sock'[c] = sock[c], line'[c] = line[c], slot'[c] = slot[c],
           current' = current,
           line[c] # 0 <=> pc'[c] = "write",
           pc'[c] \in Unregistered => pc[c] \in Unregistered
    PROVE  InOrder(c)' /\ UpToCurrent(c)' /\ WritesLine(c)' /\ StartsEmpty(c)'
BY DEF Stream, InOrder, UpToCurrent, WritesLine, StartsEmpty, Below, Increasing

LEMMA SnapIsInt == Snap \subseteq Nat
BY DEF Snap

LEMMA SockIsInt ==
    ASSUME TypeOK, NEW c \in Clients
    PROVE  \A i \in 1 .. Len(sock[c]) : sock[c][i] \in Nat
<1>1. sock[c] \in Seq(Snap)
  BY DEF TypeOK
<1>2. \A i \in 1 .. Len(sock[c]) : sock[c][i] \in Snap
  BY <1>1
<1>. QED  BY <1>2, SnapIsInt

LEMMA RegisterStream ==
    ASSUME TypeOK, Stream, NEW c \in Clients, Register(c)
    PROVE  InOrder(c)' /\ UpToCurrent(c)' /\ WritesLine(c)' /\ StartsEmpty(c)'
<1>1. received[c] = 0 /\ sock[c] = <<>> /\ line[c] = 0
  BY DEF Stream, StartsEmpty, Register, Unregistered
<1>2. /\ received'[c] = 0 /\ sock'[c] = <<>> /\ line'[c] = 0 /\ slot'[c] = current
      /\ current' = current /\ pc'[c] = "added"
  BY <1>1 DEF Register, TypeOK, Goto
<1>3. current \in Nat /\ Len(<<>>) = 0
  BY SnapIsInt DEF TypeOK
<1>4. \A i \in 1 .. Len(sock'[c]) : FALSE
  BY <1>2, <1>3
<1>. QED  BY <1>2, <1>3, <1>4
             DEF InOrder, UpToCurrent, WritesLine, StartsEmpty, Below, Increasing, Unregistered

LEMMA TakeStream ==
    ASSUME TypeOK, Stream, NEW c \in Clients, ServeTake(c)
    PROVE  InOrder(c)' /\ UpToCurrent(c)' /\ WritesLine(c)' /\ StartsEmpty(c)'
<1>1. /\ received'[c] = received[c] /\ sock'[c] = sock[c] /\ line'[c] = slot[c] /\ slot'[c] = 0
      /\ slot[c] # 0 /\ current' = current /\ pc'[c] = "write"
  BY DEF ServeTake, TypeOK, Goto, serverVars
<1>2. current \in Nat
  BY SnapIsInt DEF TypeOK
<1>3. InOrder(c) /\ UpToCurrent(c)
  BY DEF Stream
<1>4. InOrder(c)'
  BY <1>1, <1>3 DEF InOrder, Below, Increasing
<1>5. UpToCurrent(c)'
  BY <1>1, <1>2, <1>3, SnapIsInt DEF UpToCurrent, Below, TypeOK
<1>6. WritesLine(c)' /\ StartsEmpty(c)'
  BY <1>1 DEF WritesLine, StartsEmpty, Unregistered
<1>. QED  BY <1>4, <1>5, <1>6

LEMMA WriteStream ==
    ASSUME TypeOK, Stream, NEW c \in Clients, WriteLine(c)
    PROVE  InOrder(c)' /\ UpToCurrent(c)' /\ WritesLine(c)' /\ StartsEmpty(c)'
<1>. DEFINE q == sock[c]
            n == Len(sock[c])
<1>1. /\ received'[c] = received[c] /\ sock'[c] = Append(q, line[c]) /\ line'[c] = 0
      /\ slot'[c] = slot[c] /\ current' = current /\ pc'[c] = "select" /\ pc[c] = "write"
  BY DEF WriteLine, TypeOK, Goto, serverVars
<1>2. q \in Seq(Snap) /\ line[c] \in Snap /\ n \in Nat
  BY DEF TypeOK
<1>3. /\ Len(sock'[c]) = n + 1
      /\ \A i \in 1 .. n : sock'[c][i] = q[i]
      /\ sock'[c][n + 1] = line[c]
  BY <1>1, <1>2
<1>4. current \in Nat /\ slot[c] \in Nat /\ received[c] \in Nat /\ line[c] \in Nat
      /\ \A i \in 1 .. n : q[i] \in Nat
  BY SockIsInt, SnapIsInt DEF TypeOK
<1>5. InOrder(c) /\ UpToCurrent(c) /\ Below(c, line[c])
  BY <1>1 DEF Stream, WritesLine, InOrder
<1>6. \A i \in 1 .. n + 1 : i \in 1 .. n \/ i = n + 1
  BY <1>2
<1>7. Increasing(sock[c])'
  <2>. SUFFICES ASSUME NEW i \in 1 .. n + 1, NEW j \in 1 .. n + 1, i < j
                PROVE  sock'[c][i] < sock'[c][j]
    BY <1>3 DEF Increasing
  <2>1. i \in 1 .. n
    BY <1>2
  <2>2. CASE j \in 1 .. n
    BY <1>3, <1>5, <2>1, <2>2 DEF InOrder, Increasing
  <2>3. CASE j = n + 1
    BY <1>3, <1>5, <2>1, <2>3 DEF Below
  <2>. QED  BY <1>6, <2>2, <2>3
<1>8. \A i \in 1 .. Len(sock'[c]) : received'[c] < sock'[c][i]
  BY <1>1, <1>3, <1>5, <1>6 DEF InOrder, Below
<1>9. slot'[c] # 0 => Below(c, slot[c])' /\ line'[c] < slot'[c]
  BY <1>1, <1>3, <1>4, <1>5, <1>6 DEF InOrder, Below
<1>10. UpToCurrent(c)'
  BY <1>1, <1>3, <1>4, <1>5, <1>6 DEF UpToCurrent, Below
<1>11. WritesLine(c)' /\ StartsEmpty(c)'
  BY <1>1 DEF WritesLine, StartsEmpty, Unregistered
<1>. QED  BY <1>1, <1>7, <1>8, <1>9, <1>10, <1>11 DEF InOrder

LEMMA ReadStream ==
    ASSUME TypeOK, Stream, NEW c \in Clients, Read(c)
    PROVE  InOrder(c)' /\ UpToCurrent(c)' /\ WritesLine(c)' /\ StartsEmpty(c)'
<1>. DEFINE q == sock[c]
            n == Len(sock[c])
<1>1. /\ received'[c] = Head(q) /\ sock'[c] = Tail(q) /\ line'[c] = line[c]
      /\ slot'[c] = slot[c] /\ current' = current /\ pc'[c] = pc[c] /\ q # <<>>
  BY DEF Read, TypeOK, serverVars
<1>2. q \in Seq(Snap) /\ n \in Nat
  BY DEF TypeOK
<1>3. n >= 1
  BY <1>1, <1>2
<1>4. /\ Head(q) = q[1] /\ Len(Tail(q)) = n - 1
      /\ \A i \in 1 .. n - 1 : Tail(q)[i] = q[i + 1]
  BY <1>1, <1>2, HeadTailProperties
<1>5. InOrder(c) /\ UpToCurrent(c)
  BY DEF Stream
<1>6. 1 \in 1 .. n /\ \A i \in 1 .. n - 1 : i + 1 \in 1 .. n /\ 1 < i + 1
  BY <1>2, <1>3
<1>7. Increasing(sock[c])'
  BY <1>1, <1>4, <1>5, <1>6 DEF InOrder, Increasing
<1>8. \A i \in 1 .. Len(sock'[c]) : received'[c] < sock'[c][i]
  BY <1>1, <1>4, <1>5, <1>6 DEF InOrder, Increasing
<1>10. \A m : Below(c, m) => received'[c] < m /\ \A i \in 1 .. Len(sock'[c]) : sock'[c][i] < m
  BY <1>1, <1>4, <1>6 DEF Below
<1>11. InOrder(c)'
  BY <1>1, <1>5, <1>7, <1>8, <1>10 DEF InOrder, Below
<1>12. UpToCurrent(c)'
  BY <1>1, <1>5, <1>10 DEF UpToCurrent, Below
<1>13. WritesLine(c)' /\ StartsEmpty(c)'
  BY <1>1 DEF Stream, WritesLine, StartsEmpty
<1>. QED  BY <1>11, <1>12, <1>13

LEMMA FailStream ==
    ASSUME TypeOK, Stream, NEW c \in Clients, WriteFails(c)
    PROVE  InOrder(c)' /\ UpToCurrent(c)' /\ WritesLine(c)' /\ StartsEmpty(c)'
<1>1. /\ received'[c] = received[c] /\ sock'[c] = sock[c] /\ line'[c] = 0
      /\ slot'[c] = slot[c] /\ current' = current /\ pc'[c] = "close"
  BY DEF WriteFails, TypeOK, Goto, serverVars
<1>2. current \in Nat /\ slot[c] \in Nat
  BY SnapIsInt DEF TypeOK
<1>3. InOrder(c) /\ UpToCurrent(c)
  BY DEF Stream
<1>4. slot[c] # 0 => 0 < slot[c]
  BY <1>2
<1>5. InOrder(c)'
  BY <1>1, <1>3, <1>4 DEF InOrder, Below, Increasing
<1>6. UpToCurrent(c)'
  BY <1>1, <1>2, <1>3 DEF UpToCurrent, Below
<1>7. WritesLine(c)' /\ StartsEmpty(c)'
  BY <1>1 DEF WritesLine, StartsEmpty, Unregistered
<1>. QED  BY <1>5, <1>6, <1>7

LEMMA BroadcastStream ==
    ASSUME TypeOK, Life, Stream, NEW c \in Clients, Broadcast
    PROVE  InOrder(c)' /\ UpToCurrent(c)' /\ WritesLine(c)' /\ StartsEmpty(c)'
<1>1. /\ received'[c] = received[c] /\ sock'[c] = sock[c] /\ line'[c] = line[c]
      /\ slot'[c] = (IF c \in clients THEN current + 1 ELSE slot[c])
      /\ current' = current + 1 /\ pc'[c] = pc[c]
  BY DEF Broadcast, TypeOK, pushLatestSnap
<1>2. /\ current \in Nat /\ slot[c] \in Nat /\ line[c] \in Nat /\ received[c] \in Nat
      /\ \A i \in 1 .. Len(sock[c]) : sock[c][i] \in Nat
  BY SockIsInt, SnapIsInt DEF TypeOK
<1>3. InOrder(c) /\ UpToCurrent(c) /\ WritesLine(c) /\ StartsEmpty(c)
  BY DEF Stream
<1>4. Below(c, current + 1) /\ line[c] < current + 1
  BY <1>2, <1>3 DEF UpToCurrent
<1>5. c \in clients => pc[c] \notin Unregistered
  BY DEF Life, EntriesHaveServers, Serving, Unregistered
<1>6. InOrder(c)'
  BY <1>1, <1>3, <1>4 DEF InOrder, Below, Increasing
<1>7. UpToCurrent(c)'
  <2>1. \A n \in Nat : n < current + 1 => n < current + 2
    BY <1>2
  <2>2. current' + 1 = current + 2
    BY <1>1, <1>2
  <2>3. Below(c, current + 2)
    BY <1>2, <1>4, <2>1 DEF Below
  <2>4. Below(c, current + 1)'
    BY <1>1, <2>2, <2>3 DEF Below
  <2>5. line'[c] <= current'
    BY <1>1, <1>2, <1>4
  <2>6. slot'[c] <= current'
    <3>1. slot[c] <= current
      BY <1>3 DEF UpToCurrent
    <3>. QED  BY <1>1, <1>2, <3>1
  <2>. QED  BY <2>4, <2>5, <2>6 DEF UpToCurrent
<1>8. WritesLine(c)' /\ StartsEmpty(c)'
  BY <1>1, <1>3, <1>5 DEF WritesLine, StartsEmpty
<1>. QED  BY <1>6, <1>7, <1>8

LEMMA StreamStep == TypeOK /\ Life /\ Stream /\ [Next]_vars => Stream'
<1>. SUFFICES ASSUME TypeOK, Life, Stream, [Next]_vars, NEW d \in Clients
              PROVE  InOrder(d)' /\ UpToCurrent(d)' /\ WritesLine(d)' /\ StartsEmpty(d)'
  BY DEF Stream
<1>. USE DEF Goto, serverVars, connVars
<1>. DEFINE Same == /\ received'[d] = received[d] /\ sock'[d] = sock[d]
                    /\ line'[d] = line[d] /\ slot'[d] = slot[d] /\ current' = current
<1>0. line[d] # 0 <=> pc[d] = "write"
  BY DEF Stream, WritesLine
<1>1. CASE \E c \in Clients : Accept(c)
  <2>1. PICK c \in Clients : Accept(c)
    BY <1>1
  <2>2. Same /\ (line[d] # 0 <=> pc'[d] = "write") /\ (pc'[d] \in Unregistered => pc[d] \in Unregistered)
    BY <2>1, <1>0 DEF Accept, TypeOK, Unregistered
  <2>. QED  BY <2>2, SameStream
<1>2. CASE \E c \in Clients : Register(c)
  <2>1. PICK e \in Clients : Register(e)
    BY <1>2
  <2>2. CASE e = d
    BY <2>1, <2>2, RegisterStream
  <2>3. CASE e # d
    <3>1. Same /\ pc'[d] = pc[d]
      BY <2>1, <2>3 DEF Register, TypeOK
    <3>. QED  BY <3>1, <1>0, SameStream
  <2>. QED  BY <2>2, <2>3
<1>3. CASE \E c \in Clients : StartServe(c)
  <2>1. PICK f \in Clients : StartServe(f)
    BY <1>3
  <2>2. Same /\ (line[d] # 0 <=> pc'[d] = "write") /\ (pc'[d] \in Unregistered => pc[d] \in Unregistered)
    BY <2>1, <1>0 DEF StartServe, TypeOK, Unregistered
  <2>. QED  BY <2>2, SameStream
<1>4. CASE \E c \in Clients : ServeTake(c)
  <2>1. PICK g \in Clients : ServeTake(g)
    BY <1>4
  <2>2. CASE g = d
    BY <2>1, <2>2, TakeStream
  <2>3. CASE g # d
    <3>1. Same /\ pc'[d] = pc[d]
      BY <2>1, <2>3 DEF ServeTake, TypeOK
    <3>. QED  BY <3>1, <1>0, SameStream
  <2>. QED  BY <2>2, <2>3
<1>5. CASE \E c \in Clients : ServeDone(c) \/ Defers(c)
  <2>1. PICK h \in Clients : ServeDone(h) \/ Defers(h)
    BY <1>5
  <2>2. Same /\ (line[d] # 0 <=> pc'[d] = "write") /\ (pc'[d] \in Unregistered => pc[d] \in Unregistered)
    BY <2>1, <1>0 DEF ServeDone, Defers, CloseConn, Remove, TypeOK, Unregistered
  <2>. QED  BY <2>2, SameStream
<1>6. CASE \E c \in Clients : Write(c)
  <2>1. PICK k \in Clients : Write(k)
    BY <1>6
  <2>2. CASE k = d
    BY <2>1, <2>2, WriteStream, FailStream DEF Write
  <2>3. CASE k # d
    <3>1. Same /\ pc'[d] = pc[d]
      BY <2>1, <2>3 DEF Write, WriteLine, WriteFails, TypeOK
    <3>. QED  BY <3>1, <1>0, SameStream
  <2>. QED  BY <2>2, <2>3
<1>7. CASE \E c \in Clients : Dial(c) \/ HangUp(c)
  <2>1. PICK m \in Clients : Dial(m) \/ HangUp(m)
    BY <1>7
  <2>2. Same /\ (line[d] # 0 <=> pc'[d] = "write") /\ (pc'[d] \in Unregistered => pc[d] \in Unregistered)
    BY <2>1, <1>0 DEF Dial, HangUp, TypeOK, Unregistered
  <2>. QED  BY <2>2, SameStream
<1>8. CASE \E c \in Clients : Read(c)
  <2>1. PICK r \in Clients : Read(r)
    BY <1>8
  <2>2. CASE r = d
    BY <2>1, <2>2, ReadStream
  <2>3. CASE r # d
    <3>1. Same /\ pc'[d] = pc[d]
      BY <2>1, <2>3 DEF Read, TypeOK
    <3>. QED  BY <3>1, <1>0, SameStream
  <2>. QED  BY <2>2, <2>3
<1>9. CASE Broadcast
  BY <1>9, BroadcastStream
<1>10. CASE AcceptError \/ Close \/ UNCHANGED vars
  <2>1. Same /\ pc'[d] = pc[d]
    BY <1>10 DEF AcceptError, Close, CloseDone, CloseListener, CloseConns, CloseReturn, vars
  <2>. QED  BY <2>1, <1>0, SameStream
<1>. QED  BY <1>1, <1>2, <1>3, <1>4, <1>5, <1>6, <1>7, <1>8, <1>9, <1>10 DEF Next, Add, Serve, Peer

(* Along every client's path snapshots are in broadcast order and none is newer
   than the current one.                                                      *)
THEOREM StreamInvariant == Spec => []Stream
<1>1. Init => Stream
  <2>. SUFFICES ASSUME Init, NEW c \in Clients
                PROVE  InOrder(c) /\ UpToCurrent(c) /\ WritesLine(c) /\ StartsEmpty(c)
    BY DEF Stream
  <2>1. /\ current = 0 /\ received[c] = 0 /\ sock[c] = <<>> /\ line[c] = 0 /\ slot[c] = 0
        /\ pc[c] = "out"
    BY DEF Init
  <2>2. Len(<<>>) = 0
    OBVIOUS
  <2>3. \A i \in 1 .. Len(sock[c]) : FALSE
    BY <2>1, <2>2
  <2>. QED  BY <2>1, <2>3
               DEF InOrder, UpToCurrent, WritesLine, StartsEmpty, Below, Increasing
<1>. QED  BY <1>1, StreamStep, TypeCorrect, LifeInvariant, PTL DEF Spec

\* What a client reads is newer than what it read before, and was broadcast.
LEMMA ReceivedForward ==
    ASSUME TypeOK, Stream, [Next]_vars, NEW c \in Clients
    PROVE  /\ received[c] \in 0 .. current /\ received'[c] \in 0 .. current
           /\ received[c] <= received'[c]
<1>1. /\ received[c] \in Nat /\ current \in Nat /\ received[c] < current + 1
      /\ \A i \in 1 .. Len(sock[c]) : sock[c][i] \in Nat
      /\ \A i \in 1 .. Len(sock[c]) : received[c] < sock[c][i] /\ sock[c][i] < current + 1
  BY SockIsInt, SnapIsInt DEF TypeOK, Stream, InOrder, UpToCurrent, Below
<1>2. CASE Read(c)
  <2>1. sock[c] \in Seq(Snap) /\ sock[c] # <<>> /\ received'[c] = Head(sock[c])
    BY <1>2 DEF Read, TypeOK
  <2>2. 1 \in 1 .. Len(sock[c]) /\ received'[c] = sock[c][1]
    BY <2>1, HeadTailProperties, EmptySeq, LenProperties
  <2>. QED  BY <1>1, <2>2
<1>3. CASE ~Read(c)
  <2>1. received'[c] = received[c]
    BY <1>3 DEF Next, Accept, Add, Register, StartServe, Serve, ServeTake, ServeDone, Write,
       WriteLine, WriteFails, Defers, CloseConn, Remove, Peer, Dial, Read, HangUp, AcceptError,
       Broadcast, Close, CloseDone, CloseListener, CloseConns, CloseReturn, vars, connVars,
       serverVars, TypeOK
  <2>. QED  BY <1>1, <2>1
<1>. QED  BY <1>2, <1>3

LEMMA JoinIncreasing ==
    ASSUME NEW s \in Seq(Nat), NEW t \in Seq(Nat), Increasing(s), Increasing(t),
           \A i \in 1 .. Len(s) : \A j \in 1 .. Len(t) : s[i] < t[j]
    PROVE  s \o t \in Seq(Nat) /\ Increasing(s \o t)
<1>. DEFINE m == Len(s)
            n == Len(t)
            u == s \o t
<1>1. m \in Nat /\ n \in Nat /\ Len(u) = m + n
  OBVIOUS
<1>2. \A i \in 1 .. m : u[i] = s[i]
  BY <1>1
<1>3. \A i \in 1 .. m + n : i \notin 1 .. m => i - m \in 1 .. n /\ u[i] = t[i - m]
  BY <1>1
<1>. u \in Seq(Nat)
  OBVIOUS
<1>4. SUFFICES ASSUME NEW i \in 1 .. m + n, NEW j \in 1 .. m + n, i < j
               PROVE  u[i] < u[j]
  BY <1>1 DEF Increasing
<1>. HIDE DEF m, n, u
<1>5. CASE j \in 1 .. m
  <2>1. i \in 1 .. m
    BY <1>1, <1>4, <1>5
  <2>. QED  BY <1>2, <1>4, <1>5, <2>1 DEF Increasing, m
<1>6. CASE i \in 1 .. m /\ j \notin 1 .. m
  BY <1>2, <1>3, <1>4, <1>6 DEF m, n
<1>7. CASE i \notin 1 .. m /\ j \notin 1 .. m
  <2>1. i - m < j - m
    BY <1>1, <1>4
  <2>. QED  BY <1>3, <1>4, <1>7, <2>1 DEF Increasing, n
<1>8. CASE i \notin 1 .. m /\ j \in 1 .. m
  BY <1>1, <1>4, <1>8
<1>. QED  BY <1>5, <1>6, <1>7, <1>8

\* A value of a concatenation is a value of one of its parts.
LEMMA ConcatValues ==
    ASSUME NEW s \in Seq(Nat), NEW t \in Seq(Nat), NEW i \in 1 .. Len(s \o t)
    PROVE  \/ \E j \in 1 .. Len(s) : (s \o t)[i] = s[j]
           \/ \E j \in 1 .. Len(t) : (s \o t)[i] = t[j]
<1>1. CASE i \in 1 .. Len(s)
  BY <1>1
<1>2. CASE i \notin 1 .. Len(s)
  <2>1. i - Len(s) \in 1 .. Len(t) /\ (s \o t)[i] = t[i - Len(s)]
    BY <1>2
  <2>. QED  BY <2>1
<1>. QED  BY <1>1, <1>2

LEMMA NonZeroSeq ==
    ASSUME NEW n \in Nat
    PROVE  /\ nonZero(n) \in Seq(Nat) /\ Increasing(nonZero(n))
           /\ \A i \in 1 .. Len(nonZero(n)) : nonZero(n)[i] = n /\ n # 0
<1>1. CASE n = 0
  BY <1>1 DEF nonZero, Increasing
<1>2. CASE n # 0
  <2>1. nonZero(n) = <<n>> /\ Len(<<n>>) = 1 /\ <<n>> \in Seq(Nat)
    BY <1>2 DEF nonZero
  <2>2. \A i \in 1 .. 1 : i = 1
    OBVIOUS
  <2>. QED  BY <1>2, <2>1, <2>2 DEF Increasing
<1>. QED  BY <1>1, <1>2

(* No client sees a snapshot twice or an older one after a newer one, for any
   number of clients and broadcasts and any socket buffer.                    *)
THEOREM StreamForward == Spec => []StreamGoesForward
<1>1. TypeOK /\ Stream => StreamGoesForward
  <2>. SUFFICES ASSUME TypeOK, Stream, NEW c \in Clients
                PROVE  \A i \in 2 .. Len(stream(c)) : stream(c)[i - 1] < stream(c)[i]
    BY DEF StreamGoesForward
  <2>. DEFINE R == nonZero(received[c])
              Q == sock[c]
              L == nonZero(line[c])
              S == nonZero(slot[c])
              A == R \o Q
              B == A \o L
  <2>1. /\ received[c] \in Nat /\ line[c] \in Nat /\ slot[c] \in Nat /\ Q \in Seq(Nat)
    <3>1. Q \in Seq(Snap)
      BY DEF TypeOK
    <3>2. Q \in Seq(Nat)
      BY <3>1, SnapIsInt, SeqMonotonic
    <3>. QED  BY <3>2, SnapIsInt DEF TypeOK
  <2>2. /\ R \in Seq(Nat) /\ L \in Seq(Nat) /\ S \in Seq(Nat)
        /\ Increasing(R) /\ Increasing(L) /\ Increasing(S)
        /\ \A i \in 1 .. Len(R) : R[i] = received[c]
        /\ \A i \in 1 .. Len(L) : L[i] = line[c] /\ line[c] # 0
        /\ \A i \in 1 .. Len(S) : S[i] = slot[c] /\ slot[c] # 0
    BY <2>1, NonZeroSeq
  <2>3. /\ Increasing(Q)
        /\ \A i \in 1 .. Len(Q) : received[c] < Q[i]
        /\ line[c] # 0 => received[c] < line[c] /\ \A i \in 1 .. Len(Q) : Q[i] < line[c]
        /\ slot[c] # 0 => /\ received[c] < slot[c] /\ line[c] < slot[c]
                          /\ \A i \in 1 .. Len(Q) : Q[i] < slot[c]
    BY DEF Stream, InOrder, Below
  <2>. HIDE DEF R, Q, L, S
  <2>4. A \in Seq(Nat) /\ Increasing(A)
    BY <2>1, <2>2, <2>3, JoinIncreasing
  <2>5. \A i \in 1 .. Len(A) : A[i] = received[c] \/ \E j \in 1 .. Len(Q) : A[i] = Q[j]
    <3>. SUFFICES ASSUME NEW i \in 1 .. Len(R \o Q)
                  PROVE  \/ (R \o Q)[i] = received[c]
                         \/ \E j \in 1 .. Len(Q) : (R \o Q)[i] = Q[j]
      OBVIOUS
    <3>1. \/ \E j \in 1 .. Len(R) : (R \o Q)[i] = R[j]
          \/ \E j \in 1 .. Len(Q) : (R \o Q)[i] = Q[j]
      BY <2>1, <2>2, ConcatValues
    <3>. QED  BY <2>2, <3>1
  <2>. HIDE DEF A
  <2>6. B \in Seq(Nat) /\ Increasing(B)
    <3>1. \A i \in 1 .. Len(A) : \A j \in 1 .. Len(L) : A[i] < L[j]
      BY <2>2, <2>3, <2>5
    <3>. QED  BY <2>2, <2>4, <3>1, JoinIncreasing
  <2>7. \A i \in 1 .. Len(B) : \/ B[i] = line[c]
                               \/ \E j \in 1 .. Len(A) : B[i] = A[j]
    BY <2>2, <2>4, ConcatValues
  <2>. HIDE DEF B
  <2>8. B \o S \in Seq(Nat) /\ Increasing(B \o S)
    <3>1. \A i \in 1 .. Len(B) : slot[c] # 0 => B[i] < slot[c]
      BY <2>3, <2>5, <2>7
    <3>2. \A i \in 1 .. Len(B) : \A j \in 1 .. Len(S) : B[i] < S[j]
      BY <2>2, <3>1
    <3>. QED  BY <2>2, <2>6, <3>2, JoinIncreasing
  <2>9. stream(c) = B \o S
    BY DEF stream, R, Q, L, S, A, B
  <2>10. Len(stream(c)) \in Nat
    BY <2>8, <2>9
  <2>11. \A i \in 2 .. Len(stream(c)) : /\ i - 1 \in 1 .. Len(stream(c)) /\ i - 1 < i
                                        /\ i \in 1 .. Len(stream(c))
    BY <2>10
  <2>. QED  BY <2>8, <2>9, <2>11 DEF Increasing
<1>. QED  BY <1>1, StreamInvariant, TypeCorrect, PTL

-----------------------------------------------------------------------------
(* Completeness of the streams: of what is on its way to a registered client,
   or was read last, the newest is the current snapshot.                      *)

last(q) == q[Len(q)]

newest(c) == IF slot[c] # 0 THEN slot[c]
             ELSE IF line[c] # 0 THEN line[c]
             ELSE IF sock[c] # <<>> THEN last(sock[c])
             ELSE received[c]

Registered == {"added", "select", "write"}
Newest == \A c \in Clients : pc[c] \in Registered => newest(c) = current

LEMMA LastOfTail ==
    ASSUME NEW q \in Seq(Nat), q # <<>>
    PROVE  IF Tail(q) = <<>> THEN last(q) = Head(q) ELSE last(Tail(q)) = last(q)
<1>1. /\ Len(q) \in Nat /\ Len(q) >= 1 /\ Head(q) = q[1]
      /\ Len(Tail(q)) = Len(q) - 1 /\ Tail(q) \in Seq(Nat)
      /\ \A i \in 1 .. Len(q) - 1 : Tail(q)[i] = q[i + 1]
  BY HeadTailProperties, LenProperties, EmptySeq
<1>2. CASE Tail(q) = <<>>
  <2>1. Len(Tail(q)) = 0
    BY <1>2, EmptySeq
  <2>. QED  BY <1>1, <1>2, <2>1 DEF last
<1>3. CASE Tail(q) # <<>>
  <2>1. Len(Tail(q)) \in Nat \ {0}
    BY <1>1, <1>3, EmptySeq
  <2>2. Len(q) - 1 \in 1 .. Len(q) - 1
    BY <1>1, <2>1
  <2>3. Tail(q)[Len(q) - 1] = q[Len(q)]
    BY <1>1, <2>2
  <2>. QED  BY <1>1, <1>3, <2>3 DEF last
<1>. QED  BY <1>2, <1>3

LEMMA LastOfConcat ==
    ASSUME NEW s \in Seq(Nat), NEW t \in Seq(Nat), t # <<>>
    PROVE  s \o t # <<>> /\ last(s \o t) = last(t)
<1>1. Len(s) \in Nat /\ Len(t) \in Nat \ {0}
  BY EmptySeq, LenProperties
<1>2. Len(s \o t) = Len(s) + Len(t) /\ (s \o t)[Len(s) + Len(t)] = t[Len(t)]
  BY <1>1
<1>3. s \o t # <<>>
  BY <1>1, <1>2
<1>. QED  BY <1>2, <1>3 DEF last

LEMMA NewestStep == TypeOK /\ Life /\ Stream /\ Newest /\ [Next]_vars => Newest'
<1>. SUFFICES ASSUME TypeOK, Life, Stream, Newest, [Next]_vars,
                     NEW d \in Clients, pc'[d] \in Registered
              PROVE  newest(d)' = current'
  BY DEF Newest
<1>. USE DEF Goto, serverVars, connVars
<1>. DEFINE Same == /\ received'[d] = received[d] /\ sock'[d] = sock[d]
                    /\ line'[d] = line[d] /\ slot'[d] = slot[d] /\ current' = current
<1>0. Same /\ pc[d] \in Registered => newest(d)' = current'
  BY DEF Newest, newest, last
<1>1. CASE \E c \in Clients : Accept(c)
  <2>1. PICK c \in Clients : Accept(c)
    BY <1>1
  <2>. QED  BY <2>1, <1>0 DEF Accept, TypeOK, Registered
<1>2. CASE \E c \in Clients : Register(c)
  <2>1. PICK e \in Clients : Register(e)
    BY <1>2
  <2>2. CASE e = d
    <3>1. received[d] = 0 /\ sock[d] = <<>> /\ line[d] = 0
      BY <2>1, <2>2 DEF Stream, StartsEmpty, Register, Unregistered
    <3>2. /\ received'[d] = 0 /\ sock'[d] = <<>> /\ line'[d] = 0 /\ slot'[d] = current
          /\ current' = current
      BY <2>1, <2>2, <3>1 DEF Register, TypeOK
    <3>. QED  BY <3>2 DEF newest
  <2>3. CASE e # d
    BY <2>1, <2>3, <1>0 DEF Register, TypeOK
  <2>. QED  BY <2>2, <2>3
<1>3. CASE \E c \in Clients : StartServe(c)
  <2>1. PICK f \in Clients : StartServe(f)
    BY <1>3
  <2>. QED  BY <2>1, <1>0 DEF StartServe, TypeOK, Registered
<1>4. CASE \E c \in Clients : ServeTake(c)
  <2>1. PICK g \in Clients : ServeTake(g)
    BY <1>4
  <2>2. CASE g = d
    <3>1. /\ slot[d] # 0 /\ line'[d] = slot[d] /\ slot'[d] = 0 /\ current' = current
          /\ pc[d] \in Registered
      BY <2>1, <2>2 DEF ServeTake, TypeOK, Registered
    <3>. QED  BY <3>1 DEF Newest, newest
  <2>3. CASE g # d
    BY <2>1, <2>3, <1>0 DEF ServeTake, TypeOK
  <2>. QED  BY <2>2, <2>3
<1>5. CASE \E c \in Clients : ServeDone(c) \/ Defers(c)
  <2>1. PICK h \in Clients : ServeDone(h) \/ Defers(h)
    BY <1>5
  <2>. QED  BY <2>1, <1>0 DEF ServeDone, Defers, CloseConn, Remove, TypeOK, Registered
<1>6. CASE \E c \in Clients : WriteLine(c)
  <2>1. PICK k \in Clients : WriteLine(k)
    BY <1>6
  <2>2. CASE k = d
    <3>1. /\ sock'[d] = Append(sock[d], line[d]) /\ line'[d] = 0 /\ slot'[d] = slot[d]
          /\ current' = current /\ pc[d] = "write" /\ sock[d] \in Seq(Snap) /\ line[d] \in Snap
      BY <2>1, <2>2 DEF WriteLine, TypeOK
    <3>2. sock'[d] # <<>> /\ last(sock[d])' = line[d]
      BY <3>1 DEF last
    <3>3. line[d] # 0
      BY <3>1 DEF Stream, WritesLine
    <3>. QED  BY <3>1, <3>2, <3>3 DEF Newest, newest, Registered
  <2>3. CASE k # d
    BY <2>1, <2>3, <1>0 DEF WriteLine, TypeOK
  <2>. QED  BY <2>2, <2>3
<1>7. CASE \E c \in Clients : WriteFails(c) \/ Dial(c) \/ HangUp(c)
  <2>1. PICK m \in Clients : WriteFails(m) \/ Dial(m) \/ HangUp(m)
    BY <1>7
  <2>2. m # d => Same /\ pc'[d] = pc[d]
    BY <2>1 DEF WriteFails, Dial, HangUp, TypeOK
  <2>3. m = d => Same /\ pc'[d] = pc[d]
    BY <2>1 DEF WriteFails, Dial, HangUp, TypeOK, Registered
  <2>. QED  BY <2>2, <2>3, <1>0
<1>8. CASE \E c \in Clients : Read(c)
  <2>1. PICK r \in Clients : Read(r)
    BY <1>8
  <2>2. CASE r = d
    <3>1. /\ received'[d] = Head(sock[d]) /\ sock'[d] = Tail(sock[d]) /\ sock[d] # <<>>
          /\ line'[d] = line[d] /\ slot'[d] = slot[d] /\ current' = current /\ pc'[d] = pc[d]
          /\ sock[d] \in Seq(Snap)
      BY <2>1, <2>2 DEF Read, TypeOK
    <3>2. IF Tail(sock[d]) = <<>> THEN last(sock[d]) = Head(sock[d])
          ELSE last(Tail(sock[d])) = last(sock[d])
      BY <3>1, SnapIsInt, SeqMonotonic, LastOfTail
    <3>. QED  BY <3>1, <3>2 DEF Newest, newest, last
  <2>3. CASE r # d
    BY <2>1, <2>3, <1>0 DEF Read, TypeOK
  <2>. QED  BY <2>2, <2>3
<1>9. CASE Broadcast
  <2>1. d \in clients
    BY <1>9 DEF Broadcast, Life, EntriesHaveServers, Registered, Serving, HandedOver, Stream, InOrder
  <2>2. slot'[d] = current + 1 /\ current' = current + 1
    BY <1>9, <2>1 DEF Broadcast, pushLatestSnap
  <2>3. current + 1 # 0
    BY SnapIsInt DEF TypeOK
  <2>. QED  BY <2>2, <2>3 DEF newest
<1>10. CASE AcceptError \/ Close \/ UNCHANGED vars
  BY <1>10, <1>0 DEF AcceptError, Close, CloseDone, CloseListener, CloseConns, CloseReturn, vars
<1>. QED  BY <1>1, <1>2, <1>3, <1>4, <1>5, <1>6, <1>7, <1>8, <1>9, <1>10
             DEF Next, Add, Serve, Peer, Write

THEOREM NewestInvariant == Spec => []Newest
<1>1. Init => Newest
  BY DEF Init, Newest, Registered
<1>. QED  BY <1>1, NewestStep, StreamInvariant, TypeCorrect, LifeInvariant, PTL DEF Spec

LEMMA LastOfJoin ==
    ASSUME NEW s \in Seq(Nat), NEW n \in Nat
    PROVE  /\ n = 0 => s \o nonZero(n) = s
           /\ n # 0 => s \o nonZero(n) # <<>> /\ last(s \o nonZero(n)) = n
<1>1. CASE n = 0
  BY <1>1 DEF nonZero
<1>2. CASE n # 0
  <2>1. nonZero(n) = <<n>> /\ Len(<<n>>) = 1 /\ <<n>> \in Seq(Nat)
    BY <1>2 DEF nonZero
  <2>2. Len(s \o <<n>>) = Len(s) + 1 /\ (s \o <<n>>)[Len(s) + 1] = n /\ Len(s) \in Nat
    BY <2>1
  <2>. QED  BY <1>2, <2>1, <2>2 DEF last
<1>. QED  BY <1>1, <1>2

(* No broadcast passes a registered client by, for any number of clients and
   any interleaving of registration, broadcast, writing and reading.          *)
THEOREM NoSnapshotMissed == Spec => []NewestIsOnItsWay
<1>1. TypeOK /\ Newest => NewestIsOnItsWay
  <2>. SUFFICES ASSUME TypeOK, Newest, NEW c \in Clients, pc[c] \in Registered, current > 0
                PROVE  stream(c) # <<>> /\ last(stream(c)) = current
    BY DEF NewestIsOnItsWay, Registered, last
  <2>. DEFINE R == nonZero(received[c])
              Q == sock[c]
              L == nonZero(line[c])
              S == nonZero(slot[c])
              A == R \o Q
              B == A \o L
  <2>1. /\ received[c] \in Nat /\ line[c] \in Nat /\ slot[c] \in Nat /\ Q \in Seq(Nat)
        /\ current # 0
    <3>1. Q \in Seq(Snap)
      BY DEF TypeOK
    <3>2. Q \in Seq(Nat)
      BY <3>1, SnapIsInt, SeqMonotonic
    <3>3. current \in Nat
      BY SnapIsInt DEF TypeOK
    <3>4. current # 0
      BY <3>3
    <3>5. received[c] \in Nat /\ line[c] \in Nat /\ slot[c] \in Nat
      BY SnapIsInt DEF TypeOK
    <3>. QED  BY <3>2, <3>4, <3>5
  <2>2. R \in Seq(Nat) /\ L \in Seq(Nat) /\ S \in Seq(Nat)
    BY <2>1, NonZeroSeq
  <2>3. newest(c) = current
    BY DEF Newest
  <2>4. A \in Seq(Nat) /\ B \in Seq(Nat)
    BY <2>1, <2>2
  <2>5. CASE slot[c] # 0
    BY <2>1, <2>3, <2>4, <2>5, LastOfJoin DEF newest, stream
  <2>6. CASE slot[c] = 0 /\ line[c] # 0
    <3>1. stream(c) = B
      BY <2>1, <2>4, <2>6, LastOfJoin DEF stream
    <3>2. newest(c) = line[c]
      BY <2>6 DEF newest
    <3>3. B # <<>> /\ last(B) = line[c]
      BY <2>1, <2>4, <2>6, LastOfJoin
    <3>. QED  BY <2>3, <3>1, <3>2, <3>3
  <2>7. CASE slot[c] = 0 /\ line[c] = 0
    <3>1. B = A
      BY <2>1, <2>4, <2>7, LastOfJoin
    <3>2. stream(c) = B
      BY <2>1, <2>4, <2>7, LastOfJoin DEF stream
    <3>3. CASE Q # <<>>
      <4>1. A # <<>> /\ last(A) = last(Q)
        BY <2>1, <2>2, <3>3, LastOfConcat
      <4>2. newest(c) = last(Q)
        BY <2>7, <3>3 DEF newest
      <4>. QED  BY <2>3, <3>1, <3>2, <4>1, <4>2
    <3>4. CASE Q = <<>>
      <4>1. A = R
        BY <2>2, <3>4
      <4>2. R = <<current>>
        BY <2>1, <2>3, <2>7, <3>4 DEF newest, nonZero
      <4>. QED  BY <3>1, <3>2, <4>1, <4>2 DEF last
    <3>. QED  BY <3>3, <3>4
  <2>. QED  BY <2>5, <2>6, <2>7
<1>. QED  BY <1>1, NewestInvariant, TypeCorrect, PTL
=============================================================================
