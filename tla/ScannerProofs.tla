---------------------------- MODULE ScannerProofs ----------------------------
(* Machine-checked proofs about Scanner: its link flag, for any number of paired
   headsets, and its selector, for any number of devices, any window, any signal
   strengths and any number of beacons.

   Facts about the selector's loop go by induction on the beacons it has looked
   at, as the absence of a least counterexample.                              *)
EXTENDS Scanner, WellFoundedInduction, TLAPS

LEMMA Least ==
    ASSUME NEW T, T \subseteq Nat, T # {}
    PROVE  \E n \in T : \A m \in T : n <= m
<1>1. PICK n \in T : \A m \in T : <<m, n>> \notin OpToRel(<, Nat)
  BY NatLessThanWellFounded, WFMin
<1>2. ASSUME NEW m \in T, m < n PROVE FALSE
  <2>1. <<m, n>> \in OpToRel(<, Nat)
    BY <1>2 DEF OpToRel
  <2>. QED  BY <1>1, <2>1
<1>. QED  BY <1>2

-----------------------------------------------------------------------------
(* The loop of prune, after i of the beacons rs. *)

Kept(q, r, t) == IF t - r.time <= Window THEN Append(q, r) ELSE q

IsLoop(f, rs, t, n) ==
    /\ f \in [0 .. n -> Seq(Beacon)]
    /\ f[0] = <<>>
    /\ \A i \in 1 .. n : f[i] = Kept(f[i - 1], rs[i], t)

LEMMA LoopExists ==
    ASSUME NEW rs \in Seq(Beacon), NEW t \in Int, NEW n \in 0 .. Len(rs)
    PROVE  \E f : IsLoop(f, rs, t, n)
<1>. DEFINE Bad == {k \in 0 .. Len(rs) : ~ \E f : IsLoop(f, rs, t, k)}
<1>1. SUFFICES ASSUME Bad # {} PROVE FALSE
  OBVIOUS
<1>2. PICK k \in Bad : \A m \in Bad : k <= m
  <2>1. Bad \subseteq Nat
    OBVIOUS
  <2>. QED  BY <1>1, <2>1, Least
<1>3. k # 0
  <2>1. IsLoop([i \in 0 .. 0 |-> <<>>], rs, t, 0)
    BY DEF IsLoop
  <2>. QED  BY <2>1
<1>4. k \in Nat /\ k - 1 \in 0 .. Len(rs) /\ k - 1 \notin Bad /\ k \in 1 .. Len(rs)
  BY <1>2, <1>3
<1>5. PICK f : IsLoop(f, rs, t, k - 1)
  BY <1>4
<1>. DEFINE g == [i \in 0 .. k |-> IF i = k THEN Kept(f[k - 1], rs[k], t) ELSE f[i]]
<1>6. rs[k] \in Beacon /\ f[k - 1] \in Seq(Beacon)
  BY <1>4, <1>5 DEF IsLoop
<1>7. Kept(f[k - 1], rs[k], t) \in Seq(Beacon)
  BY <1>6 DEF Kept
<1>8. g \in [0 .. k -> Seq(Beacon)]
  BY <1>4, <1>5, <1>7 DEF IsLoop
<1>9. g[0] = <<>>
  BY <1>4, <1>5 DEF IsLoop
<1>10. \A i \in 1 .. k : g[i] = Kept(g[i - 1], rs[i], t)
  <2>. SUFFICES ASSUME NEW i \in 1 .. k PROVE g[i] = Kept(g[i - 1], rs[i], t)
    OBVIOUS
  <2>1. i \in 0 .. k /\ i - 1 \in 0 .. k /\ i - 1 # k /\ g[i - 1] = f[i - 1]
    BY <1>4
  <2>2. CASE i = k
    BY <2>1, <2>2
  <2>3. CASE i # k
    <3>1. i \in 1 .. (k - 1)
      BY <1>4, <2>3
    <3>2. f[i] = Kept(f[i - 1], rs[i], t)
      BY <1>5, <3>1 DEF IsLoop
    <3>. QED  BY <2>1, <2>3, <3>2
  <2>. QED  BY <2>2, <2>3
<1>11. IsLoop(g, rs, t, k)
  BY <1>8, <1>9, <1>10 DEF IsLoop
<1>. QED  BY <1>11

LEMMA PruneLoops ==
    ASSUME NEW rs \in Seq(Beacon), NEW t \in Int
    PROVE  \E f : /\ prune(rs, t) = f[Len(rs)]
                 /\ f[0] = <<>>
                 /\ \A i \in 1 .. Len(rs) : f[i] = Kept(f[i - 1], rs[i], t)
<1>. DEFINE kept == CHOOSE f : f = [i \in 0 .. Len(rs) |->
                                      IF i = 0 THEN <<>>
                                      ELSE IF t - rs[i].time <= Window
                                      THEN Append(f[i - 1], rs[i])
                                      ELSE f[i - 1]]
<1>0. Len(rs) \in Nat
  OBVIOUS
<1>1. PICK f : IsLoop(f, rs, t, Len(rs))
  BY <1>0, LoopExists
<1>2. f = [i \in 0 .. Len(rs) |->
              IF i = 0 THEN <<>>
              ELSE IF t - rs[i].time <= Window THEN Append(f[i - 1], rs[i]) ELSE f[i - 1]]
  <2>1. \A i \in 0 .. Len(rs) :
           f[i] = IF i = 0 THEN <<>>
                  ELSE IF t - rs[i].time <= Window THEN Append(f[i - 1], rs[i]) ELSE f[i - 1]
    <3>. SUFFICES ASSUME NEW i \in 0 .. Len(rs)
                  PROVE  f[i] = IF i = 0 THEN <<>>
                                ELSE IF t - rs[i].time <= Window
                                THEN Append(f[i - 1], rs[i]) ELSE f[i - 1]
      OBVIOUS
    <3>1. CASE i = 0
      BY <1>1, <3>1 DEF IsLoop
    <3>2. CASE i # 0
      <4>1. i \in 1 .. Len(rs)
        BY <1>0, <3>2
      <4>. QED  BY <1>1, <3>2, <4>1 DEF IsLoop, Kept
    <3>. QED  BY <3>1, <3>2
  <2>2. f \in [0 .. Len(rs) -> Seq(Beacon)]
    BY <1>1 DEF IsLoop
  <2>. QED  BY <2>1, <2>2
<1>3. kept = [i \in 0 .. Len(rs) |->
                 IF i = 0 THEN <<>>
                 ELSE IF t - rs[i].time <= Window THEN Append(kept[i - 1], rs[i])
                 ELSE kept[i - 1]]
  BY <1>2, Zenon
<1>4. prune(rs, t) = kept[Len(rs)]
  BY DEF prune
<1>. HIDE DEF kept
<1>5. kept[0] = <<>>
  BY <1>0, <1>3
<1>6. \A i \in 1 .. Len(rs) : kept[i] = Kept(kept[i - 1], rs[i], t)
  <2>. SUFFICES ASSUME NEW i \in 1 .. Len(rs)
                PROVE  kept[i] = Kept(kept[i - 1], rs[i], t)
    OBVIOUS
  <2>1. i \in 0 .. Len(rs) /\ i # 0
    BY <1>0
  <2>2. kept[i] = IF i = 0 THEN <<>>
                  ELSE IF t - rs[i].time <= Window THEN Append(kept[i - 1], rs[i])
                  ELSE kept[i - 1]
    BY <1>3, <2>1
  <2>. QED  BY <2>1, <2>2 DEF Kept
<1>. QED  BY <1>4, <1>5, <1>6

\* In the order they came.
Ordered(rs) == \A i, j \in 1 .. Len(rs) : i <= j => rs[i].time <= rs[j].time

\* What the loop has kept after i beacons.
KeptOK(q, rs, t, i) ==
    /\ q \in Seq(Beacon) /\ Ordered(q)
    /\ \A j \in 1 .. Len(q) : /\ t - q[j].time <= Window
                              /\ \E k \in 1 .. i : q[j] = rs[k]

LEMMA Constants ==
    RSSIs \subseteq Int /\ MinRSSI \in Int /\ Window \in Nat /\ MaxTime \in Nat
BY ScannerAssumption

LEMMA BeaconFields ==
    ASSUME NEW b \in Beacon
    PROVE  /\ b.addr \in Addr /\ b.rssi \in RSSIs /\ b.rssi \in Int
           /\ b.time \in 0 .. MaxTime /\ b.time \in Int
<1>1. b.addr \in Addr /\ b.rssi \in RSSIs /\ b.time \in 0 .. MaxTime
  BY DEF Beacon
<1>2. b.rssi \in Int
  BY <1>1, Constants
<1>3. b.time \in Int
  BY <1>1
<1>. QED  BY <1>1, <1>2, <1>3

LEMMA KeptStep ==
    ASSUME NEW rs \in Seq(Beacon), NEW t \in Int, Ordered(rs),
           NEW i \in 1 .. Len(rs), NEW q, KeptOK(q, rs, t, i - 1)
    PROVE  KeptOK(Kept(q, rs[i], t), rs, t, i)
<1>1. rs[i] \in Beacon /\ rs[i].time \in Int
  BY BeaconFields
<1>2. CASE t - rs[i].time <= Window
  <2>. DEFINE p == Append(q, rs[i])
  <2>1. p \in Seq(Beacon) /\ Len(p) = Len(q) + 1 /\ p[Len(p)] = rs[i]
        /\ \A j \in 1 .. Len(q) : p[j] = q[j]
    BY <1>1 DEF KeptOK
  <2>2. \A j \in 1 .. Len(p) : j = Len(p) \/ j \in 1 .. Len(q)
    BY <2>1 DEF KeptOK
  <2>3. \A j \in 1 .. Len(p) : \E k \in 1 .. i : p[j] = rs[k]
    BY <2>1, <2>2 DEF KeptOK
  <2>4. \A j \in 1 .. Len(p) : t - p[j].time <= Window
    BY <1>2, <2>1, <2>2 DEF KeptOK
  <2>5. Ordered(p)
    <3>. SUFFICES ASSUME NEW j \in 1 .. Len(p), NEW k \in 1 .. Len(p), j <= k
                  PROVE  p[j].time <= p[k].time
      BY DEF Ordered
    <3>1. CASE k = Len(p)
      <4>1. PICK l \in 1 .. i : p[j] = rs[l]
        BY <2>3
      <4>2. l \in 1 .. Len(rs) /\ l <= i
        OBVIOUS
      <4>. QED  BY <2>1, <3>1, <4>1, <4>2 DEF Ordered
    <3>2. CASE k # Len(p)
      <4>1. j \in 1 .. Len(q) /\ k \in 1 .. Len(q)
        BY <2>1, <3>2 DEF KeptOK
      <4>. QED  BY <2>1, <4>1 DEF KeptOK, Ordered
    <3>. QED  BY <3>1, <3>2
  <2>6. Kept(q, rs[i], t) = p
    BY <1>2 DEF Kept
  <2>. HIDE DEF p
  <2>. QED  BY <2>1, <2>3, <2>4, <2>5, <2>6 DEF KeptOK
<1>3. CASE ~(t - rs[i].time <= Window)
  <2>1. Kept(q, rs[i], t) = q
    BY <1>3 DEF Kept
  <2>2. \A k \in 1 .. (i - 1) : k \in 1 .. i
    OBVIOUS
  <2>. QED  BY <2>1, <2>2 DEF KeptOK
<1>. QED  BY <1>2, <1>3

(* prune keeps beacons of rs, in their order, none of them old, and the newest if
   it is not old.                                                             *)
LEMMA PruneFacts ==
    ASSUME NEW rs \in Seq(Beacon), NEW t \in Int, Ordered(rs)
    PROVE  /\ KeptOK(prune(rs, t), rs, t, Len(rs))
           /\ rs # <<>> /\ t - rs[Len(rs)].time <= Window
                 => /\ Len(prune(rs, t)) >= 1
                    /\ prune(rs, t)[Len(prune(rs, t))] = rs[Len(rs)]
<1>1. PICK f : /\ prune(rs, t) = f[Len(rs)]
               /\ f[0] = <<>>
               /\ \A i \in 1 .. Len(rs) : f[i] = Kept(f[i - 1], rs[i], t)
  BY PruneLoops
<1>2. \A i \in 0 .. Len(rs) : KeptOK(f[i], rs, t, i)
  <2>. DEFINE Bad == {i \in 0 .. Len(rs) : ~KeptOK(f[i], rs, t, i)}
  <2>1. SUFFICES ASSUME Bad # {} PROVE FALSE
    OBVIOUS
  <2>2. PICK i \in Bad : \A m \in Bad : i <= m
    <3>1. Bad \subseteq Nat
      OBVIOUS
    <3>. QED  BY <2>1, <3>1, Least
  <2>3. KeptOK(f[0], rs, t, 0)
    BY <1>1 DEF KeptOK, Ordered
  <2>4. i \in 1 .. Len(rs) /\ i - 1 \in 0 .. Len(rs) /\ i - 1 \notin Bad
    BY <2>2, <2>3
  <2>5. KeptOK(f[i - 1], rs, t, i - 1)
    BY <2>4
  <2>6. KeptOK(f[i], rs, t, i)
    BY <1>1, <2>4, <2>5, KeptStep
  <2>. QED  BY <2>2, <2>6
<1>3. KeptOK(prune(rs, t), rs, t, Len(rs))
  BY <1>1, <1>2
<1>4. ASSUME rs # <<>>, t - rs[Len(rs)].time <= Window
      PROVE  /\ Len(prune(rs, t)) >= 1
             /\ prune(rs, t)[Len(prune(rs, t))] = rs[Len(rs)]
  <2>1. Len(rs) \in 1 .. Len(rs) /\ Len(rs) - 1 \in 0 .. Len(rs)
    BY <1>4
  <2>2. prune(rs, t) = Append(f[Len(rs) - 1], rs[Len(rs)])
    BY <1>1, <1>4, <2>1 DEF Kept
  <2>3. f[Len(rs) - 1] \in Seq(Beacon)
    BY <1>2, <2>1 DEF KeptOK
  <2>. QED  BY <2>2, <2>3
<1>. QED  BY <1>3, <1>4

-----------------------------------------------------------------------------
(* The loop that looks for the strongest beacon finds the first one. *)

IsStrongest(rs, n, i) ==
    \A j \in 1 .. n :
        rs[j].rssi < rs[i].rssi \/ (rs[j].rssi = rs[i].rssi /\ i <= j)

LEMMA StrongestFacts ==
    ASSUME NEW rs \in Seq(Beacon), rs # <<>>
    PROVE  \E i \in 1 .. Len(rs) : strongest(rs) = rs[i] /\ IsStrongest(rs, Len(rs), i)
<1>. DEFINE Bad == {n \in 1 .. Len(rs) : ~ \E i \in 1 .. n : IsStrongest(rs, n, i)}
<1>0. \A i \in 1 .. Len(rs) : rs[i].rssi \in Int
  BY BeaconFields
<1>1. Bad = {}
  <2>1. SUFFICES ASSUME Bad # {} PROVE FALSE
    OBVIOUS
  <2>2. PICK n \in Bad : \A m \in Bad : n <= m
    <3>1. Bad \subseteq Nat
      OBVIOUS
    <3>. QED  BY <2>1, <3>1, Least
  <2>3. n # 1
    BY <1>0 DEF IsStrongest
  <2>4. n \in 1 .. Len(rs) /\ n - 1 \in 1 .. Len(rs) /\ n - 1 \notin Bad
    BY <2>2, <2>3
  <2>5. PICK i \in 1 .. (n - 1) : IsStrongest(rs, n - 1, i)
    BY <2>4
  <2>6. i \in 1 .. n /\ i \in 1 .. Len(rs) /\ \A j \in 1 .. n : j \in 1 .. Len(rs) /\ (j = n \/ j \in 1 .. (n - 1))
    BY <2>4
  <2>7. CASE rs[n].rssi > rs[i].rssi
    <3>1. ASSUME NEW j \in 1 .. n
          PROVE  rs[j].rssi < rs[n].rssi \/ (rs[j].rssi = rs[n].rssi /\ n <= j)
      <4>1. rs[j].rssi \in Int /\ rs[i].rssi \in Int /\ rs[n].rssi \in Int
        BY <1>0, <2>4, <2>6
      <4>2. CASE j = n
        BY <4>1, <4>2
      <4>3. CASE j # n
        <5>1. rs[j].rssi < rs[i].rssi \/ rs[j].rssi = rs[i].rssi
          BY <2>5, <2>6, <4>3 DEF IsStrongest
        <5>. QED  BY <2>7, <4>1, <5>1
      <4>. QED  BY <4>2, <4>3
    <3>2. n \in 1 .. n
      BY <2>4
    <3>3. IsStrongest(rs, n, n)
      BY <3>1 DEF IsStrongest
    <3>. QED  BY <2>2, <3>2, <3>3
  <2>8. CASE ~(rs[n].rssi > rs[i].rssi)
    <3>1. ASSUME NEW j \in 1 .. n
          PROVE  rs[j].rssi < rs[i].rssi \/ (rs[j].rssi = rs[i].rssi /\ i <= j)
      <4>1. rs[j].rssi \in Int /\ rs[i].rssi \in Int /\ rs[n].rssi \in Int
        BY <1>0, <2>4, <2>6
      <4>2. CASE j = n
        BY <2>4, <2>6, <2>8, <4>1, <4>2
      <4>3. CASE j # n
        BY <2>5, <2>6, <4>3 DEF IsStrongest
      <4>. QED  BY <4>2, <4>3
    <3>2. IsStrongest(rs, n, i)
      BY <3>1 DEF IsStrongest
    <3>. QED  BY <2>2, <2>6, <3>2
  <2>. QED  BY <2>7, <2>8
<1>2. PICK i \in 1 .. Len(rs) : IsStrongest(rs, Len(rs), i)
  <2>1. Len(rs) \in 1 .. Len(rs) /\ Len(rs) \notin Bad
    BY <1>1
  <2>. QED  BY <2>1
<1>3. strongest(rs) = rs[CHOOSE k \in 1 .. Len(rs) : IsStrongest(rs, Len(rs), k)]
  <2>1. DOMAIN rs = 1 .. Len(rs)
    OBVIOUS
  <2>. QED  BY <2>1 DEF strongest, IsStrongest
<1>. QED  BY <1>2, <1>3

\* What the link events touch.
LinkType ==
    /\ aggregate \in BOOLEAN /\ seenConn \in BOOLEAN
    /\ conns \in BOOLEAN \cup {None}

\* The flag is the truth, and what is unread, or was read last, is the flag.
LinkInv ==
    /\ LinkType
    /\ aggregate <=> connected # {}
    /\ conns # None => conns = aggregate
    /\ conns = None => seenConn = aggregate

LEMMA NoneIsNoFlag == None \notin BOOLEAN
BY ScannerAssumption

LEMMA NoneIsNoStatus == None \notin Status
BY ScannerAssumption

LEMMA LinkInvStep ==
    ASSUME LinkInv, [Next]_vars
    PROVE  LinkInv'
<1>. USE NoneIsNoFlag DEF LinkInv, LinkType
<1>1. CASE RecvConn
  <2>1. PICK l \in Links, c \in BOOLEAN :
            /\ aggregate' = anyLink(connected', c)
            /\ IF aggregate' # aggregate THEN emitConn(aggregate') ELSE UNCHANGED conns
    BY <1>1 DEF RecvConn
  <2>2. aggregate' \in BOOLEAN /\ (aggregate' <=> connected' # {})
    BY <2>1 DEF anyLink
  <2>3. seenConn' = seenConn
    BY <1>1 DEF RecvConn
  <2>4. CASE aggregate' # aggregate
    <3>1. conns' = aggregate'
      BY <2>1, <2>4 DEF emitConn
    <3>. QED  BY <2>2, <2>3, <3>1
  <2>5. CASE aggregate' = aggregate
    <3>1. conns' = conns
      BY <2>1, <2>5
    <3>. QED  BY <2>2, <2>3, <2>5, <3>1
  <2>. QED  BY <2>4, <2>5
<1>2. CASE TakeConn
  BY <1>2 DEF TakeConn
<1>3. CASE RecvBeacon
  BY <1>3 DEF RecvBeacon
<1>4. CASE RecvClosed \/ RecvDone
  BY <1>4 DEF RecvClosed, RecvDone
<1>5. CASE SourceStop \/ Close \/ TakeUpdate \/ Clock
  BY <1>5 DEF SourceStop, Close, TakeUpdate, Clock
<1>6. CASE UNCHANGED vars
  BY <1>6 DEF vars
<1>. QED  BY <1>1, <1>2, <1>3, <1>4, <1>5, <1>6 DEF Next, Run, Env

(* Whatever link events of however many headsets arrive, and however late the
   monitor reads, what it holds or will read next says whether any AirPods is
   connected (scanner.run, the conns case).                                   *)
THEOREM ConsumerAgrees == Spec => []ConsumerConverges
<1>1. Init => LinkInv
  BY DEF Init, LinkInv, LinkType
<1>2. LinkInv /\ [Next]_vars => LinkInv'
  BY LinkInvStep
<1>3. LinkInv => ConsumerConverges
  BY DEF LinkInv, LinkType, ConsumerConverges
<1>. QED  BY <1>1, <1>2, <1>3, PTL DEF Spec

-----------------------------------------------------------------------------
(* The selector. *)

\* The beacons remembered are in order and none is from the future.
SelectorInv ==
    /\ recent \in Seq(Beacon) /\ Ordered(recent)
    /\ now \in 0 .. MaxTime
    /\ \A i \in 1 .. Len(recent) : recent[i].time <= now

\* What best leaves in recent when beacon b arrives.
Selected(rs, b) ==
    /\ rs \in Seq(Beacon) /\ Ordered(rs)
    /\ Len(rs) >= 1 /\ rs[Len(rs)] = b
    /\ \A i \in 1 .. Len(rs) : rs[i].time <= now /\ now - rs[i].time <= Window
    /\ \E i \in 1 .. Len(rs) :
          /\ strongest(rs) = rs[i]
          /\ \A j \in 1 .. Len(rs) : rs[j].rssi <= rs[i].rssi

LEMMA BestFacts ==
    ASSUME SelectorInv, NEW b \in Beacon, b.time = now
    PROVE  Selected(prune(Append(recent, b), now), b)
<1>. DEFINE all == Append(recent, b)
            rs  == prune(all, now)
<1>1. /\ all \in Seq(Beacon) /\ all # <<>> /\ Len(all) = Len(recent) + 1 /\ all[Len(all)] = b
      /\ \A i \in 1 .. Len(recent) : all[i] = recent[i]
  BY DEF SelectorInv
<1>2. now \in Int /\ Window \in Nat
  BY Constants DEF SelectorInv
<1>3. \A i \in 1 .. Len(all) : i = Len(all) \/ i \in 1 .. Len(recent)
  BY <1>1 DEF SelectorInv
<1>4. \A i \in 1 .. Len(all) : all[i].time <= now
  BY <1>1, <1>2, <1>3 DEF SelectorInv
<1>5. Ordered(all)
  <2>. SUFFICES ASSUME NEW i \in 1 .. Len(all), NEW j \in 1 .. Len(all), i <= j
                PROVE  all[i].time <= all[j].time
    BY DEF Ordered
  <2>1. CASE j = Len(all)
    BY <1>1, <1>4, <2>1
  <2>2. CASE j # Len(all)
    <3>1. i \in 1 .. Len(recent) /\ j \in 1 .. Len(recent)
      BY <1>1, <2>2 DEF SelectorInv
    <3>. QED  BY <1>1, <3>1 DEF SelectorInv, Ordered
  <2>. QED  BY <2>1, <2>2
<1>. HIDE DEF all
<1>6. now - all[Len(all)].time <= Window
  BY <1>1, <1>2
<1>7. /\ KeptOK(rs, all, now, Len(all))
      /\ Len(rs) >= 1 /\ rs[Len(rs)] = b
  BY <1>1, <1>2, <1>5, <1>6, PruneFacts
<1>. HIDE DEF rs
<1>8. rs \in Seq(Beacon) /\ Ordered(rs) /\ rs # <<>>
  BY <1>7 DEF KeptOK
<1>9. ASSUME NEW i \in 1 .. Len(rs) PROVE rs[i].time <= now /\ now - rs[i].time <= Window
  BY <1>4, <1>7 DEF KeptOK
<1>10. PICK i \in 1 .. Len(rs) : strongest(rs) = rs[i] /\ IsStrongest(rs, Len(rs), i)
  BY <1>8, StrongestFacts
<1>11. ASSUME NEW j \in 1 .. Len(rs) PROVE rs[j].rssi <= rs[i].rssi
  <2>1. rs[j].rssi \in Int /\ rs[i].rssi \in Int
    BY <1>8, BeaconFields
  <2>2. rs[j].rssi < rs[i].rssi \/ rs[j].rssi = rs[i].rssi
    BY <1>10 DEF IsStrongest
  <2>. QED  BY <2>1, <2>2
<1>. QED  BY <1>7, <1>8, <1>9, <1>10, <1>11 DEF Selected, rs, all

LEMMA BeaconArrives ==
    ASSUME SelectorInv, RecvBeacon
    PROVE  \E b \in Beacon :
              /\ b.time = now /\ Selected(recent', b)
              /\ Len(recent') <= MaxRecent
              /\ updates' = IF passes(recent', b) /\ decodes(chosen(recent', b))
                            THEN decode(chosen(recent', b)) ELSE updates
<1>1. PICK a \in Addr, r \in RSSIs :
          LET b == [addr |-> a, rssi |-> r, time |-> now] IN
          /\ recent' = prune(Append(recent, b), now)
          /\ Len(recent') <= MaxRecent
          /\ updates' = IF passes(recent', b) /\ decodes(chosen(recent', b))
                        THEN decode(chosen(recent', b)) ELSE updates
  BY DEF RecvBeacon
<1>. DEFINE b == [addr |-> a, rssi |-> r, time |-> now]
<1>2. b \in Beacon /\ b.time = now
  BY DEF SelectorInv, Beacon
<1>. HIDE DEF b
<1>3. Selected(recent', b)
  BY <1>1, <1>2, BestFacts DEF b
<1>. QED  BY <1>1, <1>2, <1>3 DEF b

LEMMA ChosenFacts ==
    ASSUME NEW rs, NEW b \in Beacon, Selected(rs, b)
    PROVE  /\ \E i \in 1 .. Len(rs) : chosen(rs, b) = rs[i]
           /\ chosen(rs, b) \in Beacon
           /\ chosen(rs, b).addr = strongest(rs).addr
<1>1. PICK i \in 1 .. Len(rs) : strongest(rs) = rs[i]
  BY DEF Selected
<1>2. Len(rs) \in 1 .. Len(rs)
  BY DEF Selected
<1>3. CASE strongest(rs).addr = b.addr
  BY <1>2, <1>3 DEF chosen, Selected
<1>4. CASE strongest(rs).addr # b.addr
  <2>1. chosen(rs, b) = rs[i]
    BY <1>1, <1>4 DEF chosen
  <2>. QED  BY <1>1, <2>1 DEF Selected
<1>. QED  BY <1>3, <1>4

LEMMA DecodeType ==
    ASSUME NEW b \in Beacon, decodes(b)
    PROVE  decode(b) \in Status /\ decode(b).addr = b.addr /\ decode(b).cap = b.time
BY BeaconFields DEF decodes, decode, Status

LEMMA SelectorInvStep == SelectorInv /\ [Next]_vars => SelectorInv'
<1>. SUFFICES ASSUME SelectorInv, [Next]_vars PROVE SelectorInv'
  OBVIOUS
<1>1. CASE RecvBeacon
  <2>1. UNCHANGED now
    BY <1>1 DEF RecvBeacon
  <2>. QED  BY <1>1, <2>1, BeaconArrives DEF SelectorInv, Selected
<1>2. CASE Clock
  <2>1. recent' = recent /\ now' = now + 1 /\ now' \in 0 .. MaxTime
    BY <1>2, Constants DEF Clock, SelectorInv
  <2>2. ASSUME NEW i \in 1 .. Len(recent) PROVE recent[i].time <= now'
    <3>1. recent[i].time \in Int /\ recent[i].time <= now /\ now \in Int
      BY BeaconFields DEF SelectorInv
    <3>. QED  BY <2>1, <3>1
  <2>. QED  BY <2>1, <2>2 DEF SelectorInv, Ordered
<1>3. CASE UNCHANGED <<recent, now>>
  BY <1>3 DEF SelectorInv, Ordered
<1>. QED
  BY <1>1, <1>2, <1>3 DEF Next, Run, Env, vars, RecvConn, RecvClosed, RecvDone,
     SourceStop, Close, TakeUpdate, TakeConn

LEMMA SelectorInvariant == Spec => []SelectorInv
<1>1. Init => SelectorInv
  BY Constants DEF Init, SelectorInv, Ordered
<1>. QED  BY <1>1, SelectorInvStep, PTL DEF Spec

\* The rest of the state.
OtherType ==
    /\ Len(recent) <= MaxRecent
    /\ connected \subseteq Links /\ aggregate \in BOOLEAN
    /\ updates \in Status \cup {None}
    /\ conns \in BOOLEAN \cup {None}
    /\ scannerOpen \in BOOLEAN /\ scDone \in BOOLEAN /\ srcOpen \in BOOLEAN
    /\ seenConn \in BOOLEAN

LEMMA OtherTypeStep ==
    ASSUME OtherType, SelectorInv, [Next]_vars
    PROVE  OtherType'
<1>. USE DEF OtherType
<1>1. CASE RecvBeacon
  <2>1. PICK b \in Beacon :
            /\ Selected(recent', b) /\ Len(recent') <= MaxRecent
            /\ updates' = IF passes(recent', b) /\ decodes(chosen(recent', b))
                          THEN decode(chosen(recent', b)) ELSE updates
    BY <1>1, BeaconArrives
  <2>2. updates' \in Status \cup {None}
    BY <2>1, ChosenFacts, DecodeType
  <2>. QED  BY <1>1, <2>1, <2>2 DEF RecvBeacon
<1>2. CASE RecvConn
  <2>1. PICK l \in Links, c \in BOOLEAN :
            /\ connected' = IF c THEN connected \cup {l} ELSE connected \ {l}
            /\ aggregate' = anyLink(connected', c)
            /\ IF aggregate' # aggregate THEN emitConn(aggregate') ELSE UNCHANGED conns
    BY <1>2 DEF RecvConn
  <2>2. aggregate' \in BOOLEAN
    BY <2>1 DEF anyLink
  <2>3. conns' \in BOOLEAN \cup {None}
    BY <2>1, <2>2 DEF emitConn
  <2>. QED  BY <1>2, <2>1, <2>2, <2>3 DEF RecvConn
<1>3. CASE RecvClosed \/ RecvDone \/ SourceStop \/ Close
  BY <1>3 DEF RecvClosed, RecvDone, SourceStop, Close
<1>4. CASE TakeUpdate \/ TakeConn \/ Clock
  BY <1>4 DEF TakeUpdate, TakeConn, Clock
<1>5. CASE UNCHANGED vars
  BY <1>5 DEF vars
<1>. QED  BY <1>1, <1>2, <1>3, <1>4, <1>5 DEF Next, Run, Env

(* The scanner's state has its type: in particular a published status comes from
   an AirPods and the beacons of a window fit MaxRecent.                      *)
THEOREM TypeCorrect == Spec => []TypeOK
<1>1. Init => OtherType
  <2>. SUFFICES ASSUME Init PROVE OtherType
    OBVIOUS
  <2>1. Len(recent) <= MaxRecent
    <3>1. MaxRecent \in Nat
      BY ScannerAssumption
    <3>. QED  BY <3>1 DEF Init
  <2>. QED  BY <2>1 DEF Init, OtherType
<1>2. OtherType /\ SelectorInv => TypeOK
  BY DEF OtherType, SelectorInv, TypeOK
<1>3. OtherType /\ SelectorInv /\ [Next]_vars => OtherType'
  BY OtherTypeStep
<1>. QED  BY <1>1, <1>2, <1>3, SelectorInvariant, PTL DEF Spec

LEMMA WindowStep ==
    ASSUME RecentIsAWindow, SelectorInv, [Next]_vars
    PROVE  RecentIsAWindow'
<1>1. CASE RecvBeacon
  <2>. SUFFICES ASSUME NEW i \in DOMAIN recent', NEW j \in DOMAIN recent', i <= j
                PROVE  recent'[j].time - recent'[i].time \in 0 .. Window
    BY DEF RecentIsAWindow
  <2>1. PICK b \in Beacon : Selected(recent', b)
    BY <1>1, BeaconArrives
  <2>2. i \in 1 .. Len(recent') /\ j \in 1 .. Len(recent')
    BY <2>1 DEF Selected
  <2>3. recent'[i].time \in Int /\ recent'[j].time \in Int /\ now \in Int
    BY <2>1, <2>2, BeaconFields DEF Selected, SelectorInv
  <2>4. recent'[i].time <= recent'[j].time /\ recent'[j].time <= now
        /\ now - recent'[i].time <= Window
    BY <2>1, <2>2 DEF Selected, Ordered
  <2>. QED  BY <2>3, <2>4, Constants
<1>2. CASE UNCHANGED recent
  BY <1>2 DEF RecentIsAWindow
<1>. QED
  BY <1>1, <1>2 DEF Next, Run, Env, vars, RecvConn, RecvClosed, RecvDone,
     SourceStop, Close, TakeUpdate, TakeConn, Clock

(* The selector remembers beacons in order and none more than a window older than
   the newest, for any window and any number of beacons (selector.best).      *)
THEOREM RecentBounded == Spec => []RecentIsAWindow
<1>1. Init => RecentIsAWindow
  BY DEF Init, RecentIsAWindow
<1>. QED  BY <1>1, WindowStep, SelectorInvariant, PTL DEF Spec

LEMMA PublishesIsBeacon ==
    ASSUME SelectorInv, [Next]_vars, Publishes
    PROVE  \E b \in Beacon :
              /\ b.time = now /\ Selected(recent', b) /\ passes(recent', b)
              /\ chosen(recent', b) \in Beacon
              /\ updates'.addr = chosen(recent', b).addr
              /\ updates'.cap = chosen(recent', b).time
<1>1. RecvBeacon
  BY DEF Publishes, Next, Run, Env, vars, RecvConn, RecvClosed, RecvDone,
     SourceStop, Close, TakeUpdate, TakeConn, Clock
<1>2. PICK b \in Beacon :
          /\ b.time = now /\ Selected(recent', b)
          /\ updates' = IF passes(recent', b) /\ decodes(chosen(recent', b))
                        THEN decode(chosen(recent', b)) ELSE updates
  BY <1>1, BeaconArrives
<1>3. passes(recent', b) /\ decodes(chosen(recent', b))
      /\ updates' = decode(chosen(recent', b))
  BY <1>2 DEF Publishes
<1>4. chosen(recent', b) \in Beacon
  BY <1>2, ChosenFacts
<1>. QED  BY <1>2, <1>3, <1>4, DecodeType

(* A published status is a reading of the window that itself cleared the floor,
   for any floor, window and signal strengths (selector.best).                *)
THEOREM PublishedRecentStrong == Spec => PublishedIsRecentAndStrong
<1>1. ASSUME SelectorInv, [Next]_vars, Publishes
      PROVE  /\ now - updates'.cap \in 0 .. Window
             /\ \E i \in DOMAIN recent' :
                   ReadingOf(updates', i) /\ recent'[i].rssi >= MinRSSI
  <2>1. PICK b \in Beacon :
            /\ Selected(recent', b) /\ passes(recent', b)
            /\ updates'.addr = chosen(recent', b).addr
            /\ updates'.cap = chosen(recent', b).time
    BY <1>1, PublishesIsBeacon
  <2>2. PICK i \in 1 .. Len(recent') : chosen(recent', b) = recent'[i]
    BY <2>1, ChosenFacts
  <2>3. recent'[i].time \in Int /\ now \in Int /\ i \in DOMAIN recent'
    BY <1>1, <2>1, BeaconFields DEF Selected, SelectorInv
  <2>4. recent'[i].time <= now /\ now - recent'[i].time <= Window
    BY <2>1 DEF Selected
  <2>5. now - updates'.cap \in 0 .. Window
    BY <2>1, <2>2, <2>3, <2>4, Constants
  <2>6. ReadingOf(updates', i) /\ recent'[i].rssi >= MinRSSI
    BY <2>1, <2>2 DEF ReadingOf, passes
  <2>. QED  BY <2>3, <2>5, <2>6
<1>. QED  BY <1>1, SelectorInvariant, PTL DEF Spec, PublishedIsRecentAndStrong

(* A published status is from the device with the strongest beacon of the window,
   and its newest reading if that device sent the newest beacon, for any number
   of devices (selector.best).                                                *)
THEOREM PublishedLoudest == Spec => PublishedIsLoudest
<1>1. ASSUME SelectorInv, [Next]_vars, Publishes
      PROVE  /\ \E i \in DOMAIN recent' :
                   /\ recent'[i].addr = updates'.addr
                   /\ \A j \in DOMAIN recent' : recent'[j].rssi <= recent'[i].rssi
             /\ Last(recent').addr = updates'.addr => updates'.cap = now
  <2>1. PICK b \in Beacon :
            /\ b.time = now /\ Selected(recent', b)
            /\ updates'.addr = chosen(recent', b).addr
            /\ updates'.cap = chosen(recent', b).time
    BY <1>1, PublishesIsBeacon
  <2>2. DOMAIN recent' = 1 .. Len(recent') /\ Last(recent') = b
    BY <2>1 DEF Selected, Last
  <2>3. PICK i \in 1 .. Len(recent') :
            /\ strongest(recent') = recent'[i]
            /\ \A j \in 1 .. Len(recent') : recent'[j].rssi <= recent'[i].rssi
    BY <2>1 DEF Selected
  <2>4. updates'.addr = recent'[i].addr
    BY <2>1, <2>3, ChosenFacts
  <2>5. ASSUME b.addr = updates'.addr PROVE updates'.cap = now
    <3>1. chosen(recent', b) = b
      BY <2>3, <2>4, <2>5 DEF chosen
    <3>. QED  BY <2>1, <3>1
  <2>. QED  BY <2>2, <2>3, <2>4, <2>5
<1>. QED  BY <1>1, SelectorInvariant, PTL DEF Spec, PublishedIsLoudest

(* The loudest AirPods beacon nearby is never left unpublished unless another
   Apple device drowns it, for any mixture of devices (scanner.run).          *)
THEOREM LoudestPublished == Spec => LoudestPodsPublished
<1>1. ASSUME SelectorInv, [Next]_vars, LoudestPods, ~Drowned
      PROVE  AsLoudIsOut
  <2>1. RecvBeacon
    BY <1>1 DEF LoudestPods, Arrives, Next, Run, Env, vars, RecvConn, RecvClosed,
       RecvDone, SourceStop, Close, TakeUpdate, TakeConn, Clock
  <2>2. PICK b \in Beacon :
            /\ Selected(recent', b)
            /\ updates' = IF passes(recent', b) /\ decodes(chosen(recent', b))
                          THEN decode(chosen(recent', b)) ELSE updates
    BY <1>1, <2>1, BeaconArrives
  <2>3. DOMAIN recent' = 1 .. Len(recent') /\ Last(recent') = b
    BY <2>2 DEF Selected, Last
  <2>4. ASSUME NEW j \in 1 .. Len(recent')
        PROVE  /\ recent'[j].rssi \in Int /\ b.rssi \in Int
               /\ recent'[j].rssi <= b.rssi
               /\ recent'[j].rssi >= b.rssi => recent'[j].addr \in PodsAddr
    <3>1. recent'[j] \in Beacon
      BY <2>2 DEF Selected
    <3>2. recent'[j].rssi \in Int /\ b.rssi \in Int /\ recent'[j].addr \in Addr
      BY <3>1, BeaconFields
    <3>3. CASE recent'[j].addr \in PodsAddr
      <4>1. recent'[j].rssi <= b.rssi
        BY <1>1, <2>3, <3>3 DEF LoudestPods
      <4>. QED  BY <3>2, <3>3, <4>1
    <3>4. CASE recent'[j].addr \in OtherAddr
      <4>1. ~(recent'[j].rssi >= b.rssi)
        BY <1>1, <2>3, <3>4 DEF Drowned
      <4>. QED  BY <3>2, <4>1
    <3>. QED  BY <3>2, <3>3, <3>4 DEF Addr
  <2>5. PICK i \in 1 .. Len(recent') :
            /\ strongest(recent') = recent'[i]
            /\ \A j \in 1 .. Len(recent') : recent'[j].rssi <= recent'[i].rssi
    BY <2>2 DEF Selected
  <2>6. Len(recent') \in 1 .. Len(recent') /\ recent'[Len(recent')] = b
    BY <2>2 DEF Selected
  <2>7. recent'[i].rssi = b.rssi /\ recent'[i].addr \in PodsAddr
    BY <2>4, <2>5, <2>6
  <2>8. chosen(recent', b) \in {b, recent'[i]} /\ chosen(recent', b).addr = recent'[i].addr
    BY <2>5 DEF chosen
  <2>9. passes(recent', b) /\ decodes(chosen(recent', b))
    BY <1>1, <2>3, <2>7, <2>8 DEF passes, decodes, LoudestPods
  <2>10. updates' \in Status /\ updates'.addr = recent'[i].addr
    BY <2>2, <2>8, <2>9, ChosenFacts, DecodeType
  <2>11. updates' # None
    BY <2>10, NoneIsNoStatus
  <2>. QED  BY <2>3, <2>7, <2>10, <2>11 DEF AsLoudIsOut
<1>. QED  BY <1>1, SelectorInvariant, PTL DEF Spec, LoudestPodsPublished
=============================================================================
