---------------------------- MODULE SourceProofs ----------------------------
(* Proofs about the BlueZ source. *)
EXTENDS Source, SequenceTheorems, TLAPS

Tracked == [data : Payloads \cup {None}, rssi : RSSIs \cup {None}, isAirPods : BOOLEAN]

LEMMA MergeType ==
    ASSUME NEW st \in Tracked, NEW sig \in Signal
    PROVE  merge(st, sig) \in Tracked
BY DEF merge, Tracked, Signal, Object

LEMMA BeaconType ==
    ASSUME NEW st \in Tracked, NEW sig \in Signal
    PROVE  /\ beaconOf(st, sig) \in Beacon \cup {None}
           /\ linkOf(st, sig) \in Link \cup {None}
<1>1. sig.val.connected \in BOOLEAN
  BY DEF Signal, Object
<1>. QED  BY <1>1 DEF beaconOf, linkOf, Tracked, Signal, Beacon, Link

LEMMA WholeType ==
    ASSUME NEW d \in Devices, NEW v \in Object
    PROVE  whole(d, v) \in Signal
BY DEF whole, namesOf, Signal, Props

LEMMA ChangedType ==
    ASSUME NEW old \in Object, NEW new \in Object
    PROVE  changed(old, new) \subseteq Props
BY DEF changed, Props

\* What feed leaves behind has its type.
LEMMA FeedType ==
    ASSUME TypeOK, NEW sig \in Signal, NEW rest, rest \subseteq Signal, feed(sig, rest)
    PROVE  /\ tracker' \in [Devices -> Tracked] /\ toSeed' \subseteq Signal
           /\ pc' \in Running
           /\ beacon' \in Beacon \cup {None} /\ (beacon' # None <=> pc' = "sendBeacon")
           /\ link' \in Link \cup {None} /\ (pc' = "sendLink" => link' # None)
<1>1. sig.dev \in Devices /\ tracker \in [Devices -> Tracked]
  BY DEF TypeOK, Signal, Tracked
<1>2. tracker' \in [Devices -> Tracked]
  BY <1>1, MergeType DEF feed
<1>3. beacon' \in Beacon \cup {None} /\ link' \in Link \cup {None}
  BY <1>1, <1>2, BeaconType DEF feed
<1>. QED  BY <1>2, <1>3 DEF feed, resume, Running

LEMMA DeliverType ==
    ASSUME TypeOK, NEW sig \in Signal, deliver(sig)
    PROVE  /\ signals' \in Seq(Signal) /\ Len(signals') <= SigCap
           /\ late' \in Seq(Signal) /\ (late' # <<>> => overflowed') /\ overflowed' \in BOOLEAN
<1>. DEFINE s == signals
            l == late
<1>1. /\ s \in Seq(Signal) /\ Len(s) <= SigCap /\ SigCap \in Nat
      /\ l \in Seq(Signal) /\ (l # <<>> => overflowed) /\ overflowed \in BOOLEAN
  BY SourceAssumption DEF TypeOK
<1>2. /\ Append(s, sig) \in Seq(Signal) /\ Len(Append(s, sig)) = Len(s) + 1
      /\ Append(l, sig) \in Seq(Signal)
  BY <1>1
<1>3. Len(s) \in Nat
  BY <1>1
<1>4. CASE ~listening
  BY <1>1, <1>4 DEF deliver
<1>6. CASE listening /\ ~(Len(s) < SigCap)
  <2>1. late' = Append(l, sig) /\ overflowed' = TRUE /\ signals' = s
    BY <1>6 DEF deliver
  <2>. QED  BY <1>1, <1>2, <2>1
<1>5. CASE listening /\ Len(s) < SigCap
  BY <1>1, <1>2, <1>3, <1>5 DEF deliver
<1>. QED  BY <1>4, <1>5, <1>6

LEMMA TypeInit == Init => TypeOK
<1>. SUFFICES ASSUME Init PROVE TypeOK
  OBVIOUS
<1>1. absent \in Object /\ newDevice \in Tracked
  BY DEF absent, Object, newDevice, Tracked
<1>2. bz \in [Devices -> Object] /\ objects \subseteq Devices
  BY DEF Init
<1>3. knownAtEdge \in [Devices -> BOOLEAN]
  BY <1>2 DEF Init, Object
<1>4. <<>> \in Seq(Signal) /\ Len(<<>>) = 0
  OBVIOUS
<1>5. /\ tracker \in [Devices -> Tracked] /\ heard \in [Devices -> Beacon \cup {None}]
      /\ signals \in Seq(Signal) /\ Len(signals) <= SigCap
      /\ late \in Seq(Signal) /\ late = <<>>
  BY <1>1, <1>4, SourceAssumption DEF Init
<1>6. changes \in 0 .. MaxChange
  BY SourceAssumption DEF Init
<1>7. /\ busOpen \in BOOLEAN /\ listening \in BOOLEAN
      /\ chanClosed \in BOOLEAN /\ pc = "new" /\ toSeed = {} /\ beacon = None /\ link = None
      /\ closer = "no" /\ links = {} /\ seedFailed \in BOOLEAN /\ overflowed \in BOOLEAN
  BY DEF Init
<1>. QED  BY <1>2, <1>3, <1>5, <1>6, <1>7 DEF TypeOK, Tracked, Running

LEMMA TypeStep == TypeOK /\ [Next]_vars => TypeOK'
<1>. SUFFICES ASSUME TypeOK, [Next]_vars PROVE TypeOK'
  OBVIOUS
<1>. USE SourceAssumption
<1>0. <<>> \in Seq(Signal)
  OBVIOUS
<1>1. CASE Construct
  BY <1>1 DEF Construct, ConstructFails, FindAdapter, StartDiscovery, Register, TypeOK,
              bluezVars, libraryVars, scannerVars, history, Running
<1>2. CASE Enumerate
  <2>1. toSeed' \subseteq Signal
    BY <1>2, WholeType DEF Enumerate, TypeOK
  <2>. QED  BY <1>2, <2>1 DEF Enumerate, resume, TypeOK, bluezVars, libraryVars,
                              scannerVars, history, Running
<1>3. CASE EnumerateFails
  BY <1>3 DEF EnumerateFails, TypeOK, bluezVars, libraryVars, scannerVars, Running
<1>4. CASE Seed
  <2>1. PICK sig \in toSeed : feed(sig, toSeed \ {sig})
    BY <1>4 DEF Seed
  <2>2. sig \in Signal /\ toSeed \ {sig} \subseteq Signal
    BY DEF TypeOK
  <2>3. UNCHANGED <<bluezVars, libraryVars, closer, scannerVars, history>>
    BY <1>4 DEF Seed
  <2>4. /\ tracker' \in [Devices -> Tracked] /\ toSeed' \subseteq Signal
        /\ pc' \in Running
        /\ beacon' \in Beacon \cup {None} /\ (beacon' # None <=> pc' = "sendBeacon")
        /\ link' \in Link \cup {None} /\ (pc' = "sendLink" => link' # None)
    BY <2>1, <2>2, FeedType
  <2>. QED  BY <2>3, <2>4 DEF TypeOK, Tracked, bluezVars, libraryVars, scannerVars, history
<1>5. CASE RecvSignal
  <2>1. signals # <<>> /\ feed(Head(signals), {}) /\ signals' = Tail(signals)
    BY <1>5 DEF RecvSignal
  <2>2. Head(signals) \in Signal /\ signals' \in Seq(Signal) /\ Len(signals') <= SigCap
    BY <2>1 DEF TypeOK
  <2>3. UNCHANGED <<bluezVars, busOpen, listening, late, chanClosed, closer,
                    scannerVars, history>>
    BY <1>5 DEF RecvSignal
  <2>4. /\ tracker' \in [Devices -> Tracked] /\ toSeed' \subseteq Signal
        /\ pc' \in Running
        /\ beacon' \in Beacon \cup {None} /\ (beacon' # None <=> pc' = "sendBeacon")
        /\ link' \in Link \cup {None} /\ (pc' = "sendLink" => link' # None)
    BY <2>1, <2>2, FeedType
  <2>. QED  BY <2>2, <2>3, <2>4 DEF TypeOK, Tracked, bluezVars, scannerVars, history
<1>6. CASE SendBeacon
  <2>1. beacon \in Beacon /\ beacon.dev \in Devices
    BY <1>6 DEF SendBeacon, TypeOK, Beacon
  <2>. QED  BY <1>6, <2>1 DEF SendBeacon, resume, TypeOK, bluezVars, libraryVars, history,
                              Running
<1>7. CASE SendLink
  <2>1. link.dev \in Devices
    BY <1>7 DEF SendLink, TypeOK, Link
  <2>. QED  BY <1>7, <2>1 DEF SendLink, resume, TypeOK, bluezVars, libraryVars, history,
                              Running
<1>8. CASE Stop \/ RecvClosed
  BY <1>8 DEF Stop, RecvClosed, Ends, TypeOK, bluezVars, libraryVars, scannerVars,
              history, Running
<1>9. CASE Close
  BY <1>0, <1>9 DEF Close, CloseDone, RemoveSignal, CloseBus, CloseReturn, TypeOK, bluezVars,
              libraryVars, runVars, scannerVars, history, Running
<1>10. ASSUME NEW d \in Devices, Change(d) PROVE TypeOK'
  <2>1. PICK v \in Object :
          /\ bz' = [bz EXCEPT ![d] = v]
          /\ deliver([dev |-> d, names |-> changed(bz[d], v), val |-> v])
          /\ knownAtEdge' = IF v.connected # bz[d].connected
                            THEN [knownAtEdge EXCEPT ![d] = v.airPods] ELSE knownAtEdge
    BY <1>10 DEF Change
  <2>. DEFINE sig == [dev |-> d, names |-> changed(bz[d], v), val |-> v]
  <2>2. sig \in Signal /\ v.airPods \in BOOLEAN
    BY ChangedType DEF Signal, TypeOK, Object
  <2>. HIDE DEF sig
  <2>3. /\ signals' \in Seq(Signal) /\ Len(signals') <= SigCap
        /\ late' \in Seq(Signal) /\ (late' # <<>> => overflowed') /\ overflowed' \in BOOLEAN
    <3>1. deliver(sig)
      BY <2>1 DEF sig
    <3>. QED  BY <3>1, <2>2, DeliverType
  <2>4. bz' \in [Devices -> Object] /\ knownAtEdge' \in [Devices -> BOOLEAN]
    BY <2>1, <2>2 DEF TypeOK
  <2>. QED  BY <1>10, <2>3, <2>4 DEF Change, TypeOK, runVars, scannerVars
<1>11. ASSUME NEW d \in Devices, Appear(d) PROVE TypeOK'
  <2>1. PICK v \in Object :
          /\ bz' = [bz EXCEPT ![d] = v] /\ deliver(whole(d, v))
          /\ knownAtEdge' = [knownAtEdge EXCEPT ![d] = v.airPods]
    BY <1>11 DEF Appear
  <2>2. whole(d, v) \in Signal /\ v.airPods \in BOOLEAN
    BY WholeType DEF Object
  <2>3. /\ signals' \in Seq(Signal) /\ Len(signals') <= SigCap
        /\ late' \in Seq(Signal) /\ (late' # <<>> => overflowed') /\ overflowed' \in BOOLEAN
    BY <2>1, <2>2, DeliverType
  <2>4. bz' \in [Devices -> Object] /\ knownAtEdge' \in [Devices -> BOOLEAN]
    BY <2>1, <2>2 DEF TypeOK
  <2>. QED  BY <1>11, <2>3, <2>4 DEF Appear, TypeOK, runVars, scannerVars
<1>12. ASSUME NEW d \in Devices, Disappear(d) PROVE TypeOK'
  <2>1. bz' \in [Devices -> Object] /\ objects' \subseteq Devices /\ changes' \in 0 .. MaxChange
    BY <1>12 DEF Disappear, TypeOK, absent, Object
  <2>. QED  BY <1>12, <2>1 DEF Disappear, TypeOK, libraryVars, runVars, scannerVars, history
<1>13. CASE DeliverLate
  <2>1. PICK i \in DOMAIN late :
          /\ signals' = Append(signals, late[i])
          /\ late' = SubSeq(late, 1, i - 1) \o SubSeq(late, i + 1, Len(late))
    BY <1>13 DEF DeliverLate
  <2>2. i \in 1 .. Len(late) /\ late[i] \in Signal /\ overflowed
    BY DEF TypeOK
  <2>3. SubSeq(late, 1, i - 1) \in Seq(Signal) /\ SubSeq(late, i + 1, Len(late)) \in Seq(Signal)
    BY <2>2, SubSeqProperties DEF TypeOK
  <2>4. late' \in Seq(Signal)
    BY <2>1, <2>3, ConcatProperties
  <2>5. signals' \in Seq(Signal) /\ Len(signals') <= SigCap
    BY <1>13, <2>1, <2>2 DEF DeliverLate, TypeOK
  <2>. QED  BY <1>13, <2>2, <2>4, <2>5 DEF DeliverLate, TypeOK, bluezVars, runVars,
                                           scannerVars, history
<1>14. CASE BusLost
  BY <1>0, <1>14 DEF BusLost, TypeOK, bluezVars, runVars, scannerVars, history
<1>15. CASE UNCHANGED vars
  BY <1>15 DEF vars, TypeOK, bluezVars, libraryVars, runVars, scannerVars, history
<1>. QED  BY <1>1, <1>2, <1>3, <1>4, <1>5, <1>6, <1>7, <1>8, <1>9, <1>10, <1>11, <1>12,
            <1>13, <1>14, <1>15 DEF Next, Run, Env, BlueZ

(* Every variable has its type, and a pending event goes with the place run is at
   (deviceTracker and bluezSource.run, ble/bluez.go).                         *)
THEOREM TypeCorrect == Spec => []TypeOK
BY TypeInit, TypeStep, PTL DEF Spec

-----------------------------------------------------------------------------
(* HeardLatest.  A cached property of a device (its payload, its strength) is on its
   way: in the last signal that names it, or else in the enumeration, or else in
   the tracker.  What the tracker knows, the scanner has heard or is being sent. *)

Cached == {"data", "rssi"}
key(p) == IF p = "data" THEN "ManufacturerData" ELSE "RSSI"

Names(sig, d, p) == sig.dev = d /\ key(p) \in sig.names

\* Signal i of s is the last one that names p for d; or there is none.
LastOf(s, d, p, i) == Names(s[i], d, p) /\ \A j \in 1 .. Len(s) : j > i => ~Names(s[j], d, p)
NoneOf(s, d, p) == \A i \in 1 .. Len(s) : ~Names(s[i], d, p)

SignalsLatest(d, p) ==
    \A i \in 1 .. Len(signals) : LastOf(signals, d, p, i) => signals[i].val[p] = bz[d][p]

SeedsLatest(d, p) ==
    NoneOf(signals, d, p) =>
        /\ \A sig \in toSeed : Names(sig, d, p) => sig.val[p] = bz[d][p]
        /\ (\A sig \in toSeed : ~Names(sig, d, p)) => tracker[d][p] = bz[d][p]

InOrder == listening /\ busOpen /\ ~overflowed /\ ~seedFailed /\ pc \in Running

LatestComing ==
    InOrder => \A d \in objects : \A p \in Cached : bz[d][p] # None =>
                  /\ SignalsLatest(d, p)
                  /\ pc # "enumerate" => SeedsLatest(d, p)

known(d) == [dev |-> d, data |-> tracker[d].data, rssi |-> tracker[d].rssi]

TrackedIsHeard ==
    pc \in Running => \A d \in Devices :
        tracker[d].data # None /\ tracker[d].rssi # None =>
            IF beacon # None /\ beacon.dev = d THEN beacon = known(d) ELSE heard[d] = known(d)

\* Before run starts there is nothing; run waits for signals with nothing to seed.
Before ==
    /\ pc \in {"new", "found", "discovering"} =>
          /\ signals = <<>> /\ late = <<>> /\ ~listening
          /\ tracker = [d \in Devices |-> newDevice] /\ beacon = None
    /\ pc = "select" /\ ~seedFailed => toSeed = {}

HeardInv == TypeOK /\ Before /\ LatestComing /\ TrackedIsHeard

LEMMA MergeOf ==
    ASSUME NEW st, NEW sig, NEW p \in Cached
    PROVE  merge(st, sig)[p] = IF key(p) \in sig.names THEN sig.val[p] ELSE st[p]
BY DEF merge, Cached, key

LEMMA FieldsOf ==
    ASSUME NEW st
    PROVE  st["data"] = st.data /\ st["rssi"] = st.rssi
OBVIOUS

\* A step of run that feeds the tracker.
LEMMA FeedHeard ==
    ASSUME TypeOK, NEW sig \in Signal, NEW rest, feed(sig, rest), TrackedIsHeard,
           pc \in {"seed", "select"}, heard' = heard
    PROVE  TrackedIsHeard'
<1>. SUFFICES ASSUME NEW d \in Devices, (tracker[d].data)' # None, (tracker[d].rssi)' # None
              PROVE  IF beacon' # None /\ (beacon.dev)' = d THEN beacon' = known(d)'
                                                           ELSE (heard[d])' = known(d)'
  BY DEF TrackedIsHeard
<1>1. beacon = None /\ pc \in Running /\ sig.dev \in Devices
  BY DEF TypeOK, Running, Signal
<1>2. tracker' = [tracker EXCEPT ![sig.dev] = merge(@, sig)] /\ tracker \in [Devices -> Tracked]
  BY DEF feed, TypeOK, Tracked
<1>3. beacon' = beaconOf(tracker'[sig.dev], sig)
  BY DEF feed
<1>4. beacon' # None => (beacon.dev)' = sig.dev
  BY <1>3 DEF beaconOf
<1>5. CASE d # sig.dev
  <2>1. tracker'[d] = tracker[d]
    BY <1>2, <1>5
  <2>. QED  BY <1>1, <1>4, <1>5, <2>1 DEF TrackedIsHeard, known
<1>6. CASE d = sig.dev
  <2>1. tracker'[d] = merge(tracker[d], sig)
    BY <1>1, <1>2, <1>6
  <2>2. CASE sig.names \cap {"ManufacturerData", "RSSI"} # {}
    <3>1. beacon' = known(d)'
      BY <1>3, <1>6, <2>2 DEF beaconOf, known
    <3>2. beacon' # None
      BY <3>1, SourceAssumption, <1>2, <2>1, MergeType DEF known, Beacon, Tracked
    <3>. QED  BY <3>1, <3>2, <1>4, <1>6
  <2>3. CASE sig.names \cap {"ManufacturerData", "RSSI"} = {}
    <3>1. beacon' = None
      BY <1>3, <2>3 DEF beaconOf
    <3>2. (tracker[d].data)' = tracker[d].data /\ (tracker[d].rssi)' = tracker[d].rssi
      BY <2>1, <2>3 DEF merge
    <3>. QED  BY <1>1, <3>1, <3>2 DEF TrackedIsHeard, known
  <2>. QED  BY <2>2, <2>3
<1>. QED  BY <1>5, <1>6

LEMMA AppendNames ==
    ASSUME NEW s \in Seq(Signal), NEW sig \in Signal, NEW d, NEW p,
           NEW i \in 1 .. Len(Append(s, sig))
    PROVE  /\ NoneOf(Append(s, sig), d, p) => NoneOf(s, d, p) /\ ~Names(sig, d, p)
           /\ LastOf(Append(s, sig), d, p, i) =>
                 \/ Names(sig, d, p) /\ Append(s, sig)[i] = sig
                 \/ ~Names(sig, d, p) /\ i \in 1 .. Len(s) /\ LastOf(s, d, p, i)
                    /\ Append(s, sig)[i] = s[i]
<1>. DEFINE t == Append(s, sig)
            n == Len(s) + 1
<1>1. Len(s) \in Nat /\ Len(t) = n /\ t[n] = sig /\ \A j \in 1 .. Len(s) : t[j] = s[j]
  OBVIOUS
<1>. HIDE DEF t
<1>2. NoneOf(t, d, p) => NoneOf(s, d, p) /\ ~Names(sig, d, p)
  BY <1>1 DEF NoneOf
<1>3. ASSUME LastOf(t, d, p, i)
      PROVE  \/ Names(sig, d, p) /\ t[i] = sig
             \/ ~Names(sig, d, p) /\ i \in 1 .. Len(s) /\ LastOf(s, d, p, i) /\ t[i] = s[i]
  <2>1. i \in 1 .. n
    BY <1>1 DEF t
  <2>2. CASE i = n
    BY <1>1, <1>3, <2>2 DEF LastOf
  <2>3. CASE i # n
    <3>1. i \in 1 .. Len(s) /\ i < n /\ n \in 1 .. Len(t)
      BY <1>1, <2>1, <2>3
    <3>2. ~Names(sig, d, p)
      BY <1>1, <1>3, <3>1 DEF LastOf
    <3>3. LastOf(s, d, p, i)
      BY <1>1, <1>3, <3>1 DEF LastOf
    <3>. QED  BY <1>1, <3>1, <3>2, <3>3
  <2>. QED  BY <2>2, <2>3
<1>. QED  BY <1>2, <1>3 DEF t

LEMMA TailNames ==
    ASSUME NEW s \in Seq(Signal), s # <<>>, NEW d, NEW p
    PROVE  /\ NoneOf(Tail(s), d, p) =>
                 IF Names(Head(s), d, p) THEN LastOf(s, d, p, 1) ELSE NoneOf(s, d, p)
           /\ \A i \in 1 .. Len(Tail(s)) :
                 LastOf(Tail(s), d, p, i) => /\ i + 1 \in 1 .. Len(s) /\ LastOf(s, d, p, i + 1)
                                            /\ Tail(s)[i] = s[i + 1]
<1>. DEFINE t == Tail(s)
<1>1. /\ Len(s) \in Nat /\ Len(t) = Len(s) - 1 /\ Len(s) >= 1 /\ Head(s) = s[1]
      /\ \A j \in 1 .. Len(t) : t[j] = s[j + 1]
  OBVIOUS
<1>. HIDE DEF t
<1>2. \A j \in 1 .. Len(s) : j > 1 => j - 1 \in 1 .. Len(t) /\ s[j] = t[j - 1]
  BY <1>1
<1>3. ASSUME NoneOf(t, d, p)
      PROVE  IF Names(Head(s), d, p) THEN LastOf(s, d, p, 1) ELSE NoneOf(s, d, p)
  <2>1. \A j \in 1 .. Len(s) : j > 1 => ~Names(s[j], d, p)
    BY <1>2, <1>3 DEF NoneOf
  <2>2. \A j \in 1 .. Len(s) : j = 1 \/ j > 1
    BY <1>1
  <2>. QED  BY <1>1, <2>1, <2>2 DEF NoneOf, LastOf
<1>4. ASSUME NEW i \in 1 .. Len(t), LastOf(t, d, p, i)
      PROVE  i + 1 \in 1 .. Len(s) /\ LastOf(s, d, p, i + 1) /\ t[i] = s[i + 1]
  <2>1. i + 1 \in 1 .. Len(s) /\ t[i] = s[i + 1]
    BY <1>1
  <2>2. ASSUME NEW j \in 1 .. Len(s), j > i + 1 PROVE ~Names(s[j], d, p)
    <3>1. j - 1 \in 1 .. Len(t) /\ j - 1 > i /\ s[j] = t[j - 1]
      BY <1>1, <1>2, <2>2
    <3>. QED  BY <1>4, <3>1 DEF LastOf
  <2>. QED  BY <1>4, <2>1, <2>2 DEF LastOf
<1>. QED  BY <1>3, <1>4 DEF t

\* A change of an object, and its signal, reach the end of the line.
LEMMA DeliverLatest ==
    ASSUME HeardInv, NEW d \in Devices, NEW v \in Object, NEW sig \in Signal, sig.dev = d,
           sig.val = v, bz' = [bz EXCEPT ![d] = v], deliver(sig),
           objects' \ {d} \subseteq objects, toSeed' = toSeed, tracker' = tracker, pc' = pc,
           listening' = listening, busOpen' = busOpen, seedFailed' = seedFailed,
           \A p \in Cached : v[p] # None /\ key(p) \notin sig.names
                             => d \in objects /\ v[p] = bz[d][p]
    PROVE  LatestComing'
<1>. SUFFICES ASSUME InOrder', NEW e \in objects', NEW p \in Cached, (bz[e][p])' # None
              PROVE  SignalsLatest(e, p)' /\ (pc' # "enumerate" => SeedsLatest(e, p)')
  BY DEF LatestComing
<1>1. InOrder /\ listening /\ ~overflowed'
  BY DEF InOrder, deliver, HeardInv, TypeOK
<1>2. signals' = Append(signals, sig) /\ signals \in Seq(Signal)
  BY <1>1 DEF deliver, HeardInv, TypeOK
<1>3. CASE Names(sig, e, p)
  <2>1. e = d /\ sig.val[p] = bz'[e][p]
    BY <1>3 DEF Names, HeardInv, TypeOK
  <2>2. SignalsLatest(e, p)'
    BY <1>2, <1>3, <2>1, AppendNames DEF SignalsLatest
  <2>3. ~NoneOf(signals', e, p)
    <3>1. Len(signals) + 1 \in 1 .. Len(signals') /\ signals'[Len(signals) + 1] = sig
      BY <1>2
    <3>. QED  BY <1>3, <3>1 DEF NoneOf
  <2>. QED  BY <2>2, <2>3 DEF SeedsLatest
<1>4. CASE ~Names(sig, e, p)
  <2>1. e \in objects /\ bz'[e][p] = bz[e][p]
    BY <1>4 DEF Names, HeardInv, TypeOK
  <2>2. SignalsLatest(e, p) /\ (pc # "enumerate" => SeedsLatest(e, p))
    BY <1>1, <2>1 DEF HeardInv, LatestComing
  <2>3. SignalsLatest(e, p)'
    BY <1>2, <1>4, <2>1, <2>2, AppendNames DEF SignalsLatest
  <2>4. NoneOf(signals', e, p) => NoneOf(signals, e, p)
    <3>1. 1 \in 1 .. Len(signals')
      BY <1>2
    <3>. QED  BY <1>2, <3>1, AppendNames
  <2>. QED  BY <2>1, <2>2, <2>3, <2>4 DEF SeedsLatest
<1>. QED  BY <1>3, <1>4

LEMMA HeardInit == Init => HeardInv
<1>. SUFFICES ASSUME Init PROVE HeardInv
  OBVIOUS
<1>1. TypeOK
  BY TypeInit
<1>2. Before
  BY DEF Init, Before
<1>3. LatestComing
  BY DEF Init, LatestComing, InOrder
<1>4. TrackedIsHeard
  BY DEF Init, TrackedIsHeard, Running
<1>. QED  BY <1>1, <1>2, <1>3, <1>4 DEF HeardInv

LEMMA BeforeStep == TypeOK /\ Before /\ [Next]_vars => Before'
<1>. SUFFICES ASSUME TypeOK, Before, [Next]_vars PROVE Before'
  OBVIOUS
<1>1. CASE Construct
  BY <1>1 DEF Construct, ConstructFails, FindAdapter, StartDiscovery, Register, Before,
              bluezVars, libraryVars, scannerVars, history
<1>2. CASE Run
  BY <1>2 DEF Run, Enumerate, EnumerateFails, Seed, RecvSignal, SendBeacon, SendLink,
              Stop, RecvClosed, Ends, feed, resume, Before, libraryVars, history
<1>3. CASE Close
  BY <1>3 DEF Close, CloseDone, RemoveSignal, CloseBus, CloseReturn, Before, Running,
              libraryVars, runVars, history
<1>6. CASE DeliverLate \/ BusLost
  BY <1>6 DEF DeliverLate, BusLost, Before, runVars, history
<1>4. CASE BlueZ
  <2>1. UNCHANGED <<runVars, listening, seedFailed>>
    BY <1>4 DEF BlueZ, Change, Appear, Disappear, libraryVars, history
  <2>2. ~listening => signals' = signals /\ late' = late
    BY <1>4 DEF BlueZ, Change, Appear, Disappear, deliver, libraryVars
  <2>. QED  BY <2>1, <2>2 DEF Before, runVars
<1>5. CASE UNCHANGED vars
  BY <1>5 DEF vars, libraryVars, runVars, history, Before
<1>. QED  BY <1>1, <1>2, <1>3, <1>4, <1>5, <1>6 DEF Next, Env

LEMMA HeardStep == HeardInv /\ [Next]_vars => HeardInv'
<1>. SUFFICES ASSUME HeardInv, [Next]_vars PROVE HeardInv'
  OBVIOUS
<1>. USE DEF HeardInv
<1>1. TypeOK'
  BY TypeStep
<1>2. Before'
  BY BeforeStep
<1>3. LatestComing'
  <2>. SUFFICES ASSUME InOrder' PROVE LatestComing'
    BY DEF LatestComing
  <2>1. CASE Construct
    <3>1. signals' = <<>> /\ pc' = "enumerate"
      BY <2>1 DEF Construct, ConstructFails, FindAdapter, StartDiscovery, Register, Before,
                  libraryVars, InOrder, Running
    <3>2. Len(signals') = 0
      BY <3>1
    <3>. QED  BY <3>1, <3>2 DEF LatestComing, SignalsLatest
  <2>2. CASE Enumerate
    <3>1. /\ InOrder /\ signals' = signals /\ bz' = bz /\ objects' = objects
          /\ toSeed' = {whole(d, bz[d]) : d \in objects}
      BY <2>2 DEF Enumerate, InOrder, Running, libraryVars, history, bluezVars
    <3>. SUFFICES ASSUME NEW d \in objects, NEW p \in Cached, bz[d][p] # None
                  PROVE  SignalsLatest(d, p)' /\ SeedsLatest(d, p)'
      BY <3>1 DEF LatestComing
    <3>2. SignalsLatest(d, p)
      BY <3>1 DEF LatestComing
    <3>3. \A sig \in toSeed' : Names(sig, d, p) => sig.val[p] = bz[d][p]
      BY <3>1 DEF whole, Names
    <3>4. whole(d, bz[d]) \in toSeed' /\ Names(whole(d, bz[d]), d, p)
      BY <3>1, FieldsOf DEF whole, namesOf, Names, Cached, key
    <3>. QED  BY <3>1, <3>2, <3>3, <3>4 DEF SignalsLatest, SeedsLatest
  <2>3. CASE EnumerateFails
    BY <2>3 DEF EnumerateFails, InOrder
  <2>4. CASE Seed
    <3>1. /\ InOrder /\ signals' = signals /\ bz' = bz /\ objects' = objects
          /\ pc = "seed"
      BY <2>4 DEF Seed, InOrder, Running, libraryVars, history, bluezVars
    <3>2. PICK sig \in toSeed : feed(sig, toSeed \ {sig})
      BY <2>4 DEF Seed
    <3>3. /\ toSeed' = toSeed \ {sig} /\ sig \in Signal /\ sig.dev \in Devices
          /\ tracker' = [tracker EXCEPT ![sig.dev] = merge(@, sig)]
          /\ tracker \in [Devices -> Tracked] /\ objects \subseteq Devices
      BY <3>2 DEF feed, TypeOK, Tracked, Signal
    <3>. SUFFICES ASSUME NEW d \in objects, NEW p \in Cached, bz[d][p] # None
                  PROVE  SignalsLatest(d, p)' /\ SeedsLatest(d, p)'
      BY <3>1 DEF LatestComing
    <3>4. SignalsLatest(d, p) /\ SeedsLatest(d, p)
      BY <3>1 DEF LatestComing
    <3>5. CASE Names(sig, d, p)
      <4>1. tracker'[d][p] = sig.val[p]
        BY <3>3, <3>5, MergeOf DEF Names
      <4>. QED  BY <3>1, <3>3, <3>4, <3>5, <4>1 DEF SignalsLatest, SeedsLatest
    <3>6. CASE ~Names(sig, d, p)
      <4>1. tracker'[d][p] = tracker[d][p]
        BY <3>3, <3>6, MergeOf DEF Names
      <4>. QED  BY <3>1, <3>3, <3>4, <3>6, <4>1 DEF SignalsLatest, SeedsLatest
    <3>. QED  BY <3>5, <3>6
  <2>5. CASE RecvSignal
    <3>1. /\ InOrder /\ bz' = bz /\ objects' = objects /\ pc = "select" /\ toSeed = {}
          /\ signals # <<>> /\ signals' = Tail(signals) /\ feed(Head(signals), {})
      BY <2>5 DEF RecvSignal, InOrder, Running, history, bluezVars, Before
    <3>. DEFINE sig == Head(signals)
    <3>2. signals \in Seq(Signal) /\ sig \in Signal /\ sig = signals[1] /\ 1 \in 1 .. Len(signals)
      BY <3>1 DEF TypeOK
    <3>3. /\ toSeed' = {} /\ sig.dev \in Devices
          /\ tracker' = [tracker EXCEPT ![sig.dev] = merge(@, sig)]
          /\ tracker \in [Devices -> Tracked] /\ objects \subseteq Devices
      BY <3>1, <3>2 DEF feed, TypeOK, Tracked, Signal
    <3>. HIDE DEF sig
    <3>. SUFFICES ASSUME NEW d \in objects, NEW p \in Cached, bz[d][p] # None
                  PROVE  SignalsLatest(d, p)' /\ SeedsLatest(d, p)'
      BY <3>1 DEF LatestComing
    <3>4. SignalsLatest(d, p) /\ SeedsLatest(d, p)
      BY <3>1 DEF LatestComing
    <3>5. SignalsLatest(d, p)'
      BY <3>1, <3>2, <3>4, TailNames DEF SignalsLatest
    <3>6. ASSUME NoneOf(signals', d, p) PROVE tracker'[d][p] = bz[d][p]
      <4>1. CASE Names(sig, d, p)
        <5>1. LastOf(signals, d, p, 1)
          BY <3>1, <3>2, <3>6, <4>1, TailNames DEF sig
        <5>2. tracker'[d][p] = sig.val[p]
          BY <3>3, <4>1, MergeOf DEF Names
        <5>. QED  BY <3>2, <3>4, <5>1, <5>2 DEF SignalsLatest
      <4>2. CASE ~Names(sig, d, p)
        <5>1. NoneOf(signals, d, p)
          BY <3>1, <3>2, <3>6, <4>2, TailNames DEF sig
        <5>2. tracker'[d][p] = tracker[d][p]
          BY <3>3, <4>2, MergeOf DEF Names
        <5>. QED  BY <3>1, <3>4, <5>1, <5>2 DEF SeedsLatest
      <4>. QED  BY <4>1, <4>2
    <3>. QED  BY <3>1, <3>3, <3>5, <3>6 DEF SeedsLatest
  <2>6. CASE SendBeacon \/ SendLink \/ Close
    <3>1. /\ InOrder /\ signals' = signals /\ bz' = bz /\ objects' = objects
          /\ toSeed' = toSeed /\ tracker' = tracker /\ (pc' # "enumerate" => pc # "enumerate")
      <4>1. CASE SendBeacon
        BY <4>1 DEF SendBeacon, InOrder, Running, bluezVars, libraryVars, history
      <4>2. CASE SendLink
        BY <4>2 DEF SendLink, InOrder, Running, bluezVars, libraryVars, history
      <4>3. CASE Close
        <5>1. /\ UNCHANGED <<bluezVars, runVars, history>>
              /\ listening' => UNCHANGED <<listening, signals>>
              /\ busOpen' => UNCHANGED busOpen
          BY <4>3 DEF Close, CloseDone, RemoveSignal, CloseBus, CloseReturn, libraryVars
        <5>. QED  BY <5>1 DEF InOrder, bluezVars, runVars, history
      <4>. QED  BY <2>6, <4>1, <4>2, <4>3
    <3>. QED  BY <3>1 DEF LatestComing, SignalsLatest, SeedsLatest
  <2>7. CASE Stop \/ RecvClosed \/ BusLost
    BY <2>7 DEF Stop, RecvClosed, Ends, BusLost, InOrder, Running
  <2>12. CASE DeliverLate
    <3>1. late # <<>> /\ overflowed' = overflowed
      BY <2>12 DEF DeliverLate, history
    <3>. QED  BY <3>1 DEF InOrder, TypeOK
  <2>8. ASSUME NEW d \in Devices, Change(d) PROVE LatestComing'
    <3>1. PICK v \in Object :
            /\ bz' = [bz EXCEPT ![d] = v] /\ (bz[d].data # None => v.data # None)
            /\ deliver([dev |-> d, names |-> changed(bz[d], v), val |-> v])
      BY <2>8 DEF Change
    <3>. DEFINE sig == [dev |-> d, names |-> changed(bz[d], v), val |-> v]
    <3>2. sig \in Signal /\ sig.dev = d /\ sig.val = v
      BY ChangedType DEF Signal, TypeOK, Object
    <3>3. \A p \in Cached : v[p] # None /\ key(p) \notin sig.names => v[p] = bz[d][p]
      BY FieldsOf DEF changed, Cached, key
    <3>4. deliver(sig)
      BY <3>1
    <3>. HIDE DEF sig
    <3>5. /\ objects' = objects /\ d \in objects /\ toSeed' = toSeed /\ tracker' = tracker
          /\ pc' = pc /\ listening' = listening /\ busOpen' = busOpen /\ seedFailed' = seedFailed
      BY <2>8 DEF Change, runVars
    <3>6. /\ objects' \ {d} \subseteq objects
          /\ \A p \in Cached : v[p] # None /\ key(p) \notin sig.names
                             => d \in objects /\ v[p] = bz[d][p]
      BY <3>3, <3>5
    <3>7. bz' = [bz EXCEPT ![d] = v]
      BY <3>1
    <3>. QED  BY <3>2, <3>4, <3>5, <3>6, <3>7, DeliverLatest
  <2>9. ASSUME NEW d \in Devices, Appear(d) PROVE LatestComing'
    <3>1. PICK v \in Object : bz' = [bz EXCEPT ![d] = v] /\ deliver(whole(d, v))
      BY <2>9 DEF Appear
    <3>2. whole(d, v) \in Signal /\ whole(d, v).dev = d /\ whole(d, v).val = v
      BY WholeType DEF whole
    <3>3. \A p \in Cached : v[p] # None => key(p) \in whole(d, v).names
      BY FieldsOf DEF whole, namesOf, Cached, key
    <3>4. /\ objects' = objects \cup {d} /\ toSeed' = toSeed /\ tracker' = tracker /\ pc' = pc
          /\ listening' = listening /\ busOpen' = busOpen /\ seedFailed' = seedFailed
      BY <2>9 DEF Appear, runVars
    <3>. QED  BY <3>1, <3>2, <3>3, <3>4, DeliverLatest
  <2>10. ASSUME NEW d \in Devices, Disappear(d) PROVE LatestComing'
    <3>1. /\ InOrder /\ signals' = signals /\ objects' = objects \ {d}
          /\ bz' = [bz EXCEPT ![d] = absent]
          /\ toSeed' = toSeed /\ tracker' = tracker /\ pc' = pc
      BY <2>10 DEF Disappear, InOrder, libraryVars, runVars, history
    <3>2. \A e \in objects' : e \in objects /\ bz'[e] = bz[e]
      BY <3>1 DEF TypeOK
    <3>. QED  BY <3>1, <3>2 DEF LatestComing, SignalsLatest, SeedsLatest
  <2>11. CASE UNCHANGED vars
    BY <2>11 DEF vars, bluezVars, libraryVars, runVars, history, LatestComing, InOrder,
                 SignalsLatest, SeedsLatest
  <2>. QED  BY <2>1, <2>2, <2>3, <2>4, <2>5, <2>6, <2>7, <2>8, <2>9, <2>10, <2>11, <2>12
            DEF Next, Run, Env, BlueZ
<1>4. TrackedIsHeard'
  <2>1. CASE Seed
    <3>1. PICK sig \in toSeed : feed(sig, toSeed \ {sig})
      BY <2>1 DEF Seed
    <3>2. sig \in Signal /\ pc = "seed" /\ heard' = heard
      BY <2>1 DEF Seed, TypeOK, scannerVars
    <3>. QED  BY <3>1, <3>2, FeedHeard
  <2>2. CASE RecvSignal
    <3>1. /\ feed(Head(signals), {}) /\ Head(signals) \in Signal /\ pc = "select"
          /\ heard' = heard
      BY <2>2 DEF RecvSignal, TypeOK, scannerVars
    <3>. QED  BY <3>1, FeedHeard
  <2>3. CASE SendBeacon
    <3>1. /\ beacon' = None /\ tracker' = tracker /\ pc = "sendBeacon" /\ beacon # None
          /\ beacon.dev \in Devices /\ heard' = [heard EXCEPT ![beacon.dev] = beacon]
          /\ heard \in [Devices -> Beacon \cup {None}]
      BY <2>3 DEF SendBeacon, TypeOK, Beacon
    <3>. QED  BY <3>1 DEF TrackedIsHeard, Running, known
  <2>4. CASE \/ Enumerate \/ EnumerateFails \/ SendLink \/ Stop \/ RecvClosed \/ Close \/ Env
             \/ UNCHANGED vars
    <3>1. /\ tracker' = tracker /\ heard' = heard
          /\ pc' \in Running => pc \in Running /\ beacon' = beacon
      BY <2>4 DEF Enumerate, EnumerateFails, SendLink, Stop, RecvClosed, Ends, Close, CloseDone,
                  RemoveSignal, CloseBus, CloseReturn, Env, BlueZ, Change, Appear, Disappear,
                  DeliverLate, BusLost, vars, runVars, scannerVars, Running
    <3>. QED  BY <3>1 DEF TrackedIsHeard, known
  <2>5. CASE Construct
    <3>1. ASSUME pc' \in Running PROVE tracker' = [d \in Devices |-> newDevice]
      BY <2>5, <3>1 DEF Construct, ConstructFails, FindAdapter, StartDiscovery, Register,
                        Before, Running
    <3>. QED  BY <3>1 DEF TrackedIsHeard, newDevice
  <2>. QED  BY <2>1, <2>2, <2>3, <2>4, <2>5 DEF Next, Run
<1>. QED  BY <1>1, <1>2, <1>3, <1>4

(* Whatever partial updates BlueZ sent, before, during and after the enumeration,
   an idle source has handed the scanner every object's present payload with its
   present strength (deviceTracker.update, ble/bluez_track.go).               *)
THEOREM LatestIsHeard == Spec => []HeardLatest
<1>1. HeardInv => HeardLatest
  <2>. SUFFICES ASSUME HeardInv, Settled, NEW d \in objects,
                       bz[d].data # None, bz[d].rssi # None
                PROVE  heard[d] = [dev |-> d, data |-> bz[d].data, rssi |-> bz[d].rssi]
    BY DEF HeardLatest
  <2>1. /\ InOrder /\ pc = "select" /\ signals = <<>> /\ toSeed = {} /\ beacon = None
        /\ d \in Devices
    BY DEF Settled, InOrder, HeardInv, Before, TypeOK, Running
  <2>2. \A p \in Cached : bz[d][p] # None => tracker[d][p] = bz[d][p]
    <3>1. Len(signals) = 0
      BY <2>1
    <3>2. \A p \in Cached : NoneOf(signals, d, p)
      BY <3>1 DEF NoneOf
    <3>. QED  BY <2>1, <3>2 DEF HeardInv, LatestComing, SeedsLatest
  <2>3. tracker[d].data = bz[d].data /\ tracker[d].rssi = bz[d].rssi
    BY <2>2, FieldsOf DEF Cached
  <2>. QED  BY <2>1, <2>3 DEF HeardInv, TrackedIsHeard, Running, known
<1>. QED  BY <1>1, HeardInit, HeardStep, PTL DEF Spec

-----------------------------------------------------------------------------
(* LinksFollow.  What the code still has to do for a device is a run: from what is
   known (k) and told (e, a link up or down) of it, one state per pending signal.
   Its last state has to agree with BlueZ.  While the enumeration is to come the
   run is taken from both of its possible outcomes: a device that is AirPods,
   whose link it may tell, and any other.                                     *)

State == [k : BOOLEAN, e : {"up", "down", "none"}]
told(connected) == IF connected THEN "up" ELSE "down"

after(x, sig, d) ==
    IF sig.dev # d THEN x
    ELSE LET k == IF "UUIDs" \in sig.names THEN sig.val.airPods ELSE x.k
         IN  [k |-> k, e |-> IF "Connected" \in sig.names /\ k THEN told(sig.val.connected)
                                                              ELSE x.e]

IsRun(f, x, s, d) ==
    /\ f \in [0 .. Len(s) -> State] /\ f[0] = x
    /\ \A i \in 1 .. Len(s) : f[i] = after(f[i - 1], s[i], d)

\* A device that is told up is known and connected; what is known is true; what is
\* true is known.
Right(d, y) == y.e = "up" => bz[d].connected /\ y.k
Upper(d, y) == d \in objects /\ y.k => bz[d].airPods
Lower(d, y) == /\ d \in objects /\ bz[d].airPods => y.k
               /\ bz[d].connected /\ knownAtEdge[d] => y.e # "down"

Present(d) ==
    [k |-> tracker[d].isAirPods,
     e |-> told(IF link # None /\ link.dev = d THEN link.connected ELSE d \in links)]

\* Where the run over the signals starts: after the enumeration.
Start(d, x) ==
    /\ \A sig \in toSeed : sig.dev = d => x = after(Present(d), sig, d)
    /\ (\A sig \in toSeed : sig.dev # d) => x = Present(d)

isAirPods == [k |-> TRUE, e |-> "none"]
isOther   == [k |-> FALSE, e |-> "down"]

RunTo(x, d, y) == \E f : IsRun(f, x, signals, d) /\ f[Len(signals)] = y

Enumerating(d) ==
    /\ \E y \in State : RunTo(isAirPods, d, y) /\ Right(d, y) /\ Lower(d, y)
    /\ \E y \in State : RunTo(isOther, d, y) /\ Right(d, y) /\ Upper(d, y)

Following(d) ==
    \E x, y \in State :
        Start(d, x) /\ RunTo(x, d, y) /\ Right(d, y) /\ Upper(d, y) /\ Lower(d, y)

Fresh ==
    /\ pc \in {"new", "found", "discovering", "enumerate"} =>
          links = {} /\ link = None /\ tracker = [d \in Devices |-> newDevice]
    /\ pc \in {"select", "seed"} => link = None
    /\ \A s1, s2 \in toSeed : s1.dev = s2.dev => s1 = s2

Objects ==
    \A d \in Devices : /\ d \notin objects => bz[d] = absent
                       /\ d \in objects /\ knownAtEdge[d] => bz[d].airPods

LinksComing ==
    InOrder => \A d \in Devices : /\ pc = "enumerate" => Enumerating(d)
                                  /\ pc # "enumerate" => Following(d)

LinksInv == TypeOK /\ Before /\ Fresh /\ Objects /\ LinksComing

LEMMA AfterType ==
    ASSUME NEW x \in State, NEW sig \in Signal, NEW d
    PROVE  after(x, sig, d) \in State
BY DEF after, State, Signal, Object, told

LEMMA RunEmpty ==
    ASSUME NEW x \in State, NEW d
    PROVE  \E f : IsRun(f, x, <<>>, d) /\ f[Len(<<>>)] = x
<1>. DEFINE f == [i \in 0 .. 0 |-> x]
<1>1. Len(<<>>) = 0 /\ f \in [0 .. 0 -> State] /\ f[0] = x
  OBVIOUS
<1>2. IsRun(f, x, <<>>, d)
  BY <1>1 DEF IsRun
<1>. QED  BY <1>1, <1>2

LEMMA RunAppend ==
    ASSUME NEW x \in State, NEW y \in State, NEW d, NEW sig \in Signal, signals \in Seq(Signal),
           RunTo(x, d, y), signals' = Append(signals, sig)
    PROVE  RunTo(x, d, after(y, sig, d))'
<1>1. PICK f : IsRun(f, x, signals, d) /\ f[Len(signals)] = y
  BY DEF RunTo
<1>. DEFINE n == Len(signals)
            g == [i \in 0 .. n + 1 |-> IF i = n + 1 THEN after(y, sig, d) ELSE f[i]]
<1>2. /\ n \in Nat /\ Len(signals') = n + 1 /\ signals'[n + 1] = sig
      /\ \A i \in 1 .. n : signals'[i] = signals[i]
  OBVIOUS
<1>3. /\ f \in [0 .. n -> State] /\ f[0] = x /\ f[n] = y
      /\ \A i \in 1 .. n : f[i] = after(f[i - 1], signals[i], d)
  BY <1>1 DEF IsRun
<1>. HIDE DEF n
<1>4. g \in [0 .. n + 1 -> State] /\ g[0] = x /\ g[n + 1] = after(y, sig, d)
  BY <1>2, <1>3, AfterType
<1>5. ASSUME NEW i \in 1 .. n + 1 PROVE g[i] = after(g[i - 1], signals'[i], d)
  <2>1. CASE i = n + 1
    <3>1. g[n] = y /\ i - 1 = n
      BY <1>2, <1>3, <2>1
    <3>. QED  BY <1>2, <1>4, <2>1, <3>1
  <2>2. CASE i \in 1 .. n
    <3>1. g[i] = f[i] /\ g[i - 1] = f[i - 1]
      BY <1>2, <2>2
    <3>. QED  BY <1>2, <1>3, <2>2, <3>1
  <2>. QED  BY <1>2, <2>1, <2>2
<1>. HIDE DEF g
<1>6. IsRun(g, x, signals', d) /\ g[Len(signals')] = after(y, sig, d)
  BY <1>2, <1>4, <1>5 DEF IsRun
<1>. QED  BY <1>6 DEF RunTo

LEMMA RunTail ==
    ASSUME NEW x \in State, NEW y \in State, NEW d, signals \in Seq(Signal), signals # <<>>,
           RunTo(x, d, y), signals' = Tail(signals), NEW sig, sig = Head(signals)
    PROVE  RunTo(after(x, sig, d), d, y)'
<1>1. PICK f : IsRun(f, x, signals, d) /\ f[Len(signals)] = y
  BY DEF RunTo
<1>. DEFINE n == Len(signals)
            g == [i \in 0 .. n - 1 |-> f[i + 1]]
<1>2. /\ n \in Nat /\ n > 0 /\ Len(signals') = n - 1 /\ sig = signals[1]
      /\ \A i \in 1 .. n - 1 : signals'[i] = signals[i + 1]
  OBVIOUS
<1>3. /\ f \in [0 .. n -> State] /\ f[0] = x /\ f[n] = y
      /\ \A i \in 1 .. n : f[i] = after(f[i - 1], signals[i], d)
  BY <1>1 DEF IsRun
<1>. HIDE DEF n
<1>4. g \in [0 .. n - 1 -> State] /\ g[0] = f[1] /\ g[n - 1] = y
  BY <1>2, <1>3
<1>5. f[1] = after(x, sig, d)
  <2>1. 1 \in 1 .. n /\ 1 - 1 = 0
    BY <1>2
  <2>. QED  BY <1>2, <1>3, <2>1
<1>6. ASSUME NEW i \in 1 .. n - 1 PROVE g[i] = after(g[i - 1], signals'[i], d)
  <2>1. i + 1 \in 1 .. n /\ (i + 1) - 1 = i /\ i \in 0 .. n - 1 /\ i - 1 \in 0 .. n - 1
    BY <1>2
  <2>2. f[i + 1] = after(f[i], signals[i + 1], d)
    BY <1>3, <2>1
  <2>3. g[i] = f[i + 1] /\ g[i - 1] = f[i]
    BY <2>1
  <2>. QED  BY <1>2, <2>2, <2>3
<1>. HIDE DEF g
<1>7. IsRun(g, f[1], signals', d) /\ g[Len(signals')] = y
  BY <1>2, <1>4, <1>6 DEF IsRun
<1>. QED  BY <1>5, <1>7 DEF RunTo

\* What the enumeration tells of a link is overridden by the signals that tell of it.
LEMMA RunFrom ==
    ASSUME NEW y \in State, NEW d, NEW l \in {"up", "down"}, signals \in Seq(Signal),
           RunTo(isAirPods, d, y)
    PROVE  RunTo([k |-> TRUE, e |-> l], d, [k |-> y.k, e |-> IF y.e = "none" THEN l ELSE y.e])
<1>1. PICK f : IsRun(f, isAirPods, signals, d) /\ f[Len(signals)] = y
  BY DEF RunTo
<1>. DEFINE n == Len(signals)
            with(z) == [k |-> z.k, e |-> IF z.e = "none" THEN l ELSE z.e]
            g == [i \in 0 .. n |-> with(f[i])]
<1>2. /\ n \in Nat /\ f \in [0 .. n -> State] /\ f[0] = isAirPods /\ f[n] = y
      /\ \A i \in 1 .. n : f[i] = after(f[i - 1], signals[i], d) /\ signals[i] \in Signal
  BY <1>1 DEF IsRun
<1>3. ASSUME NEW z \in State PROVE with(z) \in State
  BY DEF State
<1>4. ASSUME NEW z \in State, NEW sig \in Signal
      PROVE  with(after(z, sig, d)) = after(with(z), sig, d)
  BY DEF after, told, State
<1>5. with(isAirPods) = [k |-> TRUE, e |-> l]
  BY DEF isAirPods
<1>. HIDE DEF n, with
<1>6. g \in [0 .. n -> State] /\ g[0] = with(isAirPods) /\ g[n] = with(y)
  BY <1>2, <1>3
<1>7. ASSUME NEW i \in 1 .. n PROVE g[i] = after(g[i - 1], signals[i], d)
  <2>1. i \in 0 .. n /\ i - 1 \in 0 .. n
    BY <1>2
  <2>. QED  BY <1>2, <1>4, <2>1
<1>. HIDE DEF g
<1>8. IsRun(g, with(isAirPods), signals, d) /\ g[Len(signals)] = with(y)
  BY <1>6, <1>7 DEF IsRun, n
<1>. QED  BY <1>5, <1>8 DEF RunTo, with

-----------------------------------------------------------------------------
(* What each kind of signal does to the end of a run.  *)

LEMMA ChangeEnds ==
    ASSUME LinksInv, NEW d \in objects, NEW v \in Object, bz[d].airPods => v.airPods,
           bz' = [bz EXCEPT ![d] = v], objects' = objects,
           knownAtEdge' = IF v.connected # bz[d].connected
                          THEN [knownAtEdge EXCEPT ![d] = v.airPods] ELSE knownAtEdge,
           NEW y \in State, NEW sig, sig = [dev |-> d, names |-> changed(bz[d], v), val |-> v]
    PROVE  LET z == after(y, sig, d) IN
           /\ Right(d, y) => Right(d, z)'
           /\ Upper(d, y) => Upper(d, z)'
           /\ Lower(d, y) => Lower(d, z)'
<1>. DEFINE z == after(y, sig, d)
            k == IF bz[d].airPods # v.airPods THEN v.airPods ELSE y.k
<1>1. /\ d \in Devices /\ bz'[d] = v /\ bz[d] \in Object
      /\ knownAtEdge \in [Devices -> BOOLEAN]
  BY DEF LinksInv, TypeOK
<1>2. /\ "UUIDs" \in sig.names <=> bz[d].airPods # v.airPods
      /\ "Connected" \in sig.names <=> bz[d].connected # v.connected
      /\ sig.dev = d /\ sig.val = v
  BY DEF changed
<1>3. /\ z.k = k
      /\ z.e = IF bz[d].connected # v.connected /\ k THEN told(v.connected) ELSE y.e
  BY <1>2 DEF after
<1>4. /\ y.k \in BOOLEAN /\ v.airPods \in BOOLEAN /\ v.connected \in BOOLEAN
      /\ bz[d].airPods \in BOOLEAN /\ bz[d].connected \in BOOLEAN
  BY <1>1 DEF State, Object
<1>. HIDE DEF z
<1>5. Right(d, y) => Right(d, z)'
  BY <1>1, <1>3, <1>4 DEF Right, told
<1>6. Upper(d, y) => Upper(d, z)'
  BY <1>1, <1>3, <1>4 DEF Upper
<1>7. Lower(d, y) => Lower(d, z)'
  <2>1. knownAtEdge'[d] = IF v.connected # bz[d].connected THEN v.airPods ELSE knownAtEdge[d]
    BY <1>1
  <2>. QED  BY <1>1, <1>3, <1>4, <2>1 DEF Lower, told
<1>. QED  BY <1>5, <1>6, <1>7 DEF z

LEMMA AppearEnds ==
    ASSUME LinksInv, NEW d \in Devices \ objects, NEW v \in Object,
           bz' = [bz EXCEPT ![d] = v], objects' = objects \cup {d},
           knownAtEdge' = [knownAtEdge EXCEPT ![d] = v.airPods],
           NEW y \in State, Right(d, y)
    PROVE  LET z == after(y, whole(d, v), d) IN Right(d, z)' /\ Upper(d, z)' /\ Lower(d, z)'
<1>. DEFINE z == after(y, whole(d, v), d)
<1>1. bz'[d] = v /\ d \in objects' /\ knownAtEdge'[d] = v.airPods /\ y.e # "up"
  BY DEF LinksInv, TypeOK, Objects, absent, Right
<1>2. z.k = v.airPods /\ z.e = IF v.airPods THEN told(v.connected) ELSE y.e
  BY DEF after, whole, namesOf
<1>3. v.airPods \in BOOLEAN /\ v.connected \in BOOLEAN
  BY DEF Object
<1>. HIDE DEF z
<1>. QED  BY <1>1, <1>2, <1>3 DEF Right, Upper, Lower, told, z

\* The other devices.
LEMMA OthersEnd ==
    ASSUME NEW d, NEW sig, sig.dev # d, NEW y, bz'[d] = bz[d], knownAtEdge'[d] = knownAtEdge[d],
           d \in objects' <=> d \in objects
    PROVE  /\ after(y, sig, d) = y
           /\ Right(d, y) => Right(d, y)'
           /\ Upper(d, y) => Upper(d, y)'
           /\ Lower(d, y) => Lower(d, y)'
BY DEF after, Right, Upper, Lower

LEMMA DisappearEnds ==
    ASSUME LinksInv, NEW d \in Devices, ~bz[d].connected, bz' = [bz EXCEPT ![d] = absent],
           objects' = objects \ {d}, NEW y
    PROVE  /\ Right(d, y) => Right(d, y)'
           /\ Upper(d, y)' /\ Lower(d, y)'
<1>1. bz'[d] = absent /\ d \notin objects'
  BY DEF LinksInv, TypeOK
<1>. QED  BY <1>1 DEF absent, Right, Upper, Lower

\* A signal that reaches the end of the line, when it ends all runs well.
LEMMA DeliverFollows ==
    ASSUME LinksInv, InOrder, InOrder', NEW d \in Devices, NEW sig \in Signal, deliver(sig),
           UNCHANGED <<pc, toSeed, tracker, link, links>>,
           \A y \in State : LET z == after(y, sig, d) IN
               Right(d, y) => /\ Right(d, z)'
                              /\ Upper(d, y) => Upper(d, z)'
                              /\ Lower(d, y) => Lower(d, z)'
    PROVE  /\ (pc # "enumerate" => Following(d))' /\ (pc = "enumerate" => Enumerating(d))'
<1>1. signals' = Append(signals, sig) /\ signals \in Seq(Signal)
  BY DEF deliver, InOrder, LinksInv, TypeOK
<1>2. ASSUME NEW x \in State, NEW y \in State, RunTo(x, d, y)
      PROVE  after(y, sig, d) \in State /\ RunTo(x, d, after(y, sig, d))'
  BY <1>1, <1>2, AfterType, RunAppend
<1>3. ASSUME pc' # "enumerate" PROVE Following(d)'
  <2>1. PICK x \in State, y \in State :
          Start(d, x) /\ RunTo(x, d, y) /\ Right(d, y) /\ Upper(d, y) /\ Lower(d, y)
    BY <1>3 DEF LinksInv, LinksComing, Following
  <2>2. Start(d, x)'
    BY <2>1 DEF Start, Present
  <2>. QED  BY <1>2, <2>1, <2>2 DEF Following
<1>4. ASSUME pc' = "enumerate" PROVE Enumerating(d)'
  <2>1. isAirPods \in State /\ isOther \in State
    BY DEF isAirPods, isOther, State
  <2>2. PICK y1 \in State : RunTo(isAirPods, d, y1) /\ Right(d, y1) /\ Lower(d, y1)
    BY <1>4 DEF LinksInv, LinksComing, Enumerating
  <2>3. PICK y2 \in State : RunTo(isOther, d, y2) /\ Right(d, y2) /\ Upper(d, y2)
    BY <1>4 DEF LinksInv, LinksComing, Enumerating
  <2>4. RunTo(isAirPods, d, after(y1, sig, d))' /\ RunTo(isOther, d, after(y2, sig, d))'
    BY <1>2, <2>1, <2>2, <2>3
  <2>. QED  BY <1>2, <2>1, <2>2, <2>3, <2>4 DEF Enumerating
<1>. QED  BY <1>3, <1>4

\* feed takes a signal off the line.
LEMMA FeedPresent ==
    ASSUME LinksInv, NEW sig \in Signal, NEW rest, feed(sig, rest), pc \in {"seed", "select"},
           links' = links, NEW d \in Devices
    PROVE  Present(d) \in State /\ Present(d)' = after(Present(d), sig, d)
<1>1. /\ link = None /\ sig.dev \in Devices /\ tracker \in [Devices -> Tracked]
      /\ links \subseteq Devices
  BY DEF LinksInv, Fresh, TypeOK, Signal, Tracked
<1>2. /\ tracker' = [tracker EXCEPT ![sig.dev] = merge(@, sig)]
      /\ link' = linkOf(tracker'[sig.dev], sig)
  BY DEF feed
<1>3. Present(d) = [k |-> tracker[d].isAirPods, e |-> told(d \in links)]
  BY <1>1 DEF Present
<1>4. Present(d) \in State
  BY <1>1, <1>3 DEF State, told, Tracked
<1>5. CASE sig.dev # d
  <2>1. tracker'[d] = tracker[d]
    BY <1>1, <1>2, <1>5
  <2>2. link' = None \/ (link.dev)' = sig.dev
    BY <1>2 DEF linkOf
  <2>3. Present(d)' = [k |-> tracker[d].isAirPods, e |-> told(d \in links)]
    BY <1>5, <2>1, <2>2 DEF Present
  <2>. QED  BY <1>3, <1>4, <1>5, <2>3 DEF after
<1>6. CASE sig.dev = d
  <2>. DEFINE k == IF "UUIDs" \in sig.names THEN sig.val.airPods ELSE tracker[d].isAirPods
  <2>1. tracker'[d] = merge(tracker[d], sig)
    BY <1>1, <1>2, <1>6
  <2>2. tracker'[d].isAirPods = k
    BY <2>1 DEF merge
  <2>. HIDE DEF k
  <2>3. CASE "Connected" \in sig.names /\ k
    <3>1. link' = [dev |-> d, connected |-> sig.val.connected]
      BY <1>2, <1>6, <2>2, <2>3 DEF linkOf
    <3>2. link' # None
      <4>1. link' \in Link
        BY <1>1, <1>6, <3>1 DEF Link, Signal, Object
      <4>. QED  BY <4>1, SourceAssumption
    <3>3. (link.dev)' = d /\ (link.connected)' = sig.val.connected
      BY <3>1
    <3>4. Present(d)' = [k |-> k, e |-> told(sig.val.connected)]
      BY <2>2, <3>2, <3>3 DEF Present
    <3>5. after(Present(d), sig, d) = [k |-> k, e |-> told(sig.val.connected)]
      BY <1>3, <1>6, <2>3 DEF after, k
    <3>. QED  BY <1>4, <3>4, <3>5
  <2>4. CASE ~("Connected" \in sig.names /\ k)
    <3>1. link' = None
      BY <1>2, <1>6, <2>2, <2>4 DEF linkOf
    <3>2. Present(d)' = [k |-> k, e |-> told(d \in links)]
      BY <2>2, <3>1 DEF Present
    <3>3. after(Present(d), sig, d) = [k |-> k, e |-> told(d \in links)]
      BY <1>3, <1>6, <2>4 DEF after, k
    <3>. QED  BY <1>4, <3>2, <3>3
  <2>. QED  BY <2>3, <2>4
<1>. QED  BY <1>5, <1>6

LEMMA LinksInit == Init => LinksInv
<1>. SUFFICES ASSUME Init PROVE LinksInv
  OBVIOUS
<1>1. TypeOK
  BY TypeInit
<1>2. Before /\ Fresh
  BY DEF Init, Before, Fresh
<1>3. Objects
  BY DEF Init, Objects
<1>4. LinksComing
  BY DEF Init, LinksComing, InOrder
<1>. QED  BY <1>1, <1>2, <1>3, <1>4 DEF LinksInv

LEMMA FreshStep == TypeOK /\ Fresh /\ [Next]_vars => Fresh'
<1>. SUFFICES ASSUME TypeOK, Fresh, [Next]_vars PROVE Fresh'
  OBVIOUS
<1>1. CASE Construct
  BY <1>1 DEF Construct, ConstructFails, FindAdapter, StartDiscovery, Register, Fresh,
              bluezVars, libraryVars, scannerVars, history
<1>2. CASE Enumerate
  <2>1. \A s1, s2 \in toSeed' : s1.dev = s2.dev => s1 = s2
    BY <1>2 DEF Enumerate, whole
  <2>2. link' = link /\ link = None /\ pc' \in {"select", "seed"}
    BY <1>2 DEF Enumerate, Fresh, resume
  <2>. QED  BY <2>1, <2>2 DEF Fresh
<1>3. CASE Seed
  <2>1. PICK sig \in toSeed : feed(sig, toSeed \ {sig})
    BY <1>3 DEF Seed
  <2>. QED  BY <2>1 DEF feed, resume, Fresh
<1>4. CASE RecvSignal
  BY <1>4 DEF RecvSignal, feed, resume, Fresh
<1>5. CASE SendBeacon \/ SendLink \/ Stop \/ RecvClosed
  BY <1>5 DEF SendBeacon, SendLink, Stop, RecvClosed, Ends, resume, Fresh
<1>6. CASE EnumerateFails
  BY <1>6 DEF EnumerateFails, Fresh, scannerVars
<1>7. CASE Close \/ Env \/ UNCHANGED vars
  <2>1. UNCHANGED <<pc, toSeed, tracker, link, links>>
    BY <1>7 DEF Close, CloseDone, RemoveSignal, CloseBus, CloseReturn, Env, BlueZ, Change,
                Appear, Disappear, DeliverLate, BusLost, vars, runVars, scannerVars
  <2>. QED  BY <2>1 DEF Fresh
<1>. QED  BY <1>1, <1>2, <1>3, <1>4, <1>5, <1>6, <1>7 DEF Next, Run

LEMMA ObjectsStep == TypeOK /\ Objects /\ [Next]_vars => Objects'
<1>. SUFFICES ASSUME TypeOK, Objects, [Next]_vars PROVE Objects'
  OBVIOUS
<1>1. ASSUME NEW d \in Devices, Change(d) PROVE Objects'
  <2>1. PICK v \in Object :
          /\ bz[d].airPods => v.airPods
          /\ bz' = [bz EXCEPT ![d] = v]
          /\ knownAtEdge' = IF v.connected # bz[d].connected
                            THEN [knownAtEdge EXCEPT ![d] = v.airPods] ELSE knownAtEdge
    BY <1>1 DEF Change
  <2>2. objects' = objects /\ d \in objects
    BY <1>1 DEF Change
  <2>3. knownAtEdge'[d] \in {v.airPods, knownAtEdge[d]}
    BY <2>1 DEF TypeOK
  <2>4. \A e \in Devices \ {d} : bz'[e] = bz[e] /\ knownAtEdge'[e] = knownAtEdge[e]
    BY <2>1 DEF TypeOK
  <2>5. bz'[d] = v
    BY <2>1 DEF TypeOK
  <2>. QED  BY <2>1, <2>2, <2>3, <2>4, <2>5 DEF Objects
<1>2. ASSUME NEW d \in Devices, Appear(d) PROVE Objects'
  BY <1>2 DEF Appear, Objects, TypeOK
<1>3. ASSUME NEW d \in Devices, Disappear(d) PROVE Objects'
  BY <1>3 DEF Disappear, Objects, TypeOK, history
<1>4. CASE Construct \/ Run \/ Close \/ DeliverLate \/ BusLost \/ UNCHANGED vars
  <2>1. UNCHANGED <<bz, objects, knownAtEdge>>
    <3>1. CASE Construct
      BY <3>1 DEF Construct, ConstructFails, FindAdapter, StartDiscovery, Register, bluezVars,
                  history
    <3>2. CASE Run
      BY <3>2 DEF Run, Enumerate, EnumerateFails, Seed, RecvSignal, SendBeacon, SendLink,
                  Stop, RecvClosed, bluezVars, history
    <3>3. CASE Close \/ DeliverLate \/ BusLost \/ UNCHANGED vars
      BY <3>3 DEF Close, CloseDone, RemoveSignal, CloseBus, CloseReturn, DeliverLate, BusLost,
                  vars, bluezVars, history
    <3>. QED  BY <1>4, <3>1, <3>2, <3>3
  <2>. QED  BY <2>1 DEF Objects
<1>. QED  BY <1>1, <1>2, <1>3, <1>4 DEF Next, Env, BlueZ

\* A step that moves nothing on the line.
LEMMA LinksKept ==
    ASSUME LinksInv, UNCHANGED <<bz, objects, knownAtEdge, signals, toSeed>>,
           \A d \in Devices : Present(d)' = Present(d),
           InOrder' => InOrder /\ (pc' = "enumerate" <=> pc = "enumerate")
    PROVE  LinksComing'
<1>1. \A d, y : /\ Right(d, y)' <=> Right(d, y)
                /\ Upper(d, y)' <=> Upper(d, y)
                /\ Lower(d, y)' <=> Lower(d, y)
  BY DEF Right, Upper, Lower
<1>2. \A x, d, y : RunTo(x, d, y)' <=> RunTo(x, d, y)
  BY DEF RunTo
<1>3. \A d \in Devices, x \in State : Start(d, x)' <=> Start(d, x)
  BY DEF Start
<1>. QED  BY <1>1, <1>2, <1>3 DEF LinksInv, LinksComing, Enumerating, Following

LEMMA LinksStep == LinksInv /\ [Next]_vars => LinksInv'
<1>. SUFFICES ASSUME LinksInv, [Next]_vars PROVE LinksInv'
  OBVIOUS
<1>1. TypeOK' /\ Before' /\ Fresh' /\ Objects'
  BY TypeStep, BeforeStep, FreshStep, ObjectsStep DEF LinksInv
<1>2. LinksComing'
  <2>. SUFFICES ASSUME InOrder' PROVE LinksComing'
    BY DEF LinksComing
  <2>. USE DEF LinksInv
  <2>1. CASE Construct
    <3>1. signals' = <<>> /\ pc' = "enumerate"
      BY <2>1 DEF Construct, ConstructFails, FindAdapter, StartDiscovery, Register, Before,
                  libraryVars, InOrder, Running
    <3>2. isAirPods \in State /\ isOther \in State
      BY DEF isAirPods, isOther, State
    <3>3. \A d : RunTo(isAirPods, d, isAirPods)' /\ RunTo(isOther, d, isOther)'
      BY <3>1, <3>2, RunEmpty DEF RunTo
    <3>4. \A d : /\ Right(d, isAirPods)' /\ Lower(d, isAirPods)'
                 /\ Right(d, isOther)' /\ Upper(d, isOther)'
      BY DEF isAirPods, isOther, Right, Upper, Lower
    <3>. QED  BY <3>1, <3>2, <3>3, <3>4 DEF LinksComing, Enumerating
  <2>2. CASE Enumerate
    <3>1. /\ InOrder /\ pc = "enumerate" /\ pc' # "enumerate" /\ tracker' = tracker
          /\ UNCHANGED <<bz, objects, knownAtEdge, signals, links, link>>
          /\ toSeed' = {whole(d, bz[d]) : d \in objects}
      BY <2>2 DEF Enumerate, resume, InOrder, Running, libraryVars, history, bluezVars, scannerVars
    <3>. SUFFICES ASSUME NEW d \in Devices PROVE Following(d)'
      BY <3>1 DEF LinksComing
    <3>2. Enumerating(d)
      BY <3>1 DEF LinksComing
    <3>3. Present(d)' = isOther
      <4>1. tracker'[d].isAirPods = FALSE
        BY <3>1 DEF Fresh, newDevice
      <4>2. link' = None /\ links' = {}
        BY <3>1 DEF Fresh
      <4>. QED  BY <4>1, <4>2 DEF Present, isOther, told
    <3>4. \A y : /\ Right(d, y)' <=> Right(d, y)
                 /\ Upper(d, y)' <=> Upper(d, y)
                 /\ Lower(d, y)' <=> Lower(d, y)
      BY <3>1 DEF Right, Upper, Lower
    <3>5. \A x, y : RunTo(x, d, y)' <=> RunTo(x, d, y)
      BY <3>1 DEF RunTo
    <3>6. isOther \in State
      BY DEF isOther, State
    <3>7. bz[d].airPods \in BOOLEAN /\ bz[d].connected \in BOOLEAN
      BY DEF TypeOK, Object
    <3>8. CASE d \in objects /\ bz[d].airPods
      <4>7. PICK l : l = told(bz[d].connected)
        OBVIOUS
      <4>. DEFINE x == [k |-> TRUE, e |-> l]
      <4>1. PICK y \in State : RunTo(isAirPods, d, y) /\ Right(d, y) /\ Lower(d, y)
        BY <3>2 DEF Enumerating
      <4>. DEFINE z == [k |-> y.k, e |-> IF y.e = "none" THEN l ELSE y.e]
      <4>2. l \in {"up", "down"}
        BY <4>7 DEF told
      <4>3. x \in State /\ z \in State
        BY <4>2 DEF State
      <4>4. RunTo(x, d, z)
        BY <4>1, <4>2, RunFrom DEF TypeOK
      <4>5. Right(d, z) /\ Upper(d, z) /\ Lower(d, z)
        BY <3>7, <3>8, <4>1, <4>7 DEF Right, Upper, Lower, told
      <4>6. Start(d, x)'
        <5>1. whole(d, bz[d]) \in toSeed' /\ whole(d, bz[d]).dev = d
          BY <3>1, <3>8 DEF whole
        <5>2. \A sig \in toSeed' : sig.dev = d => sig = whole(d, bz[d])
          BY <3>1 DEF whole
        <5>3. after(isOther, whole(d, bz[d]), d) = x
          BY <3>8, <4>7 DEF after, whole, namesOf
        <5>. QED  BY <3>3, <5>1, <5>2, <5>3 DEF Start
      <4>. HIDE DEF x, z
      <4>. QED  BY <3>4, <3>5, <4>3, <4>4, <4>5, <4>6 DEF Following
    <3>9. CASE ~(d \in objects /\ bz[d].airPods)
      <4>1. PICK y \in State : RunTo(isOther, d, y) /\ Right(d, y) /\ Upper(d, y)
        BY <3>2 DEF Enumerating
      <4>2. Lower(d, y)
        BY <3>7, <3>9 DEF Lower, Objects, absent
      <4>3. Start(d, isOther)'
        <5>1. \A sig \in toSeed' : sig.dev = d => sig = whole(d, bz[d]) /\ ~bz[d].airPods
          BY <3>1, <3>9 DEF whole
        <5>2. ~bz[d].airPods => after(isOther, whole(d, bz[d]), d) = isOther
          <6>. SUFFICES ASSUME ~bz[d].airPods
                        PROVE  after(isOther, whole(d, bz[d]), d) = isOther
            OBVIOUS
          <6>1. /\ whole(d, bz[d]).dev = d /\ "UUIDs" \in whole(d, bz[d]).names
                /\ whole(d, bz[d]).val = bz[d]
            BY DEF whole, namesOf
          <6>. QED  BY <3>7, <6>1 DEF after, isOther
        <5>. QED  BY <3>3, <5>1, <5>2 DEF Start
      <4>. QED  BY <3>4, <3>5, <3>6, <4>1, <4>2, <4>3 DEF Following
    <3>. QED  BY <3>8, <3>9
  <2>3. CASE EnumerateFails
    BY <2>3 DEF EnumerateFails, InOrder
  <2>4. CASE Seed
    <3>1. PICK sig \in toSeed : feed(sig, toSeed \ {sig})
      BY <2>4 DEF Seed
    <3>2. /\ InOrder /\ pc = "seed" /\ sig \in Signal /\ toSeed' = toSeed \ {sig}
          /\ UNCHANGED <<bz, objects, knownAtEdge, signals, links>>
      BY <2>4, <3>1 DEF Seed, feed, InOrder, Running, libraryVars, history, bluezVars,
                        scannerVars, TypeOK
    <3>3. pc' # "enumerate"
      BY <3>1 DEF feed, resume
    <3>. SUFFICES ASSUME NEW d \in Devices PROVE Following(d)'
      BY <3>3 DEF LinksComing
    <3>4. PICK x \in State, y \in State :
            Start(d, x) /\ RunTo(x, d, y) /\ Right(d, y) /\ Upper(d, y) /\ Lower(d, y)
      BY <3>2 DEF LinksComing, Following
    <3>5. Present(d)' = after(Present(d), sig, d)
      BY <3>1, <3>2, FeedPresent
    <3>6. Start(d, x)'
      <4>1. CASE sig.dev = d
        <5>1. \A s \in toSeed' : s.dev # d
          BY <3>2, <4>1 DEF Fresh
        <5>. QED  BY <3>4, <3>5, <4>1, <5>1 DEF Start
      <4>2. CASE sig.dev # d
        <5>1. Present(d)' = Present(d)
          BY <3>5, <4>2 DEF after
        <5>. QED  BY <3>2, <3>4, <4>2, <5>1 DEF Start
      <4>. QED  BY <4>1, <4>2
    <3>7. RunTo(x, d, y)' /\ Right(d, y)' /\ Upper(d, y)' /\ Lower(d, y)'
      BY <3>2, <3>4 DEF RunTo, Right, Upper, Lower
    <3>. QED  BY <3>6, <3>7 DEF Following
  <2>5. CASE RecvSignal
    <3>. DEFINE sig == Head(signals)
    <3>1. /\ InOrder /\ pc = "select" /\ toSeed = {} /\ toSeed' = {} /\ signals # <<>>
          /\ signals' = Tail(signals) /\ feed(sig, {})
          /\ UNCHANGED <<bz, objects, knownAtEdge, links>>
      BY <2>5 DEF RecvSignal, feed, InOrder, Running, Before, history, bluezVars, scannerVars
    <3>2. signals \in Seq(Signal) /\ sig \in Signal
      BY <3>1 DEF TypeOK
    <3>3. pc' # "enumerate"
      BY <3>1 DEF feed, resume
    <3>. SUFFICES ASSUME NEW d \in Devices PROVE Following(d)'
      BY <3>3 DEF LinksComing
    <3>4. PICK x \in State, y \in State :
            Start(d, x) /\ RunTo(x, d, y) /\ Right(d, y) /\ Upper(d, y) /\ Lower(d, y)
      BY <3>1 DEF LinksComing, Following
    <3>5. PICK h \in Signal : h = sig
      BY <3>2
    <3>. HIDE DEF sig
    <3>6. PICK x2 : x2 = after(x, h, d)
      OBVIOUS
    <3>7. x2 \in State
      BY <3>5, <3>6, AfterType
    <3>8. x = Present(d)
      BY <3>1, <3>4 DEF Start
    <3>9. Present(d)' = x2
      <4>1. feed(h, {})
        BY <3>1, <3>5
      <4>. QED  BY <3>1, <3>6, <3>8, <4>1, FeedPresent
    <3>10. Start(d, x2)'
      BY <3>1, <3>9 DEF Start
    <3>11. RunTo(x2, d, y)'
      <4>1. h = Head(signals)
        BY <3>5 DEF sig
      <4>. QED  BY <3>1, <3>2, <3>4, <3>6, <4>1, RunTail
    <3>12. Right(d, y)' /\ Upper(d, y)' /\ Lower(d, y)'
      BY <3>1, <3>4 DEF Right, Upper, Lower
    <3>. QED  BY <3>7, <3>10, <3>11, <3>12 DEF Following
  <2>6. CASE SendBeacon
    <3>1. /\ UNCHANGED <<bz, objects, knownAtEdge, signals, toSeed, tracker, link, links>>
          /\ InOrder /\ pc # "enumerate" /\ pc' # "enumerate"
      BY <2>6 DEF SendBeacon, resume, InOrder, Running, bluezVars, libraryVars, history
    <3>. QED  BY <3>1, LinksKept DEF Present
  <2>7. CASE SendLink
    <3>1. /\ UNCHANGED <<bz, objects, knownAtEdge, signals, toSeed, tracker>>
          /\ InOrder /\ pc = "sendLink" /\ pc' # "enumerate" /\ link # None /\ link' = None
          /\ links' = IF link.connected THEN links \cup {link.dev} ELSE links \ {link.dev}
      BY <2>7 DEF SendLink, resume, InOrder, Running, bluezVars, libraryVars, history, TypeOK
    <3>2. link.connected \in BOOLEAN /\ links \subseteq Devices
      BY <3>1 DEF TypeOK, Link
    <3>3. \A d \in Devices : Present(d)' = Present(d)
      BY <3>1, <3>2 DEF Present
    <3>. QED  BY <3>1, <3>3, LinksKept
  <2>8. CASE Close
    <3>1. UNCHANGED <<bz, objects, knownAtEdge, toSeed, tracker, link, links, pc>>
      BY <2>8 DEF Close, CloseDone, RemoveSignal, CloseBus, CloseReturn, bluezVars, runVars,
                  scannerVars, history
    <3>2. UNCHANGED signals /\ InOrder
      <4>1. /\ UNCHANGED history
            /\ listening' => UNCHANGED <<listening, signals>>
            /\ busOpen' => UNCHANGED busOpen
        BY <2>8 DEF Close, CloseDone, RemoveSignal, CloseBus, CloseReturn, libraryVars
      <4>. QED  BY <3>1, <4>1 DEF InOrder, history
    <3>. QED  BY <3>1, <3>2, LinksKept DEF Present
  <2>9. CASE Stop \/ RecvClosed \/ BusLost
    BY <2>9 DEF Stop, RecvClosed, Ends, BusLost, InOrder, Running
  <2>10. CASE DeliverLate
    <3>1. late # <<>> /\ overflowed' = overflowed
      BY <2>10 DEF DeliverLate, history
    <3>. QED  BY <3>1 DEF InOrder, TypeOK
  <2>11. ASSUME NEW c \in Devices, Change(c) PROVE LinksComing'
    <3>1. PICK v \in Object :
            /\ bz' = [bz EXCEPT ![c] = v] /\ (bz[c].airPods => v.airPods)
            /\ deliver([dev |-> c, names |-> changed(bz[c], v), val |-> v])
            /\ knownAtEdge' = IF v.connected # bz[c].connected
                              THEN [knownAtEdge EXCEPT ![c] = v.airPods] ELSE knownAtEdge
      BY <2>11 DEF Change
    <3>2. PICK sig : sig = [dev |-> c, names |-> changed(bz[c], v), val |-> v]
      OBVIOUS
    <3>3. sig \in Signal /\ sig.dev = c /\ deliver(sig)
      BY <3>1, <3>2, ChangedType DEF Signal, TypeOK
    <3>4. /\ c \in objects /\ objects' = objects
          /\ UNCHANGED <<pc, toSeed, tracker, link, links, listening, busOpen, seedFailed>>
      BY <2>11 DEF Change, runVars, scannerVars
    <3>5. InOrder
      BY <3>3, <3>4 DEF InOrder, deliver, TypeOK
    <3>. SUFFICES ASSUME NEW d \in Devices
                  PROVE  (pc # "enumerate" => Following(d))' /\ (pc = "enumerate" => Enumerating(d))'
      BY DEF LinksComing
    <3>6. ASSUME NEW y \in State
          PROVE  LET z == after(y, sig, d) IN
                 Right(d, y) => /\ Right(d, z)'
                                /\ Upper(d, y) => Upper(d, z)'
                                /\ Lower(d, y) => Lower(d, z)'
      <4>1. CASE d = c
        BY <3>1, <3>2, <3>4, <4>1, ChangeEnds
      <4>2. CASE d # c
        <5>1. bz'[d] = bz[d] /\ knownAtEdge'[d] = knownAtEdge[d]
          BY <3>1, <4>2 DEF TypeOK
        <5>. QED  BY <3>3, <3>4, <4>2, <5>1, OthersEnd
      <4>. QED  BY <4>1, <4>2
    <3>. QED  BY <3>3, <3>4, <3>5, <3>6, DeliverFollows
  <2>12. ASSUME NEW c \in Devices, Appear(c) PROVE LinksComing'
    <3>1. PICK v \in Object :
            /\ bz' = [bz EXCEPT ![c] = v] /\ deliver(whole(c, v))
            /\ knownAtEdge' = [knownAtEdge EXCEPT ![c] = v.airPods]
      BY <2>12 DEF Appear
    <3>2. PICK sig : sig = whole(c, v)
      OBVIOUS
    <3>3. sig \in Signal /\ sig.dev = c /\ deliver(sig)
      BY <3>1, <3>2, WholeType DEF whole
    <3>4. /\ c \notin objects /\ objects' = objects \cup {c}
          /\ UNCHANGED <<pc, toSeed, tracker, link, links, listening, busOpen, seedFailed>>
      BY <2>12 DEF Appear, runVars, scannerVars
    <3>5. InOrder
      BY <3>3, <3>4 DEF InOrder, deliver, TypeOK
    <3>. SUFFICES ASSUME NEW d \in Devices
                  PROVE  (pc # "enumerate" => Following(d))' /\ (pc = "enumerate" => Enumerating(d))'
      BY DEF LinksComing
    <3>6. ASSUME NEW y \in State
          PROVE  LET z == after(y, sig, d) IN
                 Right(d, y) => /\ Right(d, z)'
                                /\ Upper(d, y) => Upper(d, z)'
                                /\ Lower(d, y) => Lower(d, z)'
      <4>1. CASE d = c
        BY <3>1, <3>2, <3>4, <4>1, AppearEnds
      <4>2. CASE d # c
        <5>1. bz'[d] = bz[d] /\ knownAtEdge'[d] = knownAtEdge[d]
          BY <3>1, <4>2 DEF TypeOK
        <5>. QED  BY <3>3, <3>4, <4>2, <5>1, OthersEnd
      <4>. QED  BY <4>1, <4>2
    <3>. QED  BY <3>3, <3>4, <3>5, <3>6, DeliverFollows
  <2>13. ASSUME NEW c \in Devices, Disappear(c) PROVE LinksComing'
    <3>1. /\ InOrder /\ ~bz[c].connected /\ objects' = objects \ {c}
          /\ bz' = [bz EXCEPT ![c] = absent]
          /\ UNCHANGED <<pc, toSeed, tracker, link, links, signals, knownAtEdge>>
      BY <2>13 DEF Disappear, InOrder, libraryVars, runVars, scannerVars, history
    <3>. SUFFICES ASSUME NEW d \in Devices
                  PROVE  (pc # "enumerate" => Following(d))' /\ (pc = "enumerate" => Enumerating(d))'
      BY DEF LinksComing
    <3>2. ASSUME NEW y
          PROVE  /\ Right(d, y) => Right(d, y)'
                 /\ Upper(d, y) => Upper(d, y)'
                 /\ Lower(d, y) => Lower(d, y)'
      <4>1. CASE d = c
        BY <3>1, <4>1, DisappearEnds
      <4>2. CASE d # c
        <5>1. bz'[d] = bz[d]
          BY <3>1, <4>2 DEF TypeOK
        <5>. QED  BY <3>1, <4>2, <5>1 DEF Right, Upper, Lower
      <4>. QED  BY <4>1, <4>2
    <3>3. \A x, y : RunTo(x, d, y)' <=> RunTo(x, d, y)
      BY <3>1 DEF RunTo
    <3>4. \A x : Start(d, x)' <=> Start(d, x)
      BY <3>1 DEF Start, Present
    <3>5. pc # "enumerate" => Following(d)'
      BY <3>1, <3>2, <3>3, <3>4 DEF LinksComing, Following
    <3>6. pc = "enumerate" => Enumerating(d)'
      BY <3>1, <3>2, <3>3 DEF LinksComing, Enumerating
    <3>. QED  BY <3>1, <3>5, <3>6
  <2>14. CASE UNCHANGED vars
    <3>1. UNCHANGED <<bz, objects, knownAtEdge, signals, toSeed, tracker, link, links, pc>> /\ InOrder
      BY <2>14 DEF vars, bluezVars, libraryVars, runVars, scannerVars, history, InOrder
    <3>. QED  BY <3>1, LinksKept DEF Present
  <2>. QED  BY <2>1, <2>2, <2>3, <2>4, <2>5, <2>6, <2>7, <2>8, <2>9, <2>10, <2>11, <2>12,
              <2>13, <2>14 DEF Next, Run, Env, BlueZ
<1>. QED  BY <1>1, <1>2 DEF LinksInv

(* Whatever BlueZ did before, during and after the enumeration, an idle source has
   told the scanner of BlueZ's links: it counts only AirPods that are connected,
   and all of those that were known as AirPods when their link changed
   (bluezSource.run, feed and deviceTracker.update, ble/bluez.go).            *)
THEOREM LinksAreTold == Spec => []LinksFollow
<1>1. LinksInv => LinksFollow
  <2>. SUFFICES ASSUME LinksInv, Settled, NEW d \in Devices
                PROVE  /\ d \in links => bz[d].airPods /\ bz[d].connected
                       /\ bz[d].connected /\ knownAtEdge[d] => d \in links
    BY DEF LinksFollow
  <2>1. InOrder /\ pc = "select" /\ signals = <<>> /\ toSeed = {} /\ link = None
    BY DEF Settled, InOrder, LinksInv, Before, Fresh, Running
  <2>2. PICK x \in State, y \in State :
          Start(d, x) /\ RunTo(x, d, y) /\ Right(d, y) /\ Upper(d, y) /\ Lower(d, y)
    BY <2>1 DEF LinksInv, LinksComing, Following
  <2>3. y = x
    BY <2>1, <2>2 DEF RunTo, IsRun
  <2>4. y.k = tracker[d].isAirPods /\ y.e = told(d \in links)
    BY <2>1, <2>2, <2>3 DEF Start, Present
  <2>5. bz[d].connected => d \in objects
    BY DEF LinksInv, Objects, absent
  <2>. QED  BY <2>2, <2>4, <2>5 DEF Right, Upper, Lower, told
<1>. QED  BY <1>1, LinksInit, LinksStep, PTL DEF Spec
=============================================================================
