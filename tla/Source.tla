------------------------------- MODULE Source -------------------------------
(* ble.bluezSource and its deviceTracker (ble/bluez.go, ble/bluez_track.go): a
   goroutine that seeds itself from the devices BlueZ knows, then merges BlueZ's
   partial property updates per device, and hands beacons and link events over
   two unbuffered channels to the scanner.

   External, as the code uses them: BlueZ, which owns the objects in bz and
   signals every change of a property; and the D-Bus library, which delivers
   signals to a buffered channel in order but, when the channel is full, leaves
   each further signal to a goroutine of its own, so that order is lost.

   A property update is the device, the names of the properties it carries and
   the device's values; the handler looks at the named ones only.  The address
   of a device is part of its object path and stands for it.                  *)
EXTENDS Naturals, Sequences, FiniteSets

CONSTANTS
    Devices,     \* object paths
    Payloads,    \* Apple manufacturer payloads
    RSSIs,       \* signal strengths
    SigCap,      \* capacity of the signal channel
    MaxChange,   \* bound on the properties that BlueZ changes
    None         \* a property that is not there, no pending event

Props  == {"UUIDs", "Connected", "ManufacturerData", "RSSI"}
Object == [airPods : BOOLEAN,                  \* an AirPods service is in UUIDs
           connected : BOOLEAN, data : Payloads \cup {None}, rssi : RSSIs \cup {None}]
absent == [airPods |-> FALSE, connected |-> FALSE, data |-> None, rssi |-> None]
Signal == [dev : Devices, names : SUBSET Props, val : Object]
Beacon == [dev : Devices, data : Payloads, rssi : RSSIs]
Link   == [dev : Devices, connected : BOOLEAN]

ASSUME SourceAssumption ==
    /\ SigCap \in Nat \ {0} /\ MaxChange \in Nat
    /\ None \notin Payloads \cup RSSIs \cup Beacon \cup Link

VARIABLES
    bz,          \* BlueZ: the properties of each object
    objects,     \* BlueZ: the objects that exist
    changes,     \* BlueZ: number of properties changed, and of devices come and gone
    busOpen,     \* the bus connection
    listening,   \* conn.Signal has registered the channel
    signals,     \* the channel's buffer
    late,        \* signals whose delivery waits for room in it
    chanClosed,  \* the library has closed the channel
    pc,          \* where the constructor, then run, is
    toSeed,      \* what is left of the enumeration
    tracker,     \* deviceTracker.devices
    beacon,      \* the beacon being sent, or None
    link,        \* the link event being sent, or None
    closer,      \* "no", then the step of Close that comes next, then "returned"
    heard,       \* per device, the beacon the scanner received last
    links        \* scanner.run's set of connected addresses

bluezVars   == <<bz, objects, changes>>
libraryVars == <<busOpen, listening, signals, late, chanClosed>>
runVars     == <<pc, toSeed, tracker, beacon, link>>
scannerVars == <<heard, links>>

\* History: enumeration failed; a signal found the channel full; whether a
\* device was known as AirPods when its link changed last.
VARIABLES seedFailed, overflowed, knownAtEdge

history == <<seedFailed, overflowed, knownAtEdge>>
vars == <<bluezVars, libraryVars, runVars, closer, scannerVars, history>>

Running == {"enumerate", "seed", "select", "sendBeacon", "sendLink"}
done == closer # "no"

-----------------------------------------------------------------------------
(* deviceTracker.update. *)

newDevice == [data |-> None, rssi |-> None, isAirPods |-> FALSE]

merge(st, sig) ==
    [isAirPods |-> IF "UUIDs" \in sig.names THEN sig.val.airPods ELSE st.isAirPods,
     rssi |-> IF "RSSI" \in sig.names THEN sig.val.rssi ELSE st.rssi,
     data |-> IF "ManufacturerData" \in sig.names THEN sig.val.data ELSE st.data]

\* Mutant: a fresh RSSI does not repeat the payload.
beaconOf_dataOnly(st, sig) ==
    IF "ManufacturerData" \in sig.names /\ st.data # None /\ st.rssi # None
    THEN [dev |-> sig.dev, data |-> st.data, rssi |-> st.rssi] ELSE None

\* A new payload or strength, once both are known (st is the merged state).
beaconOf(st, sig) ==
    IF sig.names \cap {"ManufacturerData", "RSSI"} # {} /\ st.data # None /\ st.rssi # None
    THEN [dev |-> sig.dev, data |-> st.data, rssi |-> st.rssi] ELSE None

\* Mutant: every device's link counts.
linkOf_any(st, sig) ==
    IF "Connected" \in sig.names
    THEN [dev |-> sig.dev, connected |-> sig.val.connected] ELSE None

\* The link is not cached: a device that is not known as AirPods yet has none.
linkOf(st, sig) ==
    IF "Connected" \in sig.names /\ st.isAirPods
    THEN [dev |-> sig.dev, connected |-> sig.val.connected] ELSE None

\* Where run goes on: the two sends, then the enumeration, then the select.
resume(b, l, rest) ==
    IF b # None THEN "sendBeacon" ELSE IF l # None THEN "sendLink"
    ELSE IF rest # {} THEN "seed" ELSE "select"

\* feed up to its first send.
feed(sig, rest) ==
    /\ tracker' = [tracker EXCEPT ![sig.dev] = merge(@, sig)]
    /\ beacon' = beaconOf(tracker'[sig.dev], sig)
    /\ link' = linkOf(tracker'[sig.dev], sig)
    /\ toSeed' = rest
    /\ pc' = resume(beacon', link', rest)

-----------------------------------------------------------------------------
(* NewBlueZSource.  Any of its calls may fail; it then releases the bus. *)

Init ==
    /\ objects \in SUBSET Devices
    /\ bz \in [Devices -> Object] /\ \A d \in Devices \ objects : bz[d] = absent
    /\ changes = 0
    /\ busOpen = TRUE /\ listening = FALSE
    /\ signals = <<>> /\ late = <<>> /\ chanClosed = FALSE
    /\ pc = "new" /\ toSeed = {} /\ tracker = [d \in Devices |-> newDevice]
    /\ beacon = None /\ link = None
    /\ closer = "no"
    /\ heard = [d \in Devices |-> None] /\ links = {}
    /\ seedFailed = FALSE /\ overflowed = FALSE
    /\ knownAtEdge = [d \in Devices |-> bz[d].airPods]

\* No powered adapter, or a call that failed.
ConstructFails ==
    /\ pc \in {"new", "found"} /\ pc' = "failed" /\ busOpen' = FALSE
    /\ UNCHANGED <<bluezVars, listening, signals, late, chanClosed, toSeed, tracker,
                   beacon, link, closer, scannerVars, history>>

\* findAdapter succeeds if an adapter is powered.
FindAdapter ==
    /\ pc = "new" /\ busOpen /\ pc' = "found"
    /\ UNCHANGED <<bluezVars, libraryVars, toSeed, tracker, beacon, link, closer,
                   scannerVars, history>>

\* The filter, the two match rules and StartDiscovery.
StartDiscovery ==
    /\ pc = "found" /\ busOpen /\ pc' = "discovering"
    /\ UNCHANGED <<bluezVars, libraryVars, toSeed, tracker, beacon, link, closer,
                   scannerVars, history>>

\* conn.Signal, which a closed connection ignores, and the goroutine starts.
Register ==
    /\ pc = "discovering" /\ pc' = "enumerate"
    /\ listening' = busOpen
    /\ UNCHANGED <<bluezVars, busOpen, signals, late, chanClosed, toSeed, tracker, beacon, link,
                   closer, scannerVars, history>>

-----------------------------------------------------------------------------
(* run. *)

namesOf(v) ==
    {"UUIDs", "Connected"} \cup (IF v.data = None THEN {} ELSE {"ManufacturerData"})
                           \cup (IF v.rssi = None THEN {} ELSE {"RSSI"})

\* All properties of an object, as in GetManagedObjects and InterfacesAdded.
whole(d, v) == [dev |-> d, names |-> namesOf(v), val |-> v]

\* Mutant: what BlueZ knows already is not asked for.
Enumerate_skipped ==
    /\ pc = "enumerate" /\ busOpen
    /\ toSeed' = {} /\ pc' = "select"
    /\ UNCHANGED <<bluezVars, libraryVars, tracker, beacon, link, closer,
                   scannerVars, history>>

Enumerate ==
    /\ pc = "enumerate" /\ busOpen
    /\ toSeed' = {whole(d, bz[d]) : d \in objects}
    /\ pc' = resume(None, None, toSeed')
    /\ UNCHANGED <<bluezVars, libraryVars, tracker, beacon, link, closer,
                   scannerVars, history>>

\* Logged, and run goes on without.
EnumerateFails ==
    /\ pc = "enumerate" /\ pc' = "select"
    /\ seedFailed' = TRUE
    /\ UNCHANGED <<bluezVars, libraryVars, toSeed, tracker, beacon, link, closer,
                   scannerVars, overflowed, knownAtEdge>>

\* The enumeration is a map: any order.
Seed ==
    /\ pc = "seed"
    /\ \E sig \in toSeed : feed(sig, toSeed \ {sig})
    /\ UNCHANGED <<bluezVars, libraryVars, closer, scannerVars, history>>

RecvSignal ==
    /\ pc = "select" /\ signals # <<>>
    /\ feed(Head(signals), {}) /\ signals' = Tail(signals)
    /\ UNCHANGED <<bluezVars, busOpen, listening, late, chanClosed, closer,
                   scannerVars, history>>

SendBeacon ==
    /\ pc = "sendBeacon"
    /\ heard' = [heard EXCEPT ![beacon.dev] = beacon]
    /\ beacon' = None /\ pc' = resume(None, link, toSeed)
    /\ UNCHANGED <<bluezVars, libraryVars, toSeed, tracker, link, closer, links,
                   history>>

SendLink ==
    /\ pc = "sendLink"
    /\ links' = IF link.connected THEN links \cup {link.dev} ELSE links \ {link.dev}
    /\ link' = None /\ pc' = resume(None, None, toSeed)
    /\ UNCHANGED <<bluezVars, libraryVars, toSeed, tracker, beacon, closer, heard,
                   history>>

Ends == pc' = "ended" /\ beacon' = None /\ link' = None

\* Mutant: a send does not look at done.
Stop_selectOnly ==
    /\ pc = "select" /\ done
    /\ Ends
    /\ UNCHANGED <<bluezVars, libraryVars, toSeed, tracker, closer, scannerVars, history>>

\* done, in the select or in a send.
Stop ==
    /\ pc \in {"select", "sendBeacon", "sendLink"} /\ done
    /\ Ends
    /\ UNCHANGED <<bluezVars, libraryVars, toSeed, tracker, closer, scannerVars, history>>

\* A closed channel still yields what it holds first.
RecvClosed ==
    /\ pc = "select" /\ chanClosed /\ signals = <<>>
    /\ Ends
    /\ UNCHANGED <<bluezVars, libraryVars, toSeed, tracker, closer, scannerVars, history>>

-----------------------------------------------------------------------------
(* Close, called by the scanner once it has been told to stop. *)

CloseDone ==
    /\ closer = "no" /\ pc \in Running \cup {"ended"}
    /\ closer' = "signal"      \* StopDiscovery is best effort
    /\ UNCHANGED <<bluezVars, libraryVars, runVars, scannerVars, history>>

\* RemoveSignal ends the deliveries that wait.
RemoveSignal ==
    /\ closer = "signal" /\ closer' = "bus"
    /\ listening' = FALSE /\ late' = <<>>
    /\ UNCHANGED <<bluezVars, busOpen, signals, chanClosed, runVars, scannerVars, history>>

CloseBus ==
    /\ closer = "bus" /\ closer' = "wait"
    /\ busOpen' = FALSE
    /\ UNCHANGED <<bluezVars, listening, signals, late, chanClosed, runVars, scannerVars,
                   history>>

CloseReturn ==
    /\ closer = "wait" /\ pc = "ended" /\ closer' = "returned"
    /\ UNCHANGED <<bluezVars, libraryVars, runVars, scannerVars, history>>

-----------------------------------------------------------------------------
(* BlueZ and the D-Bus library. *)

\* The library hands a signal to the channel or to a goroutine.
deliver(sig) ==
    IF ~listening THEN UNCHANGED <<signals, late, overflowed>>
    ELSE IF Len(signals) < SigCap
         THEN signals' = Append(signals, sig) /\ UNCHANGED <<late, overflowed>>
         ELSE late' = Append(late, sig) /\ overflowed' = TRUE /\ UNCHANGED signals

\* Services once discovered stay; an RSSI may be invalidated, which names nothing.
changed(old, new) ==
    (IF old.airPods # new.airPods THEN {"UUIDs"} ELSE {})
    \cup (IF old.connected # new.connected THEN {"Connected"} ELSE {})
    \cup (IF old.data # new.data THEN {"ManufacturerData"} ELSE {})
    \cup (IF old.rssi # new.rssi /\ new.rssi # None THEN {"RSSI"} ELSE {})

\* Bound: what BlueZ does before StartDiscovery only leads from one initial state
\* to another, and after Close has begun or the bus is gone nobody sees it.
observed == busOpen /\ ~done /\ pc \notin {"new", "found", "failed"}

Change(d) ==
    /\ observed /\ d \in objects
    /\ \E v \in Object, n \in 1 .. MaxChange - changes :
        /\ v # bz[d] /\ (bz[d].airPods => v.airPods) /\ (bz[d].data # None => v.data # None)
        /\ LET names == changed(bz[d], v)
           IN  /\ n = IF names = {} THEN 1 ELSE Cardinality(names)
               /\ deliver([dev |-> d, names |-> names, val |-> v])
        /\ bz' = [bz EXCEPT ![d] = v] /\ changes' = changes + n
        /\ knownAtEdge' = IF v.connected # bz[d].connected
                          THEN [knownAtEdge EXCEPT ![d] = v.airPods] ELSE knownAtEdge
    /\ UNCHANGED <<objects, busOpen, listening, chanClosed, runVars, closer, scannerVars,
                   seedFailed>>

\* It counts for two changes, as it names several properties.
Appear(d) ==
    /\ observed /\ changes + 2 <= MaxChange /\ d \notin objects
    /\ objects' = objects \cup {d}
    /\ \E v \in Object :
        /\ bz' = [bz EXCEPT ![d] = v]
        /\ deliver(whole(d, v))
        /\ knownAtEdge' = [knownAtEdge EXCEPT ![d] = v.airPods]
    /\ changes' = changes + 2
    /\ UNCHANGED <<busOpen, listening, chanClosed, runVars, closer, scannerVars, seedFailed>>

\* InterfacesRemoved is not subscribed to; BlueZ disconnects a device first.
Disappear(d) ==
    /\ observed /\ changes < MaxChange /\ d \in objects /\ ~bz[d].connected
    /\ objects' = objects \ {d} /\ bz' = [bz EXCEPT ![d] = absent]
    /\ changes' = changes + 1
    /\ UNCHANGED <<libraryVars, runVars, closer, scannerVars, history>>

\* A waiting delivery finds room: any of them.
DeliverLate ==
    /\ Len(signals) < SigCap
    /\ \E i \in DOMAIN late :
        /\ signals' = Append(signals, late[i])
        /\ late' = SubSeq(late, 1, i - 1) \o SubSeq(late, i + 1, Len(late))
    /\ UNCHANGED <<bluezVars, busOpen, listening, chanClosed, runVars, closer,
                   scannerVars, history>>

BusLost ==
    /\ busOpen /\ ~done /\ busOpen' = FALSE
    /\ chanClosed' = listening /\ late' = <<>>
    /\ UNCHANGED <<bluezVars, listening, signals, runVars, closer, scannerVars, history>>

-----------------------------------------------------------------------------
Construct == ConstructFails \/ FindAdapter \/ StartDiscovery \/ Register
Run == Enumerate \/ EnumerateFails \/ Seed \/ RecvSignal \/ SendBeacon \/ SendLink
       \/ Stop \/ RecvClosed
Close == CloseDone \/ RemoveSignal \/ CloseBus \/ CloseReturn
BlueZ == \E d \in Devices : Change(d) \/ Appear(d) \/ Disappear(d)
Env   == BlueZ \/ DeliverLate \/ BusLost
Next  == Construct \/ Run \/ Close \/ Env

Spec == Init /\ [][Next]_vars

(* run goes on whenever it can, and BlueZ answers the enumeration.  The scanner
   receives until it closes the source; from then on it may have stopped.  Close
   once called goes on to its end.  Nothing obliges BlueZ to signal, the bus to
   fail or the owner to close.                                                *)
FairSpec ==
    /\ Spec
    /\ WF_vars(Enumerate \/ EnumerateFails \/ Seed)
    /\ WF_vars(~done /\ (RecvSignal \/ SendBeacon \/ SendLink))
    /\ WF_vars(Stop) /\ WF_vars(RecvClosed) /\ WF_vars(DeliverLate)
    /\ WF_vars(RemoveSignal) /\ WF_vars(CloseBus) /\ WF_vars(CloseReturn)

-----------------------------------------------------------------------------
(* Every variable has its type; run holds a pending event exactly while it is
   sending, and a signal waits for room only behind a full channel it once found
   full.                                                                      *)
TypeOK ==
    /\ bz \in [Devices -> Object] /\ objects \subseteq Devices
    /\ changes \in 0 .. MaxChange
    /\ busOpen \in BOOLEAN /\ listening \in BOOLEAN /\ chanClosed \in BOOLEAN
    /\ signals \in Seq(Signal) /\ Len(signals) <= SigCap
    /\ late \in Seq(Signal) /\ (late # <<>> => overflowed)
    /\ pc \in {"new", "found", "failed", "discovering", "ended"} \cup Running
    /\ toSeed \subseteq Signal
    /\ tracker \in [Devices -> [data : Payloads \cup {None}, rssi : RSSIs \cup {None},
                                isAirPods : BOOLEAN]]
    /\ beacon \in Beacon \cup {None} /\ (beacon # None <=> pc = "sendBeacon")
    /\ link \in Link \cup {None} /\ (pc = "sendLink" => link # None)
    /\ closer \in {"no", "signal", "bus", "wait", "returned"}
    /\ heard \in [Devices -> Beacon \cup {None}] /\ links \subseteq Devices
    /\ seedFailed \in BOOLEAN /\ overflowed \in BOOLEAN
    /\ knownAtEdge \in [Devices -> BOOLEAN]

\* Nothing is under way, and no signal was lost or overtaken.
Settled == pc = "select" /\ listening /\ busOpen /\ signals = <<>> /\ ~seedFailed /\ ~overflowed

(* Whatever mixture of enumeration, replayed and new signals it was fed, the
   scanner ends on BlueZ's links: a device it counts is AirPods and connected,
   and a connected device counts unless it was not known as AirPods when its
   link changed.                                                              *)
LinksFollow ==
    Settled => \A d \in Devices :
        /\ d \in links => bz[d].airPods /\ bz[d].connected
        /\ bz[d].connected /\ knownAtEdge[d] => d \in links

(* Partial updates are merged right: the scanner has heard the present payload of
   every object that has one, with its present strength.                      *)
HeardLatest ==
    Settled => \A d \in objects :
        bz[d].data # None /\ bz[d].rssi # None
            => heard[d] = [dev |-> d, data |-> bz[d].data, rssi |-> bz[d].rssi]

(* Close, or the loss of the bus once signals are subscribed to, ends the
   goroutine wherever it is: enumerating,
   seeding, blocked in a send or waiting; and Close returns.                  *)
SourceEnds ==
    /\ (done \/ (listening /\ ~busOpen)) ~> pc = "ended"
    /\ done ~> closer = "returned"
=============================================================================
