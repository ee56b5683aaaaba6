------------------------------- MODULE Scanner -------------------------------
(* ble.scanner and its selector (ble/scanner.go, ble/selector.go): one goroutine
   that selects over the source's two unbuffered channels and a done channel.
   A beacon runs the "which beacon is mine" heuristic and may publish a decoded
   status; a link event updates the set of connected AirPods and publishes the
   aggregate flag when it changes.  Both outputs are one-slot latest-wins
   channels (see Emit), written None-or-value.

   The source stamps a beacon when it hands it over, so a beacon is received at
   the instant it carries.  Its payload is abstracted to the device it comes
   from: pods.Decode accepts it exactly if the address is in PodsAddr.  A status
   is the device and the capture time of the reading.  BLE addresses are random
   and unrelated to the addresses (Links) of the audio connections.           *)
EXTENDS Integers, Sequences, SequencesExt

CONSTANTS
    PodsAddr,    \* BLE addresses whose payload decodes
    OtherAddr,   \* BLE addresses of other Apple devices
    Links,       \* addresses of paired AirPods
    RSSIs,       \* signal strengths
    MinRSSI,     \* floor for accepting a beacon
    Window,      \* how long a beacon stays a candidate
    MaxRecent,   \* bound on the beacons received within one window
    MaxTime,     \* bound on the clock
    None         \* an empty channel

Addr   == PodsAddr \cup OtherAddr
Beacon == [addr : Addr, rssi : RSSIs, time : 0 .. MaxTime]
Status == [addr : PodsAddr, cap : 0 .. MaxTime]

ASSUME ScannerAssumption ==
    /\ PodsAddr \cap OtherAddr = {}
    /\ RSSIs \subseteq Int /\ MinRSSI \in Int
    /\ Window \in Nat /\ MaxRecent \in Nat /\ MaxTime \in Nat
    /\ None \notin Status \cup BOOLEAN

VARIABLES
    recent,      \* selector.recent
    connected,   \* addresses of the connected AirPods
    aggregate,   \* whether there is one
    updates,     \* Updates(): None or the unread status
    conns,       \* Connected(): None or the unread flag
    scannerOpen, \* run has not returned (updates and conns are open)
    scDone,      \* Close was called
    srcOpen,     \* the source has not closed its channels
    now,         \* the clock
    seenConn     \* the flag the consumer received last, FALSE at first

vars == <<recent, connected, aggregate, updates, conns, scannerOpen, scDone,
          srcOpen, now, seenConn>>

-----------------------------------------------------------------------------
(* The selector. *)

\* Mutant: nothing is pruned.
prune_nothing(rs, t) == rs

\* Beacons no older than the window, relative to the newest arrival.
prune(rs, t) ==
    LET kept[i \in 0 .. Len(rs)] ==
            IF i = 0 THEN <<>>
            ELSE IF t - rs[i].time <= Window THEN Append(kept[i - 1], rs[i])
            ELSE kept[i - 1]
    IN  kept[Len(rs)]

\* Mutant: the newest beacon, whatever its strength.
strongest_newest(rs) == Last(rs)

\* The first beacon of maximal strength.
strongest(rs) ==
    rs[CHOOSE i \in DOMAIN rs : \A j \in DOMAIN rs :
          rs[j].rssi < rs[i].rssi \/ (rs[j].rssi = rs[i].rssi /\ i <= j)]

\* The fresh reading of the strongest beacon's device, if it is the newest.
chosen(rs, b) == IF strongest(rs).addr = b.addr THEN b ELSE strongest(rs)

\* Mutant: the gate looks at the strongest beacon, not at the chosen one.
passes_strongest(rs, b) == strongest(rs).rssi >= MinRSSI

\* Mutant: a beacon at the floor is rejected.
passes_above(rs, b) == chosen(rs, b).rssi > MinRSSI

passes(rs, b) == chosen(rs, b).rssi >= MinRSSI

decodes(b) == b.addr \in PodsAddr
decode(b) == [addr |-> b.addr, cap |-> b.time]

-----------------------------------------------------------------------------
Init ==
    /\ recent = <<>> /\ connected = {} /\ aggregate = FALSE
    /\ updates = None /\ conns = None
    /\ scannerOpen = TRUE /\ scDone = FALSE /\ srcOpen = TRUE
    /\ now = 0 /\ seenConn = FALSE

RecvBeacon ==
    /\ scannerOpen /\ srcOpen
    /\ \E a \in Addr, r \in RSSIs :
        LET b == [addr |-> a, rssi |-> r, time |-> now] IN
        /\ recent' = prune(Append(recent, b), now)
        /\ Len(recent') <= MaxRecent
        /\ updates' = IF passes(recent', b) /\ decodes(chosen(recent', b))
                      THEN decode(chosen(recent', b)) ELSE updates
    /\ UNCHANGED <<connected, aggregate, conns, scannerOpen, scDone, srcOpen, now, seenConn>>

\* Mutant: the last event decides.
anyLink_last(links, c) == c

\* The aggregate of a set of links, after an event that carried c.
anyLink(links, c) == links # {}

\* Mutant: an unread flag is kept.
emitConn_keepsOld(c) == conns' = IF conns = None THEN c ELSE conns

emitConn(c) == conns' = c

\* Mutant: every link event is forwarded.
RecvConn_everyEvent ==
    /\ scannerOpen /\ srcOpen
    /\ \E l \in Links, c \in BOOLEAN :
        /\ connected' = IF c THEN connected \cup {l} ELSE connected \ {l}
        /\ aggregate' = anyLink(connected', c)
        /\ emitConn(aggregate')
    /\ UNCHANGED <<recent, updates, scannerOpen, scDone, srcOpen, now, seenConn>>

RecvConn ==
    /\ scannerOpen /\ srcOpen
    /\ \E l \in Links, c \in BOOLEAN :
        /\ connected' = IF c THEN connected \cup {l} ELSE connected \ {l}
        /\ aggregate' = anyLink(connected', c)
        /\ IF aggregate' # aggregate THEN emitConn(aggregate') ELSE UNCHANGED conns
    /\ UNCHANGED <<recent, updates, scannerOpen, scDone, srcOpen, now, seenConn>>

\* Mutant: a closed source is set to nil and the loop goes on until Close.
RecvClosed_goesOn ==
    /\ scannerOpen /\ ~srcOpen /\ scDone
    /\ scannerOpen' = FALSE
    /\ UNCHANGED <<recent, connected, aggregate, updates, conns, scDone, srcOpen, now, seenConn>>

RecvClosed ==
    /\ scannerOpen /\ ~srcOpen
    /\ scannerOpen' = FALSE
    /\ UNCHANGED <<recent, connected, aggregate, updates, conns, scDone, srcOpen, now, seenConn>>

RecvDone ==
    /\ scannerOpen /\ scDone
    /\ scannerOpen' = FALSE
    /\ UNCHANGED <<recent, connected, aggregate, updates, conns, scDone, srcOpen, now, seenConn>>

-----------------------------------------------------------------------------
(* The environment: source, owner, consumer, clock. *)

\* The source ends by itself, or Close closed it.
SourceStop ==
    /\ srcOpen
    /\ srcOpen' = FALSE
    /\ UNCHANGED <<recent, connected, aggregate, updates, conns, scannerOpen, scDone, now, seenConn>>

Close ==
    /\ ~scDone
    /\ scDone' = TRUE
    /\ UNCHANGED <<recent, connected, aggregate, updates, conns, scannerOpen, srcOpen, now, seenConn>>

TakeUpdate ==
    /\ updates # None
    /\ updates' = None
    /\ UNCHANGED <<recent, connected, aggregate, conns, scannerOpen, scDone, srcOpen, now, seenConn>>

TakeConn ==
    /\ conns # None
    /\ seenConn' = conns /\ conns' = None
    /\ UNCHANGED <<recent, connected, aggregate, updates, scannerOpen, scDone, srcOpen, now>>

Clock ==
    /\ now < MaxTime
    /\ now' = now + 1
    /\ UNCHANGED <<recent, connected, aggregate, updates, conns, scannerOpen, scDone,
                   srcOpen, seenConn>>

-----------------------------------------------------------------------------
Run == RecvBeacon \/ RecvConn \/ RecvClosed \/ RecvDone
Env == SourceStop \/ Close \/ TakeUpdate \/ TakeConn \/ Clock
Next == Run \/ Env

Spec == Init /\ [][Next]_vars

-----------------------------------------------------------------------------
TypeOK ==
    /\ recent \in Seq(Beacon) /\ Len(recent) <= MaxRecent
    /\ connected \subseteq Links /\ aggregate \in BOOLEAN
    /\ updates \in Status \cup {None}
    /\ conns \in BOOLEAN \cup {None}
    /\ scannerOpen \in BOOLEAN /\ scDone \in BOOLEAN /\ srcOpen \in BOOLEAN
    /\ now \in 0 .. MaxTime /\ seenConn \in BOOLEAN

(* The selector remembers beacons in the order they came, and none that is more
   than a window older than the newest: a strong beacon of a headset that has
   left stops competing after Window, and memory is bounded by the beacon rate. *)
RecentIsAWindow ==
    \A i, j \in DOMAIN recent :
        i <= j => recent[j].time - recent[i].time \in 0 .. Window

(* However link edges of several headsets collapse in the one-slot channel, a
   consumer with nothing left to read knows whether any AirPods is connected, and
   what is unread is that flag: one of two headsets leaving is no disconnect. *)
ConsumerConverges ==
    (IF conns # None THEN conns ELSE seenConn) <=> connected # {}

\* A step that publishes a status; an identical unread one is not told apart.
Publishes == updates' # updates /\ updates' # None
ReadingOf(s, i) == recent'[i].addr = s.addr /\ recent'[i].time = s.cap

(* A published status is a reading captured within the window, and that very
   reading cleared the RSSI floor.                                            *)
PublishedIsRecentAndStrong ==
    [][Publishes =>
        /\ now - updates'.cap \in 0 .. Window
        /\ \E i \in DOMAIN recent' :
              ReadingOf(updates', i) /\ recent'[i].rssi >= MinRSSI]_vars

(* A published status is from the device with the strongest beacon of the
   window, and is its newest reading whenever that device sent the beacon that
   triggered it.                                                              *)
PublishedIsLoudest ==
    [][Publishes =>
        /\ \E i \in DOMAIN recent' :
              /\ recent'[i].addr = updates'.addr
              /\ \A j \in DOMAIN recent' : recent'[j].rssi <= recent'[i].rssi
        /\ Last(recent').addr = updates'.addr => updates'.cap = now]_vars

\* The beacon received in this step is an AirPods beacon above the floor that no
\* AirPods beacon of the window exceeds.
Arrives == recent' # <<>> /\ recent' # recent /\ Last(recent').time = now
LoudestPods ==
    /\ Arrives /\ Last(recent').addr \in PodsAddr /\ Last(recent').rssi >= MinRSSI
    /\ \A i \in DOMAIN recent' :
          recent'[i].addr \in PodsAddr => recent'[i].rssi <= Last(recent').rssi
Drowned ==
    \E i \in DOMAIN recent' :
        recent'[i].addr \in OtherAddr /\ recent'[i].rssi >= Last(recent').rssi

\* The unread status is of a device as loud.
AsLoudIsOut ==
    /\ updates' # None
    /\ \E i \in DOMAIN recent' :
          recent'[i].addr = updates'.addr /\ recent'[i].rssi = Last(recent').rssi

(* The loudest AirPods beacon nearby yields a status of a device as loud as it,
   unless a beacon of another Apple device drowns it.                         *)
LoudestPodsPublished ==
    [][LoudestPods /\ ~Drowned => AsLoudIsOut]_vars
=============================================================================
