------------------------------ MODULE Pipeline ------------------------------
(* The daemon's data path: the scanner's goroutine (module Scanner) and the
   monitor's goroutine (module Monitor) coupled by the two latest-wins channels,
   one clock, and the close sequence Monitor.Close -> Scanner.Close ->
   Source.Close (core/core.go, ble/scanner.go).

   Every step is a step of one component under which the other one's private
   state stands still, so the pipeline implements both component
   specifications; what the consumer of Scanner has seen is the monitor's own
   connection flag.                                                          *)
EXTENDS Integers, Sequences

CONSTANTS
    PodsAddr, OtherAddr, Links, RSSIs, MinRSSI, Window, MaxRecent,  \* Scanner
    StaleAfter, PollInterval, NotesCap,                             \* Monitor
    MaxTime, None,
    Prompt   \* goroutines drain their channels before the clock moves on

VARIABLES
    recent, connected, scDone, srcOpen,                  \* scanner and source
    updates, conns, scannerOpen, aggregate,              \* shared with the monitor
    st, lastStale, current, snapshots, notes, done, running, nextTick, tick,
    shown, lastNote, dropped,                            \* monitor and daemon
    now

Status == [addr : PodsAddr, cap : 0 .. MaxTime]

Sc == INSTANCE Scanner WITH seenConn <- st.connected
M  == INSTANCE Monitor WITH Statuses <- Status

ASSUME PipelineAssumption ==
    /\ Prompt \in BOOLEAN
    /\ PodsAddr \cap OtherAddr = {} /\ RSSIs \subseteq Int /\ MinRSSI \in Int
    /\ Window \in Nat /\ MaxRecent \in Nat /\ StaleAfter \in Nat /\ MaxTime \in Nat
    /\ PollInterval \in Nat \ {0} /\ NotesCap \in Nat \ {0}
    /\ None \notin Status \cup BOOLEAN \cup M!Snapshot \cup M!Kind

scannerOwn == <<recent, connected, scDone, srcOpen>>
monitorOwn == <<st, lastStale, current, snapshots, notes, done, running, nextTick,
                tick, shown, lastNote, dropped>>
vars == <<scannerOwn, monitorOwn, updates, conns, scannerOpen, aggregate, now>>

Init == M!Init /\ Sc!Init

-----------------------------------------------------------------------------
(* The scanner's goroutine. *)
ScannerBeacon == UNCHANGED monitorOwn /\ Sc!RecvBeacon
ScannerLink   == UNCHANGED monitorOwn /\ Sc!RecvConn
ScannerEnds   == UNCHANGED monitorOwn /\ (Sc!RecvClosed \/ Sc!RecvDone)

(* The monitor's goroutine. *)
MonitorUpdate == M!RecvUpdate /\ UNCHANGED scannerOwn
MonitorConn   == M!RecvConn /\ UNCHANGED scannerOwn
MonitorTick   == M!RecvTick /\ UNCHANGED scannerOwn
MonitorEnds   == (M!RecvClosed \/ M!RecvDone) /\ UNCHANGED scannerOwn

(* The daemon's two loops. *)
DaemonSnapshot == M!TakeSnapshot /\ UNCHANGED scannerOwn
DaemonNote     == M!TakeNote /\ UNCHANGED scannerOwn

\* Mutant: Close closes the outputs itself instead of leaving that to run.
CloseScanner_closesOutputs ==
    /\ done /\ ~scDone /\ scDone' = TRUE /\ scannerOpen' = FALSE
    /\ UNCHANGED <<monitorOwn, recent, connected, srcOpen, updates, conns, aggregate, now>>

\* Mutant: a scanner that has already stopped does not close its source.
CloseSource_ifRunning == scDone /\ scannerOpen /\ UNCHANGED monitorOwn /\ Sc!SourceStop

(* Monitor.Close closes done and calls Scanner.Close, which closes its own done
   and then the source; the source may also end by itself.                    *)
CloseMonitor == M!Close /\ UNCHANGED scannerOwn
CloseScanner == done /\ UNCHANGED monitorOwn /\ Sc!Close
CloseSource  == scDone /\ UNCHANGED monitorOwn /\ Sc!SourceStop
SourceFails  == UNCHANGED monitorOwn /\ Sc!SourceStop

Drained == updates = None /\ conns = None /\ ~tick /\ snapshots = None /\ notes = <<>>

Clock ==
    /\ Prompt => Drained
    /\ M!Clock /\ UNCHANGED scannerOwn

ScannerStep == ScannerBeacon \/ ScannerLink \/ ScannerEnds
MonitorStep == MonitorUpdate \/ MonitorConn \/ MonitorTick \/ MonitorEnds
DaemonStep  == DaemonSnapshot \/ DaemonNote
CloseStep   == CloseMonitor \/ CloseScanner \/ CloseSource \/ SourceFails
Next == ScannerStep \/ MonitorStep \/ DaemonStep \/ CloseStep \/ Clock

Spec == Init /\ [][Next]_vars

(* Goroutines that can run do, and Close runs to its end once it was called;
   nobody has to call it.                                                    *)
FairSpec ==
    /\ Spec
    /\ WF_vars(ScannerEnds) /\ WF_vars(MonitorUpdate) /\ WF_vars(MonitorConn)
    /\ WF_vars(MonitorTick) /\ WF_vars(MonitorEnds)
    /\ WF_vars(CloseScanner) /\ WF_vars(CloseSource)

-----------------------------------------------------------------------------
(* The composition implements each component's specification: the environment
   each was checked against is the one the other provides.                    *)
ImplementsScanner == Sc!Spec
ImplementsMonitor == M!Spec

(* End to end, once the flag has been read the published snapshot says connected
   exactly if some paired AirPods is: no sequence of link edges, however it
   collapses in the channel, leaves the daemon on the wrong one.             *)
LinkIsTrue == conns = None => (current.connected <=> connected # {})

(* End to end, figures on display were captured less than Window + StaleAfter +
   one poll period ago, when goroutines are prompt: a re-emitted reading may be
   Window old when the monitor stamps it as fresh.                            *)
FiguresAgeBound ==
    Prompt /\ running /\ ~tick /\ ~current.stale
        => now - current.figures.cap < Window + StaleAfter + PollInterval

(* Close, and the end of the source by itself, end the source and both goroutines
   in whatever state they find them, buffered values included.                *)
AllEndTogether == (done \/ ~srcOpen) ~> [](~running /\ ~scannerOpen /\ ~srcOpen)
=============================================================================
