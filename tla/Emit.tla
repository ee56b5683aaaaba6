-------------------------------- MODULE Emit --------------------------------
(* The non-blocking send written three times in the code, ble.emit,
   core.pushLatest and ipc.pushLatestSnap, on a Go channel of capacity one:

       select { case <-ch: default: }      drain
       select { case ch <- v: default: }   send

   Each select is one step, and the consumer may receive before, between and
   after them.  There is one producer ("The scanner is the sole producer";
   run is the sole producer in core, and ipc holds Server.mu).  Every other
   module treats the two selects as one assignment; the refinement stated
   here is the reason it may.                                              *)
EXTENDS Naturals

CONSTANT MaxSent

ASSUME EmitAssumption == MaxSent \in Nat

VARIABLES sent,   \* number of calls so far; the last call sends this value
          ch,     \* the channel's buffer: a value or 0
          pc,     \* the producer: "idle", or about to "drain" or "send"
          got     \* the value the consumer received last, or 0

vars == <<sent, ch, pc, got>>

Init == sent = 0 /\ ch = 0 /\ pc = "idle" /\ got = 0

Call ==
    /\ pc = "idle" /\ sent < MaxSent
    /\ sent' = sent + 1 /\ pc' = "drain"
    /\ UNCHANGED <<ch, got>>

\* Mutant: the first select is missing.
Drain_missing ==
    /\ pc = "drain"
    /\ pc' = "send"
    /\ UNCHANGED <<sent, ch, got>>

Drain ==
    /\ pc = "drain"
    /\ ch' = 0 /\ pc' = "send"
    /\ UNCHANGED <<sent, got>>

\* The default case drops the value when the buffer is full.
Send ==
    /\ pc = "send"
    /\ ch' = IF ch = 0 THEN sent ELSE ch
    /\ pc' = "idle"
    /\ UNCHANGED <<sent, got>>

Receive ==
    /\ ch # 0
    /\ got' = ch /\ ch' = 0
    /\ UNCHANGED <<sent, pc>>

Next == Call \/ Drain \/ Send \/ Receive

Spec == Init /\ [][Next]_vars

-----------------------------------------------------------------------------
TypeOK ==
    /\ sent \in 0 .. MaxSent /\ ch \in 0 .. MaxSent /\ got \in 0 .. MaxSent
    /\ pc \in {"idle", "drain", "send"}
    /\ pc # "idle" => sent > 0

(* Although the second select has a default case, it is never taken: with one
   producer nothing can refill the buffer between the two selects.           *)
SendNeverDrops == pc = "send" => ch = 0

(* Refinement mapping: the atomic Put happens when the buffer is drained; from
   then on the slot holds the new value, which nobody can receive before Send. *)
slotBar == IF pc = "send" THEN sent ELSE ch
sentBar == IF pc = "drain" THEN sent - 1 ELSE sent

LW == INSTANCE LatestWins WITH sent <- sentBar, slot <- slotBar

(* The two selects implement the atomic latest-wins mailbox. *)
Implements == LW!Spec
=============================================================================
