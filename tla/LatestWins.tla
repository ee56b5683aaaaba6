----------------------------- MODULE LatestWins -----------------------------
(* What a "latest wins" channel promises its producer and its consumer: a
   one-slot mailbox in which a new value atomically replaces an unread one.
   Values are numbered in the order they are sent; 0 is the empty slot.      *)
EXTENDS Naturals

CONSTANT MaxSent      \* bound on the number of sends

VARIABLES sent,       \* number of values sent
          slot,       \* the unread value, or 0
          got         \* the value the consumer received last, or 0

vars == <<sent, slot, got>>

Init == sent = 0 /\ slot = 0 /\ got = 0

Put ==
    /\ sent < MaxSent
    /\ sent' = sent + 1
    /\ slot' = sent + 1
    /\ UNCHANGED got

Take ==
    /\ slot # 0
    /\ got' = slot /\ slot' = 0
    /\ UNCHANGED sent

Next == Put \/ Take

Spec == Init /\ [][Next]_vars
=============================================================================
