------------------------------ MODULE MCScanner ------------------------------
(* Small instance of Scanner for TLC: two AirPods and one other Apple device in
   range, two paired headsets, three signal strengths around the floor.       *)
EXTENDS Scanner

CONSTANTS p1, p2, o1, l1, l2

MCPodsAddr  == {p1, p2}
MCOtherAddr == {o1}
MCLinks     == {l1, l2}
MCRSSIs     == {-70, -60, -50}
MCMinRSSI   == -60
MCOneRSSI   == {-60}
=============================================================================
