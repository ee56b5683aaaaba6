----------------------------- MODULE MCPipeline -----------------------------
(* Small instance of Pipeline for TLC: up to two AirPods and one other Apple
   device in range, up to two paired headsets; the cfg files choose.         *)
EXTENDS Pipeline

CONSTANTS p1, p2, o1, l1, l2

MCRSSIs   == {-70, -50}
MCMinRSSI == -60
MCOneRSSI == {-50}
=============================================================================
