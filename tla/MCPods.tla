------------------------------- MODULE MCPods -------------------------------
(* Small instance of Pods for TLC: every id of the table, ids that differ from
   one in a character, and the battery levels at the boundaries.             *)
EXTENDS Render

Known == {<<"0","2","2","0">>, <<"0","F","2","0">>, <<"1","3","2","0">>, <<"0","E","2","0">>,
          <<"1","4","2","0">>, <<"2","4","2","0">>, <<"2","7","2","0">>, <<"0","A","2","0">>,
          <<"0","B","2","0">>, <<"0","5","2","0">>, <<"1","0","2","0">>, <<"0","6","2","0">>,
          <<"0","9","2","0">>, <<"0","3","2","0">>}
Near  == {<<"1","2","2","0">>, <<"0","3","2","1">>, <<"2","A","1","0">>, <<"F","F","F","F">>}

MCIds     == Known \cup Near
MCLevels  == {9, 10, 11}
MCLengths == {26, 27}

\* The fields that matter for the swap, without the unused flag bits.
MCInit == Init /\ payload.flags \subseteq {1} /\ payload.inEar \subseteq {1, 3}
               /\ 3 \notin payload.charge /\ payload.batt > 9
MCSpec == MCInit /\ [][Next]_payload
=============================================================================
