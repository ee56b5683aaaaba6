-------------------------------- MODULE Pods --------------------------------
(* The decoder (pods/pods.go, pods/model.go) and the view built from its result
   (ipc.FromStatus, the artwork table of assets/pods.go): pure functions of a
   27-byte payload.  A payload is the record of the nibbles the decoder reads;
   a nibble used as a bit field is the set of its set bits, one used as a level
   is a number, and the model id is the tuple of its four hex characters.

   The only state is the payload on the air: a headset's two buds may swap
   roles, which re-encodes the same reading with left and right exchanged.    *)
EXTENDS Integers, Sequences

CONSTANTS
    Ids,      \* model ids on the air
    Levels,   \* battery nibbles
    Lengths,  \* payload lengths
    None      \* no figure

Nibble == SUBSET (0 .. 3)

payloadLen         == 27
DisconnectedStatus == 15
MaxConnectedStatus == 10

ASSUME PodsAssumption ==
    /\ Levels \subseteq 0 .. 15
    /\ Lengths \subseteq Nat
    /\ None \notin Int
    /\ \A id \in Ids : id \in Seq(STRING) /\ Len(id) = 4

VARIABLE payload

-----------------------------------------------------------------------------
(* Model detection: the rules in the order of the switch.  A rule matches the
   whole id (chars 6-9) or only its second character (idSingle, char 7).      *)
whole(ids, model, single) == [full |-> ids, second |-> {}, model |-> model, single |-> single]
second(c, model, single) == [full |-> {}, second |-> {c}, model |-> model, single |-> single]

\* Mutants: a single-figure headset listed as stereo; a rule that is too wide.
Rules_stereo == <<
    whole({<<"0","2","2","0">>}, "airpods1", FALSE),
    second("A", "airpodsmax", FALSE),
    whole({<<"0","3","2","0">>}, "powerbeats3", TRUE) >>
Rules_wide == <<
    whole({<<"0","2","2","0">>}, "airpods1", FALSE),
    second("3", "beatsstudio3", TRUE),
    whole({<<"0","3","2","0">>}, "powerbeats3", TRUE) >>

Rules == <<
    whole({<<"0","2","2","0">>}, "airpods1", FALSE),
    whole({<<"0","F","2","0">>}, "airpods2", FALSE),
    whole({<<"1","3","2","0">>}, "airpods3", FALSE),
    whole({<<"0","E","2","0">>}, "airpodspro", FALSE),
    whole({<<"1","4","2","0">>, <<"2","4","2","0">>}, "airpodspro2", FALSE),
    whole({<<"2","7","2","0">>}, "airpodspro3", FALSE),
    second("A", "airpodsmax", TRUE),
    second("B", "powerbeatspro", FALSE),
    whole({<<"0","5","2","0">>}, "beatsx", TRUE),
    whole({<<"1","0","2","0">>}, "beatsflex", TRUE),
    whole({<<"0","6","2","0">>}, "beatssolo3", TRUE),
    second("9", "beatsstudio3", TRUE),
    whole({<<"0","3","2","0">>}, "powerbeats3", TRUE) >>

matches(rule, id) == id \in rule.full \/ id[2] \in rule.second

hits(id) == {i \in DOMAIN Rules : matches(Rules[i], id)}

detectModel(id) ==
    IF hits(id) = {} THEN [model |-> "unknown", single |-> FALSE]
    ELSE LET i == CHOOSE i \in hits(id) : \A j \in hits(id) : i <= j
         IN  [model |-> Rules[i].model, single |-> Rules[i].single]

-----------------------------------------------------------------------------
(* Decode. *)

\* Mutant: the right bud's bits do not follow the flip.
bit_fixed(flip, a, b) == b

pick(flip, a, b) == IF flip THEN a ELSE b
bit(flip, a, b) == IF flip THEN a ELSE b

isFlipped(p) == 1 \notin p.flags

valid(p) == p.len = payloadLen /\ p.prefix

Pod(level, charging, inEar) == [level |-> level, charging |-> charging, inEar |-> inEar]
AbsentPod == Pod(DisconnectedStatus, FALSE, FALSE)

\* Char 13 and charge bit 0, flipped or not.
singlePod(p) == Pod(p.battB, 0 \in p.charge, FALSE)

leftPod(p) ==
    LET flip == isFlipped(p) IN
    Pod(pick(flip, p.battA, p.battB), bit(flip, 1, 0) \in p.charge, bit(flip, 3, 1) \in p.inEar)

rightPod(p) ==
    LET flip == isFlipped(p) IN
    Pod(pick(flip, p.battB, p.battA), bit(flip, 0, 1) \in p.charge, bit(flip, 1, 3) \in p.inEar)

casePod(p) == Pod(p.batt, 2 \in p.charge, FALSE)

Decode(p) ==
    LET m == detectModel(p.id) IN
    [model |-> m.model, single |-> m.single, flipped |-> isFlipped(p),
     left  |-> IF m.single THEN singlePod(p) ELSE leftPod(p),
     right |-> IF m.single THEN AbsentPod ELSE rightPod(p),
     case  |-> IF m.single THEN AbsentPod ELSE casePod(p)]

-----------------------------------------------------------------------------
(* The view. *)

\* The displayed estimate, None for an absent or unknown level.
Percent(level) ==
    IF level = MaxConnectedStatus THEN 100
    ELSE IF level < MaxConnectedStatus THEN level * 10 + 5 ELSE None

podView(pod) ==
    IF Percent(pod.level) = None THEN None
    ELSE [percent |-> Percent(pod.level), charging |-> pod.charging, inEar |-> pod.inEar]

FromStatus(s) ==
    [model |-> s.model, single |-> s.single, left |-> podView(s.left),
     right |-> IF s.single THEN None ELSE podView(s.right),
     case  |-> IF s.single THEN None ELSE podView(s.case)]

view == FromStatus(Decode(payload))

\* The models whose artwork is one image (modelArtwork, single: true).
singleArtwork == {"airpodsmax", "beatsx", "beatsflex", "beatssolo3", "beatsstudio3",
                  "powerbeats3"}

-----------------------------------------------------------------------------
Payload == [len : Lengths, prefix : BOOLEAN, id : Ids, flags : Nibble, inEar : Nibble,
            battA : Levels, battB : Levels, charge : Nibble, batt : Levels]

\* Decode refuses any other payload and the scanner drops it.
Init == payload \in {p \in Payload : valid(p)}

\* The bits of a nibble with bits i and j exchanged.
exchange(bits, i, j) ==
    {k \in 0 .. 3 : (CASE k = i -> j [] k = j -> i [] OTHER -> k) \in bits}

\* The same reading sent by the other bud: the flip flag toggles and every
\* left / right field is exchanged.
swapped(p) ==
    [len |-> p.len, prefix |-> p.prefix, id |-> p.id,
     flags  |-> IF 1 \in p.flags THEN p.flags \ {1} ELSE p.flags \cup {1},
     inEar  |-> exchange(p.inEar, 1, 3),
     battA  |-> p.battB, battB |-> p.battA,
     charge |-> exchange(p.charge, 0, 1), batt |-> p.batt]

Swap == payload' = swapped(payload)

Next == Swap
Spec == Init /\ [][Next]_payload

-----------------------------------------------------------------------------
TypeOK == payload \in Payload

(* Buds that swap roles do not swap on screen: a stereo headset's figures, with
   charging and in-ear marks, do not change.                                   *)
SwapKeepsView == [][~view.single => view' = view]_payload

(* No id matches two rules, so the order of the switch does not matter although
   idSingle overlaps idFull.                                                   *)
RulesAreUnambiguous == \A i, j \in hits(payload.id) : i = j

(* Two tables kept by hand agree: the decoder treats a headset as single-figure
   exactly if the artwork does.                                                *)
ArtworkAgrees == view.single <=> view.model \in singleArtwork
=============================================================================
