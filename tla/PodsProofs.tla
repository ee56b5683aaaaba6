----------------------------- MODULE PodsProofs -----------------------------
(* Machine-checked proofs about the decoder, the window's tables and the texts of
   the frontends, for every payload: all ids, all levels and all flag nibbles, not
   only those TLC enumerates.                                               *)
EXTENDS Render, TLAPS

LEMMA ExchangeBits ==
    ASSUME NEW b \in Nibble, NEW i \in 0 .. 3, NEW j \in 0 .. 3
    PROVE  /\ exchange(b, i, j) \in Nibble
           /\ i \in exchange(b, i, j) <=> j \in b
           /\ j \in exchange(b, i, j) <=> i \in b
           /\ \A k \in 0 .. 3 \ {i, j} : k \in exchange(b, i, j) <=> k \in b
BY DEF exchange, Nibble

LEMMA SwappedFields ==
    ASSUME NEW p \in Payload
    PROVE  LET q == swapped(p) IN
           /\ q \in Payload
           /\ q.len = p.len /\ q.prefix = p.prefix /\ q.id = p.id /\ q.batt = p.batt
           /\ q.battA = p.battB /\ q.battB = p.battA
           /\ q.charge = exchange(p.charge, 0, 1) /\ q.inEar = exchange(p.inEar, 1, 3)
           /\ isFlipped(q) <=> ~isFlipped(p)
<1>. DEFINE q == swapped(p)
<1>1. /\ q.len = p.len /\ q.prefix = p.prefix /\ q.id = p.id /\ q.batt = p.batt
      /\ q.battA = p.battB /\ q.battB = p.battA
      /\ q.charge = exchange(p.charge, 0, 1) /\ q.inEar = exchange(p.inEar, 1, 3)
      /\ q.flags = IF 1 \in p.flags THEN p.flags \ {1} ELSE p.flags \cup {1}
  BY DEF swapped, Payload
<1>2. isFlipped(q) <=> ~isFlipped(p)
  BY <1>1 DEF isFlipped
<1>3. q \in Payload
  <2>1. exchange(p.charge, 0, 1) \in Nibble /\ exchange(p.inEar, 1, 3) \in Nibble
    BY ExchangeBits DEF Payload
  <2>2. p.flags \ {1} \in Nibble /\ p.flags \cup {1} \in Nibble
    BY DEF Payload, Nibble
  <2>. QED  BY <2>1, <2>2 DEF swapped, Payload
<1>. QED  BY <1>1, <1>2, <1>3

(* Every payload on the air stays well formed. *)
THEOREM TypeCorrect == Spec => []TypeOK
<1>1. Init => TypeOK
  BY DEF Init, TypeOK
<1>2. TypeOK /\ [Next]_payload => TypeOK'
  BY SwappedFields DEF TypeOK, Next, Swap
<1>. QED  BY <1>1, <1>2, PTL DEF Spec

(* Left and right of a stereo headset do not depend on which bud sends. *)
LEMMA SwapKeepsPods ==
    ASSUME NEW p \in Payload
    PROVE  /\ leftPod(swapped(p)) = leftPod(p)
           /\ rightPod(swapped(p)) = rightPod(p)
           /\ casePod(swapped(p)) = casePod(p)
<1>. DEFINE q == swapped(p)
<1>1. p.charge \in Nibble /\ p.inEar \in Nibble
  BY DEF Payload
<1>2. /\ q.battA = p.battB /\ q.battB = p.battA /\ q.batt = p.batt
      /\ q.charge = exchange(p.charge, 0, 1) /\ q.inEar = exchange(p.inEar, 1, 3)
      /\ isFlipped(q) <=> ~isFlipped(p)
  BY SwappedFields
<1>3. /\ 0 \in q.charge <=> 1 \in p.charge
      /\ 1 \in q.charge <=> 0 \in p.charge
      /\ 2 \in q.charge <=> 2 \in p.charge
      /\ 1 \in q.inEar <=> 3 \in p.inEar
      /\ 3 \in q.inEar <=> 1 \in p.inEar
  BY <1>1, <1>2, ExchangeBits
<1>. HIDE DEF q
<1>4. leftPod(q) = leftPod(p)
  BY <1>2, <1>3 DEF leftPod, pick, bit, Pod
<1>5. rightPod(q) = rightPod(p)
  BY <1>2, <1>3 DEF rightPod, pick, bit, Pod
<1>6. casePod(q) = casePod(p)
  <2>1. (2 \in q.charge) = (2 \in p.charge)
    BY <1>3
  <2>. QED  BY <1>2, <2>1 DEF casePod, Pod
<1>. QED  BY <1>4, <1>5, <1>6 DEF q

(* A role swap changes nothing on screen for a stereo headset. *)
THEOREM SwapIsInvisible == Spec => SwapKeepsView
<1>1. TypeOK /\ [Next]_payload => [~view.single => view' = view]_payload
  <2>. SUFFICES ASSUME TypeOK, Swap, ~view.single PROVE view' = view
    BY DEF Next
  <2>1. payload' = swapped(payload)
    BY DEF Swap
  <2>. DEFINE v(p) == FromStatus(Decode(p))
  <2>2. ~detectModel(payload.id).single
    BY DEF view, FromStatus, Decode
  <2>3. payload'.id = payload.id
    BY <2>1, SwappedFields DEF TypeOK
  <2>4. /\ leftPod(payload') = leftPod(payload) /\ rightPod(payload') = rightPod(payload)
        /\ casePod(payload') = casePod(payload)
    BY <2>1, SwapKeepsPods DEF TypeOK
  <2>5. v(payload') = v(payload)
    BY <2>2, <2>3, <2>4 DEF FromStatus, Decode
  <2>6. view' = v(payload') /\ view = v(payload)
    BY DEF view
  <2>. QED  BY <2>5, <2>6
<1>. QED  BY <1>1, TypeCorrect, PTL DEF Spec, SwapKeepsView

-----------------------------------------------------------------------------
(* Each rule fixes the second character of the ids it matches. *)
secondChar == <<"2", "F", "3", "E", "4", "7", "A", "B", "5", "0", "6", "9", "3">>

LEMMA RuleFixesSecondChar ==
    ASSUME NEW id, NEW i \in 1 .. 13, matches(Rules[i], id)
    PROVE  /\ id[2] = secondChar[i]
           /\ i = 3 => id[1] = "1"
           /\ i = 13 => id[1] = "0"
<1>. USE DEF matches, Rules, whole, second, secondChar
<1>1. CASE i = 1
  BY <1>1
<1>2. CASE i = 2
  BY <1>2
<1>3. CASE i = 3
  BY <1>3
<1>4. CASE i = 4
  BY <1>4
<1>5. CASE i = 5
  BY <1>5
<1>6. CASE i = 6
  BY <1>6
<1>7. CASE i = 7
  BY <1>7
<1>8. CASE i = 8
  BY <1>8
<1>9. CASE i = 9
  BY <1>9
<1>10. CASE i = 10
  BY <1>10
<1>11. CASE i = 11
  BY <1>11
<1>12. CASE i = 12
  BY <1>12
<1>13. CASE i = 13
  BY <1>13
<1>. QED  BY <1>1, <1>2, <1>3, <1>4, <1>5, <1>6, <1>7, <1>8, <1>9, <1>10, <1>11, <1>12, <1>13

LEMMA RulesUnambiguous == RulesAreUnambiguous
<1>. SUFFICES ASSUME NEW i \in hits(payload.id), NEW j \in hits(payload.id)
              PROVE  i = j
  BY DEF RulesAreUnambiguous
<1>1. i \in 1 .. 13 /\ j \in 1 .. 13
  BY DEF hits, Rules
<1>2. matches(Rules[i], payload.id) /\ matches(Rules[j], payload.id)
  BY DEF hits
<1>3. secondChar[i] = secondChar[j] /\ (i = 3 => j # 13) /\ (i = 13 => j # 3)
  BY <1>1, <1>2, RuleFixesSecondChar
<1>. QED  BY <1>1, <1>3 DEF secondChar

(* No id matches two rules of the switch, so their order is immaterial. *)
THEOREM Unambiguous == Spec => []RulesAreUnambiguous
BY RulesUnambiguous, PTL

(* Rule by rule, the single-figure flag is the artwork table's. *)
LEMMA RulesMatchArtwork ==
    ASSUME NEW i \in 1 .. 13
    PROVE  Rules[i].single <=> Rules[i].model \in singleArtwork
<1>. USE DEF Rules, whole, second, singleArtwork
<1>1. CASE i \in 1 .. 4
  <2>1. i = 1 \/ i = 2 \/ i = 3 \/ i = 4
    BY <1>1
  <2>. QED  BY <2>1
<1>2. CASE i \in 5 .. 8
  <2>1. i = 5 \/ i = 6 \/ i = 7 \/ i = 8
    BY <1>2
  <2>. QED  BY <2>1
<1>3. CASE i \in 9 .. 13
  <2>1. i = 9 \/ i = 10 \/ i = 11 \/ i = 12 \/ i = 13
    BY <1>3
  <2>. QED  BY <2>1
<1>. QED  BY <1>1, <1>2, <1>3

(* For every id, known or not, the decoder treats a headset as single-figure
   exactly if its artwork is a single image.                                  *)
THEOREM TablesAgree == Spec => []ArtworkAgrees
<1>1. ArtworkAgrees
  <2>. DEFINE m == detectModel(payload.id)
  <2>1. m.single <=> m.model \in singleArtwork
    <3>1. CASE hits(payload.id) = {}
      BY <3>1 DEF detectModel, singleArtwork
    <3>2. CASE hits(payload.id) # {}
      <4>1. hits(payload.id) \subseteq 1 .. 13
        BY DEF hits, Rules
      <4>2. PICK i \in hits(payload.id) : \A j \in hits(payload.id) : i <= j
        <5>1. PICK h \in hits(payload.id) : TRUE
          BY <3>2
        <5>2. \A j \in hits(payload.id) : j = h
          BY <5>1, RulesUnambiguous DEF RulesAreUnambiguous
        <5>. QED  BY <4>1, <5>1, <5>2
      <4>3. PICK k \in hits(payload.id) : m = [model |-> Rules[k].model, single |-> Rules[k].single]
        BY <3>2, <4>2 DEF detectModel
      <4>4. Rules[k].single <=> Rules[k].model \in singleArtwork
        BY <4>1, <4>3, RulesMatchArtwork
      <4>. QED  BY <4>3, <4>4
    <3>. QED  BY <3>1, <3>2
  <2>2. view.single = m.single /\ view.model = m.model
    BY DEF view, FromStatus, Decode
  <2>. QED  BY <2>1, <2>2 DEF ArtworkAgrees
<1>. QED  BY <1>1, PTL

-----------------------------------------------------------------------------
(* The tables the window is drawn from, row by row. *)

LEMMA Rows ==
    ASSUME NEW i \in 1 .. 13
    PROVE  i \in {1, 2, 3, 4, 5, 6, 7} \/ i \in {8, 9, 10, 11, 12, 13}
OBVIOUS

LEMMA SameOrder ==
    ASSUME NEW i \in 1 .. 13
    PROVE  Rules[i].model = modelNames[i]
<1>. USE DEF Rules, whole, second, modelNames
<1>1. CASE i \in {1, 2, 3, 4, 5, 6, 7}
  BY <1>1
<1>2. CASE i \in {8, 9, 10, 11, 12, 13}
  BY <1>2
<1>. QED  BY <1>1, <1>2, Rows

LEMMA NamesDiffer ==
    ASSUME NEW i \in 1 .. 13, NEW j \in 1 .. 13, modelNames[i] = modelNames[j]
    PROVE  i = j
<1>. USE DEF modelNames
<1>1. CASE i \in {1, 2, 3, 4, 5, 6, 7}
  BY <1>1, Rows
<1>2. CASE i \in {8, 9, 10, 11, 12, 13}
  BY <1>2, Rows
<1>. QED  BY <1>1, <1>2, Rows

LEMMA ParseInverts ==
    ASSUME NEW i \in 1 .. 13
    PROVE  ParseModel(modelNames[i]) = i /\ String(i) = modelNames[i]
<1>1. DOMAIN modelNames = 1 .. 13
  BY DEF modelNames
<1>2. {j \in DOMAIN modelNames : modelNames[j] = modelNames[i]} = {i}
  BY <1>1, NamesDiffer
<1>. QED  BY <1>1, <1>2 DEF ParseModel, String

LEMMA UnknownParses == ParseModel("unknown") = 0 /\ String(0) = "unknown"
<1>1. DOMAIN modelNames = 1 .. 13
  BY DEF modelNames
<1>2. ASSUME NEW i \in 1 .. 13 PROVE modelNames[i] # "unknown"
  <2>1. CASE i \in {1, 2, 3, 4, 5, 6, 7}
    BY <2>1 DEF modelNames
  <2>2. CASE i \in {8, 9, 10, 11, 12, 13}
    BY <2>2 DEF modelNames
  <2>. QED  BY <2>1, <2>2, Rows
<1>. QED  BY <1>1, <1>2 DEF ParseModel, ModelUnknown, String

\* An artwork entry all of whose files exist, with the given number of images.
Complete(art, single) ==
    /\ single <=> art[2] = ""
    /\ art[1] # art[2]
    /\ art[1] \in images /\ (art[2] # "" => art[2] \in images)

LEMMA Pair ==
    ASSUME NEW a, NEW x, NEW y, a = <<x, y>>
    PROVE  a[1] = x /\ a[2] = y
OBVIOUS

LEMMA ArtworkRows ==
    ASSUME NEW i \in 1 .. 13
    PROVE  /\ modelArtwork[i][1] \in images /\ modelArtwork[i][1] # modelArtwork[i][2]
           /\ modelArtwork[i][2] # "" => modelArtwork[i][2] \in images
           /\ (modelArtwork[i][2] = "") <=> (i \in {7, 9, 10, 11, 12, 13})
           /\ artworkFor(i) = modelArtwork[i]
<1>. DEFINE art == modelArtwork[i]
<1>14. DOMAIN modelArtwork = 1 .. 13
  BY DEF modelArtwork
<1>15. artworkFor(i) = modelArtwork[i]
  BY <1>14 DEF artworkFor
<1>1. CASE i = 1
  <2>1. modelArtwork[1] = <<"pod", "pod_case">>
    BY DEF modelArtwork
  <2>2. art[1] = "pod" /\ art[2] = "pod_case"
    BY <1>1, <2>1, Pair
  <2>. QED  BY <1>1, <1>15, <2>2 DEF images
<1>2. CASE i = 2
  <2>1. modelArtwork[2] = <<"pod", "pod_case">>
    BY DEF modelArtwork
  <2>2. art[1] = "pod" /\ art[2] = "pod_case"
    BY <1>2, <2>1, Pair
  <2>. QED  BY <1>2, <1>15, <2>2 DEF images
<1>3. CASE i = 3
  <2>1. modelArtwork[3] = <<"pod", "pod_case">>
    BY DEF modelArtwork
  <2>2. art[1] = "pod" /\ art[2] = "pod_case"
    BY <1>3, <2>1, Pair
  <2>. QED  BY <1>3, <1>15, <2>2 DEF images
<1>4. CASE i = 4
  <2>1. modelArtwork[4] = <<"podpro", "podpro_case">>
    BY DEF modelArtwork
  <2>2. art[1] = "podpro" /\ art[2] = "podpro_case"
    BY <1>4, <2>1, Pair
  <2>. QED  BY <1>4, <1>15, <2>2 DEF images
<1>5. CASE i = 5
  <2>1. modelArtwork[5] = <<"podpro", "podpro_case">>
    BY DEF modelArtwork
  <2>2. art[1] = "podpro" /\ art[2] = "podpro_case"
    BY <1>5, <2>1, Pair
  <2>. QED  BY <1>5, <1>15, <2>2 DEF images
<1>6. CASE i = 6
  <2>1. modelArtwork[6] = <<"podpro3", "podpro_case">>
    BY DEF modelArtwork
  <2>2. art[1] = "podpro3" /\ art[2] = "podpro_case"
    BY <1>6, <2>1, Pair
  <2>. QED  BY <1>6, <1>15, <2>2 DEF images
<1>7. CASE i = 7
  <2>1. modelArtwork[7] = <<"podmax", "">>
    BY DEF modelArtwork
  <2>2. art[1] = "podmax" /\ art[2] = ""
    BY <1>7, <2>1, Pair
  <2>. QED  BY <1>7, <1>15, <2>2 DEF images
<1>8. CASE i = 8
  <2>1. modelArtwork[8] = <<"powerbeatspro", "powerbeatspro_case">>
    BY DEF modelArtwork
  <2>2. art[1] = "powerbeatspro" /\ art[2] = "powerbeatspro_case"
    BY <1>8, <2>1, Pair
  <2>. QED  BY <1>8, <1>15, <2>2 DEF images
<1>9. CASE i = 9
  <2>1. modelArtwork[9] = <<"beatsx", "">>
    BY DEF modelArtwork
  <2>2. art[1] = "beatsx" /\ art[2] = ""
    BY <1>9, <2>1, Pair
  <2>. QED  BY <1>9, <1>15, <2>2 DEF images
<1>10. CASE i = 10
  <2>1. modelArtwork[10] = <<"beatsflex", "">>
    BY DEF modelArtwork
  <2>2. art[1] = "beatsflex" /\ art[2] = ""
    BY <1>10, <2>1, Pair
  <2>. QED  BY <1>10, <1>15, <2>2 DEF images
<1>11. CASE i = 11
  <2>1. modelArtwork[11] = <<"beatssolo3", "">>
    BY DEF modelArtwork
  <2>2. art[1] = "beatssolo3" /\ art[2] = ""
    BY <1>11, <2>1, Pair
  <2>. QED  BY <1>11, <1>15, <2>2 DEF images
<1>12. CASE i = 12
  <2>1. modelArtwork[12] = <<"beatsstudio3", "">>
    BY DEF modelArtwork
  <2>2. art[1] = "beatsstudio3" /\ art[2] = ""
    BY <1>12, <2>1, Pair
  <2>. QED  BY <1>12, <1>15, <2>2 DEF images
<1>13. CASE i = 13
  <2>1. modelArtwork[13] = <<"powerbeats3", "">>
    BY DEF modelArtwork
  <2>2. art[1] = "powerbeats3" /\ art[2] = ""
    BY <1>13, <2>1, Pair
  <2>. QED  BY <1>13, <1>15, <2>2 DEF images
<1>. QED  BY <1>1, <1>2, <1>3, <1>4, <1>5, <1>6, <1>7, <1>8, <1>9, <1>10, <1>11, <1>12, <1>13, Rows

LEMMA RowsComplete ==
    ASSUME NEW i \in 1 .. 13
    PROVE  Complete(artworkFor(i), Rules[i].single)
<1>1. Rules[i].single <=> i \in {7, 9, 10, 11, 12, 13}
  <2>1. CASE i \in {1, 2, 3, 4, 5, 6, 7}
    BY <2>1 DEF Rules, whole, second
  <2>2. CASE i \in {8, 9, 10, 11, 12, 13}
    BY <2>2 DEF Rules, whole, second
  <2>. QED  BY <2>1, <2>2, Rows
<1>. DEFINE art == artworkFor(i)
            single == Rules[i].single
<1>2. /\ (art[2] = "") <=> (i \in {7, 9, 10, 11, 12, 13})
      /\ art[1] # art[2] /\ art[1] \in images /\ (art[2] # "" => art[2] \in images)
  BY ArtworkRows
<1>3. single <=> (art[2] = "")
  BY <1>1, <1>2, Zenon
<1>. QED  BY <1>2, <1>3, Zenon DEF Complete

LEMMA UnknownComplete == Complete(artworkFor(0), FALSE)
<1>1. DOMAIN modelArtwork = 1 .. 13
  BY DEF modelArtwork
<1>2. artworkFor(0) = <<"pod", "pod_case">>
  BY <1>1 DEF artworkFor
<1>. DEFINE a == artworkFor(0)
<1>3. a[1] = "pod" /\ a[2] = "pod_case"
  BY <1>2
<1>. HIDE DEF a
<1>4. Complete(a, FALSE)
  BY <1>3 DEF Complete, images
<1>. QED  BY <1>4 DEF a

\* What detectModel finds, with the numbers the window uses for it.
LEMMA DetectedModel ==
    ASSUME NEW id, \A i, j \in hits(id) : i = j
    PROVE  LET m == detectModel(id) IN
           /\ String(ParseModel(m.model)) = m.model
           /\ Complete(artworkFor(ParseModel(m.model)), m.single)
<1>1. CASE hits(id) = {}
  BY <1>1, UnknownParses, UnknownComplete DEF detectModel
<1>2. CASE hits(id) # {}
  <2>1. PICK i \in hits(id) : TRUE
    BY <1>2
  <2>2. i \in 1 .. 13
    BY DEF hits, Rules
  <2>3. \A j \in hits(id) : j = i
    BY <2>1
  <2>4. hits(id) = {i}
    BY <2>1, <2>3
  <2>5. (CHOOSE k \in {i} : \A l \in {i} : k <= l) = i
    BY <2>2
  <2>6. detectModel(id) = [model |-> Rules[i].model, single |-> Rules[i].single]
    BY <2>4, <2>5 DEF detectModel
  <2>. QED  BY <2>2, <2>6, SameOrder, ParseInverts, RowsComplete
<1>. QED  BY <1>1, <1>2

LEMMA CardFields ==
    ASSUME NEW m, NEW label, NEW slot, NEW p, NEW c, c = card(m, label, slot, p)
    PROVE  c.label = label /\ c.image = PodImage(m, slot, p # None)
BY DEF card

LEMMA OneCard ==
    ASSUME NEW cards, NEW m, NEW p, NEW label, label # "Case",
           cards = <<card(m, label, "Left", p)>>, NEW i \in DOMAIN cards
    PROVE  cards[i].label # "Case" /\ cards[i].image = PodImage(m, "Left", p # None)
<1>1. PICK c : c = card(m, label, "Left", p)
  OBVIOUS
<1>2. cards = <<c>> /\ i = 1
  BY <1>1
<1>3. cards[1] = c
  BY <1>2
<1>4. c.label # "Case" /\ c.image = PodImage(m, "Left", p # None)
  BY <1>1, CardFields
<1>. QED  BY <1>2, <1>3, <1>4

(* Whatever headset is on the air, the window finds its model again from the name
   on the wire, and a file for each card it draws (modelArtwork and
   SnapshotImagePaths, assets/pods.go).                                        *)
THEOREM CardsHaveArtwork == Spec => []EveryCardHasArtwork
<1>1. EveryCardHasArtwork
  <2>. DEFINE s   == Snapshot(FALSE, TRUE)
              m   == ParseModel(view.model)
              art == artworkFor(m)
              cards == viewModel(s)
  <2>1. String(m) = view.model /\ Complete(art, view.single)
    <3>1. view.model = detectModel(payload.id).model /\ view.single = detectModel(payload.id).single
      BY DEF view, FromStatus, Decode
    <3>2. \A i, j \in hits(payload.id) : i = j
      BY RulesUnambiguous DEF RulesAreUnambiguous
    <3>. QED  BY <3>1, <3>2, DetectedModel
  <2>2. s.stale = FALSE /\ s.model = view.model /\ s.single = view.single
    BY DEF Snapshot
  <2>. HIDE DEF s, m, art
  <2>3. \A slot : \A b \in BOOLEAN : PodImage(m, slot, b) \in drawables
    BY <2>1 DEF PodImage, Complete, art, drawables
  <2>4. ASSUME NEW i \in DOMAIN cards
        PROVE  /\ cards[i].image \in drawables
               /\ cards[i].label = "Case" => cards[i].image[1] # cards[1].image[1]
    <3>1. CASE s.single
      <4>1. cards = <<card(m, "", "Left", s.left)>>
        BY <2>2, <3>1 DEF viewModel, m
      <4>. HIDE DEF cards
      <4>2. cards[i].label # "Case" /\ cards[i].image = PodImage(m, "Left", s.left # None)
        BY <4>1, "" # "Case", OneCard
      <4>. QED  BY <2>3, <4>2
    <3>2. CASE ~s.single
      <4>1. cards = <<card(m, "Left", "Left", s.left), card(m, "Right", "Right", s.right),
                      card(m, "Case", "Case", s.case)>>
        BY <2>2, <3>2 DEF viewModel, m
      <4>2. i \in {1, 2, 3}
        BY <4>1
      <4>3. /\ cards[1] = card(m, "Left", "Left", s.left)
            /\ cards[2] = card(m, "Right", "Right", s.right)
            /\ cards[3] = card(m, "Case", "Case", s.case)
        BY <4>1
      <4>4. PodImage(m, "Case", s.case # None)[1] = art[2]
            /\ PodImage(m, "Left", s.left # None)[1] = art[1] /\ art[1] # art[2]
        BY <2>1, <2>2, <3>2 DEF PodImage, Complete, art
      <4>5. /\ cards[1].label = "Left" /\ cards[2].label = "Right"
            /\ cards[1].image = PodImage(m, "Left", s.left # None)
            /\ cards[2].image = PodImage(m, "Right", s.right # None)
            /\ cards[3].image = PodImage(m, "Case", s.case # None)
        BY <4>3, CardFields
      <4>. HIDE DEF cards
      <4>. QED  BY <2>3, <4>2, <4>4, <4>5
    <3>. QED  BY <3>1, <3>2
  <2>. QED  BY <2>1, <2>4 DEF EveryCardHasArtwork, cards, s, m
<1>. QED  BY <1>1, PTL

-----------------------------------------------------------------------------
(* The texts of the frontends. *)

LEMMA Tuples ==
    /\ Len(<<>>) = 0 /\ DOMAIN <<>> = {}
    /\ \A a : Len(<<a>>) = 1 /\ DOMAIN <<a>> = {1} /\ <<a>>[1] = a /\ <<a>> # <<>>
OBVIOUS

LEMMA Triple ==
    ASSUME NEW a, NEW b, NEW c, NEW t, t = <<a, b, c>>
    PROVE  /\ Len(t) = 3 /\ DOMAIN t = {1, 2, 3} /\ t # <<>>
           /\ t[1] = a /\ t[2] = b /\ t[3] = c
OBVIOUS

LEMMA PartText ==
    ASSUME NEW label, NEW p
    PROVE  part(label, p) \in Seq({pct(label, p)})
<1>1. CASE p = None
  BY <1>1 DEF part
<1>2. CASE p # None
  <2>. DEFINE x == pct(label, p)
  <2>1. part(label, p) = <<x>>
    BY <1>2 DEF part
  <2>. HIDE DEF x
  <2>2. <<x>> \in Seq({x})
    OBVIOUS
  <2>. QED  BY <2>1, <2>2 DEF x
<1>. QED  BY <1>1, <1>2

LEMMA Labels == /\ short("Battery") = "" /\ short("") = "" /\ short("Left") = "L"
                /\ short("Right") = "R" /\ short("Case") = "Case"
BY DEF short

\* What is told of no line, of one line, and of three.
LEMMA ToldNone == told(<<>>) = <<>> /\ told(Unlabelled(<<>>)) = <<>>
BY DEF told, Unlabelled

LEMMA ToldOne ==
    ASSUME NEW lines, DOMAIN lines = {1}
    PROVE  told(lines) = part(short(lines[1].label), lines[1].pod)
<1>1. told(lines) = part(short(lines[1].label), lines[1].pod) \o <<>> \o <<>>
  BY 1 # 2, 1 # 3 DEF told
<1>. HIDE DEF part
<1>. QED  BY <1>1, PartText

LEMMA ToldThree ==
    ASSUME NEW lines, DOMAIN lines = {1, 2, 3}
    PROVE  told(lines) = part(short(lines[1].label), lines[1].pod)
                           \o part(short(lines[2].label), lines[2].pod)
                           \o part(short(lines[3].label), lines[3].pod)
BY DEF told

LEMMA UnlabelledLines ==
    ASSUME NEW lines
    PROVE  /\ DOMAIN Unlabelled(lines) = DOMAIN lines
           /\ \A i \in DOMAIN lines : /\ Unlabelled(lines)[i].label = ""
                                      /\ Unlabelled(lines)[i].pod = lines[i].pod
BY DEF Unlabelled, writePod

LEMMA UnlabelledOne ==
    ASSUME NEW lines, DOMAIN lines = {1}
    PROVE  told(Unlabelled(lines)) = part("", lines[1].pod)
<1>. DEFINE U == Unlabelled(lines)
<1>1. DOMAIN U = {1} /\ U[1].label = "" /\ U[1].pod = lines[1].pod
  BY UnlabelledLines
<1>. HIDE DEF U
<1>2. told(U) = part("", lines[1].pod)
  BY <1>1, ToldOne, Labels
<1>. QED  BY <1>2 DEF U

LEMMA UnlabelledThree ==
    ASSUME NEW lines, DOMAIN lines = {1, 2, 3}
    PROVE  told(Unlabelled(lines))
             = part("", lines[1].pod) \o part("", lines[2].pod) \o part("", lines[3].pod)
<1>. DEFINE U == Unlabelled(lines)
<1>1. DOMAIN U = DOMAIN lines
      /\ \A i \in DOMAIN lines : U[i].label = "" /\ U[i].pod = lines[i].pod
  BY UnlabelledLines
<1>. HIDE DEF U
<1>2. /\ DOMAIN U = {1, 2, 3} /\ U[1].label = "" /\ U[1].pod = lines[1].pod
      /\ U[2].label = "" /\ U[2].pod = lines[2].pod
      /\ U[3].label = "" /\ U[3].pod = lines[3].pod
  BY <1>1
<1>3. told(U) = part("", lines[1].pod) \o part("", lines[2].pod) \o part("", lines[3].pod)
  BY <1>2, ToldThree, Labels
<1>. QED  BY <1>3 DEF U

\* The lines and the cards of a snapshot with figures.
LEMMA OneLine ==
    ASSUME NEW s, s.stale = FALSE, s.single
    PROVE  /\ Len(Human(s)) = 1 /\ DOMAIN Human(s) = {1} /\ Human(s) # <<>>
           /\ Human(s)[1].label = "Battery" /\ Human(s)[1].pod = s.left
<1>1. PICK a : a = writePod("Battery", s.left)
  OBVIOUS
<1>2. Human(s) = <<a>>
  BY <1>1 DEF Human
<1>3. a.label = "Battery" /\ a.pod = s.left
  BY <1>1 DEF writePod
<1>. QED  BY <1>2, <1>3, Tuples

LEMMA OneCardOnly ==
    ASSUME NEW s, s.stale = FALSE, s.single
    PROVE  /\ Len(viewModel(s)) = 1 /\ DOMAIN viewModel(s) = {1}
           /\ viewModel(s)[1].label = "" /\ viewModel(s)[1].pod = s.left
<1>1. PICK a : a = card(ParseModel(s.model), "", "Left", s.left)
  OBVIOUS
<1>2. viewModel(s) = <<a>>
  BY <1>1 DEF viewModel
<1>3. a.label = "" /\ a.pod = s.left
  BY <1>1 DEF card
<1>. QED  BY <1>2, <1>3, Tuples

LEMMA ThreeLines ==
    ASSUME NEW s, s.stale = FALSE, ~s.single
    PROVE  /\ Len(Human(s)) = 3 /\ DOMAIN Human(s) = {1, 2, 3} /\ Human(s) # <<>>
           /\ Human(s)[1].label = "Left" /\ Human(s)[1].pod = s.left
           /\ Human(s)[2].label = "Right" /\ Human(s)[2].pod = s.right
           /\ Human(s)[3].label = "Case" /\ Human(s)[3].pod = s.case
<1>1. PICK a, b, c : a = writePod("Left", s.left) /\ b = writePod("Right", s.right)
                     /\ c = writePod("Case", s.case)
  OBVIOUS
<1>2. Human(s) = <<a, b, c>>
  BY <1>1 DEF Human
<1>3. /\ a.label = "Left" /\ a.pod = s.left /\ b.label = "Right" /\ b.pod = s.right
      /\ c.label = "Case" /\ c.pod = s.case
  BY <1>1 DEF writePod
<1>4. /\ Len(Human(s)) = 3 /\ DOMAIN Human(s) = {1, 2, 3} /\ Human(s) # <<>>
      /\ Human(s)[1] = a /\ Human(s)[2] = b /\ Human(s)[3] = c
  BY <1>2, Triple
<1>. QED  BY <1>3, <1>4

LEMMA ThreeCards ==
    ASSUME NEW s, s.stale = FALSE, ~s.single
    PROVE  /\ Len(viewModel(s)) = 3 /\ DOMAIN viewModel(s) = {1, 2, 3}
           /\ viewModel(s)[1].label = "Left" /\ viewModel(s)[1].pod = s.left
           /\ viewModel(s)[2].label = "Right" /\ viewModel(s)[2].pod = s.right
           /\ viewModel(s)[3].label = "Case" /\ viewModel(s)[3].pod = s.case
<1>. DEFINE m == ParseModel(s.model)
<1>1. PICK a, b, c : a = card(m, "Left", "Left", s.left) /\ b = card(m, "Right", "Right", s.right)
                     /\ c = card(m, "Case", "Case", s.case)
  OBVIOUS
<1>2. viewModel(s) = <<a, b, c>>
  BY <1>1 DEF viewModel
<1>3. /\ a.label = "Left" /\ a.pod = s.left /\ b.label = "Right" /\ b.pod = s.right
      /\ c.label = "Case" /\ c.pod = s.case
  BY <1>1 DEF card
<1>4. /\ Len(viewModel(s)) = 3 /\ DOMAIN viewModel(s) = {1, 2, 3}
      /\ viewModel(s)[1] = a /\ viewModel(s)[2] = b /\ viewModel(s)[3] = c
  BY <1>2, Triple
<1>. QED  BY <1>3, <1>4

(* Of a stale snapshot, of a single-figure headset's, and of a pair's. *)
LEMMA AgreeNone ==
    ASSUME NEW s, s.stale = TRUE
    PROVE  Agree(s, Human(s), viewModel(s))
<1>1. Human(s) = <<>> /\ Line(s) = <<>> /\ Compact(s) = <<>> /\ viewModel(s) = <<>>
  BY DEF Human, Line, Compact, viewModel
<1>2. Message(TRUE, s) = Line(s) /\ waybarClass(s) = "stale"
  BY DEF Message, waybarClass
<1>. DEFINE lines == Human(s)
            cards == viewModel(s)
<1>. HIDE DEF lines, cards
<1>3. /\ lines = <<>> /\ cards = <<>> /\ Line(s) = <<>> /\ Compact(s) = <<>>
  BY <1>1 DEF lines, cards
<1>4. told(lines) = <<>> /\ told(Unlabelled(lines)) = <<>>
  BY <1>3, ToldNone
<1>5. Len(lines) <= 3 /\ Len(cards) = Len(lines)
  BY <1>3, Tuples
<1>6. \A i \in DOMAIN cards : /\ short(cards[i].label) = short(lines[i].label)
                              /\ cards[i].pod = lines[i].pod
  BY <1>3, Tuples
<1>7. Agree(s, lines, cards)
  BY <1>2, <1>3, <1>4, <1>5, <1>6 DEF Agree
<1>. QED  BY <1>7 DEF lines, cards

LEMMA AgreeOne ==
    ASSUME NEW s, s.stale = FALSE, s.single
    PROVE  Agree(s, Human(s), viewModel(s))
<1>1. Message(TRUE, s) = Line(s) /\ waybarClass(s) # "stale"
  BY DEF Message, waybarClass
<1>2. Line(s) = part("", s.left) /\ Compact(s) = part("", s.left)
  BY DEF Line, Compact
<1>3. told(Human(s)) = part("", s.left)
  BY OneLine, ToldOne, Labels
<1>4. told(Unlabelled(Human(s))) = part("", s.left)
  BY OneLine, UnlabelledOne
<1>5. \A i \in DOMAIN viewModel(s) : /\ short(viewModel(s)[i].label) = short(Human(s)[i].label)
                                     /\ viewModel(s)[i].pod = Human(s)[i].pod
  BY OneLine, OneCardOnly, Labels
<1>6. Len(Human(s)) <= 3 /\ Len(viewModel(s)) = Len(Human(s)) /\ Human(s) # <<>>
  <2>1. Len(Human(s)) = 1 /\ Human(s) # <<>>
    BY OneLine
  <2>2. Len(viewModel(s)) = 1
    BY OneCardOnly
  <2>. QED  BY <2>1, <2>2
<1>. QED  BY <1>1, <1>2, <1>3, <1>4, <1>5, <1>6 DEF Agree

LEMMA AgreeThree ==
    ASSUME NEW s, s.stale = FALSE, ~s.single
    PROVE  Agree(s, Human(s), viewModel(s))
<1>1. Message(TRUE, s) = Line(s) /\ waybarClass(s) # "stale"
  BY DEF Message, waybarClass
<1>2. /\ Line(s) = part("L", s.left) \o part("R", s.right) \o part("Case", s.case)
      /\ Compact(s) = part("", s.left) \o part("", s.right) \o part("", s.case)
  BY DEF Line, Compact
<1>. DEFINE lines == Human(s)
            cards == viewModel(s)
<1>. HIDE DEF lines, cards
<1>3. /\ Len(lines) = 3 /\ DOMAIN lines = {1, 2, 3} /\ lines # <<>>
      /\ lines[1].label = "Left" /\ lines[1].pod = s.left
      /\ lines[2].label = "Right" /\ lines[2].pod = s.right
      /\ lines[3].label = "Case" /\ lines[3].pod = s.case
  BY ThreeLines DEF lines
<1>4. /\ Len(cards) = 3 /\ DOMAIN cards = {1, 2, 3}
      /\ cards[1].label = "Left" /\ cards[1].pod = s.left
      /\ cards[2].label = "Right" /\ cards[2].pod = s.right
      /\ cards[3].label = "Case" /\ cards[3].pod = s.case
  BY ThreeCards DEF cards
<1>5. told(lines) = part("L", s.left) \o part("R", s.right) \o part("Case", s.case)
  <2>1. told(lines) = part(short(lines[1].label), lines[1].pod)
                        \o part(short(lines[2].label), lines[2].pod)
                        \o part(short(lines[3].label), lines[3].pod)
    BY <1>3, ToldThree
  <2>. QED  BY <1>3, <2>1, Labels
<1>6. told(Unlabelled(lines)) = part("", s.left) \o part("", s.right) \o part("", s.case)
  <2>1. told(Unlabelled(lines))
          = part("", lines[1].pod) \o part("", lines[2].pod) \o part("", lines[3].pod)
    BY <1>3, UnlabelledThree
  <2>. QED  BY <1>3, <2>1
<1>7. \A i \in DOMAIN cards : /\ short(cards[i].label) = short(lines[i].label)
                              /\ cards[i].pod = lines[i].pod
  BY <1>3, <1>4
<1>8. Len(lines) <= 3 /\ Len(cards) = Len(lines) /\ lines # <<>>
  <2>1. Len(lines) = 3 /\ Len(cards) = 3 /\ lines # <<>>
    BY <1>3, <1>4
  <2>. QED  BY <2>1
<1>9. Agree(s, lines, cards)
  BY <1>1, <1>2, <1>5, <1>6, <1>7, <1>8 DEF Agree
<1>. QED  BY <1>9 DEF lines, cards

(* Whatever headset is on the air, fresh or stale, connected or not, the five
   renderings of its snapshot mention the same figures under the same labels
   (render.go, notify.Message and the window's view model).                    *)
THEOREM TextsAgree == Spec => []FrontendsAgree
<1>1. FrontendsAgree
  <2>. SUFFICES ASSUME NEW stale \in BOOLEAN, NEW connected \in BOOLEAN
                PROVE  Agree(Snapshot(stale, connected), Human(Snapshot(stale, connected)),
                             viewModel(Snapshot(stale, connected)))
    BY DEF FrontendsAgree
  <2>. DEFINE s == Snapshot(stale, connected)
  <2>1. s.stale = TRUE \/ s.stale = FALSE
    BY DEF Snapshot
  <2>. HIDE DEF s
  <2>2. Agree(s, Human(s), viewModel(s))
    BY <2>1, AgreeNone, AgreeOne, AgreeThree
  <2>. QED  BY <2>2 DEF s
<1>. QED  BY <1>1, PTL
=============================================================================
