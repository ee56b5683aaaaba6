------------------------------- MODULE Render -------------------------------
(* What the frontends make of a snapshot: the texts of render/render.go, the
   notification of notify/notify.go, the waybar class of cmd/openpods/main.go, the
   window's cards of cmd/openpods-gui/main.go, and the tables of pods/model.go and
   assets/pods.go they are drawn from.  A text is the sequence of the figures it
   mentions, each with its label, in their order; spacing and wording are left
   out.  The headset is a payload on the air, as in Pods.                     *)
EXTENDS Pods

\* The snapshot of the payload: a stale one hides its figures.
Snapshot(stale, connected) ==
    [stale |-> stale, connected |-> connected, model |-> view.model, single |-> view.single,
     left  |-> IF stale THEN None ELSE view.left,
     right |-> IF stale THEN None ELSE view.right,
     case  |-> IF stale THEN None ELSE view.case]

-----------------------------------------------------------------------------
(* Models: a number in the program, a name on the wire. *)

\* Mutant: a line that was copied and not changed.
modelNames_copied ==
    <<"airpods1", "airpods2", "airpods3", "airpodspro", "airpodspro2", "airpodspro2",
      "airpodsmax", "powerbeatspro", "beatsx", "beatsflex", "beatssolo3",
      "beatsstudio3", "powerbeats3">>

modelNames ==
    <<"airpods1", "airpods2", "airpods3", "airpodspro", "airpodspro2", "airpodspro3",
      "airpodsmax", "powerbeatspro", "beatsx", "beatsflex", "beatssolo3",
      "beatsstudio3", "powerbeats3">>

ModelUnknown == 0

\* The inverse table, the unknown model included.
ParseModel(name) ==
    LET m == {i \in DOMAIN modelNames : modelNames[i] = name}
    IN  IF m = {} THEN ModelUnknown ELSE CHOOSE i \in m : TRUE

String(m) == IF m \in DOMAIN modelNames THEN modelNames[m] ELSE "unknown"

\* modelArtwork, by model: the image of a pod, and of the case, "" if single.
modelArtwork ==
    <<<<"pod", "pod_case">>, <<"pod", "pod_case">>, <<"pod", "pod_case">>,
      <<"podpro", "podpro_case">>, <<"podpro", "podpro_case">>, <<"podpro3", "podpro_case">>,
      <<"podmax", "">>, <<"powerbeatspro", "powerbeatspro_case">>, <<"beatsx", "">>,
      <<"beatsflex", "">>, <<"beatssolo3", "">>, <<"beatsstudio3", "">>, <<"powerbeats3", "">>>>

artworkFor(m) == IF m \in DOMAIN modelArtwork THEN modelArtwork[m] ELSE <<"pod", "pod_case">>

\* The files of assets/drawable: each image also has a dimmed variant.
images ==
    {"pod", "pod_case", "podpro", "podpro3", "podpro_case", "podmax", "powerbeatspro",
     "powerbeatspro_case", "beatsx", "beatsflex", "beatssolo3", "beatsstudio3",
     "powerbeats3"}
drawables == images \X {"", "_disconnected"}

\* The file read for a slot; single-figure models have one image for all.
PodImage(m, slot, present) ==
    LET art == artworkFor(m)
    IN  <<IF slot = "Case" /\ art[2] # "" THEN art[2] ELSE art[1],
          IF present THEN "" ELSE "_disconnected">>

-----------------------------------------------------------------------------
(* render. *)

\* A figure and its label; writePod prints a dash for one that is absent.
writePod(label, p) == [label |-> label, pod |-> p]

Human(s) ==
    IF s.stale THEN <<>>
    ELSE IF s.single THEN <<writePod("Battery", s.left)>>
    ELSE <<writePod("Left", s.left), writePod("Right", s.right), writePod("Case", s.case)>>

\* pct: the percentage and the charging mark.
pct(label, p) == [label |-> label, percent |-> p.percent, charging |-> p.charging]

\* What a loop over the figures adds to the text: nothing for an absent one.
part(label, p) == IF p = None THEN <<>> ELSE <<pct(label, p)>>

\* Mutant: the right bud's figure is taken from the left one.
Line_left(s) ==
    IF s.stale THEN <<>>
    ELSE IF s.single THEN part("", s.left)
    ELSE part("L", s.left) \o part("R", s.left) \o part("Case", s.case)

\* A single figure that is absent leaves the text empty.
Line(s) ==
    IF s.stale THEN <<>>
    ELSE IF s.single THEN part("", s.left)
    ELSE part("L", s.left) \o part("R", s.right) \o part("Case", s.case)

\* The same without labels.
Compact(s) ==
    IF s.stale THEN <<>>
    ELSE IF s.single THEN part("", s.left)
    ELSE part("", s.left) \o part("", s.right) \o part("", s.case)

\* The body of a notification.
Message(connected, s) == IF connected THEN Line(s) ELSE <<>>

waybarClass(s) ==
    IF s.stale THEN "stale" ELSE IF s.connected THEN "connected" ELSE "disconnected"

(* The window. *)
card(m, label, slot, p) == [label |-> label, pod |-> p, image |-> PodImage(m, slot, p # None)]

viewModel(s) ==
    LET m == ParseModel(s.model) IN
    IF s.stale THEN <<>>        \* one card: updating
    ELSE IF s.single THEN <<card(m, "", "Left", s.left)>>
    ELSE <<card(m, "Left", "Left", s.left), card(m, "Right", "Right", s.right),
           card(m, "Case", "Case", s.case)>>

-----------------------------------------------------------------------------
\* The labels of one frontend in the words of another.
short(label) == CASE label = "Left" -> "L" [] label = "Right" -> "R"
                  [] label = "Battery" -> "" [] OTHER -> label

\* The figures of a text of at most three lines, in those words.
told(lines) ==
    LET line(i) == IF i \in DOMAIN lines THEN part(short(lines[i].label), lines[i].pod) ELSE <<>>
    IN  line(1) \o line(2) \o line(3)

Unlabelled(lines) == [i \in DOMAIN lines |-> writePod("", lines[i].pod)]

\* What the frontends make of snapshot s, whose lines and cards are given.
Agree(s, lines, cards) ==
    /\ Line(s) = told(lines) /\ Message(TRUE, s) = told(lines)
    /\ Compact(s) = told(Unlabelled(lines))
    /\ Len(lines) <= 3 /\ Len(cards) = Len(lines)
    /\ \A i \in DOMAIN cards : /\ short(cards[i].label) = short(lines[i].label)
                              /\ cards[i].pod = lines[i].pod
    /\ waybarClass(s) = "stale" <=> lines = <<>>

(* The terminal, the status bar, the tray, the notification and the window, each
   with loops of its own over the snapshot, give the same figures with the same
   marks under the same labels, absent ones included, or all of them none.    *)
FrontendsAgree ==
    \A stale, connected \in BOOLEAN :
        LET s == Snapshot(stale, connected) IN Agree(s, Human(s), viewModel(s))

(* Three tables kept by hand agree: the window finds, from the name on the wire,
   the decoded model again, and an image file for each of its cards, absent
   figures included; a case is never drawn as a pod.                          *)
EveryCardHasArtwork ==
    /\ String(ParseModel(view.model)) = view.model
    /\ LET cards == viewModel(Snapshot(FALSE, TRUE))
       IN  \A i \in DOMAIN cards :
              /\ cards[i].image \in drawables
              /\ cards[i].label = "Case" => cards[i].image[1] # cards[1].image[1]
=============================================================================
