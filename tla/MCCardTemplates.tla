--------------------------- MODULE MCCardTemplates ---------------------------
(* A small organization. Every set is symmetric, and no property is about     *)
(* liveness. Two templates with two images are more states than they are      *)
(* worth: one scene has the images, another the templates, and a third the    *)
(* badges that are printed of the QR codes.                                   *)
EXTENDS CardTemplates, Badges, TLC

VARIABLE scene

MCInit == Init /\ BadgesInit /\ scene \in {"TWO_IMAGES", "TWO_TEMPLATES", "BADGES"}

Fits ==
    CASE scene = "TWO_IMAGES" -> Cardinality({t \in Template : status'[t] # "NONE"}) <= 1
      [] scene = "TWO_TEMPLATES" -> Cardinality(drawn') <= 1

MCNext ==
    /\ UNCHANGED scene
    /\ \/ scene # "BADGES" /\ Next /\ Fits /\ UNCHANGED badgeVars
       \/ scene = "BADGES" /\ BadgesNext /\ UNCHANGED vars

MCSpec == MCInit /\ [][MCNext]_<<vars, badgeVars, scene>>

Symmetry ==
    Permutations(Template) \cup Permutations(Image) \cup Permutations(Admin)
    \cup Permutations(Badge) \cup Permutations(Design) \cup Permutations(Staff)
=============================================================================
