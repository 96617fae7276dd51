------------------------------ MODULE MCPromotion ------------------------------
(* A first cycle whose candidate lacks everything, and a second whose is     *)
(* ready, by its plan or because an artifact was there all the time.         *)
EXTENDS Promotion
MCSources == {"repo", "eeepc"}
Kind(artifact, ready, commit) == [artifact |-> artifact, ready |-> ready, commit |-> commit]
MCKinds == <<{Kind(FALSE, FALSE, FALSE)}, {Kind(TRUE, TRUE, TRUE), Kind(TRUE, FALSE, TRUE)}>>
=============================================================================
