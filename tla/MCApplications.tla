--------------------------- MODULE MCApplications ---------------------------
(* Instances of Applications for TLC: ids are interchangeable; a body and a   *)
(* lead status are not, since idle requests and new rows hold one of them.    *)
EXTENDS Applications, TLC

Symmetry ==
  Permutations(Apps) \cup Permutations(Offers) \cup Permutations(Keys) \cup Permutations(Reqs)
=============================================================================
