--------------------------- MODULE MCProfilePhoto ---------------------------
(* Instances of ProfilePhoto for TLC: keys and requests are interchangeable. *)
EXTENDS ProfilePhoto, TLC

Symmetry == Permutations(Keys) \cup Permutations(Reqs)
=============================================================================
