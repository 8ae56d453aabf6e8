----------------------- MODULE MCCustomerCredentials -----------------------
(* Instances of CustomerCredentials for TLC: ids are interchangeable; the   *)
(* passwords are not, since an idle request holds one of them.              *)
EXTENDS CustomerCredentials, TLC

Symmetry == Permutations(Tokens) \cup Permutations(Resets) \cup Permutations(Reqs)
=============================================================================
