------------------------ MODULE MCPhoneVerification ------------------------
(* Instances of PhoneVerification for TLC: ids are interchangeable.         *)
EXTENDS PhoneVerification, TLC

Symmetry == Permutations(Phones) \cup Permutations(Customers) \cup Permutations(Otps)
            \cup Permutations(Vmts) \cup Permutations(Reqs)
=============================================================================
