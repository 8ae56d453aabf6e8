-------------------------- MODULE MCStaffSessions --------------------------
(* Instances of StaffSessions for TLC: ids are interchangeable, but for the *)
(* account that is seeded.                                                  *)
EXTENDS StaffSessions, TLC

Symmetry == Permutations(Users \ Seeds) \cup Permutations(Tokens) \cup Permutations(Reqs)
            \cup Permutations(Hashes)

Demote        == [role |-> "staff", isActive |-> Keep, name |-> FALSE]
Deactivate    == [role |-> Keep, isActive |-> "false", name |-> FALSE]
RenamedDemote == [Demote EXCEPT !.name = TRUE]

NoPatches       == {}
FloorPatches    == {Demote, Deactivate}
DeactivatePatch == {Deactivate}
NamePatches     == {RenamedDemote, Deactivate, [NoPatch EXCEPT !.name = TRUE]}
=============================================================================
