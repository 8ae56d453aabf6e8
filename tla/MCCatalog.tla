------------------------------ MODULE MCCatalog ------------------------------
(***************************************************************************)
(* Instances of Catalog for TLC.  Admins who race do so over one program    *)
(* and one name; admins who take turns edit two of each.                    *)
(***************************************************************************)
EXTENDS Catalog, TLC

CONSTANTS i1, i2, n1, n2, p1, p2, r1, r2, v1, v2, v3

Used(c) == c = None \/ c.name = n1

\* What is not tried stands at one beginning.
Small ==
  /\ "overlap" \in world =>
       /\ ~Exists(i2) /\ name[n2] = [own |-> None, product |-> None]
       /\ \A r \in Reqs : req[r].name # n2 /\ Used(req[r].new.content)
  /\ side = "list" =>
       /\ world = {}
       /\ name = [n \in Names |-> [own |-> None, product |-> None]]
       /\ product = [q \in Products |-> None]
  /\ side = "programs" => live = Values

\* Proofs, requests and the values of the list are interchangeable.
Symmetry == Permutations({p1, p2}) \cup Permutations({r1, r2}) \cup Permutations({v1, v2, v3})
=============================================================================
