--------------------------- MODULE MCEntityStore ---------------------------
(* Two consumers, interchangeable, and one administrator.                  *)
EXTENDS EntityStore, TLC
CONSTANTS timber, u1, u2, root
Symmetry == Permutations({u1, u2})
=============================================================================
