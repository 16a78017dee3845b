--------------------------- MODULE MCReverification ---------------------------
(* Instances of Reverification for TLC. *)
EXTENDS Reverification, TLC

CONSTANTS p1, p2, a1, a2

Symmetry == Permutations({p1, p2}) \cup Permutations({a1, a2})
===============================================================================
