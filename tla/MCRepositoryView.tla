--------------------------- MODULE MCRepositoryView ---------------------------
(* Instances of RepositoryView for TLC: a tracked file, a new one and an      *)
(* ignored one.                                                               *)
EXTENDS RepositoryView

OneFile == [p \in Paths |-> IF p = "f" THEN "base" ELSE Absent]
===============================================================================
