---------------------------- MODULE MCStreamLines -----------------------------
(* Instances of StreamLines for TLC. *)
EXTENDS StreamLines

\* Every worker output of up to seven bytes.
ShortInputs == UNION {[1..n -> {CR, LF, "x"}] : n \in 0..7}
===============================================================================
