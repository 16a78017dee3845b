---------------------------- MODULE MCCodexAdapter ----------------------------
(* Instances of CodexAdapter for TLC. *)
EXTENDS CodexAdapter

EveryLine == LineKinds
===============================================================================
