------------------------------ MODULE MCTaskRace ------------------------------
(* Instances of TaskRace for TLC. *)
EXTENDS TaskRace

Setting(p, r, h, m, s) ==
  [policy |-> p, replaySafe |-> r, hedge |-> h, maxAttempts |-> m, rootSlots |-> s]

\* Every policy, with and without hedging, replay safety and spare attempts.
AllConfigs ==
  {Setting(p, r, h, m, s) :
     p \in Policies,
     r \in BOOLEAN, h \in BOOLEAN, m \in 1..3, s \in 1..2}

RaceConfigs ==
  {Setting(p, TRUE, TRUE, m, s) :
     p \in {"always-race", "delayed-hedge"}, m \in 2..3, s \in 1..2}

SingleConfig == {Setting("single", TRUE, TRUE, 2, 1)}
RaceConfig == {Setting("always-race", TRUE, TRUE, 2, 2)}
HedgeConfig == {Setting("delayed-hedge", TRUE, TRUE, 2, 2)}
===============================================================================
