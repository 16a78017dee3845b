-------------------------- MODULE MCPlanningWorkflow --------------------------
(* Instances of PlanningWorkflow for TLC. *)
EXTENDS PlanningWorkflow

CONSTANTS p1, p2, p3

\* Every command line beside one that is reviewed and edited, and three
\* processes that plan the same work at once.
ThreeCommands ==
  [p \in Processes |->
     CASE p = p1 -> {<<"run", "asked">>, <<"plan", "yes">>}
       [] p = p2 -> {<<"run", "none">>, <<"clip", "yes">>, <<"plan", "yes">>,
                     <<"existing", "asked">>}
       [] OTHER  -> {<<"plan", "yes">>}]

\* The states explored: the third process only runs when all of them plan and
\* nobody commits or edits, for only planning shares the temporary file; and a
\* request that is replaced meets a commit or an edit, not both.
Explored ==
  /\ \/ \A p \in {p1, p3} : proc[p].kind # "plan"
     \/ /\ head = 0 /\ edits = 0
        /\ \A p \in Processes : proc[p].at # "idle" => proc[p].kind = "plan"
  /\ \/ head = 0 \/ edits = 0
     \/ \A i, j \in DOMAIN requests : requests[i].by = requests[j].by => i = j
===============================================================================
