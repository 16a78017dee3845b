------------------------------- MODULE MCRunLoop -------------------------------
(* Instances of RunLoop for TLC: three tasks, two resource keys. *)
EXTENDS RunLoop

NoDeps == [t \in Tasks |-> {}]
NoKeys == [t \in Tasks |-> {}]

Shapes ==
  {NoDeps,
   [NoDeps EXCEPT ![2] = {1}, ![3] = {2}],      \* a chain
   [NoDeps EXCEPT ![2] = {1}, ![3] = {1}],      \* a fork
   [NoDeps EXCEPT ![3] = {1, 2}]}               \* a join

KeySets ==
  {NoKeys,
   [NoKeys EXCEPT ![2] = {"db"}, ![3] = {"db"}],
   [NoKeys EXCEPT ![1] = {"db", "api"}, ![2] = {"api"}, ![3] = {"db"}]}

Limits(auto, min, initial, max) ==
  [auto |-> auto, min |-> min, initial |-> initial, max |-> max,
   threads |-> 2 * max + 1, subagents |-> 2]

Manifest(ts, deps, keys, rank, l) ==
  [tasks |-> ts, deps |-> deps, keys |-> keys, rank |-> rank,
   auto |-> l.auto, min |-> l.min, initial |-> l.initial, max |-> l.max,
   threads |-> l.threads, subagents |-> l.subagents]

AllLimits == {Limits(FALSE, 1, 2, 2), Limits(TRUE, 1, 2, 2), Limits(TRUE, 1, 1, 3)}

AllWorkloads ==
  {Manifest(Tasks, d, k, r, l) :
     d \in Shapes, k \in KeySets, l \in AllLimits,
     r \in {[t \in Tasks |-> t], [t \in Tasks |-> 4 - t]}}
  \cup {Manifest({1}, NoDeps, NoKeys, [t \in Tasks |-> t], l) : l \in AllLimits}

AimdWorkload ==
  {Manifest(Tasks, NoDeps, NoKeys, [t \in Tasks |-> t], Limits(TRUE, 1, 2, 2))}
===============================================================================
