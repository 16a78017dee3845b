--------------------------- MODULE PlanCompilerProofs ---------------------------
(***************************************************************************)
(* Proofs about PlanCompiler and the operators it is built from, for all   *)
(* proposals, paths, files and limits.                                     *)
(*                                                                         *)
(* The argument.  Whatever is merged, the tasks stay a partition of the    *)
(* proposed ones, each with the scope of those it stands for, and each     *)
(* waits for the tasks that hold the producers of what these require       *)
(* (StandsFor).  A plan has its keys and passed the analysis besides, so   *)
(* it is a graph without a cycle, and what is shown of it is proved of all *)
(* such graphs.                                                            *)
(*                                                                         *)
(* The numbers are computed by recursion over the graph: sums over sets,   *)
(* rounds of ancestors, finish times, bottom levels, the critical path.    *)
(* Of each it is first proved that a function solves the recursion, by a   *)
(* least argument at which none does, and then what every solution says,   *)
(* by a task with fewest ancestors of which it would not be so.  A match   *)
(* of a path against a pattern has a closed form instead.                  *)
(***************************************************************************)
EXTENDS PlanCompiler, FiniteSetTheorems, WellFoundedInduction, TLAPS

-------------------------------------------------------------------------------
(* Finite sets.  A claim about all of them is proved by a least counterexample: *)
(* the set of counterexamples is a comprehension, and has a least element.      *)

LEMMA NatLeast ==
  ASSUME NEW S, S \subseteq Nat, S # {}
  PROVE  \E n \in S : \A m \in S : n <= m
<1>1. PICK n \in S : \A m \in S : <<m, n>> \notin OpToRel(<, Nat)
  BY NatLessThanWellFounded, WFMin
<1>2. \A m \in S : ~(m < n)
  BY <1>1 DEF OpToRel
<1>3. QED
  BY <1>2

LEMMA MinimalSubset ==
  ASSUME NEW S, IsFiniteSet(S), NEW Bad, Bad \subseteq SUBSET S, Bad # {}
  PROVE  \E T \in Bad : \A U \in Bad : U \subseteq T => U = T
<1>1. IsWellFoundedOn(StrictSubsetOrdering(S), SUBSET S)
  BY FS_StrictSubsetOrderingWellFounded, FS_FiniteSubsetsOfFinite
<1>2. PICK T \in Bad : \A U \in Bad : <<U, T>> \notin StrictSubsetOrdering(S)
  BY <1>1, WFMin
<1>3. QED
  BY <1>2 DEF StrictSubsetOrdering

\* What a function makes of a finite set is finite.
LEMMA FiniteRange ==
  ASSUME NEW S, IsFiniteSet(S), NEW f, f = [x \in S |-> f[x]]
  PROVE  /\ IsFiniteSet(Range(f)) /\ Cardinality(Range(f)) <= Cardinality(S)
<1>1. f \in Surjection(S, Range(f))
  BY DEF Surjection, Range
<1>2. QED
  BY <1>1, FS_Surjection

\* A finite set of naturals has a largest element.
LEMMA NatMax ==
  ASSUME NEW S, IsFiniteSet(S), S \subseteq Nat, S # {}
  PROVE  Max(S) \in S /\ Max(S) \in Nat /\ \A x \in S : x <= Max(S)
<1> DEFINE HasMax(T) == \E m \in T : \A x \in T : x <= m
<1>1. ASSUME NEW Bad, Bad = {T \in SUBSET S : T # {} /\ ~HasMax(T)}, Bad # {}
      PROVE  FALSE
  <2>1. PICK T \in Bad : \A U \in Bad : U \subseteq T => U = T
    <3>1. Bad \subseteq SUBSET S
      BY <1>1
    <3>2. Bad # {} /\ IsFiniteSet(S)
      BY <1>1
    <3>3. QED
      BY ONLY <3>1, <3>2, MinimalSubset
  <2>2. PICK x \in T : TRUE
    BY <1>1
  <2>3. T \ {x} # {} => HasMax(T \ {x})
    <3>1. T \ {x} \in SUBSET S /\ T \ {x} \subseteq T /\ T \ {x} # T
      BY <1>1, <2>2
    <3>2. QED
      BY <1>1, <2>1, <3>1
  <2>4. HasMax(T)
    <3>1. CASE T \ {x} = {}
      <4>1. T = {x} /\ x \in Nat
        BY <1>1, <2>2, <3>1
      <4>2. QED
        BY <4>1
    <3>2. CASE T \ {x} # {}
      <4>1. PICK m \in T \ {x} : \A y \in T \ {x} : y <= m
        BY <2>3, <3>2
      <4>2. m \in Nat /\ x \in Nat /\ T \subseteq Nat
        BY <1>1
      <4>3. CASE x <= m
        BY <4>1, <4>2, <4>3
      <4>4. CASE m < x
        <5>1. \A y \in T : y <= x
          BY <4>1, <4>2, <4>4
        <5>2. QED
          BY <2>2, <5>1
      <4>5. QED
        BY <4>2, <4>3, <4>4
    <3>3. QED
      BY <3>1, <3>2
  <2>5. QED
    BY <1>1, <2>4
<1>2. PICK m \in S : \A x \in S : x <= m
  <2>1. {T \in SUBSET S : T # {} /\ ~HasMax(T)} = {}
    BY <1>1
  <2>2. HasMax(S)
    BY <2>1
  <2>3. QED
    BY <2>2
<1>3. Max(S) \in S /\ \A x \in S : Max(S) >= x
  <2>1. \E y \in S : \A x \in S : y >= x
    BY <1>2
  <2>2. QED
    BY <2>1 DEF Max
<1>4. QED
  BY <1>3

LEMMA NatMin ==
  ASSUME NEW S, S \subseteq Nat, S # {}
  PROVE  Min(S) \in S /\ Min(S) \in Nat /\ \A x \in S : Min(S) <= x
<1>1. \E n \in S : \A m \in S : n <= m
  BY NatLeast
<1>2. QED
  BY <1>1 DEF Min

LEMMA LargestIs ==
  ASSUME NEW S, IsFiniteSet(S), S \subseteq Nat
  PROVE  /\ Largest(S) \in Nat /\ \A x \in S : x <= Largest(S)
         /\ S # {} => Largest(S) \in S
         /\ S = {} => Largest(S) = 0
<1>1. CASE S = {}
  BY <1>1 DEF Largest
<1>2. CASE S # {}
  <2>1. Largest(S) = Max(S)
    BY <1>2 DEF Largest
  <2>2. QED
    BY <1>2, <2>1, NatMax
<1>3. QED
  BY <1>1, <1>2

-------------------------------------------------------------------------------
(* Work: a sum over a set, in the order that CHOOSE takes.                      *)

\* f sums the durations of the subsets of S that are members of L.
First(s) == CHOOSE x \in s : TRUE
Adds(f, L) ==
  f = [s \in L |-> IF s = {} THEN 0 ELSE First(s).duration + f[s \ {First(s)}]]
AddsBelow(f, S) == Adds(f, SUBSET S)
Durations(S) == \A x \in S : x.duration \in Nat
UpTo(S, k) == {s \in SUBSET S : Cardinality(s) <= k}

LEMMA SubsetSizes ==
  ASSUME NEW S, IsFiniteSet(S), NEW s \in SUBSET S
  PROVE  /\ IsFiniteSet(s) /\ Cardinality(s) \in Nat /\ Cardinality(S) \in Nat
         /\ Cardinality(s) <= Cardinality(S)
         /\ s # {} => /\ First(s) \in s /\ s \ {First(s)} \in SUBSET S
                      /\ Cardinality(s \ {First(s)}) = Cardinality(s) - 1
                      /\ Cardinality(s) # 0
<1>1. IsFiniteSet(s) /\ Cardinality(s) \in Nat /\ Cardinality(S) \in Nat
      /\ Cardinality(s) <= Cardinality(S)
  BY FS_Subset, FS_CardinalityType
<1>2. ASSUME s # {} PROVE /\ First(s) \in s /\ s \ {First(s)} \in SUBSET S
                          /\ Cardinality(s \ {First(s)}) = Cardinality(s) - 1
                          /\ Cardinality(s) # 0
  <2>1. First(s) \in s
    BY <1>2 DEF First
  <2>2. QED
    BY <1>1, <1>2, <2>1, FS_RemoveElement, FS_EmptySet
<1>3. QED
  BY <1>1, <1>2

LEMMA SumsExist ==
  ASSUME NEW S, IsFiniteSet(S)
  PROVE  \E f : Adds(f, SUBSET S)
<1> DEFINE Bad == {k \in Nat : ~\E f : Adds(f, UpTo(S, k))}
<1>1. Bad = {}
  <2> SUFFICES ASSUME Bad # {} PROVE FALSE
    OBVIOUS
  <2>1. PICK k \in Bad : \A m \in Bad : k <= m
    BY NatLeast
  <2>2. CASE k = 0
    <3>1. ASSUME NEW s \in UpTo(S, 0) PROVE s = {}
      <4>1. s \in SUBSET S /\ Cardinality(s) <= 0
        BY DEF UpTo
      <4>2. Cardinality(s) \in Nat /\ (s # {} => Cardinality(s) # 0)
        BY <4>1, SubsetSizes
      <4>3. QED
        BY <4>1, <4>2
    <3> DEFINE f == [s \in UpTo(S, 0) |-> 0]
    <3>2. Adds(f, UpTo(S, 0))
      BY <3>1 DEF Adds
    <3>3. QED
      BY <2>1, <2>2, <3>2
  <2>3. CASE k # 0
    <3>1. k - 1 \in Nat /\ k - 1 \notin Bad
      BY <2>1, <2>3
    <3>2. PICK f : Adds(f, UpTo(S, k - 1))
      BY <3>1
    <3> DEFINE g == [s \in UpTo(S, k) |->
                       IF s = {} THEN 0 ELSE First(s).duration + f[s \ {First(s)}]]
    <3>3. \A s \in UpTo(S, k - 1) : s \in UpTo(S, k) /\ g[s] = f[s]
      <4>1. \A s \in UpTo(S, k - 1) :
              f[s] = IF s = {} THEN 0 ELSE First(s).duration + f[s \ {First(s)}]
        BY <3>2 DEF Adds
      <4>2. ASSUME NEW s \in UpTo(S, k - 1) PROVE s \in UpTo(S, k)
        <5>1. s \in SUBSET S /\ Cardinality(s) <= k - 1 /\ Cardinality(s) \in Nat
          BY SubsetSizes DEF UpTo
        <5>2. Cardinality(s) <= k
          BY <3>1, <5>1
        <5>3. QED
          BY <5>1, <5>2 DEF UpTo
      <4>3. QED
        BY <4>1, <4>2
    <3>4. \A s \in UpTo(S, k) : s # {} => s \ {First(s)} \in UpTo(S, k - 1)
      BY <3>1, SubsetSizes DEF UpTo
    <3>5. Adds(g, UpTo(S, k))
      <4>1. \A s \in UpTo(S, k) : s # {} => f[s \ {First(s)}] = g[s \ {First(s)}]
        BY <3>3, <3>4
      <4>2. QED
        BY <4>1 DEF Adds
    <3>6. QED
      BY <2>1, <3>5
  <2>4. QED
    BY <2>2, <2>3
<1>2. Cardinality(S) \in Nat /\ UpTo(S, Cardinality(S)) = SUBSET S
  BY SubsetSizes DEF UpTo
<1>3. PICK f : Adds(f, UpTo(S, Cardinality(S)))
  BY <1>1, <1>2
<1>4. QED
  BY <1>2, <1>3

\* Two that sum the same sets agree.
LEMMA SumsAgree ==
  ASSUME NEW S, IsFiniteSet(S), NEW R \in SUBSET S, NEW f, NEW g,
         AddsBelow(f, S), AddsBelow(g, R)
  PROVE  \A s \in SUBSET R : f[s] = g[s]
<1>1. ASSUME NEW Bad, Bad = {s \in SUBSET R : f[s] # g[s]}, Bad # {} PROVE FALSE
  <2>1. Bad \subseteq SUBSET R /\ IsFiniteSet(R)
    BY <1>1, FS_Subset
  <2>2. PICK s \in Bad : \A u \in Bad : u \subseteq s => u = s
    BY ONLY <1>1, <2>1, MinimalSubset
  <2>3. s \in SUBSET R /\ s \in SUBSET S
    BY <1>1
  <2>4. CASE s = {}
    BY <1>1, <2>3, <2>4 DEF Adds, AddsBelow
  <2>5. CASE s # {}
    <3>1. First(s) \in s /\ s \ {First(s)} \in SUBSET R /\ s \ {First(s)} # s
      BY <2>1, <2>3, <2>5, SubsetSizes
    <3>2. f[s \ {First(s)}] = g[s \ {First(s)}]
      BY <1>1, <2>2, <3>1
    <3>3. /\ f[s] = First(s).duration + f[s \ {First(s)}]
          /\ g[s] = First(s).duration + g[s \ {First(s)}]
      BY <2>3, <2>5 DEF Adds, AddsBelow
    <3>4. QED
      BY <1>1, <3>2, <3>3
  <2>6. QED
    BY <2>4, <2>5
<1>2. {s \in SUBSET R : f[s] # g[s]} = {}
  BY <1>1
<1>3. QED
  BY <1>2

\* The equation of Work.
LEMMA WorkEquation ==
  ASSUME NEW S, IsFiniteSet(S)
  PROVE  /\ S = {} => Work(S) = 0
         /\ S # {} => Work(S) = First(S).duration + Work(S \ {First(S)})
<1> DEFINE Sums(s) == CHOOSE f : Adds(f, SUBSET s)
<1>1. \A s : Work(s) = Sums(s)[s]
  BY Zenon DEF Work, MapThenSumSet, MapThenFoldSet, Adds, First
<1>2. \A s \in SUBSET S : Adds(Sums(s), SUBSET s)
  <2> TAKE s \in SUBSET S
  <2>1. IsFiniteSet(s)
    BY FS_Subset
  <2>2. QED
    BY <2>1, SumsExist
<1> HIDE DEF Sums
<1>3. ASSUME NEW s \in SUBSET S PROVE Sums(S)[s] = Work(s)
  <2>1. PICK f : f = Sums(S)
    OBVIOUS
  <2>2. PICK g : g = Sums(s)
    OBVIOUS
  <2>3. AddsBelow(f, S) /\ AddsBelow(g, s) /\ IsFiniteSet(S) /\ s \in SUBSET S
    BY <1>2, <2>1, <2>2 DEF AddsBelow
  <2>4. \A u \in SUBSET s : f[u] = g[u]
    BY ONLY <2>3, SumsAgree
  <2>5. QED
    BY <1>1, <2>1, <2>2, <2>4
<1>4. CASE S = {}
  BY <1>1, <1>2, <1>4 DEF Adds
<1>5. CASE S # {}
  <2>1. Sums(S)[S] = First(S).duration + Sums(S)[S \ {First(S)}]
    BY <1>2, <1>5 DEF Adds
  <2>2. QED
    BY <1>1, <1>3, <1>5, <2>1
<1>6. QED
  BY <1>4, <1>5

LEMMA WorkTyped ==
  ASSUME NEW S, IsFiniteSet(S), Durations(S)
  PROVE  Work(S) \in Nat
<1>1. ASSUME NEW Bad, Bad = {s \in SUBSET S : Work(s) \notin Nat}, Bad # {} PROVE FALSE
  <2>1. Bad \subseteq SUBSET S /\ Bad # {} /\ IsFiniteSet(S)
    BY <1>1
  <2>2. PICK s \in Bad : \A u \in Bad : u \subseteq s => u = s
    BY ONLY <2>1, MinimalSubset
  <2>3. s \in SUBSET S /\ IsFiniteSet(s) /\ s # {}
    <3>1. s \in SUBSET S /\ Work(s) \notin Nat
      BY <1>1
    <3>2. IsFiniteSet(s)
      BY <3>1, FS_Subset
    <3>3. QED
      BY <3>1, <3>2, WorkEquation
  <2>4. First(s) \in s /\ s \ {First(s)} \in SUBSET S
    BY <2>3, SubsetSizes
  <2>5. Work(s \ {First(s)}) \in Nat
    BY <1>1, <2>2, <2>4
  <2>6. First(s).duration \in Nat
    BY <2>3, <2>4 DEF Durations
  <2>7. QED
    BY <1>1, <2>3, <2>5, <2>6, WorkEquation
<1>2. QED
  BY <1>1

\* Any element may be taken out first.
LEMMA WorkWithout ==
  ASSUME NEW S, IsFiniteSet(S), Durations(S), NEW x \in S
  PROVE  Work(S) = x.duration + Work(S \ {x})
<1> DEFINE Takes(s) == \A y \in s : Work(s) = y.duration + Work(s \ {y})
<1>1. ASSUME NEW Bad, Bad = {s \in SUBSET S : ~Takes(s)}, Bad # {} PROVE FALSE
  <2>1. Bad \subseteq SUBSET S /\ Bad # {} /\ IsFiniteSet(S)
    BY <1>1
  <2>2. PICK s \in Bad : \A u \in Bad : u \subseteq s => u = s
    BY ONLY <2>1, MinimalSubset
  <2>3. PICK y \in s : Work(s) # y.duration + Work(s \ {y})
    BY <1>1
  <2> DEFINE z == First(s)
  <2>4. /\ s \in SUBSET S /\ IsFiniteSet(s) /\ s # {} /\ z \in s
        /\ Work(s) = z.duration + Work(s \ {z})
    <3>1. s \in SUBSET S /\ IsFiniteSet(s) /\ s # {}
      BY <1>1, FS_Subset
    <3>2. QED
      BY <3>1, SubsetSizes, WorkEquation
  <2>5. y # z
    BY <2>3, <2>4
  <2> HIDE DEF z
  <2>6. Takes(s \ {z}) /\ Takes(s \ {y})
    <3>1. /\ s \ {z} \in SUBSET S /\ s \ {z} \subseteq s /\ s \ {z} # s
          /\ s \ {y} \in SUBSET S /\ s \ {y} \subseteq s /\ s \ {y} # s
      BY <2>4
    <3>2. s \ {z} \notin Bad /\ s \ {y} \notin Bad
      BY <2>2, <3>1
    <3>3. QED
      BY <1>1, <3>1, <3>2
  <2>7. (s \ {z}) \ {y} = (s \ {y}) \ {z} /\ y \in s \ {z} /\ z \in s \ {y}
    BY <2>4, <2>5
  <2>8. /\ Work(s \ {z}) = y.duration + Work((s \ {z}) \ {y})
        /\ Work(s \ {y}) = z.duration + Work((s \ {z}) \ {y})
    BY <2>6, <2>7
  <2>9. y.duration \in Nat /\ z.duration \in Nat /\ Work((s \ {z}) \ {y}) \in Nat
    <3>1. IsFiniteSet((s \ {z}) \ {y}) /\ Durations((s \ {z}) \ {y})
      BY <2>4, FS_Subset DEF Durations
    <3>2. QED
      BY <2>4, <3>1, WorkTyped DEF Durations
  <2>10. QED
    BY <2>3, <2>4, <2>8, <2>9
<1>2. {s \in SUBSET S : ~Takes(s)} = {}
  BY <1>1
<1>3. Takes(S)
  BY <1>2
<1>4. QED
  BY <1>3

-------------------------------------------------------------------------------
(* Ancestors: the least set that holds a task's dependencies and theirs.        *)

Graph(G) ==
  /\ IsFiniteSet(G)
  /\ \A t, u \in G : t.id = u.id => t = u
  /\ \A t \in G : t.deps \subseteq Ids(G)

Closed(G, C) == \A d \in C : Depends(G)[d] \subseteq C

LEMMA GraphIds ==
  ASSUME NEW G, Graph(G)
  PROVE  /\ \A t \in G : t.id \in Ids(G) /\ TaskOf(G, t.id) = t /\ Depends(G)[t.id] = t.deps
         /\ \A i \in Ids(G) : TaskOf(G, i) \in G /\ TaskOf(G, i).id = i
                              /\ Depends(G)[i] = TaskOf(G, i).deps
         /\ Depends(G) \in [Ids(G) -> SUBSET Ids(G)]
         /\ IsFiniteSet(Ids(G)) /\ Cardinality(Ids(G)) \in Nat
         /\ Cardinality(G) \in Nat /\ Cardinality(Ids(G)) <= Cardinality(G)
<1>1. \A i \in Ids(G) : TaskOf(G, i) \in G /\ TaskOf(G, i).id = i
  BY DEF Ids, TaskOf
<1>2. \A t \in G : t.id \in Ids(G) /\ TaskOf(G, t.id) = t
  BY <1>1 DEF Ids, Graph
<1>3. \A i \in Ids(G) : Depends(G)[i] = TaskOf(G, i).deps /\ TaskOf(G, i).deps \in SUBSET Ids(G)
  BY <1>1 DEF Depends, Graph
<1>4. Depends(G) \in [Ids(G) -> SUBSET Ids(G)]
  BY <1>3 DEF Depends
<1>5. IsFiniteSet(Ids(G)) /\ Cardinality(Ids(G)) <= Cardinality(G)
  <2> DEFINE f == [t \in G |-> t.id]
  <2>1. IsFiniteSet(Range(f)) /\ Cardinality(Range(f)) <= Cardinality(G)
    BY FiniteRange DEF Graph
  <2>2. Range(f) = Ids(G)
    BY DEF Range, Ids
  <2>3. QED
    BY <2>1, <2>2
<1>6. QED
  BY <1>1, <1>2, <1>3, <1>4, <1>5, FS_CardinalityType DEF Graph

LEMMA FurtherKeeps ==
  ASSUME NEW I, NEW a, a \in [I -> SUBSET I]
  PROVE  /\ Further(a) \in [I -> SUBSET I]
         /\ \A i \in I : a[i] \subseteq Further(a)[i]
         /\ \A i \in I : \A d \in a[i] : a[d] \subseteq Further(a)[i]
         /\ \A i \in I : \A x \in Further(a)[i] : x \in a[i] \/ \E d \in a[i] : x \in a[d]
<1>1. DOMAIN a = I
  OBVIOUS
<1>2. Further(a) = [i \in I |-> a[i] \cup UNION {a[d] : d \in a[i] \cap I}]
  BY <1>1 DEF Further
<1>3. ASSUME NEW i \in I
      PROVE  /\ Further(a)[i] = a[i] \cup UNION {a[d] : d \in a[i]}
             /\ Further(a)[i] \in SUBSET I
  <2>1. a[i] \cap I = a[i] /\ \A d \in a[i] : a[d] \in SUBSET I
    OBVIOUS
  <2>2. QED
    BY <1>2, <2>1
<1>4. QED
  BY <1>2, <1>3

IsRounds(f, G, k) ==
  f = [n \in 0..k |-> IF n = 0 THEN Depends(G) ELSE Further(f[n - 1])]

LEMMA RoundsExist ==
  ASSUME NEW G, NEW k \in Nat
  PROVE  \E f : IsRounds(f, G, k)
<1> DEFINE Bad == {n \in Nat : ~\E f : IsRounds(f, G, n)}
<1>1. Bad = {}
  <2> SUFFICES ASSUME Bad # {} PROVE FALSE
    OBVIOUS
  <2>1. PICK n \in Bad : \A m \in Bad : n <= m
    BY NatLeast
  <2>2. CASE n = 0
    <3> DEFINE f == [m \in 0..0 |-> Depends(G)]
    <3>1. IsRounds(f, G, 0)
      BY DEF IsRounds
    <3>2. QED
      BY <2>1, <2>2, <3>1
  <2>3. CASE n # 0
    <3>1. n \in Nat /\ n - 1 \in Nat /\ n - 1 \notin Bad
      BY <2>1, <2>3
    <3>2. PICK f : IsRounds(f, G, n - 1)
      BY <3>1
    <3> DEFINE g == [m \in 0..n |-> IF m = 0 THEN Depends(G) ELSE Further(f[m - 1])]
    <3>3. \A m \in 0..(n - 1) : g[m] = f[m]
      BY <3>1, <3>2 DEF IsRounds
    <3>4. \A m \in 0..n : m # 0 => f[m - 1] = g[m - 1]
      BY <3>1, <3>3
    <3>5. IsRounds(g, G, n)
      BY <3>4 DEF IsRounds
    <3>6. QED
      BY <2>1, <3>5
  <2>4. QED
    BY <2>2, <2>3
<1>2. QED
  BY <1>1

LEMMA RoundsAre ==
  ASSUME NEW G, Graph(G)
  PROVE  /\ Rounds(G)[0] = Depends(G)
         /\ \A n \in 1..Cardinality(Ids(G)) : Rounds(G)[n] = Further(Rounds(G)[n - 1])
         /\ \A n \in 0..Cardinality(Ids(G)) : Rounds(G)[n] \in [Ids(G) -> SUBSET Ids(G)]
<1> DEFINE N == Cardinality(Ids(G))
<1>1. N \in Nat /\ Depends(G) \in [Ids(G) -> SUBSET Ids(G)]
  BY GraphIds
<1>2. Rounds(G) = CHOOSE f : IsRounds(f, G, N)
  BY Zenon DEF Rounds, IsRounds
<1>3. IsRounds(Rounds(G), G, N)
  BY <1>1, <1>2, RoundsExist
<1> HIDE DEF N
<1>4. /\ Rounds(G)[0] = Depends(G)
      /\ \A n \in 1..N : Rounds(G)[n] = Further(Rounds(G)[n - 1])
  BY <1>1, <1>3 DEF IsRounds
<1>5. \A n \in 0..N : Rounds(G)[n] \in [Ids(G) -> SUBSET Ids(G)]
  <2>1. ASSUME NEW Bad, Bad = {n \in 0..N : Rounds(G)[n] \notin [Ids(G) -> SUBSET Ids(G)]},
               Bad # {}
        PROVE  FALSE
    <3>1. PICK n \in Bad : \A m \in Bad : n <= m
      BY <1>1, <2>1, NatLeast
    <3>2. n \in 0..N /\ n # 0
      BY <1>1, <1>4, <2>1, <3>1
    <3>3. n - 1 \in 0..N /\ n - 1 \notin Bad
      BY <1>1, <3>1, <3>2
    <3>4. Rounds(G)[n - 1] \in [Ids(G) -> SUBSET Ids(G)]
      BY <2>1, <3>3
    <3>5. QED
      BY <1>1, <1>4, <2>1, <3>2, <3>4, FurtherKeeps
  <2>2. {n \in 0..N : Rounds(G)[n] \notin [Ids(G) -> SUBSET Ids(G)]} = {}
    BY <2>1
  <2>3. QED
    BY <2>2
<1>6. QED
  BY <1>4, <1>5 DEF N

\* From one round to a later one nothing is forgotten.
LEMMA RoundsGrow ==
  ASSUME NEW G, Graph(G), NEW i \in Ids(G), NEW m \in 0..Cardinality(Ids(G))
  PROVE  \A n \in 0..m : Rounds(G)[n][i] \subseteq Rounds(G)[m][i]
<1> DEFINE N == Cardinality(Ids(G))
           Bad == {k \in 0..N : ~\A n \in 0..k : Rounds(G)[n][i] \subseteq Rounds(G)[k][i]}
<1>1. N \in Nat
  BY GraphIds
<1>2. ASSUME Bad # {} PROVE FALSE
  <2>1. PICK k \in Bad : \A l \in Bad : k <= l
    <3>1. Bad \subseteq Nat
      BY <1>1
    <3>2. QED
      BY <1>2, <3>1, NatLeast
  <2>2. k # 0 /\ k \in 0..N
    BY <1>1, <2>1
  <2>3. k - 1 \in 0..N /\ k - 1 \notin Bad /\ k \in 1..N
    BY <1>1, <2>1, <2>2
  <2>4. \A n \in 0..(k - 1) : Rounds(G)[n][i] \subseteq Rounds(G)[k - 1][i]
    BY <2>3
  <2>5. Rounds(G)[k - 1][i] \subseteq Rounds(G)[k][i]
    BY <2>3, RoundsAre, FurtherKeeps
  <2>6. \A n \in 0..k : Rounds(G)[n][i] \subseteq Rounds(G)[k][i]
    BY <1>1, <2>2, <2>4, <2>5
  <2>7. QED
    BY <2>1, <2>6
<1>3. QED
  BY <1>2

\* No round leaves a closed set that the dependencies are in.
LEMMA RoundsStay ==
  ASSUME NEW G, Graph(G), NEW C, Closed(G, C), C \subseteq Ids(G),
         NEW n \in 0..Cardinality(Ids(G)), NEW i \in Ids(G), Depends(G)[i] \subseteq C
  PROVE  Rounds(G)[n][i] \subseteq C
<1> DEFINE N == Cardinality(Ids(G))
           Stays(m) == \A j \in Ids(G) : Depends(G)[j] \subseteq C => Rounds(G)[m][j] \subseteq C
           Bad == {m \in 0..N : ~Stays(m)}
<1>1. N \in Nat
  BY GraphIds
<1>2. ASSUME Bad # {} PROVE FALSE
  <2>1. PICK m \in Bad : \A l \in Bad : m <= l
    <3>1. Bad \subseteq Nat
      BY <1>1
    <3>2. QED
      BY <1>2, <3>1, NatLeast
  <2>2. Stays(0)
    BY RoundsAre
  <2>3. m - 1 \in 0..N /\ m - 1 \notin Bad /\ m \in 1..N
    BY <1>1, <2>1, <2>2
  <2>4. Stays(m - 1)
    BY <2>3
  <2>5. ASSUME NEW j \in Ids(G), Depends(G)[j] \subseteq C, NEW x \in Rounds(G)[m][j]
        PROVE  x \in C
    <3>1. PICK a : a = Rounds(G)[m - 1]
      OBVIOUS
    <3>2. a \in [Ids(G) -> SUBSET Ids(G)] /\ Rounds(G)[m] = Further(a)
      BY <2>3, <3>1, RoundsAre
    <3>3. a[j] \subseteq C
      BY <2>4, <2>5, <3>1
    <3>4. \A d \in a[j] : d \in Ids(G) /\ Depends(G)[d] \subseteq C
      BY <3>3 DEF Closed
    <3>5. \A d \in a[j] : a[d] \subseteq C
      BY <2>4, <3>1, <3>4
    <3>6. x \in a[j] \/ \E d \in a[j] : x \in a[d]
      BY <2>5, <3>2, FurtherKeeps
    <3>7. QED
      BY <3>3, <3>5, <3>6
  <2>6. QED
    BY <2>1, <2>5
<1>3. Stays(n)
  BY <1>2
<1>4. QED
  BY <1>3

LEMMA RoundsClosed ==
  ASSUME NEW G, Graph(G), NEW i \in Ids(G)
  PROVE  Closed(G, Ancestors(G)[i])
<1> DEFINE N == Cardinality(Ids(G))
           R(n) == Rounds(G)[n][i]
<1>1. N \in Nat /\ IsFiniteSet(Ids(G)) /\ Depends(G) \in [Ids(G) -> SUBSET Ids(G)]
  BY GraphIds
<1>2. SUFFICES ASSUME ~Closed(G, R(N)) PROVE FALSE
  BY DEF Ancestors
<1>3. \A n \in 0..N : R(n) \subseteq Ids(G) /\ IsFiniteSet(R(n)) /\ Cardinality(R(n)) \in Nat
                      /\ Depends(G)[i] \subseteq R(n)
  <2> TAKE n \in 0..N
  <2>1. R(n) \subseteq Ids(G)
    BY RoundsAre
  <2>2. Depends(G)[i] \subseteq R(n)
    <3>1. Rounds(G)[0][i] \subseteq Rounds(G)[n][i]
      BY <1>1, RoundsGrow
    <3>2. QED
      BY <3>1, RoundsAre
  <2>3. QED
    BY <1>1, <2>1, <2>2, FS_Subset, FS_CardinalityType
<1>4. ASSUME NEW n \in 0..N PROVE ~Closed(G, R(n))
  <2> SUFFICES ASSUME Closed(G, R(n)) PROVE FALSE
    OBVIOUS
  <2>1. PICK C : C = R(n)
    OBVIOUS
  <2>2. Closed(G, C) /\ C \subseteq Ids(G) /\ Depends(G)[i] \subseteq C /\ N \in 0..N
    BY <1>1, <1>3, <2>1
  <2>3. R(N) \subseteq C
    BY <2>2, RoundsStay
  <2>4. R(n) \subseteq R(N)
    BY <2>2, RoundsGrow
  <2>5. R(N) = C
    BY <2>1, <2>3, <2>4
  <2>6. Closed(G, R(N))
    BY <2>2, <2>5
  <2>7. QED
    BY <1>2, <2>6
<1>5. ASSUME NEW n \in 1..N PROVE Cardinality(R(n - 1)) + 1 <= Cardinality(R(n))
  <2>1. n - 1 \in 0..N /\ n \in 0..N
    BY <1>1
  <2>2. PICK d \in R(n - 1) : ~(Depends(G)[d] \subseteq R(n - 1))
    BY <1>4, <2>1 DEF Closed
  <2>3. PICK x \in Depends(G)[d] : x \notin R(n - 1)
    BY <2>2
  <2>4. d \in Ids(G)
    BY <1>3, <2>1, <2>2
  <2>5. x \in R(n)
    <3>1. Depends(G)[d] \subseteq Rounds(G)[n - 1][d]
      <4>1. 0 \in 0..(n - 1)
        BY <2>1
      <4>2. Rounds(G)[0][d] \subseteq Rounds(G)[n - 1][d]
        BY <2>1, <2>4, <4>1, RoundsGrow
      <4>3. QED
        BY <4>2, RoundsAre
    <3>2. Rounds(G)[n - 1][d] \subseteq R(n)
      BY <2>1, <2>2, RoundsAre, FurtherKeeps
    <3>3. QED
      BY <2>3, <3>1, <3>2
  <2>6. R(n - 1) \subseteq R(n)
    BY <2>1, RoundsGrow
  <2>7. /\ IsFiniteSet(R(n - 1) \cup {x}) /\ R(n - 1) \cup {x} \subseteq R(n)
        /\ Cardinality(R(n - 1) \cup {x}) = Cardinality(R(n - 1)) + 1
    <3>1. PICK C : C = R(n - 1)
      OBVIOUS
    <3>2. IsFiniteSet(C) /\ x \notin C
      BY <1>3, <2>1, <2>3, <3>1
    <3>3. IsFiniteSet(C \cup {x}) /\ Cardinality(C \cup {x}) = Cardinality(C) + 1
      BY <3>2, FS_AddElement
    <3>4. QED
      BY <2>5, <2>6, <3>1, <3>3
  <2>8. Cardinality(R(n - 1) \cup {x}) <= Cardinality(R(n))
    BY <1>3, <2>1, <2>7, FS_Subset
  <2>9. QED
    BY <2>7, <2>8
<1>6. \A n \in 0..N : n <= Cardinality(R(n))
  <2> DEFINE Bad == {n \in 0..N : ~(n <= Cardinality(R(n)))}
  <2>1. ASSUME Bad # {} PROVE FALSE
    <3>1. PICK n \in Bad : \A m \in Bad : n <= m
      <4>1. Bad \subseteq Nat
        BY <1>1
      <4>2. QED
        BY <2>1, <4>1, NatLeast
    <3>2. n # 0
      BY <1>1, <1>3, <3>1
    <3>3. n - 1 \in 0..N /\ n - 1 \notin Bad /\ n \in 1..N /\ n \in 0..N
      BY <1>1, <3>1, <3>2
    <3>4. n - 1 <= Cardinality(R(n - 1)) /\ Cardinality(R(n - 1)) + 1 <= Cardinality(R(n))
      BY <1>5, <3>3
    <3>5. Cardinality(R(n - 1)) \in Nat /\ Cardinality(R(n)) \in Nat
      BY <1>3, <3>3
    <3>6. n <= Cardinality(R(n))
      BY <3>3, <3>4, <3>5
    <3>7. QED
      BY <3>1, <3>6
  <2>2. QED
    BY <2>1
<1>7. R(N) = Ids(G)
  <2>1. N \in 0..N /\ N <= Cardinality(R(N)) /\ R(N) \subseteq Ids(G) /\ Cardinality(R(N)) \in Nat
    BY <1>1, <1>3, <1>6
  <2>2. Cardinality(R(N)) <= N
    BY <1>1, <2>1, FS_Subset
  <2>3. Cardinality(R(N)) = N
    BY <1>1, <2>1, <2>2
  <2>4. QED
    BY <1>1, <2>1, <2>3, FS_Subset
<1>8. QED
  BY <1>1, <1>2, <1>7 DEF Closed

\* What Ancestors is.
LEMMA AncestorsAre ==
  ASSUME NEW G, Graph(G), NEW i \in Ids(G)
  PROVE  /\ Ancestors(G)[i] \subseteq Ids(G)
         /\ Depends(G)[i] \subseteq Ancestors(G)[i]
         /\ Closed(G, Ancestors(G)[i])
         /\ \A C \in SUBSET Ids(G) :
              Closed(G, C) /\ Depends(G)[i] \subseteq C => Ancestors(G)[i] \subseteq C
         /\ \A d \in Ancestors(G)[i] : Ancestors(G)[d] \subseteq Ancestors(G)[i]
<1> DEFINE N == Cardinality(Ids(G))
<1>1. N \in Nat /\ N \in 0..N /\ 0 \in 0..N
  BY GraphIds
<1>2. \A j \in Ids(G) : Ancestors(G)[j] \subseteq Ids(G)
  BY <1>1, RoundsAre DEF Ancestors
<1>3. \A j \in Ids(G) : \A C \in SUBSET Ids(G) :
        Closed(G, C) /\ Depends(G)[j] \subseteq C => Ancestors(G)[j] \subseteq C
  BY <1>1, RoundsStay DEF Ancestors
<1>4. Depends(G)[i] \subseteq Ancestors(G)[i]
  <2>1. Rounds(G)[0][i] \subseteq Rounds(G)[N][i]
    BY <1>1, RoundsGrow
  <2>2. QED
    BY <2>1, RoundsAre DEF Ancestors
<1>5. Closed(G, Ancestors(G)[i])
  BY RoundsClosed
<1>6. ASSUME NEW d \in Ancestors(G)[i] PROVE Ancestors(G)[d] \subseteq Ancestors(G)[i]
  <2>1. d \in Ids(G) /\ Depends(G)[d] \subseteq Ancestors(G)[i]
    BY <1>2, <1>5 DEF Closed
  <2>2. QED
    BY <1>2, <1>3, <1>5, <2>1
<1>7. QED
  BY <1>2, <1>3, <1>4, <1>5, <1>6

-------------------------------------------------------------------------------
(* Finish: the longest way to a task through its dependencies.                  *)

Dag(G) ==
  /\ Graph(G)
  /\ \A i \in Ids(G) : i \notin Ancestors(G)[i]
  /\ \A t \in G : t.duration \in Nat \ {0}

Duration(G, i) == TaskOf(G, i).duration
Depth(G, i) == Cardinality(Ancestors(G)[i])

LEMMA DepthGrows ==
  ASSUME NEW G, Dag(G), NEW i \in Ids(G)
  PROVE  /\ Depth(G, i) \in Nat /\ Duration(G, i) \in Nat \ {0}
         /\ \A d \in Ancestors(G)[i] : d \in Ids(G) /\ Depth(G, d) \in Nat
                                       /\ Depth(G, d) < Depth(G, i)
<1>1. Graph(G) /\ IsFiniteSet(Ids(G)) /\ Duration(G, i) \in Nat \ {0}
  BY GraphIds DEF Dag, Duration
<1>2. \A j \in Ids(G) : IsFiniteSet(Ancestors(G)[j]) /\ Depth(G, j) \in Nat
  BY <1>1, AncestorsAre, FS_Subset, FS_CardinalityType DEF Depth
<1>3. ASSUME NEW d \in Ancestors(G)[i]
      PROVE  d \in Ids(G) /\ Depth(G, d) < Depth(G, i)
  <2>1. d \in Ids(G) /\ Ancestors(G)[d] \subseteq Ancestors(G)[i]
    BY <1>1, AncestorsAre
  <2>2. d \notin Ancestors(G)[d]
    BY <2>1 DEF Dag
  <2>3. Depth(G, d) <= Depth(G, i) /\ Depth(G, d) # Depth(G, i)
    BY <1>2, <2>1, <2>2, FS_Subset DEF Depth
  <2>4. QED
    BY <1>2, <2>1, <2>3
<1>4. QED
  BY <1>1, <1>2, <1>3

\* Of the tasks with some property, one has no ancestor with it, and one is an
\* ancestor of none with it.
LEMMA Earliest ==
  ASSUME NEW G, Dag(G), NEW S, S \subseteq Ids(G), S # {}
  PROVE  \E i \in S : \A d \in Ancestors(G)[i] : d \notin S
<1> DEFINE Depths == {Depth(G, i) : i \in S}
<1>1. Depths # {} /\ Depths \subseteq Nat
  BY DepthGrows
<1>2. PICK n \in Depths : \A m \in Depths : n <= m
  BY <1>1, NatLeast
<1>3. PICK i \in S : Depth(G, i) = n
  BY <1>2
<1>4. ASSUME NEW d \in Ancestors(G)[i], d \in S PROVE FALSE
  <2>1. Depth(G, d) < Depth(G, i) /\ Depth(G, d) \in Nat /\ Depth(G, i) \in Nat
    BY DepthGrows
  <2>2. Depth(G, d) \in Depths
    BY <1>4
  <2>3. n <= Depth(G, d)
    BY <1>2, <2>2
  <2>4. QED
    BY <1>3, <2>1, <2>3
<1>5. QED
  BY <1>4

LEMMA Latest ==
  ASSUME NEW G, Dag(G), NEW S, S \subseteq Ids(G), S # {}
  PROVE  \E i \in S : \A j \in S : i \notin Ancestors(G)[j]
<1> DEFINE f == [i \in S |-> Depth(G, i)]
<1>1. IsFiniteSet(S)
  BY GraphIds, FS_Subset DEF Dag
<1>2. IsFiniteSet(Range(f)) /\ Range(f) \subseteq Nat /\ Range(f) # {}
  <2>1. IsFiniteSet(Range(f))
    BY <1>1, FiniteRange
  <2>2. \A i \in S : f[i] \in Nat
    BY DepthGrows
  <2>3. QED
    BY <2>1, <2>2 DEF Range
<1>3. Max(Range(f)) \in Range(f) /\ \A n \in Range(f) : n <= Max(Range(f))
  BY <1>2, NatMax
<1>4. PICK i \in S : f[i] = Max(Range(f))
  BY <1>3 DEF Range
<1>5. \A j \in S : Depth(G, j) <= Depth(G, i)
  BY <1>3, <1>4 DEF Range
<1>6. ASSUME NEW j \in S, i \in Ancestors(G)[j] PROVE FALSE
  <2>1. Depth(G, i) < Depth(G, j) /\ Depth(G, i) \in Nat /\ Depth(G, j) \in Nat
    BY <1>6, DepthGrows
  <2>2. QED
    BY <1>5, <2>1
<1>7. QED
  BY <1>6

IsFinish(f, G, L) ==
  f = [i \in L |-> TaskOf(G, i).duration + Largest({f[d] : d \in TaskOf(G, i).deps})]
Below(G, k) == {i \in Ids(G) : Depth(G, i) < k}

LEMMA FinishExists ==
  ASSUME NEW G, Dag(G)
  PROVE  \E f : IsFinish(f, G, Ids(G))
<1> DEFINE Bad == {k \in Nat : ~\E f : IsFinish(f, G, Below(G, k))}
<1>1. Graph(G)
  BY DEF Dag
<1>2. ASSUME Bad # {} PROVE FALSE
  <2>1. PICK k \in Bad : \A m \in Bad : k <= m
    BY <1>2, NatLeast
  <2>2. CASE k = 0
    <3>1. Below(G, 0) = {}
      BY DepthGrows DEF Below
    <3> DEFINE f == [i \in {} |-> 0]
    <3>2. IsFinish(f, G, {})
      BY DEF IsFinish
    <3>3. QED
      BY <2>1, <2>2, <3>1, <3>2
  <2>3. CASE k # 0
    <3>1. k \in Nat /\ k - 1 \in Nat /\ k - 1 \notin Bad
      BY <2>1, <2>3
    <3>2. PICK f : IsFinish(f, G, Below(G, k - 1))
      BY <3>1
    <3> DEFINE Value(i) == TaskOf(G, i).duration + Largest({f[d] : d \in TaskOf(G, i).deps})
               g == [i \in Below(G, k) |-> Value(i)]
    <3>3. ASSUME NEW i \in Below(G, k), NEW d \in TaskOf(G, i).deps PROVE g[d] = f[d]
      <4>1. i \in Ids(G) /\ Depth(G, i) < k /\ d \in Ancestors(G)[i]
        BY <1>1, AncestorsAre, GraphIds DEF Below
      <4>2. d \in Ids(G) /\ Depth(G, d) \in Nat /\ Depth(G, d) < Depth(G, i) /\ Depth(G, i) \in Nat
        BY <4>1, DepthGrows
      <4>3. d \in Below(G, k) /\ d \in Below(G, k - 1)
        BY <3>1, <4>1, <4>2 DEF Below
      <4>4. f[d] = Value(d)
        BY <3>2, <4>3 DEF IsFinish
      <4>5. QED
        BY <4>3, <4>4
    <3>4. ASSUME NEW i \in Below(G, k)
          PROVE  {f[d] : d \in TaskOf(G, i).deps} = {g[d] : d \in TaskOf(G, i).deps}
      <4> HIDE DEF g
      <4>1. QED
        BY <3>3
    <3>5. \A i \in Below(G, k) :
            g[i] = TaskOf(G, i).duration + Largest({g[d] : d \in TaskOf(G, i).deps})
      BY <3>4
    <3>6. IsFinish(g, G, Below(G, k))
      <4>1. g = [i \in Below(G, k) |-> g[i]]
        OBVIOUS
      <4> HIDE DEF g
      <4>2. QED
        BY <3>5, <4>1 DEF IsFinish
    <3>7. QED
      BY <2>1, <3>6
  <2>4. QED
    BY <2>2, <2>3
<1>3. PICK k \in Nat : Below(G, k) = Ids(G)
  <2> DEFINE k == Cardinality(Ids(G)) + 1
  <2>1. IsFiniteSet(Ids(G)) /\ Cardinality(Ids(G)) \in Nat
    BY <1>1, GraphIds
  <2>2. ASSUME NEW i \in Ids(G) PROVE Depth(G, i) < k
    <3>1. Depth(G, i) <= Cardinality(Ids(G)) /\ Depth(G, i) \in Nat
      BY <1>1, <2>1, AncestorsAre, FS_Subset, DepthGrows DEF Depth
    <3>2. QED
      BY <2>1, <3>1
  <2>3. Below(G, k) = Ids(G) /\ k \in Nat
    BY <2>1, <2>2 DEF Below
  <2>4. QED
    BY <2>3
<1>4. k \notin Bad
  BY <1>2
<1>5. QED
  BY <1>3, <1>4

LEMMA FinishIs ==
  ASSUME NEW G, Dag(G)
  PROVE  /\ Finish(G) = [i \in Ids(G) |-> Finish(G)[i]]
         /\ \A i \in Ids(G) :
              Finish(G)[i] = Duration(G, i) + Largest({Finish(G)[d] : d \in Depends(G)[i]})
<1>1. Finish(G) = CHOOSE f : IsFinish(f, G, Ids(G))
  BY Zenon DEF Finish, IsFinish
<1>2. IsFinish(Finish(G), G, Ids(G))
  BY <1>1, FinishExists
<1>3. PICK f : f = Finish(G)
  OBVIOUS
<1>4. f = [i \in Ids(G) |-> TaskOf(G, i).duration + Largest({f[d] : d \in TaskOf(G, i).deps})]
  BY <1>2, <1>3 DEF IsFinish
<1>5. f = [i \in Ids(G) |-> f[i]]
  BY <1>4
<1>6. ASSUME NEW i \in Ids(G)
      PROVE  f[i] = Duration(G, i) + Largest({f[d] : d \in Depends(G)[i]})
  <2>1. Depends(G)[i] = TaskOf(G, i).deps
    BY GraphIds DEF Dag
  <2>2. f[i] = TaskOf(G, i).duration + Largest({f[d] : d \in TaskOf(G, i).deps})
    BY <1>4
  <2>3. QED
    BY <2>1, <2>2 DEF Duration
<1>7. QED
  BY <1>3, <1>5, <1>6

\* The largest of finitely many naturals given by a function.
At(f, S) == {f[x] : x \in S}

LEMMA LargestAt ==
  ASSUME NEW S, IsFiniteSet(S), NEW f, \A x \in S : f[x] \in Nat
  PROVE  /\ Largest(At(f, S)) \in Nat
         /\ \A x \in S : f[x] <= Largest(At(f, S))
         /\ S # {} => \E x \in S : f[x] = Largest(At(f, S))
         /\ S = {} => Largest(At(f, S)) = 0
<1>1. PICK g : g = [x \in S |-> f[x]]
  OBVIOUS
<1>2. g = [x \in S |-> g[x]] /\ \A x \in S : g[x] = f[x]
  BY <1>1
<1>3. IsFiniteSet(Range(g))
  BY <1>2, FiniteRange
<1>4. Range(g) = At(f, S)
  BY <1>1 DEF Range, At
<1>5. PICK T : T = At(f, S)
  OBVIOUS
<1>6. IsFiniteSet(T) /\ T \subseteq Nat /\ (\A x \in S : f[x] \in T)
      /\ (\A y \in T : \E x \in S : f[x] = y)
  BY <1>3, <1>4, <1>5 DEF At
<1>7. /\ Largest(T) \in Nat /\ \A y \in T : y <= Largest(T)
      /\ T # {} => Largest(T) \in T
      /\ T = {} => Largest(T) = 0
  BY <1>6, LargestIs
<1>8. QED
  BY <1>5, <1>6, <1>7

\* What Finish is.
LEMMA FinishAre ==
  ASSUME NEW G, Dag(G), NEW i \in Ids(G)
  PROVE  /\ Finish(G)[i] \in Nat
         /\ \A d \in Depends(G)[i] :
              d \in Ids(G) /\ Finish(G)[d] + Duration(G, i) <= Finish(G)[i]
         /\ Depends(G)[i] # {} =>
              \E d \in Depends(G)[i] : Finish(G)[i] = Finish(G)[d] + Duration(G, i)
         /\ Depends(G)[i] = {} => Finish(G)[i] = Duration(G, i)
<1>1. Graph(G) /\ IsFiniteSet(Ids(G)) /\ Depends(G) \in [Ids(G) -> SUBSET Ids(G)]
  BY GraphIds DEF Dag
<1>2. \A j \in Ids(G) : IsFiniteSet(Depends(G)[j]) /\ Duration(G, j) \in Nat \ {0}
  BY <1>1, FS_Subset, DepthGrows
<1>3. PICK f : f = Finish(G)
  OBVIOUS
<1>4. \A j \in Ids(G) : f[j] = Duration(G, j) + Largest(At(f, Depends(G)[j]))
  BY <1>3, FinishIs DEF At
<1>5. ASSUME NEW Bad, Bad = {j \in Ids(G) : f[j] \notin Nat}, Bad # {} PROVE FALSE
  <2>1. PICK j \in Bad : \A d \in Ancestors(G)[j] : d \notin Bad
    BY <1>5, Earliest
  <2>2. \A d \in Depends(G)[j] : f[d] \in Nat
    BY <1>1, <1>5, <2>1, AncestorsAre
  <2>3. Largest(At(f, Depends(G)[j])) \in Nat
    BY <1>2, <1>5, <2>1, <2>2, LargestAt
  <2>4. QED
    BY <1>2, <1>4, <1>5, <2>1, <2>3
<1>6. {j \in Ids(G) : f[j] \notin Nat} = {}
  BY <1>5
<1>7. \A j \in Ids(G) : f[j] \in Nat
  BY <1>6
<1>8. /\ \A d \in Depends(G)[i] : d \in Ids(G) /\ f[d] \in Nat
      /\ IsFiniteSet(Depends(G)[i])
  BY <1>1, <1>2, <1>7
<1>9. PICK most : most = Largest(At(f, Depends(G)[i]))
  OBVIOUS
<1>10. /\ most \in Nat /\ \A d \in Depends(G)[i] : f[d] <= most
       /\ Depends(G)[i] # {} => \E d \in Depends(G)[i] : f[d] = most
       /\ Depends(G)[i] = {} => most = 0
  <2>1. PICK S : S = Depends(G)[i]
    OBVIOUS
  <2>2. IsFiniteSet(S) /\ \A d \in S : f[d] \in Nat
    BY <1>8, <2>1
  <2>3. /\ Largest(At(f, S)) \in Nat /\ \A d \in S : f[d] <= Largest(At(f, S))
        /\ S # {} => \E d \in S : f[d] = Largest(At(f, S))
        /\ S = {} => Largest(At(f, S)) = 0
    BY ONLY <2>2, LargestAt
  <2>4. QED
    BY <1>9, <2>1, <2>3
<1>11. f[i] = Duration(G, i) + most /\ f[i] \in Nat /\ Duration(G, i) \in Nat
  BY <1>2, <1>4, <1>7, <1>9
<1>12. \A d \in Depends(G)[i] : f[d] + Duration(G, i) <= f[i]
  BY <1>8, <1>10, <1>11
<1>13. Depends(G)[i] # {} => \E d \in Depends(G)[i] : f[i] = f[d] + Duration(G, i)
  BY <1>8, <1>10, <1>11
<1>14. Depends(G)[i] = {} => f[i] = Duration(G, i)
  BY <1>10, <1>11
<1>15. QED
  BY <1>3, <1>8, <1>11, <1>12, <1>13, <1>14

\* A task finishes after each of its ancestors, by its own duration at least.
LEMMA FinishAfter ==
  ASSUME NEW G, Dag(G), NEW i \in Ids(G), NEW v \in Ancestors(G)[i]
  PROVE  Finish(G)[v] + Duration(G, i) <= Finish(G)[i]
<1> DEFINE C == {w \in Ids(G) : Finish(G)[w] + Duration(G, i) <= Finish(G)[i]}
<1>1. Graph(G)
  BY DEF Dag
<1>2. Depends(G)[i] \subseteq C
  BY FinishAre
<1>3. ASSUME NEW w \in C, NEW d \in Depends(G)[w] PROVE d \in C
  <2>1. /\ d \in Ids(G) /\ Finish(G)[d] + Duration(G, w) <= Finish(G)[w]
        /\ Finish(G)[w] \in Nat /\ Duration(G, w) \in Nat
        /\ Finish(G)[i] \in Nat /\ Duration(G, i) \in Nat
    BY FinishAre, DepthGrows
  <2>2. Finish(G)[d] \in Nat
    BY <2>1, FinishAre
  <2>3. Finish(G)[d] + Duration(G, i) <= Finish(G)[i]
    BY <2>1, <2>2
  <2>4. QED
    BY <2>1, <2>3
<1>4. Closed(G, C)
  BY <1>3 DEF Closed
<1>5. Ancestors(G)[i] \subseteq C
  <2>1. C \in SUBSET Ids(G)
    OBVIOUS
  <2> HIDE DEF C
  <2>2. QED
    BY <1>1, <1>2, <1>4, <2>1, AncestorsAre
<1>6. QED
  BY <1>5

-------------------------------------------------------------------------------
(* The span is the work of the longest chain.                                   *)

LEMMA SpanIs ==
  ASSUME NEW G, Dag(G)
  PROVE  /\ Span(G) \in Nat /\ \A i \in Ids(G) : Finish(G)[i] <= Span(G)
         /\ G # {} => \E i \in Ids(G) : Finish(G)[i] = Span(G)
<1>1. PICK S : S = Ids(G)
  OBVIOUS
<1>2. PICK f : f = Finish(G)
  OBVIOUS
<1>3. IsFiniteSet(S) /\ \A i \in S : f[i] \in Nat
  BY <1>1, <1>2, GraphIds, FinishAre DEF Dag
<1>4. /\ Largest(At(f, S)) \in Nat /\ \A i \in S : f[i] <= Largest(At(f, S))
      /\ S # {} => \E i \in S : f[i] = Largest(At(f, S))
  BY ONLY <1>3, LargestAt
<1>5. Span(G) = Largest(At(f, S))
  BY <1>1, <1>2 DEF Span, At
<1>6. G # {} => S # {}
  BY <1>1 DEF Ids
<1>7. QED
  BY <1>1, <1>2, <1>4, <1>5, <1>6

LEMMA DurationsOf ==
  ASSUME NEW G, Dag(G), NEW c \in SUBSET G
  PROVE  /\ IsFiniteSet(c) /\ Durations(c) /\ Work(c) \in Nat
         /\ \A t \in c : t.duration = Duration(G, t.id) /\ t.duration \in Nat
                         /\ t.id \in Ids(G)
                         /\ Work(c) = t.duration + Work(c \ {t}) /\ Work(c \ {t}) \in Nat
         /\ Work({}) = 0
<1>1. IsFiniteSet(c) /\ Durations(c)
  BY FS_Subset DEF Dag, Graph, Durations
<1>2. ASSUME NEW t \in c
      PROVE  t.duration = Duration(G, t.id) /\ t.duration \in Nat /\ t.id \in Ids(G)
             /\ Work(c) = t.duration + Work(c \ {t}) /\ Work(c \ {t}) \in Nat
  <2>1. t.duration = Duration(G, t.id) /\ t.duration \in Nat /\ t.id \in Ids(G)
    BY GraphIds DEF Duration, Dag
  <2>2. IsFiniteSet(c \ {t}) /\ Durations(c \ {t})
    BY <1>1, FS_Subset DEF Durations
  <2>3. QED
    BY <1>1, <2>1, <2>2, WorkWithout, WorkTyped
<1>3. Work({}) = 0
  BY FS_EmptySet, WorkEquation
<1>4. QED
  BY <1>1, <1>2, <1>3, WorkTyped

\* A chain has a last task, and has no more work than until it finishes.
EndsIn(G, c, u) ==
  /\ u \in c /\ Work(c) <= Finish(G)[u.id]
  /\ \A v \in c : v # u => v.id \in Ancestors(G)[u.id]

LEMMA ChainEnds ==
  ASSUME NEW G, Dag(G), NEW c \in Chains(G), c # {}
  PROVE  \E u \in c : EndsIn(G, c, u)
<1> DEFINE Ends(d) == \E u \in d : EndsIn(G, d, u)
<1>1. ASSUME NEW Bad, Bad = {d \in SUBSET G : d \in Chains(G) /\ d # {} /\ ~Ends(d)}, Bad # {}
      PROVE  FALSE
  <2>1. Bad \subseteq SUBSET G /\ Bad # {} /\ IsFiniteSet(G)
    BY <1>1 DEF Dag, Graph
  <2>2. PICK d \in Bad : \A e \in Bad : e \subseteq d => e = d
    BY ONLY <2>1, MinimalSubset
  <2>3. d \in SUBSET G /\ d \in Chains(G) /\ d # {} /\ ~Ends(d)
    BY <1>1
  <2>4. PICK u \in d : \A v \in d : u.id \notin Ancestors(G)[v.id]
    <3> DEFINE S == {t.id : t \in d}
    <3>1. S \subseteq Ids(G) /\ S # {}
      BY <2>3 DEF Ids
    <3> HIDE DEF S
    <3>2. PICK i \in S : \A j \in S : i \notin Ancestors(G)[j]
      BY <3>1, Latest
    <3> USE DEF S
    <3>3. QED
      BY <3>2
  <2>5. \A v \in d : v # u => v.id \in Ancestors(G)[u.id]
    BY <2>3, <2>4 DEF Chains
  <2>6. Work(d) = u.duration + Work(d \ {u}) /\ u.duration = Duration(G, u.id)
        /\ u.duration \in Nat /\ u.id \in Ids(G) /\ Work(d \ {u}) \in Nat
    BY <2>3, DurationsOf
  <2>7. Finish(G)[u.id] \in Nat /\ Duration(G, u.id) <= Finish(G)[u.id]
    <3>1. CASE Depends(G)[u.id] = {}
      BY <2>6, <3>1, FinishAre
    <3>2. CASE Depends(G)[u.id] # {}
      <4>1. PICK w \in Depends(G)[u.id] : Finish(G)[u.id] = Finish(G)[w] + Duration(G, u.id)
        BY <2>6, <3>2, FinishAre
      <4>2. Finish(G)[w] \in Nat
        BY <2>6, FinishAre
      <4>3. QED
        BY <2>6, <4>1, <4>2
    <3>3. QED
      BY <3>1, <3>2
  <2>8. Work(d) <= Finish(G)[u.id]
    <3>1. CASE d \ {u} = {}
      BY <2>6, <2>7, <3>1, DurationsOf
    <3>2. CASE d \ {u} # {}
      <4>1. d \ {u} \in SUBSET G /\ d \ {u} \in Chains(G) /\ d \ {u} \subseteq d /\ d \ {u} # d
        BY <2>3 DEF Chains
      <4>2. d \ {u} \notin Bad
        BY <2>2, <4>1
      <4>3. PICK w \in d \ {u} : EndsIn(G, d \ {u}, w)
        BY <1>1, <3>2, <4>1, <4>2
      <4>4. Work(d \ {u}) <= Finish(G)[w.id] /\ w.id \in Ancestors(G)[u.id] /\ w.id \in Ids(G)
        BY <2>3, <2>5, <4>3, DurationsOf DEF EndsIn
      <4>5. Finish(G)[w.id] + Duration(G, u.id) <= Finish(G)[u.id] /\ Finish(G)[w.id] \in Nat
        BY <2>6, <4>4, FinishAfter, FinishAre
      <4>6. QED
        BY <2>6, <2>7, <4>4, <4>5
    <3>3. QED
      BY <3>1, <3>2
  <2>9. EndsIn(G, d, u)
    BY <2>5, <2>8 DEF EndsIn
  <2>10. QED
    BY <2>3, <2>9
<1>2. {d \in SUBSET G : d \in Chains(G) /\ d # {} /\ ~Ends(d)} = {}
  BY <1>1
<1>3. c \in SUBSET G
  BY DEF Chains
<1>4. Ends(c)
  BY <1>2, <1>3
<1>5. QED
  BY <1>4

LEMMA ChainWithinSpan ==
  ASSUME NEW G, Dag(G), NEW c \in Chains(G)
  PROVE  Work(c) \in Nat /\ Work(c) <= Span(G)
<1>1. c \in SUBSET G /\ Work(c) \in Nat /\ Span(G) \in Nat
  BY DurationsOf, SpanIs DEF Chains
<1>2. CASE c = {}
  BY <1>1, <1>2, DurationsOf
<1>3. CASE c # {}
  <2>1. PICK u \in c : Work(c) <= Finish(G)[u.id]
    BY <1>3, ChainEnds DEF EndsIn
  <2>2. u.id \in Ids(G)
    BY <1>1 DEF Ids
  <2>3. Finish(G)[u.id] \in Nat /\ Finish(G)[u.id] <= Span(G)
    BY <2>2, FinishAre, SpanIs
  <2>4. QED
    BY <1>1, <2>1, <2>3
<1>4. QED
  BY <1>2, <1>3

-------------------------------------------------------------------------------
(* The critical path is such a chain.                                           *)

LEMMA LastOfIs ==
  ASSUME NEW G, Dag(G), NEW S, S \subseteq Ids(G), S # {}
  PROVE  LastOf(G, S) \in S /\ \A j \in S : Finish(G)[j] <= Finish(G)[LastOf(G, S)]
<1>1. PICK f : f = Finish(G)
  OBVIOUS
<1>2. IsFiniteSet(S) /\ \A i \in S : f[i] \in Nat
  <2>1. IsFiniteSet(S)
    BY GraphIds, FS_Subset DEF Dag
  <2>2. QED
    BY <1>1, <2>1, FinishAre
<1>3. /\ Largest(At(f, S)) \in Nat /\ \A i \in S : f[i] <= Largest(At(f, S))
      /\ S # {} => \E i \in S : f[i] = Largest(At(f, S))
  BY ONLY <1>2, LargestAt
<1>4. \E i \in S : \A j \in S : f[j] <= f[i]
  BY <1>3
<1>5. QED
  BY <1>1, <1>4 DEF LastOf

Before(G, i) == IF TaskOf(G, i).deps = {} THEN i ELSE LastOf(G, TaskOf(G, i).deps)
IsCursor(f, G, k) ==
  f = [n \in 1..k |-> IF n = 1 THEN LastOf(G, Ids(G)) ELSE Before(G, f[n - 1])]

LEMMA CursorExists ==
  ASSUME NEW G, NEW k \in Nat
  PROVE  \E f : IsCursor(f, G, k)
<1> DEFINE Bad == {n \in Nat : ~\E f : IsCursor(f, G, n)}
<1>1. Bad = {}
  <2> SUFFICES ASSUME Bad # {} PROVE FALSE
    OBVIOUS
  <2>1. PICK n \in Bad : \A m \in Bad : n <= m
    BY NatLeast
  <2>2. CASE n = 0
    <3> DEFINE f == [m \in 1..0 |-> m]
    <3>1. IsCursor(f, G, 0)
      BY DEF IsCursor
    <3>2. QED
      BY <2>1, <2>2, <3>1
  <2>3. CASE n # 0
    <3>1. n \in Nat /\ n - 1 \in Nat /\ n - 1 \notin Bad
      BY <2>1, <2>3
    <3>2. PICK f : IsCursor(f, G, n - 1)
      BY <3>1
    <3> DEFINE g == [m \in 1..n |-> IF m = 1 THEN LastOf(G, Ids(G)) ELSE Before(G, f[m - 1])]
    <3>3. \A m \in 1..(n - 1) : g[m] = f[m]
      BY <3>1, <3>2 DEF IsCursor
    <3> HIDE DEF g
    <3>4. \A m \in 1..n : m # 1 => f[m - 1] = g[m - 1]
      <4>1. \A m \in 1..n : m # 1 => m - 1 \in 1..(n - 1)
        BY <3>1
      <4>2. QED
        BY <3>3, <4>1
    <3> USE DEF g
    <3>5. IsCursor(g, G, n)
      BY <3>4 DEF IsCursor
    <3>6. QED
      BY <2>1, <3>5
  <2>4. QED
    BY <2>2, <2>3
<1>2. QED
  BY <1>1

\* Each step of the cursor goes to a dependency, without a gap, or stays.
Goes(G, i, j) ==
  \/ Depends(G)[i] = {} /\ j = i
  \/ j \in Depends(G)[i] /\ Finish(G)[i] = Finish(G)[j] + Duration(G, i)

LEMMA BackwardsIs ==
  ASSUME NEW G, Dag(G), G # {}
  PROVE  /\ \A n \in 1..Cardinality(G) : Backwards(G)[n] \in Ids(G)
         /\ \A n \in 1..(Cardinality(G) - 1) : Goes(G, Backwards(G)[n], Backwards(G)[n + 1])
         /\ Finish(G)[Backwards(G)[1]] = Span(G)
         /\ Cardinality(G) \in Nat \ {0}
<1> DEFINE N == Cardinality(G)
           B == Backwards(G)
<1>1. N \in Nat \ {0} /\ Ids(G) # {} /\ Graph(G)
  BY GraphIds, FS_EmptySet DEF Dag, Graph, Ids
<1>2. Backwards(G) = CHOOSE f : IsCursor(f, G, N)
  BY Zenon DEF Backwards, IsCursor, Before
<1>3. IsCursor(B, G, N)
  BY <1>1, <1>2, CursorExists
<1> HIDE DEF B, N
<1>4. /\ B[1] = LastOf(G, Ids(G))
      /\ \A n \in 1..(N - 1) : B[n + 1] = Before(G, B[n])
  BY <1>1, <1>3 DEF IsCursor
<1>5. ASSUME NEW i \in Ids(G) PROVE Before(G, i) \in Ids(G) /\ Goes(G, i, Before(G, i))
  <2>1. Depends(G)[i] = TaskOf(G, i).deps /\ Depends(G)[i] \subseteq Ids(G)
    BY <1>1, GraphIds
  <2>2. CASE Depends(G)[i] = {}
    BY <2>1, <2>2 DEF Before, Goes
  <2>3. CASE Depends(G)[i] # {}
    <3>1. PICK S : S = Depends(G)[i]
      OBVIOUS
    <3>2. PICK j : j = LastOf(G, S)
      OBVIOUS
    <3>3. j \in S /\ \A d \in S : Finish(G)[d] <= Finish(G)[j]
      BY <2>1, <2>3, <3>1, <3>2, LastOfIs
    <3>4. PICK d \in S : Finish(G)[i] = Finish(G)[d] + Duration(G, i)
      BY <2>3, <3>1, FinishAre
    <3>5. Finish(G)[j] + Duration(G, i) <= Finish(G)[i]
      BY <3>1, <3>3, FinishAre
    <3>6. /\ Finish(G)[j] \in Nat /\ Finish(G)[d] \in Nat /\ Finish(G)[i] \in Nat
          /\ Duration(G, i) \in Nat /\ j \in Ids(G)
      BY <2>1, <3>1, <3>3, FinishAre, DepthGrows
    <3>7. Finish(G)[i] = Finish(G)[j] + Duration(G, i)
      BY <3>3, <3>4, <3>5, <3>6
    <3>8. Before(G, i) = j
      BY <2>1, <2>3, <3>1, <3>2 DEF Before
    <3>9. QED
      BY <3>1, <3>3, <3>6, <3>7, <3>8 DEF Goes
  <2>4. QED
    BY <2>2, <2>3
<1>6. B[1] \in Ids(G) /\ \A j \in Ids(G) : Finish(G)[j] <= Finish(G)[B[1]]
  BY <1>1, <1>4, LastOfIs
<1>7. \A n \in 1..N : B[n] \in Ids(G)
  <2>1. ASSUME NEW Bad, Bad = {n \in 1..N : B[n] \notin Ids(G)}, Bad # {} PROVE FALSE
    <3>1. PICK n \in Bad : \A m \in Bad : n <= m
      <4>1. Bad \subseteq Nat
        BY <1>1, <2>1
      <4>2. QED
        BY <2>1, <4>1, NatLeast
    <3>2. n \in 1..N /\ n # 1
      BY <1>6, <2>1
    <3>3. n - 1 \in 1..(N - 1) /\ n - 1 \in 1..N /\ n - 1 \notin Bad /\ (n - 1) + 1 = n
      BY <1>1, <3>1, <3>2
    <3>4. B[n - 1] \in Ids(G) /\ B[n] = Before(G, B[n - 1])
      BY <1>4, <2>1, <3>3
    <3>5. QED
      BY <1>5, <2>1, <3>4
  <2>2. {n \in 1..N : B[n] \notin Ids(G)} = {}
    BY <2>1
  <2>3. QED
    BY <2>2
<1>8. \A n \in 1..(N - 1) : Goes(G, B[n], B[n + 1])
  <2> TAKE n \in 1..(N - 1)
  <2>1. B[n] \in Ids(G) /\ B[n + 1] = Before(G, B[n])
    BY <1>1, <1>4, <1>7
  <2>2. QED
    BY <1>5, <2>1
<1>9. Finish(G)[B[1]] = Span(G)
  <2>1. PICK i \in Ids(G) : Finish(G)[i] = Span(G)
    BY SpanIs
  <2>2. Span(G) \in Nat /\ Finish(G)[B[1]] <= Span(G) /\ Finish(G)[i] <= Finish(G)[B[1]]
        /\ Finish(G)[B[1]] \in Nat
    BY <1>6, SpanIs, FinishAre
  <2>3. QED
    BY <2>1, <2>2
<1>10. QED
  BY <1>1, <1>7, <1>8, <1>9 DEF B, N

\* c is the part of the critical path from task i to the last: a chain that begins
\* with i and leaves out no time.
Ending(G, c, i) ==
  /\ c \in Chains(G) /\ i \in Ids(G) /\ TaskOf(G, i) \in c
  /\ \A t \in c : t.id = i \/ i \in Ancestors(G)[t.id]
  /\ Work(c) + Finish(G)[i] = Span(G) + Duration(G, i)

LEMMA TailGrows ==
  ASSUME NEW G, Dag(G), NEW c, NEW i, NEW j, Ending(G, c, i), Goes(G, i, j), i # j
  PROVE  Ending(G, c \cup {TaskOf(G, j)}, j) /\ j \in Ancestors(G)[i]
<1>1. /\ c \in Chains(G) /\ c \in SUBSET G /\ i \in Ids(G)
      /\ \A t \in c : t.id = i \/ i \in Ancestors(G)[t.id]
      /\ Work(c) + Finish(G)[i] = Span(G) + Duration(G, i)
  BY DEF Ending, Chains
<1>2. j \in Depends(G)[i] /\ Finish(G)[i] = Finish(G)[j] + Duration(G, i)
  BY DEF Goes
<1>3. Graph(G) /\ j \in Ids(G) /\ j \in Ancestors(G)[i]
  BY <1>1, <1>2, FinishAre, AncestorsAre DEF Dag
<1>4. PICK u : u = TaskOf(G, j)
  OBVIOUS
<1>5. u \in G /\ u.id = j
  BY <1>3, <1>4, GraphIds
<1>6. \A t \in c : t.id \in Ids(G) /\ j \in Ancestors(G)[t.id]
  <2> TAKE t \in c
  <2>1. t.id \in Ids(G)
    BY <1>1 DEF Ids
  <2>2. CASE t.id = i
    BY <1>3, <2>1, <2>2
  <2>3. CASE i \in Ancestors(G)[t.id]
    BY <1>3, <2>1, <2>3, AncestorsAre
  <2>4. QED
    BY <1>1, <2>2, <2>3, <2>1
<1>7. u \notin c
  BY <1>3, <1>5, <1>6 DEF Dag
<1>8. c \cup {u} \in Chains(G)
  BY <1>1, <1>5, <1>6 DEF Chains
<1>9. Work(c \cup {u}) = Duration(G, j) + Work(c)
  <2>1. c \cup {u} \in SUBSET G /\ (c \cup {u}) \ {u} = c /\ u \in c \cup {u}
    BY <1>1, <1>5, <1>7
  <2>2. PICK e : e = c \cup {u}
    OBVIOUS
  <2>3. Work(e) = u.duration + Work(e \ {u}) /\ u.duration = Duration(G, u.id)
    <3>1. e \in SUBSET G /\ u \in e
      BY <2>1, <2>2
    <3>2. QED
      BY <3>1, DurationsOf
  <2>4. QED
    BY <1>5, <2>1, <2>2, <2>3
<1>10. /\ Work(c) \in Nat /\ Finish(G)[i] \in Nat /\ Finish(G)[j] \in Nat /\ Span(G) \in Nat
       /\ Duration(G, i) \in Nat /\ Duration(G, j) \in Nat
  BY <1>1, <1>3, DurationsOf, FinishAre, SpanIs, DepthGrows
<1>11. Work(c \cup {u}) + Finish(G)[j] = Span(G) + Duration(G, j)
  BY <1>1, <1>2, <1>9, <1>10
<1>12. QED
  BY <1>3, <1>4, <1>5, <1>6, <1>8, <1>11 DEF Ending

LEMMA CriticalPathIs ==
  ASSUME NEW G, Dag(G), G # {}
  PROVE  LET path == {t \in G : t.id \in CriticalPath(G)}
         IN path \in Chains(G) /\ Work(path) = Span(G)
<1> DEFINE N == Cardinality(G)
           b(n) == Backwards(G)[n]
           Part(n) == {t \in G : \E m \in 1..n : t.id = b(m)}
           Left(n) == Depends(G)[b(n)] = {} \/ Depth(G, b(n)) <= N - n
           Holds(n) == Ending(G, Part(n), b(n)) /\ Left(n)
<1>1. /\ N \in Nat \ {0} /\ Graph(G) /\ \A n \in 1..N : b(n) \in Ids(G)
      /\ \A n \in 1..(N - 1) : Goes(G, b(n), b(n + 1))
      /\ Finish(G)[b(1)] = Span(G)
  BY BackwardsIs DEF Dag
<1>2. Holds(1)
  <2>1. PICK i : i = b(1)
    OBVIOUS
  <2>2. i \in Ids(G) /\ Finish(G)[i] = Span(G)
    BY <1>1, <2>1
  <2>3. PICK u : u = TaskOf(G, i)
    OBVIOUS
  <2>4. u \in G /\ u.id = i /\ \A t \in G : t.id = i => t = u
    BY <1>1, <2>2, <2>3, GraphIds DEF Graph
  <2>5. Part(1) = {u}
    <3>1. \A t \in G : (\E m \in 1..1 : t.id = b(m)) <=> t.id = i
      BY <2>1
    <3>2. QED
      BY <2>4, <3>1
  <2>6. {u} \in Chains(G) /\ {u} \in SUBSET G
    BY <2>4 DEF Chains
  <2>7. Work({u}) = Duration(G, i)
    <3>1. PICK c : c = {u}
      OBVIOUS
    <3>2. Work(c) = u.duration + Work(c \ {u}) /\ u.duration = Duration(G, u.id)
          /\ u.duration \in Nat /\ Work({}) = 0
      BY <2>6, <3>1, DurationsOf
    <3>3. c \ {u} = {}
      BY <3>1
    <3>4. QED
      BY <2>4, <3>1, <3>2, <3>3
  <2>8. Ending(G, {u}, i)
    <3>1. Work({u}) + Finish(G)[i] = Span(G) + Duration(G, i)
      BY <2>2, <2>7, SpanIs, DepthGrows
    <3>2. QED
      BY <2>2, <2>3, <2>4, <2>6, <3>1 DEF Ending
  <2>9. Depth(G, i) <= N - 1
    <3>1. /\ IsFiniteSet(Ids(G)) /\ Cardinality(Ids(G)) \in Nat /\ Cardinality(Ids(G)) <= N
          /\ Ancestors(G)[i] \subseteq Ids(G) /\ i \notin Ancestors(G)[i]
      BY <1>1, <2>2, GraphIds, AncestorsAre DEF Dag
    <3>2. Cardinality(Ancestors(G)[i]) <= Cardinality(Ids(G))
          /\ Cardinality(Ancestors(G)[i]) # Cardinality(Ids(G))
      BY <2>2, <3>1, FS_Subset
    <3>3. Cardinality(Ancestors(G)[i]) \in Nat
      BY <2>2, DepthGrows DEF Depth
    <3>4. QED
      BY <1>1, <3>1, <3>2, <3>3 DEF Depth
  <2>10. QED
    BY <2>1, <2>5, <2>8, <2>9
<1> HIDE DEF N
<1>3. ASSUME NEW n \in 1..(N - 1), Holds(n) PROVE Holds(n + 1)
  <2>1. PICK i : i = b(n)
    OBVIOUS
  <2>2. PICK j : j = b(n + 1)
    OBVIOUS
  <2>3. n \in 1..N /\ n + 1 \in 1..N /\ i \in Ids(G) /\ j \in Ids(G) /\ Goes(G, i, j)
    BY <1>1, <2>1, <2>2
  <2>4. PICK c : c = Part(n)
    OBVIOUS
  <2>5. Ending(G, c, i) /\ (Depends(G)[i] = {} \/ Depth(G, i) <= N - n)
    BY <1>3, <2>1, <2>4
  <2>6. PICK u : u = TaskOf(G, j)
    OBVIOUS
  <2>7. u \in G /\ u.id = j /\ \A t \in G : t.id = j => t = u
    BY <1>1, <2>3, <2>6, GraphIds DEF Graph
  <2>8. Part(n + 1) = c \cup {u}
    <3>1. \A t \in G : (\E m \in 1..(n + 1) : t.id = b(m)) <=>
                       (\E m \in 1..n : t.id = b(m)) \/ t.id = j
      BY <2>2, <2>3
    <3>2. QED
      BY <2>4, <2>7, <3>1
  <2>9. CASE i = j
    <3>1. u \in c
      BY <2>5, <2>6, <2>9 DEF Ending
    <3>2. Depends(G)[i] = {}
      <4>1. i \notin Depends(G)[i]
        BY <1>1, <2>3, AncestorsAre DEF Dag
      <4>2. QED
        BY <2>3, <2>9, <4>1 DEF Goes
    <3>3. Part(n + 1) = c
      BY <2>8, <3>1
    <3>4. Ending(G, Part(n + 1), j) /\ Depends(G)[j] = {}
      BY <2>5, <2>9, <3>2, <3>3
    <3>5. QED
      BY <2>2, <3>4
  <2>10. CASE i # j
    <3>1. Ending(G, c \cup {u}, j) /\ j \in Ancestors(G)[i]
      BY <2>3, <2>5, <2>6, <2>10, TailGrows
    <3>2. Depends(G)[i] # {}
      BY <2>3, <2>10 DEF Goes
    <3>3. Depth(G, j) < Depth(G, i) /\ Depth(G, j) \in Nat /\ Depth(G, i) \in Nat
      BY <2>3, <3>1, DepthGrows
    <3>4. Depth(G, j) <= N - (n + 1)
      BY <1>1, <2>5, <3>2, <3>3
    <3>5. QED
      BY <2>2, <2>8, <3>1, <3>4
  <2>11. QED
    BY <2>9, <2>10
<1>4. Holds(N)
  <2> HIDE DEF Holds
  <2> DEFINE Bad == {n \in 1..N : ~Holds(n)}
  <2>1. ASSUME Bad # {} PROVE FALSE
    <3>1. PICK n \in Bad : \A m \in Bad : n <= m
      <4>1. Bad \subseteq Nat
        BY <1>1
      <4>2. QED
        BY <2>1, <4>1, NatLeast
    <3>2. n \in 1..N /\ n # 1
      BY <1>2
    <3>3. n - 1 \in 1..(N - 1) /\ n - 1 \in 1..N /\ n - 1 \notin Bad /\ (n - 1) + 1 = n
      BY <1>1, <3>1, <3>2
    <3>4. Holds(n - 1)
      BY <3>3
    <3>5. Holds((n - 1) + 1)
      BY <1>3, <3>3, <3>4
    <3>6. QED
      BY <3>1, <3>3, <3>5
  <2>2. N \in 1..N
    BY <1>1
  <2>3. QED
    BY <2>1, <2>2
<1>5. PICK i : i = b(N)
  OBVIOUS
<1>6. PICK c : c = Part(N)
  OBVIOUS
<1>7. Ending(G, c, i) /\ i \in Ids(G) /\ (Depends(G)[i] = {} \/ Depth(G, i) <= N - N)
  BY <1>4, <1>5, <1>6 DEF Ending
<1>8. Depends(G)[i] = {}
  <2>1. ASSUME Depth(G, i) <= N - N PROVE Depends(G)[i] = {}
    <3>1. Depth(G, i) = 0
      BY <1>1, <1>7, <2>1, DepthGrows
    <3>2. IsFiniteSet(Ancestors(G)[i])
      BY <1>1, <1>7, AncestorsAre, GraphIds, FS_Subset
    <3>3. Ancestors(G)[i] = {}
      BY <3>1, <3>2, FS_EmptySet DEF Depth
    <3>4. QED
      BY <1>1, <1>7, <3>3, AncestorsAre
  <2>2. QED
    BY <1>7, <2>1
<1>9. Work(c) = Span(G) /\ c \in Chains(G)
  <2>1. Finish(G)[i] = Duration(G, i) /\ Duration(G, i) \in Nat
    BY <1>7, <1>8, FinishAre, DepthGrows
  <2>2. c \in Chains(G) /\ c \in SUBSET G /\ Work(c) + Finish(G)[i] = Span(G) + Duration(G, i)
    BY <1>7 DEF Ending, Chains
  <2>3. Work(c) \in Nat /\ Span(G) \in Nat
    BY <2>2, DurationsOf, SpanIs
  <2>4. QED
    BY <2>1, <2>2, <2>3
<1>10. c = {t \in G : t.id \in CriticalPath(G)}
  BY <1>6 DEF CriticalPath, N
<1>11. QED
  BY <1>9, <1>10

-------------------------------------------------------------------------------
(* Bottom levels: the longest way from a task to the end.                       *)

Successors(G, i) == {j \in Ids(G) : i \in Depends(G)[j]}
IsLevel(f, G, L) ==
  f = [i \in L |-> TaskOf(G, i).duration + Largest({f[t.id] : t \in {u \in G : i \in u.deps}})]
AtTasks(f, G, i) == {f[t.id] : t \in {u \in G : i \in u.deps}}
Above(G, k) == {i \in Ids(G) : Cardinality(Ids(G)) < Depth(G, i) + k}

LEMMA SuccessorsAre ==
  ASSUME NEW G, Dag(G), NEW i \in Ids(G)
  PROVE  /\ \A t \in G : i \in t.deps <=> t.id \in Successors(G, i)
         /\ \A j \in Successors(G, i) :
              /\ j \in Ids(G) /\ i \in Ancestors(G)[j] /\ TaskOf(G, j) \in {u \in G : i \in u.deps}
              /\ TaskOf(G, j).id = j
              /\ Depth(G, i) < Depth(G, j) /\ Depth(G, i) \in Nat /\ Depth(G, j) \in Nat
         /\ IsFiniteSet(Successors(G, i))
<1>1. Graph(G)
  BY DEF Dag
<1>2. \A t \in G : i \in t.deps <=> t.id \in Successors(G, i)
  BY <1>1, GraphIds DEF Successors
<1>3. ASSUME NEW j \in Successors(G, i)
      PROVE  /\ j \in Ids(G) /\ i \in Ancestors(G)[j] /\ TaskOf(G, j) \in {u \in G : i \in u.deps}
             /\ TaskOf(G, j).id = j
             /\ Depth(G, i) < Depth(G, j) /\ Depth(G, i) \in Nat /\ Depth(G, j) \in Nat
  <2>1. j \in Ids(G) /\ i \in Depends(G)[j]
    BY DEF Successors
  <2>2. i \in Ancestors(G)[j]
    BY <1>1, <2>1, AncestorsAre
  <2>3. QED
    BY <1>1, <1>2, <2>1, <2>2, GraphIds, DepthGrows
<1>4. IsFiniteSet(Successors(G, i))
  BY <1>1, GraphIds, FS_Subset DEF Successors
<1>5. QED
  BY <1>2, <1>3, <1>4

LEMMA SameLevels ==
  ASSUME NEW G, Dag(G), NEW i \in Ids(G), NEW f
  PROVE  AtTasks(f, G, i) = At(f, Successors(G, i))
<1>1. ASSUME NEW j \in Successors(G, i) PROVE f[j] \in {f[t.id] : t \in {u \in G : i \in u.deps}}
  <2>1. PICK t \in {u \in G : i \in u.deps} : t.id = j
    BY SuccessorsAre
  <2>2. QED
    BY <2>1
<1>2. ASSUME NEW t \in {u \in G : i \in u.deps} PROVE f[t.id] \in {f[j] : j \in Successors(G, i)}
  BY SuccessorsAre
<1>3. QED
  BY <1>1, <1>2 DEF At, AtTasks

LEMMA LevelExists ==
  ASSUME NEW G, Dag(G)
  PROVE  \E f : IsLevel(f, G, Ids(G))
<1> DEFINE Bad == {k \in Nat : ~\E f : IsLevel(f, G, Above(G, k))}
           M == Cardinality(Ids(G))
<1>1. Graph(G) /\ IsFiniteSet(Ids(G)) /\ M \in Nat
  BY GraphIds DEF Dag
<1>2. \A i \in Ids(G) : Depth(G, i) \in Nat /\ Depth(G, i) <= M
  BY <1>1, AncestorsAre, FS_Subset, DepthGrows DEF Depth
<1>3. ASSUME Bad # {} PROVE FALSE
  <2>1. PICK k \in Bad : \A m \in Bad : k <= m
    BY <1>3, NatLeast
  <2>2. CASE k = 0
    <3>1. Above(G, 0) = {}
      <4>1. \A i \in Ids(G) : ~(M < Depth(G, i) + 0)
        BY <1>1, <1>2
      <4>2. QED
        BY <4>1 DEF Above
    <3> DEFINE f == [i \in {} |-> 0]
    <3>2. IsLevel(f, G, {})
      BY DEF IsLevel
    <3>3. QED
      BY <2>1, <2>2, <3>1, <3>2
  <2>3. CASE k # 0
    <3>1. k \in Nat /\ k - 1 \in Nat /\ k - 1 \notin Bad
      BY <2>1, <2>3
    <3>2. PICK f : IsLevel(f, G, Above(G, k - 1))
      BY <3>1
    <3> DEFINE Value(i) == TaskOf(G, i).duration + Largest({f[t.id] : t \in {u \in G : i \in u.deps}})
               g == [i \in Above(G, k) |-> Value(i)]
    <3>3. ASSUME NEW i \in Above(G, k), NEW j \in Successors(G, i) PROVE g[j] = f[j]
      <4>1. i \in Ids(G) /\ M < Depth(G, i) + k
        BY DEF Above
      <4>2. j \in Ids(G) /\ Depth(G, j) \in Nat /\ Depth(G, i) < Depth(G, j) /\ Depth(G, i) \in Nat
        BY <4>1, SuccessorsAre
      <4>3. M < Depth(G, j) + k /\ M < Depth(G, j) + (k - 1)
        BY <1>1, <3>1, <4>1, <4>2
      <4>4. j \in Above(G, k) /\ j \in Above(G, k - 1)
        BY <4>2, <4>3 DEF Above
      <4>5. f[j] = Value(j)
        BY <3>2, <4>4 DEF IsLevel
      <4>6. QED
        BY <4>4, <4>5
    <3>4. ASSUME NEW i \in Above(G, k)
          PROVE  {f[t.id] : t \in {u \in G : i \in u.deps}} = {g[t.id] : t \in {u \in G : i \in u.deps}}
      <4> HIDE DEF g
      <4>1. i \in Ids(G)
        BY DEF Above
      <4>2. At(f, Successors(G, i)) = At(g, Successors(G, i))
        BY <3>3 DEF At
      <4>3. AtTasks(f, G, i) = At(f, Successors(G, i)) /\ AtTasks(g, G, i) = At(g, Successors(G, i))
        BY <4>1, SameLevels
      <4>4. QED
        BY <4>2, <4>3 DEF AtTasks
    <3>5. \A i \in Above(G, k) :
            g[i] = TaskOf(G, i).duration + Largest({g[t.id] : t \in {u \in G : i \in u.deps}})
      BY <3>4
    <3>6. IsLevel(g, G, Above(G, k))
      <4>1. g = [i \in Above(G, k) |-> g[i]]
        OBVIOUS
      <4> HIDE DEF g
      <4>2. QED
        BY <3>5, <4>1 DEF IsLevel
    <3>7. QED
      BY <2>1, <3>6
  <2>4. QED
    BY <2>2, <2>3
<1>4. Above(G, M + 1) = Ids(G) /\ M + 1 \in Nat
  <2>1. \A i \in Ids(G) : M < Depth(G, i) + (M + 1)
    BY <1>1, <1>2
  <2>2. QED
    BY <1>1, <2>1 DEF Above
<1>5. M + 1 \notin Bad
  BY <1>3
<1>6. QED
  BY <1>4, <1>5

\* What BottomLevels is.
LEMMA LevelsAre ==
  ASSUME NEW G, Dag(G), NEW i \in Ids(G)
  PROVE  /\ BottomLevels(G)[i] \in Nat
         /\ \A j \in Successors(G, i) :
              j \in Ids(G) /\ BottomLevels(G)[j] + Duration(G, i) <= BottomLevels(G)[i]
         /\ Successors(G, i) # {} =>
              \E j \in Successors(G, i) : BottomLevels(G)[i] = BottomLevels(G)[j] + Duration(G, i)
         /\ Successors(G, i) = {} => BottomLevels(G)[i] = Duration(G, i)
<1>1. \A j \in Ids(G) : IsFiniteSet(Successors(G, j)) /\ Successors(G, j) \subseteq Ids(G)
                        /\ Duration(G, j) \in Nat \ {0}
  BY SuccessorsAre, DepthGrows
<1>2. BottomLevels(G) = CHOOSE f : IsLevel(f, G, Ids(G))
  BY Zenon DEF BottomLevels, IsLevel
<1>3. PICK f : f = BottomLevels(G)
  OBVIOUS
<1>4. IsLevel(f, G, Ids(G))
  BY <1>2, <1>3, LevelExists
<1>5. ASSUME NEW j \in Ids(G)
      PROVE  f[j] = Duration(G, j) + Largest(At(f, Successors(G, j)))
  <2>1. f[j] = TaskOf(G, j).duration + Largest({f[t.id] : t \in {u \in G : j \in u.deps}})
    BY <1>4 DEF IsLevel
  <2>2. AtTasks(f, G, j) = At(f, Successors(G, j))
    BY SameLevels
  <2>3. QED
    BY <2>1, <2>2 DEF Duration, AtTasks
<1>6. ASSUME NEW j \in Ids(G), \A k \in Successors(G, j) : f[k] \in Nat
      PROVE  \E most \in Nat :
               /\ f[j] = Duration(G, j) + most
               /\ \A k \in Successors(G, j) : f[k] <= most
               /\ Successors(G, j) # {} => \E k \in Successors(G, j) : f[k] = most
               /\ Successors(G, j) = {} => most = 0
  <2>1. PICK S : S = Successors(G, j)
    OBVIOUS
  <2>2. IsFiniteSet(S) /\ \A d \in S : f[d] \in Nat
    BY <1>1, <1>6, <2>1
  <2>3. /\ Largest(At(f, S)) \in Nat
        /\ \A d \in S : f[d] <= Largest(At(f, S))
        /\ S # {} => \E d \in S : f[d] = Largest(At(f, S))
        /\ S = {} => Largest(At(f, S)) = 0
    BY ONLY <2>2, LargestAt
  <2>4. QED
    BY <1>5, <2>1, <2>3
<1>7. ASSUME NEW Bad, Bad = {j \in Ids(G) : f[j] \notin Nat}, Bad # {} PROVE FALSE
  <2>1. PICK j \in Bad : \A k \in Bad : j \notin Ancestors(G)[k]
    BY <1>7, Latest
  <2>2. j \in Ids(G) /\ \A k \in Successors(G, j) : f[k] \in Nat
    BY <1>7, <2>1, SuccessorsAre
  <2>3. PICK most \in Nat : f[j] = Duration(G, j) + most
    BY <1>6, <2>2
  <2>4. QED
    BY <1>1, <1>7, <2>1, <2>2, <2>3
<1>8. {j \in Ids(G) : f[j] \notin Nat} = {}
  BY <1>7
<1>9. \A j \in Ids(G) : f[j] \in Nat
  BY <1>8
<1>10. PICK most \in Nat :
         /\ f[i] = Duration(G, i) + most
         /\ \A k \in Successors(G, i) : f[k] <= most
         /\ Successors(G, i) # {} => \E k \in Successors(G, i) : f[k] = most
         /\ Successors(G, i) = {} => most = 0
  BY <1>1, <1>6, <1>9
<1>11. /\ f[i] \in Nat /\ Duration(G, i) \in Nat
       /\ \A j \in Successors(G, i) : j \in Ids(G) /\ f[j] \in Nat
  BY <1>1, <1>9
<1>12. \A j \in Successors(G, i) : f[j] + Duration(G, i) <= f[i]
  BY <1>10, <1>11
<1>13. Successors(G, i) # {} => \E j \in Successors(G, i) : f[i] = f[j] + Duration(G, i)
  BY <1>10, <1>11
<1>14. Successors(G, i) = {} => f[i] = Duration(G, i)
  BY <1>10, <1>11
<1>15. QED
  BY <1>3, <1>11, <1>12, <1>13, <1>14

\* Through no task leads a way longer than the span, ...
LEMMA LevelsWithinSpan ==
  ASSUME NEW G, Dag(G), NEW i \in Ids(G)
  PROVE  BottomLevels(G)[i] + Finish(G)[i] <= Span(G) + Duration(G, i)
<1> DEFINE Fits(j) == BottomLevels(G)[j] + Finish(G)[j] <= Span(G) + Duration(G, j)
<1>1. ASSUME NEW Bad, Bad = {j \in Ids(G) : ~Fits(j)}, Bad # {} PROVE FALSE
  <2>1. PICK j \in Bad : \A k \in Bad : j \notin Ancestors(G)[k]
    BY <1>1, Latest
  <2>2. /\ j \in Ids(G) /\ BottomLevels(G)[j] \in Nat /\ Finish(G)[j] \in Nat /\ Span(G) \in Nat
        /\ Finish(G)[j] <= Span(G) /\ Duration(G, j) \in Nat
    BY <1>1, LevelsAre, FinishAre, SpanIs, DepthGrows
  <2>3. CASE Successors(G, j) = {}
    <3>1. BottomLevels(G)[j] = Duration(G, j)
      BY <2>2, <2>3, LevelsAre
    <3>2. Fits(j)
      BY <2>2, <3>1
    <3>3. QED
      BY <1>1, <3>2
  <2>4. CASE Successors(G, j) # {}
    <3>1. PICK k \in Successors(G, j) : BottomLevels(G)[j] = BottomLevels(G)[k] + Duration(G, j)
      BY <2>2, <2>4, LevelsAre
    <3>2. k \in Ids(G) /\ j \in Ancestors(G)[k]
      BY <2>2, SuccessorsAre
    <3>3. Fits(k)
      BY <1>1, <2>1, <3>2
    <3>4. Finish(G)[j] + Duration(G, k) <= Finish(G)[k]
      BY <3>2, FinishAfter
    <3>5. BottomLevels(G)[k] \in Nat /\ Finish(G)[k] \in Nat /\ Duration(G, k) \in Nat
      BY <3>2, LevelsAre, FinishAre, DepthGrows
    <3>6. Fits(j)
      BY <2>2, <3>1, <3>3, <3>4, <3>5
    <3>7. QED
      BY <1>1, <3>6
  <2>5. QED
    BY <2>3, <2>4
<1>2. {j \in Ids(G) : ~Fits(j)} = {}
  BY <1>1
<1>3. Fits(i)
  BY <1>2
<1>4. QED
  BY <1>3

\* ... and the longest one through a task starts at one that waits for none.
LEMMA LevelOfAStart ==
  ASSUME NEW G, Dag(G), NEW i \in Ids(G)
  PROVE  \E s \in Ids(G) : /\ Depends(G)[s] = {}
                           /\ BottomLevels(G)[i] + Finish(G)[i] <= BottomLevels(G)[s] + Duration(G, i)
<1> DEFINE Starts(j) == \E s \in Ids(G) :
             /\ Depends(G)[s] = {}
             /\ BottomLevels(G)[j] + Finish(G)[j] <= BottomLevels(G)[s] + Duration(G, j)
<1>1. ASSUME NEW Bad, Bad = {j \in Ids(G) : ~Starts(j)}, Bad # {} PROVE FALSE
  <2>1. PICK j \in Bad : \A d \in Ancestors(G)[j] : d \notin Bad
    BY <1>1, Earliest
  <2>2. j \in Ids(G) /\ BottomLevels(G)[j] \in Nat /\ Finish(G)[j] \in Nat
        /\ Duration(G, j) \in Nat /\ Graph(G)
    BY <1>1, LevelsAre, FinishAre, DepthGrows DEF Dag
  <2>3. CASE Depends(G)[j] = {}
    <3>1. Finish(G)[j] = Duration(G, j)
      BY <2>2, <2>3, FinishAre
    <3>2. BottomLevels(G)[j] + Finish(G)[j] <= BottomLevels(G)[j] + Duration(G, j)
      BY <2>2, <3>1
    <3>3. Starts(j)
      BY <2>2, <2>3, <3>2
    <3>4. QED
      BY <1>1, <3>3
  <2>4. CASE Depends(G)[j] # {}
    <3>1. PICK d \in Depends(G)[j] : Finish(G)[j] = Finish(G)[d] + Duration(G, j)
      BY <2>2, <2>4, FinishAre
    <3>2. d \in Ids(G) /\ d \in Ancestors(G)[j] /\ j \in Successors(G, d)
      BY <2>2, FinishAre, AncestorsAre DEF Successors
    <3>3. Starts(d)
      BY <1>1, <2>1, <3>2
    <3>4. PICK s \in Ids(G) :
            /\ Depends(G)[s] = {}
            /\ BottomLevels(G)[d] + Finish(G)[d] <= BottomLevels(G)[s] + Duration(G, d)
      BY <3>3
    <3>5. BottomLevels(G)[j] + Duration(G, d) <= BottomLevels(G)[d]
      BY <3>2, LevelsAre
    <3>6. /\ BottomLevels(G)[d] \in Nat /\ Finish(G)[d] \in Nat /\ Duration(G, d) \in Nat
          /\ BottomLevels(G)[s] \in Nat
      BY <3>2, LevelsAre, FinishAre, DepthGrows
    <3>7. BottomLevels(G)[j] + Finish(G)[j] <= BottomLevels(G)[s] + Duration(G, j)
      BY <2>2, <3>1, <3>4, <3>5, <3>6
    <3>8. Starts(j)
      BY <3>4, <3>7
    <3>9. QED
      BY <1>1, <3>8
  <2>5. QED
    BY <2>3, <2>4
<1>2. {j \in Ids(G) : ~Starts(j)} = {}
  BY <1>1
<1>3. Starts(i)
  BY <1>2
<1>4. QED
  BY <1>3

\* The task the scheduler starts first begins a longest chain.
LEMMA FirstReadyIs ==
  ASSUME NEW G, Dag(G), G # {}, NEW t \in FirstReady(G, {})
  PROVE  BottomLevels(G)[t.id] = Span(G)
<1>1. /\ t \in G /\ t.deps = {}
      /\ \A u \in G : u.deps = {} => BottomLevels(G)[u.id] <= BottomLevels(G)[t.id]
  <2>1. PICK ready : ready = {u \in G : u.id \notin {} /\ u.deps \subseteq {}}
    OBVIOUS
  <2>2. t \in ready /\ \A u \in ready : BottomLevels(G)[u.id] <= BottomLevels(G)[t.id]
    BY <2>1 DEF FirstReady
  <2>3. QED
    BY <2>1, <2>2
<1>2. t.id \in Ids(G) /\ Depends(G)[t.id] = {}
  BY <1>1, GraphIds DEF Dag
<1>3. PICK i \in Ids(G) : Finish(G)[i] = Span(G)
  BY SpanIs
<1>4. PICK s \in Ids(G) : /\ Depends(G)[s] = {}
                          /\ BottomLevels(G)[i] + Finish(G)[i] <= BottomLevels(G)[s] + Duration(G, i)
  BY LevelOfAStart
<1>5. BottomLevels(G)[s] <= BottomLevels(G)[t.id]
  <2>1. PICK u \in G : u.id = s /\ u.deps = {}
    BY <1>4, GraphIds DEF Dag
  <2>2. QED
    BY <1>1, <2>1
<1>6. BottomLevels(G)[t.id] + Finish(G)[t.id] <= Span(G) + Duration(G, t.id)
      /\ Finish(G)[t.id] = Duration(G, t.id)
  BY <1>2, LevelsWithinSpan, FinishAre
<1>7. Duration(G, i) <= BottomLevels(G)[i]
  <2>1. CASE Successors(G, i) = {}
    BY <2>1, LevelsAre
  <2>2. CASE Successors(G, i) # {}
    <3>1. PICK j \in Successors(G, i) : BottomLevels(G)[i] = BottomLevels(G)[j] + Duration(G, i)
      BY <2>2, LevelsAre
    <3>2. BottomLevels(G)[j] \in Nat /\ Duration(G, i) \in Nat
      BY LevelsAre, DepthGrows
    <3>3. QED
      BY <3>1, <3>2
  <2>3. QED
    BY <2>1, <2>2
<1>8. /\ BottomLevels(G)[i] \in Nat /\ BottomLevels(G)[s] \in Nat /\ BottomLevels(G)[t.id] \in Nat
      /\ Duration(G, i) \in Nat /\ Duration(G, t.id) \in Nat /\ Span(G) \in Nat
  BY <1>2, LevelsAre, DepthGrows, SpanIs
<1>9. QED
  BY <1>3, <1>4, <1>5, <1>6, <1>7, <1>8

\* What is shown for approval and what the scheduler goes by is true of every
\* acyclic graph.
LEMMA SpanIsTrue ==
  ASSUME NEW G, Dag(G), G # {}
  PROVE  LET path == {t \in G : t.id \in CriticalPath(G)}
             level == BottomLevels(G)
         IN /\ Span(G) = Max({Work(c) : c \in Chains(G)})
            /\ path \in Chains(G) /\ Work(path) = Span(G)
            /\ \A t \in FirstReady(G, {}) : level[t.id] = Span(G)
<1>1. PICK path : path = {t \in G : t.id \in CriticalPath(G)}
  OBVIOUS
<1>2. path \in Chains(G) /\ Work(path) = Span(G)
  BY <1>1, CriticalPathIs
<1>3. Span(G) = Max({Work(c) : c \in Chains(G)})
  <2>1. PICK W : W = {Work(c) : c \in Chains(G)}
    OBVIOUS
  <2>2. Span(G) \in W /\ Span(G) \in Nat /\ \A w \in W : w \in Nat /\ w <= Span(G)
    BY <1>2, <2>1, ChainWithinSpan, SpanIs
  <2>3. \E x \in W : \A y \in W : x >= y
    BY <2>2
  <2>4. Max(W) \in W /\ \A y \in W : Max(W) >= y
    BY <2>3 DEF Max
  <2>5. Max(W) = Span(G)
    BY <2>2, <2>4
  <2>6. QED
    BY <2>1, <2>5
<1>4. \A t \in FirstReady(G, {}) : BottomLevels(G)[t.id] = Span(G)
  BY FirstReadyIs
<1>5. QED
  BY <1>1, <1>2, <1>3, <1>4

-------------------------------------------------------------------------------
(* As many tasks as slots are recommended can run at the same time.             *)

LEMMA WidthIs ==
  ASSUME NEW G, Dag(G), G # {}
  PROVE  /\ ReadyWidth(G) \in Nat \ {0}
         /\ \E group \in SUBSET G : Together(G, group) /\ Cardinality(group) = ReadyWidth(G)
<1> DEFINE Groups == {g \in SUBSET G : Together(G, g)}
           f == [g \in Groups |-> Cardinality(g)]
<1>1. IsFiniteSet(G)
  BY DEF Dag, Graph
<1>2. IsFiniteSet(Groups)
  BY <1>1, FS_SUBSET, FS_Subset
<1>3. \A g \in Groups : Cardinality(g) \in Nat
  BY <1>1, FS_Subset, FS_CardinalityType
<1>4. PICK S : S = {Cardinality(group) : group \in {g \in SUBSET G : Together(G, g)}}
  OBVIOUS
<1>5. IsFiniteSet(S)
  <2>1. IsFiniteSet(Range(f))
    BY <1>2, FiniteRange
  <2>2. Range(f) = S
    BY <1>4 DEF Range
  <2>3. QED
    BY <2>1, <2>2
<1>6. PICK u \in G : TRUE
  OBVIOUS
<1>7. {u} \in Groups
  BY DEF Together
<1>8. 1 \in S
  BY <1>4, <1>7, FS_Singleton
<1>9. S \subseteq Nat
  BY <1>3, <1>4
<1>10. Largest(S) \in S /\ Largest(S) \in Nat /\ 1 <= Largest(S)
  BY <1>5, <1>8, <1>9, LargestIs
<1>11. ReadyWidth(G) = Largest(S)
  BY <1>4 DEF ReadyWidth
<1>12. QED
  BY <1>4, <1>10, <1>11

LEMMA SlotsWithinWidth ==
  ASSUME NEW G, Dag(G), G # {}
  PROVE  RecommendedSlots(G) \in Nat /\ RecommendedSlots(G) <= ReadyWidth(G)
<1>1. ReadyWidth(G) \in Nat \ {0}
  BY WidthIs
<1>2. Cardinality(G) \in Nat /\ MaxRootSlots \in Nat
  BY GraphIds, CompilerAssumption DEF Dag
<1>3. PICK bounded : bounded = Max({1, Min({MaxRootSlots, Cardinality(G)})})
  OBVIOUS
<1>4. bounded \in Nat
  <2>1. Min({MaxRootSlots, Cardinality(G)}) \in Nat
    BY <1>2, NatMin
  <2>2. PICK m : m = Min({MaxRootSlots, Cardinality(G)})
    OBVIOUS
  <2>3. IsFiniteSet({1, m}) /\ {1, m} \subseteq Nat
    <3>1. IsFiniteSet({1}) /\ {1, m} = {1} \cup {m}
      BY FS_Singleton
    <3>2. IsFiniteSet({1} \cup {m})
      BY <3>1, FS_AddElement
    <3>3. QED
      BY <2>1, <2>2, <3>1, <3>2
  <2>4. QED
    BY <1>3, <2>2, <2>3, NatMax
<1>5. Exposed(G) \in Nat
  <2>1. Span(G) \in Nat /\ Work(G) \in Nat
    BY SpanIs, DurationsOf
  <2>2. Span(G) # 0
    <3>1. PICK i \in Ids(G) : Finish(G)[i] = Span(G)
      BY SpanIs
    <3>2. Duration(G, i) \in Nat \ {0}
      BY DepthGrows
    <3>3. CASE Depends(G)[i] = {}
      BY <3>1, <3>2, <3>3, FinishAre
    <3>4. CASE Depends(G)[i] # {}
      <4>1. PICK d \in Depends(G)[i] : Finish(G)[i] = Finish(G)[d] + Duration(G, i)
        BY <3>4, FinishAre
      <4>2. Finish(G)[d] \in Nat
        BY FinishAre
      <4>3. QED
        BY <3>1, <3>2, <4>1, <4>2
    <3>5. QED
      BY <3>3, <3>4
  <2>3. PICK a : a = 2000 * Work(G) + Span(G)
    OBVIOUS
  <2>4. PICK b : b = 2 * Span(G)
    OBVIOUS
  <2>5. a \in Nat /\ b \in Nat \ {0}
    BY <2>1, <2>2, <2>3, <2>4
  <2>6. a \div b \in Nat
    BY <2>5
  <2>7. PICK q : q = a \div b
    OBVIOUS
  <2>8. (q + 999) \div 1000 \in Nat
    BY <2>6, <2>7
  <2>9. QED
    BY <2>3, <2>4, <2>7, <2>8 DEF Exposed
<1>6. PICK few : few = Min({ReadyWidth(G), bounded, Exposed(G)})
  OBVIOUS
<1>7. few \in Nat /\ few <= ReadyWidth(G)
  <2>1. PICK S : S = {ReadyWidth(G), bounded, Exposed(G)}
    OBVIOUS
  <2>2. S \subseteq Nat /\ ReadyWidth(G) \in S
    BY <1>1, <1>4, <1>5, <2>1
  <2>3. QED
    BY <1>6, <2>1, <2>2, NatMin
<1>8. RecommendedSlots(G) = Max({1, few})
  BY <1>3, <1>6 DEF RecommendedSlots
<1>9. Max({1, few}) \in {1, few}
  <2>1. IsFiniteSet({1}) /\ {1, few} = {1} \cup {few}
    BY FS_Singleton
  <2>2. IsFiniteSet({1} \cup {few})
    BY <2>1, FS_AddElement
  <2>3. IsFiniteSet({1, few}) /\ {1, few} \subseteq Nat /\ {1, few} # {}
    BY <1>7, <2>1, <2>2
  <2>4. QED
    BY <2>3, NatMax
<1>10. QED
  BY <1>1, <1>7, <1>8, <1>9

LEMMA SlotsAreTrue ==
  ASSUME NEW G, Dag(G), G # {}
  PROVE  \E green \in SUBSET G :
           /\ \A t \in green : t.deps \subseteq Ids(green)
           /\ \E group \in SUBSET {t \in G \ green : t.deps \subseteq Ids(green)} :
                /\ Cardinality(group) >= RecommendedSlots(G)
                /\ \A t, u \in group : t # u => t.resources \cap u.resources = {}
<1>1. PICK group \in SUBSET G : Together(G, group) /\ Cardinality(group) = ReadyWidth(G)
  BY WidthIs
<1>2. PICK green : green = {t \in G : \E u \in group : t.id \in Ancestors(G)[u.id]}
  OBVIOUS
<1>3. Graph(G) /\ \A t \in G : t.id \in Ids(G) /\ Depends(G)[t.id] = t.deps
                               /\ t.deps \subseteq Ids(G)
  BY GraphIds DEF Dag, Graph
<1>4. ASSUME NEW u \in group, NEW d \in Ids(G), d \in Ancestors(G)[u.id] PROVE d \in Ids(green)
  <2>1. PICK t \in G : t.id = d
    BY DEF Ids
  <2>2. t \in green
    BY <1>2, <1>4, <2>1
  <2>3. QED
    BY <2>1, <2>2 DEF Ids
<1>5. ASSUME NEW t \in green PROVE t.deps \subseteq Ids(green)
  <2>1. PICK u \in group : t.id \in Ancestors(G)[u.id]
    BY <1>2
  <2>2. t \in G /\ u.id \in Ids(G)
    BY <1>1, <1>2, <1>3
  <2>3. t.deps \subseteq Ancestors(G)[u.id]
    BY <1>3, <2>1, <2>2, AncestorsAre DEF Closed
  <2>4. QED
    BY <1>3, <1>4, <2>2, <2>3
<1>6. ASSUME NEW t \in group PROVE t \in G \ green /\ t.deps \subseteq Ids(green)
  <2>1. t \in G /\ t.id \in Ids(G)
    BY <1>1, <1>3
  <2>2. t.deps \subseteq Ids(green)
    BY <1>3, <1>4, <2>1, AncestorsAre
  <2>3. ASSUME NEW u \in group, t.id \in Ancestors(G)[u.id] PROVE FALSE
    <3>1. CASE t = u
      BY <2>1, <2>3, <3>1 DEF Dag
    <3>2. CASE t # u
      BY <1>1, <2>3, <3>2 DEF Together
    <3>3. QED
      BY <3>1, <3>2
  <2>4. QED
    BY <1>2, <2>1, <2>2, <2>3
<1>7. \A t, u \in group : t # u => t.resources \cap u.resources = {}
  BY <1>1 DEF Together
<1>8. Cardinality(group) >= RecommendedSlots(G)
  BY <1>1, SlotsWithinWidth, WidthIs
<1>9. green \in SUBSET G /\ group \in SUBSET {t \in G \ green : t.deps \subseteq Ids(green)}
  BY <1>2, <1>6
<1>10. QED
  BY <1>5, <1>7, <1>8, <1>9

-------------------------------------------------------------------------------
(* The invariant.                                                               *)

Artifacts ==
  {"request-result"} \cup
  UNION {UNION {task.produces \cup task.requires : task \in Range(p.tasks)} : p \in Proposals}

\* What a task is made of.
Task ==
  [id : SUBSET Nat, paths : SUBSET Seq(STRING), produces : SUBSET Artifacts,
   requires : SUBSET Artifacts, readOnly : BOOLEAN, deps : SUBSET SUBSET Nat,
   resources : SUBSET Seq(STRING), duration : Nat \ {0}]

TypeOK ==
  /\ proposal \in Proposals
  /\ tasks \subseteq Task /\ IsFiniteSet(tasks) /\ tasks # {}
  /\ repaired \in BOOLEAN
  /\ phase \in {"cycles", "overlaps", "plan", "single", "raised"}

\* The tasks of G are a partition of the tasks kept of p, ...
Partition(G, p) ==
  /\ \A t \in G : t.id # {} /\ t.id \subseteq Kept(p)
  /\ \A t, u \in G : t # u => t.id \cap u.id = {}
  /\ \A i \in Kept(p) : \E t \in G : i \in t.id

\* ... each with the scope of those it stands for, ...
Scoped(G, p) ==
  \A t \in G :
    /\ t.paths = UNION {p.tasks[i].paths : i \in t.id}
    /\ t.produces = UNION {p.tasks[i].produces : i \in t.id}

\* ... and each waits for the producers of what these require.
Ordered(G, p) ==
  \A t \in G : \A i \in t.id : \A j \in Requires(p, i) : j \in t.id \/ \E D \in t.deps : j \in D

StandsFor(G, p) == Partition(G, p) /\ Scoped(G, p) /\ Ordered(G, p)

\* Tasks with common scope have a common key.
Keyed(G) ==
  \A t, u \in G : Conflict(t, u) => t.resources \cap u.resources # {}

\* A task that names no path is read-only.
Bounded(G) == \A t \in G : t.paths = {} => t.readOnly

CompilerInv ==
  /\ TypeOK
  /\ phase # "single" => StandsFor(tasks, proposal)
  /\ IsPlan => Keyed(tasks) /\ Analysable(tasks) /\ Bounded(tasks)
  /\ ~repaired => phase # "single" /\ \A t \in tasks : \E i \in t.id : t.id = {i}

\* The hypothesis of CleanIsKept: a valid proposal with little overlap.
Clean(p) ==
  LET kept == EdgesOf(p) IN
  /\ Analysable(kept) /\ ~Invalid(WithKeys(kept), p)
  /\ \A t, u \in kept : t # u =>
       3 * Cardinality(Overlaps(t, u)) <= Cardinality(t.paths \cup u.paths)

\* Nothing is done to such a proposal.
CleanInv ==
  Clean(proposal) =>
    /\ phase \in {"cycles", "overlaps", "plan"}
    /\ phase # "plan" => tasks = EdgesOf(proposal)
    /\ IsPlan => Ids(tasks) = Ids(EdgesOf(proposal))

\* What the limits of a proposal give.
LEMMA ProposalIs ==
  ASSUME NEW p \in Proposals
  PROVE  /\ IsFiniteSet(Kept(p)) /\ Kept(p) # {} /\ Kept(p) \subseteq DOMAIN p.tasks
         /\ Kept(p) \subseteq Nat /\ DOMAIN p.tasks \subseteq Nat /\ IsFiniteSet(DOMAIN p.tasks)
         /\ \A i \in DOMAIN p.tasks :
              /\ p.tasks[i].paths \subseteq Paths /\ p.tasks[i].readOnly \in BOOLEAN
              /\ p.tasks[i].produces \subseteq Artifacts /\ p.tasks[i].requires \subseteq Artifacts
<1>1. /\ p.maxTasks \in Nat \ {0} /\ p.tasks \in Seq(Range(p.tasks)) /\ p.tasks # <<>>
      /\ \A task \in Range(p.tasks) : task.paths \subseteq Paths /\ task.readOnly \in BOOLEAN
  BY ProposalsAssumption
<1>2. PICK T : T = p.tasks
  OBVIOUS
<1>3. DOMAIN T = 1..Len(T) /\ Len(T) \in Nat /\ Len(T) # 0
  BY <1>1, <1>2
<1>4. PICK n : n = Min({p.maxTasks, Len(T)})
  OBVIOUS
<1>5. n \in Nat \ {0} /\ n <= Len(T)
  BY <1>1, <1>3, <1>4, NatMin
<1>6. Kept(p) = 1..n
  BY <1>2, <1>4 DEF Kept
<1>7. IsFiniteSet(1..n) /\ IsFiniteSet(1..Len(T))
  BY <1>3, <1>5, FS_Interval
<1>8. \A i \in DOMAIN T : T[i] \in Range(T)
  BY DEF Range
<1>9. \A i \in DOMAIN T : T[i].produces \subseteq Artifacts /\ T[i].requires \subseteq Artifacts
  BY <1>2, <1>8 DEF Artifacts
<1>10. QED
  BY <1>1, <1>2, <1>3, <1>5, <1>6, <1>7, <1>8, <1>9

LEMMA PathsAre ==
  /\ IsFiniteSet(Paths)
  /\ \A path \in Paths \cup Files : path \in Seq(STRING) /\ path # <<>>
<1>1. PathOrder \in Seq(Paths)
  BY PathsAssumption
<1>2. IsFiniteSet(DOMAIN PathOrder) /\ PathOrder = [n \in DOMAIN PathOrder |-> PathOrder[n]]
  <2>1. Len(PathOrder) \in Nat /\ DOMAIN PathOrder = 1..Len(PathOrder)
    BY <1>1
  <2>2. PathOrder \in [1..Len(PathOrder) -> Paths]
    BY <1>1
  <2>3. IsFiniteSet(DOMAIN PathOrder)
    BY <2>1, FS_Interval
  <2>4. QED
    BY <2>2, <2>3
<1>3. IsFiniteSet(Range(PathOrder))
  BY <1>2, FiniteRange
<1>4. QED
  BY <1>3, PathsAssumption DEF Paths

LEMMA EstimateIsPositive ==
  ASSUME NEW t, IsFiniteSet(t.paths)
  PROVE  Estimate(t) \in Nat \ {0}
<1>1. PICK c : c = Cardinality(t.paths)
  OBVIOUS
<1>2. c \in Nat
  BY <1>1, FS_CardinalityType
<1>3. PICK m : m = Max({0, c - 1})
  OBVIOUS
<1>4. m \in Nat
  <2>1. \E x \in {0, c - 1} : \A y \in {0, c - 1} : x >= y
    BY <1>2
  <2>2. m \in {0, c - 1} /\ \A y \in {0, c - 1} : m >= y
    BY <1>3, <2>1 DEF Max
  <2>3. QED
    BY <1>2, <2>2
<1>5. PICK few : few = Min({60, 10 * m})
  OBVIOUS
<1>6. few \in Nat
  <2>1. {60, 10 * m} \subseteq Nat /\ {60, 10 * m} # {}
    BY <1>4
  <2>2. QED
    BY <1>5, <2>1, NatMin
<1>7. Estimate(t) = (IF t.readOnly THEN 75 ELSE 100) + few
  BY <1>1, <1>3, <1>5 DEF Estimate
<1>8. QED
  BY <1>6, <1>7

\* The producer of what a task requires is a proposed task.
LEMMA RequiresAre ==
  ASSUME NEW p \in Proposals, NEW i
  PROVE  Requires(p, i) \subseteq Nat
<1>1. ASSUME NEW a, Producers(p, a) # {} PROVE Max(Producers(p, a)) \in Nat
  <2>1. Producers(p, a) \subseteq DOMAIN p.tasks
    BY DEF Producers
  <2>2. IsFiniteSet(Producers(p, a)) /\ Producers(p, a) \subseteq Nat
    BY <2>1, ProposalIs, FS_Subset
  <2>3. QED
    BY <1>1, <2>2, NatMax
<1>2. QED
  BY <1>1 DEF Requires

\* What the proposal is compiled to first.
LEMMA EdgesAre ==
  ASSUME NEW p \in Proposals
  PROVE  LET G == EdgesOf(p) IN
         /\ G \subseteq Task /\ IsFiniteSet(G) /\ G # {} /\ StandsFor(G, p)
         /\ \A t \in G : \E i \in t.id : t.id = {i}
<1> DEFINE Edge(i) ==
      [id |-> {i}, paths |-> p.tasks[i].paths, produces |-> p.tasks[i].produces,
       requires |-> p.tasks[i].requires, readOnly |-> p.tasks[i].readOnly,
       deps |-> {{j} : j \in Requires(p, i) \cup (IF p.tasks[i].join THEN Kept(p) \ {i} ELSE {})},
       resources |-> {}, duration |-> Estimate(p.tasks[i])]
<1>1. PICK G : G = EdgesOf(p)
  OBVIOUS
<1>2. G = {Edge(i) : i \in Kept(p)}
  BY <1>1 DEF EdgesOf
<1>3. ASSUME NEW i \in Kept(p) PROVE Edge(i) \in Task
  <2>1. /\ i \in Nat /\ p.tasks[i].paths \subseteq Paths /\ p.tasks[i].readOnly \in BOOLEAN
        /\ p.tasks[i].produces \subseteq Artifacts /\ p.tasks[i].requires \subseteq Artifacts
    BY ProposalIs
  <2>2. p.tasks[i].paths \subseteq Seq(STRING) /\ IsFiniteSet(p.tasks[i].paths)
    BY <2>1, PathsAre, FS_Subset
  <2>3. Estimate(p.tasks[i]) \in Nat \ {0}
    BY <2>2, EstimateIsPositive
  <2>4. Edge(i).deps \in SUBSET SUBSET Nat
    BY ProposalIs, RequiresAre
  <2>5. QED
    BY <2>1, <2>2, <2>3, <2>4 DEF Task
<1>4. IsFiniteSet(G) /\ G # {}
  <2> DEFINE f == [i \in Kept(p) |-> Edge(i)]
  <2>1. Range(f) = G
    BY <1>2 DEF Range
  <2>2. IsFiniteSet(Range(f))
    BY ProposalIs, FiniteRange
  <2>3. QED
    BY <1>2, <2>1, <2>2, ProposalIs
<1>5. \A i \in Kept(p) :
        /\ Edge(i).id = {i} /\ Edge(i).paths = p.tasks[i].paths
        /\ Edge(i).produces = p.tasks[i].produces
        /\ \A j \in Requires(p, i) : {j} \in Edge(i).deps
  OBVIOUS
<1> HIDE DEF Edge
<1>6. Partition(G, p) /\ \A t \in G : \E i \in t.id : t.id = {i}
  BY <1>2, <1>5 DEF Partition
<1>7. Scoped(G, p)
  BY <1>2, <1>5 DEF Scoped
<1>8. Ordered(G, p)
  <2>1. ASSUME NEW t \in G, NEW i \in t.id, NEW j \in Requires(p, i)
        PROVE  \E D \in t.deps : j \in D
    <3>1. i \in Kept(p) /\ t = Edge(i)
      BY <1>2, <1>5
    <3>2. {j} \in t.deps
      BY <1>5, <3>1
    <3>3. QED
      BY <3>2
  <2>2. QED
    BY <2>1 DEF Ordered
<1>9. QED
  BY <1>1, <1>2, <1>3, <1>4, <1>6, <1>7, <1>8 DEF StandsFor

\* Only the dependencies, or only the resource keys, of a task are replaced.
LEMMA DepsReplaced ==
  ASSUME NEW t \in Task, NEW D \in SUBSET SUBSET Nat
  PROVE  LET u == [t EXCEPT !.deps = D] IN
         /\ u \in Task /\ u.deps = D /\ u.id = t.id /\ u.paths = t.paths
         /\ u.produces = t.produces
  BY DEF Task

LEMMA KeysReplaced ==
  ASSUME NEW t \in Task, NEW K \in SUBSET Seq(STRING)
  PROVE  LET u == [t EXCEPT !.resources = K] IN
         /\ u \in Task /\ u.resources = K /\ u.id = t.id /\ u.paths = t.paths
         /\ u.produces = t.produces /\ u.readOnly = t.readOnly /\ u.deps = t.deps
  BY DEF Task

\* However tasks are merged, the result still stands for the proposal.
LEMMA MergeKeeps ==
  ASSUME NEW p \in Proposals, NEW G, G \subseteq Task, IsFiniteSet(G), StandsFor(G, p),
         NEW ids, ids \subseteq Ids(G), ids # {}
  PROVE  LET M == Merge(G, ids) IN
         M \subseteq Task /\ IsFiniteSet(M) /\ M # {} /\ StandsFor(M, p)
<1>1. PICK parts : parts = {t \in G : t.id \in ids}
  OBVIOUS
<1> DEFINE Moves(t) == IF t.deps \cap ids = {} THEN t.deps ELSE (t.deps \ ids) \cup {UNION ids}
           Moved(t) == [t EXCEPT !.deps = Moves(t)]
           made == UNION {t.produces : t \in parts}
           one == [id |-> UNION ids, paths |-> UNION {t.paths : t \in parts}, produces |-> made,
                   requires |-> (UNION {t.requires : t \in parts}) \ made,
                   readOnly |-> \A t \in parts : t.readOnly,
                   deps |-> (UNION {t.deps : t \in parts}) \ ids,
                   resources |-> UNION {t.resources : t \in parts}, duration |-> Work(parts)]
           M == {Moved(t) : t \in G \ parts} \cup {one}
<1>2. Merge(G, ids) = M
  <2>1. \A t \in G \ parts : Moved(t) =
          [t EXCEPT !.deps = IF @ \cap ids = {} THEN @ ELSE (@ \ ids) \cup {UNION ids}]
    OBVIOUS
  <2>2. QED
    BY <1>1, <2>1 DEF Merge
<1>3. /\ parts \subseteq G /\ parts # {} /\ IsFiniteSet(parts) /\ IsFiniteSet(G \ parts)
      /\ \A t \in parts : t.id \in ids
      /\ \A i \in ids : \E t \in parts : t.id = i
      /\ \A t \in G \ parts : t.id \notin ids
  <2>1. \A i \in ids : \E t \in parts : t.id = i
    BY <1>1 DEF Ids
  <2>2. parts \subseteq G /\ parts # {}
    BY <1>1, <2>1
  <2>3. QED
    BY <1>1, <2>1, <2>2, FS_Subset
<1>4. UNION ids \in SUBSET Nat
  BY DEF Ids, Task
<1>5. ASSUME NEW t \in G \ parts
      PROVE  /\ Moved(t) \in Task /\ Moved(t).id = t.id /\ Moved(t).paths = t.paths
             /\ Moved(t).produces = t.produces /\ Moved(t).deps = Moves(t)
  <2>1. t \in Task /\ Moves(t) \in SUBSET SUBSET Nat
    BY <1>4 DEF Task
  <2> HIDE DEF Moves
  <2>2. QED
    BY <2>1, DepsReplaced
<1>6. Work(parts) \in Nat \ {0}
  <2>1. Durations(parts) /\ \A t \in parts : t.duration \in Nat \ {0}
    BY <1>3 DEF Durations, Task
  <2>2. PICK t \in parts : TRUE
    BY <1>3
  <2>3. Work(parts) = t.duration + Work(parts \ {t})
    BY <1>3, <2>1, WorkWithout
  <2>4. Durations(parts \ {t}) /\ IsFiniteSet(parts \ {t})
    BY <1>3, <2>1, FS_Subset DEF Durations
  <2>5. Work(parts \ {t}) \in Nat
    BY <2>4, WorkTyped
  <2>6. QED
    BY <2>1, <2>3, <2>5
<1>7. one \in Task
  <2>1. /\ one.paths \in SUBSET Seq(STRING) /\ one.resources \in SUBSET Seq(STRING)
        /\ one.produces \in SUBSET Artifacts /\ one.requires \in SUBSET Artifacts
        /\ one.deps \in SUBSET SUBSET Nat /\ one.readOnly \in BOOLEAN
    BY <1>3 DEF Task
  <2>2. one.id \in SUBSET Nat /\ one.duration \in Nat \ {0}
    BY <1>4, <1>6
  <2>3. one = [id |-> one.id, paths |-> one.paths, produces |-> one.produces,
               requires |-> one.requires, readOnly |-> one.readOnly, deps |-> one.deps,
               resources |-> one.resources, duration |-> one.duration]
    OBVIOUS
  <2> HIDE DEF one
  <2>4. QED
    BY <2>1, <2>2, <2>3 DEF Task
<1>8. /\ one.id = UNION ids /\ one.paths = UNION {t.paths : t \in parts}
      /\ one.produces = UNION {t.produces : t \in parts}
      /\ one.deps = (UNION {t.deps : t \in parts}) \ ids
  OBVIOUS
<1> HIDE DEF one, Moved
<1>9. IsFiniteSet(M) /\ M \subseteq Task /\ M # {}
  <2> DEFINE f == [t \in G \ parts |-> Moved(t)]
  <2>1. Range(f) = {Moved(t) : t \in G \ parts} /\ f = [t \in G \ parts |-> f[t]]
    BY DEF Range
  <2>2. IsFiniteSet(Range(f))
    BY <1>3, <2>1, FiniteRange
  <2>3. IsFiniteSet(M)
    BY <2>1, <2>2, FS_AddElement
  <2>4. QED
    BY <1>5, <1>7, <2>3
<1>10. /\ one \in M /\ \A u \in G \ parts : Moved(u) \in M
       /\ \A t \in M : t = one \/ \E u \in G \ parts : t = Moved(u)
  OBVIOUS
<1> HIDE DEF M, Moves
<1>11. Partition(M, p)
  <2>1. \A t \in G : t.id # {} /\ t.id \subseteq Kept(p)
    BY DEF StandsFor, Partition
  <2>2. \A t, u \in G : t # u => t.id \cap u.id = {}
    BY DEF StandsFor, Partition
  <2>3. \A t \in M : t.id # {} /\ t.id \subseteq Kept(p)
    <3>1. one.id # {} /\ one.id \subseteq Kept(p)
      BY <1>3, <1>8, <2>1
    <3>2. QED
      <4>1. ASSUME NEW u \in G \ parts, NEW t, t = Moved(u)
            PROVE  t.id # {} /\ t.id \subseteq Kept(p)
        BY <1>5, <2>1, <4>1
      <4>2. QED
        BY <1>10, <3>1, <4>1
  <2>4. ASSUME NEW t \in G \ parts PROVE t.id \cap one.id = {}
    <3>1. \A u \in parts : t.id \cap u.id = {}
      BY <1>3, <2>2
    <3>2. QED
      BY <1>3, <1>8, <3>1
  <2>5. ASSUME NEW t \in M, NEW u \in M, t # u PROVE t.id \cap u.id = {}
    <3>1. ASSUME NEW v \in G \ parts, NEW x, x = Moved(v)
          PROVE  x.id \cap one.id = {}
      BY <1>5, <2>4, <3>1
    <3>2. CASE t = one
      BY <1>10, <2>5, <3>1, <3>2
    <3>3. CASE u = one
      BY <1>10, <2>5, <3>1, <3>3
    <3>4. CASE t # one /\ u # one
      <4>1. PICK v \in G \ parts : t = Moved(v)
        BY <1>10, <3>4
      <4>2. PICK w \in G \ parts : u = Moved(w)
        BY <1>10, <3>4
      <4>3. v # w /\ t.id = v.id /\ u.id = w.id
        BY <1>5, <2>5, <4>1, <4>2
      <4>4. QED
        BY <2>2, <4>3
    <3>5. QED
      BY <3>2, <3>3, <3>4
  <2>6. ASSUME NEW i \in Kept(p) PROVE \E t \in M : i \in t.id
    <3>1. PICK t \in G : i \in t.id
      BY DEF StandsFor, Partition
    <3>2. CASE t \in parts
      BY <1>8, <1>10, <3>1, <3>2, <1>3
    <3>3. CASE t \notin parts
      BY <1>5, <1>10, <3>1, <3>3
    <3>4. QED
      BY <3>2, <3>3
  <2>7. QED
    BY <2>3, <2>5, <2>6 DEF Partition
<1>12. Scoped(M, p)
  <2>1. \A t \in G : /\ t.paths = UNION {p.tasks[i].paths : i \in t.id}
                     /\ t.produces = UNION {p.tasks[i].produces : i \in t.id}
    BY DEF StandsFor, Scoped
  <2>2. one.id = UNION {t.id : t \in parts}
    BY <1>3, <1>8
  <2>3. one.paths = UNION {p.tasks[i].paths : i \in one.id}
    BY <1>3, <1>8, <2>1, <2>2
  <2>4. one.produces = UNION {p.tasks[i].produces : i \in one.id}
    BY <1>3, <1>8, <2>1, <2>2
  <2>5. ASSUME NEW u \in G \ parts, NEW t, t = Moved(u)
        PROVE  /\ t.paths = UNION {p.tasks[i].paths : i \in t.id}
               /\ t.produces = UNION {p.tasks[i].produces : i \in t.id}
    <3>1. t.id = u.id /\ t.paths = u.paths /\ t.produces = u.produces
      BY <1>5, <2>5
    <3>2. QED
      BY <2>1, <3>1
  <2>6. QED
    BY <1>10, <2>3, <2>4, <2>5 DEF Scoped
<1>13. Ordered(M, p)
  <2>1. ASSUME NEW t \in G, NEW i \in t.id, NEW j \in Requires(p, i), j \notin t.id
        PROVE  \E D \in t.deps : j \in D
    BY <2>1 DEF StandsFor, Ordered
  <2>2. ASSUME NEW t \in G \ parts, NEW i \in t.id, NEW j \in Requires(p, i), j \notin t.id
        PROVE  \E D \in Moves(t) : j \in D
    <3> USE DEF Moves
    <3>1. PICK D \in t.deps : j \in D
      BY <2>1, <2>2
    <3>2. CASE D \in ids
      BY <3>1, <3>2
    <3>3. CASE D \notin ids
      BY <3>1, <3>3
    <3>4. QED
      BY <3>2, <3>3
  <2>3. ASSUME NEW i \in one.id, NEW j \in Requires(p, i), j \notin one.id
        PROVE  \E D \in one.deps : j \in D
    <3>1. PICK u \in parts : i \in u.id
      BY <1>3, <1>8
    <3>2. j \notin u.id /\ u \in G
      BY <1>3, <1>8, <2>3
    <3>3. PICK D \in u.deps : j \in D
      BY <2>1, <3>1, <3>2
    <3>4. D \notin ids
      BY <1>8, <2>3, <3>3
    <3>5. D \in UNION {t.deps : t \in parts}
      BY <3>1, <3>3
    <3>6. D \in one.deps
      BY <1>8, <3>4, <3>5
    <3>7. QED
      BY <3>3, <3>6
  <2>4. ASSUME NEW t \in M, NEW i \in t.id, NEW j \in Requires(p, i), j \notin t.id
        PROVE  \E D \in t.deps : j \in D
    <3>1. CASE t = one
      BY <2>3, <2>4, <3>1
    <3>2. ASSUME NEW u \in G \ parts, t = Moved(u) PROVE \E D \in t.deps : j \in D
      BY <1>5, <2>2, <2>4, <3>2
    <3>3. QED
      BY <1>10, <3>1, <3>2
  <2>5. QED
    BY <2>4 DEF Ordered
<1>14. QED
  BY <1>2, <1>9, <1>11, <1>12, <1>13 DEF StandsFor

\* One of two paths holds the other, whichever is named first.
LEMMA CommonIsSymmetric ==
  ASSUME NEW a \in Seq(STRING), NEW b \in Seq(STRING)
  PROVE  /\ Common(a, b) = Common(b, a) /\ Common(a, b) \subseteq {a, b}
         /\ IsPrefix(a, b) => Common(a, b) = {a}
<1>1. ASSUME IsPrefix(a, b), IsPrefix(b, a) PROVE a = b
  <2>1. Len(a) \in Nat /\ Len(b) \in Nat /\ Len(a) <= Len(b) /\ Len(b) <= Len(a)
    BY <1>1 DEF IsPrefix
  <2>2. Len(a) = Len(b)
    BY <2>1
  <2>3. SubSeq(a, 1, Len(a)) = SubSeq(b, 1, Len(b))
    BY <1>1, <2>2 DEF IsPrefix
  <2>4. \A n \in 1..Len(a) : a[n] = b[n]
    <3>1. ASSUME NEW n \in 1..Len(a) PROVE SubSeq(a, 1, Len(a))[n] = a[n]
      OBVIOUS
    <3>2. ASSUME NEW n \in 1..Len(b) PROVE SubSeq(b, 1, Len(b))[n] = b[n]
      OBVIOUS
    <3>3. QED
      BY <2>2, <2>3, <3>1, <3>2
  <2>5. QED
    BY <2>2, <2>4
<1>2. QED
  BY <1>1 DEF Common

LEMMA OverlapsAre ==
  ASSUME NEW t \in Task, NEW u \in Task
  PROVE  /\ Overlaps(t, u) = Overlaps(u, t) /\ Overlaps(t, u) \subseteq t.paths \cup u.paths
         /\ ~t.readOnly /\ ~u.readOnly
              /\ (\E a \in t.paths, b \in u.paths : IsPrefix(a, b) \/ IsPrefix(b, a))
            => Overlaps(t, u) # {}
<1> DEFINE All(l, r) == UNION {Common(pair[1], pair[2]) : pair \in l.paths \X r.paths}
<1>1. t.paths \subseteq Seq(STRING) /\ u.paths \subseteq Seq(STRING)
  BY DEF Task
<1>2. ASSUME NEW l, NEW r, l.paths \subseteq Seq(STRING), r.paths \subseteq Seq(STRING),
             NEW q \in All(l, r)
      PROVE  q \in All(r, l) /\ q \in l.paths \cup r.paths
  <2>1. PICK pair \in l.paths \X r.paths : q \in Common(pair[1], pair[2])
    OBVIOUS
  <2>2. PICK a \in l.paths, b \in r.paths : pair = <<a, b>>
    BY <2>1
  <2>3. q \in Common(b, a) /\ q \in {a, b}
    BY <1>2, <2>1, <2>2, CommonIsSymmetric
  <2>4. <<b, a>> \in r.paths \X l.paths /\ <<b, a>>[1] = b /\ <<b, a>>[2] = a
    BY <2>2
  <2>5. q \in All(r, l)
    BY <2>3, <2>4
  <2>6. QED
    BY <2>2, <2>3, <2>5
<1>3. ASSUME NEW a \in t.paths, NEW b \in u.paths, IsPrefix(a, b) \/ IsPrefix(b, a)
      PROVE  All(t, u) # {}
  <2>1. Common(a, b) # {}
    BY <1>3 DEF Common
  <2>2. <<a, b>> \in t.paths \X u.paths /\ <<a, b>>[1] = a /\ <<a, b>>[2] = b
    OBVIOUS
  <2>3. QED
    BY <2>1, <2>2
<1>4. \A l, r : Overlaps(l, r) = IF l.readOnly \/ r.readOnly THEN {} ELSE All(l, r)
  BY DEF Overlaps
<1> HIDE DEF All
<1>5. All(t, u) = All(u, t) /\ All(t, u) \subseteq t.paths \cup u.paths
  <2>1. \A q \in All(t, u) : q \in All(u, t) /\ q \in t.paths \cup u.paths
    BY <1>1, <1>2
  <2>2. \A q \in All(u, t) : q \in All(t, u)
    BY <1>1, <1>2
  <2>3. QED
    BY <2>1, <2>2
<1>6. QED
  BY <1>3, <1>4, <1>5

\* The key of an overlap is one of the paths in common, the same for both tasks.
LEMMA WriteKeyIs ==
  ASSUME NEW t \in Task, NEW u \in Task, t.paths \subseteq Paths, u.paths \subseteq Paths,
         Overlaps(t, u) # {}
  PROVE  WriteKey(t, u) = WriteKey(u, t) /\ WriteKey(t, u) \in Overlaps(t, u)
<1>1. PICK S : S = Overlaps(t, u)
  OBVIOUS
<1>2. S # {} /\ S \subseteq Paths /\ Overlaps(u, t) = S
  BY <1>1, OverlapsAre
<1>3. WriteKey(t, u) = (CHOOSE p \in S : \A q \in S : Rank(p) <= Rank(q))
  BY <1>1 DEF WriteKey
<1>4. WriteKey(u, t) = (CHOOSE p \in S : \A q \in S : Rank(p) <= Rank(q))
  BY <1>2 DEF WriteKey
<1>5. \A q \in S : Rank(q) \in Nat
  <2>1. DOMAIN PathOrder \subseteq Nat
    <3>1. DOMAIN PathOrder = 1..Len(PathOrder) /\ Len(PathOrder) \in Nat
      BY PathsAssumption
    <3>2. QED
      BY <3>1
  <2>2. \A q \in S : \E n \in DOMAIN PathOrder : PathOrder[n] = q
    BY <1>2 DEF Paths, Range
  <2>3. QED
    BY <2>1, <2>2 DEF Rank
<1>6. PICK R : R = {Rank(q) : q \in S}
  OBVIOUS
<1>7. R \subseteq Nat /\ R # {}
  BY <1>2, <1>5, <1>6
<1>8. PICK n \in R : \A m \in R : n <= m
  BY <1>7, NatLeast
<1>9. \E p \in S : \A q \in S : Rank(p) <= Rank(q)
  BY <1>6, <1>8
<1>10. QED
  BY <1>1, <1>3, <1>4, <1>9

\* Keys change nothing but the keys, and there is one for every overlap.
LEMMA WithKeysKeeps ==
  ASSUME NEW p \in Proposals, NEW G, G \subseteq Task, IsFiniteSet(G), G # {}, StandsFor(G, p)
  PROVE  LET K == WithKeys(G) IN
         /\ K \subseteq Task /\ IsFiniteSet(K) /\ K # {} /\ StandsFor(K, p) /\ Keyed(K)
         /\ Ids(K) = Ids(G) /\ Depends(K) = Depends(G)
         /\ (\A t \in G : \E i \in t.id : t.id = {i}) => \A t \in K : \E i \in t.id : t.id = {i}
<1> DEFINE Keys(t) == {WriteKey(t, u) : u \in {v \in G : Conflict(t, v)}}
           With(t) == [t EXCEPT !.resources = t.resources \cup Keys(t)]
<1>1. PICK K : K = WithKeys(G)
  OBVIOUS
<1>2. K = {With(t) : t \in G}
  BY <1>1 DEF WithKeys
<1>3. ASSUME NEW t \in G PROVE t.paths \subseteq Paths
  <2>1. t.paths = UNION {p.tasks[i].paths : i \in t.id} /\ t.id \subseteq Kept(p)
    BY DEF StandsFor, Scoped, Partition
  <2>2. QED
    BY <2>1, ProposalIs
<1>4. ASSUME NEW t \in G, NEW u \in G, Conflict(t, u)
      PROVE  WriteKey(t, u) \in Paths /\ WriteKey(t, u) = WriteKey(u, t) /\ Conflict(u, t)
  <2>1. t \in Task /\ u \in Task /\ t.paths \subseteq Paths /\ u.paths \subseteq Paths
    BY <1>3
  <2>2. Overlaps(t, u) # {} /\ t # u
    BY <1>4 DEF Conflict
  <2>3. Overlaps(t, u) \subseteq Paths /\ Overlaps(t, u) = Overlaps(u, t)
    BY <2>1, OverlapsAre
  <2>4. QED
    BY <2>1, <2>2, <2>3, WriteKeyIs DEF Conflict
<1>5. ASSUME NEW t \in G
      PROVE  /\ With(t) \in Task /\ With(t).id = t.id /\ With(t).paths = t.paths
             /\ With(t).produces = t.produces /\ With(t).deps = t.deps
             /\ With(t).readOnly = t.readOnly
             /\ \A u \in G : Conflict(t, u) => WriteKey(t, u) \in With(t).resources
  <2>1. t.resources \cup Keys(t) \in SUBSET Seq(STRING)
    <3>1. Keys(t) \subseteq Paths
      BY <1>4
    <3>2. t.resources \subseteq Seq(STRING) /\ Paths \subseteq Seq(STRING)
      BY PathsAre DEF Task
    <3> HIDE DEF Keys
    <3>3. QED
      BY <3>1, <3>2
  <2>2. \A u \in G : Conflict(t, u) => WriteKey(t, u) \in Keys(t)
    OBVIOUS
  <2> HIDE DEF Keys
  <2>3. t \in Task
    OBVIOUS
  <2>4. QED
    BY <2>1, <2>2, <2>3, KeysReplaced
<1> HIDE DEF With
<1>6. (\A t \in K : \E u \in G : t = With(u)) /\ (\A u \in G : With(u) \in K)
  BY <1>2
<1>7. IsFiniteSet(K) /\ K # {} /\ K \subseteq Task
  <2> DEFINE f == [t \in G |-> With(t)]
  <2>1. Range(f) = K /\ f = [t \in G |-> f[t]]
    BY <1>2 DEF Range
  <2>2. IsFiniteSet(K)
    BY <2>1, FiniteRange
  <2>3. QED
    BY <1>5, <1>6, <2>2
<1>8. Partition(G, p) /\ Scoped(G, p) /\ Ordered(G, p)
  BY DEF StandsFor
<1>9. Partition(K, p)
  <2>1. \A t \in K : t.id # {} /\ t.id \subseteq Kept(p)
    BY <1>5, <1>6, <1>8 DEF Partition
  <2>2. ASSUME NEW t \in K, NEW u \in K, t # u PROVE t.id \cap u.id = {}
    <3>1. PICK v \in G, w \in G : t = With(v) /\ u = With(w)
      BY <1>6
    <3>2. v # w /\ t.id = v.id /\ u.id = w.id
      BY <1>5, <2>2, <3>1
    <3>3. QED
      BY <1>8, <3>2 DEF Partition
  <2>3. ASSUME NEW i \in Kept(p) PROVE \E t \in K : i \in t.id
    <3>1. PICK u \in G : i \in u.id
      BY <1>8 DEF Partition
    <3>2. QED
      BY <1>5, <1>6, <3>1
  <2>4. QED
    BY <2>1, <2>2, <2>3 DEF Partition
<1>10. Scoped(K, p)
  <2>1. ASSUME NEW t \in K
        PROVE  /\ t.paths = UNION {p.tasks[i].paths : i \in t.id}
               /\ t.produces = UNION {p.tasks[i].produces : i \in t.id}
    <3>1. PICK u \in G : t = With(u)
      BY <1>6
    <3>2. t.id = u.id /\ t.paths = u.paths /\ t.produces = u.produces
      BY <1>5, <3>1
    <3>3. QED
      BY <1>8, <3>2 DEF Scoped
  <2>2. QED
    BY <2>1 DEF Scoped
<1>11. Ordered(K, p)
  <2>1. ASSUME NEW t \in K, NEW i \in t.id, NEW j \in Requires(p, i), j \notin t.id
        PROVE  \E D \in t.deps : j \in D
    <3>1. PICK u \in G : t = With(u)
      BY <1>6
    <3>2. t.id = u.id /\ t.deps = u.deps
      BY <1>5, <3>1
    <3>3. QED
      BY <1>8, <2>1, <3>2 DEF Ordered
  <2>2. QED
    BY <2>1 DEF Ordered
<1>12. Keyed(K)
  <2>1. ASSUME NEW t \in K, NEW u \in K, Conflict(t, u) PROVE t.resources \cap u.resources # {}
    <3>1. PICK v \in G, w \in G : t = With(v) /\ u = With(w)
      BY <1>6
    <3>2. /\ t.paths = v.paths /\ u.paths = w.paths
          /\ t.readOnly = v.readOnly /\ u.readOnly = w.readOnly
      BY <1>5, <3>1
    <3>3. Overlaps(t, u) = Overlaps(v, w)
      BY <3>2 DEF Overlaps
    <3>4. Conflict(v, w)
      BY <2>1, <3>1, <3>3 DEF Conflict
    <3>5. WriteKey(v, w) = WriteKey(w, v) /\ Conflict(w, v)
      BY <1>4, <3>4
    <3>6. WriteKey(v, w) \in t.resources /\ WriteKey(v, w) \in u.resources
      BY <1>5, <3>1, <3>4, <3>5
    <3>7. QED
      BY <3>6
  <2>2. QED
    BY <2>1 DEF Keyed
<1>13. Ids(K) = Ids(G)
  <2>1. \A i \in Ids(K) : i \in Ids(G)
    BY <1>5, <1>6 DEF Ids
  <2>2. \A i \in Ids(G) : i \in Ids(K)
    BY <1>5, <1>6 DEF Ids
  <2>3. QED
    BY <2>1, <2>2
<1>14. Depends(K) = Depends(G)
  <2>1. ASSUME NEW i \in Ids(K) PROVE TaskOf(K, i).deps = TaskOf(G, i).deps
    <3>1. \E t \in K : t.id = i
      BY DEF Ids
    <3>2. \E t \in G : t.id = i
      BY <1>13 DEF Ids
    <3>3. TaskOf(K, i) \in K /\ TaskOf(K, i).id = i
      BY <3>1 DEF TaskOf
    <3>4. TaskOf(G, i) \in G /\ TaskOf(G, i).id = i
      BY <3>2 DEF TaskOf
    <3>5. PICK u \in G : TaskOf(K, i) = With(u)
      BY <1>6, <3>3
    <3>6. u.id = i /\ TaskOf(K, i).deps = u.deps
      BY <1>5, <3>3, <3>5
    <3>7. u = TaskOf(G, i)
      BY <1>8, <3>4, <3>6 DEF Partition
    <3>8. QED
      BY <3>6, <3>7
  <2>2. QED
    BY <1>13, <2>1 DEF Depends
<1>15. (\A t \in G : \E i \in t.id : t.id = {i}) => \A t \in K : \E i \in t.id : t.id = {i}
  BY <1>5, <1>6
<1>16. QED
  BY <1>1, <1>7, <1>9, <1>10, <1>11, <1>12, <1>13, <1>14, <1>15 DEF StandsFor

-------------------------------------------------------------------------------
(* Every step keeps the invariant.                                              *)

\* The fallback is a task.
LEMMA WholeIsATask ==
  ASSUME NEW p \in Proposals
  PROVE  Whole(p) \in Task
<1>1. DOMAIN p.tasks \in SUBSET Nat
  BY ProposalIs
<1>2. {<<file[1]>> : file \in Files} \in SUBSET Seq(STRING)
  <2>1. ASSUME NEW file \in Files PROVE <<file[1]>> \in Seq(STRING)
    <3>1. file \in Seq(STRING) /\ file # <<>>
      BY PathsAre
    <3>2. file[1] \in STRING
      BY <3>1
    <3>3. QED
      BY <3>2
  <2>2. QED
    BY <2>1
<1>3. {"request-result"} \in SUBSET Artifacts
  BY DEF Artifacts
<1>4. PICK top : top = {<<file[1]>> : file \in Files}
  OBVIOUS
<1>5. Whole(p) = [id |-> DOMAIN p.tasks, paths |-> top, produces |-> {"request-result"},
                  requires |-> {}, readOnly |-> FALSE, deps |-> {}, resources |-> {},
                  duration |-> 100]
  BY <1>4 DEF Whole
<1>6. QED
  BY <1>1, <1>2, <1>3, <1>4, <1>5 DEF Task

LEMMA CompilerInvInit == Init => CompilerInv
<1> SUFFICES ASSUME Init PROVE CompilerInv
  OBVIOUS
<1>1. proposal \in Proposals /\ tasks = EdgesOf(proposal) /\ repaired = FALSE /\ phase = "cycles"
  BY DEF Init
<1>2. /\ tasks \subseteq Task /\ IsFiniteSet(tasks) /\ tasks # {} /\ StandsFor(tasks, proposal)
      /\ \A t \in tasks : \E i \in t.id : t.id = {i}
  BY <1>1, EdgesAre
<1>3. QED
  BY <1>1, <1>2 DEF CompilerInv, TypeOK, IsPlan

LEMMA CompilerInvNext == CompilerInv /\ [Next]_vars => CompilerInv'
<1> SUFFICES ASSUME CompilerInv, [Next]_vars PROVE CompilerInv'
  OBVIOUS
<1>1. /\ proposal \in Proposals /\ tasks \subseteq Task /\ IsFiniteSet(tasks) /\ tasks # {}
      /\ repaired \in BOOLEAN /\ phase \in {"cycles", "overlaps", "plan", "single", "raised"}
      /\ phase # "single" => StandsFor(tasks, proposal)
      /\ ~repaired => phase # "single" /\ \A t \in tasks : \E i \in t.id : t.id = {i}
  BY DEF CompilerInv, TypeOK
<1>2. CASE MergeCycle
  <2>1. phase = "cycles" /\ phase' = "overlaps" /\ proposal' = proposal
    BY <1>2 DEF MergeCycle
  <2>2. CASE Cardinality(CycleNodes(tasks)) >= 2
    <3>1. tasks' = Merge(tasks, CycleNodes(tasks)) /\ repaired' = TRUE
      BY <1>2, <2>2 DEF MergeCycle
    <3>2. CycleNodes(tasks) \subseteq Ids(tasks) /\ CycleNodes(tasks) # {}
      <4>1. Cardinality({}) = 0
        BY FS_EmptySet
      <4>2. CycleNodes(tasks) \subseteq Ids(tasks)
        BY DEF CycleNodes
      <4>3. QED
        BY <2>2, <4>1, <4>2
    <3>3. /\ tasks' \subseteq Task /\ IsFiniteSet(tasks') /\ tasks' # {}
          /\ StandsFor(tasks', proposal)
      BY <1>1, <2>1, <3>1, <3>2, MergeKeeps
    <3>4. QED
      BY <1>1, <2>1, <3>1, <3>3 DEF CompilerInv, TypeOK, IsPlan
  <2>3. CASE ~(Cardinality(CycleNodes(tasks)) >= 2)
    <3>1. UNCHANGED <<tasks, repaired>>
      BY <1>2, <2>3 DEF MergeCycle
    <3>2. QED
      BY <1>1, <2>1, <3>1 DEF CompilerInv, TypeOK, IsPlan
  <2>4. QED
    BY <2>2, <2>3
<1>3. CASE MergeOverlap
  <2>1. PICK l \in tasks, r \in tasks : tasks' = Merge(tasks, {l.id, r.id})
    BY <1>3 DEF MergeOverlap
  <2>2. phase = "overlaps" /\ phase' = phase /\ proposal' = proposal /\ repaired' = TRUE
    BY <1>3 DEF MergeOverlap
  <2>3. {l.id, r.id} \subseteq Ids(tasks) /\ {l.id, r.id} # {}
    BY DEF Ids
  <2>4. /\ tasks' \subseteq Task /\ IsFiniteSet(tasks') /\ tasks' # {}
        /\ StandsFor(tasks', proposal)
    BY <1>1, <2>1, <2>2, <2>3, MergeKeeps
  <2>5. QED
    BY <1>1, <2>2, <2>4 DEF CompilerInv, TypeOK, IsPlan
<1>4. CASE Conclude
  <2>1. phase = "overlaps" /\ proposal' = proposal /\ StandsFor(tasks, proposal)
    BY <1>1, <1>4 DEF Conclude
  <2>2. PICK K : K = WithKeys(tasks)
    OBVIOUS
  <2>3. /\ K \subseteq Task /\ IsFiniteSet(K) /\ K # {} /\ StandsFor(K, proposal) /\ Keyed(K)
        /\ (\A t \in tasks : \E i \in t.id : t.id = {i}) => \A t \in K : \E i \in t.id : t.id = {i}
    BY <1>1, <2>1, <2>2, WithKeysKeeps
  <2>4. CASE CandidateRaises(K)
    <3>1. phase' = "raised" /\ tasks' = K /\ repaired' = repaired
      BY <1>4, <2>2, <2>4 DEF Conclude
    <3>2. QED
      BY <1>1, <2>1, <2>3, <3>1 DEF CompilerInv, TypeOK, IsPlan
  <2>5. CASE ~CandidateRaises(K) /\ Invalid(K, proposal)
    <3>1. phase' = "single" /\ tasks' = {Whole(proposal)} /\ repaired' = TRUE
      BY <1>4, <2>2, <2>5 DEF Conclude
    <3>2. tasks' \subseteq Task /\ IsFiniteSet(tasks') /\ tasks' # {}
      BY <1>1, <3>1, WholeIsATask, FS_Singleton
    <3>3. QED
      BY <1>1, <2>1, <3>1, <3>2 DEF CompilerInv, TypeOK, IsPlan
  <2>6. CASE ~CandidateRaises(K) /\ ~Invalid(K, proposal)
    <3>1. phase' = "plan" /\ tasks' = K /\ repaired' = repaired
      BY <1>4, <2>2, <2>6 DEF Conclude
    <3>2. Analysable(tasks') /\ Keyed(tasks')
      BY <2>3, <2>6, <3>1 DEF CandidateRaises
    <3>4. Bounded(tasks')
      BY <1>1, <2>3, <2>6, <3>1 DEF Invalid, Bounded, Task
    <3>3. QED
      BY <1>1, <2>1, <2>3, <3>1, <3>2, <3>4 DEF CompilerInv, TypeOK, IsPlan
  <2>7. QED
    BY <2>4, <2>5, <2>6
<1>5. CASE UNCHANGED vars
  BY <1>5 DEF vars, CompilerInv, TypeOK, IsPlan
<1>6. QED
  BY <1>2, <1>3, <1>4, <1>5 DEF Next

THEOREM CompilerInvariant == Spec => []CompilerInv
  BY CompilerInvInit, CompilerInvNext, PTL DEF Spec

-------------------------------------------------------------------------------
(* What follows from it.                                                        *)

\* What is approved without a human is what was proposed, one task for one.
THEOREM AutoApprovalIsOfTheProposal == Spec => []AutoApprovedAsProposed
<1>1. CompilerInv => AutoApprovedAsProposed
  <2> SUFFICES ASSUME CompilerInv, Compiled, phase # "raised", ~repaired
               PROVE  IsPlan /\ \A t \in tasks : Cardinality(t.id) = 1
    BY DEF AutoApprovedAsProposed
  <2>1. phase # "single" /\ \A t \in tasks : \E i \in t.id : t.id = {i}
    BY DEF CompilerInv
  <2>2. IsPlan
    BY <2>1 DEF Compiled, IsPlan
  <2>3. \A t \in tasks : Cardinality(t.id) = 1
    BY <2>1, FS_Singleton
  <2>4. QED
    BY <2>2, <2>3
<1>2. QED
  BY <1>1, CompilerInvariant, PTL

\* Two writing tasks of a plan share a key where a likely path of one is, or lies
\* below, one of the other as the two are written.
THEOREM WritersShareAKey == Spec => []WritersExclusive
<1>1. CompilerInv => WritersExclusive
  <2> SUFFICES ASSUME CompilerInv, IsPlan, NEW t \in tasks, NEW u \in tasks,
                      t # u, ~t.readOnly, ~u.readOnly,
                      \E a \in t.paths, b \in u.paths : IsPrefix(a, b) \/ IsPrefix(b, a)
               PROVE  t.resources \cap u.resources # {}
    BY DEF WritersExclusive
  <2>1. t \in Task /\ u \in Task /\ Keyed(tasks)
    BY DEF CompilerInv, TypeOK
  <2>2. Overlaps(t, u) # {}
    BY <2>1, OverlapsAre
  <2>3. QED
    BY <2>1, <2>2 DEF Keyed, Conflict
<1>2. QED
  BY <1>1, CompilerInvariant, PTL

\* A plan is a graph without a cycle.
LEMMA PlanIsADag ==
  ASSUME CompilerInv, IsPlan
  PROVE  Dag(tasks)
<1>1. /\ tasks \subseteq Task /\ IsFiniteSet(tasks) /\ Analysable(tasks)
      /\ Partition(tasks, proposal)
  BY DEF CompilerInv, TypeOK, IsPlan, StandsFor
<1>2. \A t, u \in tasks : t.id = u.id => t = u
  BY <1>1 DEF Partition
<1>3. \A t \in tasks : t.duration \in Nat \ {0}
  BY <1>1 DEF Task
<1>4. QED
  BY <1>1, <1>2, <1>3 DEF Dag, Graph, Analysable

\* The compiled graph does all that was proposed, in the order that needs.
THEOREM ProposalIsPreserved == Spec => []ProposalPreserved
<1>1. CompilerInv => ProposalPreserved
  <2> SUFFICES ASSUME CompilerInv, IsPlan PROVE ProducersFirst /\ ScopePreserved
    BY DEF ProposalPreserved, ProducersFirst, ScopePreserved
  <2>1. Graph(tasks) /\ StandsFor(tasks, proposal)
    BY PlanIsADag DEF Dag, CompilerInv, IsPlan
  <2>2. ASSUME NEW i \in Kept(proposal), NEW j \in Requires(proposal, i)
        PROVE  \E t, u \in tasks :
                 i \in t.id /\ j \in u.id /\ (t = u \/ u.id \in Ancestors(tasks)[t.id])
    <3>1. PICK t \in tasks : i \in t.id
      BY <2>1 DEF StandsFor, Partition
    <3>2. CASE j \in t.id
      BY <3>1, <3>2
    <3>3. CASE j \notin t.id
      <4>1. PICK D \in t.deps : j \in D
        BY <2>1, <3>1, <3>3 DEF StandsFor, Ordered
      <4>2. PICK u \in tasks : u.id = D
        BY <2>1 DEF Graph, Ids
      <4>3. t.id \in Ids(tasks) /\ Depends(tasks)[t.id] = t.deps
        BY <2>1, GraphIds
      <4>4. D \in Ancestors(tasks)[t.id]
        BY <2>1, <4>3, AncestorsAre
      <4>5. QED
        BY <3>1, <4>1, <4>2, <4>4
    <3>4. QED
      BY <3>2, <3>3
  <2>3. ASSUME NEW i \in Kept(proposal) PROVE Cardinality({t \in tasks : i \in t.id}) = 1
    <3>1. PICK t \in tasks : i \in t.id
      BY <2>1 DEF StandsFor, Partition
    <3>2. {u \in tasks : i \in u.id} = {t}
      BY <2>1, <3>1 DEF StandsFor, Partition
    <3>3. QED
      BY <3>2, FS_Singleton
  <2>4. QED
    BY <2>1, <2>2, <2>3 DEF ProducersFirst, ScopePreserved, StandsFor, Scoped
<1>2. QED
  BY <1>1, CompilerInvariant, PTL

\* The span, the critical path, the ranks and the recommended slots are what they
\* are shown as.
THEOREM AnalysisOfAPlanIsTrue == Spec => []AnalysisIsTrue
<1>1. CompilerInv => AnalysisIsTrue
  <2> SUFFICES ASSUME CompilerInv, IsPlan PROVE SpanIsLongestChain /\ SlotsAreUsable
    BY DEF AnalysisIsTrue, SpanIsLongestChain, SlotsAreUsable
  <2>1. Dag(tasks) /\ tasks # {}
    BY PlanIsADag DEF CompilerInv, TypeOK
  <2>2. SpanIsLongestChain
    BY <2>1, SpanIsTrue DEF SpanIsLongestChain
  <2>3. SlotsAreUsable
    BY <2>1, SlotsAreTrue DEF SlotsAreUsable
  <2>4. QED
    BY <2>2, <2>3
<1>2. QED
  BY <1>1, CompilerInvariant, PTL

-------------------------------------------------------------------------------
(* A valid proposal whose tasks share little is kept.                           *)

LEMMA NoPairIsTooClose ==
  ASSUME OverlapPercent >= 34, NEW p \in Proposals, Clean(p),
         NEW l \in EdgesOf(p), NEW r \in EdgesOf(p)
  PROVE  ~TooClose(l, r)
<1>1. SUFFICES ASSUME l # r PROVE ~Exceeds(l, r)
  BY DEF TooClose
<1>2. PICK c, u : c = Cardinality(Overlaps(l, r)) /\ u = Cardinality(l.paths \cup r.paths)
  OBVIOUS
<1>3. l \in Task /\ r \in Task
  BY EdgesAre
<1>4. IsFiniteSet(l.paths \cup r.paths)
  <2>1. \A t \in EdgesOf(p) : t.paths \subseteq Paths
    BY ProposalIs DEF EdgesOf
  <2>2. QED
    BY <2>1, PathsAre, FS_Subset
<1>5. c \in Nat /\ u \in Nat
  <2>1. IsFiniteSet(Overlaps(l, r))
    BY <1>3, <1>4, OverlapsAre, FS_Subset
  <2>2. QED
    BY <1>2, <1>4, <2>1, FS_CardinalityType
<1>6. 3 * c <= u
  BY <1>1, <1>2 DEF Clean
<1>7. PICK m : m = Max({1, u})
  OBVIOUS
<1>8. m \in Nat /\ u <= m
  <2>1. \E x \in {1, u} : \A y \in {1, u} : x >= y
    BY <1>5
  <2>2. m \in {1, u} /\ \A y \in {1, u} : m >= y
    BY <1>7, <2>1 DEF Max
  <2>3. QED
    BY <1>5, <2>2
<1>9. ~(100 * c > OverlapPercent * m)
  <2>1. OverlapPercent \in Nat
    BY CompilerAssumption
  <2>2. PICK d \in Nat : OverlapPercent = 34 + d
    <3>1. OverlapPercent - 34 \in Nat /\ OverlapPercent = 34 + (OverlapPercent - 34)
      BY <2>1
    <3>2. QED
      BY <3>1
  <2>3. OverlapPercent * m = 34 * m + d * m /\ d * m \in Nat
    BY <1>8, <2>2
  <2>4. PICK x \in Nat : x = d * m
    BY <2>3
  <2>5. OverlapPercent * m = 34 * m + x
    BY <2>3, <2>4
  <2>6. PICK y : y = OverlapPercent * m
    OBVIOUS
  <2>7. y = 34 * m + x
    BY <2>5, <2>6
  <2>8. ~(100 * c > y)
    BY <1>5, <1>6, <1>8, <2>4, <2>7
  <2>9. QED
    BY <2>6, <2>8
<1>10. QED
  BY <1>2, <1>7, <1>9 DEF Exceeds

\* Such a proposal has no cycle, with keys or without, ...
LEMMA CleanIsValid ==
  ASSUME NEW p \in Proposals, Clean(p)
  PROVE  LET G == EdgesOf(p) IN
         /\ CycleNodes(G) = {} /\ Analysable(WithKeys(G)) /\ ~Invalid(WithKeys(G), p)
         /\ Ids(WithKeys(G)) = Ids(G)
<1>1. PICK G : G = EdgesOf(p)
  OBVIOUS
<1>2. PICK K : K = WithKeys(G)
  OBVIOUS
<1>3. Analysable(G) /\ ~Invalid(K, p)
  BY <1>1, <1>2 DEF Clean
<1>4. Ids(K) = Ids(G) /\ Depends(K) = Depends(G) /\ Partition(K, p) /\ Partition(G, p)
  BY <1>1, <1>2, EdgesAre, WithKeysKeeps DEF StandsFor
<1>5. CycleNodes(K) = CycleNodes(G) /\ Ancestors(K) = Ancestors(G)
  BY <1>4, Zenon DEF CycleNodes, Ancestors, Rounds
<1>6. CycleNodes(G) = {}
  BY <1>3, <1>5 DEF Invalid
<1>7. \A t \in K : t.deps \subseteq Ids(K)
  <2>1. \A t, u \in K : t.id = u.id => t = u
    BY <1>4 DEF Partition
  <2>2. ASSUME NEW t \in K PROVE Depends(K)[t.id] = t.deps /\ t.id \in Ids(K)
    <3>1. t.id \in Ids(K)
      BY DEF Ids
    <3>2. TaskOf(K, t.id) = t
      BY <2>1 DEF TaskOf
    <3>3. QED
      BY <3>1, <3>2 DEF Depends
  <2>3. ASSUME NEW i \in Ids(G) PROVE Depends(G)[i] \subseteq Ids(G)
    <3>1. TaskOf(G, i) \in G
      BY DEF TaskOf, Ids
    <3>2. QED
      BY <1>3, <3>1 DEF Depends, Analysable
  <2>4. QED
    BY <1>4, <2>2, <2>3
<1>8. Analysable(K)
  BY <1>3, <1>4, <1>5, <1>7 DEF Analysable
<1>9. QED
  BY <1>1, <1>2, <1>3, <1>4, <1>6, <1>8

\* ... so no step does anything to it.
LEMMA CleanInvNext ==
  ASSUME OverlapPercent >= 34
  PROVE  CompilerInv /\ CleanInv /\ [Next]_vars => CleanInv'
<1> SUFFICES ASSUME CompilerInv, CleanInv, [Next]_vars, Clean(proposal')
             PROVE  /\ phase' \in {"cycles", "overlaps", "plan"}
                    /\ phase' # "plan" => tasks' = EdgesOf(proposal')
                    /\ phase' = "plan" => Ids(tasks') = Ids(EdgesOf(proposal'))
  BY DEF CleanInv, IsPlan
<1>1. proposal' = proposal
  BY DEF Next, MergeCycle, MergeOverlap, Conclude, vars
<1>2. PICK p : p = proposal
  OBVIOUS
<1>3. /\ p \in Proposals /\ Clean(p) /\ proposal' = p
      /\ phase \in {"cycles", "overlaps", "plan"}
      /\ phase # "plan" => tasks = EdgesOf(p)
      /\ phase = "plan" => Ids(tasks) = Ids(EdgesOf(p))
  BY <1>1, <1>2 DEF CleanInv, CompilerInv, TypeOK, IsPlan
<1>4. CASE MergeCycle
  <2>1. phase = "cycles" /\ phase' = "overlaps" /\ tasks = EdgesOf(p)
    BY <1>3, <1>4 DEF MergeCycle
  <2>2. CycleNodes(tasks) = {}
    BY <1>3, <2>1, CleanIsValid
  <2>3. ~(Cardinality(CycleNodes(tasks)) >= 2)
    BY <2>2, FS_EmptySet
  <2>4. tasks' = tasks
    BY <1>4, <2>3 DEF MergeCycle
  <2>5. QED
    BY <1>3, <2>1, <2>4
<1>5. CASE MergeOverlap
  <2>1. phase = "overlaps" /\ \E l, r \in tasks : TooClose(l, r)
    BY <1>5 DEF MergeOverlap
  <2>2. QED
    BY <1>3, <2>1, NoPairIsTooClose
<1>6. CASE Conclude
  <2>1. phase = "overlaps" /\ tasks = EdgesOf(p)
    BY <1>3, <1>6 DEF Conclude
  <2>2. PICK K : K = WithKeys(tasks)
    OBVIOUS
  <2>3. Analysable(K) /\ ~Invalid(K, p) /\ Ids(K) = Ids(tasks)
    BY <1>3, <2>1, <2>2, CleanIsValid
  <2>4. phase' = "plan" /\ tasks' = K
    BY <1>2, <1>6, <2>2, <2>3 DEF Conclude, CandidateRaises
  <2>5. QED
    BY <1>3, <2>1, <2>3, <2>4
<1>7. CASE UNCHANGED vars
  BY <1>3, <1>7 DEF vars
<1>8. QED
  BY <1>4, <1>5, <1>6, <1>7 DEF Next

\* With a limit of 34 percent or more (it is 35 by default), a valid proposal whose
\* tasks share at most a third of their scope is compiled task by task.
THEOREM CleanProposalIsKept ==
  ASSUME OverlapPercent >= 34
  PROVE  Spec => []CleanIsKept
<1>1. Init => CleanInv
  BY DEF Init, CleanInv, IsPlan
<1>2. CleanInv => CleanIsKept
  <2> SUFFICES ASSUME CleanInv, Compiled, Clean(proposal)
               PROVE  IsPlan /\ Ids(tasks) = Ids(EdgesOf(proposal))
    BY DEF CleanIsKept, Clean
  <2>1. IsPlan
    BY DEF CleanInv, Compiled, IsPlan
  <2>2. QED
    BY <2>1 DEF CleanInv
<1>3. Spec => []CleanInv
  <2>1. CompilerInv /\ CleanInv /\ [Next]_vars => CleanInv'
    BY CleanInvNext
  <2>2. QED
    BY <1>1, <2>1, CompilerInvariant, PTL DEF Spec
<1>4. QED
  BY <1>2, <1>3, PTL

-------------------------------------------------------------------------------
(* Path patterns.  The pattern of a scope is a path, or a path and "**" at its  *)
(* end; for these the match has a closed form, which solves its recursion, and  *)
(* nothing else does.                                                           *)

IsMatch(match, path, pattern) ==
  match = [at \in (0..Len(path)) \X (0..Len(pattern)) |->
        LET i == at[1]
            j == at[2]
        IN IF j = Len(pattern) THEN i = Len(path)
           ELSE IF pattern[j + 1] = "**"
                THEN match[<<i, j + 1>>] \/ (i < Len(path) /\ match[<<i + 1, j>>])
                ELSE /\ i < Len(path) /\ PartMatches(path[i + 1], pattern[j + 1])
                     /\ match[<<i + 1, j + 1>>]]

\* The next l parts agree.
Agree(path, pattern, i, j, l) == \A k \in 1..l : path[i + k] = pattern[j + k]
Fits(path, pattern, i, j) ==
  LET m == Len(path)
      n == Len(pattern)
  IN IF j = n THEN i = m
     ELSE IF pattern[n] = "**"
          THEN (n - 1) - j <= m - i /\ Agree(path, pattern, i, j, (n - 1) - j)
          ELSE n - j = m - i /\ Agree(path, pattern, i, j, n - j)

Parts == STRING \cup {"**"}   \* of paths and patterns

\* A pattern of a scope: no part but the last is a wildcard.
ScopePattern(pattern) ==
  /\ pattern \in Seq(Parts) /\ pattern # <<>>
  /\ \A k \in DOMAIN pattern : pattern[k] # "*" /\ (pattern[k] = "**" => k = Len(pattern))

\* A path is a sequence of parts.  (The provers do not know that "**" is a string.)
LEMMA PathsOfParts ==
  ASSUME NEW path \in Seq(STRING)
  PROVE  path \in Seq(Parts)
  BY DEF Parts

LEMMA AgreeOnOneMore ==
  ASSUME NEW path, NEW pattern, NEW i \in Nat, NEW j \in Nat, NEW l \in Nat, l # 0
  PROVE  Agree(path, pattern, i, j, l) <=>
         path[i + 1] = pattern[j + 1] /\ Agree(path, pattern, i + 1, j + 1, l - 1)
<1>1. ASSUME Agree(path, pattern, i, j, l)
      PROVE  path[i + 1] = pattern[j + 1] /\ Agree(path, pattern, i + 1, j + 1, l - 1)
  <2>1. path[i + 1] = pattern[j + 1]
    BY <1>1 DEF Agree
  <2>2. ASSUME NEW k \in 1..(l - 1) PROVE path[(i + 1) + k] = pattern[(j + 1) + k]
    <3>1. k + 1 \in 1..l /\ (i + 1) + k = i + (k + 1) /\ (j + 1) + k = j + (k + 1)
      OBVIOUS
    <3>2. QED
      BY <1>1, <3>1 DEF Agree
  <2>3. QED
    BY <2>1, <2>2 DEF Agree
<1>2. ASSUME path[i + 1] = pattern[j + 1], Agree(path, pattern, i + 1, j + 1, l - 1)
      PROVE  Agree(path, pattern, i, j, l)
  <2>1. ASSUME NEW k \in 1..l PROVE path[i + k] = pattern[j + k]
    <3>1. CASE k = 1
      BY <1>2, <3>1
    <3>2. CASE k # 1
      <4>1. k - 1 \in 1..(l - 1) /\ (i + 1) + (k - 1) = i + k /\ (j + 1) + (k - 1) = j + k
        BY <3>2
      <4>2. QED
        BY <1>2, <4>1 DEF Agree
    <3>3. QED
      BY <3>1, <3>2
  <2>2. QED
    BY <2>1 DEF Agree
<1>3. QED
  BY <1>1, <1>2

\* The closed form solves the recursion at one pair of positions, ...
LEMMA FitsStep ==
  ASSUME NEW path \in Seq(STRING), NEW pattern, ScopePattern(pattern),
         NEW i \in 0..Len(path), NEW j \in 0..Len(pattern), j # Len(pattern)
  PROVE  Fits(path, pattern, i, j) <=>
         IF pattern[j + 1] = "**"
         THEN Fits(path, pattern, i, j + 1) \/ (i < Len(path) /\ Fits(path, pattern, i + 1, j))
         ELSE /\ i < Len(path) /\ PartMatches(path[i + 1], pattern[j + 1])
              /\ Fits(path, pattern, i + 1, j + 1)
<1>1. PICK m, n : m = Len(path) /\ n = Len(pattern)
  OBVIOUS
<1>2. m \in Nat /\ n \in Nat /\ i \in 0..m /\ j \in 0..n /\ j # n /\ j + 1 \in 1..n
  BY <1>1 DEF ScopePattern
<1>3. /\ DOMAIN pattern = 1..n
      /\ pattern[j + 1] # "*" /\ (pattern[j + 1] = "**" => j + 1 = n)
  BY <1>1, <1>2 DEF ScopePattern
<1>4. \A a, b : Fits(path, pattern, a, b) <=>
        IF b = n THEN a = m
        ELSE IF pattern[n] = "**"
             THEN (n - 1) - b <= m - a /\ Agree(path, pattern, a, b, (n - 1) - b)
             ELSE n - b = m - a /\ Agree(path, pattern, a, b, n - b)
  BY <1>1 DEF Fits
<1>5. \A a, b : Agree(path, pattern, a, b, 0)
  BY DEF Agree
<1>6. i \in Nat /\ j \in Nat
  BY <1>2
<1>7. CASE pattern[j + 1] = "**"
  <2>1. j + 1 = n /\ pattern[n] = "**" /\ (n - 1) - j = 0
    BY <1>2, <1>3, <1>7
  <2>2. \A a \in 0..m : Fits(path, pattern, a, j)
    BY <1>2, <1>4, <1>5, <2>1
  <2>3. Fits(path, pattern, i, j + 1) <=> i = m
    BY <1>4, <2>1
  <2>4. i < m => i + 1 \in 0..m
    BY <1>2
  <2>5. i = m \/ i < m
    BY <1>2
  <2>6. QED
    BY <1>1, <1>2, <1>7, <2>2, <2>3, <2>4, <2>5
<1>8. CASE pattern[j + 1] # "**"
  <2>1. PartMatches(path[i + 1], pattern[j + 1]) <=> path[i + 1] = pattern[j + 1]
    BY <1>3 DEF PartMatches
  <2>2. CASE pattern[n] = "**"
    <3>1. j + 1 # n /\ (n - 1) - j \in Nat /\ (n - 1) - j # 0
      BY <1>2, <1>8, <2>2
    <3>2. PICK l : l = (n - 1) - j
      OBVIOUS
    <3>3. l \in Nat /\ l # 0 /\ (n - 1) - (j + 1) = l - 1
      BY <1>2, <3>1, <3>2
    <3>4. Fits(path, pattern, i, j) <=> l <= m - i /\ Agree(path, pattern, i, j, l)
      BY <1>2, <1>4, <2>2, <3>2
    <3>5. Fits(path, pattern, i + 1, j + 1) <=>
            l - 1 <= m - (i + 1) /\ Agree(path, pattern, i + 1, j + 1, l - 1)
      BY <1>4, <2>2, <3>1, <3>3
    <3>6. l <= m - i <=> i < m /\ l - 1 <= m - (i + 1)
      BY <1>2, <3>3
    <3>7. Agree(path, pattern, i, j, l) <=>
            path[i + 1] = pattern[j + 1] /\ Agree(path, pattern, i + 1, j + 1, l - 1)
      BY <1>6, <3>3, AgreeOnOneMore
    <3>8. QED
      BY <1>1, <1>8, <2>1, <3>4, <3>5, <3>6, <3>7
  <2>3. CASE pattern[n] # "**"
    <3>1. PICK l : l = n - j
      OBVIOUS
    <3>2. l \in Nat /\ l # 0 /\ n - (j + 1) = l - 1
      BY <1>2, <3>1
    <3>3. Fits(path, pattern, i, j) <=> l = m - i /\ Agree(path, pattern, i, j, l)
      BY <1>2, <1>4, <2>3, <3>1
    <3>4. Fits(path, pattern, i + 1, j + 1) <=>
            l - 1 = m - (i + 1) /\ Agree(path, pattern, i + 1, j + 1, l - 1)
      <4>1. CASE j + 1 = n
        <5>1. l - 1 = 0 /\ (0 = m - (i + 1) <=> i + 1 = m)
          BY <1>2, <3>2, <4>1
        <5>2. QED
          BY <1>4, <1>5, <4>1, <5>1
      <4>2. CASE j + 1 # n
        BY <1>4, <2>3, <3>2, <4>2
      <4>3. QED
        BY <4>1, <4>2
    <3>5. l = m - i <=> i < m /\ l - 1 = m - (i + 1)
      BY <1>2, <3>2
    <3>6. Agree(path, pattern, i, j, l) <=>
            path[i + 1] = pattern[j + 1] /\ Agree(path, pattern, i + 1, j + 1, l - 1)
      BY <1>6, <3>2, AgreeOnOneMore
    <3>7. QED
      BY <1>1, <1>8, <2>1, <3>3, <3>4, <3>5, <3>6
  <2>4. QED
    BY <2>2, <2>3
<1>9. QED
  BY <1>7, <1>8

\* ... so it solves the recursion, ...
LEMMA FitsSolves ==
  ASSUME NEW path \in Seq(STRING), NEW pattern, ScopePattern(pattern),
         NEW f, f = [at \in (0..Len(path)) \X (0..Len(pattern)) |-> Fits(path, pattern, at[1], at[2])]
  PROVE  IsMatch(f, path, pattern)
<1>1. PICK m, n : m = Len(path) /\ n = Len(pattern)
  OBVIOUS
<1>2. m \in Nat /\ n \in Nat
  BY <1>1 DEF ScopePattern
<1>3. ASSUME NEW i \in 0..m, NEW j \in 0..n PROVE f[<<i, j>>] = Fits(path, pattern, i, j)
  <2>1. <<i, j>> \in (0..Len(path)) \X (0..Len(pattern)) /\ <<i, j>>[1] = i /\ <<i, j>>[2] = j
    BY <1>1
  <2>2. QED
    BY <2>1
<1> DEFINE Body(i, j) ==
      IF j = Len(pattern) THEN i = Len(path)
      ELSE IF pattern[j + 1] = "**"
           THEN f[<<i, j + 1>>] \/ (i < Len(path) /\ f[<<i + 1, j>>])
           ELSE /\ i < Len(path) /\ PartMatches(path[i + 1], pattern[j + 1])
                /\ f[<<i + 1, j + 1>>]
<1>4. ASSUME NEW i \in 0..m, NEW j \in 0..n PROVE Fits(path, pattern, i, j) <=> Body(i, j)
  <2>1. CASE j = n
    BY <1>1, <2>1 DEF Fits
  <2>2. CASE j # n
    <3>1. j + 1 \in 0..n /\ (i < m => i + 1 \in 0..m)
      BY <1>2, <2>2
    <3>2. Fits(path, pattern, i, j) <=>
            IF pattern[j + 1] = "**"
            THEN Fits(path, pattern, i, j + 1) \/ (i < Len(path) /\ Fits(path, pattern, i + 1, j))
            ELSE /\ i < Len(path) /\ PartMatches(path[i + 1], pattern[j + 1])
                 /\ Fits(path, pattern, i + 1, j + 1)
      BY <1>1, <2>2, FitsStep
    <3>3. f[<<i, j + 1>>] = Fits(path, pattern, i, j + 1)
      BY <1>3, <3>1
    <3>4. i < m => f[<<i + 1, j>>] = Fits(path, pattern, i + 1, j)
      BY <1>3, <3>1
    <3>5. i < m => f[<<i + 1, j + 1>>] = Fits(path, pattern, i + 1, j + 1)
      BY <1>3, <3>1
    <3>6. QED
      BY <1>1, <2>2, <3>2, <3>3, <3>4, <3>5
  <2>3. QED
    BY <2>1, <2>2
<1>5. \A i, j : Fits(path, pattern, i, j) \in BOOLEAN
  BY DEF Fits
<1>6. \A i, j : Body(i, j) \in BOOLEAN
  OBVIOUS
<1>7. ASSUME NEW at \in (0..Len(path)) \X (0..Len(pattern))
      PROVE  Fits(path, pattern, at[1], at[2]) = Body(at[1], at[2])
  <2>1. PICK i \in 0..m, j \in 0..n : i = at[1] /\ j = at[2]
    BY <1>1
  <2> HIDE DEF Body
  <2>2. Fits(path, pattern, i, j) <=> Body(i, j)
    BY <1>4
  <2>3. Fits(path, pattern, i, j) = Body(i, j)
    BY <1>5, <1>6, <2>2
  <2>4. QED
    BY <2>1, <2>3
<1>8. QED
  BY <1>7 DEF IsMatch

\* ... and nothing else does.
LEMMA MatchIsUnique ==
  ASSUME NEW path \in Seq(STRING), NEW pattern \in Seq(Parts),
         NEW f, IsMatch(f, path, pattern), NEW g, IsMatch(g, path, pattern),
         NEW i \in 0..Len(path), NEW j \in 0..Len(pattern)
  PROVE  f[<<i, j>>] = g[<<i, j>>]
<1>1. PICK m, n : m = Len(path) /\ n = Len(pattern)
  OBVIOUS
<1>2. m \in Nat /\ n \in Nat
  BY <1>1
<1> DEFINE Body(h, a, b) ==
      IF b = Len(pattern) THEN a = Len(path)
      ELSE IF pattern[b + 1] = "**"
           THEN h[<<a, b + 1>>] \/ (a < Len(path) /\ h[<<a + 1, b>>])
           ELSE /\ a < Len(path) /\ PartMatches(path[a + 1], pattern[b + 1])
                /\ h[<<a + 1, b + 1>>]
<1>3. ASSUME NEW h, IsMatch(h, path, pattern), NEW a \in 0..m, NEW b \in 0..n
      PROVE  h[<<a, b>>] = Body(h, a, b)
  <2>1. <<a, b>> \in (0..Len(path)) \X (0..Len(pattern)) /\ <<a, b>>[1] = a /\ <<a, b>>[2] = b
    BY <1>1
  <2>2. QED
    BY <1>3, <2>1 DEF IsMatch
<1>4. ASSUME NEW Bad,
             Bad = {k \in Nat : \E a \in 0..m, b \in 0..n :
                      k = (m - a) + (n - b) /\ f[<<a, b>>] # g[<<a, b>>]},
             Bad # {}
      PROVE  FALSE
  <2>1. PICK k \in Bad : \A l \in Bad : k <= l
    BY <1>4, NatLeast
  <2>2. PICK a \in 0..m, b \in 0..n : k = (m - a) + (n - b) /\ f[<<a, b>>] # g[<<a, b>>]
    BY <1>4, <2>1
  <2>3. ASSUME NEW c \in 0..m, NEW d \in 0..n, (m - c) + (n - d) < k
        PROVE  f[<<c, d>>] = g[<<c, d>>]
    <3>1. PICK l : l = (m - c) + (n - d)
      OBVIOUS
    <3>2. l \in Nat /\ k \in Nat /\ l < k
      BY <1>2, <1>4, <2>1, <2>3, <3>1
    <3>3. l \notin Bad
      BY <2>1, <3>2
    <3>4. QED
      BY <1>4, <3>1, <3>2, <3>3
  <2>4. b # n => f[<<a, b + 1>>] = g[<<a, b + 1>>]
    BY <1>2, <2>2, <2>3
  <2>5. a < m => f[<<a + 1, b>>] = g[<<a + 1, b>>]
    BY <1>2, <2>2, <2>3
  <2>6. a < m /\ b # n => f[<<a + 1, b + 1>>] = g[<<a + 1, b + 1>>]
    BY <1>2, <2>2, <2>3
  <2>7. f[<<a, b>>] = Body(f, a, b) /\ g[<<a, b>>] = Body(g, a, b)
    BY <1>3
  <2>8. Body(f, a, b) = Body(g, a, b)
    BY <1>1, <2>4, <2>5, <2>6
  <2>9. QED
    BY <2>2, <2>7, <2>8
<1>5. {k \in Nat : \E a \in 0..m, b \in 0..n :
         k = (m - a) + (n - b) /\ f[<<a, b>>] # g[<<a, b>>]} = {}
  BY <1>4
<1>6. (m - i) + (n - j) \in Nat /\ i \in 0..m /\ j \in 0..n
  BY <1>1, <1>2
<1>7. QED
  BY <1>5, <1>6

LEMMA MatchFromIs ==
  ASSUME NEW path \in Seq(STRING), NEW pattern, ScopePattern(pattern)
  PROVE  MatchFrom(path, pattern)[<<0, 0>>] <=> Fits(path, pattern, 0, 0)
<1>1. PICK f :
        f = [at \in (0..Len(path)) \X (0..Len(pattern)) |-> Fits(path, pattern, at[1], at[2])]
  OBVIOUS
<1>2. IsMatch(f, path, pattern)
  BY <1>1, FitsSolves
<1>3. MatchFrom(path, pattern) = CHOOSE match : IsMatch(match, path, pattern)
  BY Zenon DEF MatchFrom, IsMatch
<1>4. IsMatch(MatchFrom(path, pattern), path, pattern)
  BY <1>2, <1>3
<1>5. 0 \in 0..Len(path) /\ 0 \in 0..Len(pattern) /\ pattern \in Seq(Parts)
  BY DEF ScopePattern
<1>6. MatchFrom(path, pattern)[<<0, 0>>] = f[<<0, 0>>]
  BY <1>2, <1>4, <1>5, MatchIsUnique
<1>7. f[<<0, 0>>] = Fits(path, pattern, 0, 0)
  <2>1. <<0, 0>> \in (0..Len(path)) \X (0..Len(pattern)) /\ <<0, 0>>[1] = 0 /\ <<0, 0>>[2] = 0
    BY <1>5
  <2>2. QED
    BY <1>1, <2>1
<1>8. QED
  BY <1>6, <1>7

LEMMA PrefixIs ==
  ASSUME NEW s \in Seq(STRING), NEW t \in Seq(STRING)
  PROVE  IsPrefix(s, t) <=> Len(s) <= Len(t) /\ \A k \in 1..Len(s) : s[k] = t[k]
<1>1. PICK m, n : m = Len(s) /\ n = Len(t)
  OBVIOUS
<1>2. m \in Nat /\ n \in Nat /\ DOMAIN s = 1..m /\ DOMAIN t = 1..n
  BY <1>1
<1>3. ASSUME m <= n
      PROVE  /\ SubSeq(s, 1, m) = [k \in 1..m |-> s[k]]
             /\ SubSeq(t, 1, m) = [k \in 1..m |-> t[k]]
  <2>1. SubSeq(s, 1, m) = [k \in 1..m |-> s[k]]
    BY <1>1, <1>2
  <2>2. SubSeq(t, 1, m) = [k \in 1..m |-> t[k]]
    BY <1>1, <1>2, <1>3
  <2>3. QED
    BY <2>1, <2>2
<1>4. ASSUME m <= n, SubSeq(s, 1, m) = SubSeq(t, 1, m), NEW k \in 1..m PROVE s[k] = t[k]
  <2>1. [x \in 1..m |-> s[x]][k] = [x \in 1..m |-> t[x]][k]
    BY <1>3, <1>4
  <2>2. QED
    BY <2>1
<1>5. ASSUME m <= n, \A k \in 1..m : s[k] = t[k] PROVE SubSeq(s, 1, m) = SubSeq(t, 1, m)
  BY <1>3, <1>5
<1>6. QED
  BY <1>1, <1>4, <1>5 DEF IsPrefix

LEMMA EmptySeq ==
  ASSUME NEW s \in Seq(STRING), Len(s) = 0
  PROVE  s = <<>>
  OBVIOUS

LEMMA SingleSeq ==
  ASSUME NEW s \in Seq(Parts), Len(s) = 1
  PROVE  s = <<s[1]>>
  OBVIOUS

\* A path without "./" in front.
LEMMA PartsAre ==
  /\ \A file \in Files : PartsOf(file) = file
  /\ \A path \in Paths :
       /\ PartsOf(path) \in Seq(STRING)
       /\ \A k \in 1..Len(PartsOf(path)) : PartsOf(path)[k] # "*" /\ PartsOf(path)[k] # "**"
       /\ PartsOf(Append(path, "**")) = Append(PartsOf(path), "**")
<1>1. ASSUME NEW file \in Files PROVE PartsOf(file) = file
  BY PathsAssumption DEF PartsOf
<1>2. ASSUME NEW path \in Paths
      PROVE  /\ PartsOf(path) \in Seq(STRING)
             /\ \A k \in 1..Len(PartsOf(path)) : PartsOf(path)[k] # "*" /\ PartsOf(path)[k] # "**"
             /\ PartsOf(Append(path, "**")) = Append(PartsOf(path), "**")
  <2>1. /\ path \in Seq(STRING) /\ path # <<>>
        /\ \A k \in DOMAIN path : path[k] # "*" /\ path[k] # "**"
    BY PathsAssumption
  <2>2. PICK n : n = Len(path)
    OBVIOUS
  <2>3. n \in Nat \ {0} /\ DOMAIN path = 1..n /\ path \in Seq(Parts)
    BY <2>1, <2>2, PathsOfParts
  <2>4. PICK longer : longer = Append(path, "**")
    OBVIOUS
  <2>5. /\ longer \in Seq(Parts) /\ longer # <<>> /\ Len(longer) = n + 1 /\ longer[n + 1] = "**"
        /\ \A k \in 1..n : longer[k] = path[k]
    <3>1. "**" \in Parts
      BY DEF Parts
    <3>2. longer \in Seq(Parts) /\ Len(longer) = n + 1
      BY <2>2, <2>3, <2>4, <3>1
    <3>3. longer # <<>>
      BY <2>3, <3>2
    <3>4. longer[n + 1] = "**"
      BY <2>2, <2>3, <2>4, <3>1
    <3>5. ASSUME NEW k \in 1..n PROVE longer[k] = path[k]
      BY <2>2, <2>3, <2>4, <3>1
    <3>6. QED
      BY <3>2, <3>3, <3>4, <3>5
  <2>6. CASE path[1] = "."
    <3>1. PartsOf(path) = Tail(path) /\ PartsOf(longer) = Tail(longer)
      BY <2>1, <2>3, <2>5, <2>6 DEF PartsOf
    <3>2. Tail(path) \in Seq(STRING) /\ Len(Tail(path)) = n - 1
      BY <2>1, <2>2
    <3>3. \A k \in 1..(n - 1) : Tail(path)[k] = path[k + 1] /\ k + 1 \in 1..n
      BY <2>1, <2>2, <2>3
    <3>4. Tail(longer) \in Seq(Parts) /\ Len(Tail(longer)) = n
      BY <2>3, <2>5
    <3>5. \A k \in 1..n : Tail(longer)[k] = longer[k + 1]
      BY <2>3, <2>5
    <3>6. Tail(longer) = Append(Tail(path), "**")
      <4>1. PICK tail : tail = Tail(path)
        OBVIOUS
      <4>2. tail \in Seq(Parts) /\ Len(tail) = n - 1 /\ "**" \in Parts
        BY <3>2, <4>1, PathsOfParts DEF Parts
      <4>3. PICK whole : whole = Append(tail, "**")
        OBVIOUS
      <4>4. whole \in Seq(Parts) /\ Len(whole) = n /\ whole[n] = "**"
            /\ \A k \in 1..(n - 1) : whole[k] = tail[k]
        BY <2>3, <4>2, <4>3
      <4>5. \A k \in 1..n : whole[k] = Tail(longer)[k]
        <5>1. ASSUME NEW k \in 1..n PROVE whole[k] = Tail(longer)[k]
          <6>1. CASE k = n
            BY <2>5, <3>5, <4>4, <6>1
          <6>2. CASE k # n
            <7>1. k \in 1..(n - 1) /\ k + 1 \in 1..n
              BY <2>3, <6>2
            <7>2. QED
              BY <2>5, <3>3, <3>5, <4>1, <4>4, <7>1
          <6>3. QED
            BY <6>1, <6>2
        <5>2. QED
          BY <5>1
      <4>6. PICK rest : rest = Tail(longer)
        OBVIOUS
      <4>7. rest = whole
        BY <3>4, <4>4, <4>5, <4>6
      <4>8. QED
        BY <4>1, <4>3, <4>6, <4>7
    <3>7. QED
      BY <2>1, <2>3, <2>4, <3>1, <3>2, <3>3, <3>6
  <2>7. CASE path[1] # "."
    <3>1. PartsOf(path) = path /\ PartsOf(longer) = longer
      BY <2>3, <2>5, <2>7 DEF PartsOf
    <3>2. QED
      BY <2>1, <2>2, <2>3, <2>4, <3>1
  <2>8. QED
    BY <2>6, <2>7
<1>3. QED
  BY <1>1, <1>2

\* What the two patterns of a path allow, once it is without "./".
LEMMA PartsAllow ==
  ASSUME NEW path \in Seq(STRING), \A k \in 1..Len(path) : path[k] # "*" /\ path[k] # "**",
         NEW file \in Files
  PROVE  /\ PartsMatch(file, path) <=>
              path = file \/ (Len(path) = 1 /\ LastPart(file) = path[1])
         /\ PartsMatch(file, Append(path, "**")) <=> IsPrefix(path, file)
<1>1. /\ file \in Seq(STRING) /\ file # <<>>
      /\ \A k \in DOMAIN path : path[k] # "*" /\ path[k] # "**"
  BY PathsAssumption
<1>2. PICK m, n : m = Len(file) /\ n = Len(path)
  OBVIOUS
<1>3. m \in Nat \ {0} /\ n \in Nat /\ DOMAIN path = 1..n /\ DOMAIN file = 1..m
  BY <1>1, <1>2
<1>4. PartsMatch(file, path) <=> path = file \/ (Len(path) = 1 /\ LastPart(file) = path[1])
  <2>0. CASE n = 0
    <3>1. path = <<>>
      BY <1>2, <2>0, EmptySeq
    <3>3. path # file
      BY <1>1, <3>1
    <3>2. QED
      BY <1>2, <2>0, <3>1, <3>3 DEF PartsMatch
  <2>1. CASE n = 1
    <3>0. path[1] # "*" /\ path[1] # "**"
      <4>1. 1 \in 1..Len(path)
        BY <1>2, <2>1
      <4>2. QED
        BY <4>1
    <3>5. path # <<>>
      <4>1. n # 0
        BY <2>1
      <4>2. QED
        BY <1>2, <4>1
    <3>1. path[1] # "*" /\ path[1] # "**" /\ path # <<>> /\ path # <<"**">>
      BY <3>0, <3>5
    <3>2. PartsMatch(file, path) <=> LastPart(file) = path[1]
      BY <1>1, <1>2, <2>1, <3>1 DEF PartsMatch, PartMatches
    <3>3. path = file => LastPart(file) = path[1]
      BY <1>2, <2>1 DEF LastPart
    <3>4. QED
      BY <1>2, <2>1, <3>2, <3>3
  <2>2. CASE n # 0 /\ n # 1
    <3>0. path # <<>>
      BY <1>2, <2>2
    <3>1. PartsMatch(file, path) <=> MatchFrom(file, path)[<<0, 0>>]
      BY <1>1, <1>2, <2>2, <3>0 DEF PartsMatch
    <3>2. ScopePattern(path) /\ path[n] # "**"
      BY <1>1, <1>3, <2>2, <3>0, PathsOfParts DEF ScopePattern
    <3>3. MatchFrom(file, path)[<<0, 0>>] <=> Fits(file, path, 0, 0)
      BY <1>1, <3>2, MatchFromIs
    <3>4. Fits(file, path, 0, 0) <=> n = m /\ \A k \in 1..n : file[0 + k] = path[0 + k]
      <4>1. 0 # n /\ n - 0 = n /\ m - 0 = m
        BY <1>3, <2>2
      <4>2. QED
        BY <1>2, <3>2, <4>1 DEF Fits, Agree
    <3>5. (n = m /\ \A k \in 1..n : file[0 + k] = path[0 + k]) <=> path = file
      <4>1. \A k \in 1..n : 0 + k = k
        BY <1>3
      <4>2. ASSUME n = m, \A k \in 1..n : file[k] = path[k] PROVE path = file
        BY <1>1, <1>2, <1>3, <4>2
      <4>3. QED
        BY <1>2, <4>1, <4>2
    <3>6. QED
      BY <1>2, <2>2, <3>1, <3>3, <3>4, <3>5
  <2>3. QED
    BY <2>0, <2>1, <2>2
<1>5. PartsMatch(file, Append(path, "**")) <=> IsPrefix(path, file)
  <2>1. PICK pattern : pattern = Append(path, "**")
    OBVIOUS
  <2>2. /\ pattern \in Seq(Parts) /\ Len(pattern) = n + 1 /\ pattern[n + 1] = "**"
        /\ \A k \in 1..n : pattern[k] = path[k]
    <3>1. "**" \in Parts /\ path \in Seq(Parts)
      BY <1>1, PathsOfParts DEF Parts
    <3>2. pattern \in Seq(Parts) /\ Len(pattern) = n + 1
      BY <1>1, <1>2, <2>1, <3>1
    <3>3. pattern[n + 1] = "**"
      BY <1>1, <1>2, <2>1
    <3>4. ASSUME NEW k \in 1..n PROVE pattern[k] = path[k]
      BY <1>1, <1>2, <2>1
    <3>5. QED
      BY <3>2, <3>3, <3>4
  <2>3. ScopePattern(pattern)
    <3>1. DOMAIN pattern = 1..(n + 1) /\ pattern # <<>>
      BY <1>3, <2>2
    <3>2. ASSUME NEW k \in 1..(n + 1)
          PROVE  pattern[k] # "*" /\ (pattern[k] = "**" => k = n + 1)
      <4>1. CASE k = n + 1
        BY <2>2, <4>1
      <4>2. CASE k # n + 1
        <5>1. k \in 1..n
          BY <1>3, <4>2
        <5>2. QED
          BY <1>1, <1>3, <2>2, <5>1
      <4>3. QED
        BY <4>1, <4>2
    <3>3. QED
      BY <2>2, <3>1, <3>2 DEF ScopePattern
  <2>4. PartsMatch(file, pattern) <=> MatchFrom(file, pattern)[<<0, 0>>]
    <3>1. pattern # <<>>
      BY <1>3, <2>2
    <3>2. Len(pattern) = 1 => pattern = <<"**">>
      <4>1. ASSUME Len(pattern) = 1 PROVE pattern = <<"**">>
        <5>1. pattern[1] = "**"
          BY <1>3, <2>2, <4>1
        <5>2. QED
          BY <2>2, <4>1, <5>1, SingleSeq
      <4>2. QED
        BY <4>1
    <3>3. QED
      BY <1>1, <3>1, <3>2 DEF PartsMatch
  <2>5. MatchFrom(file, pattern)[<<0, 0>>] <=> Fits(file, pattern, 0, 0)
    BY <1>1, <2>3, MatchFromIs
  <2>6. Fits(file, pattern, 0, 0) <=> n <= m /\ \A k \in 1..n : file[0 + k] = pattern[0 + k]
    <3>1. 0 # n + 1 /\ ((n + 1) - 1) - 0 = n /\ m - 0 = m
      BY <1>3
    <3>2. QED
      BY <1>2, <2>2, <3>1 DEF Fits, Agree
  <2>7. (\A k \in 1..n : file[0 + k] = pattern[0 + k]) <=> \A k \in 1..n : path[k] = file[k]
    <3>1. \A k \in 1..n : 0 + k = k
      BY <1>3
    <3>2. QED
      BY <2>2, <3>1
  <2>8. IsPrefix(path, file) <=> n <= m /\ \A k \in 1..n : path[k] = file[k]
    BY <1>1, <1>2, PrefixIs
  <2>9. QED
    BY <2>1, <2>4, <2>5, <2>6, <2>7, <2>8
<1>6. QED
  BY <1>4, <1>5

\* What the two patterns of a likely path allow.
LEMMA ScopeAllows ==
  ASSUME NEW path \in Paths, NEW file \in Files
  PROVE  /\ PathMatches(file, path) <=>
              PartsOf(path) = file
              \/ (Len(PartsOf(path)) = 1 /\ LastPart(file) = PartsOf(path)[1])
         /\ PathMatches(file, Append(path, "**")) <=> IsPrefix(PartsOf(path), file)
<1>1. PICK name : name = PartsOf(path)
  OBVIOUS
<1>2. /\ name \in Seq(STRING) /\ \A k \in 1..Len(name) : name[k] # "*" /\ name[k] # "**"
      /\ PartsOf(Append(path, "**")) = Append(name, "**") /\ PartsOf(file) = file
  BY <1>1, PartsAre
<1>3. /\ PartsMatch(file, name) <=> name = file \/ (Len(name) = 1 /\ LastPart(file) = name[1])
      /\ PartsMatch(file, Append(name, "**")) <=> IsPrefix(name, file)
  BY <1>2, PartsAllow
<1>4. /\ PathMatches(file, path) <=> PartsMatch(file, name)
      /\ PathMatches(file, Append(path, "**")) <=> PartsMatch(file, Append(name, "**"))
  BY <1>1, <1>2 DEF PathMatches
<1>5. QED
  BY <1>1, <1>3, <1>4

\* The policy a task's verifier enforces is the scope that it and those before it
\* were given, up to the readings of a pattern and of an empty list that the
\* property names; and the list is empty of read-only tasks alone.
THEOREM VerifierEnforcesTheScope == Spec => []PolicyIsTheScope
<1>1. CompilerInv => PolicyIsTheScope
  <2> DEFINE Scope(t) == UNION {u.paths : u \in Inherited(tasks, t)}
             Under(path, file) ==
               LET name == PartsOf(path) IN
               \/ name = file
               \/ ~NamesFile(path) /\ IsPrefix(name, file)
               \/ Len(name) = 1 /\ LastPart(file) = name[1]
             Kinds(t) == Scope(t) = {} => \A u \in Inherited(tasks, t) : u.readOnly
             Passes(t, file) ==
               Admits(AllowedPatterns(tasks, t), file) <=>
                 Scope(t) = {} \/ \E path \in Scope(t) : Under(path, file)
  <2> SUFFICES ASSUME CompilerInv, IsPlan, NEW t \in tasks
               PROVE  (\A file \in Files : Passes(t, file)) /\ Kinds(t)
    BY DEF PolicyIsTheScope
  <2>1. Inherited(tasks, t) \subseteq tasks
    BY DEF Inherited
  <2>2. Scope(t) \subseteq Paths
    <3>1. ASSUME NEW u \in tasks PROVE u.paths \subseteq Paths
      <4>1. /\ u.paths = UNION {proposal.tasks[i].paths : i \in u.id}
            /\ u.id \subseteq Kept(proposal) /\ proposal \in Proposals
        BY DEF CompilerInv, TypeOK, IsPlan, StandsFor, Partition, Scoped
      <4>2. QED
        BY <4>1, ProposalIs
    <3>2. QED
      BY <2>1, <3>1
  <2>3. Kinds(t)
    BY <2>1 DEF CompilerInv, Bounded
  <2>4. ASSUME NEW pattern
        PROVE  pattern \in AllowedPatterns(tasks, t) <=>
               \E path \in Scope(t) :
                 pattern = path \/ (~NamesFile(path) /\ pattern = Append(path, "**"))
    BY DEF AllowedPatterns, ScopePatterns
  <2> HIDE DEF Scope
  <2>5. AllowedPatterns(tasks, t) = {} <=> Scope(t) = {}
    BY <2>4
  <2>6. ASSUME NEW file \in Files, NEW path \in Scope(t)
        PROVE  Under(path, file) <=>
               \/ PathMatches(file, path)
               \/ ~NamesFile(path) /\ PathMatches(file, Append(path, "**"))
    BY <2>2, ScopeAllows
  <2> HIDE DEF Under
  <2>7. ASSUME NEW file \in Files PROVE Passes(t, file)
    <3>1. ASSUME NEW pattern \in AllowedPatterns(tasks, t), PathMatches(file, pattern)
          PROVE  \E path \in Scope(t) : Under(path, file)
      BY <2>4, <2>6, <3>1
    <3>2. ASSUME NEW path \in Scope(t), Under(path, file)
          PROVE  \E pattern \in AllowedPatterns(tasks, t) : PathMatches(file, pattern)
      <4>1. CASE PathMatches(file, path)
        BY <2>4, <4>1
      <4>2. CASE ~NamesFile(path) /\ PathMatches(file, Append(path, "**"))
        BY <2>4, <4>2
      <4>3. QED
        BY <2>6, <3>2, <4>1, <4>2
    <3>3. QED
      BY <2>5, <3>1, <3>2 DEF Admits
  <2>8. QED
    BY <2>3, <2>7
<1>2. QED
  BY <1>1, CompilerInvariant, PTL

===============================================================================
