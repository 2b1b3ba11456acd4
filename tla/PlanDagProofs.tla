---------------------------- MODULE PlanDagProofs ----------------------------
(***************************************************************************)
(* Theorems about the plan's graph: the rounds of Kahn's algorithm in       *)
(* Planner._validate_dag leave steps over if and only if there is a cycle.   *)
(* The argument is an induction over the rounds, made with the least number  *)
(* for which a claim fails: what is sorted stays sorted; as long as a round   *)
(* sorts something new, n rounds sort n steps; and once a round sorts nothing *)
(* new, the steps left over depend on each other.                            *)
(***************************************************************************)
EXTENDS PlanDag, FiniteSets, TLAPS, FiniteSetTheorems, WellFoundedInduction

\* A non-empty set of natural numbers has a least element.
LEMMA LeastNat ==
    ASSUME NEW T \in SUBSET Nat, T # {}
    PROVE  \E n \in T : \A m \in T : n <= m
<1> DEFINE R == {p \in Nat \X Nat : p[1] < p[2]}
<1>1. IsWellFoundedOn(R, Nat)
  BY NatLessThanWellFounded DEF OpToRel
<1>2. PICK n \in T : \A m \in T : <<m, n>> \notin R
  BY <1>1, WFMin
<1>3. ASSUME NEW m \in T
      PROVE  n <= m
  <2>1. <<m, n>> \notin R
    BY <1>2
  <2>2. m \in Nat /\ n \in Nat
    BY <1>2
  <2> QED BY <2>1, <2>2
<1> QED BY <1>2, <1>3

\* The rounds of Kahn's algorithm, up to round n.
Rounds(f, d, n) ==
    f = [k \in 0 .. n |-> IF k = 0 THEN {} ELSE {s \in Step : d[s] \subseteq f[k - 1]}]

LEMMA RoundsStep ==
    ASSUME NEW f, NEW d, NEW n \in Nat, Rounds(f, d, n)
    PROVE  /\ f[0] = {}
           /\ \A k \in 1 .. n : f[k] = {s \in Step : d[s] \subseteq f[k - 1]}
<1>1. \A k \in 0 .. n : f[k] = IF k = 0 THEN {} ELSE {s \in Step : d[s] \subseteq f[k - 1]}
  BY DEF Rounds
<1>2. 0 \in 0 .. n /\ \A k \in 1 .. n : k \in 0 .. n /\ k # 0
  OBVIOUS
<1> QED BY <1>1, <1>2

LEMMA RoundsExist ==
    ASSUME NEW d, NEW N \in Nat
    PROVE  \E f : Rounds(f, d, N)
<1> DEFINE T == {n \in Nat : ~ \E f : Rounds(f, d, n)}
<1> SUFFICES ASSUME T # {}
             PROVE  FALSE
  OBVIOUS
<1>1. PICK n \in T : \A m \in T : n <= m
  BY LeastNat
<1>2. CASE n = 0
  <2> DEFINE f == [k \in 0 .. 0 |-> {}]
  <2>1. f = [k \in 0 .. 0 |-> IF k = 0 THEN {} ELSE {s \in Step : d[s] \subseteq f[k - 1]}]
    OBVIOUS
  <2>2. Rounds(f, d, 0)
    BY <2>1 DEF Rounds
  <2> QED BY <1>1, <1>2, <2>2
<1>3. CASE n # 0
  <2>1. n - 1 \in Nat /\ n - 1 \notin T /\ n \in Nat
    BY <1>1, <1>3
  <2>2. PICK f : Rounds(f, d, n - 1)
    BY <2>1
  <2>3. \A k \in 0 .. n - 1 : f[k] = IF k = 0 THEN {} ELSE {s \in Step : d[s] \subseteq f[k - 1]}
    BY <2>2 DEF Rounds
  <2> DEFINE g == [k \in 0 .. n |-> IF k = n THEN {s \in Step : d[s] \subseteq f[n - 1]} ELSE f[k]]
  <2>4. \A k \in 0 .. n : g[k] = IF k = 0 THEN {} ELSE {s \in Step : d[s] \subseteq g[k - 1]}
    <3> SUFFICES ASSUME NEW k \in 0 .. n
                 PROVE  g[k] = IF k = 0 THEN {} ELSE {s \in Step : d[s] \subseteq g[k - 1]}
      OBVIOUS
    <3>1. CASE k = 0
      <4>1. g[k] = f[k] /\ k \in 0 .. n - 1
        BY <1>3, <2>1, <3>1
      <4> QED BY <2>3, <3>1, <4>1
    <3>2. CASE k = n
      <4>1. k - 1 \in 0 .. n /\ k - 1 # n /\ k - 1 = n - 1
        BY <1>3, <2>1, <3>2
      <4>2. g[k - 1] = f[n - 1]
        BY <4>1
      <4> QED BY <1>3, <3>2, <4>2
    <3>3. CASE k # 0 /\ k # n
      <4>1. k - 1 \in 0 .. n /\ k - 1 # n /\ k \in 0 .. n - 1
        BY <2>1, <3>3
      <4>2. g[k - 1] = f[k - 1] /\ g[k] = f[k]
        BY <3>3, <4>1
      <4> QED BY <2>3, <3>3, <4>1, <4>2
    <3> QED BY <3>1, <3>2, <3>3
  <2>5. g = [k \in 0 .. n |-> IF k = 0 THEN {} ELSE {s \in Step : d[s] \subseteq g[k - 1]}]
    <3>1. g = [k \in 0 .. n |-> g[k]]
      OBVIOUS
    <3> HIDE DEF g
    <3> QED BY <2>4, <3>1
  <2>6. Rounds(g, d, n)
    BY <2>5 DEF Rounds
  <2> QED BY <1>1, <2>6
<1> QED BY <1>2, <1>3

\* What Sorted computes: the last round.
LEMMA SortedRounds ==
    ASSUME NEW d
    PROVE  \E f : Rounds(f, d, NumSteps) /\ Sorted(d) = f[NumSteps]
<1> DEFINE sorted[n \in 0 .. NumSteps] ==
               IF n = 0 THEN {} ELSE {s \in Step : d[s] \subseteq sorted[n - 1]}
<1>1. PICK g : Rounds(g, d, NumSteps)
  BY RoundsExist, NumStepsAssumption
<1>2. g = [n \in 0 .. NumSteps |-> IF n = 0 THEN {} ELSE {s \in Step : d[s] \subseteq g[n - 1]}]
  BY <1>1 DEF Rounds
<1>3. sorted = [n \in 0 .. NumSteps |->
                   IF n = 0 THEN {} ELSE {s \in Step : d[s] \subseteq sorted[n - 1]}]
  BY <1>2 DEF sorted
<1>4. Sorted(d) = sorted[NumSteps]
  BY DEF Sorted
<1> HIDE DEF sorted
<1>5. Rounds(sorted, d, NumSteps)
  BY <1>3 DEF Rounds
<1> QED BY <1>4, <1>5

\* What is sorted stays sorted.
LEMMA RoundsGrow ==
    ASSUME NEW f, NEW d, NEW N \in Nat, Rounds(f, d, N)
    PROVE  \A n \in 1 .. N : f[n - 1] \subseteq f[n]
<1> DEFINE T == {n \in 1 .. N : ~(f[n - 1] \subseteq f[n])}
<1> SUFFICES ASSUME T # {}
             PROVE  FALSE
  OBVIOUS
<1>1. PICK n \in T : \A m \in T : n <= m
  <2>1. T \in SUBSET Nat
    OBVIOUS
  <2> HIDE DEF T
  <2> QED BY <2>1, LeastNat
<1>2. n \in 1 .. N /\ ~(f[n - 1] \subseteq f[n])
  BY <1>1
<1>3. n # 1
  BY <1>2, RoundsStep
<1>4. n - 1 \in 1 .. N /\ n - 1 \notin T
  BY <1>1, <1>2, <1>3
<1>5. f[(n - 1) - 1] \subseteq f[n - 1]
  BY <1>4
<1>6. /\ f[n] = {s \in Step : d[s] \subseteq f[n - 1]}
      /\ f[n - 1] = {s \in Step : d[s] \subseteq f[(n - 1) - 1]}
  BY <1>2, <1>4, RoundsStep
<1> QED BY <1>2, <1>5, <1>6

\* A step of a cycle is never sorted.
LEMMA CyclesAreNotSorted ==
    ASSUME NEW d, HasCycle(d)
    PROVE  Sorted(d) # Step
<1>1. PICK S \in SUBSET Step : S # {} /\ \A s \in S : d[s] \cap S # {}
  BY DEF HasCycle
<1>2. PICK f : Rounds(f, d, NumSteps) /\ Sorted(d) = f[NumSteps]
  BY SortedRounds
<1> DEFINE T == {n \in 0 .. NumSteps : f[n] \cap S # {}}
<1>3. ASSUME T # {}
      PROVE  FALSE
  <2>1. PICK n \in T : \A m \in T : n <= m
    <3>1. T \in SUBSET Nat
      BY NumStepsAssumption
    <3> HIDE DEF T
    <3> QED BY <1>3, <3>1, LeastNat
  <2>2. n \in 0 .. NumSteps /\ f[n] \cap S # {} /\ n # 0
    BY <1>2, <2>1, RoundsStep, NumStepsAssumption
  <2>3. n - 1 \in 0 .. NumSteps /\ n - 1 \notin T /\ n \in 1 .. NumSteps
    BY <2>1, <2>2, NumStepsAssumption
  <2>4. f[n - 1] \cap S = {} /\ f[n] = {s \in Step : d[s] \subseteq f[n - 1]}
    BY <1>2, <2>3, RoundsStep, NumStepsAssumption
  <2> QED BY <1>1, <2>2, <2>4
<1>4. NumSteps \in 0 .. NumSteps /\ NumSteps \notin T
  BY <1>3, NumStepsAssumption
<1>5. f[NumSteps] \cap S = {}
  BY <1>4
<1> QED BY <1>1, <1>2, <1>5

\* As long as a round sorts something new, n rounds sort n steps.
LEMMA RoundsCount ==
    ASSUME NEW f, NEW d, Rounds(f, d, NumSteps),
           \A n \in 1 .. NumSteps : f[n] # f[n - 1]
    PROVE  f[NumSteps] = Step
<1>1. IsFiniteSet(Step) /\ Cardinality(Step) = NumSteps
  BY FS_Interval, NumStepsAssumption DEF Step
<1>2. \A n \in 0 .. NumSteps : f[n] \subseteq Step
  <2>1. \A n \in 1 .. NumSteps : f[n] \subseteq Step
    BY RoundsStep, NumStepsAssumption
  <2> QED BY <2>1, RoundsStep, NumStepsAssumption
<1>3. \A n \in 0 .. NumSteps : IsFiniteSet(f[n]) /\ Cardinality(f[n]) \in Nat
  BY <1>1, <1>2, FS_Subset, FS_CardinalityType
<1> DEFINE T == {n \in 0 .. NumSteps : Cardinality(f[n]) < n}
<1>4. ASSUME T # {}
      PROVE  FALSE
  <2>1. PICK n \in T : \A m \in T : n <= m
    <3>1. T \in SUBSET Nat
      BY NumStepsAssumption
    <3> HIDE DEF T
    <3> QED BY <1>4, <3>1, LeastNat
  <2>2. n \in 0 .. NumSteps /\ Cardinality(f[n]) < n
    BY <2>1
  <2>3. n \in 1 .. NumSteps /\ n - 1 \in 0 .. NumSteps /\ n - 1 \notin T
    BY <1>3, <2>1, <2>2, NumStepsAssumption
  <2>4. Cardinality(f[n - 1]) >= n - 1
    BY <1>3, <2>3, NumStepsAssumption
  <2>5. f[n - 1] \subseteq f[n] /\ f[n - 1] # f[n]
    BY <2>3, RoundsGrow, NumStepsAssumption
  <2>6. Cardinality(f[n - 1]) < Cardinality(f[n])
    <3>1. IsFiniteSet(f[n])
      BY <1>3, <2>2
    <3>2. /\ Cardinality(f[n - 1]) <= Cardinality(f[n])
          /\ Cardinality(f[n - 1]) = Cardinality(f[n]) => f[n - 1] = f[n]
      BY <2>5, <3>1, FS_Subset
    <3> QED BY <1>3, <2>2, <2>3, <2>5, <3>2
  <2> QED BY <1>3, <2>2, <2>3, <2>4, <2>6, NumStepsAssumption
<1>5. NumSteps \in 0 .. NumSteps /\ NumSteps \notin T
  BY <1>4, NumStepsAssumption
<1>6. f[NumSteps] \subseteq Step /\ Cardinality(f[NumSteps]) >= Cardinality(Step)
  BY <1>1, <1>2, <1>3, <1>5, NumStepsAssumption
<1> QED BY <1>1, <1>6, FS_Subset, FS_CardinalityType, <1>3, <1>5

\* A round that sorts nothing new is the last that sorts anything.
LEMMA RoundsSettle ==
    ASSUME NEW f, NEW d, Rounds(f, d, NumSteps), NEW n \in 1 .. NumSteps, f[n] = f[n - 1]
    PROVE  f[NumSteps] = f[NumSteps - 1]
<1> DEFINE T == {m \in n .. NumSteps : f[m] # f[m - 1]}
<1>1. ASSUME T # {}
      PROVE  FALSE
  <2>0. T \in SUBSET Nat
    BY NumStepsAssumption
  <2>1. PICK m \in T : \A k \in T : m <= k
    BY <1>1, <2>0, LeastNat
  <2>2. m \in n .. NumSteps /\ f[m] # f[m - 1] /\ m # n
    BY <2>1
  <2>3. m - 1 \in n .. NumSteps /\ m - 1 \notin T
    BY <2>1, <2>2, NumStepsAssumption
  <2>4. f[m - 1] = f[(m - 1) - 1]
    BY <2>3
  <2>5. m \in 1 .. NumSteps /\ m - 1 \in 1 .. NumSteps
    BY <2>2, <2>3, NumStepsAssumption
  <2>6. /\ f[m] = {s \in Step : d[s] \subseteq f[m - 1]}
        /\ f[m - 1] = {s \in Step : d[s] \subseteq f[(m - 1) - 1]}
    BY <2>5, RoundsStep, NumStepsAssumption
  <2> QED BY <2>2, <2>4, <2>6
<1>2. NumSteps \in n .. NumSteps
  BY NumStepsAssumption
<1> QED BY <1>1, <1>2

\* What Kahn's algorithm leaves over is a cycle.
LEMMA LeftOverIsCycle ==
    ASSUME NEW d, d \in [Step -> SUBSET Step], Sorted(d) # Step
    PROVE  HasCycle(d)
<1>1. PICK f : Rounds(f, d, NumSteps) /\ Sorted(d) = f[NumSteps]
  BY SortedRounds
<1>2. PICK n \in 1 .. NumSteps : f[n] = f[n - 1]
  BY <1>1, RoundsCount
<1>3. f[NumSteps] = f[NumSteps - 1]
  BY <1>1, <1>2, RoundsSettle
<1>4. f[NumSteps] = {s \in Step : d[s] \subseteq f[NumSteps - 1]}
  BY <1>1, RoundsStep, NumStepsAssumption
<1> DEFINE S == Step \ f[NumSteps]
<1>5. S # {} /\ S \in SUBSET Step
  BY <1>1, <1>4
<1>6. \A s \in S : d[s] \cap S # {}
  BY <1>3, <1>4
<1> QED BY <1>5, <1>6 DEF HasCycle

\* _validate_dag: the plan it returns has no cycle, and it is the plan that came in
\* unless that one had a cycle.
THEOREM ValidateDagSound ==
    ASSUME NEW raw
    PROVE  /\ ~HasCycle(ValidateDag(raw))
           /\ ValidateDag(raw) = KnownDeps(raw) \/ HasCycle(KnownDeps(raw))
<1>1. KnownDeps(raw) \in [Step -> SUBSET Step]
  BY DEF KnownDeps
<1>2. CASE Sorted(KnownDeps(raw)) = Step
  BY <1>2, CyclesAreNotSorted DEF ValidateDag
<1>3. CASE Sorted(KnownDeps(raw)) # Step
  <2>1. ValidateDag(raw) = [s \in Step |-> {}]
    BY <1>3 DEF ValidateDag
  <2> QED BY <1>1, <1>3, <2>1, LeftOverIsCycle DEF HasCycle
<1> QED BY <1>2, <1>3
=============================================================================
