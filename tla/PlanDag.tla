------------------------------- MODULE PlanDag -------------------------------
(***************************************************************************)
(* The plan an agent run executes: what the planner accepts from the LLM   *)
(* (agent/planner.py), how it validates the dependency graph, and what is  *)
(* left of it once the loop has rebuilt it from events (agent/loop.py).    *)
(*                                                                         *)
(* A step is its position in the plan's list; _parse_plan makes the ids    *)
(* unique, so positions and ids are in bijection.                          *)
(***************************************************************************)
EXTENDS Naturals

CONSTANT NumSteps           \* number of steps in the plan

ASSUME NumStepsAssumption == NumSteps \in Nat \ {0}

Step == 1 .. NumSteps
RetryStrategy == {"auto_retry", "ask_user", "skip"}

\* A plan: what each step depends on, how it is retried, and which steps name
\* an alternative tool.
Plan == [deps : [Step -> SUBSET Step],
         retry : [Step -> RetryStrategy],
         fallback : SUBSET Step]

-----------------------------------------------------------------------------
(* Planner._parse_plan and Planner._validate_dag *)

\* An unknown retry strategy becomes "auto_retry".
ParseRetry(raw) ==
    [s \in Step |-> IF raw.retry[s] \in RetryStrategy
                    THEN raw.retry[s] ELSE "auto_retry"]

\* References to steps that do not exist are filtered out.
KnownDeps(raw) == [s \in Step |-> raw.deps[s] \cap Step]

\* Mutant: the queue is only gone through for its first two rounds.
SortedTwoRounds(deps) ==
    LET free == {s \in Step : deps[s] = {}}
    IN  {s \in Step : deps[s] \subseteq free}

\* Kahn's algorithm, a round of the queue at a time: the steps sorted after n
\* rounds are those whose in-degree has dropped to zero.
Sorted(deps) ==
    LET sorted[n \in 0 .. NumSteps] ==
            IF n = 0 THEN {}
            ELSE {s \in Step : deps[s] \subseteq sorted[n - 1]}
    IN  sorted[NumSteps]

\* Mutant: a cyclic plan keeps its dependencies.
ValidateDagKeepsCycles(raw) == KnownDeps(raw)

\* A plan with a cycle loses all its dependencies.
ValidateDag(raw) ==
    IF Sorted(KnownDeps(raw)) = Step
    THEN KnownDeps(raw)
    ELSE [s \in Step |-> {}]

PlannedPlan(raw) ==
    [deps |-> ValidateDag(raw),
     retry |-> ParseRetry(raw),
     fallback |-> raw.fallback]

(***************************************************************************)
(* PERAgentLoop.run rebuilds every PlanStep from a plan_step event, which   *)
(* carries the id, the description, the dependencies and the tool hint.     *)
(***************************************************************************)
RebuiltPlan(planned) ==
    [deps |-> planned.deps,
     retry |-> [s \in Step |-> "auto_retry"],
     fallback |-> {}]

-----------------------------------------------------------------------------
(* Reference definitions *)

\* A cycle is a non-empty set of steps each of which depends on one of them.
HasCycle(deps) ==
    \E S \in SUBSET Step : S # {} /\ \A s \in S : deps[s] \cap S # {}

\* The steps s depends on, directly or not: the least set that holds deps[s]
\* and is closed under deps.
Ancestors(deps, s) ==
    {d \in Step :
        \A C \in SUBSET Step :
            (deps[s] \subseteq C /\ \A c \in C : deps[c] \subseteq C) => d \in C}
=============================================================================
