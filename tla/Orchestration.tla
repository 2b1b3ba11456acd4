---------------------------- MODULE Orchestration ----------------------------
(***************************************************************************)
(* The multi-agent pipeline (agent/orchestrator.py): one trace goes from    *)
(* the planner over the message bus to ExecutorAgent, which runs the plan   *)
(* in rounds with a retry policy, and on to the review and the trace.       *)
(*                                                                          *)
(* The plan reaches the executor as plan_step events and a message: every   *)
(* step has retry_strategy "auto_retry", no fallback tool and no parallel   *)
(* group, so a round runs one step after the other.  ExecutorAgent works on *)
(* steps of its own, and the orchestrator's plan stays as it was.           *)
(***************************************************************************)
EXTENDS PlanDag

CONSTANTS
    MaxRetriesPerStep, \* AgentConfig.max_retries_per_step
    None

VARIABLES
    phase,     \* where the pipeline is
    deps,      \* dependencies of each step, as the planner leaves them
    bus,       \* targets with an unconsumed message of this trace
    round,     \* ready steps of this round that have not run yet
    result,    \* the status reported for each step
    attempts,  \* calls of the tool for each step
    started    \* steps whose result was in the map when a step started (history)

vars == <<phase, deps, bus, round, result, attempts, started>>

Status == {"completed", "failed", "skipped"}

OrchestrationAssumption ==
    /\ MaxRetriesPerStep \in Nat
    /\ None \notin Status

Attempted == {s \in Step : result[s] \in {"completed", "failed"}}
Pending == {s \in Step : result[s] = None}

Init ==
    /\ phase = "planning"
    /\ deps \in {ValidateDag([deps |-> raw]) : raw \in [Step -> SUBSET Step]}
    /\ bus = {}
    /\ round = {}
    /\ result = [s \in Step |-> None]
    /\ attempts = [s \in Step |-> 0]
    /\ started = [s \in Step |-> {}]

\* No planner, hence no plan: an error event, and the request stays on the bus.
NoPlan ==
    /\ phase = "planning"
    /\ bus' = {"planner"}
    /\ phase' = "error"
    /\ UNCHANGED <<deps, round, result, attempts, started>>

\* plan_request, plan and execute are sent; ExecutorAgent polls its own at once.
SendPlan ==
    /\ phase = "planning"
    /\ bus' = {"planner", "orchestrator"}
    /\ phase' = "executing"
    /\ UNCHANGED <<deps, round, result, attempts, started>>

\* Mutant: a failed dependency blocks what depends on it.
ReadyAfterSuccess == {s \in Pending : \A d \in deps[s] : result[d] = "completed"}

\* Ready is a step whose dependencies are in the map, where failed ones are too.
Ready == {s \in Pending : deps[s] \subseteq Attempted}

StartRound ==
    /\ phase = "executing"
    /\ round = {}
    /\ Ready # {}
    /\ round' = Ready
    /\ UNCHANGED <<phase, deps, bus, result, attempts, started>>

First(S) == CHOOSE s \in S : \A t \in S : s <= t

\* One call of the tool; while it fails and attempts are left, it is called again.
CallTool ==
    /\ phase = "executing"
    /\ round # {}
    /\ LET s == First(round)
       IN  /\ attempts' = [attempts EXCEPT ![s] = @ + 1]
           /\ started' = [started EXCEPT ![s] = IF attempts[s] = 0 THEN Attempted ELSE @]
           /\ \/ /\ result' = [result EXCEPT ![s] = "completed"]
                 /\ round' = round \ {s}
              \/ /\ attempts'[s] <= MaxRetriesPerStep
                 /\ UNCHANGED <<result, round>>
              \/ /\ attempts'[s] > MaxRetriesPerStep
                 /\ result' = [result EXCEPT ![s] = "failed"]
                 /\ round' = round \ {s}
    /\ UNCHANGED <<phase, deps, bus>>

\* done counts successes: the loop ends when all succeeded or nothing is ready.
EndExecution ==
    /\ phase = "executing"
    /\ round = {}
    /\ Ready = {}
    /\ result' = [s \in Step |-> IF result[s] = None THEN "skipped" ELSE result[s]]
    /\ phase' = "reviewing"
    /\ UNCHANGED <<deps, bus, round, attempts, started>>

\* review and verdict are sent, the trace is recorded, and the bus cleared.
Review ==
    /\ phase = "reviewing"
    /\ bus' = {}
    /\ phase' = "done"
    /\ UNCHANGED <<deps, round, result, attempts, started>>

\* The consumer of the events goes away: nothing clears the bus.
Abandon ==
    /\ phase \in {"executing", "reviewing"}
    /\ phase' = "abandoned"
    /\ UNCHANGED <<deps, bus, round, result, attempts, started>>

Next ==
    \/ NoPlan \/ SendPlan
    \/ StartRound \/ CallTool \/ EndExecution
    \/ Review
    \/ Abandon

Spec == Init /\ [][Next]_vars

---------------------------------------------------------------------------
(* Properties.                                                             *)

\* ExecutorAgent.run starts a step only when each of its dependencies has run to
\* its end, whether it succeeded or not; and the results that reach the review and
\* the trace cover the plan: every step was run, none was given up as a deadlock, and
\* one that failed had all its attempts.
ResultsCoverPlan ==
    /\ \A s \in Step : attempts[s] > 0 => deps[s] \subseteq started[s]
    /\ phase \in {"reviewing", "done"} =>
          \A s \in Step :
              /\ result[s] \in {"completed", "failed"}
              /\ result[s] = "failed" => attempts[s] = MaxRetriesPerStep + 1

TypeOK ==
    /\ phase \in {"planning", "executing", "reviewing", "done", "error", "abandoned"}
    /\ deps \in [Step -> SUBSET Step]
    /\ bus \subseteq {"planner", "orchestrator", "reviewer"}
    /\ round \subseteq Pending
    /\ result \in [Step -> Status \cup {None}]
    /\ attempts \in [Step -> 0 .. MaxRetriesPerStep + 1]
    /\ started \in [Step -> SUBSET Step]

(***************************************************************************)
(* The inductive invariant: the plan has no cycle; the steps of a round     *)
(* are pending and found their dependencies in the map, as every step that  *)
(* was called did; calls are left to a step that has not ended, and a step   *)
(* failed only after the last of them; and none is skipped.                  *)
(***************************************************************************)
RoundInv == \A s \in round : deps[s] \subseteq Attempted

StepInv ==
    \A s \in Step :
        /\ attempts[s] > 0 => deps[s] \subseteq started[s]
        /\ result[s] = None => attempts[s] <= MaxRetriesPerStep
        /\ result[s] = "failed" => attempts[s] = MaxRetriesPerStep + 1
        /\ result[s] # "skipped"
        /\ phase \in {"reviewing", "done"} => result[s] # None

IInv == TypeOK /\ ~HasCycle(deps) /\ RoundInv /\ StepInv
=============================================================================
