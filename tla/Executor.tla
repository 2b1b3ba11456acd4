------------------------------ MODULE Executor ------------------------------
(***************************************************************************)
(* Executor.execute (agent/executor.py): one run of a plan.  The main       *)
(* coroutine picks a round of steps, runs them (inline when there is one,   *)
(* as asyncio tasks when there are several), books each result and goes     *)
(* round again until the plan is complete, a breaker trips, or no pending   *)
(* step is ready.  LLM and tool calls are external: an attempt ends with or *)
(* without a tool_error, and with or without text; a completion always has  *)
(* the shape the code indexes (response.choices[0].message).                *)
(***************************************************************************)
EXTENDS PlanDag, FiniteSets

CONSTANTS
    RawPlans,                \* the plans the LLM may propose
    ViaLoop,                 \* TRUE: plans reach the executor through the loop
    ExecutionMode,           \* "dag" or "serial"
    MaxRetriesPerStep,       \* AgentConfig.max_retries_per_step
    MaxConsecutiveFailures,  \* Executor.MAX_CONSECUTIVE_FAILURES
    MaxLowGainSteps,         \* Executor.MAX_LOW_GAIN_STEPS
    Fingerprint              \* the fingerprints a result's text may have

ASSUME ExecutorAssumption ==
    /\ \A raw \in RawPlans :
          /\ raw.deps \in [Step -> SUBSET Nat]
          /\ DOMAIN raw.retry = Step
          /\ raw.fallback \subseteq Step
    /\ ViaLoop \in BOOLEAN
    /\ ExecutionMode \in {"dag", "serial"}
    /\ MaxRetriesPerStep \in Nat
    /\ MaxConsecutiveFailures \in Nat \ {0}
    /\ MaxLowGainSteps \in Nat \ {0}

VARIABLES
    planned,              \* the plan the planner produced; never changes
    status,               \* PlanStep.status
    pc,                   \* where execute() is
    batch,                \* the steps of the current round
    task,                 \* the coroutine of _execute_step_with_retry, per step
    collected,            \* finished tasks of the round, returned by asyncio.wait
    attempts,             \* attempts made with the step's own tool
    resultText,           \* result_text of the last attempt is not empty
    stepText,             \* the chunks accumulated for the step are not empty
    completedSteps,       \* Plan.completed_steps
    failedSteps,          \* Plan.failed_steps
    consecutiveFailures,
    consecutiveLowGain,
    seen,                 \* _seen_fingerprints
    store                 \* WorkingMemory.intermediate_results, per step id

planVars == <<planned>>
mainVars == <<pc, batch>>
taskVars == <<attempts, resultText, stepText>>
bookVars == <<completedSteps, failedSteps, consecutiveFailures,
              consecutiveLowGain, seen, store>>
vars == <<planVars, status, mainVars, task, collected, taskVars, bookVars>>

Status == {"pending", "running", "completed", "failed", "skipped"}
Task == {"idle", "running", "fallback", "finished", "raised", "cancelled", "booked"}
Ended == {"done", "raised", "closed"}

\* The plan as the executor sees it.
plan == IF ViaLoop THEN RebuiltPlan(planned) ELSE planned

With(st) == {s \in Step : status[s] = st}

TypeOK ==
    /\ planned \in Plan
    /\ status \in [Step -> Status]
    /\ pc \in {"loop", "await"} \cup Ended
    /\ batch \subseteq Step
    /\ task \in [Step -> Task]
    /\ collected \subseteq batch
    /\ attempts \in [Step -> 0 .. MaxRetriesPerStep + 1]
    /\ resultText \in [Step -> BOOLEAN]
    /\ stepText \in [Step -> BOOLEAN]
    /\ completedSteps \in Nat
    /\ failedSteps \in Nat
    /\ consecutiveFailures \in Nat
    /\ consecutiveLowGain \in Nat
    /\ seen \subseteq Fingerprint
    /\ store \in [Step -> {"absent", "empty", "text"}]

Init ==
    /\ \E raw \in RawPlans : planned = PlannedPlan(raw)
    /\ status = [s \in Step |-> "pending"]
    /\ pc = "loop"
    /\ batch = {}
    /\ task = [s \in Step |-> "idle"]
    /\ collected = {}
    /\ attempts = [s \in Step |-> 0]
    /\ resultText = [s \in Step |-> FALSE]
    /\ stepText = [s \in Step |-> FALSE]
    /\ completedSteps = 0
    /\ failedSteps = 0
    /\ consecutiveFailures = 0
    /\ consecutiveLowGain = 0
    /\ seen = {}
    /\ store = [s \in Step |-> "absent"]

-----------------------------------------------------------------------------
(* The main coroutine: one pass of the while loop of execute() *)

\* Plan.is_complete
IsComplete == \A s \in Step : status[s] \in {"completed", "skipped", "failed"}

\* Mutant: a step is ready as soon as its dependencies are over.
ReadyAfterFailure ==
    {s \in With("pending") :
        plan.deps[s] \subseteq With("completed") \cup With("failed")}

\* Mutant: a single dependency is enough.
ReadyOnAny ==
    {s \in With("pending") :
        plan.deps[s] = {} \/ plan.deps[s] \cap With("completed") # {}}

\* Plan.get_ready_steps
Ready == {s \in With("pending") : plan.deps[s] \subseteq With("completed")}

FirstOf(S) == {s \in S : \A t \in S : s <= t}

\* The steps of the next round: in serial mode the first pending one.
NextRound ==
    IF ExecutionMode = "serial" THEN FirstOf(With("pending")) ELSE Ready

FailureBreakerOpen ==
    /\ ExecutionMode = "dag"
    /\ consecutiveFailures >= MaxConsecutiveFailures

LowGainBreakerOpen ==
    /\ ExecutionMode = "dag"
    /\ consecutiveLowGain >= MaxLowGainSteps

SkipPending ==
    status' = [s \in Step |-> IF status[s] = "pending" THEN "skipped" ELSE status[s]]

Finish ==
    /\ pc = "loop" /\ IsComplete
    /\ pc' = "done"
    /\ UNCHANGED <<planVars, status, batch, task, collected, taskVars, bookVars>>

\* Pending steps, none of them ready: their dependencies failed.
SkipBlocked ==
    /\ pc = "loop" /\ ~IsComplete
    /\ ExecutionMode = "dag" /\ Ready = {}
    /\ SkipPending
    /\ pc' = "done"
    /\ UNCHANGED <<planVars, batch, task, collected, taskVars, bookVars>>

TripFailureBreaker ==
    /\ pc = "loop" /\ ~IsComplete
    /\ Ready # {} /\ FailureBreakerOpen
    /\ SkipPending
    /\ pc' = "done"
    /\ UNCHANGED <<planVars, batch, task, collected, taskVars, bookVars>>

TripLowGainBreaker ==
    /\ pc = "loop" /\ ~IsComplete
    /\ Ready # {} /\ ~FailureBreakerOpen /\ LowGainBreakerOpen
    /\ SkipPending
    /\ pc' = "done"
    /\ UNCHANGED <<planVars, batch, task, collected, taskVars, bookVars>>

\* _execute_single_step and _execute_steps_parallel mark the steps of the round
\* as running before the first attempt.
StartRound ==
    /\ pc = "loop" /\ ~IsComplete
    /\ ExecutionMode = "dag" =>
          Ready # {} /\ ~FailureBreakerOpen /\ ~LowGainBreakerOpen
    /\ batch' = NextRound
    /\ status' = [s \in Step |-> IF s \in NextRound THEN "running" ELSE status[s]]
    /\ task' = [s \in Step |-> IF s \in NextRound THEN "running" ELSE task[s]]
    /\ pc' = "await"
    /\ UNCHANGED <<planVars, collected, taskVars, bookVars>>

-----------------------------------------------------------------------------
(* _execute_step_with_retry *)

\* Mutant: "ask_user" is retried like any other step.
MaxAttemptsAskUserRetried(s) ==
    IF plan.retry[s] = "skip" THEN 1 ELSE MaxRetriesPerStep + 1

MaxAttempts(s) ==
    IF plan.retry[s] \in {"ask_user", "skip"} THEN 1 ELSE MaxRetriesPerStep + 1

\* Mutant: a dependency without a result in memory is not looked for.
PreviousResultsReadableUnchecked(s) == \A d \in plan.deps[s] : store[d] = "text"

\* _get_previous_results cuts the result of every dependency it finds in memory
\* to 200 characters, which raises on a result stored as None.  (It reads the last
\* five dependencies; the instances have no step with more.)
PreviousResultsReadable(s) == \A d \in plan.deps[s] : store[d] # "empty"

HasFallback(s) == s \in plan.fallback /\ plan.retry[s] # "skip"

\* Retries exhausted: the step fails, with a chunk that says so.  (Without an error
\* text there is no chunk; nothing reads the text of a failed step.)
GiveUp(s) ==
    /\ status' = [status EXCEPT ![s] = "failed"]
    /\ task' = [task EXCEPT ![s] = "finished"]
    /\ stepText' = [stepText EXCEPT ![s] = TRUE]

Succeed(s, text) ==
    /\ task' = [task EXCEPT ![s] = "finished"]
    /\ stepText' = [stepText EXCEPT ![s] = stepText[s] \/ text]
    /\ UNCHANGED status

\* Go on with another attempt, or with the fallback tool.
GoOn(s, next, text) ==
    /\ task' = [task EXCEPT ![s] = next]
    /\ stepText' = [stepText EXCEPT ![s] = stepText[s] \/ text]
    /\ UNCHANGED status

AttemptSucceeds(s, text) ==
    /\ task[s] = "running" /\ PreviousResultsReadable(s)
    /\ attempts' = [attempts EXCEPT ![s] = attempts[s] + 1]
    /\ resultText' = [resultText EXCEPT ![s] = text]
    /\ Succeed(s, text)
    /\ UNCHANGED <<planVars, mainVars, collected, bookVars>>

\* Mutant: a retry does not count as an attempt.
AttemptFailsUncounted(s, text) ==
    /\ task[s] = "running" /\ PreviousResultsReadable(s)
    /\ resultText' = [resultText EXCEPT ![s] = text]
    /\ \/ attempts[s] + 1 < MaxAttempts(s) /\ GoOn(s, "running", text)
       \/ attempts[s] + 1 >= MaxAttempts(s) /\ HasFallback(s) /\ GoOn(s, "fallback", text)
       \/ attempts[s] + 1 >= MaxAttempts(s) /\ ~HasFallback(s) /\ GiveUp(s)
    /\ UNCHANGED <<planVars, mainVars, collected, attempts, bookVars>>

AttemptFails(s, text) ==
    /\ task[s] = "running" /\ PreviousResultsReadable(s)
    /\ attempts' = [attempts EXCEPT ![s] = attempts[s] + 1]
    /\ resultText' = [resultText EXCEPT ![s] = text]
    /\ \/ attempts[s] + 1 < MaxAttempts(s) /\ GoOn(s, "running", text)
       \/ attempts[s] + 1 >= MaxAttempts(s) /\ HasFallback(s) /\ GoOn(s, "fallback", text)
       \/ attempts[s] + 1 >= MaxAttempts(s) /\ ~HasFallback(s) /\ GiveUp(s)
    /\ UNCHANGED <<planVars, mainVars, collected, bookVars>>

\* The alternative tool is tried once; it must leave some text, of its own or of
\* the last attempt, to count as a success.
FallbackAttempt(s, error, text) ==
    /\ task[s] = "fallback" /\ PreviousResultsReadable(s)
    /\ resultText' = [resultText EXCEPT ![s] = resultText[s] \/ text]
    /\ IF ~error /\ (resultText[s] \/ text) THEN Succeed(s, text) ELSE GiveUp(s)
    /\ UNCHANGED <<planVars, mainVars, collected, attempts, bookVars>>

AttemptRaises(s) ==
    /\ task[s] \in {"running", "fallback"} /\ ~PreviousResultsReadable(s)
    /\ task' = [task EXCEPT ![s] = "raised"]
    /\ UNCHANGED <<planVars, status, mainVars, collected, taskVars, bookVars>>

-----------------------------------------------------------------------------
(* Booking: the rest of _execute_single_step, the loop over asyncio.wait *)

\* asyncio.wait returns every task that has finished by then; they are booked
\* one by one before the next wait.
Collect ==
    /\ pc = "await" /\ collected = {}
    /\ collected' = {s \in batch : task[s] \in {"finished", "raised"}}
    /\ collected' # {}
    /\ UNCHANGED <<planVars, status, mainVars, task, taskVars, bookVars>>

\* Mutant: after a parallel round the loop waits for the whole batch again.
BookedInlineOnly(s) ==
    /\ pc = "await" /\ s \in collected /\ task[s] = "finished"
    /\ collected' = collected \ {s}
    /\ task' = [task EXCEPT ![s] = "booked"]
    /\ pc' = IF batch = {s} THEN "loop" ELSE "await"
    /\ UNCHANGED <<planVars, batch, taskVars>>

\* Mutant: the round is over with its first result.
BookedFirstEndsRound(s) ==
    /\ pc = "await" /\ s \in collected /\ task[s] = "finished"
    /\ collected' = collected \ {s}
    /\ task' = [task EXCEPT ![s] = "booked"]
    /\ pc' = "loop"
    /\ UNCHANGED <<planVars, batch, taskVars>>

Booked(s) ==
    /\ pc = "await" /\ s \in collected /\ task[s] = "finished"
    /\ collected' = collected \ {s}
    /\ task' = [task EXCEPT ![s] = "booked"]
    /\ pc' = IF \A t \in batch \ {s} : task[t] = "booked" THEN "loop" ELSE "await"
    /\ UNCHANGED <<planVars, batch, taskVars>>

\* Mutant: the parallel path forgets to store the result.
StoreResultInlineOnly(s) ==
    store' = IF batch = {s}
             THEN [store EXCEPT ![s] = IF stepText[s] THEN "text" ELSE "empty"]
             ELSE store

StoreResult(s) ==
    store' = [store EXCEPT ![s] = IF stepText[s] THEN "text" ELSE "empty"]

\* _update_info_gain: a result without text or already seen is low gain.
UpdateInfoGain(s) ==
    \/ /\ ~stepText[s]
       /\ consecutiveLowGain' = consecutiveLowGain + 1
       /\ UNCHANGED seen
    \/ /\ stepText[s]
       /\ \E fp \in Fingerprint :
             /\ consecutiveLowGain' = IF fp \in seen THEN consecutiveLowGain + 1 ELSE 0
             /\ seen' = seen \cup {fp}

BookSuccess(s) ==
    /\ Booked(s) /\ status[s] # "failed"
    /\ status' = [status EXCEPT ![s] = "completed"]
    /\ completedSteps' = completedSteps + 1
    /\ consecutiveFailures' = 0
    /\ StoreResult(s)
    /\ UpdateInfoGain(s)
    /\ UNCHANGED failedSteps

\* Mutant: the parallel path does not count the failure.
BookFailureInlineOnly(s) ==
    /\ Booked(s) /\ status[s] = "failed"
    /\ failedSteps' = IF batch = {s} THEN failedSteps + 1 ELSE failedSteps
    /\ consecutiveFailures' = consecutiveFailures + 1
    /\ UNCHANGED <<status, completedSteps, consecutiveLowGain, seen, store>>

BookFailure(s) ==
    /\ Booked(s) /\ status[s] = "failed"
    /\ failedSteps' = failedSteps + 1
    /\ consecutiveFailures' = consecutiveFailures + 1
    /\ UNCHANGED <<status, completedSteps, consecutiveLowGain, seen, store>>

\* task.result() (or the inline coroutine) raises out of execute().
Raise(s) ==
    /\ pc = "await" /\ s \in collected /\ task[s] = "raised"
    /\ pc' = "raised"
    /\ UNCHANGED <<planVars, status, batch, task, collected, taskVars, bookVars>>

(***************************************************************************)
(* The consumer of the event stream goes away (agent_chat streams the       *)
(* events of the run to the client).  A step that runs inline is cancelled  *)
(* with the generator; tasks made by create_task are not.                   *)
(***************************************************************************)
Close ==
    /\ pc \in {"loop", "await"}
    /\ pc' = "closed"
    /\ task' = [s \in Step |->
                  IF batch = {s} /\ task[s] \in {"running", "fallback"}
                  THEN "cancelled" ELSE task[s]]
    /\ UNCHANGED <<planVars, status, batch, collected, taskVars, bookVars>>

-----------------------------------------------------------------------------
Attempt(s) ==
    \/ \E text \in BOOLEAN : AttemptSucceeds(s, text)
    \/ \E text \in BOOLEAN : AttemptFails(s, text)
    \/ \E error, text \in BOOLEAN : FallbackAttempt(s, error, text)
    \/ AttemptRaises(s)

Main ==
    \/ Finish
    \/ SkipBlocked
    \/ TripFailureBreaker
    \/ TripLowGainBreaker
    \/ StartRound
    \/ Collect
    \/ \E s \in Step : BookSuccess(s) \/ BookFailure(s) \/ Raise(s)

Next ==
    \/ Main
    \/ \E s \in Step : Attempt(s)
    \/ Close

Spec == Init /\ [][Next]_vars

\* LLM calls carry a timeout and tool calls run under asyncio.wait_for, so an
\* attempt ends; the event loop runs every coroutine that can go on.
Fairness ==
    /\ WF_vars(Main)
    /\ \A s \in Step : WF_vars(Attempt(s))

FairSpec == Spec /\ Fairness

-----------------------------------------------------------------------------
(* Properties *)

\* A run starts from an acyclic plan, and a plan has lost its dependencies only if
\* it had a cycle: Kahn's algorithm in _validate_dag, which counts in-degrees,
\* agrees with the definition of a cycle.
OnlyCyclesLoseDeps ==
    pc = "loop" /\ batch = {} =>
        /\ ~HasCycle(planned.deps)
        /\ planned.deps = [s \in Step |-> {}] =>
              \A raw \in RawPlans :
                  planned = PlannedPlan(raw) =>
                      KnownDeps(raw) = planned.deps \/ HasCycle(KnownDeps(raw))

\* In DAG mode no step is started before everything it depends on has
\* completed: get_ready_steps filters on completed ids, and nothing un-completes
\* a step while tasks of the same round are still being booked.
DependencyOrder ==
    ExecutionMode = "dag" =>
        \A s \in Step :
            status[s] \in {"running", "completed", "failed"} =>
                plan.deps[s] \subseteq With("completed")

(***************************************************************************)
(* The inductive invariant: status and coroutine of a step agree; a step   *)
(* outside the current round has no coroutine in flight; between rounds     *)
(* there is none at all.                                                    *)
(***************************************************************************)
Consistent(s) ==
    /\ status[s] = "pending" => task[s] = "idle" /\ attempts[s] = 0
    /\ task[s] = "idle" => status[s] \in {"pending", "skipped"}
    /\ task[s] \in {"running", "fallback", "raised", "cancelled"} => status[s] = "running"
    /\ task[s] = "finished" => status[s] \in {"running", "failed"}
    /\ task[s] = "booked" => status[s] \in {"completed", "failed"}
    /\ task[s] = "running" => attempts[s] < MaxAttempts(s)
    /\ attempts[s] <= MaxAttempts(s)

RoundInv ==
    /\ \A s \in Step : s \notin batch => task[s] \in {"idle", "booked"}
    /\ \A s \in collected : task[s] \in {"finished", "raised"}
    /\ pc = "loop" => /\ collected = {}
                      /\ \A s \in Step : task[s] \in {"idle", "booked"}

StepInv == \A s \in Step : Consistent(s)

IInv == TypeOK /\ StepInv /\ RoundInv /\ DependencyOrder

FailedAndBooked == {s \in With("failed") : task[s] = "booked"}

\* The plan's counters, which progress and the final log report, agree with the
\* statuses of the booked steps, in whatever order a round's tasks finish.  The
\* failure breaker is only looked at between rounds, so a round may overshoot it, but
\* by no more than its own size.
CountersAgree ==
    /\ completedSteps = Cardinality(With("completed"))
    /\ failedSteps = Cardinality(FailedAndBooked)
    /\ ExecutionMode = "dag" =>
          consecutiveFailures <= MaxConsecutiveFailures - 1 + Cardinality(batch)

\* A step whose attempt is under way finds every dependency's result in working
\* memory: both booking paths store it before the next round is chosen.
DependentsSeeResults ==
    ExecutionMode = "dag" =>
        \A s \in Step :
            task[s] \in {"running", "fallback"} =>
                \A d \in plan.deps[s] : store[d] # "absent"

\* A run that ends by itself leaves no step pending or running, and a step is
\* skipped only because a breaker is open or because something it
\* depends on, directly or not, failed: a validated plan is never "deadlocked"
\* by its own dependencies.
SkipJustified ==
    pc = "done" =>
        /\ IsComplete
        /\ \/ FailureBreakerOpen
           \/ LowGainBreakerOpen
           \/ \A s \in With("skipped") :
                  Ancestors(plan.deps, s) \cap With("failed") # {}

\* A step planned as "ask_user" or "skip" is attempted once with its own tool,
\* as the docstring of _execute_step_with_retry says.
RetryStrategyHonoured ==
    \A s \in Step : planned.retry[s] \in {"ask_user", "skip"} => attempts[s] <= 1

\* An exception leaves execute() only when a step depends on one that completed
\* with no text.
RaisedOnlyByEmptyResult ==
    pc = "raised" =>
        \E s \in batch : \E d \in plan.deps[s] :
            status[d] = "completed" /\ store[d] = "empty"

\* In serial mode a step is never overtaken by a later one of the list.
InListOrder == \A s, t \in Step : s < t /\ status[t] # "pending" => status[s] # "pending"

\* Serial mode runs the steps one at a time and in definition order.
SerialOrder ==
    ExecutionMode = "serial" =>
        /\ Cardinality({s \in Step : task[s] \in {"running", "fallback"}}) <= 1
        /\ InListOrder

\* A run of serial mode, also of a step that depends on a failed one: SerialOrder, and
\* an exception only because of a dependency without text.
SerialRun == SerialOrder /\ RaisedOnlyByEmptyResult

\* What SerialOrder rests on: a round of one step.
SerialInv == ExecutionMode = "serial" => (\A s, t \in batch : s = t) /\ InListOrder

(***************************************************************************)
(* What the books say, on top of IInv: a step has a result in memory if and *)
(* only if it completed; what raised had met an empty result; the counters   *)
(* count; and the failures in a row, with those still to come in this round,  *)
(* stay within the breaker's limit and the round.                            *)
(***************************************************************************)
StoreInv == \A s \in Step : store[s] # "absent" <=> status[s] = "completed"

RaiseInv ==
    /\ \A s \in Step : task[s] = "raised" => \E d \in plan.deps[s] : store[d] = "empty"
    /\ pc = "raised" => \E s \in batch : task[s] = "raised"

Unbooked == {s \in batch : task[s] # "booked"}

CountInv ==
    /\ completedSteps = Cardinality(With("completed"))
    /\ failedSteps = Cardinality(FailedAndBooked)
    /\ ExecutionMode = "dag" =>
          consecutiveFailures + Cardinality(Unbooked)
              <= MaxConsecutiveFailures - 1 + Cardinality(batch)

LedgerInv == StoreInv /\ RaiseInv /\ CountInv

\* What SkipJustified rests on: the plan is the one that was validated, nothing is
\* skipped before execute() ends, and when it ends by itself no coroutine is left.
SkipInv ==
    /\ \E raw \in RawPlans : planned = PlannedPlan(raw)
    /\ pc \in {"loop", "await"} => With("skipped") = {}
    /\ pc = "done" => \A s \in Step : task[s] \in {"idle", "booked"}
    /\ SkipJustified

\* The code substitutes "(no result)" for a dependency without a result, so a
\* dependency that completed with no text must not end the run.
EmptyResultIsReadable == pc # "raised"

\* The run implements the abstract execution of the plan.
Abstract == INSTANCE PlanExecution WITH deps <- plan.deps, halted <- pc \in Ended
ImplementsPlanExecution == Abstract!Spec

\* The run ends, whatever the LLM and the tools answer.
Termination == <>(pc \in Ended)

\* Every attempt ends, also those of tasks that outlive a closed or raised run.
AttemptsEnd ==
    \A s \in Step : task[s] = "running" ~> task[s] \notin {"running", "fallback"}
=============================================================================
