------------------------------- MODULE AgentApi -------------------------------
(***************************************************************************)
(* run_agent of the stand-alone agent service (agent_api.py): the events of *)
(* one run of PERAgentLoop are turned into the response and into the trace  *)
(* (core/trace_logger.py), under the time limit of a StepRunner without     *)
(* retries (core/step_runner.py).                                           *)
(*                                                                          *)
(* The executor's events of one step come together: it streams a single     *)
(* step and flushes those of a parallel one when it is collected.  So the   *)
(* events of steps follow one another, in any order of the steps.           *)
(***************************************************************************)
EXTENDS Naturals, Sequences, FiniteSets

CONSTANTS
    NumSteps, \* steps of the longest plan
    MaxEvents \* bound on the calls and errors of a run

AgentApiAssumption == NumSteps \in Nat \ {0} /\ MaxEvents \in Nat

VARIABLES
    phase,     \* where the run is
    planSteps, \* plan_steps: the number of steps announced
    left,      \* the steps that have not begun
    step,      \* the step whose events arrive, 0 between steps
    calls,     \* tool_calls: the step and the status listed, and (history) its outcome
    errors,    \* step_errors: their steps
    borrowed,  \* calls that were the last one listed when an error without a call of
               \* its own arrived (history)
    chunks,    \* text has been collected
    traced,    \* steps of the trace that are tool calls
    cut,       \* the run was ended by its time limit or by an exception
    response   \* what the client and the request log are told

vars == <<phase, planSteps, left, step, calls, errors, borrowed, chunks, traced, cut, response>>

Step == 1 .. NumSteps
Outcome == {"running", "success", "error"}
Called == [step : Step, status : Outcome, own : Outcome]
NoResponse == [status |-> "none", answer |-> "none"]

TypeOK ==
    /\ phase \in {"planning", "executing", "answering", "over", "responded"}
    /\ planSteps \in 0 .. NumSteps /\ left \subseteq Step
    /\ step \in 0 .. NumSteps
    /\ calls \in Seq(Called)
    /\ errors \in Seq(Step) /\ borrowed \subseteq 1 .. MaxEvents
    /\ chunks \in BOOLEAN /\ cut \in BOOLEAN
    /\ traced \in Seq(Step)
    /\ response \in [status : {"none", "ok", "partial"}, answer : {"none", "text", "empty", "error"}]

Init ==
    /\ phase = "planning"
    /\ planSteps = 0 /\ left = {} /\ step = 0
    /\ calls = <<>> /\ errors = <<>> /\ borrowed = {} /\ traced = <<>>
    /\ chunks = FALSE /\ cut = FALSE
    /\ response = NoResponse

Last == Len(calls)

\* AgentTracer.log_step and log_error: the lists of the trace.
LogStep(s) == traced' = Append(traced, s)
LogError(s) == errors' = Append(errors, s)

\* plan_step
PlanStep ==
    /\ phase = "planning" /\ planSteps < NumSteps
    /\ planSteps' = planSteps + 1
    /\ UNCHANGED <<phase, left, step, calls, errors, borrowed, chunks, traced, cut, response>>

\* plan_complete.  A plan without a step is replaced by one of a single step, as is
\* planning when it is switched off.
PlanComplete ==
    /\ phase = "planning"
    /\ left' = 1 .. (IF planSteps = 0 THEN 1 ELSE planSteps)
    /\ phase' = "executing"
    /\ UNCHANGED <<planSteps, step, calls, errors, borrowed, chunks, traced, cut, response>>

\* The executor goes on with a step; one that is skipped never begins.
BeginStep(s) ==
    /\ phase = "executing" /\ step = 0
    /\ s \in left
    /\ step' = s
    /\ left' = left \ {s}
    /\ UNCHANGED <<phase, planSteps, calls, errors, borrowed, chunks, traced, cut, response>>

\* tool_call: a call is listed as running.
ToolCall ==
    /\ phase = "executing" /\ step # 0 /\ Last < MaxEvents
    /\ Last > 0 => calls[Last].own # "running"
    /\ calls' = Append(calls, [step |-> step, status |-> "running", own |-> "running"])
    /\ UNCHANGED <<phase, planSteps, left, step, errors, borrowed, chunks, traced, cut, response>>

\* Mutant: the result is booked on the first call listed.
ToolResultOnFirst ==
    /\ phase = "executing" /\ step # 0
    /\ Last > 0 /\ calls[Last].own = "running"
    /\ calls' = [[calls EXCEPT ![Last].own = "success"] EXCEPT ![1].status = "success"]
    /\ traced' = Append(traced, calls[1].step)
    /\ UNCHANGED <<phase, planSteps, left, step, errors, borrowed, chunks, cut, response>>

\* tool_result: booked on the last call listed.
ToolResult ==
    /\ phase = "executing" /\ step # 0
    /\ Last > 0 /\ calls[Last].own = "running"
    /\ calls' = [calls EXCEPT ![Last].status = "success", ![Last].own = "success"]
    /\ LogStep(calls[Last].step)
    /\ UNCHANGED <<phase, planSteps, left, step, errors, borrowed, chunks, cut, response>>

\* tool_error of a call: booked on the last call listed.
ToolError ==
    /\ phase = "executing" /\ step # 0 /\ Len(errors) < MaxEvents
    /\ Last > 0 /\ calls[Last].own = "running"
    /\ calls' = [calls EXCEPT ![Last].status = "error", ![Last].own = "error"]
    /\ LogError(step)
    /\ UNCHANGED <<phase, planSteps, left, step, borrowed, chunks, traced, cut, response>>

\* tool_error of a model call that failed or of a step that is given up: booked on
\* the last call listed, whoever made it.
StepError ==
    /\ phase = "executing" /\ step # 0 /\ Len(errors) < MaxEvents
    /\ Last > 0 => calls[Last].own # "running"
    /\ LogError(step)
    /\ calls' = IF Last = 0 THEN calls ELSE [calls EXCEPT ![Last].status = "error"]
    /\ borrowed' = IF Last = 0 THEN borrowed ELSE borrowed \cup {Last}
    /\ UNCHANGED <<phase, planSteps, left, step, chunks, traced, cut, response>>

\* chunk: the text of the step, which ends it, or it ends without one.
EndStep ==
    /\ phase = "executing" /\ step # 0
    /\ Last > 0 => calls[Last].own # "running"
    /\ chunks' \in {chunks, TRUE}
    /\ step' = 0
    /\ UNCHANGED <<phase, planSteps, left, calls, errors, borrowed, traced, cut, response>>

\* The loop ends; the review may add a last chunk.
EndRun ==
    /\ phase = "executing" /\ step = 0
    /\ chunks' \in {chunks, TRUE}
    /\ phase' = "over"
    /\ UNCHANGED <<planSteps, left, step, calls, errors, borrowed, traced, cut, response>>

\* StepRunner.run: the limit is reached or the run raises; there is no other attempt
\* and no fallback.  Everything collected so far stays.
Cut ==
    /\ phase \in {"planning", "executing"}
    /\ cut' = TRUE
    /\ phase' = "over"
    /\ UNCHANGED <<planSteps, left, step, calls, errors, borrowed, chunks, traced, response>>

\* What /chat and /trace log of a response: it is partial if it lists errors.
Status == IF errors = <<>> THEN "ok" ELSE "partial"

\* The response and the line of the request log: a run that was cut off is an error
\* only if there is no text; then its steps' errors are left out.
Respond ==
    /\ phase = "over"
    /\ response' = IF cut /\ ~chunks
                   THEN [status |-> "partial", answer |-> "error"]
                   ELSE [status |-> Status,
                         answer |-> IF chunks THEN "text" ELSE "empty"]
    /\ phase' = "responded"
    /\ UNCHANGED <<planSteps, left, step, calls, errors, borrowed, chunks, traced, cut>>

Next ==
    \/ PlanStep \/ PlanComplete
    \/ \E s \in Step : BeginStep(s)
    \/ ToolCall \/ ToolResult \/ ToolError \/ StepError \/ EndStep
    \/ EndRun \/ Cut \/ Respond

Spec == Init /\ [][Next]_vars

---------------------------------------------------------------------------
(* Properties.                                                             *)

Succeeded == {i \in 1 .. Last : calls[i].own = "success"}

\* The trace has the steps of the calls that succeeded, in their order.
TraceHasSuccesses ==
    /\ Len(traced) = Cardinality(Succeeded)
    /\ \A i \in Succeeded :
          traced[Cardinality({j \in Succeeded : j <= i})] = calls[i].step

\* The response tells how the run went.  "ok" means that no step reported an error
\* and the run was not cut off, or else only after some text, which is then all
\* the answer there is.  A call is listed with the outcome it had, unless an error
\* that no call made was booked on it; and the trace has the calls that succeeded.
ResponseTellsRun ==
    phase = "responded" =>
        /\ response.status = "ok" => errors = <<>> /\ (cut => chunks)
        /\ \A i \in 1 .. Last :
              calls[i].status # calls[i].own => i \in borrowed /\ calls[i].status = "error"
        /\ TraceHasSuccesses

(***************************************************************************)
(* The inductive invariant: only the last call may be under way, and what     *)
(* the property says of calls and trace holds before the end.                 *)
(***************************************************************************)
CallsInv ==
    /\ borrowed \subseteq 1 .. Last
    /\ Last <= MaxEvents
    /\ \A i \in 1 .. Last :
          /\ calls[i].status # calls[i].own => i \in borrowed /\ calls[i].status = "error"
          /\ i < Last => calls[i].own # "running"

ResponseInv ==
    phase = "responded" /\ response.status = "ok" => errors = <<>> /\ (cut => chunks)

IInv == TypeOK /\ CallsInv /\ TraceHasSuccesses /\ ResponseInv
=============================================================================
