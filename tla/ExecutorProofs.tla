--------------------------- MODULE ExecutorProofs ---------------------------
(***************************************************************************)
(* Theorems about Executor, for every plan, every number of steps and every *)
(* setting of the breakers and of the retries: the inductive invariant      *)
(* IInv, the refinement of PlanExecution, the books of a run (LedgerInv),    *)
(* the order of serial mode (SerialInv) and why a step is skipped (SkipInv). *)
(***************************************************************************)
EXTENDS Executor, PlanDagProofs

LEMMA PlanType ==
    ASSUME planned \in Plan
    PROVE  /\ plan \in Plan
           /\ plan.deps = planned.deps
  BY DEF plan, Plan, RebuiltPlan, RetryStrategy

\* Whatever the LLM proposes, the planner hands over a well-formed plan.
LEMMA PlannedPlanType ==
    ASSUME NEW raw \in RawPlans
    PROVE  PlannedPlan(raw) \in Plan
<1>1. ParseRetry(raw) \in [Step -> RetryStrategy]
  BY DEF ParseRetry, RetryStrategy
<1>2. KnownDeps(raw) \in [Step -> SUBSET Step]
  BY DEF KnownDeps
<1>3. ValidateDag(raw) \in [Step -> SUBSET Step]
  BY <1>2 DEF ValidateDag
<1>4. raw.fallback \subseteq Step
  BY ExecutorAssumption
<1> QED BY <1>1, <1>3, <1>4 DEF PlannedPlan, Plan

LEMMA MaxAttemptsType ==
    ASSUME NEW s \in Step
    PROVE  MaxAttempts(s) \in 1 .. MaxRetriesPerStep + 1
  BY ExecutorAssumption DEF MaxAttempts

LEMMA InitInv == Init => IInv
<1> SUFFICES ASSUME Init PROVE IInv
  OBVIOUS
<1>1. planned \in Plan
  BY PlannedPlanType DEF Init
<1>2. TypeOK
  BY <1>1, ExecutorAssumption DEF Init, TypeOK, Status, Task, Ended
<1>3. StepInv
  BY MaxAttemptsType DEF Init, StepInv, Consistent
<1>4. RoundInv
  BY DEF Init, RoundInv
<1>5. DependencyOrder
  BY DEF Init, DependencyOrder
<1> QED BY <1>2, <1>3, <1>4, <1>5 DEF IInv

-----------------------------------------------------------------------------
(* Every action keeps the invariant *)

LEMMA PlanConstant ==
    ASSUME planned' = planned
    PROVE  /\ plan' = plan
           /\ \A s \in Step : MaxAttempts(s)' = MaxAttempts(s)
  BY DEF plan, MaxAttempts

\* The four ways the main loop ends.
LEMMA HaltInv ==
    ASSUME IInv, Finish \/ SkipBlocked \/ TripFailureBreaker \/ TripLowGainBreaker
    PROVE  IInv'
<1> USE DEF IInv
<1>1. planned' = planned /\ pc = "loop" /\ pc' = "done"
  BY DEF Finish, SkipBlocked, TripFailureBreaker, TripLowGainBreaker, planVars
<1>2. UNCHANGED <<batch, task, collected, taskVars, bookVars>>
  BY DEF Finish, SkipBlocked, TripFailureBreaker, TripLowGainBreaker
<1>3. status' = status \/ SkipPending
  BY DEF Finish, SkipBlocked, TripFailureBreaker, TripLowGainBreaker
<1>4. \A s \in Step : \/ status'[s] = status[s]
                      \/ status[s] = "pending" /\ status'[s] = "skipped"
  BY <1>3 DEF SkipPending, TypeOK
<1>5. TypeOK'
  BY <1>1, <1>2, <1>3 DEF TypeOK, SkipPending, taskVars, bookVars, Ended, Status
<1>6. StepInv'
  BY <1>1, <1>2, <1>4, PlanConstant DEF StepInv, Consistent, taskVars
<1>7. RoundInv'
  BY <1>1, <1>2 DEF RoundInv
<1>8. DependencyOrder'
  BY <1>1, <1>4, PlanConstant DEF DependencyOrder, With
<1> QED BY <1>5, <1>6, <1>7, <1>8

LEMMA NextRoundPending ==
    ASSUME ExecutionMode = "dag" => Ready # {}
    PROVE  /\ NextRound \subseteq With("pending")
           /\ ExecutionMode = "dag" => NextRound = Ready
  BY ExecutorAssumption DEF NextRound, FirstOf, Ready, With

LEMMA StartRoundInv ==
    ASSUME IInv, StartRound
    PROVE  IInv'
<1> USE DEF IInv
<1>1. planned' = planned /\ pc = "loop" /\ pc' = "await" /\ batch' = NextRound
  BY DEF StartRound, planVars
<1>2. UNCHANGED <<collected, taskVars, bookVars>>
  BY DEF StartRound
<1>3. ExecutionMode = "dag" => NextRound = Ready
  BY NextRoundPending DEF StartRound
<1>4. \A s \in Step : s \in NextRound => status[s] = "pending"
  BY NextRoundPending DEF StartRound, With
<1>5. \A s \in Step :
        /\ status'[s] = IF s \in NextRound THEN "running" ELSE status[s]
        /\ task'[s] = IF s \in NextRound THEN "running" ELSE task[s]
  BY DEF StartRound
<1>6. NextRound \subseteq Step
  BY NextRoundPending DEF StartRound, With
<1>7. TypeOK'
  <2>1. status' \in [Step -> Status] /\ task' \in [Step -> Task]
    BY DEF StartRound, TypeOK, Status, Task
  <2>2. collected' \subseteq batch'
    BY <1>1, <1>2 DEF RoundInv
  <2> QED BY <1>1, <1>2, <1>6, <2>1, <2>2 DEF TypeOK, taskVars, bookVars
<1>8. StepInv'
  <2> SUFFICES ASSUME NEW s \in Step
               PROVE  Consistent(s)'
    BY DEF StepInv
  <2>1. Consistent(s) /\ MaxAttempts(s)' = MaxAttempts(s) /\ attempts' = attempts
    BY <1>1, <1>2, PlanConstant DEF StepInv, taskVars
  <2>2. MaxAttempts(s) \in 1 .. MaxRetriesPerStep + 1
    BY MaxAttemptsType
  <2>3. CASE s \in NextRound
    BY <2>1, <2>2, <2>3, <1>4, <1>5, ExecutorAssumption DEF Consistent
  <2>4. CASE s \notin NextRound
    BY <2>1, <2>4, <1>5 DEF Consistent
  <2> QED BY <2>3, <2>4
<1>9. RoundInv'
  BY <1>1, <1>2, <1>5 DEF RoundInv
<1>10. DependencyOrder'
  BY <1>1, <1>3, <1>4, <1>5, PlanConstant DEF DependencyOrder, With, Ready
<1> QED BY <1>7, <1>8, <1>9, <1>10

\* A step of one of the coroutines of the round.
LEMMA AttemptInv ==
    ASSUME IInv, NEW s \in Step, Attempt(s)
    PROVE  IInv'
<1> USE DEF IInv
<1>1. UNCHANGED <<planVars, mainVars, collected, bookVars>>
  BY DEF Attempt, AttemptSucceeds, AttemptFails, FallbackAttempt, AttemptRaises
<1>2. planned' = planned /\ pc' = pc /\ batch' = batch /\ collected' = collected
  BY <1>1 DEF planVars, mainVars
<1>3. task[s] \in {"running", "fallback"}
  BY DEF Attempt, AttemptSucceeds, AttemptFails, FallbackAttempt, AttemptRaises
<1>4. MaxAttempts(s) \in 1 .. MaxRetriesPerStep + 1
  BY MaxAttemptsType
<1>5. \/ task'[s] \in {"running", "fallback", "finished", "raised"} /\ status' = status
      \/ task'[s] = "finished" /\ status' = [status EXCEPT ![s] = "failed"]
  BY DEF Attempt, AttemptSucceeds, AttemptFails, FallbackAttempt, AttemptRaises,
         Succeed, GoOn, GiveUp, TypeOK
<1>6. /\ task' \in [Step -> Task]
      /\ \A t \in Step \ {s} : task'[t] = task[t]
  BY DEF Attempt, AttemptSucceeds, AttemptFails, FallbackAttempt, AttemptRaises,
         Succeed, GoOn, GiveUp, TypeOK, Task
<1>7. /\ attempts' \in [Step -> Nat]
      /\ attempts'[s] <= MaxAttempts(s)
      /\ task'[s] = "running" => attempts'[s] < MaxAttempts(s)
      /\ \A t \in Step \ {s} : attempts'[t] = attempts[t]
  <2>1. /\ attempts[s] \in Nat /\ attempts[s] <= MaxAttempts(s)
        /\ task[s] = "running" => attempts[s] < MaxAttempts(s)
        /\ attempts \in [Step -> Nat]
        /\ task \in [Step -> Task]
    BY ExecutorAssumption DEF TypeOK, StepInv, Consistent
  <2>2. CASE \E text \in BOOLEAN : AttemptSucceeds(s, text)
    BY <2>1, <2>2, <1>4, ExecutorAssumption DEF AttemptSucceeds, Succeed
  <2>3. CASE \E text \in BOOLEAN : AttemptFails(s, text)
    BY <2>1, <2>3, <1>4, ExecutorAssumption DEF AttemptFails, GoOn, GiveUp
  <2>4. CASE \E error, text \in BOOLEAN : FallbackAttempt(s, error, text)
    BY <2>1, <2>4 DEF FallbackAttempt, Succeed, GiveUp
  <2>5. CASE AttemptRaises(s)
    BY <2>1, <2>5 DEF AttemptRaises, taskVars
  <2> QED BY <2>2, <2>3, <2>4, <2>5 DEF Attempt
<1>8. /\ resultText' \in [Step -> BOOLEAN]
      /\ stepText' \in [Step -> BOOLEAN]
  BY DEF Attempt, AttemptSucceeds, AttemptFails, FallbackAttempt, AttemptRaises,
         Succeed, GoOn, GiveUp, TypeOK, taskVars
<1>9. /\ status' \in [Step -> Status]
      /\ \A t \in Step \ {s} : status'[t] = status[t]
      /\ status[s] = "running"
      /\ status'[s] \in {"running", "failed"}
  BY <1>3, <1>5 DEF TypeOK, StepInv, Consistent, Status
<1>10. \A t \in Step : Consistent(t)'
  <2> SUFFICES ASSUME NEW t \in Step
               PROVE  Consistent(t)'
    OBVIOUS
  <2>1. MaxAttempts(t)' = MaxAttempts(t)
    BY <1>2, PlanConstant
  <2>2. CASE t = s
    BY <2>1, <2>2, <1>3, <1>5, <1>7, <1>9 DEF Consistent
  <2>3. CASE t # s
    BY <2>1, <2>3, <1>6, <1>7, <1>9 DEF Consistent, StepInv
  <2> QED BY <2>2, <2>3
<1>11. TypeOK'
  <2>1. \A t \in Step : attempts'[t] \in 0 .. MaxRetriesPerStep + 1
    BY <1>4, <1>7, ExecutorAssumption DEF TypeOK
  <2>2. attempts' \in [Step -> 0 .. MaxRetriesPerStep + 1]
    BY <2>1, <1>7
  <2> QED BY <1>1, <1>2, <1>6, <1>8, <1>9, <2>2 DEF TypeOK, bookVars
<1>12. RoundInv'
  <2>1. s \in batch /\ pc # "loop" /\ s \notin collected
    BY <1>3 DEF RoundInv
  <2>2. \A t \in collected : t \in Step
    BY DEF TypeOK
  <2> QED BY <2>1, <2>2, <1>2, <1>6 DEF RoundInv
<1>13. DependencyOrder'
  <2>1. With("completed") = With("completed")'
    BY <1>9 DEF With
  <2> QED BY <2>1, <1>2, <1>9, PlanConstant DEF DependencyOrder
<1> QED BY <1>10, <1>11, <1>12, <1>13 DEF StepInv

LEMMA CollectInv ==
    ASSUME IInv, Collect
    PROVE  IInv'
<1> USE DEF IInv, Collect, planVars, mainVars, taskVars, bookVars
<1>1. TypeOK'
  BY DEF TypeOK
<1>2. StepInv'
  BY PlanConstant DEF StepInv, Consistent
<1>3. RoundInv'
  BY DEF RoundInv
<1>4. DependencyOrder'
  BY PlanConstant DEF DependencyOrder, With
<1> QED BY <1>1, <1>2, <1>3, <1>4

\* Whichever way a finished step is booked, the round goes on consistently.
LEMMA BookInv ==
    ASSUME IInv, NEW s \in Step, BookSuccess(s) \/ BookFailure(s)
    PROVE  IInv'
<1> USE DEF IInv
<1>1. Booked(s)
  BY DEF BookSuccess, BookFailure
<1>2. /\ planned' = planned /\ batch' = batch /\ UNCHANGED taskVars
      /\ pc = "await" /\ task[s] = "finished" /\ s \in collected
      /\ collected' = collected \ {s}
      /\ pc' \in {"loop", "await"}
      /\ pc' = "loop" => \A t \in batch \ {s} : task[t] = "booked"
  BY <1>1 DEF Booked, planVars
<1>3. /\ task' \in [Step -> Task]
      /\ task'[s] = "booked"
      /\ \A t \in Step \ {s} : task'[t] = task[t]
  BY <1>1 DEF Booked, TypeOK, Task
<1>4. /\ status' \in [Step -> Status]
      /\ \A t \in Step \ {s} : status'[t] = status[t]
      /\ \/ status[s] = "failed" /\ status'[s] = "failed"
         \/ status[s] = "running" /\ status'[s] = "completed"
  BY <1>2 DEF BookSuccess, BookFailure, TypeOK, StepInv, Consistent, Status
<1>5. /\ completedSteps' \in Nat /\ failedSteps' \in Nat
      /\ consecutiveFailures' \in Nat /\ consecutiveLowGain' \in Nat
      /\ seen' \subseteq Fingerprint
      /\ store' \in [Step -> {"absent", "empty", "text"}]
  BY DEF BookSuccess, BookFailure, StoreResult, UpdateInfoGain, TypeOK
<1>6. TypeOK'
  BY <1>2, <1>3, <1>4, <1>5 DEF TypeOK, taskVars, Ended
<1>7. StepInv'
  <2> SUFFICES ASSUME NEW t \in Step
               PROVE  Consistent(t)'
    BY DEF StepInv
  <2>1. MaxAttempts(t)' = MaxAttempts(t) /\ attempts' = attempts
    BY <1>2, PlanConstant DEF taskVars
  <2>2. CASE t = s
    BY <2>1, <2>2, <1>2, <1>3, <1>4 DEF Consistent, StepInv
  <2>3. CASE t # s
    BY <2>1, <2>3, <1>3, <1>4 DEF Consistent, StepInv
  <2> QED BY <2>2, <2>3
<1>8. RoundInv'
  <2>1. \A t \in Step : t \notin batch' => task'[t] \in {"idle", "booked"}
    BY <1>2, <1>3 DEF RoundInv
  <2>2. \A t \in collected' : task'[t] \in {"finished", "raised"}
    BY <1>2, <1>3 DEF RoundInv, TypeOK
  <2>3. ASSUME pc' = "loop"
        PROVE  collected' = {} /\ \A t \in Step : task'[t] \in {"idle", "booked"}
    BY <2>1, <2>2, <2>3, <1>2, <1>3 DEF TypeOK
  <2> QED BY <2>1, <2>2, <2>3 DEF RoundInv
<1>9. DependencyOrder'
  <2>1. With("completed") \subseteq With("completed")'
    BY <1>4 DEF With
  <2> QED BY <2>1, <1>2, <1>4, PlanConstant DEF DependencyOrder
<1> QED BY <1>6, <1>7, <1>8, <1>9

\* An exception, or a consumer that goes away.
LEMMA AbandonInv ==
    ASSUME IInv, Close \/ \E s \in Step : Raise(s)
    PROVE  IInv'
<1> USE DEF IInv
<1>1. /\ planned' = planned /\ UNCHANGED <<status, batch, collected, taskVars, bookVars>>
      /\ pc' \in {"raised", "closed"}
  BY DEF Close, Raise, planVars
<1>2. /\ task' \in [Step -> Task]
      /\ \A t \in Step :
            \/ task'[t] = task[t]
            \/ task'[t] = "cancelled" /\ task[t] \in {"running", "fallback"}
  BY DEF Close, Raise, TypeOK, Task
<1>3. TypeOK'
  BY <1>1, <1>2 DEF TypeOK, taskVars, bookVars, Ended
<1>4. StepInv'
  BY <1>1, <1>2, PlanConstant DEF StepInv, Consistent, taskVars
<1>5. RoundInv'
  BY <1>1, <1>2 DEF RoundInv, TypeOK
<1>6. DependencyOrder'
  BY <1>1, PlanConstant DEF DependencyOrder, With
<1> QED BY <1>3, <1>4, <1>5, <1>6

LEMMA StutterInv ==
    ASSUME IInv, UNCHANGED vars
    PROVE  IInv'
<1> USE DEF IInv, vars, planVars, mainVars, taskVars, bookVars
<1>1. TypeOK'
  BY DEF TypeOK
<1>2. StepInv'
  BY PlanConstant DEF StepInv, Consistent
<1>3. RoundInv'
  BY DEF RoundInv
<1>4. DependencyOrder'
  BY PlanConstant DEF DependencyOrder, With
<1> QED BY <1>1, <1>2, <1>3, <1>4

LEMMA NextInv == IInv /\ [Next]_vars => IInv'
<1> SUFFICES ASSUME IInv, [Next]_vars
             PROVE  IInv'
  OBVIOUS
<1>1. CASE Finish \/ SkipBlocked \/ TripFailureBreaker \/ TripLowGainBreaker
  BY <1>1, HaltInv
<1>2. CASE StartRound
  BY <1>2, StartRoundInv
<1>3. CASE Collect
  BY <1>3, CollectInv
<1>4. CASE \E s \in Step : BookSuccess(s) \/ BookFailure(s)
  BY <1>4, BookInv
<1>5. CASE Close \/ \E s \in Step : Raise(s)
  BY <1>5, AbandonInv
<1>6. CASE \E s \in Step : Attempt(s)
  BY <1>6, AttemptInv
<1>7. CASE UNCHANGED vars
  BY <1>7, StutterInv
<1> QED BY <1>1, <1>2, <1>3, <1>4, <1>5, <1>6, <1>7 DEF Next, Main

\* The inductive invariant: the status and the coroutine of every step agree, between
\* rounds nothing is in flight, and in DAG mode dependencies come first.
THEOREM Invariance == Spec => []IInv
  BY InitInv, NextInv, PTL DEF Spec

-----------------------------------------------------------------------------
(* Theorems *)

\* The variables of execute() keep their types: in particular no step is
\* attempted more often than max_retries_per_step allows.
THEOREM TypeCorrect == Spec => []TypeOK
<1>1. IInv => TypeOK
  BY DEF IInv
<1> QED BY <1>1, Invariance, PTL

\* In DAG mode no step runs before everything it depends on has completed, for
\* every plan the LLM may propose.
THEOREM DependencyOrderHolds == Spec => []DependencyOrder
<1>1. IInv => DependencyOrder
  BY DEF IInv
<1> QED BY <1>1, Invariance, PTL

\* The executor itself honours the retry strategy it is given: it is the loop
\* that loses it.
THEOREM RetryStrategyHolds ==
    ASSUME ViaLoop = FALSE
    PROVE  Spec => []RetryStrategyHonoured
<1>1. IInv => RetryStrategyHonoured
  <2> SUFFICES ASSUME IInv, NEW s \in Step, planned.retry[s] \in {"ask_user", "skip"}
               PROVE  attempts[s] <= 1
    BY DEF RetryStrategyHonoured
  <2>1. MaxAttempts(s) = 1
    BY DEF MaxAttempts, plan
  <2> QED BY <2>1 DEF IInv, StepInv, Consistent
<1> QED BY <1>1, Invariance, PTL

-----------------------------------------------------------------------------
(* The executor implements PlanExecution *)

\* Between rounds no step is running.
LEMMA NoneRunning ==
    ASSUME IInv, pc = "loop"
    PROVE  Abstract!With("running") = {}
<1> SUFFICES ASSUME NEW s \in Step, status[s] = "running"
             PROVE  FALSE
  BY DEF Abstract!With
<1>1. task[s] \in {"idle", "booked"} /\ Consistent(s)
  BY DEF IInv, RoundInv, StepInv
<1> QED BY <1>1 DEF Consistent

LEMMA InitRefines == Init => Abstract!Init
<1> SUFFICES ASSUME Init PROVE Abstract!Init
  OBVIOUS
<1>1. planned \in Plan
  BY PlannedPlanType DEF Init
<1>2. plan.deps \in [Step -> SUBSET Step]
  BY <1>1, PlanType DEF Plan
<1> QED BY <1>2 DEF Init, Abstract!Init, Ended

LEMMA HaltRefines ==
    ASSUME IInv, Finish \/ SkipBlocked \/ TripFailureBreaker \/ TripLowGainBreaker
    PROVE  Abstract!Halt
<1>1. planned' = planned /\ pc = "loop" /\ pc' = "done"
  BY DEF Finish, SkipBlocked, TripFailureBreaker, TripLowGainBreaker, planVars
<1>2. status \in [Step -> Status]
  BY DEF IInv, TypeOK
<1>3. status' = [s \in Step |->
                    IF status[s] = "pending" THEN "skipped" ELSE status[s]]
  <2>1. CASE Finish
    BY <2>1, <1>2 DEF Finish, IsComplete
  <2>2. CASE SkipBlocked \/ TripFailureBreaker \/ TripLowGainBreaker
    BY <2>2 DEF SkipBlocked, TripFailureBreaker, TripLowGainBreaker, SkipPending
  <2> QED BY <2>1, <2>2
<1>4. plan'.deps = plan.deps
  BY <1>1, PlanConstant
<1> QED BY <1>1, <1>3, <1>4, NoneRunning DEF Abstract!Halt, Ended

LEMMA StartRoundRefines ==
    ASSUME IInv, StartRound, ExecutionMode = "dag"
    PROVE  Abstract!StartRound
<1>1. NextRound = Ready /\ Ready # {}
  BY NextRoundPending DEF StartRound
<1>2. /\ planned' = planned /\ pc = "loop" /\ pc' = "await"
      /\ status' = [s \in Step |-> IF s \in Ready THEN "running" ELSE status[s]]
  BY <1>1 DEF StartRound, planVars
<1>3. /\ Ready \in SUBSET Abstract!With("pending")
      /\ \A s \in Ready : plan.deps[s] \subseteq Abstract!With("completed")
  BY DEF Ready, With, Abstract!With
<1>4. plan'.deps = plan.deps
  BY <1>2, PlanConstant
<1> QED BY <1>1, <1>2, <1>3, <1>4, NoneRunning DEF Abstract!StartRound, Ended

LEMMA BookRefines ==
    ASSUME IInv, NEW s \in Step, BookSuccess(s) \/ BookFailure(s)
    PROVE  Abstract!Complete(s) \/ UNCHANGED Abstract!vars
<1>1. /\ planned' = planned /\ pc = "await" /\ pc' \in {"loop", "await"}
      /\ task[s] = "finished"
  BY DEF BookSuccess, BookFailure, Booked, planVars
<1>2. plan'.deps = plan.deps
  BY <1>1, PlanConstant
<1>3. pc \notin Ended /\ pc' \notin Ended
  BY <1>1 DEF Ended
<1>4. CASE BookSuccess(s)
  <2>1. status[s] = "running"
    BY <1>1, <1>4 DEF IInv, StepInv, Consistent, BookSuccess
  <2> QED BY <1>2, <1>3, <1>4, <2>1 DEF BookSuccess, Abstract!Complete
<1>5. CASE BookFailure(s)
  BY <1>2, <1>3, <1>5 DEF BookFailure, Abstract!vars
<1> QED BY <1>4, <1>5

LEMMA AttemptRefines ==
    ASSUME IInv, NEW s \in Step, Attempt(s)
    PROVE  Abstract!Fail(s) \/ UNCHANGED Abstract!vars
<1>1. planned' = planned /\ pc' = pc
  BY DEF Attempt, AttemptSucceeds, AttemptFails, FallbackAttempt, AttemptRaises,
         planVars, mainVars
<1>2. plan'.deps = plan.deps
  BY <1>1, PlanConstant
<1>3. status[s] = "running"
  <2>1. task[s] \in {"running", "fallback"}
    BY DEF Attempt, AttemptSucceeds, AttemptFails, FallbackAttempt, AttemptRaises
  <2> QED BY <2>1 DEF IInv, StepInv, Consistent
<1>4. status' = status \/ status' = [status EXCEPT ![s] = "failed"]
  BY DEF Attempt, AttemptSucceeds, AttemptFails, FallbackAttempt, AttemptRaises,
         Succeed, GoOn, GiveUp
<1> QED BY <1>1, <1>2, <1>3, <1>4 DEF Abstract!Fail, Abstract!vars

LEMMA NextRefines ==
    ASSUME ExecutionMode = "dag", IInv, [Next]_vars
    PROVE  [Abstract!Next]_Abstract!vars
<1>1. CASE Finish \/ SkipBlocked \/ TripFailureBreaker \/ TripLowGainBreaker
  BY <1>1, HaltRefines DEF Abstract!Next
<1>2. CASE StartRound
  BY <1>2, StartRoundRefines DEF Abstract!Next
<1>3. CASE \E s \in Step : BookSuccess(s) \/ BookFailure(s)
  BY <1>3, BookRefines DEF Abstract!Next
<1>4. CASE \E s \in Step : Attempt(s)
  BY <1>4, AttemptRefines DEF Abstract!Next
<1>5. CASE Close \/ \E s \in Step : Raise(s)
  <2>1. /\ planned' = planned /\ status' = status
        /\ pc \in {"loop", "await"} /\ pc' \in {"raised", "closed"}
    BY <1>5 DEF Close, Raise, planVars
  <2>2. plan'.deps = plan.deps
    BY <2>1, PlanConstant
  <2>3. Abstract!Abandon
    BY <2>1, <2>2 DEF Abstract!Abandon, Ended
  <2> QED BY <2>3 DEF Abstract!Next
<1>6. CASE Collect \/ UNCHANGED vars
  <2>1. planned' = planned /\ status' = status /\ pc' = pc
    BY <1>6 DEF Collect, vars, planVars, mainVars
  <2> QED BY <2>1, PlanConstant DEF Abstract!vars
<1> QED BY <1>1, <1>2, <1>3, <1>4, <1>5, <1>6 DEF Next, Main

\* In DAG mode every run of the executor, retries, parallel tasks, breakers,
\* exceptions and disconnections included, is a run of PlanExecution.
THEOREM Refinement ==
    ASSUME ExecutionMode = "dag"
    PROVE  Spec => ImplementsPlanExecution
<1>1. IInv /\ [Next]_vars => [Abstract!Next]_Abstract!vars
  BY NextRefines
<1> QED BY <1>1, InitRefines, Invariance, PTL DEF Spec, Abstract!Spec, ImplementsPlanExecution

-----------------------------------------------------------------------------
(* What a run books: counters, results in memory, exceptions, serial mode *)

\* Every set of steps is finite.
LEMMA StepsFinite ==
    ASSUME NEW S \in SUBSET Step
    PROVE  IsFiniteSet(S) /\ Cardinality(S) \in Nat
<1>1. IsFiniteSet(Step)
  BY NumStepsAssumption, FS_Interval DEF Step
<1>2. IsFiniteSet(S)
  BY <1>1, FS_Subset
<1> QED BY <1>2, FS_CardinalityType

LEMMA OneMore ==
    ASSUME NEW S \in SUBSET Step, NEW s \in Step, s \notin S
    PROVE  Cardinality(S \cup {s}) = Cardinality(S) + 1
  BY StepsFinite, FS_AddElement

LEMMA OneLess ==
    ASSUME NEW S \in SUBSET Step, NEW s \in S
    PROVE  Cardinality(S \ {s}) = Cardinality(S) - 1
  BY StepsFinite, FS_RemoveElement

\* The dependencies of a step are steps.
LEMMA DepsType ==
    ASSUME TypeOK, NEW s \in Step
    PROVE  plan.deps[s] \subseteq Step
<1>1. plan \in Plan
  BY PlanType DEF TypeOK
<1> QED BY <1>1 DEF Plan

LEMMA InitLedgerInv == Init => LedgerInv
<1> SUFFICES ASSUME Init PROVE LedgerInv
  OBVIOUS
<1>1. With("completed") = {} /\ FailedAndBooked = {} /\ Unbooked = {} /\ batch = {}
  BY DEF Init, With, FailedAndBooked, Unbooked
<1>2. StoreInv
  BY DEF Init, StoreInv
<1>3. RaiseInv
  BY DEF Init, RaiseInv
<1>4. CountInv
  <2>1. Cardinality({}) = 0
    BY FS_EmptySet
  <2>2. completedSteps = 0 /\ failedSteps = 0 /\ consecutiveFailures = 0
    BY DEF Init
  <2>3. MaxConsecutiveFailures \in Nat \ {0}
    BY ExecutorAssumption
  <2>4. /\ Cardinality(With("completed")) = 0 /\ Cardinality(FailedAndBooked) = 0
        /\ Cardinality(Unbooked) = 0 /\ Cardinality(batch) = 0
    BY <1>1, <2>1
  <2> QED BY <2>2, <2>3, <2>4 DEF CountInv
<1> QED BY <1>2, <1>3, <1>4 DEF LedgerInv

-----------------------------------------------------------------------------
(* Every action keeps the invariant *)

\* A step that books nothing: none completes, none that is booked fails, what raised
\* stays and the round, if it is the same, has as many to come.
LEMMA QuietStep ==
    ASSUME LedgerInv,
           UNCHANGED <<planned, bookVars>>,
           With("completed")' = With("completed"),
           FailedAndBooked' = FailedAndBooked,
           \A s \in Step : task'[s] = "raised" =>
               task[s] = "raised" \/ \E d \in plan.deps[s] : store[d] = "empty",
           pc' = "raised" => \E s \in batch' : task'[s] = "raised",
           ExecutionMode = "dag" =>
               consecutiveFailures + Cardinality(Unbooked')
                   <= MaxConsecutiveFailures - 1 + Cardinality(batch')
    PROVE  LedgerInv'
<1> USE DEF LedgerInv, bookVars
<1>1. plan' = plan
  BY PlanConstant
<1>2. StoreInv'
  BY DEF StoreInv, With
<1>3. RaiseInv'
  BY <1>1 DEF RaiseInv
<1>4. CountInv'
  BY DEF CountInv
<1> QED BY <1>2, <1>3, <1>4

LEMMA HaltKeeps ==
    ASSUME IInv, LedgerInv, Finish \/ SkipBlocked \/ TripFailureBreaker \/ TripLowGainBreaker
    PROVE  LedgerInv'
<1>1. planned' = planned /\ pc' = "done"
  BY DEF Finish, SkipBlocked, TripFailureBreaker, TripLowGainBreaker, planVars
<1>2. UNCHANGED <<batch, task, collected, taskVars, bookVars>>
  BY DEF Finish, SkipBlocked, TripFailureBreaker, TripLowGainBreaker
<1>3. status' = status \/ SkipPending
  BY DEF Finish, SkipBlocked, TripFailureBreaker, TripLowGainBreaker
<1>4. \A s \in Step : \/ status'[s] = status[s]
                      \/ status[s] = "pending" /\ status'[s] = "skipped"
  BY <1>3 DEF SkipPending
<1>5. With("completed")' = With("completed") /\ With("failed")' = With("failed")
  BY <1>4 DEF With
<1>6. FailedAndBooked' = FailedAndBooked /\ Unbooked' = Unbooked
  BY <1>2, <1>5 DEF FailedAndBooked, Unbooked
<1> QED BY <1>1, <1>2, <1>5, <1>6, QuietStep DEF LedgerInv, CountInv

\* The failure breaker is closed when a round begins, and none of it is booked.
LEMMA StartRoundKeeps ==
    ASSUME IInv, LedgerInv, StartRound
    PROVE  LedgerInv'
<1>1. planned' = planned /\ pc' = "await" /\ batch' = NextRound /\ UNCHANGED bookVars
  BY DEF StartRound, planVars
<1>2. NextRound \subseteq With("pending")
  BY NextRoundPending DEF StartRound
<1>3. \A s \in Step :
        /\ status'[s] = IF s \in NextRound THEN "running" ELSE status[s]
        /\ task'[s] = IF s \in NextRound THEN "running" ELSE task[s]
  BY DEF StartRound
<1>4. With("completed")' = With("completed")
  BY <1>2, <1>3 DEF With
<1>5. FailedAndBooked' = FailedAndBooked
  BY <1>2, <1>3 DEF FailedAndBooked, With
<1>6. batch' \subseteq Step /\ Unbooked' = batch'
  BY <1>1, <1>2, <1>3 DEF Unbooked, With
<1>7. ExecutionMode = "dag" => consecutiveFailures <= MaxConsecutiveFailures - 1
  BY ExecutorAssumption DEF StartRound, FailureBreakerOpen, IInv, TypeOK
<1>8. Cardinality(batch') \in Nat
  BY <1>6, StepsFinite
<1>9. ExecutionMode = "dag" =>
          consecutiveFailures + Cardinality(Unbooked')
              <= MaxConsecutiveFailures - 1 + Cardinality(batch')
  BY <1>6, <1>7, <1>8, ExecutorAssumption DEF IInv, TypeOK
<1> QED BY <1>1, <1>3, <1>4, <1>5, <1>9, QuietStep

\* An attempt may fail its step, which is not booked for it, or raise, if a result that
\* it reads is empty.
LEMMA AttemptKeeps ==
    ASSUME IInv, LedgerInv, NEW s \in Step, Attempt(s)
    PROVE  LedgerInv'
<1> USE DEF Attempt, AttemptSucceeds, AttemptFails, FallbackAttempt, AttemptRaises
<1>1. UNCHANGED <<planVars, mainVars, collected, bookVars>>
  OBVIOUS
<1>2. planned' = planned /\ pc' = pc /\ batch' = batch
  BY <1>1 DEF planVars, mainVars
<1>3. task[s] \in {"running", "fallback"} /\ status[s] = "running"
  BY DEF IInv, StepInv, Consistent
<1>4. /\ \A t \in Step \ {s} : task'[t] = task[t]
      /\ task'[s] \in {"running", "fallback", "finished", "raised"}
  BY DEF Succeed, GoOn, GiveUp, IInv, TypeOK
<1>5. task'[s] = "raised" => ~PreviousResultsReadable(s)
  BY DEF Succeed, GoOn, GiveUp, IInv, TypeOK
<1>6. /\ \A t \in Step \ {s} : status'[t] = status[t]
      /\ status'[s] \in {"running", "failed"}
  BY <1>3 DEF Succeed, GoOn, GiveUp, IInv, TypeOK
<1>7. With("completed")' = With("completed")
  BY <1>3, <1>6 DEF With
<1>8. FailedAndBooked' = FailedAndBooked
  BY <1>3, <1>4, <1>6 DEF FailedAndBooked, With
<1>9. Unbooked' = Unbooked
  BY <1>2, <1>3, <1>4 DEF Unbooked, IInv, TypeOK
<1>10. \A t \in Step : task'[t] = "raised" =>
           task[t] = "raised" \/ \E d \in plan.deps[t] : store[d] = "empty"
  BY <1>4, <1>5 DEF PreviousResultsReadable
<1>11. pc' = "raised" => \E t \in batch' : task'[t] = "raised"
  BY <1>2, <1>3, <1>4 DEF LedgerInv, RaiseInv, IInv, TypeOK
<1> QED BY <1>1, <1>2, <1>7, <1>8, <1>9, <1>10, <1>11, QuietStep DEF LedgerInv, CountInv

LEMMA CollectKeeps ==
    ASSUME IInv, LedgerInv, Collect \/ UNCHANGED vars
    PROVE  LedgerInv'
<1> USE DEF Collect, vars, planVars, mainVars, taskVars
<1>1. UNCHANGED <<planned, pc, batch, status, task, bookVars>>
  BY DEF bookVars
<1>2. /\ With("completed")' = With("completed")
      /\ FailedAndBooked' = FailedAndBooked /\ Unbooked' = Unbooked
  BY <1>1 DEF With, FailedAndBooked, Unbooked
<1> QED BY <1>1, <1>2, QuietStep DEF LedgerInv, CountInv, RaiseInv

LEMMA AbandonKeeps ==
    ASSUME IInv, LedgerInv, Close \/ \E s \in Step : Raise(s)
    PROVE  LedgerInv'
<1>1. UNCHANGED <<planned, status, batch, bookVars>>
  BY DEF Close, Raise, planVars
<1>2. \A t \in Step :
          \/ task'[t] = task[t]
          \/ task'[t] = "cancelled" /\ task[t] \in {"running", "fallback"}
  BY DEF Close, Raise
<1>3. With("completed")' = With("completed")
  BY <1>1 DEF With
<1>4. FailedAndBooked' = FailedAndBooked
  BY <1>1, <1>2 DEF FailedAndBooked, With
<1>5. Unbooked' = Unbooked
  BY <1>1, <1>2 DEF Unbooked, IInv, TypeOK
<1>6. pc' = "raised" => \E t \in batch' : task'[t] = "raised"
  BY DEF Close, Raise, IInv, TypeOK
<1> QED BY <1>1, <1>2, <1>3, <1>4, <1>5, <1>6, QuietStep DEF LedgerInv, CountInv

-----------------------------------------------------------------------------
(* Booking *)

\* What both ways of booking do to the round.
LEMMA BookingType ==
    ASSUME IInv, NEW s \in Step, Booked(s)
    PROVE  /\ UNCHANGED <<planned, batch>>
           /\ pc' \in {"loop", "await"}
           /\ s \in batch /\ task[s] = "finished" /\ task'[s] = "booked"
           /\ \A t \in Step \ {s} : task'[t] = task[t]
           /\ Cardinality(Unbooked') = Cardinality(Unbooked) - 1
<1>1. /\ UNCHANGED <<planned, batch>> /\ pc' \in {"loop", "await"}
      /\ s \in batch /\ task[s] = "finished" /\ task'[s] = "booked"
      /\ \A t \in Step \ {s} : task'[t] = task[t]
  BY DEF Booked, planVars, IInv, TypeOK
<1>2. Unbooked \in SUBSET Step /\ s \in Unbooked
  BY <1>1 DEF Unbooked, IInv, TypeOK
<1>3. Unbooked' = Unbooked \ {s}
  BY <1>1 DEF Unbooked, IInv, TypeOK
<1> QED BY <1>1, <1>2, <1>3, OneLess

LEMMA BookSuccessKeeps ==
    ASSUME IInv, LedgerInv, NEW s \in Step, BookSuccess(s)
    PROVE  LedgerInv'
<1>1. Booked(s) /\ status[s] = "running"
  BY DEF BookSuccess, Booked, IInv, StepInv, Consistent
<1>2. plan' = plan
  BY <1>1, BookingType, PlanConstant
<1>3. /\ status'[s] = "completed" /\ store'[s] # "absent"
      /\ \A t \in Step \ {s} : status'[t] = status[t] /\ store'[t] = store[t]
      /\ store[s] = "absent"
  BY <1>1 DEF BookSuccess, StoreResult, IInv, TypeOK, LedgerInv, StoreInv
<1>4. StoreInv'
  BY <1>3 DEF LedgerInv, StoreInv
<1>5. RaiseInv'
  <2>1. ASSUME NEW t \in Step, task'[t] = "raised"
        PROVE  \E d \in plan.deps[t] : store'[d] = "empty"
    <3>1. task[t] = "raised"
      BY <2>1, <1>1, BookingType
    <3>2. PICK d \in plan.deps[t] : store[d] = "empty"
      BY <3>1 DEF LedgerInv, RaiseInv
    <3>3. d \in Step
      BY <3>2, DepsType DEF IInv
    <3> QED BY <3>2, <3>3, <1>3
  <2> QED BY <2>1, <1>1, <1>2, BookingType DEF RaiseInv
<1>6. CountInv'
  <2>1. With("completed")' = With("completed") \cup {s} /\ s \notin With("completed")
    BY <1>1, <1>3 DEF With
  <2>2. Cardinality(With("completed")') = Cardinality(With("completed")) + 1
    BY <2>1, OneMore DEF With
  <2>3. FailedAndBooked' = FailedAndBooked
    BY <1>1, <1>3, BookingType DEF FailedAndBooked, With
  <2>4. Cardinality(Unbooked') <= Cardinality(batch')
    <3>1. Unbooked \in SUBSET batch /\ batch \in SUBSET Step /\ IsFiniteSet(batch)
      BY StepsFinite DEF Unbooked, IInv, TypeOK
    <3>2. Cardinality(Unbooked) <= Cardinality(batch)
      BY <3>1, FS_Subset
    <3>3. Cardinality(Unbooked) \in Nat /\ Cardinality(batch) \in Nat
      BY <3>1, StepsFinite
    <3> QED BY <3>2, <3>3, <1>1, BookingType
  <2>5. Cardinality(Unbooked') \in Int /\ Cardinality(batch') \in Nat
    <3>1. Unbooked \in SUBSET Step /\ batch \in SUBSET Step
      BY DEF Unbooked, IInv, TypeOK
    <3>2. Cardinality(Unbooked) \in Nat /\ Cardinality(batch) \in Nat
      BY <3>1, StepsFinite
    <3> QED BY <3>2, <1>1, BookingType
  <2>6. /\ completedSteps' = completedSteps + 1 /\ failedSteps' = failedSteps
        /\ consecutiveFailures' = 0
    BY DEF BookSuccess
  <2> QED BY <2>2, <2>3, <2>4, <2>5, <2>6, ExecutorAssumption DEF CountInv, LedgerInv
<1> QED BY <1>4, <1>5, <1>6 DEF LedgerInv

LEMMA BookFailureKeeps ==
    ASSUME IInv, LedgerInv, NEW s \in Step, BookFailure(s)
    PROVE  LedgerInv'
<1>1. Booked(s) /\ status[s] = "failed"
  BY DEF BookFailure
<1>2. UNCHANGED <<status, completedSteps, store>>
  BY DEF BookFailure
<1>3. plan' = plan
  BY <1>1, BookingType, PlanConstant
<1>4. StoreInv'
  BY <1>2 DEF LedgerInv, StoreInv
<1>5. RaiseInv'
  BY <1>1, <1>2, <1>3, BookingType DEF LedgerInv, RaiseInv
<1>6. CountInv'
  <2>1. With("completed")' = With("completed")
    BY <1>2 DEF With
  <2>2. /\ FailedAndBooked' = FailedAndBooked \cup {s} /\ s \notin FailedAndBooked
        /\ FailedAndBooked \in SUBSET Step
    BY <1>1, <1>2, BookingType DEF FailedAndBooked, With
  <2>3. Cardinality(FailedAndBooked') = Cardinality(FailedAndBooked) + 1
    BY <2>2, OneMore
  <2>4. Cardinality(Unbooked) \in Nat /\ Cardinality(batch) \in Nat
    <3>1. Unbooked \in SUBSET Step /\ batch \in SUBSET Step
      BY DEF Unbooked, IInv, TypeOK
    <3> QED BY <3>1, StepsFinite
  <2>5. /\ failedSteps' = failedSteps + 1
        /\ consecutiveFailures' = consecutiveFailures + 1
        /\ completedSteps' = completedSteps
    BY DEF BookFailure
  <2>6. Cardinality(Unbooked') = Cardinality(Unbooked) - 1 /\ batch' = batch
    BY <1>1, BookingType
  <2>7. consecutiveFailures \in Nat
    BY DEF IInv, TypeOK
  <2> QED BY <2>1, <2>3, <2>4, <2>5, <2>6, <2>7, ExecutorAssumption DEF CountInv, LedgerInv
<1> QED BY <1>4, <1>5, <1>6 DEF LedgerInv

LEMMA NextKeeps == IInv /\ LedgerInv /\ [Next]_vars => LedgerInv'
<1> SUFFICES ASSUME IInv, LedgerInv, [Next]_vars
             PROVE  LedgerInv'
  OBVIOUS
<1>1. CASE Finish \/ SkipBlocked \/ TripFailureBreaker \/ TripLowGainBreaker
  BY <1>1, HaltKeeps
<1>2. CASE StartRound
  BY <1>2, StartRoundKeeps
<1>3. CASE Collect \/ UNCHANGED vars
  BY <1>3, CollectKeeps
<1>4. CASE \E s \in Step : BookSuccess(s)
  BY <1>4, BookSuccessKeeps
<1>5. CASE \E s \in Step : BookFailure(s)
  BY <1>5, BookFailureKeeps
<1>6. CASE Close \/ \E s \in Step : Raise(s)
  BY <1>6, AbandonKeeps
<1>7. CASE \E s \in Step : Attempt(s)
  BY <1>7, AttemptKeeps
<1> QED BY <1>1, <1>2, <1>3, <1>4, <1>5, <1>6, <1>7 DEF Next, Main

LEMMA LedgerInvariance == Spec => [](IInv /\ LedgerInv)
  BY InitInv, NextInv, InitLedgerInv, NextKeeps, PTL DEF Spec

-----------------------------------------------------------------------------
(* Theorems *)

\* Plan.completed_steps and failed_steps count what was booked, and a round overshoots
\* the failure breaker by its own size at most, in whatever order its tasks finish.
THEOREM CountersAgreeHolds == Spec => []CountersAgree
<1>1. IInv /\ LedgerInv => CountersAgree
  <2> SUFFICES ASSUME IInv, LedgerInv PROVE CountersAgree
    OBVIOUS
  <2>1. Cardinality(Unbooked) \in Nat /\ Cardinality(batch) \in Nat
    <3>1. Unbooked \in SUBSET Step /\ batch \in SUBSET Step
      BY DEF Unbooked, IInv, TypeOK
    <3> QED BY <3>1, StepsFinite
  <2> QED BY <2>1, ExecutorAssumption DEF LedgerInv, CountInv, CountersAgree, IInv, TypeOK
<1> QED BY <1>1, LedgerInvariance, PTL

\* Whoever runs finds the results of its dependencies in working memory.
THEOREM DependentsSeeResultsHolds == Spec => []DependentsSeeResults
<1>1. IInv /\ LedgerInv => DependentsSeeResults
  <2> SUFFICES ASSUME IInv, LedgerInv, ExecutionMode = "dag",
                      NEW s \in Step, task[s] \in {"running", "fallback"},
                      NEW d \in plan.deps[s]
               PROVE  store[d] # "absent"
    BY DEF DependentsSeeResults
  <2>1. status[s] = "running"
    BY DEF IInv, StepInv, Consistent
  <2>2. d \in With("completed")
    BY <2>1 DEF IInv, DependencyOrder
  <2> QED BY <2>2 DEF LedgerInv, StoreInv, With
<1> QED BY <1>1, LedgerInvariance, PTL

\* An exception leaves execute() only because of a dependency that completed with no
\* text, in both modes.
THEOREM RaisedOnlyByEmptyResultHolds == Spec => []RaisedOnlyByEmptyResult
<1>1. IInv /\ LedgerInv => RaisedOnlyByEmptyResult
  <2> SUFFICES ASSUME IInv, LedgerInv, pc = "raised"
               PROVE  \E s \in batch : \E d \in plan.deps[s] :
                          status[d] = "completed" /\ store[d] = "empty"
    BY DEF RaisedOnlyByEmptyResult
  <2>1. PICK s \in batch : task[s] = "raised"
    BY DEF LedgerInv, RaiseInv
  <2>2. s \in Step
    BY DEF IInv, TypeOK
  <2>3. PICK d \in plan.deps[s] : store[d] = "empty"
    BY <2>1, <2>2 DEF LedgerInv, RaiseInv
  <2>4. d \in Step
    BY <2>2, <2>3, DepsType DEF IInv
  <2>5. status[d] = "completed"
    BY <2>3, <2>4 DEF LedgerInv, StoreInv
  <2> QED BY <2>3, <2>5
<1> QED BY <1>1, LedgerInvariance, PTL

-----------------------------------------------------------------------------
(* Serial mode *)

LEMMA InitSerial == Init => SerialInv
  BY DEF Init, SerialInv, InListOrder

\* No action but StartRound changes the round or takes a step out of "pending", except
\* all pending ones at once.
LEMMA SerialStep ==
    ASSUME SerialInv, batch' = batch,
           \/ \A s \in Step : status'[s] # "pending"
           \/ \A s \in Step : status'[s] = "pending" <=> status[s] = "pending"
    PROVE  SerialInv'
  BY DEF SerialInv, InListOrder

LEMMA NextSerial == IInv /\ SerialInv /\ [Next]_vars => SerialInv'
<1> SUFFICES ASSUME IInv, SerialInv, [Next]_vars
             PROVE  SerialInv'
  OBVIOUS
<1>1. CASE Finish
  BY <1>1, SerialStep DEF Finish
<1>2. CASE SkipBlocked \/ TripFailureBreaker \/ TripLowGainBreaker
  <2>1. batch' = batch /\ SkipPending
    BY <1>2 DEF SkipBlocked, TripFailureBreaker, TripLowGainBreaker
  <2> QED BY <2>1, SerialStep DEF SkipPending
<1>3. CASE StartRound
  <2> SUFFICES ASSUME ExecutionMode = "serial"
               PROVE  (\A s, t \in batch' : s = t) /\ InListOrder'
    BY DEF SerialInv
  <2>1. /\ batch' = FirstOf(With("pending"))
        /\ \A s \in Step : status'[s] = IF s \in batch' THEN "running" ELSE status[s]
    BY <1>3 DEF StartRound, NextRound
  <2>2. \A s \in batch' : s \in Step /\ \A t \in With("pending") : s <= t
    BY <2>1 DEF FirstOf, With
  <2>3. \A s, t \in batch' : s = t
    BY <2>1, <2>2, NumStepsAssumption DEF FirstOf, Step
  <2>4. \A s \in Step : status[s] = "pending" => s \in With("pending")
    BY DEF With
  <2>5. InListOrder'
    BY <2>1, <2>2, <2>4, NumStepsAssumption DEF InListOrder, SerialInv, Step
  <2> QED BY <2>3, <2>5
<1>4. CASE Collect \/ UNCHANGED vars
  BY <1>4, SerialStep DEF Collect, vars, mainVars
<1>5. CASE \E s \in Step : BookSuccess(s) \/ BookFailure(s)
  <2>1. PICK s \in Step : BookSuccess(s) \/ BookFailure(s)
    BY <1>5
  <2>2. batch' = batch /\ status[s] # "pending" /\ task[s] = "finished"
    BY <2>1, BookingType DEF BookSuccess, BookFailure, Booked, IInv, StepInv, Consistent
  <2>3. status' = status \/ status' = [status EXCEPT ![s] = "completed"]
    BY <2>1 DEF BookSuccess, BookFailure
  <2> QED BY <2>2, <2>3, SerialStep DEF IInv, TypeOK
<1>6. CASE Close \/ \E s \in Step : Raise(s)
  BY <1>6, SerialStep DEF Close, Raise
<1>7. CASE \E s \in Step : Attempt(s)
  <2>1. PICK s \in Step : Attempt(s)
    BY <1>7
  <2>2. batch' = batch /\ task[s] \in {"running", "fallback"}
    BY <2>1 DEF Attempt, AttemptSucceeds, AttemptFails, FallbackAttempt, AttemptRaises,
                mainVars
  <2>3. status[s] = "running"
    BY <2>2 DEF IInv, StepInv, Consistent
  <2>4. status' = status \/ status' = [status EXCEPT ![s] = "failed"]
    BY <2>1 DEF Attempt, AttemptSucceeds, AttemptFails, FallbackAttempt, AttemptRaises,
                Succeed, GoOn, GiveUp
  <2> QED BY <2>2, <2>3, <2>4, SerialStep DEF IInv, TypeOK
<1> QED BY <1>1, <1>2, <1>3, <1>4, <1>5, <1>6, <1>7 DEF Next, Main

\* Serial mode is serial: one step at a time, in the order of the list, also when
\* steps fail on the way.
THEOREM SerialOrderHolds == Spec => []SerialOrder
<1>1. IInv /\ SerialInv => SerialOrder
  <2> DEFINE Running == {s \in Step : task[s] \in {"running", "fallback"}}
  <2> SUFFICES ASSUME IInv, SerialInv, ExecutionMode = "serial"
               PROVE  Cardinality(Running) <= 1
    BY DEF SerialOrder, SerialInv
  <2>1. Running \subseteq batch
    BY DEF IInv, RoundInv
  <2>2. CASE Running = {}
    BY <2>2, FS_EmptySet
  <2>3. CASE Running # {}
    <3>1. PICK s \in Step : s \in Running
      BY <2>3
    <3>2. Running = {} \cup {s}
      BY <2>1, <3>1 DEF SerialInv
    <3>3. Cardinality({} \cup {s}) = 1
      <4>1. {} \in SUBSET Step /\ s \notin {}
        OBVIOUS
      <4>2. Cardinality({} \cup {s}) = Cardinality({}) + 1
        BY <3>1, <4>1, OneMore
      <4> QED BY <4>2, FS_EmptySet
    <3> QED BY <3>2, <3>3
  <2> QED BY <2>2, <2>3
<1> QED BY <1>1, InitInv, NextInv, InitSerial, NextSerial, PTL DEF Spec

\* The run of serial mode as the services check it.
THEOREM SerialRunHolds == Spec => []SerialRun
<1>1. SerialOrder /\ RaisedOnlyByEmptyResult => SerialRun
  BY DEF SerialRun
<1> QED BY <1>1, SerialOrderHolds, RaisedOnlyByEmptyResultHolds, PTL

-----------------------------------------------------------------------------
(* Why a step is skipped *)

\* The plan that runs has no cycle.
LEMMA PlanAcyclic ==
    ASSUME IInv, SkipInv
    PROVE  ~HasCycle(plan.deps)
<1>1. PICK raw \in RawPlans : planned = PlannedPlan(raw)
  BY DEF SkipInv
<1>2. planned.deps = ValidateDag(raw)
  BY <1>1 DEF PlannedPlan
<1>3. plan.deps = planned.deps
  BY PlanType DEF IInv, TypeOK
<1> QED BY <1>2, <1>3, ValidateDagSound

\* What a step's dependency depends on, the step depends on.
LEMMA AncestorsClosed ==
    ASSUME NEW d, NEW s \in Step, NEW x \in Ancestors(d, s) \cup {s}, NEW y \in Step, y \in d[x]
    PROVE  y \in Ancestors(d, s)
<1> SUFFICES ASSUME NEW C \in SUBSET Step, d[s] \subseteq C, \A c \in C : d[c] \subseteq C
             PROVE  y \in C
  BY DEF Ancestors
<1>1. CASE x = s
  BY <1>1
<1>2. CASE x \in Ancestors(d, s)
  <2>1. x \in C
    BY <1>2 DEF Ancestors
  <2> QED BY <2>1
<1> QED BY <1>1, <1>2

\* When no pending step is ready and none is under way, every pending step depends on
\* one that failed: otherwise the pending steps it depends on would hold a cycle.
LEMMA BlockedByFailure ==
    ASSUME IInv, SkipInv, pc = "loop", Ready = {}, NEW s \in With("pending")
    PROVE  Ancestors(plan.deps, s) \cap With("failed") # {}
<1> SUFFICES ASSUME Ancestors(plan.deps, s) \cap With("failed") = {}
             PROVE  FALSE
  OBVIOUS
<1> DEFINE S == {x \in Ancestors(plan.deps, s) \cup {s} : status[x] = "pending"}
<1>1. s \in Step /\ s \in S
  BY DEF With
<1>2. S \in SUBSET Step
  BY <1>1 DEF Ancestors
<1>3. plan.deps \in [Step -> SUBSET Step]
  BY PlanType DEF IInv, TypeOK, Plan
<1>4. ASSUME NEW x \in S
      PROVE  plan.deps[x] \cap S # {}
  <2>1. x \in Step /\ status[x] = "pending" /\ x \notin Ready
    BY <1>2
  <2>2. PICK y \in plan.deps[x] : y \notin With("completed")
    BY <2>1 DEF Ready, With
  <2>3. y \in Step /\ y \in Ancestors(plan.deps, s)
    BY <1>1, <1>3, <2>1, <2>2, AncestorsClosed
  <2>4. status[y] \in Status /\ status[y] # "completed"
    BY <2>2, <2>3 DEF IInv, TypeOK, With
  <2>5. status[y] # "failed"
    BY <2>3 DEF With
  <2>6. status[y] # "skipped"
    BY <2>3 DEF SkipInv, With
  <2>7. status[y] # "running"
    <3>1. task[y] \in {"idle", "booked"} /\ Consistent(y)
      BY <2>3 DEF IInv, RoundInv, StepInv
    <3> QED BY <3>1 DEF Consistent
  <2>8. y \in S
    BY <2>3, <2>4, <2>5, <2>6, <2>7 DEF Status
  <2> QED BY <2>2, <2>8
<1>5. HasCycle(plan.deps)
  BY <1>1, <1>2, <1>4 DEF HasCycle
<1> QED BY <1>5, PlanAcyclic

LEMMA InitSkip == Init => SkipInv
  BY DEF Init, SkipInv, SkipJustified, With

\* The end of the while loop.
LEMMA HaltSkip ==
    ASSUME IInv, SkipInv, Finish \/ SkipBlocked \/ TripFailureBreaker \/ TripLowGainBreaker
    PROVE  SkipInv'
<1>1. /\ planned' = planned /\ pc = "loop" /\ pc' = "done"
      /\ task' = task /\ consecutiveFailures' = consecutiveFailures
      /\ consecutiveLowGain' = consecutiveLowGain
  BY DEF Finish, SkipBlocked, TripFailureBreaker, TripLowGainBreaker, planVars, bookVars
<1>2. plan' = plan /\ status \in [Step -> Status] /\ With("skipped") = {}
  BY <1>1, PlanConstant DEF IInv, TypeOK, SkipInv
<1>3. \A s \in Step : task'[s] \in {"idle", "booked"}
  BY <1>1 DEF IInv, RoundInv
<1>4. \A s \in Step : status[s] # "running"
  BY <1>1 DEF IInv, RoundInv, StepInv, Consistent
<1>5. SkipJustified'
  <2>1. CASE Finish
    <3>1. status' = status
      BY <2>1 DEF Finish
    <3>2. IsComplete' /\ With("skipped")' = {}
      BY <2>1, <3>1, <1>2 DEF Finish, IsComplete, With
    <3> QED BY <3>2 DEF SkipJustified
  <2>2. CASE SkipBlocked \/ TripFailureBreaker \/ TripLowGainBreaker
    <3>1. \A s \in Step : status'[s] = IF status[s] = "pending" THEN "skipped" ELSE status[s]
      BY <2>2 DEF SkipBlocked, TripFailureBreaker, TripLowGainBreaker, SkipPending
    <3>2. IsComplete'
      BY <1>2, <1>4, <3>1 DEF IsComplete, Status
    <3>3. CASE SkipBlocked
      <4>1. ASSUME NEW s \in With("skipped")'
            PROVE  Ancestors(plan.deps, s) \cap With("failed") # {}
        <5>1. s \in Step /\ status[s] = "pending"
          BY <4>1, <3>1, <1>2 DEF With
        <5> QED BY <1>1, <3>3, <5>1, BlockedByFailure DEF With, SkipBlocked
      <4>2. With("failed") = With("failed")'
        BY <3>1 DEF With
      <4> QED BY <1>2, <3>2, <4>1, <4>2 DEF SkipJustified
    <3>4. CASE TripFailureBreaker
      BY <1>1, <3>2, <3>4 DEF TripFailureBreaker, FailureBreakerOpen, SkipJustified
    <3>5. CASE TripLowGainBreaker
      BY <1>1, <3>2, <3>5 DEF TripLowGainBreaker, LowGainBreakerOpen, SkipJustified
    <3> QED BY <2>2, <3>3, <3>4, <3>5
  <2> QED BY <2>1, <2>2
<1> QED BY <1>1, <1>3, <1>5 DEF SkipInv

LEMMA NextSkip == IInv /\ SkipInv /\ [Next]_vars => SkipInv'
<1> SUFFICES ASSUME IInv, SkipInv, [Next]_vars
             PROVE  SkipInv'
  OBVIOUS
<1>1. CASE Finish \/ SkipBlocked \/ TripFailureBreaker \/ TripLowGainBreaker
  BY <1>1, HaltSkip
<1>2. CASE UNCHANGED vars
  <2>1. UNCHANGED <<planned, status, pc, task, consecutiveFailures, consecutiveLowGain>>
    BY <1>2 DEF vars, planVars, mainVars, bookVars
  <2>2. plan' = plan
    BY <2>1, PlanConstant
  <2>3. SkipJustified'
    BY <2>1, <2>2 DEF SkipInv, SkipJustified, IsComplete, FailureBreakerOpen,
                      LowGainBreakerOpen, With
  <2> QED BY <2>1, <2>3 DEF SkipInv, With
<1>3. CASE \/ StartRound \/ Collect \/ Close
           \/ \E s \in Step : BookSuccess(s) \/ BookFailure(s) \/ Raise(s)
  <2>1. planned' = planned /\ pc \in {"loop", "await"} /\ pc' # "done"
    BY <1>3 DEF StartRound, Collect, Close, BookSuccess, BookFailure, Raise, Booked,
                planVars, mainVars
  <2>2. status \in [Step -> Status] /\ With("skipped") = {}
    BY <2>1 DEF IInv, TypeOK, SkipInv
  <2>3. \A t \in Step : status'[t] = status[t] \/ status'[t] # "skipped"
    BY <1>3, <2>2 DEF StartRound, Collect, Close, BookSuccess, BookFailure, Raise
  <2>4. With("skipped")' = {}
    BY <2>2, <2>3 DEF With
  <2> QED BY <2>1, <2>4 DEF SkipInv, SkipJustified
<1>4. CASE \E s \in Step : Attempt(s)
  <2>1. PICK s \in Step : Attempt(s)
    BY <1>4
  <2>2. /\ planned' = planned /\ pc' = pc
        /\ task[s] \in {"running", "fallback"}
    BY <2>1 DEF Attempt, AttemptSucceeds, AttemptFails, FallbackAttempt, AttemptRaises,
                planVars, mainVars
  <2>3. status' = status \/ status' = [status EXCEPT ![s] = "failed"]
    BY <2>1 DEF Attempt, AttemptSucceeds, AttemptFails, FallbackAttempt, AttemptRaises,
                Succeed, GoOn, GiveUp
  <2>4. pc # "done"
    BY <2>2 DEF SkipInv
  <2>5. pc \in {"loop", "await"} => With("skipped")' = {}
    BY <2>3 DEF SkipInv, With, IInv, TypeOK
  <2> QED BY <2>2, <2>4, <2>5 DEF SkipInv, SkipJustified
<1> QED BY <1>1, <1>2, <1>3, <1>4 DEF Next, Main

LEMMA SkipInvariance == Spec => [](IInv /\ SkipInv)
<1>1. Init => IInv /\ SkipInv
  BY InitInv, InitSkip
<1>2. IInv /\ SkipInv /\ [Next]_vars => (IInv /\ SkipInv)'
  BY NextInv, NextSkip
<1> QED BY <1>1, <1>2, PTL DEF Spec

\* A step is skipped only because a breaker is open or because something it depends
\* on failed: a plan that Kahn's algorithm let through is never deadlocked by its own
\* dependencies, whatever fails and in whatever order.
THEOREM SkipJustifiedHolds == Spec => []SkipJustified
<1>1. SkipInv => SkipJustified
  BY DEF SkipInv
<1> QED BY <1>1, SkipInvariance, PTL

\* The plan that runs has no cycle, and a proposal without one keeps its dependencies.
THEOREM OnlyCyclesLoseDepsHolds == Spec => []OnlyCyclesLoseDeps
<1>1. IInv /\ SkipInv => OnlyCyclesLoseDeps
  <2> SUFFICES ASSUME IInv, SkipInv
               PROVE  OnlyCyclesLoseDeps
    OBVIOUS
  <2>1. ~HasCycle(planned.deps)
    BY PlanAcyclic, PlanType DEF IInv, TypeOK
  <2>2. ASSUME NEW raw \in RawPlans, planned = PlannedPlan(raw)
        PROVE  KnownDeps(raw) = planned.deps \/ HasCycle(KnownDeps(raw))
    BY <2>2, ValidateDagSound DEF PlannedPlan
  <2> QED BY <2>1, <2>2 DEF OnlyCyclesLoseDeps
<1> QED BY <1>1, SkipInvariance, PTL
=============================================================================
