---------------------------- MODULE PlanExecution ----------------------------
(***************************************************************************)
(* What Executor.execute promises of a plan, with retries, tasks, memory    *)
(* and breakers left out: steps run in rounds, a round starts only when the *)
(* one before it is over and only with steps whose dependencies have        *)
(* completed, a step leaves "running" once, and when the run halts the      *)
(* steps that never started are skipped.  A run that is abandoned (an       *)
(* exception, a consumer that went away) leaves its statuses as they are,   *)
(* and only steps still in flight may change afterwards, to "failed".       *)
(***************************************************************************)
CONSTANT Step

VARIABLES deps,         \* what each step depends on; never changes
          status,
          halted

vars == <<deps, status, halted>>

With(st) == {s \in Step : status[s] = st}

Init ==
    /\ deps \in [Step -> SUBSET Step]
    /\ status = [s \in Step |-> "pending"]
    /\ halted = FALSE

StartRound ==
    /\ ~halted
    /\ With("running") = {}
    /\ \E S \in SUBSET With("pending") :
          /\ S # {}
          /\ \A s \in S : deps[s] \subseteq With("completed")
          /\ status' = [s \in Step |-> IF s \in S THEN "running" ELSE status[s]]
    /\ UNCHANGED <<deps, halted>>

Complete(s) ==
    /\ ~halted
    /\ status[s] = "running"
    /\ status' = [status EXCEPT ![s] = "completed"]
    /\ UNCHANGED <<deps, halted>>

Fail(s) ==
    /\ status[s] = "running"
    /\ status' = [status EXCEPT ![s] = "failed"]
    /\ UNCHANGED <<deps, halted>>

Halt ==
    /\ ~halted
    /\ With("running") = {}
    /\ status' = [s \in Step |->
                    IF status[s] = "pending" THEN "skipped" ELSE status[s]]
    /\ halted' = TRUE
    /\ UNCHANGED deps

Abandon ==
    /\ ~halted
    /\ halted' = TRUE
    /\ UNCHANGED <<deps, status>>

Next ==
    \/ StartRound
    \/ \E s \in Step : Complete(s) \/ Fail(s)
    \/ Halt
    \/ Abandon

Spec == Init /\ [][Next]_vars
=============================================================================
