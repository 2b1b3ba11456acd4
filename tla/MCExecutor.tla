----------------------------- MODULE MCExecutor -----------------------------
(***************************************************************************)
(* Small instances of Executor.                                            *)
(***************************************************************************)
EXTENDS Executor

AllAuto == [s \in Step |-> "auto_retry"]

Raw(deps, retry, fallback) == [deps |-> deps, retry |-> retry, fallback |-> fallback]

\* Every dependency graph on the steps, cyclic ones included.
EveryGraph ==
    {Raw(deps, AllAuto, {}) : deps \in [Step -> SUBSET Step]}

\* Every choice of retry strategy (a garbled one included) and fallback tool; the
\* last step depends on the first, the others are independent.
EveryStrategy ==
    {Raw([s \in Step |-> IF s = NumSteps THEN {1} \ {s} ELSE {}], retry, fallback) :
        retry \in [Step -> RetryStrategy \cup {"other"}],
        fallback \in SUBSET Step}

\* Independent steps, a chain whose first step names one that is not in the plan, a
\* diamond, a fan-out, and a plan with a cycle.
Shapes ==
    {Raw(deps, AllAuto, {}) :
        deps \in {<<{}, {}, {}, {}>>, <<{9}, {1}, {2}, {3}>>, <<{}, {1}, {1}, {2, 3}>>,
                  <<{}, {1}, {1}, {1}>>, <<{2}, {1}, {}, {3}>>}}
=============================================================================
