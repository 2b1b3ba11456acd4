---------------------------- MODULE WorkflowRuns ----------------------------
(***************************************************************************)
(* One execution of a workflow (endpoints/workflow.py, execute_workflow):   *)
(* its row, the engine (services/workflow_engine.py) that runs the nodes in *)
(* a task, and the stream that reads the engine's events from a queue, or   *)
(* the plain request that waits for the engine.  The workflow itself may be *)
(* edited or deleted meanwhile.                                             *)
(*                                                                          *)
(* NodeResult has no field "duration": booking the end of a node, whether   *)
(* it succeeded or failed, raises out of the graph, so an execution never   *)
(* gets past its first node, the entry.  Node results hold datetimes, which *)
(* a JSON column refuses.                                                   *)
(***************************************************************************)
EXTENDS Naturals, Sequences

CONSTANTS
    MaxRetries, \* NodeExecutor.max_retries: attempts of a node
    MaxEdits,   \* bound on updates of the workflow
    None

WorkflowRunsAssumption == MaxRetries \in Nat \ {0} /\ MaxEdits \in Nat

VARIABLES
    flow,     \* the workflow's flow_data
    active,   \* its is_active
    row,      \* status of the execution's row
    handler,  \* where the request is
    config,   \* the flow_data it found
    engine,   \* where the engine is
    attempts, \* attempts of the entry node
    events,   \* events_queue
    told,     \* the event that ended the stream, or the plain answer
    refused,  \* the database refused a status (history)
    edits

workflow == <<flow, active>>
request == <<row, handler, config, told, refused>>
execution == <<engine, attempts, events>>
vars == <<workflow, request, execution, edits>>

\* What one attempt of the entry can do, by its type.  It sees no earlier messages,
\* no context and no memory.
InputNode == {"ends"}
\* A missing key or an error of the model raises.
LLMNode == {"ends", "raises"}
\* The search answers a pair, whose first member, a list, has no get().
KnowledgeSearchNode == {"raises"}
\* Words of the text, not the condition, choose the branch.
ConditionNode == {"ends"}
OutputNode == {"ends"}
TTSNode == {"ends"}
\* With no messages there is nothing to remember; failures of Redis stay in the memory.
MemoryNode == {"ends"}
\* An error of the program is its result; a program that is missing, does not parse
\* or does what is forbidden raises.
CodeNode == {"ends"}
RefusedCodeNode == {"raises"}
\* A bad address, an error of the connection and an unreadable answer raise alike.
APICallNode == {"ends", "raises"}
\* Without an earlier response only a bad pattern or bounds can raise.
TransformNode == {"ends"}
BadTransformNode == {"raises"}
RouterNode == {"ends"}

Attempt == [input |-> InputNode, llm |-> LLMNode, tool_search |-> KnowledgeSearchNode,
            condition |-> ConditionNode, output |-> OutputNode, tool_tts |-> TTSNode,
            memory |-> MemoryNode, code |-> CodeNode, refused_code |-> RefusedCodeNode,
            api_call |-> APICallNode, transform |-> TransformNode,
            bad_transform |-> BadTransformNode, router |-> RouterNode]

\* What flow_data can be: none, a graph that does not compile, one whose entry is of
\* no known type, or one whose entry runs.
Flow == {"empty", "broken", "unknown"} \cup DOMAIN Attempt
Event == {"workflow_start", "node_start", "workflow_error", "workflow_result"}

TypeOK ==
    /\ flow \in Flow /\ active \in BOOLEAN
    /\ row \in {"none", "pending", "running", "completed", "failed"}
    /\ handler \in {"idle", "accepted", "plain", "answered", "stream", "over", "left"}
    /\ config \in Flow \cup {None}
    /\ engine \in {"none", "new", "graph", "node", "raised", "returned"}
    /\ attempts \in 0 .. MaxRetries
    /\ events \in Seq(Event)
    /\ told \in {None, "refused", "error", "complete"}
    /\ refused \in BOOLEAN
    /\ edits \in 0 .. MaxEdits

Init ==
    /\ flow \in Flow /\ active \in BOOLEAN
    /\ row = "none" /\ handler = "idle" /\ config = None
    /\ engine = "none" /\ attempts = 0 /\ events = <<>>
    /\ told = None /\ refused = FALSE
    /\ edits = 0

---------------------------------------------------------------------------
(* The workflow.                                                           *)

\* update_workflow writes what the request names.
UpdateWorkflow ==
    /\ edits < MaxEdits /\ edits' = edits + 1
    /\ flow' \in Flow /\ active' \in BOOLEAN
    /\ UNCHANGED <<request, execution>>

\* delete_workflow only deactivates it.
DeleteWorkflow ==
    /\ active
    /\ active' = FALSE
    /\ UNCHANGED <<flow, request, execution, edits>>

---------------------------------------------------------------------------
(* The request.                                                            *)

\* A workflow that is deleted or empty is not executed; else there is a row.
Execute ==
    /\ handler = "idle"
    /\ IF active /\ flow # "empty"
       THEN row' = "pending" /\ config' = flow /\ handler' = "accepted" /\ UNCHANGED told
       ELSE told' = "refused" /\ handler' = "over" /\ UNCHANGED <<row, config>>
    /\ UNCHANGED <<workflow, execution, refused, edits>>

\* The engine is made, the row says so, and the engine starts: in a task of its own
\* or, in plain mode, in the request.
StartEngine ==
    /\ handler = "accepted"
    /\ row' = "running"
    /\ handler' \in {"plain", "stream"}
    /\ engine' = "new"
    /\ UNCHANGED <<workflow, config, told, refused, attempts, events, edits>>

\* The database refuses "running", and then "failed", too.
FailStart ==
    /\ handler = "accepted"
    /\ handler' = "over" /\ told' = "error" /\ refused' = TRUE
    /\ UNCHANGED <<workflow, row, config, execution, edits>>

\* The client closes the stream: nobody reads the queue, and the engine runs on.
LeaveStream ==
    /\ handler \in {"accepted", "stream"}
    /\ handler' = "left"
    /\ UNCHANGED <<workflow, row, config, told, refused, execution, edits>>

---------------------------------------------------------------------------
(* The engine.                                                             *)

Emit(list) == events' = IF handler = "plain" THEN events ELSE events \o list

\* build_graph and compile; a broken graph raises out of execute.
Compile ==
    /\ engine = "new"
    /\ IF config = "broken"
       THEN engine' = "returned" /\ Emit(<<"workflow_error">>)
       ELSE engine' = "graph" /\ Emit(<<"workflow_start">>)
    /\ UNCHANGED <<workflow, request, attempts, edits>>

\* node_func of the entry: get_executor raises before there is a node result.
EnterNode ==
    /\ engine = "graph"
    /\ IF config = "unknown"
       THEN engine' = "raised" /\ UNCHANGED events
       ELSE engine' = "node" /\ Emit(<<"node_start">>)
    /\ UNCHANGED <<workflow, request, attempts, edits>>

\* However the attempts end, booking the end raises.
BookEnd == engine' = "raised"

\* Mutant: one retry too many.
TryNodeOnceMore ==
    /\ engine = "node"
    /\ attempts' = attempts + 1
    /\ \E outcome \in Attempt[config] :
          IF outcome = "raises" /\ attempts' <= MaxRetries THEN UNCHANGED engine ELSE BookEnd
    /\ UNCHANGED <<workflow, request, events, edits>>

\* execute_with_retry: attempts go on while they raise and some are left.
TryNode ==
    /\ engine = "node"
    /\ attempts' = attempts + 1
    /\ \E outcome \in Attempt[config] :
          IF outcome = "raises" /\ attempts' < MaxRetries THEN UNCHANGED engine ELSE BookEnd
    /\ UNCHANGED <<workflow, request, events, edits>>

\* Mutant: execute returns its failure and does not say so to the stream.
ReportErrorSilently ==
    /\ engine = "raised"
    /\ engine' = "returned"
    /\ Emit(<<"workflow_result">>)
    /\ UNCHANGED <<workflow, request, attempts, edits>>

\* execute catches it, says so and returns a result that run_workflow puts as well.
ReportError ==
    /\ engine = "raised"
    /\ engine' = "returned"
    /\ Emit(<<"workflow_error", "workflow_result">>)
    /\ UNCHANGED <<workflow, request, attempts, edits>>

---------------------------------------------------------------------------
(* The end of the request.                                                 *)

\* The entry was of a known type, so there is a node result.
HasNodeResults == config \in DOMAIN Attempt

Fail == row' = "failed" /\ told' = "error"

\* Node results cannot be stored; after that nothing else is, in this session.
CompleteRow ==
    IF HasNodeResults
    THEN told' = "error" /\ UNCHANGED row
    ELSE told' = "complete" /\ row' = "completed"

\* The database refuses the end.
LoseEnd == refused' = TRUE /\ told' = "error" /\ UNCHANGED row

\* The stream passes events on until one of the two that end it; what else is in
\* the queue stays there.
ReadEvent ==
    /\ handler = "stream"
    /\ events # <<>>
    /\ events' = Tail(events)
    /\ \/ /\ Head(events) \in {"workflow_start", "node_start"}
          /\ UNCHANGED <<row, told, refused, handler>>
       \/ /\ Head(events) \in {"workflow_error", "workflow_result"}
          /\ \/ Head(events) = "workflow_error" /\ Fail /\ UNCHANGED refused
             \/ Head(events) = "workflow_result" /\ CompleteRow /\ UNCHANGED refused
             \/ LoseEnd
          /\ handler' = "over"
    /\ UNCHANGED <<workflow, config, engine, attempts, edits>>

\* Plain mode: a graph that does not compile fails; every other result is completed,
\* whatever its "success" says, if it can be stored.
AnswerPlain ==
    /\ handler = "plain"
    /\ engine = "returned"
    /\ \/ config = "broken" /\ Fail /\ UNCHANGED refused
       \/ config # "broken" /\ CompleteRow /\ UNCHANGED refused
       \/ LoseEnd
    /\ handler' = "answered"
    /\ UNCHANGED <<workflow, config, execution, edits>>

Next ==
    \/ UpdateWorkflow \/ DeleteWorkflow
    \/ Execute \/ StartEngine \/ FailStart \/ LeaveStream
    \/ Compile \/ EnterNode \/ TryNode \/ ReportError
    \/ ReadEvent \/ AnswerPlain

Spec == Init /\ [][Next]_vars

---------------------------------------------------------------------------
(* Properties.                                                             *)

\* A stream that was read to its end has told the client what the row says, and the
\* row no longer says "running" unless the database itself refused the end.  With
\* a client that left, and in plain mode, it may.
StreamSettles ==
    handler = "over" /\ engine # "none" =>
        /\ told = "complete" <=> row = "completed"
        /\ row = "running" => refused

(***************************************************************************)
(* The inductive invariant: attempts are left while the node runs, the row    *)
(* says "running" as long as the stream is read, and the stream comes to a    *)
(* failure before it comes to a result.                                       *)
(***************************************************************************)
AttemptsInv ==
    /\ engine \in {"none", "new", "graph"} => attempts = 0
    /\ engine = "node" => attempts < MaxRetries

StreamInv ==
    /\ handler \in {"idle", "accepted"} => engine = "none" /\ events = <<>>
    /\ handler = "stream" => row = "running"
    /\ handler = "over" /\ engine # "none" =>
          told = "error" /\ row \in {"failed", "running"} /\ (row = "running" => refused)

ErrorFirst ==
    handler = "stream" =>
        \A i \in 1 .. Len(events) :
            events[i] = "workflow_result" => \E j \in 1 .. i - 1 : events[j] = "workflow_error"

IInv == TypeOK /\ AttemptsInv /\ StreamInv /\ ErrorFirst
=============================================================================
