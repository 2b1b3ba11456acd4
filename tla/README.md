# DocMind: specification and verification

DocMind is a document question-answering system: a FastAPI backend
(`src/backend/app`), a document worker fed by Kafka, MySQL, MinIO,
Elasticsearch and Redis, an LLM agent that plans and executes tool calls, and a
Vue frontend. This directory holds TLA+ models of the parts whose behaviour
depends on order, concurrency and failure, the TLC runs that check them on small
instances, and TLAPS proofs of theorems about them for every instance.
Source paths below are relative to `src/backend/app`.

## Inventory

| Component | State | Operations and interactions | What is hard | What makes it correct |
|---|---|---|---|---|
| Planner (`agent/planner.py`) | the plan: steps, dependencies, retry strategy, fallback tool | `plan` asks the LLM, `_parse_plan` and `_validate_dag` repair its answer; emits `plan_step` events | arbitrary LLM output, cycles | the plan is acyclic; only cyclic plans lose dependencies |
| Executor (`agent/executor.py`) | step statuses, counters, breakers, fingerprints | `execute` runs rounds of ready steps, inline or as asyncio tasks; retries, fallback tool, booking | tasks finishing in any order, exceptions, cancellation | dependency order, honest counters, justified skips, termination |
| PER loop (`agent/loop.py`, `service.py`), reflector, reviewer, quality gate | one run: plan, output; working memory of the session | planner -> executor -> quality gate -> reflection -> review; streams events to the client; the endpoint saves the exchange | runs of one session share working memory; a vanishing client, a delete, a restart | decisions refer to this run; saved means finished |
| Agent memory (`services/memory_service.py`, `agent/memory_bridge.py`) | per-session short-term, long-term and reflective memory, Redis snapshot | remember, recall, load, save; process-wide map of sessions | concurrent requests, failed loads, overtaken saves, crashes | nothing confirmed is lost |
| Orchestrator (`agent/orchestrator.py`, `agents/executor_agent.py`, `message.py`) | message bus, step results | planner, executor and reviewer agents | failed dependencies, retries, messages left behind | the review sees the whole plan |
| Tool registry and tools (`agent/registry.py`, `agent/tools/*`) | registered tools, call log, `sys.stdout` | called by attempts under a timeout, by skills without one; hooks write the log | timeouts around hooks, threads that outlive their call | the log says what the caller was told; output is one's own |
| Agent service (`agent_api.py`, `core/step_runner.py`, `core/trace_logger.py`) | one response, one trace | turns the events of a run into a response under a time limit | events of parallel steps, the limit | the response tells how the run went |
| Lessons (`agent/experience/*`) | a JSON file, the planner's copy | scripts extract, the planner is told the best | scripts that overlap or are killed | counted means stored |
| Ingestion requests (`endpoints/documents.py`, `endpoints/knowledge.py`, `services/knowledge_service.py`, `core/kafka_client.py`) | document, chunk and job rows; MinIO objects; ES chunks; Kafka topic | upload, rebuild, delete | several stores without a transaction, Kafka down, races with the worker | what is marked INDEXED is searchable |
| Worker (`worker/consumer.py`, `worker/doc_processor.py`, `services/document_parser.py`, `services/semantic_chunker.py`) | consumer position, committed offset | takes a task, parses, splits into chunks, saves, indexes, sets the status | crashes, redelivery, partial failure, limits of length | every document ends INDEXED or FAILED; its text is in its chunks |
| Search index (`core/elasticsearch.py`) | the index, a client and an analyzer per process | checked and recreated at startup and by tasks | checks by several tasks, failures that are swallowed | indexed documents are in an index that fits |
| File service (`services/file_service.py`) | temporary chunk files, parsing tasks | plain and chunked uploads | last two chunks at once, restarts | one merge per file; a file being processed has someone to do it |
| RAG (`rag/*`) | retrieval and semantic caches, token usage of the last answer | retrieve, fuse, rerank, answer | requests with one question, shared attributes | answers are saved with their questions; results hold what was found |
| Chat endpoint (`endpoints/chat.py`, `rag/context_window.py`) | conversations and messages | asks the pipeline, streams, saves; builds the prompt | clears and deletes meanwhile | the prompt holds the newest history that fits |
| Accounts (`services/auth_service.py`, `endpoints/auth.py`, `endpoints/users.py`) | user rows, cached copies | login, profile, password, key, role, status, delete | a stale copy written back over the row | an acknowledged password stays |
| Organizations, prompts | the tree and its members; templates and versions | create, move, delete; update, restore | sequences and concurrent updates | the tree is a tree; no text is lost |
| Notifications (`core/notification_ws.py`, `endpoints/notifications.py`) | rows, sockets per user | create, push, connect, disconnect | sockets dying during a push, twin notifications | statistics match live sockets |
| Workflow engine (`services/workflow_engine.py`, `endpoints/workflow.py`) | execution row, event queue, node results | runs a graph through LangGraph, streams its events | errors between engine, queue and row | the row says what the stream said |
| Middleware (`core/middleware.py`) | rate-limit windows | counts requests in Redis or memory | switching between them | nobody is refused below the limit |
| Tracing, optimization, mining, replay, evaluation; manuals, statistics, permissions; frontend | a ring buffer of finished traces; rows; UI state | offline statistics; one read or write each | - | - |

`PROJECT.json` lists every component with its status, and every hazard at its
line with the properties that would catch it.

## Plan

Written, in order of importance; each module is described below.

1. `PlanDag`, `PlanExecution` (abstract), `Executor` (refines it); `MCExecutor`;
   `PlanDagProofs` (Kahn's algorithm), `ExecutorProofs`.
2. `Ingestion`, `MCIngestion`, `IngestionProofs`.
3. `AgentMemory`, `MCAgentMemory`, `AgentMemoryProofs`.
4. The parts of the API process that share no state: `AgentSession`, `Orchestration`,
   `ToolCalls`, `PythonRuns`, `AgentApi`, `Experiences`; `ChatPipeline`, `Retrieval`,
   `ContextWindow`; `Uploads`, `SearchIndex`, `Chunking`; `Accounts`, `Organizations`,
   `Prompts`, `Notifications`, `WorkflowRuns`, `RateLimit`. `Services` puts them side by side,
   `MCServices` gives it values, `MCChatPipeline` is a run of its own.
5. Proofs about the parts, each for the part as it runs in `Services`:
   `ConversationProofs` (sessions, chats, responses, retrieval, the context window);
   `PlatformProofs` (accounts, rate limiter, notifications, uploads, workflows, prompts,
   organizations, search index); `AgentProofs` (tools, programs, orchestrator, serial
   executor, lessons, and the types of all parts). `ChunkingProofs` is about
   `Chunking` alone; `ConversationProofs` takes it over.

Next: `Uploads` and `SearchIndex` composed with `Ingestion` over one index; `AgentSession`
over `PlanExecution` instead of its outcomes; an abstract memory (a durable set of items
with the losses it permits) that `AgentMemory` implements.

## Executor

`PlanDag` defines a plan (`deps`, `retry`, `fallback` per step; a step is its
position), what `_parse_plan` and `_validate_dag` make of a raw plan
(`PlannedPlan`), and what is left after `PERAgentLoop.run` has rebuilt it from
events that carry no retry strategy and no fallback tool (`RebuiltPlan`).

`Executor` models one call of `execute`. `pc` is where the main coroutine is:
`"loop"` at the head of the while loop, `"await"` while a round runs, or at one of
three ends (`"done"`, `"raised"`, `"closed"`). `batch` is the round; `task[s]` is
the coroutine of `_execute_step_with_retry` of a step. The actions:

| Action | Code |
|---|---|
| `Finish`, `SkipBlocked`, `TripFailureBreaker`, `TripLowGainBreaker` | the exits of the while loop, each with its skipping of pending steps |
| `StartRound` | marking the round's steps as running and creating their tasks |
| `AttemptSucceeds`, `AttemptFails`, `FallbackAttempt` | one pass of `_execute_step_once` with its outcome, and what `_execute_step_with_retry` does with it |
| `AttemptRaises` | `_get_previous_results` slicing a result stored as `None` |
| `Collect` | `asyncio.wait(..., FIRST_COMPLETED)` returning all finished tasks |
| `BookSuccess`, `BookFailure`, `Raise` | the booking of one finished step, the same in the inline and the parallel path |
| `Close` | the client of the event stream goes away: an inline step is cancelled with the generator, tasks are not |

Between two actions the other tasks run: booking awaits (`record_experience`) and
yields, so tasks of the round go on while an earlier one is booked, and finish
between `Collect` and the last booking.

Abstractions: an attempt's outcome is error or not, text or not; a text is a
fingerprint from a small set (that of `_update_info_gain`); LLM completions have
the shape the code indexes; `_get_previous_results` reads the last five
dependencies, of which instances have fewer; events and wording are left out, and
so is the stored text of a failed step, which nothing reads. Working memory is
that of one run: it starts empty.

`PlanExecution` is the abstract specification: rounds, each started when the one
before it is over, with steps whose dependencies have completed; a step leaves
"running" once; a halt skips what never started; an abandoned run changes only
steps in flight, to "failed". The refinement maps `deps` to the executor's plan,
`status` to itself and `halted` to `pc` being at an end.

Runs:

- `executor_dag`: every dependency graph on four steps (65536 raw plans, 543
  acyclic ones after validation), no retries, failure limit 2, low-gain limit 2,
  two fingerprints. Four steps are the least that have a diamond, a chain longer
  than the round before it, a round of three with a dependent, and a breaker that
  trips with steps left. Checks types, the inductive invariant, validation,
  dependency order, counters and the overshoot of the breaker, results stored for
  dependents, justified skips, and the refinement.
- `executor_strategies`: three steps, every retry strategy (a garbled one too) and
  every choice of fallback tools, one retry. Under fairness every run and every
  attempt ends; strategies are honoured when the plan is not rebuilt.
- the part `serial` of `services`: serial mode on five shapes of four steps, one retry:
  one step at a time in definition order; exceptions come only from a dependency that
  completed with no text.
- `executor_empty_result` (violation): such a dependency does end the run, although
  `executor.py:783` means to show "(无结果)" for it: the default of `dict.get` is not
  used for a key whose value is `None`, and `None[:200]` raises at line 785.
- `executor_lost_strategy` (violation): through the loop an `ask_user` step is
  retried, against the docstring at `executor.py:323`.

Fairness: weak fairness of the main coroutine and of each step's attempts. The
event loop runs every coroutine that can go on; LLM calls have a timeout and
tools run under `asyncio.wait_for`, so an attempt ends. Nothing is assumed about
outcomes, and the client need not stay or leave.

## Ingestion

`Ingestion` models the stores (`row`, `chunks`, `jobs`, `files`, `index`), the topic
with the consumer's `position` and `committed` offset, and four kinds of process:
upload, rebuild and delete requests, and the worker. An action is what happens
between two awaits: a call of one store or a commit.

| Actions | Code |
|---|---|
| `StoreFile`, `SaveDocument`, `SendTask`, `SaveJob` | `upload_document` |
| `LoadForRebuild`, `ClearIndex`, `SendRebuildTask`, `CommitRebuild` | `rebuild_document_knowledge` |
| `LoadForDelete`, `RemoveFile`, `RemoveIndex`, `DeleteRows` | `delete_knowledge_thoroughly` |
| `Take`, `AutoCommit` | the consumer loop and aiokafka's background commit |
| `MarkParsing`, `Parse`, `SaveChunks`, `IndexChunks`, `MarkIndexed`, `MarkFailed` | `DocumentProcessor.process` |
| `WorkerCrash`, `ApiCrash` | the containers stop and are restarted |

`loaded` in the records of rebuilds and of the worker is the status SQLAlchemy read
when the row was loaded: a commit sends an UPDATE only for a column that differs
from it, and raises if the row is gone (`Update`, `Updatable`; `expire_on_commit` is
off). `Faults` says what may fail; `ForeignKeys` whether the database enforces them.
`handled` and `unmarked` are history variables: the tasks whose `process()` returned, and
those for which it raised.

With the fault `"database"` every statement that loads or commits may fail, in requests and
in the worker. It then has no effect and raises; what follows is the code's: a request is
over (one whose first load fails never began), `process()` goes to its exception handler.
That handler uses the database too (`doc_processor.py:125-134`). When it fails, `process()`
raises out of it, `consume()` logs that and takes the next task (`consumer.py:46-47`), and
the row keeps its status with nobody to change it (`MarkFailed`, `unmarked`). A commit that
takes effect and whose reply is lost is not modelled.

Abstractions: one worker and one partition, as deployed; a transaction of the
database is atomic; `delete_by_query` sees every indexed chunk (Elasticsearch refreshes
once a second); parsing a file gives the same chunks each time, and `chunks` counts
how often their rows were saved; tokens, metadata and notifications are left out; job
rows are kept as the set of statuses present.

Runs:

- `ingestion_requests`: one document, two rebuilds and a delete, no foreign keys;
  parsing, indexing and ES deletes may fail. What is settled and marked INDEXED has
  every chunk in the index; a saved document ends INDEXED, FAILED or deleted; a rebuild
  that has cleared the index is followed by a run that fills it or marks the document
  FAILED. Two rebuilds are enough for a task in hand, one waiting and an old commit.
- `ingestion_crashes`: one document, one rebuild, two chunks, foreign keys, every fault,
  two crashes. The inductive invariant; chunks in the index have rows; PARSING means an
  unfinished task, or one whose failure the database did not let the worker write down;
  crashes lose at most one task each.
- `ingestion_lost_update` (violation): the rebuild sends its task before it commits
  PENDING (`knowledge.py:332-335`): a fast worker's INDEXED is overwritten, and the
  document stays PENDING with nothing to process it.
- `ingestion_delete` (violation): a delete removes file and index, then fails on the
  foreign key of the job rows; the document stays INDEXED and unsearchable.

The documents of a topic are independent but for the order of their tasks and for
files they share; TLC runs one document and several tasks of it, the theorems hold for
any number of documents, sharing files or not. `MaxCrashes` bounds crashes, `Rebuild`
requests; offsets and copies of chunk rows are bounded by them.

Fairness, in `ingestion_requests` only: weak fairness of each request once it is under
way and of the worker. Requests are not forced to start; crashes, Kafka
and database faults are excluded there because with them a document may stay PENDING or
PARSING for ever, or INDEXED with the index that a rebuild has cleared (see the hazards in
`PROJECT.json`).

## Agent memory

`AgentMemory` models one `AgentMemorySystem` of the API process, shared by all requests
of a session (`get_memory_system`), with its snapshot in Redis. `pc[r]` is where request
`r` is: `"idle"`, `"loading"` and `"got"` in `_load_from_redis` (before and after Redis
has answered), `"ready"` past it, `"saving"` and `"reflecting"` while a save is awaited,
`"added"` and `"reflected"` after it, `"ended"`. Between two awaits a coroutine runs
alone, so an action is at most what happens between two awaits.

| Actions | Code |
|---|---|
| `Begin`, `LoadReads`, `LoadDone`, `LoadFails`, `LoadCancelled` | the test of `_loaded`, `_load_from_redis`, `import_data`, and its `finally` |
| `Save` in `Add`, `AddLesson`, `Reflect`; `SaveDone`, `SaveFails`, `SaveCancelled` | `_save_to_redis`: the snapshot is built before the await, `setex` may be confirmed, fail, or be cut off after or before it reached Redis |
| `Note`, `SecondNote` | `remember` of a short-term item, `store_interaction` |
| `Add`, `EmbeddingCancelled`, `Return` | `remember` of a long-term item, `store_experience` with the lesson of a failure |
| `AddLesson` | `record_lesson` after `ensure_loaded`, as the feedback endpoint and the loop call it |
| `Reflect` | `_auto_reflect` when it finds a pattern |
| `Recall`, `ClearMemory`, `ImportMemory` | `recall`, `get_context` and the endpoints that clear and import |
| `Crash`, `Expire` | the API process restarts; the key's seven days are over |

Every request has a connection of the pool to itself while it awaits, so a write may be
overtaken by one that began later (fault `"reorder"`). History variables name what is
lost that way: `older` and `late` order the saves in flight, `stale` says that the last
write to arrive had been overtaken, `acked` is what Redis has confirmed, and `lossy`
that a load was aborted, after which `_loaded` is true all the same, or the memory
cleared. The properties say what holds outside these cases, and a crash while `stale` or
`lossy` takes what Redis does not hold out of `acked`.

Abstractions: items and insights are named after the request that adds them; copies of
one item are not told apart; the interaction counter, which only says when a reflection
is due, is a choice, and so is whether a pattern is found; the short-term memory is its
length; the import is of an earlier export of the same agent. Working memory is not in
the snapshot and is left out.

Runs:

- `memory_saves`: three requests, each any operation, an item of an earlier life, every
  fault, one crash; requests are exchangeable. Three are the least that have two
  overlapping saves with a load, a clear or a reader beside them. A window of one
  short-term item has it full at once, and `MinRecent = 1` lets it reflect; the code has
  20 and 3. Checks types, the inductive invariant, that a loaded memory holds what Redis
  holds, that a save erases nothing, and that a confirmed item stays.
- `memory_reflective` (violation): the load does not bring back reflective memory,
  although the docstring at `memory_service.py:499` says so: `import_data` has no branch
  for it, and the next save erases the lessons in Redis.

There is no liveness here: a request that fails or is cancelled is over, and nothing
waits for another request.

The model, and so every property here, is of one API process. The Kubernetes manifest runs
two replicas; each has a memory of its own over the same key, and the later save of either
drops what the other has added. That case is not modelled and nothing is claimed of it.

## Parts of the API process: `services`

`Services` is 19 parts that share no state, each an instance of its module, to which
`MCServices` gives small values; a behaviour is one of a single part, chosen at the start,
so the run is the union of the parts and no product. The accounts are `Accounts` itself,
which the module extends; the other parts are instances with variables of their own prefix.
An action is what happens between two awaits of a request, or one call of another service,
unless noted.

Many of these parts are run by overlapping requests without a lock, and the code does lose
results there. Their properties name the circumstances under which a loss occurs and
exclude it everywhere else: a run of a session that another overlapped (`SessionsAgree`), the
tokens of answers that were generated at once (`ChatsAgree`), a status borrowed from another
call (`ResponseTellsRun`), a template changed between load and commit (`HistoryKeepsTexts`), a
failed check or an early client of the index (`DocumentsAreFound`), and likewise the aborted
load and the overtaken save of the agent memory. They say what the hazard costs and what
it can never cost; they do not say that it cannot happen.

There is no fairness here and every property is one of safety: nothing in these parts
waits for another actor, and requests and clients may stop anywhere. Deadlock is not
checked: when all requests are over, the parts have nothing left to do.

Bounds: accounts and `execute_python` have three requests, because their properties
need a third that overlaps two others; sessions, chats, uploads, notifications and
lessons have two clients, which are exchangeable. The bounds of the other parts are
named with them. `TypesOK` is the type invariant of the chosen part.

### Agent sessions (`AgentSession`, `SessionsAgree`)

`pc[r]` is where chat request `r` is, `status[r]` the steps of its plan, `store` the
working memory of the session, `row` and `messages` its rows.

| Actions | Code |
|---|---|
| `Start` | planning; the run begins with the working memory as it is |
| `CompleteStep`, `LoseStep`, `EndExecution` | a step ends; `store_step_result` keeps only completed ones; whether reflection is needed |
| `AnswerWithoutTools`, `Reflect`, `Finalize` | the direct answer, `Reflector.reflect` with `_quick_pass_check`, and the end of the run with its memory and replay records |
| `QualityGate` | `quality_gate_check` over what is stored: it only reports |
| `SaveMessages`, `LoseMessages`, `Abort` | `_save_session_interaction`, its failure, and a client that leaves |
| `DeleteSession`, `Restart` | `DELETE /agent/sessions/{id}`; the process loses working memory |

The executor is what `PlanExecution` promises of it. Plans have up to two steps, one of
which may pass without the model: the code's three only needs plans longer than that to
exist as well. What a run reads for a step it completed is its own unless runs overlap; when
it began with an empty memory, the gate reports exactly its own blank and marked results and
a quick pass is backed by a text of this run; a saved exchange is that of a finished run,
once. Later runs of a session have no such guarantee: the results of earlier runs count for
them.

### Orchestrator (`Orchestration`, `ResultsCoverPlan`)

`OrchestratorAgent.run`: `NoPlan`, `SendPlan`, then rounds of `ExecutorAgent.run`
(`StartRound`, `CallTool`, `EndExecution`), `Review`, and `Abandon` by the client. Every
plan of three steps, one retry. A step starts when its dependencies are over, failed
or not, and the review is given every step.

### Tool calls (`ToolCalls`, `PythonRuns`, `ToolsAnswer`)

| Actions | Code |
|---|---|
| `Call`, `End`, `Timeout` | `_run_tool_calls` with `asyncio.wait_for` around `ToolRegistry.execute` |
| `NestedEnd` | a call made by a skill, with its own hooks and log entry |
| `Enter`, `PrintLine`, `Leave` | the thread of `execute_python` inside `redirect_stdout` |
| `Respond`, `Timeout` | the call that waits for it |

A tool is the set of its possible answers, told apart as their readers do (begins with
"Error:", contains "Error", says nothing was found). Arguments fit the handler, lack what it
requires (as those that are no JSON do), or are no object, which the logging hook cannot
log. Six tools stand for the ways of failing: one that prints, one remote, one long, two
skills that call others, one that does not exist. Two concurrent steps, two calls, a log of
three entries, so that it overflows under a skill. Three programs of one line each.

### Agent service (`AgentApi`, `ResponseTellsRun`)

`run_agent_loop` turns events into lists, `StepRunner.run` cuts it off (`Cut`), `run_agent`
responds. Events of one step come together, because the executor flushes a parallel
step's events when it collects it (`BeginStep` ... `EndStep`). Three steps and two calls
or errors: the least in which an error of one step meets a call of another.

### Lessons (`Experiences`, `LessonsServe`)

Scripts read the cases in order (`Begin`, `PassOver`), add a lesson each in memory
(`AddLesson`), truncate and write the file (`OpenFile`, `WriteFile`, `SaveFails`), and end
or are killed (`Finish`, `Stop`); the server reads the file once and selects lessons for
the planner (`FormatForPlanner`). Two scripts, four cases: an edge case, a file that is
not JSON, a partial success and a clean one, which teaches nothing. Relevance of a lesson
to a question is 0 to 2; one lesson is told. What the planner is told is a set of lessons;
their order in the prompt is left out.

What was once in the file (`saved`) is there whenever nobody writes, and what a script has
counted is there unless its last save failed. Two things lose lessons and are excused: a
write that is cut off between truncating and writing (`torn`), and two scripts that overlap,
of which the later write wins. A save that fails before it opens the file, or a script that is
killed between two saves, loses nothing that was stored, and is not excused. A lesson that
harms a question does not displace one that is as relevant and does not.

### Chats (`ChatPipeline`, `ChatsAgree`; violation run `chat_empty_reply`)

`run_rag_pipeline` and `search_knowledge_base` for one question text, asked or searched by
two requests, with both caches, the conversation and the requests that clear, delete or
unbind it.

| Actions | Code |
|---|---|
| `Open`, `Ask` | the session row; the question is committed |
| `AnswerFromCache`, `MissCache` | the endpoint's lookup of the semantic cache |
| `SkipSearch`, `SearchCaches`, `Retrieve`, `FillCaches`, `EndSearch`, `Bind` | `search_knowledge_base` and `bind_docs_to_session` |
| `Generate`, `SaveAnswer`, `RecordUsage`, `StoreAnswer` | `chat_stream`, the message, the usage, the caches |
| `Fail`, `ClearConversation`, `DeleteConversation`, `UnbindDocuments`, `ExpireExact`, `ExpireSemantic` | faults, other requests, lifetimes |

`vector` is one outcome of the embedding service per request. `chat_empty_reply`: the
pipeline stores a search with an empty answer under the key the endpoint answers from.

### Retrieval (`Retrieval`, part of `RetrievalSound`)

One retrieval that no cache answers: `DecomposeQuery`; for each sub-question the two
searches in any order (`KeywordHits`, `EmbedQuery`, `VectorHits`), `Gathered` with the
filters, fusion and selection of `_post_process`, `Fallback` or a retry; `Merge` and `Rerank`.
Coverage has seven levels, parted by the thresholds in the code (0.005, 0.02, 0.05, 0.07,
0.10, 0.15). At low levels a hit is listed or not by its share of the best score and by
whether its text, and not only the name of its file, has a word of the question; neither is
modelled, so `Relevant` leaves that open, and such a hit may take a place from a better one.
`Merge` appends: see below on the deduplication that its comment claims. Three chunks of one
document, two with an embedding, two sub-questions, one retry, two rewrites: a third
chunk of a document, a selection and a repeated result all happen.

### Context window (`ContextWindow`, `PromptTells`)

A conversation grows by `AskQuestion`, `SaveAnswer` and `LoseAnswer`, and is emptied by
`Clear`; a question loads `HistoryLimit` messages and `build` makes the prompt. Messages are
empty or of size 3; histories of 8 with a tail of 4, so that older messages are
summarized; a window of 24 with 2, 15 or 23 pinned, so that the budget holds them all, a
few, or only its floor. The tail window is even, as it is in the code: with an odd one the
tail would begin with an answer, and `ExchangesAreTold` would not hold.

### Uploads (`Uploads`, `UploadsAreServed`)

`SendFile` and `SendChunk` up to the first query, which run without an await;
`StoreObject`, `CommitDocument`, `Complete`, `FailUpload`; the parsing task with
`StartParsing`, `Parse`, `BuildIndex`, `MarkIndexed`; `DeleteDocument` and `Crash`. Two
chunks and three requests, one of which may send a chunk again; one restart. At each of its
steps the database may fail the task, whose outer exception handler then only logs
(`document_parser.py:522-524`): the document stays UPLOADED or PARSING (`GiveUp`). The history
`dropped` has these documents and those whose task a restart cut off.

### Search index (`SearchIndex`, `DocumentsAreFound`)

Each task is a sequence of steps, one call of Elasticsearch each, and steps of tasks
interleave. `GetElasticsearch`, `Info`, `DetectAnalyzer` make a client; `CheckExists`,
`ReadMapping`, `RecreateExists`, `DeleteIndex`, `CreateIndex` check the index;
`IndexDocument` writes. The startup and two documents of the API, one of the worker, two
failed calls; the index is absent, fitting or not at first.

### Chunking (`Chunking`, part of `RetrievalSound`)

`split_text` on texts of up to three clauses, with the code's limits in characters (500 for
a short text, 100, 1200 and 200): `KeepWhole` for a short text, `SplitClause` for each
clause with any breaks that a percentile of 0.9 can leave, or none without embeddings,
`StoreChunks` with `_merge_small_tails`. A sentence is its clause, its place there and its
length; a clause after the first begins at its title.

Sentences are split at newlines and at the question mark of ASCII too
(`semantic_chunker.py:175`), and stripped, so what `smart_truncate` gets has no separator there
that it could cut at (`:26`, `:57`). `ends` has the sentences whose end is found; `spaces` the
places where it cuts when none is. A long chunk is cut at the last end found beyond its half,
else at a space near its limit, else at the limit, and then sentences that would have fitted
are lost with the one that did not fit; `TextIsKept` says which. 281 texts: one short, 250
of three clauses of five shapes whose ends are all found, and 30 of two clauses in one of which
ends are missing. White space inside a clause that is not split is not counted.

### Accounts (`Accounts`, `PasswordIsLastAcked`, `UndoneOnlyByStaleEdit`)

| Actions | Code |
|---|---|
| `LoadFromCopy`, `LoadFromRow`, `FillCopy`, `LoadAsAdmin` | `get_current_user`, `authenticate_user` and `login`, the loads of the administrator's requests |
| `EditProfile`, `EditColumn`, `GenerateKey` | `update_user_profile` (a merge of a detached copy), `update_user_role` and the status, `generate_api_key` |
| `ChangePassword`, `RefusePassword` | `change_password`, `update_password` |
| `Commit`, `CommitThenFail`, `FailCommit`, `ExpireCopy` | the commit and what follows it; the copy's lifetime |

A column's value is the request that wrote it; five columns stand for the ways a column
is treated by the copy.

### Organizations and prompts (`Organizations`, `TreeStaysWhole`; `Prompts`, `HistoryKeepsTexts`)

`Create`, `Move`, `Delete` and `End` work on `view`, the request's transaction, which nobody
commits; `CreateDefault` and `AddMember`, `RemoveMember` commit. What is above an
organization (`Path`) is the least set that holds it and is closed under parents. All trees
of four organizations. Templates: `Create`, `Seed`, `ReadTemplate`, `Update`, `Restore`,
`Delete`, with a commit of its own for the first version. Four requests: two that overlap
after two that made a template and a version.

### Notifications (`Notifications`, `NoticesAgree`), workflow runs (`WorkflowRuns`, `StreamSettles`), rate limiter (`RateLimit`, `RefusedOnlyAboveLimit`)

`LookForRecent`, `Insert`, `Refresh`, `Push` are `create_notification`; `Send`, `AcceptSocket`,
`Register`, `ClientLeaves`, `EndSocket` the socket manager. `Execute`, `StartEngine`,
`ReadEvent`, `LeaveStream`, `AnswerPlain` are the handler of an execution, `Compile`,
`EnterNode`, `TryNode`, `ReportError` its engine task, with edits and deletes beside them;
three attempts as in the code. `CountInRedis` and `CountInMemory` count a request
of the current second in a window of two, with five seconds and two requests a second.

### What the merged properties consist of

`SessionsAgree`, `ToolsAnswer`, `ChatsAgree`, `UploadsAreServed`, `NoticesAgree`,
`SerialRun`, `RetrievalSound`, `LessonsServe` and `DocumentsAreFound` are conjunctions of
properties of the modules, which are stated and explained where they are defined.
`StreamSettles` says of a completed stream what it says of a failed one, but no stream
completes, since `NodeResult` lacks a field (see below), so that half is never put to the
test. `TreeStaysWhole` is about the changes of one request, because these changes are
flushed and not committed. Each property of `Services` is stated for the part it is about:
in a behaviour of one part the variables of the others keep their initial values, so there
is nothing to check of them.

## Proofs

The theorems are listed in `PROJECT.json`. Each holds for every value of the constants that
its module's assumption admits (`ExecutorAssumption`, `IngestionAssumption`, ...), which TLC
evaluates on every run. None of the safety properties is inductive; the invariants below,
called `IInv` in each module, are, and each was checked with TLC on the instance of its
component's run before it was proved. The proofs have one step for each action, and a lemma
where several actions disturb the same conjunct.

### The plan's graph and the executor

`PlanDagProofs` proves `ValidateDagSound` for any number of steps: what `_validate_dag`
returns has no cycle, and it keeps the dependencies of a plan that had none. The sets of
Kahn's algorithm are a function of the round. Induction over rounds is made by taking the
least round at which a claim fails (`LeastNat`): what is sorted stays sorted
(`RoundsGrow`), so `n` rounds that each sort something sort `n` steps (`RoundsCount`), and
after as many rounds as there are steps nothing is left, or a round sorted nothing new and
each step left waits for another one left (`LeftOverIsCycle`), which is what a cycle is.

`ExecutorProofs`:

- `Invariance`, `TypeCorrect`, `DependencyOrderHolds`: a step's status and coroutine agree
  (`StepInv`), a step outside the round has no coroutine in flight and between rounds there
  is none (`RoundInv`). `DependencyOrder` alone is not inductive: a late booking could take a
  completed step back if a booked step could still have a coroutine.
- `RetryStrategyHolds`: for plans handed over unrebuilt (`ViaLoop = FALSE`), by the
  bound of attempts in `IInv`.
- `Refinement`: in DAG mode the run implements `PlanExecution`, one step per action of
  `Next`; each maps to an abstract step or a stutter. `IInv` shows that a round starts
  with nothing running.
- `CountersAgreeHolds`, `DependentsSeeResultsHolds`, `RaisedOnlyByEmptyResultHolds` from
  `LedgerInv`: working memory has a result of a step exactly if the step completed
  (`StoreInv`); a task or run that raised met an empty result (`RaiseInv`); the failures in a
  row together with the unbooked steps of the round stay within the breaker's limit and the
  round (`CountInv`), which is why a round overshoots the breaker by no more than its own
  size although its tasks finish in any order.
- `SerialOrderHolds`, `SerialRunHolds` from `SerialInv`: rounds of one step, in list order.
- `SkipJustifiedHolds` from `SkipInv`: nothing is skipped before `execute` ends, and when it
  ends with steps pending, these wait for a step that failed or for each other; the latter
  `ValidateDagSound` excludes. `OnlyCyclesLoseDepsHolds` is that theorem for the plan that is
  run.

### Ingestion and agent memory

`IngestionProofs`: `TypeCorrect`, `IndexHasRowsHolds`, `ParsingHasTaskHolds` from `IInv`:
the worker is on the task at its position, not yet handled, for a document that had a row
(`WorkerInv`), and a document without a row has nothing in the index and no delete under way
(`FreshInv`). `ParsingHasTask` is part of it: `unmarked` tasks, like those a crash lost,
were never handled. All steps of requests and a crash of the API share one lemma: `ApiStep`
states what they may do to the stores. `CrashLosesOneTaskHolds`: every task taken is
handled, unmarked, in hand, or `Lost`, and only a crash of the worker moves the one in hand
to `Lost`. `IndexedIsSearchableHolds` is proved under `Calm`: neither process dies, Kafka is
up and takes what it is sent, the database answers, and rows of a document that is to be
deleted can be. TLC refutes the property with any one of a Kafka error, a failure of the
database, a crash of the worker, a crash of the API, or a delete that the foreign key of the
chunk rows refuses (run `ingestion_delete`): a rebuild clears the index before it sends its
task (`knowledge.py:313`), and what it saves afterwards compares with the status it loaded.
Failures of parsing, indexing, deleting, and the order of requests remain arbitrary.
`ServedInv` says of each document that is INDEXED, or will be with the worker's next commit,
that it is `Served`: all chunks are there, or a rebuild is about to send its task, a delete
is under way, a task waits, or the worker is still to index it.

`AgentMemoryProofs`: `TypeCorrect`, `RedisWithinMemoryHolds`, `AcknowledgedDurableHolds` and,
as an action property, `SaveKeepsStoredHolds`. A save writes a snapshot built earlier, so `IInv`
adds that only requests past a load use the memory, and that before the first load is over
Redis has not grown (`LoadInv`); that a save in flight holds no more than the memory, all that
Redis holds if it has not been overtaken, and all that an older save in flight holds
(`SaveInv`); that confirmed items are in memory (`AckInv`), and that the snapshot written for an
item has it (`OwnInv`). The steps fall into three lemmas: one that touches no save
(`QuietStep`), one that begins a save (`SaveStep`), one that ends one (`ArrivalStep`).

### The parts of the API process

The theorems of `AgentProofs`, `ConversationProofs` and `PlatformProofs` are about
`ServicesSpec`, and are all lifted from a part in the same way: the part's `IInv` holds in its
initial states; a step of the part keeps it; a step of another part leaves the part's
variables alone; so it holds in `Services` while the part is the chosen one, and it implies the
part's property. What the invariants add to the properties:

| Theorem | What the invariant adds |
|---|---|
| `ToolsAnswerHolds` | log entries are of calls that were made (`LogInv`); a thread that waits is not the target of `sys.stdout` and one that was always alone is, with its own lines in its buffer (`WaitingInv`, `AloneInv`, `StdoutInv`) |
| `ResultsCoverPlanHolds` | the plan has no cycle (by `ValidateDagSound`), so a pending step always has a ready one behind it; attempts and results agree (`StepInv`), a round's dependencies have been attempted (`RoundInv`) |
| `SerialRunHolds` | that of `ExecutorProofs`, taken over by an instance of that module |
| `SessionsAgreeHolds` | a run that nothing overlapped is the only active one (`LoneInv`), what the memory has for its completed steps is its own (`OwnInv`), and nothing else if it began empty (`FreshInv`); verdict and save belong to the run's stage (`VerdictInv`, `SaveInv`) |
| `ChatsAgreeHolds` | where the question and its answer are at each stage (`ConversationInv`); the shared attribute with the usage is that of the lone request between its reply and its record (`TokensInv`) |
| `ResponseTellsRunHolds` | only the last call runs; a status differs from the call's own only if it was borrowed (`CallsInv`); "ok" means no errors (`ResponseInv`) |
| `RefusedOnlyAboveLimitHolds` | what Redis and the memory count are requests that arrived since the start of their window (`MembersInv`, `CounterInv`) |
| `NoticesAgreeHolds` | the registered sockets are those of handlers that serve (`SocketInv`, with the finiteness that counting them needs); a call about to insert next to a recent twin had looked before the twin's commit (`RaceInv`) |
| `UploadsAreServedHolds` | the chunks on disk are those sent until the merged file is stored, and two requests merge one upload only if a chunk was sent again (`ChunkInv`); a task belongs to an upload that completed, and one beyond parsing has changed the status (`TaskInv`) |
| `StreamSettlesHolds` | how handler, engine and row go together (`StreamInv`), an error comes first in the queue (`ErrorFirst`) |
| `HistoryKeepsTextsHolds` | each text outside the history is paid for by one commit over a changed template (`LostInv`, a count of a finite set), and version numbers are unique until then (`NumberInv`) |
| `TreeStaysWholeHolds` | only that rows are those of a function; the work is in lemmas about paths (`TreePathStep`: a path is an organization with the path of its parent, as `Path` is a least set) and subtrees, by which levels of the initial trees count from the root (`TreeTreesAreWhole`) and a move or a deletion keeps those outside |
| `LessonsServeHolds` | a script has lessons in memory from the first to its end, and saves the last of them (`ScriptInv`); one script at most has any unless two overlapped (`AloneInv`); what a script at work has counted is in its memory, and what it counted was saved unless its last save failed (`CountedInv`); the script at work knows all that the file ever held, and so does the file while nobody writes, unless a write was cut off (`FileInv`) |
| `RetrievalSoundHolds` | a search has at most two chunks of a document (`TwoOfEach`), a hit by vectors needs a vector, and each sub-question adds its passages once, when it is done (`SearchInv`, `MergedInv`). The work is in lemmas about lists without duplicates: what filtering one (`FindOnlyIs`), fusing two by rank (`FindFusedIs`), selecting by similarity and reordering return. For the chunks, see below |
| `PromptTellsHolds` | the last prompt is `FitMessages` of a history no longer than a question loads (`PromptInv`); the work is in lemmas about sums and folds over a history: the tail that fits (`WindowTailFits`), the pairs of a conversation of answered questions (`WindowPairsOf`), the texts, and the summary |
| `TypesOKHolds` | nothing: each part's `IInv` has its type invariant, and a level of an organization is a natural number because those of the initial trees count from the root (`TreeLevels`) and a move shifts a subtree, whose levels are no less than that of its top (`TreeBelowDeeper`) |
| `DocumentsAreFoundHolds` | what may follow what in the rest of every task (`OrderInv`: a client is asked for before a check, a deletion is followed by a creation, what can raise in a check comes before its end, the write is last); while no index fits and none of the excuses holds, whoever is to write has a check before it (`CheckInv`); in a check, and in a process whose client is initialized, the installed analyzer is known (`AskedInv`) |

For the accounts, which `Services` extends, `PlatformProofs` proves `PasswordIsLastAckedHolds`
and, as an action property, `UndoneOnlyByStaleEditHolds`. `IInv` adds that a copy, and
so the user of a request outside its session, has no password, that only a change of the
password ever has one to write (`PasswordInv`), and that every change waiting for a commit
belongs to the request that makes it or comes from the merge of a copy (`WriterInv`). Handlers
share `WriteKeeps`, answers `AnswerKeeps`, beginnings `LoadKeeps`; the commit (`CommitKeeps`) is
where the parts meet. What SQLAlchemy's `merge` and flush do is taken as `Merged` and `OnTop`
state it. `AccountsServe` carries their `IInv` over to `Services`.

`ChunkingProofs` proves `ChunksTellHolds` for any text, limits and breaks. The chunks made
so far are runs of consecutive sentences of one clause; each begins where the one before it
ended, or behind sentences that its truncation dropped (`Follows`, `TooLong`), and they
reach the end of the clauses split so far (`ChunksInv`). Splitting and merging keep this;
truncating does because wherever it cuts (`LastBreak`) the rest is more than half of the
limit long; merging small tails joins neighbours, so the order stays and a title comes from
the first.

The algorithms on sequences are folds, which the library defines by a function chosen for
its recursive equation. That there is one is proved here (`FoldLeftExists`,
`WindowFoldLeftExists`, `WindowFoldRightExists`), for any step that stays in a set; then each
algorithm is the last of a sequence of intermediate results, each made from the one before
(`SplitIs`, `MergeIs`, `JoinIs`, `WindowTailIs`, `WindowPairsAre`, ...), and a claim about these
results is shown of the set of numbers of which it holds (`UpTo`, `WindowUpTo`), since the
library's induction theorems take an operator that the provers cannot instantiate.

### Model-checked only

- Liveness under fairness: `Termination`, `AttemptsEnd`, `UploadsSettle`, `RebuildServed`.
- `RetryStrategyHonoured` of rebuilt plans, which TLC refutes, and `IndexedIsSearchable`
  outside `Calm`, which TLC checks on the instances where it holds.

Every safety invariant that a passing run checks is stated by a theorem.

## Not modelled

- The circuit breaker (`core/circuit_breaker.py`): nothing in the application calls it.
- Traces and what is computed from them (`tracing.py`, `optimization.py`, mining, replay,
  evaluation): sequential computations over finished runs. Nothing that serves a request reads
  their results.
- Monitoring, statistics, manuals, audit listing, permission lookups: one read, or one
  write of one row.
- Token signatures, password hashes, Feishu and LLM clients, parsers of file formats:
  external, or formatting; where they matter they are outcomes of the actions that
  call them.
- `registry.py`'s fields `timeout`, `rate_limit` and `auth_handler` of a tool: nothing
  reads them. `subagent.py` builds a PER loop without planning and keeps nothing.
- The frontend, a client of the API.

## What the code does that a reader may not expect

Met while modelling; the models contain each of them where it has a state. Most contradict no
statement in the repository; where one does, it is quoted. None of these has a run of its own,
as the violations among the runs have.

- `NodeResult` has no field `duration`, so no workflow gets past its entry node; in plain
  mode the row stays "running" (`workflow_engine.py:747`).
- Read-all of notifications changes nothing: `not Notification.is_read` is evaluated by
  Python.
- The Redis side of the rate limiter counts seconds, not requests: requests of one second are
  one member of the sorted set. `middleware.py:207` calls this "accurate sliding window". The
  middleware is not installed (`main.py:207`), so nobody meets it.
- A stale copy of a user, merged by a profile edit, undoes role, status and API key.
- `DELETE` of an uploaded file removes an object of another name and leaves its chunks in
  Elasticsearch.
- A failed step is in the orchestrator's map of completed ones, and a plan that is not
  found or is abandoned leaves its messages on the bus.
- Answers that are error texts of the LLM client are cached as answers; results bound to
  documents are stored for everybody's question.
- A question loads the first ten messages of its conversation, not the last ten, so the
  newest messages of a long conversation never reach the prompt; with ten messages the
  bounds of 20 messages and 8 pairs are never reached (`chat.py`, `context_window.py`).
- Creations, moves and deletions of organizations are flushed and never committed, while
  the audit log, in a session of its own, keeps them.
- After its first update a template has two rows of version 1, one from its creation and one
  from the update (`prompts.py:64-72`, `99-108`); reading or restoring version 1 then raises.
  Restoring or updating a template twice at once does the same to other numbers.
- An error of a step without a call is booked on the last call of another, and a run cut
  off after its first text is "ok" (`agent_api.py:246`).
- The tool log has no entry for timeouts, unknown tools and arguments that are no object;
  texts that begin with "Error:" are logged as successes; skills drop good results that
  contain "Error".
- Programs of `execute_python` share `sys.stdout` and outlive their time limit.
- Chunks that a later filter drops count towards the two of a document.
- Traces hold calls of failed steps only, and no retries (`orchestrator.py:221-225`), so every
  tool's failure rate is 100 %, no retry or fallback is ever seen, and hints count as accurate
  when their step failed. The docstrings speak of a rate of all calls (`tracing.py:223`), of
  retried calls that succeeded (`tracing.py:265-281`) and of hints that match what was executed
  (`tracing.py:336-341`). A tool at 30 % is "high" where `optimization.py:209` says "critical".
- Passages that two sub-questions find are there twice. The comment at `pipeline.py:181` says
  "dedup by chunk_id / doc_id", but what `retrieve()` returns has neither `_id` nor `_source`,
  and no `chunk_id`, so every key is empty.
- When the database fails the exception handler of a worker's task, or a task of an uploaded
  file, the document stays PARSING (or UPLOADED) and nothing takes it up again
  (`doc_processor.py:125-134`, `consumer.py:46-47`, `document_parser.py:522-524`).
- Running the extraction of lessons twice stores every lesson twice.
- An index whose dimension differs is deleted with all its documents, whose rows stay
  INDEXED; an error of the check is swallowed and Elasticsearch makes up a mapping.
- The semantic chunker drops what follows the end of a chunk of more than 1200 characters,
  and with lines or ASCII question marks also sentences that would have fitted; and a small
  clause loses its title to the one before it.

## Running

    tlc -workers 2 -config MCExecutor_dag.cfg MCExecutor
    tlapm ExecutorProofs.tla

The modules with proofs are those named `...Proofs`. `PlanDagProofs` is checked within a
minute, `ConversationProofs`, `PlatformProofs` and `AgentProofs` within a quarter or half an
hour each, the others within minutes.
The module and the configuration of every run are in `PROJECT.json`. Each property has
there a mutant: a changed definition under which TLC finds the property violated.
