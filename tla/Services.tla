------------------------------ MODULE Services ------------------------------
(***************************************************************************)
(* The parts of the API process that share no state with each other, side   *)
(* by side.  A behaviour is one of a single part, chosen at the start; the   *)
(* other parts stay where they begin.  The accounts are those of the module  *)
(* itself, the other parts are instances with constants and variables of     *)
(* their own.                                                                *)
(***************************************************************************)
EXTENDS Accounts

CONSTANTS
    Client,                  \* concurrent users of the parts
    \* Executor in serial mode
    SerialSteps, SerialPlans, SerialRetries, SerialFailures, SerialLowGain,
    SerialFingerprint,
    \* AgentSession, ChatPipeline, Orchestration, WorkflowRuns, Uploads
    RunSteps, QuickPassSteps, ChatEdits, OrchSteps, OrchRetries, FlowRetries,
    FlowEdits, FileChunks, FileCrashes,
    \* RateLimit, AgentApi, Prompts, Organizations
    WindowSeconds, RequestsPerWindow, RateTime, RatePerSecond, ServSteps,
    ServEvents, PromptRequest, PromptVersions, Org, DefaultOrg, OrgUser,
    OrgChanges,
    \* ToolCalls, PythonRuns
    ToolStep, ToolDirect, ToolRaw, ToolIds, ToolCallLimit, ToolLogLimit, PyPrints,
    \* Retrieval
    FindChunk, FindDocument, FindEmbedded, FindCoverages, FindSubqueryLimit,
    FindRetries, FindRewrites, FindTopK, FindTopN,
    \* Experiences, SearchIndex
    LessonServer, LessonCases, LessonQuestions, LessonTopK, IndexTask, IndexHome,
    IndexStartup, IndexFailures,
    \* ContextWindow
    HistoryLimit, MaxTokens, TailWindow, MaxHistoryMessages, MaxPairs, MaxTopics,
    Floor, Overhead, Clip, MessageSize, Pinned, MaxMessages,
    \* Chunking
    PolicyTexts, ShortText, MinSentences, LeastSplit, ChunkMax, SmallTail

VARIABLES part,
    runPc, runStatus, runStore, runAnswer, runVerdict, runRecorded, runRow,
    runMessages, runAlone, runFresh,
    chatPc, chatKind, chatFound, chatVector, chatResults, chatReply,
    chatCached, chatRow, chatBinding, chatMessages, chatExact, chatSemantic,
    chatLastUsage, chatUsage, chatAlone, chatUntouched, chatEdits,
    orchPhase, orchDeps, orchBus, orchRound, orchResult, orchAttempts,
    orchStarted,
    flowFlow, flowActive, flowRow, flowHandler, flowConfig, flowEngine,
    flowAttempts, flowEvents, flowTold, flowRefused, flowEdits,
    filePc, fileDir, fileMerging, fileObject, fileStatus, fileRows, fileIndex,
    fileTask, fileSent, fileResent, fileDropped, fileCrashes,
    notePc, noteRow, notePending, noteRaced, notePlace, noteLeft, noteConns,
    noteConnects, noteDisconnects,
    rateNow, rateMembers, rateWindow, rateCounter, rateArrived, rateRefused,
    execPlanned, execStatus, execPc, execBatch, execTask, execCollected,
    execAttempts, execResultText, execStepText, execCompletedSteps,
    execFailedSteps, execConsecutiveFailures, execConsecutiveLowGain, execSeen,
    execStore,
    servPhase, servPlanSteps, servLeft, servStep, servCalls, servErrors,
    servBorrowed, servChunks, servTraced, servCut, servResponse,
    promptPc, promptRead, promptTemplate, promptHistory, promptSaved,
    promptRaces, promptDeleted,
    orgStored, orgView, orgMoved, orgMember, orgAudited, orgChanges,
    toolCalls, toolLog,
    pyThread, pyTold, pyStdout, pyBefore, pyBuffer, pyPrinted, pyResult,
    pyAlone,
    findPhase, findStrategy, findCoverage, findSubqueries, findSub,
    findAttempt, findKeyword, findEmbedding, findVector, findKept, findMerged,
    findResults, findRepeated,
    expFile, expMemory, expPc, expNext, expCounted, expTold, expFailed,
    expTorn, expOverlapped, expSaved,
    idxIndex, idxClient, idxAnalyzer, idxTodo, idxStatus, idxFailures,
    idxErred, idxStale, idxEarly, idxPlain,
    winMessages, winAsked, winPrompt,
    cutText, cutClause, cutChunks, cutRows, cutFailed

Serial == INSTANCE Executor WITH
    NumSteps <- SerialSteps, RawPlans <- SerialPlans, ViaLoop <- TRUE,
    ExecutionMode <- "serial", MaxRetriesPerStep <- SerialRetries,
    MaxConsecutiveFailures <- SerialFailures, MaxLowGainSteps <- SerialLowGain,
    Fingerprint <- SerialFingerprint,
    planned <- execPlanned, status <- execStatus, pc <- execPc,
    batch <- execBatch, task <- execTask, collected <- execCollected,
    attempts <- execAttempts, resultText <- execResultText,
    stepText <- execStepText, completedSteps <- execCompletedSteps,
    failedSteps <- execFailedSteps,
    consecutiveFailures <- execConsecutiveFailures,
    consecutiveLowGain <- execConsecutiveLowGain, seen <- execSeen,
    store <- execStore

Session == INSTANCE AgentSession WITH
    Run <- Client, MaxSteps <- RunSteps, QuickPassSteps <- QuickPassSteps,
    pc <- runPc, status <- runStatus, store <- runStore, answer <- runAnswer,
    verdict <- runVerdict, recorded <- runRecorded, row <- runRow,
    messages <- runMessages, alone <- runAlone, fresh <- runFresh

Pipeline == INSTANCE ChatPipeline WITH
    Request <- Client, MaxEdits <- ChatEdits, pc <- chatPc, kind <- chatKind,
    found <- chatFound, vector <- chatVector, results <- chatResults,
    reply <- chatReply, cached <- chatCached, row <- chatRow,
    binding <- chatBinding, messages <- chatMessages, exact <- chatExact,
    semantic <- chatSemantic, lastUsage <- chatLastUsage, usage <- chatUsage,
    alone <- chatAlone, untouched <- chatUntouched, edits <- chatEdits

Orchestrator == INSTANCE Orchestration WITH
    NumSteps <- OrchSteps, MaxRetriesPerStep <- OrchRetries, phase <- orchPhase,
    deps <- orchDeps, bus <- orchBus, round <- orchRound, result <- orchResult,
    attempts <- orchAttempts, started <- orchStarted

Flows == INSTANCE WorkflowRuns WITH
    MaxRetries <- FlowRetries, MaxEdits <- FlowEdits, flow <- flowFlow, active <- flowActive,
    row <- flowRow, handler <- flowHandler, config <- flowConfig,
    engine <- flowEngine, attempts <- flowAttempts, events <- flowEvents,
    told <- flowTold, refused <- flowRefused, edits <- flowEdits

Files == INSTANCE Uploads WITH
    Chunks <- FileChunks, MaxCrashes <- FileCrashes, pc <- filePc, dir <- fileDir,
    merging <- fileMerging, object <- fileObject, status <- fileStatus,
    rows <- fileRows, index <- fileIndex, task <- fileTask, sent <- fileSent,
    resent <- fileResent, dropped <- fileDropped, crashes <- fileCrashes

Notices == INSTANCE Notifications WITH
    Socket <- Client, Request <- Client, pc <- notePc, row <- noteRow, pending <- notePending,
    raced <- noteRaced, place <- notePlace, left <- noteLeft,
    conns <- noteConns, connects <- noteConnects,
    disconnects <- noteDisconnects

Limiter == INSTANCE RateLimit WITH
    WindowSeconds <- WindowSeconds, RequestsPerWindow <- RequestsPerWindow,
    MaxTime <- RateTime, MaxPerSecond <- RatePerSecond, now <- rateNow, members <- rateMembers,
    window <- rateWindow, counter <- rateCounter, arrived <- rateArrived,
    refused <- rateRefused

Service == INSTANCE AgentApi WITH
    NumSteps <- ServSteps, MaxEvents <- ServEvents, phase <- servPhase,
    planSteps <- servPlanSteps, left <- servLeft, step <- servStep,
    calls <- servCalls, errors <- servErrors, borrowed <- servBorrowed,
    chunks <- servChunks, traced <- servTraced, cut <- servCut,
    response <- servResponse

Templates == INSTANCE Prompts WITH
    Request <- PromptRequest, MaxVersion <- PromptVersions, pc <- promptPc, read <- promptRead,
    template <- promptTemplate, history <- promptHistory,
    saved <- promptSaved, races <- promptRaces, deleted <- promptDeleted

Orgs == INSTANCE Organizations WITH
    Org <- Org, Default <- DefaultOrg, User <- OrgUser,
    MaxChanges <- OrgChanges, stored <- orgStored,
    view <- orgView, moved <- orgMoved, member <- orgMember,
    audited <- orgAudited, changes <- orgChanges

Calls == INSTANCE ToolCalls WITH
    Step <- ToolStep, Direct <- ToolDirect, Raw <- ToolRaw,
    MaxIds <- ToolIds, MaxCalls <- ToolCallLimit, MaxLog <- ToolLogLimit,
    calls <- toolCalls, log <- toolLog

Programs == INSTANCE PythonRuns WITH
    Call <- Request, Process <- None, MaxPrints <- PyPrints, thread <- pyThread,
    told <- pyTold, stdout <- pyStdout, before <- pyBefore,
    buffer <- pyBuffer, printed <- pyPrinted, result <- pyResult,
    alone <- pyAlone

Search == INSTANCE Retrieval WITH
    Chunk <- FindChunk, Document <- FindDocument, Embedded <- FindEmbedded,
    Coverages <- FindCoverages, MaxSubqueries <- FindSubqueryLimit,
    MaxRetries <- FindRetries, MaxRewrites <- FindRewrites, TopK <- FindTopK,
    TopN <- FindTopN,
    phase <- findPhase, strategy <- findStrategy, coverage <- findCoverage,
    subqueries <- findSubqueries, sub <- findSub, attempt <- findAttempt,
    keyword <- findKeyword, embedding <- findEmbedding, vector <- findVector,
    kept <- findKept, merged <- findMerged, results <- findResults,
    repeated <- findRepeated

Lessons == INSTANCE Experiences WITH
    Script <- Client, Server <- LessonServer, Case <- LessonCases,
    Question <- LessonQuestions, TopK <- LessonTopK, file <- expFile,
    memory <- expMemory, pc <- expPc, next <- expNext, counted <- expCounted,
    told <- expTold, failed <- expFailed, torn <- expTorn,
    overlapped <- expOverlapped, saved <- expSaved

Indices == INSTANCE SearchIndex WITH
    Task <- IndexTask, Home <- IndexHome, Startup <- IndexStartup,
    MaxFailures <- IndexFailures, index <- idxIndex, client <- idxClient,
    analyzer <- idxAnalyzer, todo <- idxTodo, status <- idxStatus,
    failures <- idxFailures, erred <- idxErred, stale <- idxStale,
    early <- idxEarly, plain <- idxPlain

Window == INSTANCE ContextWindow WITH
    HistoryLimit <- HistoryLimit, MaxTokens <- MaxTokens,
    TailWindow <- TailWindow, MaxHistoryMessages <- MaxHistoryMessages,
    MaxPairs <- MaxPairs, MaxTopics <- MaxTopics, Floor <- Floor,
    Overhead <- Overhead, Clip <- Clip, Size <- MessageSize, Pinned <- Pinned,
    MaxMessages <- MaxMessages, messages <- winMessages, asked <- winAsked,
    prompt <- winPrompt

Chunks == INSTANCE Chunking WITH
    Texts <- PolicyTexts, ShortText <- ShortText, MinSentences <- MinSentences,
    LeastSplit <- LeastSplit, ChunkMax <- ChunkMax, SmallTail <- SmallTail,
    text <- cutText, clause <- cutClause, chunks <- cutChunks, rows <- cutRows, failed <- cutFailed

---------------------------------------------------------------------------
runVars ==
    <<runPc, runStatus, runStore, runAnswer, runVerdict, runRecorded, runRow,
      runMessages, runAlone, runFresh>>
chatVars ==
    <<chatPc, chatKind, chatFound, chatVector, chatResults, chatReply,
      chatCached, chatRow, chatBinding, chatMessages, chatExact, chatSemantic,
      chatLastUsage, chatUsage, chatAlone, chatUntouched, chatEdits>>
orchVars ==
    <<orchPhase, orchDeps, orchBus, orchRound, orchResult, orchAttempts,
      orchStarted>>
flowVars ==
    <<flowFlow, flowActive, flowRow, flowHandler, flowConfig, flowEngine,
      flowAttempts, flowEvents, flowTold, flowRefused, flowEdits>>
fileVars ==
    <<filePc, fileDir, fileMerging, fileObject, fileStatus, fileRows,
      fileIndex, fileTask, fileSent, fileResent, fileDropped, fileCrashes>>
noteVars ==
    <<notePc, noteRow, notePending, noteRaced, notePlace, noteLeft, noteConns,
      noteConnects, noteDisconnects>>
execVars ==
    <<execPlanned, execStatus, execPc, execBatch, execTask, execCollected,
      execAttempts, execResultText, execStepText, execCompletedSteps,
      execFailedSteps, execConsecutiveFailures, execConsecutiveLowGain,
      execSeen, execStore>>
rateVars ==
    <<rateNow, rateMembers, rateWindow, rateCounter, rateArrived, rateRefused>>
servVars ==
    <<servPhase, servPlanSteps, servLeft, servStep, servCalls, servErrors,
      servBorrowed, servChunks, servTraced, servCut, servResponse>>
promptVars ==
    <<promptPc, promptRead, promptTemplate, promptHistory, promptSaved,
      promptRaces, promptDeleted>>
orgVars == <<orgStored, orgView, orgMoved, orgMember, orgAudited, orgChanges>>
toolVars ==
    <<toolCalls, toolLog>>
pyVars ==
    <<pyThread, pyTold, pyStdout, pyBefore, pyBuffer, pyPrinted, pyResult,
      pyAlone>>
findVars ==
    <<findPhase, findStrategy, findCoverage, findSubqueries, findSub,
      findAttempt, findKeyword, findEmbedding, findVector, findKept,
      findMerged, findResults, findRepeated>>
expVars ==
    <<expFile, expMemory, expPc, expNext, expCounted, expTold, expFailed,
      expTorn, expOverlapped, expSaved>>
idxVars ==
    <<idxIndex, idxClient, idxAnalyzer, idxTodo, idxStatus, idxFailures,
      idxErred, idxStale, idxEarly, idxPlain>>
winVars ==
    <<winMessages, winAsked, winPrompt>>
cutVars ==
    <<cutText, cutClause, cutChunks, cutRows, cutFailed>>

Part == {"accounts", "session", "pipeline", "orchestrator", "flows", "files",
         "notices", "limiter", "serial", "service", "templates", "orgs",
         "tools", "python", "search", "lessons", "index", "window", "chunks"}

ASSUME ServicesAssumption ==
    /\ Session!AgentSessionAssumption /\ Pipeline!ChatPipelineAssumption
    /\ Serial!NumStepsAssumption /\ Serial!ExecutorAssumption
    /\ Orchestrator!NumStepsAssumption /\ Orchestrator!OrchestrationAssumption
    /\ Flows!WorkflowRunsAssumption
    /\ Files!UploadsAssumption /\ Limiter!RateLimitAssumption
    /\ Service!AgentApiAssumption /\ Templates!PromptsAssumption
    /\ Orgs!OrganizationsAssumption
    /\ Calls!ToolCallsAssumption
    /\ Programs!PythonRunsAssumption
    /\ Search!RetrievalAssumption
    /\ Lessons!ExperiencesAssumption
    /\ Indices!SearchIndexAssumption
    /\ Window!ContextWindowAssumption
    /\ Chunks!ChunkingAssumption

\* A part that is not the chosen one has one initial state, not all of its own.
OneInit ==
    /\ part = "serial" \/ execPlanned = Serial!PlannedPlan(CHOOSE raw \in SerialPlans : TRUE)
    /\ part = "orchestrator" \/ orchDeps = [s \in 1 .. OrchSteps |-> {}]
    /\ part = "orgs" \/ orgStored = <<>>
    /\ part = "session" \/ runRow = FALSE
    /\ part = "pipeline" \/ chatRow = FALSE
    /\ part = "flows" \/ (flowFlow = "input" /\ flowActive = TRUE)
    /\ part = "search"
          \/ (findStrategy = "hybrid" /\ findCoverage = CHOOSE c \in FindCoverages : TRUE)
    /\ part = "lessons" \/ expFile = None
    /\ part = "index" \/ idxIndex = None
    /\ part = "chunks" \/ cutText = (CHOOSE t \in PolicyTexts : TRUE)

ServicesInit ==
    /\ part \in Part
    /\ OneInit
    /\ Init
    /\ Session!Init
    /\ Pipeline!Init
    /\ Flows!Init
    /\ Files!Init
    /\ Notices!Init
    /\ Limiter!Init
    /\ Service!Init
    /\ Templates!Init
    /\ Serial!Init
    /\ Orchestrator!Init
    /\ Orgs!Init
    /\ Calls!Init
    /\ Programs!Init
    /\ Search!Init
    /\ Lessons!Init
    /\ Indices!Init
    /\ Window!Init
    /\ Chunks!Init

servicesVars == <<part, vars, runVars, chatVars, orchVars, flowVars, fileVars,
                  noteVars, rateVars, execVars, servVars, promptVars, orgVars,
                  toolVars, pyVars, findVars, expVars, idxVars, winVars, cutVars>>

\* The other parts stay where they are.
Still ==
    /\ UNCHANGED part
    /\ IF part = "accounts" THEN TRUE ELSE UNCHANGED vars
    /\ IF part = "session" THEN TRUE ELSE UNCHANGED runVars
    /\ IF part = "pipeline" THEN TRUE ELSE UNCHANGED chatVars
    /\ IF part = "orchestrator" THEN TRUE ELSE UNCHANGED orchVars
    /\ IF part = "flows" THEN TRUE ELSE UNCHANGED flowVars
    /\ IF part = "files" THEN TRUE ELSE UNCHANGED fileVars
    /\ IF part = "notices" THEN TRUE ELSE UNCHANGED noteVars
    /\ IF part = "limiter" THEN TRUE ELSE UNCHANGED rateVars
    /\ IF part = "serial" THEN TRUE ELSE UNCHANGED execVars
    /\ IF part = "service" THEN TRUE ELSE UNCHANGED servVars
    /\ IF part = "templates" THEN TRUE ELSE UNCHANGED promptVars
    /\ IF part = "orgs" THEN TRUE ELSE UNCHANGED orgVars
    /\ IF part = "tools" THEN TRUE ELSE UNCHANGED toolVars
    /\ IF part = "python" THEN TRUE ELSE UNCHANGED pyVars
    /\ IF part = "search" THEN TRUE ELSE UNCHANGED findVars
    /\ IF part = "lessons" THEN TRUE ELSE UNCHANGED expVars
    /\ IF part = "index" THEN TRUE ELSE UNCHANGED idxVars
    /\ IF part = "window" THEN TRUE ELSE UNCHANGED winVars
    /\ IF part = "chunks" THEN TRUE ELSE UNCHANGED cutVars

ServicesNext ==
    \/ part = "accounts" /\ Next /\ Still
    \/ part = "session" /\ Session!Next /\ Still
    \/ part = "pipeline" /\ Pipeline!Next /\ Still
    \/ part = "orchestrator" /\ Orchestrator!Next /\ Still
    \/ part = "flows" /\ Flows!Next /\ Still
    \/ part = "files" /\ Files!Next /\ Still
    \/ part = "notices" /\ Notices!Next /\ Still
    \/ part = "limiter" /\ Limiter!Next /\ Still
    \/ part = "serial" /\ Serial!Next /\ Still
    \/ part = "service" /\ Service!Next /\ Still
    \/ part = "templates" /\ Templates!Next /\ Still
    \/ part = "orgs" /\ Orgs!Next /\ Still
    \/ part = "tools" /\ Calls!Next /\ Still
    \/ part = "python" /\ Programs!Next /\ Still
    \/ part = "search" /\ Search!Next /\ Still
    \/ part = "lessons" /\ Lessons!Next /\ Still
    \/ part = "index" /\ Indices!Next /\ Still
    \/ part = "window" /\ Window!Next /\ Still
    \/ part = "chunks" /\ Chunks!Next /\ Still

ServicesSpec == ServicesInit /\ [][ServicesNext]_servicesVars

---------------------------------------------------------------------------
(* Properties: those of the parts under the names of their modules.        *)

\* Every variable of the chosen part keeps its type; the others do not change.
TypesOK ==
    CASE part = "accounts" -> TypeOK
      [] part = "session" -> Session!TypeOK
      [] part = "pipeline" -> Pipeline!TypeOK
      [] part = "orchestrator" -> Orchestrator!TypeOK
      [] part = "flows" -> Flows!TypeOK
      [] part = "files" -> Files!TypeOK
      [] part = "notices" -> Notices!TypeOK
      [] part = "limiter" -> Limiter!TypeOK
      [] part = "serial" -> Serial!TypeOK
      [] part = "service" -> Service!TypeOK
      [] part = "templates" -> Templates!TypeOK
      [] part = "orgs" -> Orgs!TypeOK
      [] part = "tools" -> Calls!TypeOK
      [] part = "python" -> Programs!TypeOK
      [] part = "search" -> Search!TypeOK
      [] part = "lessons" -> Lessons!TypeOK
      [] part = "index" -> Indices!TypeOK
      [] part = "window" -> Window!TypeOK
      [] part = "chunks" -> Chunks!TypeOK

---------------------------------------------------------------------------
(* Each property is one of a part; the others are where they begin.        *)

\* What the gate, reflection and review read for a step that the run itself
\* completed is the run's own result, as long as no other run of the session
\* overlapped it, and for a run that started with an empty working memory the gate
\* reports exactly its own blank and marked results, and it passes without the model
\* (_quick_pass_check) only if one of its own steps produced text; and a run
\* whose exchange is in the session has been recorded in memory and saved for replay,
\* its question right before its answer, once, whatever other runs, deletes and
\* restarts did in between.
SessionsAgree == part = "session" => Session!OwnResults /\ Session!SavedMeansFinished

\* ExecutorAgent.run starts a step only when each of its dependencies has run to
\* its end, whether it succeeded or not; and the results that reach the review and
\* the trace cover the plan: every step was run, none was given up as a deadlock, and
\* one that failed had all its attempts.
ResultsCoverPlan == part = "orchestrator" => Orchestrator!ResultsCoverPlan

\* A question whose pipeline ended well is in the conversation with its answer
\* after it, once each, unless the conversation was emptied since it was asked; and
\* the tokens recorded for a request are those of its own answer, unless requests
\* overlapped or the model failed and reported none: then they are another's.
ChatsAgree == part = "pipeline" => Pipeline!AnsweredIsSaved /\ Pipeline!UsageIsOwn

\* A stream that was read to its end has told the client what the row says, and the
\* row no longer says "running" unless the database itself refused the end.  With
\* a client that left, and in plain mode, it may.
StreamSettles == part = "flows" => Flows!StreamSettles

\* Chunks that are each sent once are merged once at most, in whatever order they
\* arrive, and none is lost before the file is stored; and a document that says it is
\* being processed is looked after: by its upload, by a task, or else its upload was
\* answered with an error or a restart came between.
UploadsAreServed == part = "files" => Files!UploadsAreServed

\* get_stats tells the truth about connections, although a failed push and the end
\* of the socket's handler both disconnect it, in any order and more than once; and
\* two notifications of one minute under one title (create_notification says it
\* removes such duplicates, notifications.py:293) exist only when one call looked
\* before the other's row was committed.
NoticesAgree == part = "notices" => Notices!NoticesAgree

\* No request is refused unless more than the limit arrived within the last
\* window, however often the middleware switches between Redis and memory.
RefusedOnlyAboveLimit == part = "limiter" => Limiter!RefusedOnlyAboveLimit

\* Serial mode runs the steps one at a time and in definition order, also a step
\* that depends on a failed one; and an exception leaves execute() only when a step
\* depends on one without text.
SerialRun == part = "serial" => Serial!SerialRun

\* The response of the agent service tells how the run went: "ok" means that no step
\* reported an error and the run was not cut off before its first text; calls are
\* listed with the outcome they had, but for errors of no call booked on them.
ResponseTellsRun == part = "service" => Service!ResponseTellsRun

\* A saved text of a prompt can be looked up again, but for one text at most for each
\* commit over a template that had changed since it was read.
HistoryKeepsTexts == part = "templates" => Templates!HistoryKeepsTexts

\* A request that creates, moves or deletes organizations leaves a tree whose parents
\* exist and whose levels count from the root, unless it has put an organization
\* under one of its own; and members are in an organization that exists.
TreeStaysWhole == part = "orgs" => Orgs!TreeStaysWhole

\* The registry's log tells what the executor and the skills were told about a call,
\* with concurrent steps, time limits and a full log; and a call of execute_python whose
\* thread redirected sys.stdout alone answers with the lines of its own program, all of
\* them, and sys.stdout is the process's own again when no thread redirects it, or
\* else threads have overlapped.
ToolsAnswer ==
    /\ part = "tools" => Calls!LogTellsCalls
    /\ part = "python" => Programs!OutputIsOwn

\* A sub-question returns its first keyword hit if that covers the question well,
\* unless the selection by vectors displaces it; what it returned is in the results
\* once at most, with at most two chunks of a document, unless the rerank service named
\* a passage twice; and the results are empty only when nothing was returned.  What is
\* searched are the chunks of a document: they have its sentences in their order, once
\* each, but for those that made a chunk of a split clause too long; a chunk has the
\* title of the first of its clauses that has one, and only the first is a small one.
RetrievalSound ==
    /\ part = "search" => Search!RetrievalSound
    /\ part = "chunks" => Chunks!ChunksTell

\* A lesson that was ever in the file is in it, and so is one that an extraction has
\* counted unless its last save failed: failed saves and extractions stopped between two
\* writes lose nothing that was stored.  Only a write cut off in the middle may, and two
\* extractions at work at once.  And a lesson that harms a question of this kind never
\* takes the place of one that is as relevant, certain enough and not harmful.
LessonsServe == part = "lessons" => Lessons!LessonsServe

\* The history in a prompt takes no more than its budget, but for a summary that does
\* so alone, and keeps as many of the newest messages as fit; and when each question
\* was answered every exchange is in it, the older ones in the summary.
PromptTells == part = "window" => Window!PromptTells

\* A document that says it is indexed is in an index that fits, with the analyzer that
\* is installed, unless a call of the check failed, an index that fitted was deleted by
\* a task that had looked before, or a task was given a client too early.
DocumentsAreFound == part = "index" => Indices!IndexHolds
=============================================================================
