------------------------------ MODULE Ingestion ------------------------------
(***************************************************************************)
(* How an uploaded document becomes searchable.  API requests store the     *)
(* file in MinIO, the document row and the job row in the database, and a   *)
(* task in a Kafka topic; one worker (worker/consumer.py) takes the tasks   *)
(* and runs worker/doc_processor.py on each: it saves the document's chunks *)
(* in the database and indexes them in Elasticsearch.  Rebuild and delete   *)
(* requests act on the same stores while the worker runs.                   *)
(*                                                                         *)
(* An action is what happens between two awaits: a call of one of the       *)
(* stores, or a commit.  SQLAlchemy sends an UPDATE at commit only for a    *)
(* column that differs from the value loaded, and raises when the row of an *)
(* UPDATE is gone.  A call of the database that fails does nothing.         *)
(***************************************************************************)
EXTENDS Naturals, Sequences, FiniteSets

CONSTANTS
    Doc,                \* the documents
    Content,            \* the MinIO object of each: organization and MD5
    Chunk,              \* the chunks a document is parsed into
    Rebuild,            \* the rebuild requests
    Deletable,          \* the documents a delete request may name
    ForeignKeys,        \* the database enforces foreign keys (MySQL does)
    Faults,             \* what may fail
    MaxCrashes          \* bound on the crashes of a behaviour

Fault == {"kafka_down", "kafka_error", "parse", "index", "es_delete",
          "file_delete", "database", "worker_crash", "api_crash"}

ASSUME IngestionAssumption ==
    /\ Chunk # {}
    /\ Deletable \subseteq Doc
    /\ ForeignKeys \in BOOLEAN
    /\ Faults \subseteq Fault
    /\ MaxCrashes \in Nat

VARIABLES
    row,            \* documents.status, or why there is no row
    chunks,         \* how many times the document's chunks are in document_chunks
    jobs,           \* the statuses of the document's knowledge_processing_jobs
    files,          \* the MinIO objects
    index,          \* the document's chunks in Elasticsearch
    topic,          \* the tasks ever sent, in order
    position,       \* how many of them the consumer has taken
    committed,      \* the offset committed to the broker
    handled,        \* history: the tasks whose process() returned
    unmarked,       \* history: those it raised for, the failure not being written
    producer,       \* the API process has a Kafka producer
    upload,         \* where the upload request of each document is
    rebuild,        \* where each rebuild request is
    delete,         \* where the delete request of each document is
    worker,         \* where DocumentProcessor.process is
    crashes

stores == <<row, chunks, jobs, files, index>>
kafka == <<topic, position, committed, handled, unmarked>>
api == <<producer, upload, rebuild, delete>>
vars == <<stores, kafka, api, worker, crashes>>

DocStatus == {"pending", "parsing", "indexed", "failed"}
Idle == [pc |-> "idle"]

TypeOK ==
    /\ row \in [Doc -> DocStatus \cup {"absent", "deleted"}]
    /\ chunks \in [Doc -> Nat]
    /\ jobs \in [Doc -> SUBSET {"queued", "failed"}]
    /\ files \subseteq {Content[d] : d \in Doc}
    /\ index \in [Doc -> SUBSET Chunk]
    /\ topic \in Seq(Doc)
    /\ position \in 0 .. Len(topic)
    /\ committed \in 0 .. position
    /\ handled \subseteq 1 .. position
    /\ unmarked \subseteq 1 .. position
    /\ producer \in BOOLEAN
    /\ upload \in [Doc -> {"none", "stored", "saved", "sent", "send_failed", "over"}]
    /\ rebuild \in [Rebuild ->
          {Idle, [pc |-> "over"]} \cup
          [pc : {"loaded", "cleared", "sent", "send_failed"}, doc : Doc, loaded : DocStatus]]
    /\ delete \in [Doc -> {"idle", "loaded", "file_removed", "index_removed"}]
    /\ worker \in {Idle} \cup
          [pc : {"loaded", "parsing", "parsed", "chunked", "indexed", "failing"},
           doc : Doc, loaded : DocStatus \cup {"unread"}]
    /\ crashes \in 0 .. MaxCrashes

Init ==
    /\ row = [d \in Doc |-> "absent"]
    /\ chunks = [d \in Doc |-> 0]
    /\ jobs = [d \in Doc |-> {}]
    /\ files = {}
    /\ index = [d \in Doc |-> {}]
    /\ topic = <<>> /\ position = 0 /\ committed = 0 /\ handled = {} /\ unmarked = {}
    /\ producer \in {TRUE, "kafka_down" \notin Faults}
    /\ upload = [d \in Doc |-> "none"]
    /\ rebuild = [r \in Rebuild |-> Idle]
    /\ delete = [d \in Doc |-> "idle"]
    /\ worker = Idle
    /\ crashes = 0

Present(d) == row[d] \in DocStatus

\* The row's status after a commit that sets it to new, when it was loaded as old.
Update(old, new, d) == IF old = new THEN row ELSE [row EXCEPT ![d] = new]

\* The UPDATE of that commit, if there is one, finds the row.
Updatable(old, new, d) == old = new \/ Present(d)

\* A call of the database may fail.
DatabaseFails == "database" \in Faults

\* A row that refers to the document can be inserted.
Referable(d) == Present(d) \/ ~ForeignKeys

(***************************************************************************)
(* KafkaProducerClient.send_message.  Without a producer the message is     *)
(* skipped and the caller is not told; pc is where the request goes on.     *)
(***************************************************************************)
Send(d, pc) ==
    \/ /\ producer
       /\ topic' = Append(topic, d)
       /\ pc = "sent"
    \/ /\ ~producer
       /\ pc = "sent"
       /\ UNCHANGED topic
    \/ /\ producer /\ "kafka_error" \in Faults
       /\ pc = "send_failed"
       /\ UNCHANGED topic

-----------------------------------------------------------------------------
(* upload_document *)

Upload(d, from, to) == upload[d] = from /\ upload' = [upload EXCEPT ![d] = to]

\* The file is put unless an object of that name is there.
StoreFile(d) ==
    /\ Upload(d, "none", "stored")
    /\ files' = files \cup {Content[d]}
    /\ UNCHANGED <<row, chunks, jobs, index, kafka, producer, rebuild, delete,
                   worker, crashes>>

SaveDocument(d) ==
    /\ \/ Upload(d, "stored", "saved") /\ row' = [row EXCEPT ![d] = "pending"]
       \/ DatabaseFails /\ Upload(d, "stored", "over") /\ UNCHANGED row
    /\ UNCHANGED <<chunks, jobs, files, index, kafka, producer, rebuild, delete,
                   worker, crashes>>

SendTask(d) ==
    /\ \E pc \in {"sent", "send_failed"} : Upload(d, "saved", pc) /\ Send(d, pc)
    /\ UNCHANGED <<stores, position, committed, handled, unmarked, producer, rebuild,
                   delete, worker, crashes>>

\* The job row, queued or failed; without the document the commit fails.
SaveJob(d) ==
    /\ \/ Upload(d, "sent", "over") /\ Referable(d)
          /\ jobs' = [jobs EXCEPT ![d] = @ \cup {"queued"}]
       \/ Upload(d, "send_failed", "over") /\ Referable(d)
          /\ jobs' = [jobs EXCEPT ![d] = @ \cup {"failed"}]
       \/ /\ \E pc \in {"sent", "send_failed"} : Upload(d, pc, "over")
          /\ ~Referable(d) \/ DatabaseFails
          /\ UNCHANGED jobs
    /\ UNCHANGED <<row, chunks, files, index, kafka, producer, rebuild, delete,
                   worker, crashes>>

-----------------------------------------------------------------------------
(* rebuild_document_knowledge *)

At(r, pc) == rebuild[r].pc = pc
Go(r, pc) == rebuild' = [rebuild EXCEPT ![r].pc = pc]
Over(r) == rebuild' = [rebuild EXCEPT ![r] = [pc |-> "over"]]

LoadForRebuild(r, d) ==
    /\ At(r, "idle") /\ Present(d)
    /\ rebuild' = [rebuild EXCEPT ![r] = [pc |-> "loaded", doc |-> d, loaded |-> row[d]]]
    /\ UNCHANGED <<stores, kafka, producer, upload, delete, worker, crashes>>

\* delete_es_by_document_id; its failure is logged and ignored.
ClearIndex(r) ==
    /\ At(r, "loaded") /\ Go(r, "cleared")
    /\ \/ index' = [index EXCEPT ![rebuild[r].doc] = {}]
       \/ "es_delete" \in Faults /\ UNCHANGED index
    /\ UNCHANGED <<row, chunks, jobs, files, kafka, producer, upload, delete,
                   worker, crashes>>

SendRebuildTask(r) ==
    /\ At(r, "cleared")
    /\ \E pc \in {"sent", "send_failed"} : Go(r, pc) /\ Send(rebuild[r].doc, pc)
    /\ UNCHANGED <<stores, position, committed, handled, unmarked, producer, upload,
                   delete, worker, crashes>>

\* The job row and, once the task is sent, the status "pending".
CommitRebuild(r) ==
    LET d == rebuild[r].doc
        old == rebuild[r].loaded
    IN
    /\ \/ /\ At(r, "sent") /\ Referable(d) /\ Updatable(old, "pending", d)
          /\ row' = Update(old, "pending", d)
          /\ jobs' = [jobs EXCEPT ![d] = @ \cup {"queued"}]
       \/ /\ At(r, "send_failed") /\ Referable(d)
          /\ jobs' = [jobs EXCEPT ![d] = @ \cup {"failed"}]
          /\ UNCHANGED row
       \/ /\ At(r, "sent")
          /\ ~(Referable(d) /\ Updatable(old, "pending", d)) \/ DatabaseFails
          /\ UNCHANGED <<row, jobs>>
       \/ /\ At(r, "send_failed")
          /\ ~Referable(d) \/ DatabaseFails
          /\ UNCHANGED <<row, jobs>>
    /\ Over(r)
    /\ UNCHANGED <<chunks, files, index, kafka, producer, upload, delete, worker, crashes>>

-----------------------------------------------------------------------------
(* delete_knowledge_thoroughly *)

Delete(d, from, to) == delete[d] = from /\ delete' = [delete EXCEPT ![d] = to]

\* Mutant: the request goes on when the document is not found.
LoadForDeleteUnchecked(d) ==
    /\ d \in Deletable
    /\ Delete(d, "idle", "loaded")
    /\ UNCHANGED <<stores, kafka, producer, upload, rebuild, worker, crashes>>

LoadForDelete(d) ==
    /\ d \in Deletable /\ Present(d)
    /\ Delete(d, "idle", "loaded")
    /\ UNCHANGED <<stores, kafka, producer, upload, rebuild, worker, crashes>>

RemoveFile(d) ==
    /\ Delete(d, "loaded", "file_removed")
    /\ \/ files' = files \ {Content[d]}
       \/ "file_delete" \in Faults /\ UNCHANGED files
    /\ UNCHANGED <<row, chunks, jobs, index, kafka, producer, upload, rebuild,
                   worker, crashes>>

RemoveIndex(d) ==
    /\ Delete(d, "file_removed", "index_removed")
    /\ \/ index' = [index EXCEPT ![d] = {}]
       \/ "es_delete" \in Faults /\ UNCHANGED index
    /\ UNCHANGED <<row, chunks, jobs, files, kafka, producer, upload, rebuild,
                   worker, crashes>>

\* The chunks and the document; job rows are left, and with foreign keys the
\* transaction fails if there are any.
DeleteRows(d) ==
    /\ Delete(d, "index_removed", "idle")
    /\ \/ /\ ForeignKeys => jobs[d] = {}
          /\ row' = [row EXCEPT ![d] = "deleted"]
          /\ chunks' = [chunks EXCEPT ![d] = 0]
       \/ /\ (ForeignKeys /\ jobs[d] # {}) \/ DatabaseFails
          /\ UNCHANGED <<row, chunks>>
    /\ UNCHANGED <<jobs, files, index, kafka, producer, upload, rebuild, worker, crashes>>

-----------------------------------------------------------------------------
(* consume() and DocumentProcessor.process *)

On(pc) == worker.pc = pc
WorkerGo(pc) == worker' = [worker EXCEPT !.pc = pc]

\* The consumer goes back for the next task.
Handled ==
    /\ worker' = Idle
    /\ handled' = handled \cup {position}

\* Mutant: a document that is indexed already is not processed again.
TakeSkipsIndexed ==
    /\ On("idle") /\ position < Len(topic)
    /\ position' = position + 1
    /\ LET d == topic[position + 1] IN
       \/ /\ Present(d) /\ row[d] # "indexed"
          /\ worker' = [pc |-> "loaded", doc |-> d, loaded |-> row[d]]
          /\ UNCHANGED handled
       \/ /\ ~Present(d) \/ row[d] = "indexed"
          /\ handled' = handled \cup {position + 1}
          /\ UNCHANGED worker
    /\ UNCHANGED <<stores, topic, committed, unmarked, api, crashes>>

\* The next task is taken and its document is loaded, if it still exists.
Take ==
    /\ On("idle") /\ position < Len(topic)
    /\ position' = position + 1
    /\ LET d == topic[position + 1] IN
       \/ /\ Present(d)
          /\ worker' = [pc |-> "loaded", doc |-> d, loaded |-> row[d]]
          /\ UNCHANGED handled
       \/ /\ ~Present(d)
          /\ handled' = handled \cup {position + 1}
          /\ UNCHANGED worker
       \/ /\ DatabaseFails
          /\ worker' = [pc |-> "failing", doc |-> d, loaded |-> "unread"]
          /\ UNCHANGED handled
    /\ UNCHANGED <<stores, topic, committed, unmarked, api, crashes>>

MarkParsing ==
    /\ On("loaded")
    /\ \/ /\ Updatable(worker.loaded, "parsing", worker.doc)
          /\ row' = Update(worker.loaded, "parsing", worker.doc)
          /\ WorkerGo("parsing")
       \/ /\ ~Updatable(worker.loaded, "parsing", worker.doc) \/ DatabaseFails
          /\ UNCHANGED row
          /\ WorkerGo("failing")
    /\ UNCHANGED <<chunks, jobs, files, index, kafka, api, crashes>>

\* The file is downloaded and parsed.
Parse ==
    /\ On("parsing")
    /\ \/ Content[worker.doc] \in files /\ WorkerGo("parsed")
       \/ (Content[worker.doc] \notin files \/ "parse" \in Faults) /\ WorkerGo("failing")
    /\ UNCHANGED <<stores, kafka, api, crashes>>

\* Mutant: the chunks are left to be saved after indexing.
SaveChunksLater ==
    /\ On("parsed")
    /\ WorkerGo("chunked")
    /\ UNCHANGED <<stores, kafka, api, crashes>>

\* The chunks are added to those of earlier runs.
SaveChunks ==
    /\ On("parsed")
    /\ \/ /\ Referable(worker.doc)
          /\ chunks' = [chunks EXCEPT ![worker.doc] = @ + 1]
          /\ WorkerGo("chunked")
       \/ /\ ~Referable(worker.doc) \/ DatabaseFails
          /\ UNCHANGED chunks
          /\ WorkerGo("failing")
    /\ UNCHANGED <<row, jobs, files, index, kafka, api, crashes>>

\* Mutant: the result of the bulk request is not looked at.
IndexChunksUnchecked ==
    /\ On("chunked")
    /\ \E S \in SUBSET Chunk :
          /\ S = Chunk \/ "index" \in Faults
          /\ index' = [index EXCEPT ![worker.doc] = @ \cup S]
    /\ WorkerGo("indexed")
    /\ UNCHANGED <<row, chunks, jobs, files, kafka, api, crashes>>

\* The embeddings and the bulk request, which may fail halfway.
IndexChunks ==
    /\ On("chunked")
    /\ \/ /\ index' = [index EXCEPT ![worker.doc] = Chunk]
          /\ WorkerGo("indexed")
       \/ /\ "index" \in Faults
          /\ \E S \in SUBSET Chunk : index' = [index EXCEPT ![worker.doc] = @ \cup S]
          /\ WorkerGo("failing")
    /\ UNCHANGED <<row, chunks, jobs, files, kafka, api, crashes>>

MarkIndexed ==
    /\ On("indexed")
    /\ \/ /\ Present(worker.doc)
          /\ row' = [row EXCEPT ![worker.doc] = "indexed"]
          /\ Handled
       \/ /\ ~Present(worker.doc) \/ DatabaseFails
          /\ UNCHANGED <<row, handled>>
          /\ WorkerGo("failing")
    /\ UNCHANGED <<chunks, jobs, files, index, topic, position, committed, unmarked, api,
                   crashes>>

\* Mutant: the exception is logged and the status left as it is.
MarkFailedLogOnly ==
    /\ On("failing")
    /\ Handled
    /\ UNCHANGED <<stores, topic, position, committed, unmarked, api, crashes>>

\* The exception handler, in a session of its own.  If the database fails it too,
\* process() raises: consume() logs that and goes on to the next task.
MarkFailed ==
    /\ On("failing")
    /\ \/ /\ row' = IF Present(worker.doc)
                    THEN [row EXCEPT ![worker.doc] = "failed"] ELSE row
          /\ Handled
          /\ UNCHANGED unmarked
       \/ /\ DatabaseFails
          /\ worker' = Idle
          /\ unmarked' = unmarked \cup {position}
          /\ UNCHANGED <<row, handled>>
    /\ UNCHANGED <<chunks, jobs, files, index, topic, position, committed, api, crashes>>

\* Mutant: the offset of what has been fetched is committed.
AutoCommitFetched ==
    /\ committed < position
    /\ committed' = Len(topic)
    /\ UNCHANGED <<stores, topic, position, handled, unmarked, api, worker, crashes>>

\* The consumer commits in the background the offset of what it has taken.
AutoCommit ==
    /\ committed < position
    /\ committed' = position
    /\ UNCHANGED <<stores, topic, position, handled, unmarked, api, worker, crashes>>

-----------------------------------------------------------------------------
(* Crashes; the containers restart *)

Crash(kind) ==
    /\ kind \in Faults /\ crashes < MaxCrashes
    /\ crashes' = crashes + 1

WorkerCrash ==
    /\ Crash("worker_crash")
    /\ worker' = Idle
    /\ position' = committed
    /\ handled' = handled \cap 1 .. committed
    /\ unmarked' = unmarked \cap 1 .. committed
    /\ UNCHANGED <<stores, topic, committed, api>>

\* Requests in progress are gone; the producer is started anew.
ApiCrash ==
    /\ Crash("api_crash")
    /\ producer' \in {TRUE, "kafka_down" \notin Faults}
    /\ upload' = [d \in Doc |-> IF upload[d] = "none" THEN "none" ELSE "over"]
    /\ rebuild' = [r \in Rebuild |-> IF At(r, "idle") THEN Idle ELSE [pc |-> "over"]]
    /\ delete' = [d \in Doc |-> "idle"]
    /\ UNCHANGED <<stores, kafka, worker>>

-----------------------------------------------------------------------------
UploadStep(d) == StoreFile(d) \/ SaveDocument(d) \/ SendTask(d) \/ SaveJob(d)
RebuildStep(r) == ClearIndex(r) \/ SendRebuildTask(r) \/ CommitRebuild(r)
DeleteStep(d) == RemoveFile(d) \/ RemoveIndex(d) \/ DeleteRows(d)
WorkerStep ==
    Take \/ MarkParsing \/ Parse \/ SaveChunks \/ IndexChunks \/ MarkIndexed \/ MarkFailed

Next ==
    \/ \E d \in Doc : UploadStep(d) \/ LoadForDelete(d) \/ DeleteStep(d)
    \/ \E r \in Rebuild : RebuildStep(r) \/ \E d \in Doc : LoadForRebuild(r, d)
    \/ WorkerStep
    \/ AutoCommit
    \/ WorkerCrash
    \/ ApiCrash

Spec == Init /\ [][Next]_vars

\* A request goes on once it is under way; the worker takes and handles tasks.
Fairness ==
    /\ \A d \in Doc : WF_vars(SaveDocument(d) \/ SendTask(d) \/ SaveJob(d))
    /\ \A r \in Rebuild : WF_vars(RebuildStep(r))
    /\ \A d \in Doc : WF_vars(DeleteStep(d))
    /\ WF_vars(WorkerStep)

FairSpec == Spec /\ Fairness

-----------------------------------------------------------------------------
(* Properties *)

\* A task of the document waits in the topic.
Waiting(d) == \E i \in position + 1 .. Len(topic) : topic[i] = d

\* Nothing that concerns the document is under way or waiting.
Settled(d) ==
    /\ upload[d] \in {"none", "over"}
    /\ \A r \in Rebuild : rebuild[r].pc \in {"idle", "over"} \/ rebuild[r].doc # d
    /\ delete[d] = "idle"
    /\ On("idle") \/ worker.doc # d
    /\ ~Waiting(d)

\* A settled document marked INDEXED has every chunk in Elasticsearch, however
\* rebuild requests, which clear the index, and runs of the worker interleave.
IndexedIsSearchable ==
    \A d \in Doc : Settled(d) /\ row[d] = "indexed" => index[d] = Chunk

\* Chunks of an existing document are searchable only if its chunk rows were
\* saved: process() commits them before it indexes.
IndexHasRows ==
    \A d \in Doc : Present(d) /\ index[d] # {} => chunks[d] > 0

\* A document marked PARSING has a task that process() has not returned from, and
\* has returned from none after it: the task waits, is in hand, will be delivered
\* again, was lost with a crash, or its failure could not be written because the
\* database failed the handler as well (unmarked).  Nothing else leaves a document
\* PARSING, and the next run of the worker for it that returns ends that.
ParsingHasTask ==
    \A d \in Doc : row[d] = "parsing" =>
        \E i \in (1 .. Len(topic)) \ handled :
            /\ topic[i] = d
            /\ \A j \in handled : topic[j] = d => j < i

\* The tasks taken that process() has not ended for and is not working on.
InHand == IF On("idle") THEN {} ELSE {position}
Lost == (1 .. position) \ (handled \cup unmarked \cup InHand)

\* Offsets are committed in the background, so a crash of the worker may lose a
\* task it has taken, but no more than one.
CrashLosesOneTask == Cardinality(Lost) <= crashes

\* The inductive invariant behind IndexHasRows and ParsingHasTask: the worker is on
\* the task at its position, for a document that had a row when it was loaded.
WorkerInv ==
    ~On("idle") =>
        /\ position > 0
        /\ position \notin handled
        /\ worker.doc = topic[position]
        /\ On("failing") \/ row[worker.doc] # "absent"
        /\ On("chunked") \/ On("indexed") =>
              (Present(worker.doc) => chunks[worker.doc] > 0)

FreshInv ==
    \A d \in Doc :
        /\ upload[d] \in {"none", "stored"} => row[d] = "absent"
        /\ row[d] = "absent" => index[d] = {} /\ delete[d] = "idle"

IInv == TypeOK /\ WorkerInv /\ FreshInv /\ IndexHasRows /\ ParsingHasTask

(***************************************************************************)
(* What IndexedIsSearchable rests on, on top of IInv, where processes, Kafka *)
(* and the database do not fail: a document that is or will next be marked   *)
(* INDEXED has all its chunks, or something under way will see to them.      *)
(***************************************************************************)
Served(d) ==
    \/ index[d] = Chunk
    \/ \E r \in Rebuild : At(r, "cleared") /\ rebuild[r].doc = d
    \/ delete[d] # "idle"
    \/ Waiting(d)
    \/ ~On("idle") /\ ~On("indexed") /\ worker.doc = d

ServedInv ==
    /\ producer
    /\ \A d \in Doc : delete[d] # "idle" => d \in Deletable
    /\ \A d \in Doc :
          Present(d) /\ (row[d] = "indexed" \/ (On("indexed") /\ worker.doc = d)) => Served(d)

\* A document whose row is saved is eventually marked INDEXED or FAILED, unless
\* it is deleted.
UploadsSettle ==
    \A d \in Doc : upload[d] = "saved" ~> row[d] \in {"indexed", "failed", "deleted"}

\* A rebuild that has cleared the index is followed by a run of the worker that
\* fills it again or marks the document FAILED, even if the worker is done before
\* the request commits.
RebuildServed ==
    \A r \in Rebuild, d \in Doc :
        At(r, "cleared") /\ rebuild[r].doc = d
            ~> index[d] = Chunk \/ row[d] \in {"failed", "deleted"}

\* "The worker will update it to INDEXED/FAILED": a document does not stay
\* PENDING with nothing left to process it.
PendingIsServed ==
    \A d \in Doc : Settled(d) /\ upload[d] = "over" => row[d] # "pending"
=============================================================================
