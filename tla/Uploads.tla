------------------------------ MODULE Uploads ------------------------------
(***************************************************************************)
(* The second way into the knowledge base: endpoints/files.py stores a file *)
(* through FileUploadService (services/file_service.py), whole or in chunks *)
(* that may be sent again, and a task of the API process parses it          *)
(* (DocumentParser.process_document) and indexes it                         *)
(* (KnowledgeService.build_knowledge_base).                                 *)
(*                                                                          *)
(* One file is uploaded, so there is one directory of chunks.  Between the  *)
(* write of a chunk and the first query of upload_file the event loop does  *)
(* not run anything else: writing, checking and merging are one step.       *)
(* A document is named after the request that made it.                      *)
(***************************************************************************)
EXTENDS Naturals, FiniteSets

CONSTANTS
    Request,   \* requests that upload the file or a chunk of it
    Chunks,    \* total_chunks
    MaxCrashes \* bound on restarts of the API process

UploadsAssumption == Chunks \in Nat \ {0} /\ MaxCrashes \in Nat

VARIABLES
    pc,      \* where each request is
    dir,     \* chunks in UPLOAD_TEMP_DIR/<file_hash>
    merging, \* requests that found all the chunks and merged them
    object,  \* documents whose file is in MinIO
    status,  \* status of each document's row, or "none"
    rows,    \* documents with rows of their chunks
    index,   \* documents with entries in Elasticsearch
    task,    \* what the task of each document is about to do
    sent,    \* chunks that were sent so far (history)
    resent,  \* some chunk was sent again (history)
    dropped, \* documents whose task ended without writing a status (history)
    crashes

upload == <<pc, dir, merging, object>>
document == <<status, rows, index, task>>
history == <<sent, resent, dropped>>
vars == <<upload, document, history, crashes>>

Chunk == 0 .. Chunks - 1
Active == {r \in Request : pc[r] \in {"query", "store", "refresh"}}

TypeOK ==
    /\ pc \in [Request -> {"idle", "query", "store", "refresh", "received", "completed", "error"}]
    /\ dir \subseteq Chunk /\ sent \subseteq Chunk
    /\ merging \subseteq Request /\ object \subseteq Request
    /\ status \in [Request -> {"none", "uploaded", "parsing", "parsed", "indexed", "failed", "deleted"}]
    /\ rows \subseteq Request /\ index \subseteq Request
    /\ task \in [Request -> {"none", "load", "parse", "build", "mark"}]
    /\ resent \in BOOLEAN
    /\ dropped \subseteq Request
    /\ crashes \in 0 .. MaxCrashes

Init ==
    /\ pc = [r \in Request |-> "idle"]
    /\ dir = {} /\ merging = {} /\ object = {}
    /\ status = [r \in Request |-> "none"]
    /\ rows = {} /\ index = {}
    /\ task = [r \in Request |-> "none"]
    /\ sent = {} /\ resent = FALSE /\ dropped = {}
    /\ crashes = 0

Goto(r, place) == pc' = [pc EXCEPT ![r] = place]
Become(d, st) == status' = [status EXCEPT ![d] = st]
Then(d, step) == task' = [task EXCEPT ![d] = step]

---------------------------------------------------------------------------
(* The upload.                                                             *)

\* POST /files/upload: the file is read and validated.
SendFile(r) ==
    /\ pc[r] = "idle"
    /\ Goto(r, "query")
    /\ UNCHANGED <<dir, merging, object, document, history, crashes>>

\* Mutant: the last chunk is not looked for.
AllChunksButLast(present) == Chunk \ {Chunks - 1} \subseteq present

\* _check_all_chunks_uploaded
AllChunks(present) == present = Chunk

\* The chunks become one file, which is read and validated like one that was sent whole.
MergeChunks(r) == merging' = merging \cup {r} /\ Goto(r, "query")

\* POST /files/upload-chunk: the chunk is written over an older one, and when none
\* is missing they are merged.
SendChunk(r, i) ==
    /\ pc[r] = "idle"
    /\ dir' = dir \cup {i}
    /\ IF AllChunks(dir')
       THEN MergeChunks(r)
       ELSE UNCHANGED merging /\ Goto(r, "received")
    /\ sent' = sent \cup {i}
    /\ resent' = (resent \/ i \in sent)
    /\ UNCHANGED <<object, document, dropped, crashes>>

\* The query whose result is not used is over: the file goes to MinIO.
StoreObject(r) ==
    /\ pc[r] = "query"
    /\ object' = object \cup {r}
    /\ Goto(r, "store")
    /\ UNCHANGED <<dir, merging, document, history, crashes>>

CommitDocument(r) ==
    /\ pc[r] = "store"
    /\ Become(r, "uploaded")
    /\ Goto(r, "refresh")
    /\ UNCHANGED <<dir, merging, object, rows, index, task, history, crashes>>

\* The directory goes with its chunks and the merged file.
CleanupTempFiles(r) == dir' = IF r \in merging THEN {} ELSE dir

\* The row is read again, its task started, and the chunks are removed.
Complete(r) ==
    /\ pc[r] = "refresh"
    /\ status[r] # "deleted"
    /\ Then(r, "load")
    /\ CleanupTempFiles(r)
    /\ Goto(r, "completed")
    /\ UNCHANGED <<merging, object, status, rows, index, history, crashes>>

\* MinIO or the database fails, or the row is gone: chunks, object and row stay.
FailUpload(r) ==
    /\ r \in Active
    /\ Goto(r, "error")
    /\ UNCHANGED <<dir, merging, object, document, history, crashes>>

---------------------------------------------------------------------------
(* _process_document_async.                                                *)

\* The database fails the task: the outer exception handler logs that and ends it.
GiveUp(d) ==
    /\ Then(d, "none")
    /\ dropped' = dropped \cup {d}
    /\ UNCHANGED status

\* process_document: the status is committed before the file is fetched.
StartParsing(d) ==
    /\ task[d] = "load"
    /\ \/ status[d] = "deleted" /\ Then(d, "none") /\ UNCHANGED <<status, dropped>>
       \/ status[d] # "deleted" /\ Become(d, "parsing") /\ Then(d, "parse") /\ UNCHANGED dropped
       \/ GiveUp(d)
    /\ UNCHANGED <<upload, rows, index, sent, resent, crashes>>

\* Chunk rows and status in one transaction; a row that was deleted meanwhile, or
\* a file that cannot be parsed, ends the task.  The database may fail the inner
\* exception handler too.
Parse(d) ==
    /\ task[d] = "parse"
    /\ \/ /\ status[d] # "deleted"
          /\ Become(d, "parsed") /\ rows' = rows \cup {d} /\ Then(d, "build")
          /\ UNCHANGED dropped
       \/ /\ status' = IF status[d] = "deleted" THEN status ELSE [status EXCEPT ![d] = "failed"]
          /\ Then(d, "none") /\ UNCHANGED <<rows, dropped>>
       \/ GiveUp(d) /\ UNCHANGED rows
    /\ UNCHANGED <<upload, index, sent, resent, crashes>>

\* Chunk after chunk goes to Elasticsearch.  Without rows, or after an error, the
\* build ends and the status stays.
BuildIndex(d) ==
    /\ task[d] = "build"
    /\ \/ d \in rows /\ index' = index \cup {d} /\ Then(d, "mark")
       \/ index' \in {index, IF d \in rows THEN index \cup {d} ELSE index} /\ Then(d, "none")
    /\ UNCHANGED <<upload, status, rows, history, crashes>>

\* If the database fails here, the status stays as it does after a failed build.
MarkIndexed(d) ==
    /\ task[d] = "mark"
    /\ \/ status[d] # "deleted" /\ Become(d, "indexed")
       \/ UNCHANGED status
    /\ Then(d, "none")
    /\ UNCHANGED <<upload, rows, index, history, crashes>>

\* DELETE /files/{id}: the rows go.  The object is looked for under the last part of
\* its path, where it is not, and Elasticsearch is not asked.
DeleteDocument(d) ==
    /\ status[d] \notin {"none", "deleted"}
    /\ Become(d, "deleted")
    /\ rows' = rows \ {d}
    /\ UNCHANGED <<upload, index, task, history, crashes>>

\* The API process restarts: requests and tasks are gone, the directory is not.
Crash ==
    /\ crashes < MaxCrashes
    /\ crashes' = crashes + 1
    /\ pc' = [r \in Request |-> IF r \in Active THEN "error" ELSE pc[r]]
    /\ task' = [d \in Request |-> "none"]
    /\ dropped' = dropped \cup {d \in Request : task[d] # "none"}
    /\ UNCHANGED <<dir, merging, object, status, rows, index, sent, resent>>

\* _process_document_async: the index is built only for a document that was parsed.
ProcessDocument(d) == StartParsing(d) \/ Parse(d) \/ BuildIndex(d) \/ MarkIndexed(d)

Next ==
    \/ \E r \in Request :
          \/ SendFile(r)
          \/ \E i \in Chunk : SendChunk(r, i)
          \/ StoreObject(r) \/ CommitDocument(r) \/ Complete(r) \/ FailUpload(r)
    \/ \E d \in Request : ProcessDocument(d) \/ DeleteDocument(d)
    \/ Crash

Spec == Init /\ [][Next]_vars

---------------------------------------------------------------------------
(* Properties.                                                             *)

\* Chunks that are each sent once are merged once at most, in whatever order they
\* arrive; and once all were sent none is lost before the file is stored: the file
\* is complete, or every chunk is there for a chunk sent again to try once more.
ChunksServeOnce ==
    /\ ~resent => Cardinality(merging) <= 1
    /\ sent = Chunk => dir = Chunk \/ \E r \in merging : pc[r] = "completed"

\* A document that says it is being processed is looked after, by its upload or by a
\* task, or one of three things happened to it: its upload was answered with an
\* error or cut off, its task was cut off by a restart, or the database failed its
\* task (dropped).  A file that cannot be parsed, a delete, the tasks of other
\* documents and a restart before or after its task never leave it so.
ProcessingIsAttended ==
    \A d \in Request : status[d] \in {"uploaded", "parsing"} =>
        d \in Active \/ task[d] # "none" \/ pc[d] = "error" \/ d \in dropped

UploadsAreServed == ChunksServeOnce /\ ProcessingIsAttended

(***************************************************************************)
(* The inductive invariant: chunks that were sent are there until a merged   *)
(* file is stored; only a chunk sent again can complete the set twice; a     *)
(* task belongs to an upload that completed, and one that got beyond parsing *)
(* has changed the status.                                                   *)
(***************************************************************************)
ChunkInv ==
    /\ dir = sent \/ \E r \in merging : pc[r] = "completed"
    /\ merging # {} => sent = Chunk
    /\ ~resent => \A r, q \in merging : r = q

TaskInv ==
    \A d \in Request :
        /\ task[d] # "none" => pc[d] = "completed"
        /\ task[d] \in {"build", "mark"} => status[d] \notin {"uploaded", "parsing"}

IInv == TypeOK /\ ChunkInv /\ TaskInv /\ ProcessingIsAttended
=============================================================================
