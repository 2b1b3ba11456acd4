--------------------------- MODULE IngestionProofs ---------------------------
(***************************************************************************)
(* Theorems about Ingestion, for any number of documents, rebuild requests  *)
(* and chunks, and for every choice of what may fail: the inductive         *)
(* invariant IInv, how many tasks a crash loses, and that the tasks keep     *)
(* indexed documents searchable.                                            *)
(***************************************************************************)
EXTENDS Ingestion, TLAPS, FiniteSetTheorems

LEMMA InitInv == Init => IInv
<1> SUFFICES ASSUME Init PROVE IInv
  OBVIOUS
<1>1. TypeOK
  <2>1. producer \in BOOLEAN
    BY Zenon DEF Init
  <2>2. /\ topic \in Seq(Doc) /\ position \in 0 .. Len(topic)
        /\ committed \in 0 .. position /\ handled \subseteq 1 .. position
        /\ unmarked \subseteq 1 .. position
    BY DEF Init
  <2>3. crashes \in 0 .. MaxCrashes /\ worker = Idle
    BY IngestionAssumption DEF Init
  <2>4. /\ row \in [Doc -> DocStatus \cup {"absent", "deleted"}]
        /\ chunks \in [Doc -> Nat]
        /\ jobs \in [Doc -> SUBSET {"queued", "failed"}]
        /\ files = {}
        /\ index \in [Doc -> SUBSET Chunk]
    BY DEF Init
  <2>5. /\ upload \in [Doc -> {"none"}]
        /\ delete \in [Doc -> {"idle"}]
        /\ rebuild \in [Rebuild -> {Idle}]
    BY DEF Init
  <2> QED BY <2>1, <2>2, <2>3, <2>4, <2>5 DEF TypeOK
<1>2. WorkerInv
  BY DEF Init, WorkerInv, On, Idle
<1>3. FreshInv /\ IndexHasRows
  BY DEF Init, FreshInv, IndexHasRows
<1>4. ParsingHasTask
  BY DEF Init, ParsingHasTask
<1> QED BY <1>1, <1>2, <1>3, <1>4 DEF IInv

-----------------------------------------------------------------------------
(* Types, action by action *)

\* send_message appends a task or leaves the topic alone.
LEMMA SendType ==
    ASSUME topic \in Seq(Doc), NEW d \in Doc, NEW pc, Send(d, pc)
    PROVE  /\ topic' \in Seq(Doc)
           /\ Len(topic') \in {Len(topic), Len(topic) + 1}
           /\ \A i \in 1 .. Len(topic) : topic'[i] = topic[i]
  BY DEF Send

LEMMA UploadType ==
    ASSUME TypeOK, NEW d \in Doc, UploadStep(d)
    PROVE  TypeOK'
<1>1. CASE StoreFile(d)
  BY <1>1 DEF StoreFile, Upload, TypeOK, kafka
<1>2. CASE SaveDocument(d)
  BY <1>2 DEF SaveDocument, Upload, TypeOK, kafka, DocStatus
<1>3. CASE SendTask(d)
  <2>1. topic' \in Seq(Doc) /\ Len(topic') \in {Len(topic), Len(topic) + 1}
    BY <1>3, SendType DEF SendTask, TypeOK
  <2>2. upload' \in [Doc -> {"none", "stored", "saved", "sent", "send_failed", "over"}]
    BY <1>3 DEF SendTask, Upload, TypeOK
  <2>3. position \in 0 .. Len(topic')
    BY <2>1 DEF TypeOK
  <2>4. UNCHANGED <<stores, position, committed, handled, unmarked, producer, rebuild,
                    delete, worker, crashes>>
    BY <1>3 DEF SendTask
  <2> QED BY <2>1, <2>2, <2>3, <2>4 DEF TypeOK, stores
<1>4. CASE SaveJob(d)
  <2>1. upload' \in [Doc -> {"none", "stored", "saved", "sent", "send_failed", "over"}]
    <3>1. upload' = [upload EXCEPT ![d] = "over"]
      BY <1>4 DEF SaveJob, Upload
    <3> QED BY <3>1 DEF TypeOK
  <2>2. jobs' \in [Doc -> SUBSET {"queued", "failed"}]
    <3>1. \/ \E st \in {"queued", "failed"} : jobs' = [jobs EXCEPT ![d] = jobs[d] \cup {st}]
          \/ jobs' = jobs
      BY <1>4 DEF SaveJob
    <3>2. jobs \in [Doc -> SUBSET {"queued", "failed"}]
      BY DEF TypeOK
    <3> QED BY <3>1, <3>2
  <2>3. UNCHANGED <<row, chunks, files, index, kafka, producer, rebuild, delete,
                    worker, crashes>>
    BY <1>4 DEF SaveJob
  <2> QED BY <2>1, <2>2, <2>3 DEF TypeOK, kafka
<1> QED BY <1>1, <1>2, <1>3, <1>4 DEF UploadStep

\* Where a rebuild request is, a record of its own for every step but the first
\* and the last.
LEMMA RebuildAt ==
    ASSUME TypeOK, NEW r \in Rebuild, ~At(r, "idle"), ~At(r, "over")
    PROVE  /\ rebuild[r] \in [pc : {"loaded", "cleared", "sent", "send_failed"},
                              doc : Doc, loaded : DocStatus]
           /\ \A pc \in {"loaded", "cleared", "sent", "send_failed"} :
                 [rebuild[r] EXCEPT !.pc = pc] \in
                    [pc : {"loaded", "cleared", "sent", "send_failed"},
                     doc : Doc, loaded : DocStatus]
<1>1. rebuild[r] \in {Idle, [pc |-> "over"]} \cup
          [pc : {"loaded", "cleared", "sent", "send_failed"}, doc : Doc, loaded : DocStatus]
  BY DEF TypeOK
<1>2. rebuild[r] # Idle /\ rebuild[r] # [pc |-> "over"]
  BY DEF At, Idle
<1> QED BY <1>1, <1>2

LEMMA RebuildType ==
    ASSUME TypeOK, NEW r \in Rebuild,
           RebuildStep(r) \/ \E d \in Doc : LoadForRebuild(r, d)
    PROVE  TypeOK'
<1> DEFINE Record == [pc : {"loaded", "cleared", "sent", "send_failed"},
                      doc : Doc, loaded : DocStatus]
           Value == {Idle, [pc |-> "over"]} \cup Record
<1>1. rebuild \in [Rebuild -> Value]
  BY DEF TypeOK
<1>2. ASSUME NEW pc \in {"loaded", "cleared", "sent", "send_failed"},
             Go(r, pc), ~At(r, "idle"), ~At(r, "over")
      PROVE  rebuild' \in [Rebuild -> Value]
  BY <1>1, <1>2, RebuildAt DEF Go
<1>3. ASSUME Over(r)
      PROVE  rebuild' \in [Rebuild -> Value]
  BY <1>1, <1>3 DEF Over
<1>4. ASSUME NEW d \in Doc, LoadForRebuild(r, d)
      PROVE  TypeOK'
  <2>1. [pc |-> "loaded", doc |-> d, loaded |-> row[d]] \in Record
    BY <1>4 DEF LoadForRebuild, Present
  <2>2. rebuild' \in [Rebuild -> Value]
    BY <1>1, <1>4, <2>1 DEF LoadForRebuild
  <2> QED BY <1>4, <2>2 DEF LoadForRebuild, TypeOK, stores, kafka
<1>5. CASE ClearIndex(r)
  <2>1. rebuild' \in [Rebuild -> Value]
    BY <1>2, <1>5 DEF ClearIndex, At
  <2>2. index' \in [Doc -> SUBSET Chunk]
    BY <1>5 DEF ClearIndex, TypeOK
  <2> QED BY <1>5, <2>1, <2>2 DEF ClearIndex, TypeOK, kafka
<1>6. CASE SendRebuildTask(r)
  <2>1. rebuild' \in [Rebuild -> Value]
    BY <1>2, <1>6 DEF SendRebuildTask, At
  <2>2. rebuild[r].doc \in Doc
    BY <1>6, RebuildAt DEF SendRebuildTask, At
  <2>3. topic' \in Seq(Doc) /\ Len(topic') \in {Len(topic), Len(topic) + 1}
    BY <1>6, <2>2, SendType DEF SendRebuildTask, TypeOK
  <2>4. position \in 0 .. Len(topic')
    BY <2>3 DEF TypeOK
  <2>5. UNCHANGED <<stores, position, committed, handled, unmarked, producer, upload,
                    delete, worker, crashes>>
    BY <1>6 DEF SendRebuildTask
  <2> QED BY <2>1, <2>3, <2>4, <2>5 DEF TypeOK, stores
<1>7. CASE CommitRebuild(r)
  <2>1. rebuild' \in [Rebuild -> Value]
    BY <1>3, <1>7 DEF CommitRebuild
  <2>2. row' \in [Doc -> DocStatus \cup {"absent", "deleted"}]
    BY <1>7 DEF CommitRebuild, Update, TypeOK, DocStatus
  <2>3. jobs' \in [Doc -> SUBSET {"queued", "failed"}]
    BY <1>7 DEF CommitRebuild, TypeOK
  <2> QED BY <1>7, <2>1, <2>2, <2>3 DEF CommitRebuild, TypeOK, kafka
<1> QED BY <1>4, <1>5, <1>6, <1>7 DEF RebuildStep

LEMMA DeleteType ==
    ASSUME TypeOK, NEW d \in Doc, DeleteStep(d) \/ LoadForDelete(d)
    PROVE  TypeOK'
<1>1. CASE LoadForDelete(d)
  BY <1>1 DEF LoadForDelete, Delete, TypeOK, stores, kafka
<1>2. CASE RemoveFile(d)
  BY <1>2 DEF RemoveFile, Delete, TypeOK, kafka
<1>3. CASE RemoveIndex(d)
  BY <1>3 DEF RemoveIndex, Delete, TypeOK, kafka
<1>4. CASE DeleteRows(d)
  <2>1. /\ row' \in [Doc -> DocStatus \cup {"absent", "deleted"}]
        /\ chunks' \in [Doc -> Nat]
    <3>1. \/ UNCHANGED <<row, chunks>>
          \/ /\ row' = [row EXCEPT ![d] = "deleted"]
             /\ chunks' = [chunks EXCEPT ![d] = 0]
      BY <1>4, Zenon DEF DeleteRows
    <3>2. row \in [Doc -> DocStatus \cup {"absent", "deleted"}] /\ chunks \in [Doc -> Nat]
      BY DEF TypeOK
    <3> QED BY <3>1, <3>2
  <2>2. delete' \in [Doc -> {"idle", "loaded", "file_removed", "index_removed"}]
    BY <1>4 DEF DeleteRows, Delete, TypeOK
  <2>3. UNCHANGED <<jobs, files, index, kafka, producer, upload, rebuild, worker, crashes>>
    BY <1>4 DEF DeleteRows
  <2> QED BY <2>1, <2>2, <2>3 DEF TypeOK, kafka
<1> QED BY <1>1, <1>2, <1>3, <1>4 DEF DeleteStep

LEMMA WorkerAt ==
    ASSUME TypeOK, ~On("idle")
    PROVE  /\ worker \in [pc : {"loaded", "parsing", "parsed", "chunked", "indexed", "failing"},
                          doc : Doc, loaded : DocStatus \cup {"unread"}]
           /\ \A pc \in {"loaded", "parsing", "parsed", "chunked", "indexed", "failing"} :
                 [worker EXCEPT !.pc = pc] \in
                    [pc : {"loaded", "parsing", "parsed", "chunked", "indexed", "failing"},
                     doc : Doc, loaded : DocStatus \cup {"unread"}]
<1>1. worker # Idle
  BY DEF On, Idle
<1> QED BY <1>1 DEF TypeOK

LEMMA WorkerType ==
    ASSUME TypeOK, WorkerInv, WorkerStep
    PROVE  TypeOK'
<1> DEFINE Record == [pc : {"loaded", "parsing", "parsed", "chunked", "indexed", "failing"},
                      doc : Doc, loaded : DocStatus \cup {"unread"}]
<1>1. ASSUME NEW pc \in {"loaded", "parsing", "parsed", "chunked", "indexed", "failing"},
             WorkerGo(pc), ~On("idle")
      PROVE  worker' \in {Idle} \cup Record
  BY <1>1, WorkerAt DEF WorkerGo
<1>2. ~On("idle") => worker \in Record /\ worker.doc \in Doc
  BY WorkerAt
<1>3. ASSUME Handled, ~On("idle")
      PROVE  worker' \in {Idle} \cup Record /\ handled' \subseteq 1 .. position
  <2>1. worker' = Idle /\ handled' = handled \cup {position}
    BY <1>3 DEF Handled
  <2>2. position \in Nat /\ position > 0
    <3>1. position \in Nat
      BY DEF TypeOK
    <3>2. position > 0
      BY <1>3, <3>1 DEF WorkerInv
    <3> QED BY <3>1, <3>2
  <2>3. handled \subseteq 1 .. position
    BY DEF TypeOK
  <2>4. handled' \subseteq 1 .. position
    BY <2>1, <2>2, <2>3
  <2> QED BY <2>1, <2>4
<1>4. CASE Take
  <2> DEFINE d == topic[position + 1]
  <2>1. /\ d \in Doc /\ position' = position + 1 /\ position' \in 0 .. Len(topic)
        /\ committed \in 0 .. position' /\ handled \subseteq 1 .. position'
        /\ unmarked \subseteq 1 .. position'
    BY <1>4 DEF Take, TypeOK
  <2>2. UNCHANGED <<stores, topic, committed, unmarked, api, crashes>>
    BY <1>4 DEF Take
  <2>3. CASE /\ \/ Present(d) /\ worker' = [pc |-> "loaded", doc |-> d, loaded |-> row[d]]
                \/ worker' = [pc |-> "failing", doc |-> d, loaded |-> "unread"]
             /\ UNCHANGED handled
    <3>1. worker' \in Record
      BY <2>1, <2>3 DEF Present
    <3> QED BY <2>1, <2>2, <2>3, <3>1 DEF TypeOK, stores, api
  <2>4. CASE handled' = handled \cup {position + 1} /\ UNCHANGED worker
    <3>1. handled' \subseteq 1 .. position'
      BY <2>1, <2>4 DEF TypeOK
    <3> QED BY <2>1, <2>2, <2>4, <3>1 DEF TypeOK, stores, api
  <2> QED BY <1>4, <2>3, <2>4 DEF Take
<1>5. CASE MarkParsing
  <2>1. worker' \in {Idle} \cup Record
    BY <1>1, <1>5 DEF MarkParsing, On
  <2>2. row' \in [Doc -> DocStatus \cup {"absent", "deleted"}]
    BY <1>5 DEF MarkParsing, Update, TypeOK, DocStatus
  <2> QED BY <1>5, <2>1, <2>2 DEF MarkParsing, TypeOK, kafka, api
<1>6. CASE Parse
  <2>1. worker' \in {Idle} \cup Record
    BY <1>1, <1>6 DEF Parse, On
  <2>2. UNCHANGED <<stores, kafka, api, crashes>>
    BY <1>6 DEF Parse
  <2> QED BY <2>1, <2>2 DEF TypeOK, stores, kafka, api
<1>7. CASE SaveChunks
  <2>1. worker' \in {Idle} \cup Record
    BY <1>1, <1>7 DEF SaveChunks, On
  <2>2. chunks' \in [Doc -> Nat]
    BY <1>7 DEF SaveChunks, TypeOK
  <2> QED BY <1>7, <2>1, <2>2 DEF SaveChunks, TypeOK, kafka, api
<1>8. CASE IndexChunks
  <2>1. worker' \in {Idle} \cup Record
    BY <1>1, <1>8 DEF IndexChunks, On
  <2>2. index' \in [Doc -> SUBSET Chunk]
    <3>1. worker.doc \in Doc /\ index \in [Doc -> SUBSET Chunk]
      BY <1>2, <1>8 DEF IndexChunks, On, TypeOK
    <3>2. \/ index' = [index EXCEPT ![worker.doc] = Chunk]
          \/ \E S \in SUBSET Chunk :
                index' = [index EXCEPT ![worker.doc] = index[worker.doc] \cup S]
      BY <1>8 DEF IndexChunks
    <3> QED BY <3>1, <3>2
  <2>3. UNCHANGED <<row, chunks, jobs, files, kafka, api, crashes>>
    BY <1>8 DEF IndexChunks
  <2> QED BY <2>1, <2>2, <2>3 DEF TypeOK, kafka, api
<1>9. CASE MarkIndexed
  <2>1. worker' \in {Idle} \cup Record
    BY <1>1, <1>3, <1>9 DEF MarkIndexed, On
  <2>2. handled' \subseteq 1 .. position
    BY <1>3, <1>9 DEF MarkIndexed, On, TypeOK
  <2>3. row' \in [Doc -> DocStatus \cup {"absent", "deleted"}]
    BY <1>9 DEF MarkIndexed, TypeOK, DocStatus
  <2> QED BY <1>9, <2>1, <2>2, <2>3 DEF MarkIndexed, TypeOK, api
<1>10. CASE MarkFailed
  <2>1. /\ worker' \in {Idle} \cup Record
        /\ handled' \subseteq 1 .. position /\ unmarked' \subseteq 1 .. position
    <3>1. ~On("idle") /\ handled \subseteq 1 .. position /\ unmarked \subseteq 1 .. position
          /\ position \in Nat
      BY <1>10 DEF MarkFailed, On, TypeOK
    <3>2. position > 0
      BY <3>1 DEF WorkerInv
    <3>3. CASE Handled /\ UNCHANGED unmarked
      BY <1>3, <3>1, <3>3
    <3>4. CASE worker' = Idle /\ unmarked' = unmarked \cup {position} /\ UNCHANGED handled
      BY <3>1, <3>2, <3>4
    <3> QED BY <1>10, <3>3, <3>4 DEF MarkFailed
  <2>2. row' \in [Doc -> DocStatus \cup {"absent", "deleted"}]
    BY <1>10 DEF MarkFailed, TypeOK, DocStatus
  <2> QED BY <1>10, <2>1, <2>2 DEF MarkFailed, TypeOK, api
<1> QED BY <1>4, <1>5, <1>6, <1>7, <1>8, <1>9, <1>10 DEF WorkerStep

LEMMA CrashType ==
    ASSUME TypeOK, AutoCommit \/ WorkerCrash \/ ApiCrash
    PROVE  TypeOK'
<1>1. CASE AutoCommit
  BY <1>1 DEF AutoCommit, TypeOK, stores, api
<1>2. CASE WorkerCrash
  <2>1. /\ position' = committed /\ handled' \subseteq 1 .. committed
        /\ unmarked' \subseteq 1 .. committed
        /\ worker' = Idle /\ UNCHANGED <<stores, topic, committed, api>>
    BY <1>2 DEF WorkerCrash
  <2>2. crashes' \in 0 .. MaxCrashes
    BY <1>2, IngestionAssumption DEF WorkerCrash, Crash, TypeOK
  <2>3. committed \in 0 .. Len(topic) /\ committed \in 0 .. committed
    BY DEF TypeOK
  <2> QED BY <2>1, <2>2, <2>3 DEF TypeOK, stores, api
<1>3. CASE ApiCrash
  <2>1. producer' \in BOOLEAN
    BY <1>3, Zenon DEF ApiCrash
  <2>2. crashes' \in 0 .. MaxCrashes
    BY <1>3, IngestionAssumption DEF ApiCrash, Crash, TypeOK
  <2>3. /\ upload' = [d \in Doc |-> IF upload[d] = "none" THEN "none" ELSE "over"]
        /\ rebuild' = [r \in Rebuild |-> IF At(r, "idle") THEN Idle ELSE [pc |-> "over"]]
        /\ delete' = [d \in Doc |-> "idle"]
        /\ UNCHANGED <<stores, kafka, worker>>
    BY <1>3 DEF ApiCrash
  <2> QED BY <2>1, <2>2, <2>3 DEF TypeOK, stores, kafka
<1> QED BY <1>1, <1>2, <1>3

LEMMA NextType ==
    ASSUME TypeOK, WorkerInv, [Next]_vars
    PROVE  TypeOK'
<1>1. CASE \E d \in Doc : UploadStep(d)
  BY <1>1, UploadType
<1>2. CASE \E d \in Doc : DeleteStep(d) \/ LoadForDelete(d)
  BY <1>2, DeleteType
<1>3. CASE \E r \in Rebuild : RebuildStep(r) \/ \E d \in Doc : LoadForRebuild(r, d)
  BY <1>3, RebuildType
<1>4. CASE WorkerStep
  BY <1>4, WorkerType
<1>5. CASE AutoCommit \/ WorkerCrash \/ ApiCrash
  BY <1>5, CrashType
<1>6. CASE UNCHANGED vars
  BY <1>6 DEF vars, stores, kafka, api, TypeOK
<1> QED BY <1>1, <1>2, <1>3, <1>4, <1>5, <1>6 DEF Next

-----------------------------------------------------------------------------
(* The rest of the invariant.  Requests and crashes on the one hand, which      *)
(* leave the worker on its task or without one, the worker on the other.        *)

\* What a step of the API does to the stores: it neither takes the row of a
\* document away unless it deletes its chunk rows with it, nor marks a document
\* PARSING, nor adds to the index.
ApiStep ==
    /\ UNCHANGED <<position, handled, worker>>
    /\ \A i \in 1 .. Len(topic) : topic'[i] = topic[i]
    /\ Len(topic') >= Len(topic)
    /\ \A d \in Doc :
          /\ row[d] # "absent" => row'[d] # "absent"
          /\ row'[d] = "absent" =>
                row[d] = "absent" /\ (delete[d] = "idle" => delete'[d] = "idle")
          /\ row'[d] = "parsing" => row[d] = "parsing"
          /\ row'[d] \in DocStatus =>
                \/ row[d] = "absent" /\ row'[d] = "pending"
                \/ row[d] \in DocStatus /\ chunks'[d] = chunks[d]
          /\ index'[d] \in {index[d], {}}
          /\ upload'[d] \in {"none", "stored"} =>
                upload[d] \in {"none", "stored"} /\ row'[d] = row[d]

LEMMA ApiStepInv ==
    ASSUME IInv, TypeOK', ApiStep
    PROVE  IInv'
<1> USE DEF IInv
<1>1. WorkerInv'
  <2> SUFFICES ASSUME ~On("idle")'
               PROVE  WorkerInv'
    BY DEF WorkerInv
  <2>1. ~On("idle") /\ worker' = worker
    BY DEF ApiStep, On
  <2>2. worker.doc \in Doc
    BY <2>1, WorkerAt
  <2>3. position \in 1 .. Len(topic)
    BY <2>1 DEF WorkerInv, TypeOK
  <2>4. topic'[position] = topic[position]
    BY <2>3 DEF ApiStep
  <2>5. On("failing") \/ row'[worker.doc] # "absent"
    BY <2>1, <2>2 DEF ApiStep, WorkerInv
  <2>6. On("failing") \/ (Present(worker.doc)' =>
                            Present(worker.doc) /\ chunks'[worker.doc] = chunks[worker.doc])
    BY <2>1, <2>2 DEF ApiStep, WorkerInv, Present
  <2> QED BY <2>1, <2>4, <2>5, <2>6 DEF ApiStep, WorkerInv, On, Present
<1>2. FreshInv'
  BY DEF ApiStep, FreshInv
<1>3. IndexHasRows'
  BY DEF ApiStep, FreshInv, IndexHasRows, Present
<1>4. ParsingHasTask'
  <2> SUFFICES ASSUME NEW d \in Doc, row'[d] = "parsing"
               PROVE  \E i \in (1 .. Len(topic')) \ handled' :
                         /\ topic'[i] = d
                         /\ \A j \in handled' : topic'[j] = d => j < i
    BY DEF ParsingHasTask
  <2>1. PICK i \in (1 .. Len(topic)) \ handled :
                /\ topic[i] = d
                /\ \A j \in handled : topic[j] = d => j < i
    BY DEF ApiStep, ParsingHasTask
  <2>2. Len(topic) \in Nat /\ Len(topic') \in Nat /\ handled \subseteq 1 .. Len(topic)
    BY DEF TypeOK
  <2>3. i \in (1 .. Len(topic')) \ handled' /\ topic'[i] = d
    BY <2>1, <2>2 DEF ApiStep
  <2>4. \A j \in handled' : topic'[j] = d => j < i
    BY <2>1, <2>2 DEF ApiStep
  <2> QED BY <2>3, <2>4
<1> QED BY <1>1, <1>2, <1>3, <1>4

LEMMA UploadApi ==
    ASSUME IInv, NEW d \in Doc, UploadStep(d)
    PROVE  ApiStep
<1> USE DEF IInv
<1>1. CASE StoreFile(d)
  BY <1>1 DEF StoreFile, Upload, ApiStep, kafka, TypeOK
<1>2. CASE SaveDocument(d)
  <2>1. row[d] = "absent"
    BY <1>2 DEF SaveDocument, Upload, FreshInv
  <2> QED BY <1>2, <2>1 DEF SaveDocument, Upload, ApiStep, kafka, TypeOK, DocStatus
<1>3. CASE SendTask(d)
  <2>1. /\ Len(topic') \in {Len(topic), Len(topic) + 1}
        /\ \A i \in 1 .. Len(topic) : topic'[i] = topic[i]
        /\ Len(topic) \in Nat
    BY <1>3, SendType DEF SendTask, TypeOK
  <2>2. \A c \in Doc : upload'[c] \in {"none", "stored"} => upload[c] \in {"none", "stored"}
    BY <1>3 DEF SendTask, Upload, TypeOK
  <2>3. UNCHANGED <<stores, position, handled, worker, delete>>
    BY <1>3 DEF SendTask
  <2> QED BY <2>1, <2>2, <2>3 DEF ApiStep, stores
<1>4. CASE SaveJob(d)
  <2>1. \A c \in Doc : upload'[c] \in {"none", "stored"} => upload[c] \in {"none", "stored"}
    BY <1>4 DEF SaveJob, Upload, TypeOK
  <2> QED BY <1>4, <2>1 DEF SaveJob, ApiStep, kafka, TypeOK
<1> QED BY <1>1, <1>2, <1>3, <1>4 DEF UploadStep

LEMMA RebuildApi ==
    ASSUME IInv, NEW r \in Rebuild,
           RebuildStep(r) \/ \E d \in Doc : LoadForRebuild(r, d)
    PROVE  ApiStep
<1> USE DEF IInv
<1>1. ASSUME NEW d \in Doc, LoadForRebuild(r, d)
      PROVE  ApiStep
  BY <1>1 DEF LoadForRebuild, ApiStep, stores, kafka, TypeOK
<1>2. CASE ClearIndex(r)
  BY <1>2 DEF ClearIndex, ApiStep, kafka, TypeOK
<1>3. CASE SendRebuildTask(r)
  <2>1. rebuild[r].doc \in Doc
    BY <1>3, RebuildAt DEF SendRebuildTask, At
  <2>2. /\ Len(topic') \in {Len(topic), Len(topic) + 1}
        /\ \A i \in 1 .. Len(topic) : topic'[i] = topic[i]
        /\ Len(topic) \in Nat
    BY <1>3, <2>1, SendType DEF SendRebuildTask, TypeOK
  <2>3. UNCHANGED <<stores, position, handled, worker, upload, delete>>
    BY <1>3 DEF SendRebuildTask
  <2> QED BY <2>2, <2>3 DEF ApiStep, stores
<1>4. CASE CommitRebuild(r)
  <2>1. rebuild[r].doc \in Doc
    BY <1>4, RebuildAt DEF CommitRebuild, At
  <2>2. \/ row' = row
        \/ Present(rebuild[r].doc) /\ row' = [row EXCEPT ![rebuild[r].doc] = "pending"]
    BY <1>4 DEF CommitRebuild, Update, Updatable
  <2>3. /\ UNCHANGED <<chunks, index, kafka, upload, worker, delete>>
        /\ Len(topic) \in Nat
    BY <1>4 DEF CommitRebuild, TypeOK
  <2>4. \A c \in Doc :
           \/ row'[c] = row[c]
           \/ row[c] \in DocStatus /\ row'[c] = "pending"
    BY <2>2 DEF Present, TypeOK
  <2>5. \A c \in Doc : upload[c] \in {"none", "stored"} => row[c] = "absent"
    BY DEF FreshInv
  <2> QED BY <2>3, <2>4, <2>5 DEF ApiStep, kafka, DocStatus
<1> QED BY <1>1, <1>2, <1>3, <1>4 DEF RebuildStep

LEMMA DeleteApi ==
    ASSUME IInv, NEW d \in Doc, DeleteStep(d) \/ LoadForDelete(d)
    PROVE  ApiStep
<1> USE DEF IInv
<1>1. row[d] # "absent" /\ Len(topic) \in Nat
  BY DEF DeleteStep, LoadForDelete, RemoveFile, RemoveIndex, DeleteRows, Delete,
         Present, DocStatus, FreshInv, TypeOK
<1>2. \A c \in Doc \ {d} : delete'[c] = delete[c]
  BY DEF DeleteStep, LoadForDelete, RemoveFile, RemoveIndex, DeleteRows, Delete, TypeOK
<1>3. CASE LoadForDelete(d) \/ RemoveFile(d) \/ RemoveIndex(d)
  <2>1. UNCHANGED <<row, chunks, kafka, upload, worker>>
    BY <1>3 DEF LoadForDelete, RemoveFile, RemoveIndex, stores
  <2>2. \A c \in Doc : index'[c] \in {index[c], {}}
    BY <1>3 DEF LoadForDelete, RemoveFile, RemoveIndex, stores, TypeOK
  <2> QED BY <1>1, <1>2, <2>1, <2>2 DEF ApiStep, kafka
<1>4. CASE DeleteRows(d)
  <2>1. upload[d] \notin {"none", "stored"}
    BY <1>1 DEF FreshInv
  <2>2. \/ UNCHANGED <<row, chunks>>
        \/ /\ row' = [row EXCEPT ![d] = "deleted"]
           /\ chunks' = [chunks EXCEPT ![d] = 0]
    BY <1>4, Zenon DEF DeleteRows
  <2>3. /\ \A c \in Doc \ {d} : row'[c] = row[c] /\ chunks'[c] = chunks[c]
        /\ row'[d] = "deleted" \/ (row'[d] = row[d] /\ chunks'[d] = chunks[d])
    <3>1. row \in [Doc -> DocStatus \cup {"absent", "deleted"}] /\ chunks \in [Doc -> Nat]
      BY DEF TypeOK
    <3>2. CASE UNCHANGED <<row, chunks>>
      BY <3>2
    <3>3. CASE row' = [row EXCEPT ![d] = "deleted"] /\ chunks' = [chunks EXCEPT ![d] = 0]
      <4>1. \A c \in Doc \ {d} : row'[c] = row[c]
        <5>1. row' = [row EXCEPT ![d] = "deleted"]
          BY <3>3
        <5> QED BY <3>1, <5>1
      <4>2. row'[d] = "deleted"
        <5>1. row' = [row EXCEPT ![d] = "deleted"]
          BY <3>3
        <5> QED BY <3>1, <5>1
      <4>3. \A c \in Doc \ {d} : chunks'[c] = chunks[c]
        <5>1. chunks' = [chunks EXCEPT ![d] = 0]
          BY <3>3
        <5> QED BY <3>1, <5>1
      <4> QED BY <4>1, <4>2, <4>3
    <3> QED BY <2>2, <3>2, <3>3
  <2>5. UNCHANGED <<index, kafka, upload, worker>>
    BY <1>4 DEF DeleteRows
  <2> QED BY <1>1, <1>2, <2>1, <2>3, <2>5 DEF ApiStep, kafka, DocStatus
<1> QED BY <1>3, <1>4 DEF DeleteStep

LEMMA ApiCrashApi ==
    ASSUME IInv, ApiCrash
    PROVE  ApiStep
<1>1. UNCHANGED <<row, chunks, index, kafka, worker>> /\ Len(topic) \in Nat
  BY DEF ApiCrash, stores, IInv, TypeOK
<1>2. \A d \in Doc : upload'[d] \in {"none", "stored"} => upload[d] \in {"none", "stored"}
  BY DEF ApiCrash
<1>3. \A d \in Doc : delete'[d] = "idle"
  BY DEF ApiCrash
<1> QED BY <1>1, <1>2, <1>3 DEF ApiStep, kafka

\* A crash of the worker, and a commit of its offset.
LEMMA CrashInv ==
    ASSUME IInv, AutoCommit \/ WorkerCrash
    PROVE  WorkerInv' /\ FreshInv' /\ IndexHasRows' /\ ParsingHasTask'
<1> USE DEF IInv
<1>1. /\ UNCHANGED <<stores, topic, upload, delete>> /\ handled' \subseteq handled
      /\ worker' = Idle \/ UNCHANGED <<worker, position, handled>>
  BY DEF AutoCommit, WorkerCrash, api
<1>2. WorkerInv'
  BY <1>1 DEF WorkerInv, On, Idle, Present, stores
<1>3. FreshInv' /\ IndexHasRows'
  BY <1>1 DEF FreshInv, IndexHasRows, Present, stores
<1>4. ParsingHasTask'
  BY <1>1 DEF ParsingHasTask, stores
<1> QED BY <1>2, <1>3, <1>4

\* The worker's own steps up to the last of a task.
LEMMA WorkerGoInv ==
    ASSUME IInv, Take \/ MarkParsing \/ Parse \/ SaveChunks \/ IndexChunks
    PROVE  WorkerInv' /\ FreshInv' /\ IndexHasRows' /\ ParsingHasTask'
<1> USE DEF IInv
<1>1. CASE Take
  <2> DEFINE d == topic[position + 1]
  <2>1. /\ d \in Doc /\ position \in Nat /\ position + 1 \in 1 .. Len(topic)
        /\ position' = position + 1
        /\ handled \subseteq 1 .. position
        /\ On("idle")
        /\ UNCHANGED <<stores, topic, upload, delete>>
    BY <1>1 DEF Take, TypeOK, api
  <2>2. FreshInv' /\ IndexHasRows'
    BY <2>1 DEF FreshInv, IndexHasRows, Present, stores
  <2>3. CASE /\ \/ Present(d) /\ worker' = [pc |-> "loaded", doc |-> d, loaded |-> row[d]]
                \/ worker' = [pc |-> "failing", doc |-> d, loaded |-> "unread"]
             /\ UNCHANGED handled
    <3>1. WorkerInv'
      BY <2>1, <2>3 DEF WorkerInv, On, Present, DocStatus, stores
    <3>2. ParsingHasTask'
      BY <2>1, <2>3 DEF ParsingHasTask, stores
    <3> QED BY <2>2, <3>1, <3>2
  <2>4. CASE ~Present(d) /\ handled' = handled \cup {position + 1} /\ UNCHANGED worker
    <3>1. WorkerInv'
      BY <2>1, <2>4 DEF WorkerInv, On
    <3>2. row[d] # "parsing"
      BY <2>4 DEF Present, DocStatus
    <3>3. ParsingHasTask'
      BY <2>1, <2>4, <3>2 DEF ParsingHasTask, stores
    <3> QED BY <2>2, <3>1, <3>3
  <2> QED BY <1>1, <2>3, <2>4 DEF Take
<1>3. TypeOK'
  BY WorkerType DEF WorkerStep
<1>2. CASE MarkParsing \/ Parse \/ SaveChunks \/ IndexChunks
  <2> DEFINE d == worker.doc
  <2>1. ~On("idle")
    BY <1>2 DEF MarkParsing, Parse, SaveChunks, IndexChunks, On
  <2>2. /\ d \in Doc /\ position \in 1 .. Len(topic) /\ position \notin handled
        /\ handled \subseteq 1 .. position
        /\ topic[position] = d /\ row[d] # "absent"
    BY <1>2, <2>1, WorkerAt
    DEF WorkerInv, TypeOK, MarkParsing, Parse, SaveChunks, IndexChunks, On
  <2>3. UNCHANGED <<kafka, upload, delete>>
    BY <1>2 DEF MarkParsing, Parse, SaveChunks, IndexChunks, api
  <2>4. worker'.doc = d /\ ~On("idle")'
    BY <1>2, <2>1, WorkerAt
    DEF MarkParsing, Parse, SaveChunks, IndexChunks, WorkerGo, On
  <2>5. \/ row' = row
        \/ Present(d) /\ row' = [row EXCEPT ![d] = "parsing"] /\ chunks' = chunks
           /\ index' = index
    BY <1>2 DEF MarkParsing, Parse, SaveChunks, IndexChunks, Update, Updatable, stores
  <2>6. /\ row \in [Doc -> DocStatus \cup {"absent", "deleted"}] /\ chunks \in [Doc -> Nat]
        /\ index \in [Doc -> SUBSET Chunk]
    BY DEF TypeOK
  <2>7. /\ \A c \in Doc \ {d} : row'[c] = row[c] /\ chunks'[c] = chunks[c] /\ index'[c] = index[c]
        /\ row'[d] = row[d] \/ (row'[d] = "parsing" /\ Present(d))
        /\ chunks'[d] >= chunks[d]
    <3>1. chunks' = chunks \/ chunks' = [chunks EXCEPT ![d] = chunks[d] + 1]
      BY <1>2 DEF MarkParsing, Parse, SaveChunks, IndexChunks, stores
    <3>2. index' = index \/ \E S \in SUBSET Chunk : index' = [index EXCEPT ![d] = S]
      <4>1. index[d] \subseteq Chunk
        BY <2>2, <2>6
      <4> QED BY <1>2, <4>1 DEF MarkParsing, Parse, SaveChunks, IndexChunks, stores
    <3>3. \A c \in Doc \ {d} : row'[c] = row[c]
      BY <2>5, <2>6
    <3>4. row'[d] = row[d] \/ (row'[d] = "parsing" /\ Present(d))
      BY <2>2, <2>5, <2>6
    <3>5. \A c \in Doc \ {d} : chunks'[c] = chunks[c]
      BY <2>6, <3>1
    <3>7. \A c \in Doc \ {d} : index'[c] = index[c]
      BY <2>6, <3>2
    <3>6. chunks'[d] >= chunks[d]
      BY <2>2, <2>6, <3>1
    <3> QED BY <3>3, <3>4, <3>5, <3>6, <3>7
  <2>8. FreshInv'
    BY <2>2, <2>3, <2>7 DEF FreshInv
  <2>9. ParsingHasTask'
    BY <2>2, <2>3, <2>7 DEF ParsingHasTask, kafka
  <2>10. \/ ~Present(d)'
         \/ index'[d] = index[d]
         \/ On("chunked") /\ chunks' = chunks
    BY <1>2, <2>2, <2>6 DEF MarkParsing, Parse, SaveChunks, IndexChunks, stores
  <2>11. Present(d)' => Present(d)
    BY <2>4, <2>7 DEF Present
  <2>12. IndexHasRows'
    <3>1. On("chunked") => (Present(d) => chunks[d] > 0)
      BY <2>1 DEF WorkerInv
    <3>2. \A c \in Doc : Present(c)' => Present(c)
      BY <2>7, <2>11 DEF Present
    <3>3. \A c \in Doc : chunks[c] \in Nat /\ chunks'[c] >= chunks[c]
      BY <2>6, <2>7
    <3>4. SUFFICES ASSUME NEW c \in Doc, Present(c)', index'[c] # {}
                   PROVE  chunks'[c] > 0
      BY DEF IndexHasRows
    <3>5. Present(c) /\ (index[c] # {} => chunks[c] > 0)
      BY <3>2, <3>4 DEF IndexHasRows
    <3>6. CASE index'[c] = index[c]
      <4>1. chunks[c] > 0
        BY <3>4, <3>5, <3>6
      <4>2. chunks[c] \in Nat /\ chunks'[c] >= chunks[c]
        BY <3>3
      <4>3. chunks' \in [Doc -> Nat]
        BY <1>3 DEF TypeOK
      <4>4. chunks'[c] \in Nat
        BY <4>3
      <4> QED BY <4>1, <4>2, <4>4
    <3>7. CASE c = d /\ On("chunked") /\ chunks' = chunks
      BY <3>1, <3>5, <3>7
    <3> QED BY <2>4, <2>7, <2>10, <3>4, <3>6, <3>7 DEF Present
  <2>13. On("chunked")' \/ On("indexed")' => (Present(d)' => chunks'[d] > 0)
    BY <1>2, <2>1, <2>2, <2>6, <2>7, <2>11, WorkerAt
    DEF MarkParsing, Parse, SaveChunks, IndexChunks, WorkerGo, On, WorkerInv
  <2>14. WorkerInv'
    BY <2>2, <2>3, <2>4, <2>7, <2>13 DEF WorkerInv, kafka, On, Present, DocStatus
  <2> QED BY <2>8, <2>9, <2>12, <2>14
<1> QED BY <1>1, <1>2

\* The end of a task.
LEMMA HandledInv ==
    ASSUME IInv, MarkIndexed \/ MarkFailed
    PROVE  WorkerInv' /\ FreshInv' /\ IndexHasRows' /\ ParsingHasTask'
<1> USE DEF IInv
<1> DEFINE d == worker.doc
<1>1. ~On("idle")
  BY DEF MarkIndexed, MarkFailed, On
<1>2. /\ d \in Doc /\ position \in 1 .. Len(topic) /\ position \notin handled
      /\ topic[position] = d
  BY <1>1, WorkerAt DEF WorkerInv, TypeOK
<1>3. UNCHANGED <<chunks, index, topic, position, upload, delete>>
  BY DEF MarkIndexed, MarkFailed, api
<1>4. row \in [Doc -> DocStatus \cup {"absent", "deleted"}]
  BY DEF TypeOK
<1>5. CASE Present(d) /\ (\E st \in {"indexed", "failed"} : row' = [row EXCEPT ![d] = st])
           /\ Handled
  <2>1. \A c \in Doc \ {d} : row'[c] = row[c]
    BY <1>4, <1>5
  <2>2. row'[d] \in {"indexed", "failed"}
    BY <1>2, <1>4, <1>5
  <2>3. WorkerInv'
    BY <1>5 DEF Handled, WorkerInv, On, Idle
  <2>4. FreshInv' /\ IndexHasRows'
    BY <1>2, <1>3, <1>5, <2>1, <2>2 DEF FreshInv, IndexHasRows, Present, DocStatus
  <2>5. ParsingHasTask'
    BY <1>2, <1>3, <1>5, <2>1, <2>2 DEF ParsingHasTask, Handled
  <2> QED BY <2>3, <2>4, <2>5
<1>6. CASE ~Present(d) /\ UNCHANGED row /\ Handled
  <2>1. row[d] # "parsing"
    BY <1>6 DEF Present, DocStatus
  <2>2. WorkerInv'
    BY <1>6 DEF Handled, WorkerInv, On, Idle
  <2>3. FreshInv' /\ IndexHasRows'
    BY <1>3, <1>6 DEF FreshInv, IndexHasRows, Present
  <2>4. ParsingHasTask'
    BY <1>2, <1>3, <1>6, <2>1 DEF ParsingHasTask, Handled
  <2> QED BY <2>2, <2>3, <2>4
<1>7. CASE UNCHANGED <<row, handled>> /\ WorkerGo("failing")
  <2>1. worker'.pc = "failing" /\ worker'.doc = d
    BY <1>1, <1>7, WorkerAt DEF WorkerGo
  <2>2. WorkerInv'
    BY <1>2, <1>3, <1>7, <2>1 DEF WorkerInv, On
  <2>3. FreshInv' /\ IndexHasRows' /\ ParsingHasTask'
    BY <1>3, <1>7 DEF FreshInv, IndexHasRows, Present, ParsingHasTask
  <2> QED BY <2>2, <2>3
<1>8. CASE UNCHANGED <<row, handled>> /\ worker' = Idle
  <2>1. WorkerInv'
    BY <1>8 DEF WorkerInv, On, Idle
  <2>2. FreshInv' /\ IndexHasRows' /\ ParsingHasTask'
    BY <1>3, <1>8 DEF FreshInv, IndexHasRows, Present, ParsingHasTask
  <2> QED BY <2>1, <2>2
<1> QED BY <1>5, <1>6, <1>7, <1>8 DEF MarkIndexed, MarkFailed

LEMMA NextInv == IInv /\ [Next]_vars => IInv'
<1> SUFFICES ASSUME IInv, [Next]_vars
             PROVE  IInv'
  OBVIOUS
<1>1. TypeOK'
  BY NextType DEF IInv
<1>2. CASE \E d \in Doc : UploadStep(d)
  BY <1>1, <1>2, UploadApi, ApiStepInv
<1>3. CASE \E d \in Doc : DeleteStep(d) \/ LoadForDelete(d)
  BY <1>1, <1>3, DeleteApi, ApiStepInv
<1>4. CASE \E r \in Rebuild : RebuildStep(r) \/ \E d \in Doc : LoadForRebuild(r, d)
  BY <1>1, <1>4, RebuildApi, ApiStepInv
<1>5. CASE ApiCrash
  BY <1>1, <1>5, ApiCrashApi, ApiStepInv
<1>6. CASE AutoCommit \/ WorkerCrash
  BY <1>1, <1>6, CrashInv DEF IInv
<1>7. CASE WorkerStep
  BY <1>1, <1>7, WorkerGoInv, HandledInv DEF WorkerStep, IInv
<1>8. CASE UNCHANGED vars
  BY <1>8 DEF vars, stores, kafka, api, IInv, TypeOK, WorkerInv, FreshInv,
              IndexHasRows, ParsingHasTask, On, Present
<1> QED BY <1>2, <1>3, <1>4, <1>5, <1>6, <1>7, <1>8 DEF Next

\* The inductive invariant: what a process of the worker or of the API holds agrees
\* with the rows, the index and the tasks, whatever fails.
THEOREM Invariance == Spec => []IInv
  BY InitInv, NextInv, PTL DEF Spec

-----------------------------------------------------------------------------
(* Theorems *)

\* The stores, the topic and every process keep their types, whatever fails.
THEOREM TypeCorrect == Spec => []TypeOK
<1>1. IInv => TypeOK
  BY DEF IInv
<1> QED BY <1>1, Invariance, PTL

\* No chunk of an existing document is searchable without its rows, whatever
\* fails and whatever requests the worker runs against.
THEOREM IndexHasRowsHolds == Spec => []IndexHasRows
<1>1. IInv => IndexHasRows
  BY DEF IInv
<1> QED BY <1>1, Invariance, PTL

\* A document marked PARSING has a task that process() has not returned from, and
\* none after it that it has, whatever fails: a run that returns, even with a failure,
\* never leaves the document of its task PARSING.
THEOREM ParsingHasTaskHolds == Spec => []ParsingHasTask
<1>1. IInv => ParsingHasTask
  BY DEF IInv
<1> QED BY <1>1, Invariance, PTL

-----------------------------------------------------------------------------
(* Tasks that are lost *)

LEMMA LostFinite ==
    ASSUME TypeOK
    PROVE  IsFiniteSet(Lost) /\ Cardinality(Lost) \in Nat
<1>1. position \in Nat
  BY DEF TypeOK
<1>2. IsFiniteSet(1 .. position)
  BY <1>1, FS_Interval
<1>3. IsFiniteSet(Lost)
  BY <1>2, FS_Subset DEF Lost
<1> QED BY <1>3, FS_CardinalityType

\* A request, and a commit of the offset, have nothing to do with the worker's tasks.
LEMMA OthersLoseNone ==
    ASSUME IInv, CrashLosesOneTask,
           \/ \E d \in Doc : UploadStep(d) \/ LoadForDelete(d) \/ DeleteStep(d)
           \/ \E r \in Rebuild : RebuildStep(r) \/ \E d \in Doc : LoadForRebuild(r, d)
           \/ AutoCommit \/ ApiCrash \/ UNCHANGED vars
    PROVE  CrashLosesOneTask'
<1>1. UNCHANGED <<position, handled, unmarked, worker>> /\ crashes' \in {crashes, crashes + 1}
  BY DEF UploadStep, StoreFile, SaveDocument, SendTask, SaveJob, LoadForDelete,
         DeleteStep, RemoveFile, RemoveIndex, DeleteRows, RebuildStep, LoadForRebuild,
         ClearIndex, SendRebuildTask, CommitRebuild, AutoCommit, ApiCrash, Crash, kafka, vars
<1>2. Lost' = Lost
  BY <1>1 DEF Lost, InHand, On
<1>3. Cardinality(Lost) \in Nat /\ crashes \in Nat
  BY LostFinite, IngestionAssumption DEF IInv, TypeOK
<1> QED BY <1>1, <1>2, <1>3 DEF CrashLosesOneTask

\* What is lost with the worker is what was lost before, and the task in hand.
LEMMA WorkerCrashLosesOne ==
    ASSUME IInv, CrashLosesOneTask, WorkerCrash
    PROVE  CrashLosesOneTask'
<1>1. /\ position \in Nat /\ committed \in 0 .. position /\ crashes \in Nat
      /\ position' = committed /\ handled' = handled \cap 1 .. committed
      /\ unmarked' = unmarked \cap 1 .. committed
      /\ worker' = Idle /\ crashes' = crashes + 1
  BY IngestionAssumption DEF WorkerCrash, Crash, IInv, TypeOK
<1>2. Lost' \subseteq Lost \cup {position}
  BY <1>1 DEF Lost, InHand, On, Idle
<1>3. IsFiniteSet(Lost) /\ Cardinality(Lost) \in Nat
  BY LostFinite DEF IInv
<1>4. /\ IsFiniteSet(Lost \cup {position})
      /\ Cardinality(Lost \cup {position}) \in {Cardinality(Lost), Cardinality(Lost) + 1}
  BY <1>3, FS_AddElement
<1>5. IsFiniteSet(Lost') /\ Cardinality(Lost') <= Cardinality(Lost \cup {position})
  BY <1>2, <1>4, FS_Subset
<1>6. Cardinality(Lost') \in Nat
  BY <1>5, FS_CardinalityType
<1> QED BY <1>1, <1>3, <1>4, <1>5, <1>6 DEF CrashLosesOneTask

LEMMA WorkerLosesNone ==
    ASSUME IInv, CrashLosesOneTask, WorkerStep
    PROVE  CrashLosesOneTask'
<1> USE DEF IInv
<1>1. UNCHANGED crashes
  BY DEF WorkerStep, Take, MarkParsing, Parse, SaveChunks, IndexChunks, MarkIndexed,
         MarkFailed
<1>2. position \in Nat /\ handled \subseteq 1 .. position /\ unmarked \subseteq 1 .. position
  BY DEF TypeOK
<1>3. CASE Take
  <2>1. position' = position + 1 /\ On("idle") /\ UNCHANGED unmarked
    BY <1>3 DEF Take
  <2>2. \/ worker'.pc \in {"loaded", "failing"} /\ UNCHANGED handled
        \/ UNCHANGED worker /\ handled' = handled \cup {position + 1}
    BY <1>3 DEF Take
  <2>3. Lost' = Lost
    BY <1>2, <2>1, <2>2 DEF Lost, InHand, On
  <2> QED BY <1>1, <2>3 DEF CrashLosesOneTask
<1>4. CASE MarkParsing \/ Parse \/ SaveChunks \/ IndexChunks
  <2>1. ~On("idle") /\ UNCHANGED <<position, handled, unmarked>>
    BY <1>4 DEF MarkParsing, Parse, SaveChunks, IndexChunks, On, kafka
  <2>2. ~On("idle")'
    BY <1>4, <2>1, WorkerAt DEF MarkParsing, Parse, SaveChunks, IndexChunks, WorkerGo, On
  <2> QED BY <1>1, <2>1, <2>2 DEF Lost, InHand, CrashLosesOneTask
<1>5. CASE MarkIndexed \/ MarkFailed
  <2>1. ~On("idle") /\ UNCHANGED position
    BY <1>5 DEF MarkIndexed, MarkFailed, On
  <2>2. \/ worker' = Idle /\ handled' = handled \cup {position} /\ UNCHANGED unmarked
        \/ worker' = Idle /\ unmarked' = unmarked \cup {position} /\ UNCHANGED handled
        \/ WorkerGo("failing") /\ UNCHANGED <<handled, unmarked>>
    BY <1>5 DEF MarkIndexed, MarkFailed, Handled
  <2>3. CASE /\ worker' = Idle
             /\ \/ handled' = handled \cup {position} /\ UNCHANGED unmarked
                \/ unmarked' = unmarked \cup {position} /\ UNCHANGED handled
    <3>1. Lost' = Lost
      BY <2>1, <2>3 DEF Lost, InHand, On, Idle
    <3> QED BY <1>1, <3>1 DEF CrashLosesOneTask
  <2>4. CASE WorkerGo("failing") /\ UNCHANGED <<handled, unmarked>>
    <3>1. ~On("idle")'
      BY <2>1, <2>4, WorkerAt DEF WorkerGo, On
    <3> QED BY <1>1, <2>1, <2>4, <3>1 DEF Lost, InHand, CrashLosesOneTask
  <2> QED BY <2>2, <2>3, <2>4
<1> QED BY <1>3, <1>4, <1>5 DEF WorkerStep

\* However often the offset is committed in the background, a crash costs at most the
\* one task that the worker had in hand.
THEOREM CrashLosesOneTaskHolds == Spec => []CrashLosesOneTask
<1>1. Init => CrashLosesOneTask
  <2> SUFFICES ASSUME Init PROVE CrashLosesOneTask
    OBVIOUS
  <2>1. Lost = {} /\ crashes = 0
    BY DEF Init, Lost
  <2> QED BY <2>1, FS_EmptySet DEF CrashLosesOneTask
<1>2. IInv /\ CrashLosesOneTask /\ [Next]_vars => CrashLosesOneTask'
  BY OthersLoseNone, WorkerCrashLosesOne, WorkerLosesNone DEF Next
<1> QED BY <1>1, <1>2, InitInv, NextInv, PTL DEF Spec

-----------------------------------------------------------------------------
(* Indexed documents are searchable *)

\* The processes, Kafka and the database do not fail, and what is deleted goes.
Calm ==
    /\ Faults \cap {"kafka_down", "kafka_error", "database", "worker_crash", "api_crash"} = {}
    /\ ForeignKeys => Deletable = {}

\* Tasks stay in the topic until they are taken.
LEMMA WaitingStays ==
    ASSUME TypeOK, NEW d \in Doc, Waiting(d), UNCHANGED position,
           \/ UNCHANGED topic
           \/ \E c \in Doc : topic' = Append(topic, c)
    PROVE  Waiting(d)'
<1>1. position \in Nat /\ topic \in Seq(Doc)
  BY DEF TypeOK
<1>2. PICK i \in position + 1 .. Len(topic) : topic[i] = d
  BY DEF Waiting
<1>3. i \in position + 1 .. Len(topic') /\ topic'[i] = d
  BY <1>1, <1>2
<1> QED BY <1>3 DEF Waiting

\* A document is served by what served it, if that is still there.
LEMMA ServedStays ==
    ASSUME NEW d \in Doc, Served(d),
           index'[d] = index[d],
           \A r \in Rebuild : At(r, "cleared") => rebuild'[r] = rebuild[r],
           delete[d] # "idle" => delete'[d] # "idle",
           Waiting(d) => Waiting(d)',
           UNCHANGED worker
    PROVE  Served(d)'
  BY DEF Served, At, On

LEMMA UploadServes ==
    ASSUME IInv, ServedInv, NEW d \in Doc, UploadStep(d)
    PROVE  ServedInv'
<1> USE DEF IInv
<1>1. UNCHANGED <<index, position, producer, rebuild, delete, worker>>
  BY DEF UploadStep, StoreFile, SaveDocument, SendTask, SaveJob, stores, kafka
<1>2. UNCHANGED topic \/ topic' = Append(topic, d)
  BY DEF UploadStep, StoreFile, SaveDocument, SendTask, SaveJob, kafka, Send
<1>3. \A c \in Doc : Served(c) => Served(c)'
  BY <1>1, <1>2, WaitingStays, ServedStays
<1>4. UNCHANGED row \/ (row[d] = "absent" /\ row' = [row EXCEPT ![d] = "pending"])
  BY DEF UploadStep, StoreFile, SaveDocument, SendTask, SaveJob, Upload, stores, FreshInv
<1>5. \A c \in Doc : /\ row'[c] = row[c] \/ (row[c] = "absent" /\ row'[c] = "pending")
                     /\ On("indexed") /\ worker.doc = c => row[c] # "absent"
  BY <1>4 DEF TypeOK, WorkerInv, On
<1> QED BY <1>1, <1>3, <1>5 DEF ServedInv, Present, DocStatus, On

LEMMA RebuildServes ==
    ASSUME Calm, IInv, ServedInv, NEW r \in Rebuild,
           RebuildStep(r) \/ \E d \in Doc : LoadForRebuild(r, d)
    PROVE  ServedInv'
<1> USE DEF IInv
<1>1. UNCHANGED <<position, producer, delete, worker>>
  BY DEF RebuildStep, LoadForRebuild, ClearIndex, SendRebuildTask, CommitRebuild, kafka
<1>2. \A q \in Rebuild \ {r} : rebuild'[q] = rebuild[q]
  BY DEF RebuildStep, LoadForRebuild, ClearIndex, SendRebuildTask, CommitRebuild, Go, Over,
         TypeOK
<1>3. CASE \E d \in Doc : LoadForRebuild(r, d)
  <2>1. UNCHANGED <<row, index, topic>> /\ ~At(r, "cleared")
    BY <1>3 DEF LoadForRebuild, At, stores, kafka
  <2>2. \A c \in Doc : Served(c) => Served(c)'
    BY <1>1, <1>2, <2>1, WaitingStays, ServedStays
  <2> QED BY <1>1, <2>1, <2>2 DEF ServedInv, Present, On
<1>4. CASE ClearIndex(r)
  <2>1. At(r, "loaded")
    BY <1>4 DEF ClearIndex
  <2>2. PICK d \in Doc : d = rebuild[r].doc
    BY <2>1, RebuildAt DEF At
  <2>3. UNCHANGED <<row, topic>> /\ \A c \in Doc \ {d} : index'[c] = index[c]
    BY <1>4, <2>2 DEF ClearIndex, kafka, TypeOK
  <2>4. At(r, "cleared")' /\ rebuild'[r].doc = d
    BY <1>4, <2>2, <2>1, RebuildAt DEF ClearIndex, Go, At, TypeOK
  <2>5. \A c \in Doc : Served(c) => Served(c)'
    <3>1. ASSUME NEW c \in Doc, Served(c), c # d PROVE Served(c)'
      BY <1>1, <1>2, <2>3, <2>1, <3>1, WaitingStays, ServedStays DEF At
    <3>2. Served(d)'
      BY <2>4 DEF Served
    <3> QED BY <3>1, <3>2
  <2> QED BY <1>1, <2>3, <2>5 DEF ServedInv, Present, On
<1>5. CASE SendRebuildTask(r)
  <2>1. At(r, "cleared") /\ UNCHANGED <<row, index>>
    BY <1>5 DEF SendRebuildTask, stores
  <2>2. PICK d \in Doc : d = rebuild[r].doc
    BY <2>1, RebuildAt DEF At
  <2>3. topic' = Append(topic, d)
    BY <1>5, <2>2 DEF SendRebuildTask, Send, ServedInv, Calm
  <2>4. Waiting(d)'
    <3>1. /\ topic \in Seq(Doc) /\ position \in 0 .. Len(topic)
      BY DEF TypeOK
    <3>2. Len(topic) + 1 \in position + 1 .. Len(topic') /\ topic'[Len(topic) + 1] = d
      BY <2>2, <2>3, <3>1
    <3> QED BY <1>1, <3>2 DEF Waiting
  <2>5. \A c \in Doc : Served(c) => Served(c)'
    <3>1. ASSUME NEW c \in Doc, Served(c), c # d PROVE Served(c)'
      <4>1. Waiting(c) => Waiting(c)'
        BY <1>1, <2>2, <2>3, WaitingStays
      <4> QED BY <1>1, <1>2, <2>1, <2>2, <3>1, <4>1 DEF Served, At, On
    <3>2. Served(d)'
      BY <2>4 DEF Served
    <3> QED BY <3>1, <3>2
  <2> QED BY <1>1, <2>1, <2>5 DEF ServedInv, Present, On
<1>6. CASE CommitRebuild(r)
  <2> DEFINE d == rebuild[r].doc
  <2>1. UNCHANGED <<index, topic>> /\ ~At(r, "cleared")
    BY <1>6 DEF CommitRebuild, At, kafka
  <2>2. \A c \in Doc : Served(c) => Served(c)'
    BY <1>1, <1>2, <2>1, WaitingStays, ServedStays
  <2>3. \/ UNCHANGED row
        \/ Present(d) /\ row' = [row EXCEPT ![d] = "pending"]
    BY <1>6 DEF CommitRebuild, Update, Updatable
  <2>4. \A c \in Doc : row'[c] = row[c] \/ (Present(c) /\ row'[c] = "pending")
    BY <2>3 DEF TypeOK
  <2> QED BY <1>1, <2>2, <2>4 DEF ServedInv, Present, On
<1> QED BY <1>3, <1>4, <1>5, <1>6 DEF RebuildStep

LEMMA DeleteServes ==
    ASSUME Calm, IInv, ServedInv, NEW d \in Doc, LoadForDelete(d) \/ DeleteStep(d)
    PROVE  ServedInv'
<1> USE DEF IInv
<1>1. UNCHANGED <<topic, position, producer, rebuild, worker>>
  BY DEF LoadForDelete, DeleteStep, RemoveFile, RemoveIndex, DeleteRows, kafka
<1>2. \A c \in Doc \ {d} : delete'[c] = delete[c]
  BY DEF LoadForDelete, DeleteStep, RemoveFile, RemoveIndex, DeleteRows, Delete, TypeOK
<1>3. d \in Deletable
  BY DEF LoadForDelete, DeleteStep, RemoveFile, RemoveIndex, DeleteRows, Delete, ServedInv
<1>4. CASE LoadForDelete(d) \/ RemoveFile(d) \/ RemoveIndex(d)
  <2>1. UNCHANGED row /\ \A c \in Doc \ {d} : index'[c] = index[c]
    BY <1>4 DEF LoadForDelete, RemoveFile, RemoveIndex, stores, TypeOK
  <2>2. delete'[d] # "idle"
    BY <1>4 DEF LoadForDelete, RemoveFile, RemoveIndex, Delete, TypeOK
  <2>3. \A c \in Doc : Served(c) => Served(c)'
    <3>1. ASSUME NEW c \in Doc, Served(c), c # d PROVE Served(c)'
      BY <1>1, <1>2, <2>1, <3>1, WaitingStays, ServedStays
    <3>2. Served(d)'
      BY <2>2 DEF Served
    <3> QED BY <3>1, <3>2
  <2> QED BY <1>1, <1>2, <1>3, <2>1, <2>3 DEF ServedInv, Present, On
<1>5. CASE DeleteRows(d)
  <2>1. row' = [row EXCEPT ![d] = "deleted"] /\ UNCHANGED index
    BY <1>3, <1>5 DEF DeleteRows, DatabaseFails, Calm
  <2>2. ~Present(d)' /\ \A c \in Doc \ {d} : row'[c] = row[c]
    BY <2>1 DEF Present, DocStatus, TypeOK
  <2>3. \A c \in Doc \ {d} : Served(c) => Served(c)'
    BY <1>1, <1>2, <2>1, WaitingStays, ServedStays
  <2> QED BY <1>1, <1>2, <1>3, <2>2, <2>3 DEF ServedInv, Present, On
<1> QED BY <1>4, <1>5 DEF DeleteStep

\* The worker serves the document of its task until the task fails, which marks the
\* document, or every chunk is indexed.
LEMMA WorkerServes ==
    ASSUME Calm, IInv, ServedInv, WorkerStep
    PROVE  ServedInv'
<1> USE DEF IInv
<1>0. ~DatabaseFails
  BY DEF Calm, DatabaseFails
<1>1. UNCHANGED <<topic, producer, rebuild, delete>>
  BY DEF WorkerStep, Take, MarkParsing, Parse, SaveChunks, IndexChunks, MarkIndexed,
         MarkFailed, kafka, api
<1>2. CASE Take
  <2>1. PICK d \in Doc : d = topic[position + 1]
    BY <1>2 DEF Take, TypeOK
  <2>2. /\ position \in Nat /\ position + 1 \in 1 .. Len(topic) /\ position' = position + 1
        /\ On("idle") /\ UNCHANGED <<row, index>>
    BY <1>2 DEF Take, TypeOK, stores
  <2>3. \A c \in Doc \ {d} : Waiting(c) => Waiting(c)'
    BY <1>1, <2>1, <2>2 DEF Waiting
  <2>4. \A c \in Doc \ {d} : Served(c) => Served(c)'
    BY <1>1, <2>2, <2>3 DEF Served, At, On
  <2>5. Present(d) => On("loaded")' /\ worker'.doc = d
    BY <1>0, <1>2, <2>1 DEF Take, On
  <2>6. Present(d) => Served(d)'
    BY <2>5 DEF Served, On
  <2>7. ~On("indexed")'
    BY <1>0, <1>2, <2>2 DEF Take, On
  <2> QED BY <1>1, <2>2, <2>4, <2>6, <2>7 DEF ServedInv, Present
<1>3. CASE ~On("idle")
  <2>1. PICK d \in Doc : d = worker.doc
    BY <1>3, WorkerAt
  <2>2. UNCHANGED position
    BY <1>3, <2>1 DEF WorkerStep, Take, MarkParsing, Parse, SaveChunks, IndexChunks,
         MarkIndexed, MarkFailed, kafka
  <2>3. \A c \in Doc \ {d} : row'[c] = row[c] /\ index'[c] = index[c]
    <3>1. row' = row \/ \E st \in DocStatus : row' = [row EXCEPT ![d] = st]
      BY <1>3, <2>1 DEF WorkerStep, Take, MarkParsing, Parse, SaveChunks, IndexChunks, MarkIndexed,
         MarkFailed, stores, Update, DocStatus
    <3>2. index' = index \/ \E S : index' = [index EXCEPT ![d] = S]
      BY <1>3, <2>1 DEF WorkerStep, Take, MarkParsing, Parse, SaveChunks, IndexChunks, MarkIndexed,
         MarkFailed, stores
    <3> QED BY <3>1, <3>2 DEF TypeOK
  <2>4. worker' = Idle \/ (worker'.doc = d /\ ~On("idle")')
    BY <1>3, <2>1, WorkerAt DEF WorkerStep, Take, MarkParsing, Parse, SaveChunks, IndexChunks,
         MarkIndexed, MarkFailed, WorkerGo, Handled, On
  <2>5. \A c \in Doc \ {d} : Served(c) => Served(c)'
    BY <1>1, <2>1, <2>2, <2>3, <2>4 DEF Served, At, Waiting, On, Idle
  <2>6. Present(d)' => Present(d)
    <3>1. row' = row \/ Present(d)
      BY <1>3, <2>1 DEF WorkerStep, Take, MarkParsing, Parse, SaveChunks, IndexChunks, MarkIndexed,
         MarkFailed, stores, Update, Updatable
    <3> QED BY <3>1 DEF Present
  <2>7. ASSUME Present(d)', row'[d] = "indexed" \/ On("indexed")'
        PROVE  Served(d)'
    <3>1. CASE worker' = Idle
      <4>1. MarkIndexed /\ On("indexed") /\ UNCHANGED index
        BY <1>0, <2>1, <2>2, <2>6, <2>7, <3>1, WorkerAt
        DEF WorkerStep, Take, MarkParsing, Parse, SaveChunks, IndexChunks, MarkIndexed,
            MarkFailed, WorkerGo, On, Idle, TypeOK
      <4>2. Served(d)
        BY <2>1, <2>2, <2>6, <2>7, <4>1 DEF ServedInv
      <4> QED BY <1>1, <2>1, <2>2, <4>1, <4>2 DEF Served, At, Waiting, On
    <3>2. CASE worker'.doc = d /\ ~On("idle")' /\ ~On("indexed")'
      BY <3>2 DEF Served
    <3>3. CASE On("indexed")'
      <4>1. index'[d] = Chunk
        BY <1>3, <2>1, <2>2, <3>3, WorkerAt
        DEF WorkerStep, Take, MarkParsing, Parse, SaveChunks, IndexChunks, MarkIndexed,
            MarkFailed, WorkerGo, Handled, On, Idle, TypeOK
      <4>2. worker'.doc = d
        BY <2>4, <3>3 DEF On, Idle
      <4> QED BY <4>1, <4>2 DEF Served
    <3> QED BY <2>4, <3>1, <3>2, <3>3
  <2>8. \A c \in Doc \ {d} : ~(On("indexed")' /\ worker'.doc = c)
    BY <2>4 DEF On, Idle
  <2> QED BY <1>1, <2>2, <2>3, <2>5, <2>7, <2>8 DEF ServedInv, Present
<1>4. On("idle") => Take
  BY DEF WorkerStep, MarkParsing, Parse, SaveChunks, IndexChunks, MarkIndexed, MarkFailed, On
<1> QED BY <1>2, <1>3, <1>4

LEMMA RestServes ==
    ASSUME Calm, ServedInv, AutoCommit \/ WorkerCrash \/ ApiCrash \/ UNCHANGED vars
    PROVE  ServedInv'
<1>1. ~WorkerCrash /\ ~ApiCrash
  BY DEF Calm, WorkerCrash, ApiCrash, Crash
<1>2. UNCHANGED <<row, index, topic, position, producer, delete, rebuild, worker>>
  BY <1>1 DEF AutoCommit, vars, stores, kafka, api
<1> QED BY <1>2 DEF ServedInv, Served, Present, Waiting, At, On

\* Whatever the requests and the worker do to one document at the same time, INDEXED
\* means searchable once all is quiet, if no process dies and Kafka takes every task.
THEOREM IndexedIsSearchableHolds ==
    ASSUME Calm
    PROVE  Spec => []IndexedIsSearchable
<1>1. Init => ServedInv
  BY DEF Init, ServedInv, Calm, Present, DocStatus
<1>2. IInv /\ ServedInv /\ [Next]_vars => ServedInv'
  BY UploadServes, RebuildServes, DeleteServes, WorkerServes, RestServes DEF Next
<1>3. IInv /\ ServedInv => IndexedIsSearchable
  <2> SUFFICES ASSUME ServedInv, NEW d \in Doc, Settled(d), row[d] = "indexed"
               PROVE  index[d] = Chunk
    BY DEF IndexedIsSearchable
  <2>1. Served(d)
    BY DEF ServedInv, Present, DocStatus
  <2> QED BY <2>1 DEF Served, Settled, At, On
<1> QED BY <1>1, <1>2, <1>3, InitInv, NextInv, PTL DEF Spec
=============================================================================
