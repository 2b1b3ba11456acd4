----------------------------- MODULE SearchIndex -----------------------------
(***************************************************************************)
(* The Elasticsearch client of each process and the knowledge index that    *)
(* they share (core/elasticsearch.py): connecting at startup or at the      *)
(* first use, creating the index or creating it anew when its mapping does  *)
(* not fit, and the documents that are written meanwhile.                   *)
(*                                                                          *)
(* What a task has left to do is a sequence of steps, one for each call to  *)
(* Elasticsearch; tasks of one process interleave between the steps.  A     *)
(* step may find the service unreachable.                                   *)
(***************************************************************************)
EXTENDS Naturals, SequencesExt

CONSTANTS
    Task,        \* documents to process, and the startup of the API
    Home,        \* the process that each runs in: "api" or "worker"
    Startup,     \* the task that is the startup of the API
    MaxFailures, \* calls that fail
    None

SearchIndexAssumption ==
    /\ Home \in [Task -> {"api", "worker"}]
    /\ Startup \in Task /\ Home[Startup] = "api"
    /\ MaxFailures \in Nat
    /\ None \notin [mapping : {"right", "other", "dynamic"}, analyzer : {"cjk", "ik"},
                    docs : SUBSET Task]

VARIABLES
    index,    \* the knowledge index: its mapping, its analyzer, its documents; or None
    client,   \* each process has a client, which may not be initialized yet
    analyzer, \* es_analyzer of each process
    todo,     \* what is left of each task
    status,   \* of the document of each task
    failures, \* calls that have failed
    erred,    \* a check of the index ended with an error (history)
    stale,    \* an index that fitted was deleted (history)
    early,    \* a task was given a client that was not initialized (history)
    plain     \* the analyzer could not be asked for (history)

vars == <<index, client, analyzer, todo, status, failures, erred, stale, early, plain>>

Process == {"api", "worker"}
Label == {"get", "info", "analyze", "check", "mapping", "recreate", "delete", "create",
          "checked", "connected", "write"}

TypeOK ==
    /\ index \in {None} \cup
          [mapping : {"right", "other", "dynamic"}, analyzer : {"cjk", "ik"},
           docs : SUBSET Task]
    /\ client \in [Process -> BOOLEAN]
    /\ analyzer \in [Process -> {"cjk", "ik"}]
    /\ todo \in [Task -> Seq(Label)]
    /\ status \in [Task -> {"waiting", "running", "indexed", "failed"}]
    /\ failures \in 0 .. MaxFailures
    /\ erred \in BOOLEAN /\ stale \in BOOLEAN /\ early \in BOOLEAN /\ plain \in BOOLEAN

\* DocumentProcessor.process checks the index before it writes, KnowledgeService.
\* build_knowledge_base does not; each asks for the client anew for each call.
Steps(t) ==
    IF t = Startup THEN <<"info", "connected">>
    ELSE IF Home[t] = "worker" THEN <<"get", "check", "get", "write">>
    ELSE <<"get", "write">>

Init ==
    /\ index \in {None} \cup [mapping : {"right", "other"}, analyzer : {"ik"}, docs : {{}}]
    /\ client = [p \in Process |-> FALSE]
    /\ analyzer = [p \in Process |-> "cjk"]
    /\ todo = [t \in Task |-> Steps(t)]
    /\ status = [t \in Task |-> "waiting"]
    /\ failures = 0
    /\ erred = FALSE /\ stale = FALSE /\ early = FALSE /\ plain = FALSE

---------------------------------------------------------------------------
(* Steps.  "checked" and "connected" are the ends of the try blocks of        *)
(* _create_index_if_not_exists and initialize in what is left of a task that *)
(* has entered them; passing them takes no step.                            *)

Turn(t, label) == todo[t] # <<>> /\ Head(todo[t]) = label /\ status[t] = "running"

Ends == {"checked", "connected"}
Goto(t, steps) ==
    LET next == SelectInSeq(steps, LAMBDA l : l \notin Ends)
    IN  todo' = [todo EXCEPT ![t] =
                   IF next = 0 THEN <<>> ELSE SubSeq(steps, next, Len(steps))]

Then(t, steps) == Goto(t, steps \o Tail(todo[t]))

\* What is left behind the innermost block of a kind.
Beyond(steps, end) == SubSeq(steps, SelectInSeq(steps, LAMBDA l : l = end) + 1, Len(steps))

Fails == failures < MaxFailures /\ failures' = failures + 1

\* An exception is logged at the end of a check, or else it ends the document.
RaiseBefore(t, steps) ==
    IF "checked" \in Range(steps)
    THEN /\ Goto(t, Beyond(steps, "checked"))
         /\ erred' = TRUE
         /\ UNCHANGED status
    ELSE /\ Goto(t, <<>>)
         /\ status' = [status EXCEPT ![t] = "failed"]
         /\ UNCHANGED erred
Raise(t) == RaiseBefore(t, todo[t])

\* The API serves once its startup is over; the worker takes one document at a time.
Begin(t) ==
    /\ status[t] = "waiting"
    /\ IF Home[t] = "api"
       THEN t # Startup => todo[Startup] = <<>>
       ELSE \A u \in Task : Home[u] = "worker" => status[u] # "running"
    /\ status' = [status EXCEPT ![t] = "running"]
    /\ client' = IF t = Startup THEN [client EXCEPT !["api"] = TRUE] ELSE client
    /\ UNCHANGED <<index, analyzer, todo, failures, erred, stale, early, plain>>

Initializing(p) ==
    \E t \in Task : Home[t] = p /\ status[t] = "running" /\ "connected" \in Range(todo[t])

\* get_elasticsearch: a client that is there is returned, initialized or not.
GetElasticsearch(t) ==
    LET p == Home[t]
    IN  /\ Turn(t, "get")
        /\ client' = [client EXCEPT ![p] = TRUE]
        /\ IF client[p]
           THEN /\ Then(t, <<>>)
                /\ early' = (early \/ (Initializing(p) /\ "connected" \notin Range(todo[t])))
           ELSE Then(t, <<"info", "connected">>) /\ UNCHANGED early
        /\ UNCHANGED <<index, analyzer, status, failures, erred, stale, plain>>

\* Mutant: the index is created before the analyzer is known.
InfoSwapped(t) ==
    /\ Turn(t, "info")
    /\ \/ /\ Then(t, <<"check", "analyze">>)
          /\ UNCHANGED <<client, status, failures, erred>>
       \/ /\ Fails
          /\ client' = [client EXCEPT ![Home[t]] = FALSE]
          /\ IF t = Startup
             THEN Goto(t, <<>>) /\ UNCHANGED <<status, erred>>
             ELSE RaiseBefore(t, Beyond(todo[t], "connected"))
    /\ UNCHANGED <<index, analyzer, stale, early, plain>>

\* initialize: a service that does not answer takes the client away again, which
\* startup survives and get_elasticsearch does not.
Info(t) ==
    /\ Turn(t, "info")
    /\ \/ /\ Then(t, <<"analyze", "check">>)
          /\ UNCHANGED <<client, status, failures, erred>>
       \/ /\ Fails
          /\ client' = [client EXCEPT ![Home[t]] = FALSE]
          /\ IF t = Startup
             THEN Goto(t, <<>>) /\ UNCHANGED <<status, erred>>
             ELSE RaiseBefore(t, Beyond(todo[t], "connected"))
    /\ UNCHANGED <<index, analyzer, stale, early, plain>>

DetectAnalyzer(t) ==
    /\ Turn(t, "analyze")
    /\ Then(t, <<>>)
    /\ \/ /\ analyzer' = [analyzer EXCEPT ![Home[t]] = "ik"]
          /\ UNCHANGED <<failures, plain>>
       \/ Fails /\ plain' = TRUE /\ UNCHANGED analyzer
    /\ UNCHANGED <<index, client, status, erred, stale, early>>

---------------------------------------------------------------------------
(* The index.                                                               *)

CheckExists(t) ==
    /\ Turn(t, "check")
    /\ \/ /\ Then(t, <<IF index = None THEN "create" ELSE "mapping", "checked">>)
          /\ UNCHANGED <<failures, erred>>
       \/ /\ Fails /\ erred' = TRUE
          /\ Then(t, <<>>)
    /\ UNCHANGED <<index, client, analyzer, status, stale, early, plain>>

Mapping == IF index = None THEN "none" ELSE index.mapping

\* Whether the mapping that Elasticsearch made up itself fits depends on its version.
ReadMapping(t) ==
    /\ Turn(t, "mapping")
    /\ \/ /\ \/ Mapping \in {"right", "dynamic"} /\ Then(t, <<>>)
             \/ Mapping \in {"other", "dynamic"} /\ Then(t, <<"get", "recreate">>)
          /\ UNCHANGED <<failures, erred, status>>
       \/ index = None /\ Raise(t) /\ UNCHANGED failures
       \/ Fails /\ Raise(t)
    /\ UNCHANGED <<index, client, analyzer, stale, early, plain>>

\* recreate_knowledge_index, which does not look at the mapping again.
RecreateExists(t) ==
    /\ Turn(t, "recreate")
    /\ \/ /\ Then(t, IF index = None THEN <<"create">> ELSE <<"delete", "create">>)
          /\ UNCHANGED <<failures, erred, status>>
       \/ Fails /\ Raise(t)
    /\ UNCHANGED <<index, client, analyzer, stale, early, plain>>

DeleteIndex(t) ==
    /\ Turn(t, "delete")
    /\ \/ /\ index # None
          /\ index' = None
          /\ stale' = (stale \/ Mapping = "right")
          /\ Then(t, <<>>)
          /\ UNCHANGED <<failures, erred, status>>
       \/ index = None /\ Raise(t) /\ UNCHANGED <<index, failures, stale>>
       \/ Fails /\ Raise(t) /\ UNCHANGED <<index, stale>>
    /\ UNCHANGED <<client, analyzer, early, plain>>

\* The mapping for the configured dimension, with the analyzer of the process.
NewIndex(t) == [mapping |-> "right", analyzer |-> analyzer[Home[t]], docs |-> {}]

\* An index that another task has created meanwhile is an error, which is logged.
CreateIndex(t) ==
    /\ Turn(t, "create")
    /\ \/ /\ index = None
          /\ index' = NewIndex(t)
          /\ Then(t, <<>>)
          /\ UNCHANGED <<failures, erred, status>>
       \/ index # None /\ Raise(t) /\ UNCHANGED <<index, failures>>
       \/ Fails /\ Raise(t) /\ UNCHANGED index
    /\ UNCHANGED <<client, analyzer, stale, early, plain>>

\* Elasticsearch makes up an index that is missing; one for vectors of another length
\* takes no document.
IndexDocument(t) ==
    /\ Turn(t, "write")
    /\ \/ /\ Mapping # "other"
          /\ index' = IF index = None
                      THEN [mapping |-> "dynamic", analyzer |-> "cjk", docs |-> {t}]
                      ELSE [index EXCEPT !.docs = @ \cup {t}]
          /\ status' = [status EXCEPT ![t] = "indexed"]
          /\ Goto(t, <<>>)
          /\ UNCHANGED <<failures, erred>>
       \/ Mapping = "other" /\ Raise(t) /\ UNCHANGED <<index, failures>>
       \/ Fails /\ Raise(t) /\ UNCHANGED index
    /\ UNCHANGED <<client, analyzer, stale, early, plain>>

Next ==
    \E t \in Task :
        \/ Begin(t) \/ GetElasticsearch(t) \/ Info(t) \/ DetectAnalyzer(t)
        \/ CheckExists(t) \/ ReadMapping(t) \/ RecreateExists(t) \/ DeleteIndex(t)
        \/ CreateIndex(t) \/ IndexDocument(t)

Spec == Init /\ [][Next]_vars

---------------------------------------------------------------------------
(* Properties.                                                              *)

\* A document that says it is indexed is in an index that fits, unless a check of the
\* index ended with an error, an index that fitted was deleted, or a task was given a
\* client before the index had been checked.
IndexedIsFound ==
    \/ erred \/ stale \/ early
    \/ \A t \in Task \ {Startup} :
          status[t] = "indexed" => Mapping = "right" /\ t \in index.docs

\* An index that fits has the analyzer for Chinese that is installed, unless asking
\* for it failed or a task was given a client before it had been asked for.
AnalyzerIsKnown ==
    Mapping = "right" /\ ~plain /\ ~early => index.analyzer = "ik"

IndexHolds == IndexedIsFound /\ AnalyzerIsKnown

---------------------------------------------------------------------------
(* The inductive invariant.                                                 *)

\* Which steps follow each other in what is left of a task: a client is asked for once
\* more only before the index is created anew, what can fail in a check is inside it,
\* and the document is written last.
Later(steps, i) == {steps[j] : j \in i + 1 .. Len(steps)}
Followed(steps, i, label) == i < Len(steps) /\ steps[i + 1] = label

InPlace(steps, i) ==
    /\ steps[i] = "get" =>
          Followed(steps, i, "recreate") \/ "connected" \notin Later(steps, i)
    /\ steps[i] = "analyze" => Followed(steps, i, "check")
    /\ steps[i] = "delete" => Followed(steps, i, "create")
    /\ steps[i] \in {"mapping", "recreate", "delete", "create"} =>
          "checked" \in Later(steps, i)
    /\ steps[i] = "write" => i = Len(steps)

InOrder(steps) == \A i \in 1 .. Len(steps) : InPlace(steps, i)

OrderInv ==
    \A t \in Task :
        /\ InOrder(todo[t])
        /\ status[t] = "waiting" => todo[t] = Steps(t)

Running == {t \in Task : status[t] = "running"}

\* Steps of a check that is still to make the index fit.
Pending == {"info", "check", "mapping", "recreate", "delete", "create"}

\* As long as no index fits, a task that will write is still to get its client or to check
\* the index, and a process that has a client has a task that is still to check it.
CheckInv ==
    erred \/ stale \/ early \/
        /\ Mapping # "dynamic"
        /\ Mapping # "right" =>
              /\ \A t \in Running :
                    /\ "write" \in Range(todo[t]) =>
                          Range(todo[t]) \cap (Pending \cup {"get"}) # {}
                    /\ "connected" \in Range(todo[t]) => Range(todo[t]) \cap Pending # {}
              /\ \A p \in Process : client[p] => Initializing(p)

\* Once a process has a client that nobody initializes, and in every check, the analyzer
\* is known.
AskedInv ==
    plain \/ early \/
        /\ \A t \in Running :
              (\/ Range(todo[t]) \cap {"mapping", "recreate", "delete", "create", "checked"} # {}
               \/ todo[t] # <<>> /\ Head(todo[t]) = "check") => analyzer[Home[t]] = "ik"
        /\ \A p \in Process : client[p] /\ analyzer[p] = "cjk" => Initializing(p)

IInv == TypeOK /\ OrderInv /\ CheckInv /\ AskedInv /\ IndexHolds
=============================================================================
