---------------------------- MODULE ChatPipeline ----------------------------
(***************************************************************************)
(* run_rag_pipeline (api/v1/endpoints/chat.py) for one question text asked  *)
(* several times, at once or one after the other, in one conversation, with *)
(* RAGPipeline.search_knowledge_base and the two caches in Redis, and the   *)
(* requests that clear, delete or unbind the conversation.                  *)
(*                                                                          *)
(* The chat endpoint and RAGPipeline each own a SemanticCache object, but   *)
(* both write the same keys: one question has one entry.  The same text is  *)
(* also searched by the agent's tools, with no conversation.                *)
(*                                                                          *)
(* A client that leaves does not stop the pipeline, which runs as a task of *)
(* its own.  What can stop it is one failure: a closed session, an error of *)
(* the database or a restart.  Foreign keys are enforced.                   *)
(***************************************************************************)
EXTENDS Naturals, Sequences, FiniteSets

CONSTANTS
    Request,  \* the times the question is asked or searched
    MaxEdits, \* bound on clears, deletes and unbinds of the conversation
    None

VARIABLES
    pc,        \* where each request is
    kind,      \* what each request under way is
    found,     \* the conversation when the request looked: bound; its row, until used
    vector,    \* requests for which the embedding service answered
    results,   \* search results of each request: whose retrieval, of what
    reply,     \* the text each request ends with
    cached,    \* requests answered from the semantic cache
    row,       \* the conversation's row exists
    binding,   \* its settings name documents
    messages,  \* its messages in the order of their commits
    exact,     \* RetrievalCache: results of the question, or None
    semantic,  \* SemanticCache: the entry of the question, or None
    lastUsage, \* RAGPipeline._last_token_usage
    usage,     \* the token usage recorded for each request
    alone,     \* requests that no other one has overlapped (history)
    untouched, \* asked and the conversation not emptied since (history)
    edits

perRequest == <<pc, kind, found, vector, results, reply, cached, alone>>
conversation == <<row, binding, messages>>
caches == <<exact, semantic>>
tokens == <<lastUsage, usage>>
vars == <<perRequest, conversation, caches, tokens, untouched, edits>>

Kind == {"general", "files", "strict", "search"}
Results == [of : {"index", "documents"}, empty : BOOLEAN]
Entry == [answer : {"", "text", "error"}, sources : Results]
ChatPipelineAssumption == None \notin Request \cup Kind /\ MaxEdits \in Nat

Place == {"idle", "ask", "lookup", "search", "retrieve", "fill", "bind", "generate",
          "save", "usage", "store", "done", "failed"}
Active == {r \in Request : pc[r] \notin {"idle", "done", "failed"}}

TypeOK ==
    /\ pc \in [Request -> Place]
    /\ kind \in [Request -> Kind \cup {None}]
    /\ found \in [Request -> [row : BOOLEAN, bound : BOOLEAN]]
    /\ vector \subseteq Request /\ cached \subseteq Request /\ alone \subseteq Request
    /\ results \in [Request -> Results]
    /\ reply \in [Request -> {"", "text", "error", None}]
    /\ row \in BOOLEAN /\ binding \in BOOLEAN
    /\ messages \in Seq([by : Request, role : {"user", "assistant"}])
    /\ exact \in Results \cup {None}
    /\ semantic \in Entry \cup {None}
    /\ lastUsage \in Request \cup {None}
    /\ usage \in [Request -> Request \cup {None}]
    /\ untouched \subseteq Request
    /\ edits \in 0 .. MaxEdits

NoResults == [of |-> "index", empty |-> TRUE]
Nothing == [row |-> FALSE, bound |-> FALSE]

Init ==
    /\ pc = [r \in Request |-> "idle"]
    /\ kind = [r \in Request |-> None]
    /\ found = [r \in Request |-> Nothing]
    /\ vector = {} /\ cached = {} /\ alone = {}
    /\ results = [r \in Request |-> NoResults]
    /\ reply = [r \in Request |-> None]
    /\ row \in BOOLEAN
    /\ binding = FALSE
    /\ messages = <<>>
    /\ exact = None /\ semantic = None
    /\ lastUsage = None
    /\ usage = [r \in Request |-> None]
    /\ untouched = {}
    /\ edits = 0

Goto(r, place) == pc' = [pc EXCEPT ![r] = place]

\* A request that is over takes what it knew with it.
Leave(r, place) ==
    /\ Goto(r, place)
    /\ kind' = [kind EXCEPT ![r] = None]
    /\ found' = [found EXCEPT ![r] = Nothing]
    /\ results' = [results EXCEPT ![r] = NoResults]
    /\ reply' = [reply EXCEPT ![r] = None]
    /\ usage' = [usage EXCEPT ![r] = None]
    /\ vector' = vector \ {r}
    /\ cached' = cached \ {r}
    /\ alone' = alone \ {r}

\* active_doc_ids is not empty: files come with the question, or else the
\* conversation is bound to some.
OnDocuments(r) == kind[r] = "files" \/ found[r].bound
General(r) == ~OnDocuments(r) /\ kind[r] # "strict"

---------------------------------------------------------------------------
(* The question.                                                           *)

\* get_or_create_session looks for the row; the embedding service answers or not.
Open(r, k) ==
    /\ pc[r] = "idle"
    /\ kind' = [kind EXCEPT ![r] = k]
    /\ found' = [found EXCEPT ![r] =
          [row |-> row, bound |-> k # "search" /\ row /\ binding]]
    /\ vector' \in {vector, vector \cup {r}}
    /\ alone' = IF Active = {} THEN {r} ELSE {}
    /\ Goto(r, IF k = "search" THEN "search" ELSE "ask")
    /\ UNCHANGED <<results, reply, cached, conversation, caches, tokens, untouched, edits>>

\* The question is committed, with the row when there was none.  A row made or
\* deleted in between is a violated constraint.
Ask(r) ==
    /\ pc[r] = "ask"
    /\ row = found[r].row
    /\ row' = TRUE
    /\ messages' = Append(messages, [by |-> r, role |-> "user"])
    /\ untouched' = untouched \cup {r}
    /\ found' = [found EXCEPT ![r].row = FALSE]
    /\ Goto(r, IF General(r) THEN "lookup" ELSE "search")
    /\ UNCHANGED <<kind, vector, results, reply, cached, alone, binding, caches,
                   tokens, edits>>

\* The semantic cache of the endpoint: an entry is the reply, whatever its text is.
AnswerFromCache(r) ==
    /\ pc[r] = "lookup"
    /\ r \in vector /\ semantic # None
    /\ reply' = [reply EXCEPT ![r] = semantic.answer]
    /\ cached' = cached \cup {r}
    /\ Goto(r, "save")
    /\ UNCHANGED <<kind, found, vector, results, alone, conversation, caches, tokens,
                   untouched, edits>>

MissCache(r) ==
    /\ pc[r] = "lookup"
    /\ r \notin vector \/ semantic = None
    /\ Goto(r, "search")
    /\ UNCHANGED <<kind, found, vector, results, reply, cached, alone, conversation,
                   caches, tokens, untouched, edits>>

---------------------------------------------------------------------------
(* search_knowledge_base.                                                  *)

After(r) == IF kind[r] = "files" THEN "bind" ELSE "generate"

\* Strict mode without documents searches nothing.
SkipSearch(r) ==
    /\ pc[r] = "search"
    /\ kind[r] = "strict" /\ ~OnDocuments(r)
    /\ Goto(r, "generate")
    /\ UNCHANGED <<kind, found, vector, results, reply, cached, alone, conversation,
                   caches, tokens, untouched, edits>>

\* Without documents the exact cache comes first, then the sources of the semantic
\* entry, which the exact cache takes over.
SearchCaches(r) ==
    /\ pc[r] = "search"
    /\ General(r)
    /\ \/ exact # None /\ results' = [results EXCEPT ![r] = exact] /\ UNCHANGED exact
       \/ /\ exact = None /\ r \in vector /\ semantic # None
          /\ results' = [results EXCEPT ![r] = semantic.sources]
          /\ exact' = IF semantic.sources.empty THEN None ELSE semantic.sources
    /\ Goto(r, After(r))
    /\ UNCHANGED <<kind, found, vector, reply, cached, alone, conversation, semantic,
                   tokens, untouched, edits>>

\* The retrieval itself; after its last retry it ends with no result.
Retrieve(r) ==
    /\ pc[r] = "search"
    /\ \/ OnDocuments(r)
       \/ General(r) /\ exact = None /\ (r \notin vector \/ semantic = None)
    /\ \E none \in BOOLEAN :
          results' = [results EXCEPT ![r] =
             [of |-> IF OnDocuments(r) THEN "documents" ELSE "index", empty |-> none]]
    /\ Goto(r, "fill")
    /\ UNCHANGED <<kind, found, vector, reply, cached, alone, conversation, caches,
                   tokens, untouched, edits>>

\* The exact cache is kept from searches in documents; the semantic one is not, and
\* takes an entry without an answer.
FillCaches(r) ==
    /\ pc[r] = "fill"
    /\ exact' = IF OnDocuments(r) THEN exact ELSE results[r]
    /\ semantic' = IF r \in vector /\ ~results[r].empty
                   THEN [answer |-> "", sources |-> results[r]]
                   ELSE semantic
    /\ Goto(r, After(r))
    /\ UNCHANGED <<kind, found, vector, results, reply, cached, alone, conversation,
                   tokens, untouched, edits>>

\* bind_docs_to_session: a deleted conversation is not bound.
Bind(r) ==
    /\ pc[r] = "bind"
    /\ binding' = row
    /\ Goto(r, "generate")
    /\ UNCHANGED <<kind, found, vector, results, reply, cached, alone, row, messages,
                   caches, tokens, untouched, edits>>

\* A search of the agent's tools ends with its results.
EndSearch(r) ==
    /\ pc[r] = "generate" /\ kind[r] = "search"
    /\ Leave(r, "done")
    /\ UNCHANGED <<conversation, caches, lastUsage, untouched, edits>>

---------------------------------------------------------------------------
(* The answer.                                                             *)

\* chat_stream never raises: it ends with the model's text and reports its tokens,
\* or with the text of an apology and reports none.  The "message" event is sent.
Generate(r) ==
    /\ pc[r] = "generate" /\ kind[r] # "search"
    /\ \/ reply' = [reply EXCEPT ![r] = "text"] /\ lastUsage' = r
       \/ reply' = [reply EXCEPT ![r] = "error"] /\ UNCHANGED lastUsage
    /\ Goto(r, "save")
    /\ UNCHANGED <<kind, found, vector, results, cached, alone, conversation, caches,
                   usage, untouched, edits>>

\* Mutant: an answer from the cache is sent and not saved.
SaveAnswerUncached(r) ==
    /\ pc[r] = "save"
    /\ row
    /\ IF r \in cached
       THEN Leave(r, "done") /\ UNCHANGED <<messages, lastUsage>>
       ELSE /\ messages' = Append(messages, [by |-> r, role |-> "assistant"])
            /\ Goto(r, "usage")
            /\ UNCHANGED <<kind, found, vector, results, reply, cached, alone, tokens>>
    /\ UNCHANGED <<row, binding, caches, untouched, edits>>

\* The answer is committed; a deleted conversation violates its foreign key.
SaveAnswer(r) ==
    /\ pc[r] = "save"
    /\ row
    /\ messages' = Append(messages, [by |-> r, role |-> "assistant"])
    /\ IF r \in cached
       THEN Leave(r, "done") /\ UNCHANGED lastUsage
       ELSE Goto(r, "usage")
            /\ UNCHANGED <<kind, found, vector, results, reply, cached, alone, tokens>>
    /\ UNCHANGED <<row, binding, caches, untouched, edits>>

\* What the pipeline reported last is recorded; a failure is only logged.
RecordUsage(r) ==
    /\ pc[r] = "usage"
    /\ usage' \in {usage, [usage EXCEPT ![r] = lastUsage]}
    /\ Goto(r, "store")
    /\ UNCHANGED <<kind, found, vector, results, reply, cached, alone, conversation,
                   caches, lastUsage, untouched, edits>>

\* The answer of a general question goes into the semantic cache.
StoreAnswer(r) ==
    /\ pc[r] = "store"
    /\ semantic' = IF General(r) /\ r \in vector
                   THEN [answer |-> reply[r], sources |-> results[r]]
                   ELSE semantic
    /\ Leave(r, "done")
    /\ UNCHANGED <<conversation, exact, lastUsage, untouched, edits>>

\* An exception ends the pipeline, and the client, if still there, gets an error.
Fail(r) ==
    /\ r \in Active
    /\ Leave(r, "failed")
    /\ UNCHANGED <<conversation, caches, lastUsage, untouched, edits>>

---------------------------------------------------------------------------
(* Around it.                                                              *)

Edit == edits < MaxEdits /\ edits' = edits + 1

ClearConversation ==
    /\ Edit /\ row
    /\ messages' = <<>> /\ untouched' = {}
    /\ UNCHANGED <<perRequest, row, binding, caches, tokens>>

DeleteConversation ==
    /\ Edit /\ row
    /\ row' = FALSE /\ binding' = FALSE
    /\ messages' = <<>> /\ untouched' = {}
    /\ UNCHANGED <<perRequest, caches, tokens>>

UnbindDocuments ==
    /\ Edit /\ row /\ binding
    /\ binding' = FALSE
    /\ UNCHANGED <<perRequest, row, messages, caches, tokens, untouched>>

ExpireExact ==
    /\ exact # None
    /\ exact' = None
    /\ UNCHANGED <<perRequest, conversation, semantic, tokens, untouched, edits>>

ExpireSemantic ==
    /\ semantic # None
    /\ semantic' = None
    /\ UNCHANGED <<perRequest, conversation, exact, tokens, untouched, edits>>

Next ==
    \/ \E r \in Request :
          \/ \E k \in Kind : Open(r, k)
          \/ Ask(r) \/ AnswerFromCache(r) \/ MissCache(r)
          \/ SkipSearch(r) \/ SearchCaches(r) \/ Retrieve(r) \/ FillCaches(r) \/ Bind(r)
          \/ EndSearch(r)
          \/ Generate(r) \/ SaveAnswer(r) \/ RecordUsage(r) \/ StoreAnswer(r)
          \/ Fail(r)
    \/ ClearConversation \/ DeleteConversation \/ UnbindDocuments
    \/ ExpireExact \/ ExpireSemantic

Spec == Init /\ [][Next]_vars

---------------------------------------------------------------------------
(* Properties.                                                             *)

\* A question whose pipeline ended well is in the conversation with its answer
\* after it, once each, unless the conversation was emptied since it was asked.
AnsweredIsSaved ==
    \A r \in untouched : pc[r] = "done" =>
        LET places(role) == {i \in 1 .. Len(messages) : messages[i] = [by |-> r, role |-> role]}
        IN  \E i, j \in 1 .. Len(messages) :
                i < j /\ places("user") = {i} /\ places("assistant") = {j}

\* The tokens recorded for a request are those of its own answer, unless requests
\* overlapped or the model failed and reported none: then they are another's.
UsageIsOwn ==
    \A r \in alone : pc[r] = "store" /\ reply[r] = "text" => usage[r] \in {r, None}

\* SemanticCache.set stores "a Q&A pair" (cache.py:191): a reply that comes from
\* the cache is an answer.
CachedReplyIsAnswer == \A r \in cached : reply[r] # ""

(***************************************************************************)
(* The inductive invariant: what the conversation has of a question at each  *)
(* place of its request, and whose tokens a request on its own would record. *)
(***************************************************************************)
Question(r) == [by |-> r, role |-> "user"]
Answer(r) == [by |-> r, role |-> "assistant"]

Asked(r) ==
    \E i \in 1 .. Len(messages) :
        /\ messages[i] = Question(r)
        /\ \A k \in 1 .. Len(messages) : messages[k].by = r => k = i

Answered(r) ==
    \E i, j \in 1 .. Len(messages) :
        /\ i < j
        /\ messages[i] = Question(r) /\ messages[j] = Answer(r)
        /\ \A k \in 1 .. Len(messages) : messages[k].by = r => k \in {i, j}

ConversationInv ==
    \A r \in Request :
        /\ pc[r] \in {"idle", "ask"} =>
              r \notin untouched /\ \A i \in 1 .. Len(messages) : messages[i].by # r
        /\ kind[r] = "search" => pc[r] # "ask" /\ r \notin untouched
        /\ r \in untouched =>
              /\ pc[r] \in {"lookup", "search", "fill", "bind", "generate", "save"} => Asked(r)
              /\ pc[r] \in {"usage", "store", "done"} => Answered(r)

LoneInv ==
    /\ alone \subseteq Active
    /\ \A r \in alone : Active = {r}

TokensInv ==
    /\ \A r \in cached : pc[r] = "save"
    /\ \A r \in Request : pc[r] # "store" => usage[r] = None
    /\ \A r \in alone : reply[r] = "text" =>
          /\ pc[r] = "usage" \/ (pc[r] = "save" /\ r \notin cached) => lastUsage = r
          /\ pc[r] = "store" => usage[r] \in {r, None}
    /\ \A r \in Request :
          pc[r] \in {"save", "usage", "store"} => reply[r] \in {"", "text", "error"}

IInv == TypeOK /\ ConversationInv /\ LoneInv /\ TokensInv
=============================================================================
