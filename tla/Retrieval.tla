------------------------------ MODULE Retrieval ------------------------------
(***************************************************************************)
(* One retrieval of RAGPipeline.search_knowledge_base that neither cache    *)
(* answers (rag/pipeline.py, retriever.py, query_processor.py,              *)
(* reranker.py): the question and its sub-questions are searched one after  *)
(* the other, each by keywords and by vector at once, with retries.         *)
(*                                                                          *)
(* What Elasticsearch and the models answer is any answer of its kind.  A   *)
(* chunk has a text and a document; how much of the question its text       *)
(* covers is one of seven levels, which the thresholds of _post_process     *)
(* part: 0.005, 0.02, 0.05, 0.07, 0.10, 0.15.                               *)
(***************************************************************************)
EXTENDS Naturals, FiniteSets, SequencesExt

CONSTANTS
    Chunk,         \* the chunks that searches may find
    Document,      \* the document of each
    Embedded,      \* those with an embedding
    Coverages,     \* levels of the chunks that are tried
    MaxSubqueries, \* RAG_DECOMPOSITION_MAX_SUBQUERIES
    MaxRetries,    \* RAG_RETRIEVAL_MAX_RETRIES
    MaxRewrites,   \* RAG_QUERY_REWRITE_COUNT
    TopK, TopN,    \* what the caller asks for, and RAG_RERANK_TOP_N
    None

\* _compute_overlap, to the accuracy of the thresholds.
Overlap == [Chunk -> 0 .. 6]

RetrievalAssumption ==
    /\ IsFiniteSet(Chunk) /\ Embedded \subseteq Chunk
    /\ None \notin Seq(Chunk) \cup {"none", "question", "mixed"}
    /\ Coverages \subseteq Overlap
    /\ {MaxSubqueries, TopK, TopN, MaxRewrites} \subseteq Nat \ {0} /\ MaxRetries \in Nat

VARIABLES
    phase,     \* of the request
    strategy,  \* of the sub-question under way
    coverage,  \* level of each chunk
    subqueries,\* how many there are; the question itself is the first
    sub,       \* the one under way
    attempt,   \* of this sub-question
    keyword,   \* hits of the keyword search of this attempt, or None
    embedding, \* what became of the question's vector
    vector,    \* hits of the vector search of this attempt, or None
    kept,      \* what the sub-question returns
    merged,    \* results of the sub-questions so far
    results,   \* of the request
    repeated   \* the rerank service named a passage twice (history)

search == <<keyword, embedding, vector>>
vars == <<phase, strategy, coverage, subqueries, sub, attempt, search, kept, merged,
          results, repeated>>

Strategy == {"keyword_only", "hybrid", "hybrid_hyde"}
Ranked(S) == SetToAllKPermutations(S)
Fetch == IF TopK > TopN THEN TopK ELSE TopN

TypeOK ==
    /\ phase \in {"decompose", "search", "fallback", "kept", "rerank", "done"}
    /\ strategy \in Strategy
    /\ coverage \in Coverages
    /\ subqueries \in 1 .. MaxSubqueries /\ sub \in 1 .. subqueries
    /\ attempt \in 0 .. MaxRetries
    /\ keyword \in Ranked(Chunk) \cup {None}
    /\ vector \in Ranked(Chunk) \cup {None}
    /\ embedding \in {"none", "question", "mixed", None}
    /\ kept \in Ranked(Chunk)
    /\ merged \in Seq([sub : 1 .. MaxSubqueries, chunk : Chunk])
    /\ results \in Seq([sub : 1 .. MaxSubqueries, chunk : Chunk])
    /\ repeated \in BOOLEAN

Init ==
    /\ phase = "decompose"
    /\ strategy \in Strategy
    /\ coverage \in Coverages
    /\ subqueries = 1 /\ sub = 1 /\ attempt = 0
    /\ keyword = None /\ embedding = None /\ vector = None
    /\ kept = <<>> /\ merged = <<>> /\ results = <<>>
    /\ repeated = FALSE

\* A complex question, which is one for the whole pipeline, may be taken apart; an
\* answer of the model that cannot be read, or no model, leaves it whole.
DecomposeQuery ==
    /\ phase = "decompose"
    /\ subqueries' \in IF strategy = "hybrid_hyde" THEN 1 .. MaxSubqueries ELSE {1}
    /\ phase' = "search"
    /\ UNCHANGED <<strategy, coverage, sub, attempt, search, kept, merged, results, repeated>>

---------------------------------------------------------------------------
(* One attempt: HybridRetriever.retrieve.                                  *)

Position(list, c) == CHOOSE i \in 1 .. Len(list) : list[i] = c
Ahead(list, c, d) == Position(list, c) < Position(list, d)

\* What a list without duplicates has of a set, in its order.
Only(list, S) ==
    CHOOSE l \in SetToSeqs(ToSet(list) \cap S) :
        \A c, d \in ToSet(list) \cap S : Ahead(l, c, d) <=> Ahead(list, c, d)

\* The question, without punctuation, without its stop words, and as the model puts it
\* if it answers in time, no more than the limit in all.
Rewrites == 1 .. MaxRewrites

\* _keyword_hits: each rewriting of the question is searched; a chunk counts with
\* its best score, so that it stays behind one that every list with it puts ahead.
MergeRewrites(lists) ==
    LET found == UNION {ToSet(lists[i]) : i \in DOMAIN lists}
        beats(c, d) == \A i \in DOMAIN lists : d \in ToSet(lists[i]) =>
                           c \in ToSet(lists[i]) /\ Ahead(lists[i], c, d)
    IN  {list \in SetToSeqs(found) :
            \A c, d \in found : c # d /\ beats(c, d) => Ahead(list, c, d)}

\* _rrf_fuse: the sum of 1 / (60 + rank) over the lists, in millionths; equal sums in
\* the order of first sight.
Share(list, c) ==
    IF c \in ToSet(list) THEN 1000000 \div (60 + Position(list, c)) ELSE 0
Fused ==
    LET seen == keyword \o Only(vector, Chunk \ ToSet(keyword))
        score(c) == Share(keyword, c) + Share(vector, c)
    IN  CHOOSE list \in SetToSeqs(ToSet(seen)) :
            \A c, d \in ToSet(seen) :
                Ahead(list, c, d) <=> \/ score(c) > score(d)
                                      \/ score(c) = score(d) /\ Ahead(seen, c, d)

\* _mmr_select: some of the chunks with an embedding, in an order of its own; without
\* any, and without a vector of the question, nothing is selected or cut off.
MmrSelect(hits) ==
    LET candidates == ToSet(hits) \cap Embedded
        many == IF Cardinality(candidates) < Fetch THEN Cardinality(candidates) ELSE Fetch
    IN  IF embedding = "none" \/ candidates = {}
        THEN {hits}
        ELSE {list \in Ranked(candidates) : Len(list) = many}

\* What found a hit.  Hits that were not fused do not say.
ByKeyword(c, fused) == fused /\ c \in ToSet(keyword)
ByVector(c, fused) == fused /\ c \in ToSet(vector)

\* The level a chunk must have in the end: less when both searches found it.
Enough(c, fused) ==
    coverage[c] >= IF ByKeyword(c, fused) /\ ByVector(c, fused) THEN 4
                   ELSE IF ByKeyword(c, fused) THEN 5 ELSE 6

\* Which hits are relevant enough to be listed.  Below 0.05 that takes a score that is
\* not among the lowest, and a hit of vectors alone below 0.10 a word of the question in
\* its text, not in the name of its file: any may have the one and the other.
Relevant(hits, fused) ==
    LET vectorOnly(c) == ByVector(c, fused) /\ ~ByKeyword(c, fused)
        certain == {c \in ToSet(hits) : coverage[c] >= IF vectorOnly(c) THEN 5 ELSE 3}
        possible == {c \in ToSet(hits) : coverage[c] >= IF ByKeyword(c, fused) THEN 2
                                                        ELSE IF vectorOnly(c) THEN 0 ELSE 1}
    IN  {relevant \in SUBSET possible : certain \subseteq relevant}

\* Mutant: one chunk of a document is enough.
PostProcessOne(hits, fused, relevant) ==
    LET before(c) == {d \in ToSet(hits) : Document[d] = Document[c] /\ Ahead(hits, d, c)}
        listed == Only(hits, {c \in relevant : before(c) = {}})
        taken == SubSeq(listed, 1, IF Len(listed) < Fetch THEN Len(listed) ELSE Fetch)
    IN  Only(taken, {c \in Chunk : Enough(c, fused)})

\* _post_process: the first two hits of each document, whether they are any use or
\* not; of these the first top_k that are relevant; of these the ones that are good
\* enough, so that one that is not may have taken the place of one that is.
PostProcess(hits, fused, relevant) ==
    LET before(c) == {d \in ToSet(hits) : Document[d] = Document[c] /\ Ahead(hits, d, c)}
        listed == Only(hits, {c \in relevant : Cardinality(before(c)) < 2})
        taken == SubSeq(listed, 1, IF Len(listed) < Fetch THEN Len(listed) ELSE Fetch)
    IN  Only(taken, {c \in Chunk : Enough(c, fused)})

\* A simple question is searched by keywords alone, whose hits go on as they are.
KeywordHits ==
    /\ phase = "search" /\ keyword = None
    /\ \E rewrites \in Rewrites : \E lists \in [1 .. rewrites -> Ranked(Chunk)] :
          keyword' \in MergeRewrites(lists)
    /\ IF strategy = "keyword_only"
       THEN /\ \E relevant \in Relevant(keyword', FALSE) :
                  kept' = PostProcess(keyword', FALSE, relevant)
            /\ phase' = "kept"
       ELSE UNCHANGED <<kept, phase>>
    /\ UNCHANGED <<strategy, coverage, subqueries, sub, attempt, embedding, vector,
                   merged, results, repeated>>

\* Only a complex question is given a made-up answer.
HydeVectors == IF strategy = "hybrid_hyde" THEN {"mixed"} ELSE {}

\* The embedding service fails, or the vector is the question's, mixed for a complex
\* one with that of a made-up answer if the model gave one in time.
EmbedQuery ==
    /\ phase = "search" /\ strategy # "keyword_only" /\ embedding = None
    /\ embedding' \in {"none", "question"} \cup HydeVectors
    /\ vector' = IF embedding' = "none" THEN <<>> ELSE None
    /\ UNCHANGED <<phase, strategy, coverage, subqueries, sub, attempt, keyword, kept,
                   merged, results, repeated>>

VectorHits ==
    /\ phase = "search" /\ embedding # None /\ vector = None
    /\ vector' \in Ranked(Embedded)
    /\ UNCHANGED <<phase, strategy, coverage, subqueries, sub, attempt, keyword,
                   embedding, kept, merged, results, repeated>>

\* Both searches are in: fuse, select, filter.
Gathered ==
    /\ phase = "search" /\ strategy # "keyword_only"
    /\ keyword # None /\ vector # None
    /\ IF Fused = <<>>
       THEN phase' = "fallback" /\ UNCHANGED kept
       ELSE /\ \E hits \in MmrSelect(Fused) : \E relevant \in Relevant(hits, TRUE) :
                  kept' = PostProcess(hits, TRUE, relevant)
            /\ phase' = "kept"
    /\ UNCHANGED <<strategy, coverage, subqueries, sub, attempt, search, merged, results,
                   repeated>>

\* _fallback: a broad search, then a vector search that raises for a chunk without
\* an embedding; a failure is no hit.
Fallback ==
    /\ phase = "fallback"
    /\ \E hits \in Ranked(Chunk) : \E relevant \in Relevant(hits, FALSE) :
          kept' = PostProcess(hits, FALSE, relevant)
    /\ phase' = "kept"
    /\ UNCHANGED <<strategy, coverage, subqueries, sub, attempt, search, merged, results,
                   repeated>>

\* A search raises: the other's answer is no longer waited for, and the next attempt
\* starts over; after the last one the sub-question has found nothing.
SearchFails ==
    /\ phase = "search"
    /\ keyword = None \/ (embedding # None /\ vector = None)
    /\ keyword' = None /\ embedding' = None /\ vector' = None
    /\ IF attempt < MaxRetries
       THEN attempt' = attempt + 1 /\ UNCHANGED <<phase, kept>>
       ELSE phase' = "kept" /\ kept' = <<>> /\ UNCHANGED attempt
    /\ UNCHANGED <<strategy, coverage, subqueries, sub, merged, results, repeated>>

---------------------------------------------------------------------------
(* The results of all sub-questions.                                       *)

\* They are put one after the other: the documents that retrieve() returns have no
\* _id and no _source, so that none is recognised as a duplicate.  The next
\* sub-question is classified anew.
Merge ==
    /\ phase = "kept"
    /\ merged' = merged \o [i \in DOMAIN kept |-> [sub |-> sub, chunk |-> kept[i]]]
    /\ IF sub < subqueries
       THEN /\ sub' = sub + 1
            /\ strategy' \in Strategy
            /\ phase' = "search"
       ELSE phase' = "rerank" /\ UNCHANGED <<sub, strategy>>
    /\ attempt' = 0 /\ kept' = <<>>
    /\ keyword' = None /\ embedding' = None /\ vector' = None
    /\ UNCHANGED <<coverage, subqueries, results, repeated>>

\* What a model makes of the candidates: they may all have empty passages, so that
\* any order comes out, each candidate once.
Reordered(candidates) ==
    {[i \in DOMAIN candidates |-> candidates[order[i]]] :
        order \in SetToSeqs(DOMAIN candidates)}

\* _rerank_zhipu: the passages the service names, as often as it names them, and
\* those it does not name.
Named(candidates) ==
    BoundedSeq(DOMAIN candidates, Len(candidates))
NamedFirst(candidates, names) ==
    [i \in DOMAIN names |-> candidates[names[i]]]
    \o LET rest == Only([i \in DOMAIN candidates |-> i], DOMAIN candidates \ ToSet(names))
       IN  [i \in DOMAIN rest |-> candidates[rest[i]]]

\* _rerank_llm: the same, but a number the model repeats counts once.
Numbered(candidates) ==
    {NamedFirst(candidates, names) : names \in {n \in Named(candidates) : IsInjective(n)}}

\* rerank: the local model, else the service, else a language model, else as it was.
\* The first top_n are reordered and the others follow; the caller gets top_k.
Rerank ==
    LET many == IF Len(merged) < TopN THEN Len(merged) ELSE TopN
        candidates == SubSeq(merged, 1, many)
        others == SubSeq(merged, many + 1, Len(merged))
        trimmed(list) == SubSeq(list, 1, IF Len(list) < TopK THEN Len(list) ELSE TopK)
    IN  /\ phase = "rerank"
        /\ \/ \E ordered \in Reordered(candidates) \cup Numbered(candidates) \cup {candidates} :
                 results' = trimmed(ordered \o others) /\ UNCHANGED repeated
           \/ \E names \in Named(candidates) :
                 /\ results' = trimmed(NamedFirst(candidates, names) \o others)
                 /\ repeated' = ~IsInjective(names)
        /\ phase' = "done"
        /\ UNCHANGED <<strategy, coverage, subqueries, sub, attempt, search, kept, merged>>

Next ==
    \/ DecomposeQuery
    \/ KeywordHits \/ EmbedQuery \/ VectorHits \/ Gathered \/ Fallback \/ SearchFails
    \/ Merge \/ Rerank

Spec == Init /\ [][Next]_vars

---------------------------------------------------------------------------
(* Properties.                                                             *)

\* A sub-question returns its first keyword hit if that covers the question well.
\* The vector search can displace it only by way of the selection, when it has no
\* embedding or more chunks have one than are asked for; a third chunk of a document
\* and a failed search can drop others, not this one.
BestHitIsKept ==
    phase = "kept" /\ keyword \notin {None, <<>>} =>
        LET best == keyword[1]
            rivals == (ToSet(keyword) \cup (IF vector = None THEN {} ELSE ToSet(vector)))
                      \cap Embedded
        IN  /\ coverage[best] = 6
            /\ embedding \in {"question", "mixed"} =>
                  best \in Embedded /\ Cardinality(rivals) <= 2 /\ 2 <= Fetch
            => best \in ToSet(kept)

\* The results hold what one sub-question returned once at most, and at most two of a
\* document for each, unless the service named a passage twice; and they are empty
\* only when every sub-question returned nothing.  What two sub-questions returned may
\* be there twice: search_knowledge_base says that it drops duplicates across them, but
\* the documents that it compares have neither an _id nor a _source.
ResultsHoldOnce ==
    phase = "done" =>
        /\ merged # <<>> => results # <<>>
        /\ ~repeated =>
            /\ IsInjective(results)
            /\ \A s \in 1 .. subqueries, c \in Chunk :
                  Cardinality({i \in DOMAIN results :
                      /\ results[i].sub = s
                      /\ Document[results[i].chunk] = Document[c]}) <= 2

RetrievalSound == BestHitIsKept /\ ResultsHoldOnce

---------------------------------------------------------------------------
(* The inductive invariant.                                                 *)

\* At most two chunks of a document.
TwoOfEach(list) ==
    \A i, j, k \in DOMAIN list :
        /\ Document[list[i]] = Document[list[j]] /\ Document[list[j]] = Document[list[k]]
        => i = j \/ i = k \/ j = k

\* A vector search needs the question's vector, and has no hits without one; the broad
\* search is for a question without keyword hits.
SearchInv ==
    /\ phase = "decompose" => sub = 1 /\ merged = <<>>
    /\ vector # None => embedding # None
    /\ embedding = "none" => vector = <<>>
    /\ phase = "fallback" => keyword = <<>>
    /\ TwoOfEach(kept)

\* Each sub-question adds its passages once, when it is done.
MergedInv ==
    /\ IsInjective(merged)
    /\ \A i \in DOMAIN merged : /\ merged[i].sub <= sub
                                /\ phase \notin {"rerank", "done"} => merged[i].sub < sub
    /\ \A i, j, k \in DOMAIN merged :
          /\ merged[i].sub = merged[j].sub /\ merged[j].sub = merged[k].sub
          /\ Document[merged[i].chunk] = Document[merged[j].chunk]
          /\ Document[merged[j].chunk] = Document[merged[k].chunk]
          => i = j \/ i = k \/ j = k

IInv == TypeOK /\ SearchInv /\ MergedInv /\ BestHitIsKept /\ ResultsHoldOnce
=============================================================================
