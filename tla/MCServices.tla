----------------------------- MODULE MCServices -----------------------------
(***************************************************************************)
(* A small instance of each part of Services: values for the constants that *)
(* are more than a number.                                                   *)
(***************************************************************************)
EXTENDS Services, TLC

\* Plans for the serial executor: independent steps, a chain, a diamond, a fan-out,
\* and a cyclic plan.  Step 9 does not exist.
Shapes ==
    LET Raw(deps) == [deps |-> deps, retry |-> [s \in 1 .. 4 |-> "auto_retry"], fallback |-> {}]
    IN  {Raw(deps) : deps \in {
            <<{}, {}, {}, {}>>,
            <<{9}, {1}, {2}, {3}>>,
            <<{}, {1}, {1}, {2, 3}>>,
            <<{}, {1}, {1}, {1}>>,
            <<{2}, {1}, {}, {3}>>}}

PromptRequests == 1 .. 4
Orgs4 == 1 .. 4
DirectTools ==
    {"execute_python", "feishu_bitable_query", "deep_research",
     "document_comparison", "knowledge_analysis", "unknown"}

\* Three chunks of one document, two of them with a vector.
FindChunks == 1 .. 3
FindDocuments == <<"a", "a", "a">>
Coverages == {<<6, 6, 5>>, <<2, 4, 6>>}

\* Three tasks of the API and one of the worker look at the index.
IndexTasks == 1 .. 4
IndexHomes == <<"api", "api", "api", "worker">>

\* An edge case, a file that is not JSON, a partial success and a clean one.
BenchmarkCases ==
    <<[category |-> "edge_case", symptom |-> "over_answers_simple_query", coverage |-> 10],
      None,
      [category |-> "cross_doc", symptom |-> "no_comparison_made", coverage |-> 60],
      [category |-> "single_doc", symptom |-> "unknown", coverage |-> 80]>>
PlannedQuestions ==
    {[scenarios |-> {"web_search", "cross_document"}, relevance |-> <<2, 0, 1, 1>>],
     [scenarios |-> {"web_search", "single_document"}, relevance |-> <<1, 0, 1, 1>>]}

\* Texts of three clauses.  Most have sentences that all end with a full stop; in the
\* others a clause has some that end with their line only, and it may have a space.
ClauseLengths == {<<100>>, <<300, 400>>, <<100, 300, 400, 400, 100>>,
                  <<700, 700, 100, 300, 100, 100>>, <<1400, 100, 400, 100, 100>>}
Stops(lengths) == [lengths |-> lengths, ends |-> DOMAIN lengths, spaces |-> {}]
Lines == {[lengths |-> <<700, 400, 300, 100, 100>>, ends |-> {1}, spaces |-> {}],
          [lengths |-> <<601, 600, 100, 400, 100>>, ends |-> {1, 3}, spaces |-> {650, 841}],
          [lengths |-> <<500, 300, 200, 500, 100>>, ends |-> {5}, spaces |-> {850, 1100, 1200}]}
TextOf(first, clauses) ==
    [c \in DOMAIN clauses |->
        [titled |-> c > 1 \/ first, lengths |-> clauses[c].lengths,
         ends |-> clauses[c].ends, spaces |-> clauses[c].spaces]]
PlainText == TextOf(FALSE, <<Stops(<<100>>)>>)
SomePolicyTexts ==
    {PlainText} \cup
    {TextOf(first, [c \in 1 .. 3 |-> Stops(lengths[c])]) :
        first \in BOOLEAN, lengths \in [1 .. 3 -> ClauseLengths]} \cup
    {TextOf(FALSE, <<Stops(lengths), clause>>) : lengths \in ClauseLengths, clause \in Lines} \cup
    {TextOf(TRUE, <<clause, Stops(lengths)>>) : lengths \in ClauseLengths, clause \in Lines}

Symmetry == Permutations(Client)
=============================================================================
