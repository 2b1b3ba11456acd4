----------------------------- MODULE Experiences -----------------------------
(***************************************************************************)
(* Lessons drawn from benchmark failures (agent/experience): the scripts    *)
(* that extract them, the file they keep them in, and the planner of the    *)
(* server, which reads the file once.                                       *)
(*                                                                          *)
(* The store also has a Redis side.  No script connects to Redis            *)
(* (run_extract.py never calls init_redis, so redis_client is falsy there)  *)
(* and the server never saves, so its key does not exist: every load falls  *)
(* through to the file and every save reaches the file alone.               *)
(***************************************************************************)
EXTENDS FiniteSets, Naturals, SequencesExt

CONSTANTS
    Script,    \* runs of the extraction script
    Server,    \* the process that plans
    Case,      \* the benchmark cases in the order of their files
    Question,  \* what the planner is asked
    TopK,      \* how many lessons it is told (planner.py:241)
    None

\* The symptoms that _detect_symptom tells apart in a category.
Symptom ==
    [single_doc |-> {"keywords_missing", "unknown"},
     multi_step |-> {"keywords_missing", "unknown"},
     cross_doc |-> {"only_one_document_used", "no_comparison_made",
                    "keywords_missing", "unknown"},
     framework |-> {"keywords_missing_swot", "keywords_missing_dupont",
                    "keywords_missing_pest", "keywords_missing", "framework_not_executed"},
     web_search |-> {"no_web_results", "keywords_missing", "unknown"},
     tool_recovery |-> {"not_found_no_alternative", "keywords_missing", "unknown"},
     edge_case |-> {"over_answers_simple_query", "keywords_missing", "unknown"},
     ambiguity |-> {"vague_query_no_clarification"}]

\* What a question may be recognised as.
Scenario == {"multi_step_analysis", "framework_analysis", "cross_document",
             "single_document", "web_search", "tool_recovery", "edge_case_simple",
             "ambiguity"}

\* The cases that are JSON.
Readable == {i \in DOMAIN Case : Case[i] # None}

\* A lesson has a fresh id and tells of one case.
Lesson == [of : Script \cup {0}, case : Readable]

ExperiencesAssumption ==
    /\ Server \notin Script /\ {None, 0} \cap Script = {}
    /\ None \notin Question /\ None \notin Seq(Lesson)
    /\ TopK \in Nat \ {0}
    /\ Len(Case) \in Nat /\ DOMAIN Case = 1 .. Len(Case)
    /\ \A i \in DOMAIN Case :
          \/ Case[i] = None \* a file that is not JSON
          \/ /\ Case[i].category \in DOMAIN Symptom
             /\ Case[i].symptom \in Symptom[Case[i].category]
             /\ Case[i].coverage \in 0 .. 100
    /\ Question \subseteq [scenarios : SUBSET Scenario, relevance : [DOMAIN Case -> 0 .. 2]]

VARIABLES
    file,    \* benchmark/experiences.json: its lessons, None if it is missing or torn
    memory,  \* _experiences of each process, None before it has loaded
    pc,      \* of each script
    next,    \* the case it comes to
    counted, \* lessons that scripts have counted as extracted
    told,    \* the last question to the planner and the lessons it was given
    failed,  \* scripts whose last finished save did not succeed (history)
    torn,    \* scripts whose last write was cut off after it had truncated the file (history)
    overlapped, \* a script has loaded while another was at work (history)
    saved    \* the lessons that the file has ever held (history)

vars == <<file, memory, pc, next, counted, told, failed, torn, overlapped, saved>>

Process == Script \cup {Server}

TypeOK ==
    /\ file \in {None} \cup Seq(Lesson)
    /\ memory \in [Process -> {None} \cup Seq(Lesson)]
    /\ pc \in [Script -> {"idle", "scan", "open", "write", "ended"}]
    /\ next \in [Script -> 1 .. Len(Case) + 1]
    /\ counted \subseteq Lesson
    /\ told.question \in Question \cup {None} /\ told.lessons \subseteq Lesson
    /\ failed \subseteq Script /\ torn \subseteq Script /\ overlapped \in BOOLEAN
    /\ saved \subseteq Lesson

Init ==
    /\ file \in {None, <<>>} \cup {<<[of |-> 0, case |-> i]>> : i \in Readable}
    /\ saved = IF file = None THEN {} ELSE Range(file)
    /\ memory = [p \in Process |-> None]
    /\ pc = [s \in Script |-> "idle"]
    /\ next = [s \in Script |-> 1]
    /\ counted = {} /\ failed = {} /\ torn = {} /\ overlapped = FALSE
    /\ told = [question |-> None, lessons |-> {}]

---------------------------------------------------------------------------
(* A lesson.                                                                *)

SmallerOf(a, b) == IF a < b THEN a ELSE b
LargerOf(a, b) == IF a < b THEN b ELSE a

\* In hundredths.
ComputeConfidence(case) ==
    LET lost == 100 - case.coverage
        base == IF case.coverage < 40
                THEN LargerOf(60, SmallerOf(95, lost))
                ELSE LargerOf(40, SmallerOf(70, lost))
    IN  IF case.category \in {"framework", "cross_doc", "multi_step"}
        THEN SmallerOf(95, base + 10) ELSE base

\* Scenarios that the lesson helps; none means all.
ApplicableTo(case) ==
    CASE case.symptom = "over_answers_simple_query" -> {"edge_case_simple"}
      [] case.symptom = "not_found_no_alternative" -> {"tool_recovery", "search_failure"}
      [] case.symptom = "vague_query_no_clarification" -> {"ambiguity"}
      [] case.symptom \in {"keywords_missing_swot", "keywords_missing_dupont",
                           "framework_not_executed"} -> {"framework_analysis"}
      [] case.category = "cross_doc" /\ case.symptom # "unknown" -> {"cross_document"}
      [] case.category = "web_search" /\ case.symptom # "unknown" -> {"web_search"}
      [] OTHER -> {}

\* Scenarios that it harms.
AvoidFor(case) ==
    CASE case.symptom = "over_answers_simple_query" ->
            {"multi_step_analysis", "framework_analysis", "cross_document", "web_search"}
      [] case.symptom = "not_found_no_alternative" ->
            {"multi_step_analysis", "framework_analysis"}
      [] case.category = "cross_doc" /\ case.symptom # "unknown" -> {"edge_case_simple"}
      [] OTHER -> {}

\* A file that is not JSON and a clean success teach nothing.
ExtractsLesson(case) == IF case = None THEN FALSE ELSE case.coverage < 80

---------------------------------------------------------------------------
(* The store.                                                               *)

\* A file that cannot be read counts as one without lessons.
LoadFromLocal == IF file = None THEN <<>> ELSE file

\* For the mutants: an empty answer of Redis counts as loaded.
EnsureLoadedEmpty(p) == IF memory[p] = None THEN <<>> ELSE memory[p]

EnsureLoaded(p) == IF memory[p] = None THEN LoadFromLocal ELSE memory[p]

\* Relevance times a hundred, less for a question that the lesson is not for.
Score(i, question) ==
    LET tags == question.scenarios
        avoided == AvoidFor(Case[i]) \cap tags # {}
        strange == /\ tags # {} /\ ApplicableTo(Case[i]) # {}
                   /\ ApplicableTo(Case[i]) \cap tags = {}
        r == 100 * question.relevance[i]
        once == IF avoided THEN (r * 3) \div 10 ELSE r
    IN  IF strange THEN once \div 2 ELSE once

\* ExperienceStore.search: the best of the lessons that are certain enough, of two that
\* are rated alike the older.  The order in which they are told is left out.
FindLessons(lessons, question) ==
    LET Rated(k) == Score(lessons[k].case, question)
        fit == {k \in DOMAIN lessons :
                  ComputeConfidence(Case[lessons[k].case]) >= 50 /\ Rated(k) > 0}
        Ahead(k) == {j \in fit : Rated(j) > Rated(k) \/ (Rated(j) = Rated(k) /\ j < k)}
    IN  {lessons[k] : k \in {k \in fit : Cardinality(Ahead(k)) < TopK}}

---------------------------------------------------------------------------
(* The scripts: extract_all_from_benchmark.                                 *)

AtWork(s) == memory[s] # None

Begin(s) ==
    /\ pc[s] = "idle"
    /\ pc' = [pc EXCEPT ![s] = "scan"]
    /\ UNCHANGED <<file, memory, next, counted, told, failed, torn, overlapped, saved>>

\* A file that cannot be parsed is logged and passed over, like a clean success.
PassOver(s) ==
    /\ pc[s] = "scan" /\ next[s] <= Len(Case)
    /\ ~ExtractsLesson(Case[next[s]])
    /\ next' = [next EXCEPT ![s] = @ + 1]
    /\ UNCHANGED <<file, memory, pc, counted, told, failed, torn, overlapped, saved>>

\* store.add up to the save: the first one loads.
AddLesson(s) ==
    /\ pc[s] = "scan" /\ next[s] <= Len(Case)
    /\ ExtractsLesson(Case[next[s]])
    /\ memory' = [memory EXCEPT ![s] =
                    Append(EnsureLoaded(s), [of |-> s, case |-> next[s]])]
    /\ overlapped' = (overlapped \/ \E t \in Script \ {s} : AtWork(t))
    /\ pc' = [pc EXCEPT ![s] = "open"]
    /\ UNCHANGED <<file, next, counted, told, failed, torn, saved>>

\* write_text truncates the file before it writes.
OpenFile(s) ==
    /\ pc[s] = "open"
    /\ file' = None
    /\ pc' = [pc EXCEPT ![s] = "write"]
    /\ UNCHANGED <<memory, next, counted, told, failed, torn, overlapped, saved>>

Count(s) ==
    /\ counted' = counted \cup {Last(memory[s])}
    /\ next' = [next EXCEPT ![s] = @ + 1]
    /\ pc' = [pc EXCEPT ![s] = "scan"]

WriteFile(s) ==
    /\ pc[s] = "write"
    /\ file' = memory[s]
    /\ Count(s)
    /\ failed' = failed \ {s} /\ torn' = torn \ {s}
    /\ saved' = saved \cup Range(memory[s])
    /\ UNCHANGED <<memory, told, overlapped>>

TornBy(s) == IF pc[s] = "write" THEN torn \cup {s} ELSE torn

\* An error of the save is logged; the lesson counts as extracted all the same.
SaveFails(s) ==
    /\ pc[s] \in {"open", "write"}
    /\ Count(s)
    /\ failed' = failed \cup {s} /\ torn' = TornBy(s)
    /\ UNCHANGED <<file, memory, told, overlapped, saved>>

Finish(s) ==
    /\ pc[s] = "scan" /\ next[s] = Len(Case) + 1
    /\ pc' = [pc EXCEPT ![s] = "ended"]
    /\ memory' = [memory EXCEPT ![s] = None]
    /\ UNCHANGED <<file, next, counted, told, failed, torn, overlapped, saved>>

\* The script is stopped from outside.
Stop(s) ==
    /\ pc[s] \in {"scan", "open", "write"}
    /\ pc' = [pc EXCEPT ![s] = "ended"]
    /\ memory' = [memory EXCEPT ![s] = None]
    /\ torn' = TornBy(s)
    /\ UNCHANGED <<file, next, counted, told, failed, overlapped, saved>>

---------------------------------------------------------------------------
(* The planner asks for the lessons that fit the question.                  *)

FormatForPlanner(question) ==
    LET lessons == EnsureLoaded(Server)
    IN  /\ memory' = [memory EXCEPT ![Server] = lessons]
        /\ told' = [question |-> question, lessons |-> FindLessons(lessons, question)]
        /\ UNCHANGED <<file, pc, next, counted, failed, torn, overlapped, saved>>

Next ==
    \/ \E s \in Script :
          \/ Begin(s) \/ PassOver(s) \/ AddLesson(s) \/ OpenFile(s) \/ WriteFile(s)
          \/ SaveFails(s) \/ Finish(s) \/ Stop(s)
    \/ \E question \in Question : FormatForPlanner(question)

Spec == Init /\ [][Next]_vars

---------------------------------------------------------------------------
(* Properties.                                                              *)

\* Every lesson that was ever in the file is in it whenever nobody is writing it, and
\* so is every lesson that a script has counted whose last save succeeded: saves that
\* fail before the file is opened and scripts that are stopped between two writes lose
\* nothing that was stored.  What may lose it is a write that was cut off, and two
\* scripts at work at once.
LessonsStay ==
    \/ \E s \in Script : pc[s] = "write"
    \/ overlapped \/ torn # {}
    \/ /\ saved \subseteq Range(LoadFromLocal)
       /\ \A l \in counted : l \in Range(LoadFromLocal) \/ l.of \in failed

\* A lesson that harms a question of this kind never takes the place of one that is as
\* relevant, certain enough and not harmful.
HarmlessComeFirst ==
    LET Avoided(l) == AvoidFor(Case[l.case]) \cap told.question.scenarios # {}
        Relevance(l) == told.question.relevance[l.case]
    IN  told.question = None \/
        \A l \in told.lessons, m \in Range(memory[Server]) :
            \/ ~Avoided(l) \/ Avoided(m) \/ m \in told.lessons
            \/ ComputeConfidence(Case[m.case]) < 50
            \/ Relevance(m) < Relevance(l)

\* Both.
LessonsServe == LessonsStay /\ HarmlessComeFirst

---------------------------------------------------------------------------
(* The inductive invariant: who has lessons in memory, and that the script at  *)
(* work and the file know all that were saved.                               *)

\* A script has its lessons in memory from the first one on, up to its end, and the one
\* that it saves is the last of them.
ScriptInv ==
    \A s \in Script :
        /\ AtWork(s) => pc[s] \in {"scan", "open", "write"}
        /\ pc[s] \in {"open", "write"} =>
              /\ AtWork(s) /\ memory[s] # <<>> /\ Last(memory[s]).of = s
              /\ next[s] <= Len(Case)
        /\ s \in torn => AtWork(s) \/ pc[s] = "ended"

\* Without an overlap one script at most has lessons in memory.
AloneInv ==
    overlapped \/ \A s, t \in Script : AtWork(s) /\ AtWork(t) => s = t

\* A script at work has the lessons it has counted in memory, and a counted lesson was
\* saved unless the last save of its script failed.
CountedInv ==
    \A l \in counted :
        /\ l.of \in Script /\ (AtWork(l.of) \/ pc[l.of] = "ended")
        /\ AtWork(l.of) => l \in Range(memory[l.of])
        /\ l \in saved \/ l.of \in failed

\* The script at work knows every lesson that was saved, unless another has torn the
\* file; and so does the file when it is not torn and nobody is writing.
FileInv ==
    \/ overlapped
    \/ /\ \A s \in Script : AtWork(s) /\ torn \subseteq {s} => saved \subseteq Range(memory[s])
       /\ torn = {} /\ (\A s \in Script : pc[s] # "write") => saved \subseteq Range(LoadFromLocal)

\* The planner was told what the lessons in the server's memory give.
ToldInv ==
    told.question # None =>
        /\ memory[Server] # None
        /\ told.lessons = FindLessons(memory[Server], told.question)

IInv == TypeOK /\ ScriptInv /\ AloneInv /\ CountedInv /\ FileInv /\ ToldInv
=============================================================================
