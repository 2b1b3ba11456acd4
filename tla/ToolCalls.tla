------------------------------- MODULE ToolCalls -------------------------------
(***************************************************************************)
(* Tool calls: the executor's side (executor.py, one call at a time in each *)
(* of the concurrent steps, under a time limit), the registry with its log  *)
(* and its hooks (agent/registry.py), and the skills, whose handlers call   *)
(* the registry themselves (agent/tools/skills.py).                         *)
(*                                                                          *)
(* A handler is what its answer can be.  What counts about a text is how    *)
(* its readers look at it: the executor asks whether it starts with         *)
(* "Error:" ("flagged"), skills whether it contains "Error" ("worded" does  *)
(* and does not start so, for whatever reason) or says that nothing was     *)
(* found ("nothing"); "soft" is a failure told in other words, and "good"   *)
(* any other text.                                                          *)
(***************************************************************************)
EXTENDS Naturals, Sequences, TLC

CONSTANTS
    Step,     \* concurrent steps of a run
    Direct,   \* tools that the model asks for, also ones that do not exist
    Raw,      \* what an exception's text mentions
    MaxIds,   \* bound on the ids that knowledge_analysis finds; 3 in the code
    MaxCalls, \* bound on the calls of the model
    MaxLog    \* _max_log_entries; 5000 in the code

ToolCallsAssumption ==
    /\ Raw \subseteq {"timeout", "connection_error", "rate_limited", "token", "missing", "other"}
    /\ MaxIds \in Nat /\ MaxCalls \in Nat /\ MaxLog \in Nat \ {0}

VARIABLES
    calls, \* the calls of the model, in the order they began
    log    \* _log: newest first

vars == <<calls, log>>

---------------------------------------------------------------------------
(* The handlers.                                                           *)

Found == {"good", "worded"}

SearchTools ==
    [search_knowledge_base |-> Found \cup {"nothing"},
     vector_search |-> Found \cup {"nothing", "soft"}]

\* A summary that fails is replaced by the beginning of the document.
TextTools ==
    [summarize_document |-> Found \cup {"nothing"},
     extract_keywords |-> Found]

\* Failures are JSON objects with "error", also that the document is not found.
InsightTools == [extract_insights |-> Found \cup {"soft"}]

CrossTools == [cross_document_analysis |-> Found \cup {"soft"}]

\* Without the model the report is put together from its sections.
ReportTools == [generate_report |-> Found \cup {"soft"}]

DocumentTools ==
    [list_documents |-> Found \cup {"nothing"},
     get_document_info |-> Found \cup {"nothing"}]

ConversationTools ==
    [list_conversations |-> Found \cup {"nothing"},
     get_conversation_history |-> Found \cup {"nothing", "soft"}]

PromptTools ==
    [list_prompt_templates |-> Found \cup {"nothing"},
     get_prompt_template |-> Found \cup {"nothing"},
     get_current_time |-> {"good"}]

\* A program prints what it likes.
PythonTools == [execute_python |-> Found \cup {"flagged"}]

\* Refused queries are flagged, failed ones begin with "SQL Error".
SqlTools == [execute_sql |-> Found \cup {"flagged"}]

\* Statistics, and previews of documents side by side, missing ones included.
DataTools ==
    [analyze_data |-> {"good", "soft", "worded", "flagged"},
     compare_documents |-> Found \cup {"flagged"}]

LanguageTools ==
    [translate_text |-> Found \cup {"soft", "flagged"},
     detect_language |-> {"good", "soft", "worded", "flagged"}]

CalculateTools == [calculate |-> {"good", "soft", "worded", "flagged"}]

FormatTools == [format_converter |-> Found \cup {"soft", "flagged"}]

\* A service that fails is a field of the answer that begins with "Error:".
StatusTools == [get_system_status |-> Found]

WebTools ==
    [web_search |-> Found \cup {"nothing", "soft"},
     fetch_webpage |-> Found \cup {"soft"}]

\* "Error: unknown MCP server" is flagged, "Error calling MCP server" is not.
McpTools == [mcp_call |-> Found \cup {"soft", "flagged"}]

\* The one handler that answers with a ToolResult: text is the JSON of its records.
FeishuTools == [feishu_bitable_query |-> Found]

Skill == {"deep_research", "document_comparison", "knowledge_analysis"}

Plain ==
    SearchTools @@ TextTools @@ InsightTools @@ CrossTools @@ ReportTools @@
    DocumentTools @@ ConversationTools @@ PromptTools @@ PythonTools @@
    SqlTools @@ DataTools @@ LanguageTools @@ CalculateTools @@ FormatTools @@
    StatusTools @@ WebTools @@ McpTools @@ FeishuTools

Known == DOMAIN Plain \cup Skill

---------------------------------------------------------------------------
(* Results of a call: a ToolResult as str() shows it, with its error.      *)

Answer(text) == [text |-> text, code |-> "none", raw |-> "none"]
Failure(code, raw) == [text |-> "flagged", code |-> code, raw |-> raw]

\* FeishuAuthError; an error of the API, with its body if there is one; another one.
FeishuFailures ==
    {Failure("auth_config_error", "none"), Failure("api_error", "none")} \cup
    {Failure("api_error", raw) : raw \in Raw} \cup {Failure("unknown", raw) : raw \in Raw}

\* Any handler may raise, if only because the model's arguments do not fit.
Results(tool) ==
    {Answer(text) : text \in Plain[tool]} \cup {Failure("unknown", raw) : raw \in Raw} \cup
    (IF tool \in DOMAIN FeishuTools THEN FeishuFailures ELSE {})

\* _builtin_error_mapper_hook: the code from what the exception says.
Mapped(code, raw) ==
    CASE raw \in {"timeout", "connection_error", "rate_limited"} -> raw
      [] raw = "token" /\ code = "unknown" -> "auth_error"
      [] raw = "missing" /\ code = "unknown" -> "not_found"
      [] OTHER -> code

Entry(k, n, result) ==
    [call |-> k, nested |-> n,
     status |-> IF result.code = "none" THEN "success" ELSE "error",
     code |-> result.code]

\* Mutant: a full log takes no more entries.
LoggedWhileRoom(entry) == IF Len(log) = MaxLog THEN log ELSE <<entry>> \o log

\* _builtin_logging_hook, which runs before the mapper.
Logged(entry) ==
    LET all == <<entry>> \o log
    IN  SubSeq(all, 1, IF Len(all) > MaxLog THEN MaxLog ELSE Len(all))

---------------------------------------------------------------------------
(* The skills: the calls that a handler makes, one after the other.        *)

\* What a skill takes over into its own answer.
Usable(tool, text) ==
    IF tool \in {"search_knowledge_base", "get_document_info"}
    THEN text = "good"
    ELSE text \in {"good", "nothing", "soft"}

Agenda(c) ==
    CASE c.tool = "deep_research" -> <<"web_search", "search_knowledge_base">>
      [] c.tool = "document_comparison" ->
            [i \in 1 .. c.ids |-> "get_document_info"] \o
            [i \in 1 .. c.ids |-> "extract_insights"] \o
            (IF c.ids = 0 THEN <<>> ELSE <<"cross_document_analysis">>)
      [] c.tool = "knowledge_analysis" ->
            <<"search_knowledge_base">> \o
            [i \in 1 .. c.ids |-> "extract_insights"] \o
            (IF c.insight THEN <<"generate_report">> ELSE <<>>)
      [] OTHER -> <<>>

HasMore(c) == c.nested < Len(Agenda(c))

---------------------------------------------------------------------------

\* An object that fits, one that lacks what the handler requires (which is what
\* arguments that are no JSON become), and anything else.
Args == {"object", "lacking", "other"}
Code == {"none", "unknown", "timeout", "connection_error", "rate_limited", "auth_error",
         "not_found", "auth_config_error", "api_error"}
Called == [step : Step, tool : Direct, args : Args, nested : Nat, ids : Nat, insight : BOOLEAN,
           told : {"running", "success", "error"}, code : Code,
           end : {"none", "unknown", "timeout", "text", "flagged", "failure"}]
Logs == [call : 1 .. MaxCalls, nested : Nat, status : {"success", "error"}, code : Code]

TypeOK ==
    /\ calls \in Seq(Called) /\ Len(calls) <= MaxCalls
    /\ log \in Seq(Logs) /\ Len(log) <= MaxLog

Init == calls = <<>> /\ log = <<>>

Running(k) == calls[k].told = "running"

\* The executor: _run_tool_calls takes the next call of the model's answer.  An
\* unknown tool is told at once and passes no hook.  A comparison of less than two
\* documents makes no calls (ids = 0).  That arguments lack something is among the
\* results of a tool that is no skill.
Call(s, tool, args, ids) ==
    /\ Len(calls) < MaxCalls
    /\ \A k \in DOMAIN calls : calls[k].step = s => ~Running(k)
    /\ ids # 0 => tool = "document_comparison" /\ args = "object"
    /\ args = "lacking" => tool \in Skill
    /\ calls' = Append(calls,
          [step |-> s, tool |-> tool, args |-> args, nested |-> 0, ids |-> ids, insight |-> FALSE,
           told |-> IF tool \in Known THEN "running" ELSE "error",
           code |-> IF tool \in Known THEN "none" ELSE "not_found",
           end |-> IF tool \in Known THEN "none" ELSE "unknown"])
    /\ UNCHANGED log

\* The call that a skill waits for, and what it can come to.
Current(k) == Agenda(calls[k])[calls[k].nested + 1]
NestedEnds(k) ==
    IF Running(k) /\ calls[k].args = "object" /\ HasMore(calls[k]) THEN Results(Current(k)) ELSE {}

\* A call that a skill makes returns; the ids are read from the text of the search.
NestedEnd(k, result, ids) ==
    LET c == calls[k]
        usable == Usable(Current(k), result.text)
    IN  /\ result \in NestedEnds(k)
        /\ ids # c.ids => c.tool = "knowledge_analysis" /\ c.nested = 0 /\ usable
        /\ log' = Logged(Entry(k, c.nested + 1, result))
        /\ calls' = [calls EXCEPT
              ![k].nested = @ + 1,
              ![k].ids = ids,
              ![k].insight = @ \/ (c.tool = "knowledge_analysis" /\ c.nested > 0 /\ usable)]

\* What the handler of a call has come to: a skill ends with a text of its own.
\* Arguments that are no object, or lack some, cannot be passed to a skill's handler.
Ends(k) ==
    LET c == calls[k]
    IN  IF ~Running(k) THEN {}
        ELSE IF c.args # "object" THEN {Failure("unknown", "other")}
        ELSE IF c.tool \notin Skill THEN Results(c.tool)
        ELSE IF HasMore(c) THEN {}
        ELSE IF c.tool = "document_comparison" /\ c.ids = 0 THEN {Answer("soft")}
        ELSE {Answer("good")}

\* The handler ends: hooks, then the executor's verdict.  The logging hook fails, and
\* only warns, when the arguments are no object.
End(k, result) ==
    /\ result \in Ends(k)
    /\ log' = IF calls[k].args = "other" THEN log ELSE Logged(Entry(k, 0, result))
    /\ calls' = [calls EXCEPT
          ![k].told = IF result.text = "flagged" THEN "error" ELSE "success",
          ![k].code = Mapped(result.code, result.raw),
          ![k].end = IF result.code # "none" THEN "failure"
                     ELSE IF result.text = "flagged" THEN "flagged" ELSE "text"]

\* wait_for: the handler is cancelled, with the call that a skill is waiting for;
\* cancellation passes all hooks by.
Timeout(k) ==
    /\ Running(k)
    /\ calls' = [calls EXCEPT ![k].told = "error", ![k].end = "timeout"]
    /\ UNCHANGED log

Next ==
    \/ \E s \in Step, tool \in Direct, args \in Args, ids \in {0, 2} : Call(s, tool, args, ids)
    \/ \E k \in DOMAIN calls :
          \/ \E result \in NestedEnds(k), ids \in 0 .. MaxIds \cup {calls[k].ids} :
                NestedEnd(k, result, ids)
          \/ \E result \in Ends(k) : End(k, result)
          \/ Timeout(k)

Spec == Init /\ [][Next]_vars

---------------------------------------------------------------------------
(* Properties.                                                             *)

Own(k) == {i \in DOMAIN log : log[i].call = k /\ log[i].nested = 0}
Nested(k) == {i \in DOMAIN log : log[i].call = k /\ log[i].nested > 0}

\* The log and the executor agree on a call that is over: an entry says "error" only
\* if the executor told the model of an error, and "success" where it did so only if
\* the answer itself began with "Error:"; the log keeps a failure's code unless it was
\* mapped.
VerdictsAgree(k) ==
    \A i \in Own(k) :
        /\ ~Running(k)
        /\ log[i].status = "error" => calls[k].told = "error" /\ calls[k].end = "failure"
        /\ log[i].status = "success" /\ calls[k].told = "error" => calls[k].end = "flagged"
        /\ log[i].code # calls[k].code => log[i].code = "unknown" \/ calls[k].code \in Raw

\* A call without an entry is not over, or its tool does not exist, its arguments were
\* no object or it ran out of time; or newer entries fill the log.
MissingExplained(k) ==
    Own(k) = {} =>
        \/ Running(k) \/ calls[k].args = "other" \/ calls[k].end \in {"unknown", "timeout"}
        \/ Len(log) = MaxLog /\ Nested(k) = {}

\* A skill's calls are in the log in their order and before the skill itself, and
\* none is missing in between.
SkillsInOrder(k) ==
    /\ \A i, j \in Nested(k) : i < j => log[i].nested > log[j].nested
    /\ \A i \in Own(k), j \in Nested(k) : i < j
    /\ \A i \in Nested(k), n \in 1 .. calls[k].nested :
          log[i].nested < n => \E j \in 1 .. i : j \in Nested(k) /\ log[j].nested = n

\* The registry's log, from which get_call_stats counts, tells what the executor and
\* the skills were told, with concurrent steps, time limits and a full log.
LogTellsCalls ==
    \A k \in DOMAIN calls : VerdictsAgree(k) /\ MissingExplained(k) /\ SkillsInOrder(k)

(***************************************************************************)
(* The inductive invariant: the entries are of calls that have been made, and *)
(* of no more of a skill's calls than have returned.                          *)
(***************************************************************************)
LogInv ==
    \A i \in DOMAIN log :
        log[i].call \in DOMAIN calls /\ log[i].nested <= calls[log[i].call].nested

IInv == TypeOK /\ LogInv /\ LogTellsCalls
=============================================================================
