---------------------------- MODULE AgentSession ----------------------------
(***************************************************************************)
(* One agent session: POST /agent/chat (api/v1/endpoints/agent.py) runs     *)
(* AgentService.chat and PERAgentLoop.run, request after request or several *)
(* at once, and every run of the session shares the process-wide working    *)
(* memory of "session:<id>" and the session's rows.                         *)
(* DELETE /agent/sessions/{id} runs beside them, clients go away, and the   *)
(* API process restarts.                                                    *)
(*                                                                          *)
(* The config kept in Redis is left out: every request brings its own.      *)
(*                                                                          *)
(* The executor is reduced to what Executor and PlanExecution establish of  *)
(* it: each step of the plan ends once or is left pending, and only a       *)
(* completed one is stored.  A text is blank, or marked (too short, or with *)
(* a failure marker of the quality gate), or neither; what a model or a     *)
(* threshold on a text decides is a choice.  The retry branch of *)
(* the loop (loop.py:371-399) needs a step id that no reflection event      *)
(* carries: reflection only decides how the run passes.                     *)
(***************************************************************************)
EXTENDS Naturals, Sequences, FiniteSets

CONSTANTS
    Run,            \* the chat requests of the session
    MaxSteps,       \* steps of the longest plan
    QuickPassSteps, \* the longest plan that may pass without the model: 3
    None

VARIABLES
    pc,        \* where each request is
    status,    \* plan.steps[i].status of each run; its domain is the plan
    store,     \* WorkingMemory.intermediate_results: whose result, and its text
    answer,    \* runs under way whose final_answer is not empty
    verdict,   \* what the quality gate, then reflection found of a run under way
    recorded,  \* runs whose record_interaction and ctx.save are done
    row,       \* the session's row exists
    messages,  \* its messages in the order of their commits
    alone,     \* runs under way that no other run has overlapped (history)
    fresh      \* runs under way that found working memory empty (history)

local == <<status, answer, verdict, alone, fresh>>
database == <<row, messages>>
vars == <<pc, local, store, recorded, database>>

Step == 1 .. MaxSteps
Plans == {[s \in 1 .. n |-> "pending"] : n \in Step}
Text == {"blank", "marked", "text"}
Result == [run : Run, text : Text]
Decision == {"clean", "doubtful", "quick", "model"}

AgentSessionAssumption ==
    /\ MaxSteps \in Nat \ {0}
    /\ QuickPassSteps \in Nat
    /\ None \notin Run \cup Result \cup Decision

Working == {"execute", "toolless", "gate", "reflect", "finalize", "save"}
Active == {r \in Run : pc[r] \in Working}

\* results.get(...)["result"] of some entry is not empty
HasResults == \E s \in Step : store[s] # None /\ store[s].text # "blank"

TypeOK ==
    /\ pc \in [Run -> {"idle", "done", "failed", "gone"} \cup Working]
    /\ \A r \in Run : DOMAIN status[r] \subseteq Step
    /\ store \in [Step -> Result \cup {None}]
    /\ answer \subseteq Run /\ recorded \subseteq Run
    /\ verdict \in [Run -> Decision \cup {None}]
    /\ row \in BOOLEAN
    /\ messages \in Seq([run : Run, role : {"user", "assistant"}])
    /\ alone \subseteq Run /\ fresh \subseteq Run

Init ==
    /\ pc = [r \in Run |-> "idle"]
    /\ status = [r \in Run |-> <<>>]
    /\ store = [s \in Step |-> None]
    /\ answer = {} /\ recorded = {}
    /\ verdict = [r \in Run |-> None]
    /\ row \in BOOLEAN
    /\ messages = <<>>
    /\ alone = {} /\ fresh = {}

---------------------------------------------------------------------------
(* The run.                                                                *)

Goto(r, place) == pc' = [pc EXCEPT ![r] = place]

\* A run that is over takes its plan, answer and verdict with it.
Leave(R, place) ==
    /\ pc' = [r \in Run |-> IF r \in R THEN place ELSE pc[r]]
    /\ status' = [r \in Run |-> IF r \in R THEN <<>> ELSE status[r]]
    /\ verdict' = [r \in Run |-> IF r \in R THEN None ELSE verdict[r]]
    /\ answer' = answer \ R
    /\ alone' = alone \ R
    /\ fresh' = fresh \ R

\* Recall and planning: a plan of the planner's, or the single step s1.
Start(r) ==
    /\ pc[r] = "idle"
    /\ \E plan \in Plans : status' = [status EXCEPT ![r] = plan]
    /\ \E place \in {"execute", "toolless"} : Goto(r, place)
    /\ alone' = IF Active = {} THEN {r} ELSE {}
    /\ fresh' = IF \A s \in Step : store[s] = None THEN fresh \cup {r} ELSE fresh
    /\ UNCHANGED <<store, answer, verdict, recorded, database>>

Pending(r) == {s \in DOMAIN status[r] : status[r][s] = "pending"}

\* Mutant: a result that is in the store is not replaced.
CompleteStepOnce(r, s) ==
    /\ pc[r] = "execute"
    /\ s \in Pending(r)
    /\ status' = [status EXCEPT ![r][s] = "completed"]
    /\ \E text \in Text :
          /\ store' = IF store[s] = None
                      THEN [store EXCEPT ![s] = [run |-> r, text |-> text]]
                      ELSE store
          /\ answer' = IF text # "blank" THEN answer \cup {r} ELSE answer
    /\ UNCHANGED <<pc, verdict, alone, fresh, recorded, database>>

\* The executor books a step that completed; its text reaches the client as chunks.
CompleteStep(r, s) ==
    /\ pc[r] = "execute"
    /\ s \in Pending(r)
    /\ status' = [status EXCEPT ![r][s] = "completed"]
    /\ \E text \in Text :
          /\ store' = [store EXCEPT ![s] = [run |-> r, text |-> text]]
          /\ answer' = IF text # "blank" THEN answer \cup {r} ELSE answer
    /\ UNCHANGED <<pc, verdict, alone, fresh, recorded, database>>

\* A step that failed, or waits for one that did, leaves nothing in the store.
LoseStep(r, s) ==
    /\ pc[r] = "execute"
    /\ s \in Pending(r)
    /\ \E st \in {"failed", "skipped"} : status' = [status EXCEPT ![r][s] = st]
    /\ UNCHANGED <<pc, store, answer, verdict, alone, fresh, recorded, database>>

\* The executor returns; pending steps are skipped when the output is long enough
\* and holds data (_should_continue_execution).
EndExecution(r) ==
    /\ pc[r] = "execute"
    /\ \E enough \in IF r \in answer THEN BOOLEAN ELSE {FALSE} :
          status' = IF enough
                    THEN [status EXCEPT ![r] = [s \in DOMAIN @ |->
                            IF @[s] = "pending" THEN "skipped" ELSE @[s]]]
                    ELSE status
    /\ Goto(r, "gate")
    /\ UNCHANGED <<store, answer, verdict, alone, fresh, recorded, database>>

\* enable_tools is off: one call of the model, which may fail or be empty.
AnswerWithoutTools(r) ==
    /\ pc[r] = "toolless"
    /\ answer' \in {answer, answer \cup {r}}
    /\ Goto(r, "gate")
    /\ UNCHANGED <<status, store, verdict, alone, fresh, recorded, database>>

\* quality_gate_check grades what is stored: a step that failed is not, and no entry
\* names its tool.  It only reports; enable_reflection decides what comes next.
QualityGate(r) ==
    /\ pc[r] = "gate"
    /\ LET passed == \A s \in Step : store[s] # None => store[s].text = "text"
       IN  verdict' = [verdict EXCEPT ![r] = IF passed THEN "clean" ELSE "doubtful"]
    /\ \E place \in {"reflect", "finalize"} : Goto(r, place)
    /\ UNCHANGED <<status, store, answer, alone, fresh, recorded, database>>

\* _quick_pass_check: every step is over without a failure, and there are results.
QuickPassCheck(r) ==
    /\ \A s \in DOMAIN status[r] : status[r][s] \in {"completed", "skipped"}
    /\ HasResults
    /\ Len(status[r]) <= QuickPassSteps

\* The model decides otherwise, and whatever it says, or fails to say, the run goes
\* on.  The review adds to the output that memory records, not to the chunks.
Reflect(r) ==
    /\ pc[r] = "reflect"
    /\ verdict' = [verdict EXCEPT ![r] = IF QuickPassCheck(r) THEN "quick" ELSE "model"]
    /\ Goto(r, "finalize")
    /\ UNCHANGED <<status, store, answer, alone, fresh, recorded, database>>

Finalize(r) ==
    /\ pc[r] = "finalize"
    /\ recorded' = recorded \cup {r}
    /\ Goto(r, "save")
    /\ UNCHANGED <<local, store, database>>

\* One transaction: a missing session is created again, and the assistant's
\* message is left out when there was no answer.
SaveMessages(r) ==
    /\ pc[r] = "save"
    /\ row' = TRUE
    /\ messages' = messages \o
          (<<[run |-> r, role |-> "user"]>> \o
           IF r \in answer THEN <<[run |-> r, role |-> "assistant"]>> ELSE <<>>)
    /\ Leave({r}, "done")
    /\ UNCHANGED <<store, recorded>>

\* The database refuses: logged, and the stream ends as if it had been saved.
LoseMessages(r) ==
    /\ pc[r] = "save"
    /\ Leave({r}, "done")
    /\ UNCHANGED <<store, recorded, database>>

\* An exception out of the executor skips everything that is left, and a client
\* that closes the stream stops the run at its next event.
Abort(r) ==
    /\ \/ pc[r] = "execute" /\ Leave({r}, "failed")
       \/ r \in Active /\ Leave({r}, "gone")
    /\ UNCHANGED <<store, recorded, database>>

---------------------------------------------------------------------------
(* The session.                                                            *)

\* One transaction removes the messages and the row.
DeleteSession ==
    /\ row
    /\ row' = FALSE
    /\ messages' = <<>>
    /\ UNCHANGED <<pc, local, store, recorded>>

\* The API process restarts: its runs and its working memory are gone.
Restart ==
    /\ Leave(Active, "gone")
    /\ store' = [s \in Step |-> None]
    /\ UNCHANGED <<recorded, database>>

Next ==
    \/ \E r \in Run :
          \/ Start(r)
          \/ \E s \in Step : CompleteStep(r, s) \/ LoseStep(r, s)
          \/ EndExecution(r) \/ AnswerWithoutTools(r)
          \/ QualityGate(r) \/ Reflect(r) \/ Finalize(r)
          \/ SaveMessages(r) \/ LoseMessages(r) \/ Abort(r)
    \/ DeleteSession
    \/ Restart

Spec == Init /\ [][Next]_vars

---------------------------------------------------------------------------
(* Properties.                                                             *)

\* What the gate, reflection and review read for a step that the run itself
\* completed is the run's own result, as long as no other run of the session
\* overlapped it (store_step_result overwrites; nothing resets the memory).  And if
\* working memory was empty when the run started, the gate reports exactly the blank
\* and the marked results of its own completed steps, and reflection passes it without
\* the model (_quick_pass_check) only if one of its own steps produced text.  A later
\* run of the session has no such guarantee: results of earlier runs count for it.
OwnResults ==
    /\ \A r \in alone \cap Active : \A s \in DOMAIN status[r] :
          status[r][s] = "completed" => store[s] # None /\ store[s].run = r
    /\ \A r \in alone \cap fresh :
          LET unsound == {s \in DOMAIN status[r] :
                             status[r][s] = "completed" /\ store[s].text # "text"}
          IN  /\ verdict[r] = "clean" => unsound = {}
              /\ verdict[r] = "doubtful" => unsound # {}
              /\ verdict[r] = "quick" => r \in answer

\* A run whose exchange is in the session has been recorded in memory and saved
\* for replay, its question comes right before its answer, and it appears once,
\* whatever other runs, deletes and restarts did in between.
SavedMeansFinished ==
    \A i, j \in 1 .. Len(messages) :
        LET m == messages[i]
            n == messages[j]
        IN  /\ m.run \in recorded /\ pc[m.run] = "done"
            /\ m.role = "assistant" =>
                  i > 1 /\ messages[i - 1] = [run |-> m.run, role |-> "user"]
            /\ m = n => i = j

(***************************************************************************)
(* The inductive invariant.  A run that nothing overlapped is the only one   *)
(* under way (LoneInv), so that what it completed is in the store as it left *)
(* it (OwnInv), and nothing else is if it found the store empty (FreshInv).  *)
(* The gate decides after the last step is booked (VerdictInv).              *)
(***************************************************************************)
Completed(r) == {s \in DOMAIN status[r] : status[r][s] = "completed"}

LoneInv ==
    /\ DOMAIN status = Run
    /\ alone \subseteq Active /\ fresh \subseteq Active
    /\ \A r \in alone : Active = {r}

OwnInv ==
    \A r \in alone : \A s \in Completed(r) :
        /\ store[s] \in Result /\ store[s].run = r
        /\ store[s].text # "blank" => r \in answer

FreshInv ==
    \A r \in alone \cap fresh : \A s \in Step : store[s] # None => s \in Completed(r)

VerdictInv ==
    /\ \A r \in Run : pc[r] \notin {"reflect", "finalize", "save"} => verdict[r] = None
    /\ \A r \in alone \cap fresh :
          /\ verdict[r] = "clean" => \A s \in Completed(r) : store[s].text = "text"
          /\ verdict[r] = "doubtful" => \E s \in Completed(r) : store[s].text # "text"
          /\ verdict[r] = "quick" => r \in answer

SaveInv ==
    /\ \A r \in Run : pc[r] = "save" => r \in recorded
    /\ SavedMeansFinished

IInv == TypeOK /\ LoneInv /\ OwnInv /\ FreshInv /\ VerdictInv /\ SaveInv
=============================================================================
