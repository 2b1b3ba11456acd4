-------------------------- MODULE ConversationProofs --------------------------
(***************************************************************************)
(* Theorems about the parts of Services that serve a conversation: the       *)
(* runs of an agent's session, the chat pipeline with its caches, the agent  *)
(* service with its step runner, the search with the chunks it searches, and *)
(* the context window, for any number of runs, requests and events, any      *)
(* rankings, texts and histories.                                            *)
(*                                                                          *)
(* Each section shows that the invariant IInv of a part holds initially and *)
(* is kept by every step of the part, that it is therefore an invariant of   *)
(* Services, where other parts leave its variables alone, and that it        *)
(* implies the part's property.                                              *)
(***************************************************************************)
EXTENDS Services, TLAPS, FiniteSetTheorems, SequenceTheorems, NaturalsInduction,
        WellFoundedInduction

-----------------------------------------------------------------------------
(* The runs of a session *)

LEMMA SessionInitInv ==
    ASSUME Session!AgentSessionAssumption, Session!Init
    PROVE  Session!IInv
<1>1. runRow \in BOOLEAN /\ Session!Active = {}
  BY Zenon DEF Session!Init, Session!Active, Session!Working
<1>2. Session!TypeOK
  BY <1>1 DEF Session!Init, Session!TypeOK, Session!AgentSessionAssumption
<1>3. Session!LoneInv /\ Session!OwnInv /\ Session!FreshInv /\ Session!VerdictInv
  BY <1>1 DEF Session!Init, Session!LoneInv, Session!OwnInv, Session!FreshInv,
       Session!VerdictInv
<1>4. Session!SaveInv
  BY DEF Session!Init, Session!SaveInv, Session!SavedMeansFinished
<1> QED BY <1>2, <1>3, <1>4 DEF Session!IInv

LEMMA SessionInvProperty ==
    ASSUME Session!AgentSessionAssumption, Session!IInv
    PROVE  Session!OwnResults /\ Session!SavedMeansFinished
<1>1. ASSUME NEW r \in runAlone \cap Session!Active, NEW s \in DOMAIN runStatus[r],
             runStatus[r][s] = "completed"
      PROVE  runStore[s] # None /\ runStore[s].run = r
  BY <1>1 DEF Session!IInv, Session!OwnInv, Session!Completed, Session!AgentSessionAssumption
<1>2. ASSUME NEW r \in runAlone \cap runFresh
      PROVE  LET unsound == {s \in DOMAIN runStatus[r] :
                                runStatus[r][s] = "completed" /\ runStore[s].text # "text"}
             IN  /\ runVerdict[r] = "clean" => unsound = {}
                 /\ runVerdict[r] = "doubtful" => unsound # {}
                 /\ runVerdict[r] = "quick" => r \in runAnswer
  BY DEF Session!IInv, Session!VerdictInv, Session!Completed
<1> QED BY <1>1, <1>2 DEF Session!IInv, Session!SaveInv, Session!OwnResults

LEMMA SessionRunOfMessage ==
    ASSUME NEW m \in Seq([run : Client, role : {"user", "assistant"}])
    PROVE  \A i \in 1 .. Len(m) : m[i].run \in Client
<1> DEFINE Message == [run : Client, role : {"user", "assistant"}]
<1>1. \A e \in Message : e.run \in Client
  OBVIOUS
<1>2. m \in Seq(Message)
  OBVIOUS
<1> HIDE DEF Message
<1>3. \A i \in 1 .. Len(m) : m[i] \in Message
  BY <1>2
<1> QED BY <1>1, <1>3

\* One or two messages behind the others.
LEMMA SessionAppendBoth ==
    ASSUME NEW S, NEW s \in Seq(S), NEW a \in S, NEW b \in S,
           NEW t, t = s \o (<<a>> \o <<b>>) \/ t = s \o (<<a>> \o <<>>)
    PROVE  /\ t \in Seq(S) /\ Len(t) \in {Len(s) + 1, Len(s) + 2}
           /\ \A i \in 1 .. Len(s) : t[i] = s[i]
           /\ t[Len(s) + 1] = a
           /\ Len(t) = Len(s) + 2 => t[Len(s) + 2] = b
<1>1. CASE t = s \o (<<a>> \o <<b>>)
  <2> DEFINE u == <<a>> \o <<b>>
  <2>1. u \in Seq(S) /\ Len(u) = 2 /\ u[1] = a /\ u[2] = b
    OBVIOUS
  <2> HIDE DEF u
  <2>2. t \in Seq(S) /\ Len(t) = Len(s) + 2 /\ Len(s) \in Nat
    BY <1>1, <2>1 DEF u
  <2>3. \A i \in 1 .. Len(s) + 2 : t[i] = IF i <= Len(s) THEN s[i] ELSE u[i - Len(s)]
    BY <1>1, <2>1 DEF u
  <2> QED BY <2>1, <2>2, <2>3
<1>2. CASE t = s \o (<<a>> \o <<>>)
  <2> DEFINE u == <<a>> \o <<>>
  <2>1. u \in Seq(S) /\ Len(u) = 1 /\ u[1] = a
    OBVIOUS
  <2> HIDE DEF u
  <2>2. t \in Seq(S) /\ Len(t) = Len(s) + 1 /\ Len(s) \in Nat
    BY <1>2, <2>1 DEF u
  <2>3. \A i \in 1 .. Len(s) + 1 : t[i] = IF i <= Len(s) THEN s[i] ELSE u[i - Len(s)]
    BY <1>2, <2>1 DEF u
  <2> QED BY <2>1, <2>2, <2>3
<1> QED BY <1>1, <1>2

\* Messages and what is recorded stay, and no run becomes done or comes to save.
LEMMA SessionSaveKeeps ==
    ASSUME Session!SaveInv, UNCHANGED <<runRecorded, runMessages>>,
           \A r \in Client : /\ runPc'[r] = "save" => runPc[r] = "save"
                             /\ runPc[r] = "done" => runPc'[r] = "done",
           runMessages \in Seq([run : Client, role : {"user", "assistant"}])
    PROVE  Session!SaveInv'
<1>1. \A i \in 1 .. Len(runMessages) : runMessages[i].run \in Client
  BY SessionRunOfMessage
<1> QED BY <1>1 DEF Session!SaveInv, Session!SavedMeansFinished

\* Starting a run: it is alone unless another one is under way.
LEMMA SessionStartKeeps ==
    ASSUME Session!AgentSessionAssumption, Session!IInv, NEW r \in Client, Session!Start(r)
    PROVE  Session!IInv'
<1>1. PICK n \in Session!Step : runStatus' = [runStatus EXCEPT ![r]
        = [s \in 1 .. n |-> "pending"]]
  BY DEF Session!Start, Session!Plans
<1>2. /\ runPc[r] = "idle" /\ runPc'[r] \in {"execute", "toolless"} /\ r \in Client
      /\ r \notin Session!Active
      /\ \A q \in Client : q # r => runPc'[q] = runPc[q] /\ runStatus'[q] = runStatus[q]
      /\ runPc' \in [Client -> {"idle", "done", "failed", "gone"} \cup Session!Working]
      /\ UNCHANGED <<runStore, runAnswer, runVerdict, runRecorded, runRow, runMessages>>
      /\ runAlone' = IF Session!Active = {} THEN {r} ELSE {}
      /\ runFresh' = IF \A s \in Session!Step : runStore[s] = None THEN runFresh \cup {r}
           ELSE runFresh
  BY <1>1 DEF Session!IInv, Session!TypeOK, Session!LoneInv, Session!Start, Session!Goto,
       Session!Active, Session!Working, Session!database
<1>3. Session!Active' = Session!Active \cup {r}
  BY <1>2 DEF Session!Active, Session!Working
<1>4. DOMAIN runStatus' = Client /\ DOMAIN runStatus'[r] = 1 .. n
      /\ \A s \in 1 .. n : runStatus'[r][s] = "pending"
  BY <1>1 DEF Session!IInv, Session!LoneInv
<1>5. Session!TypeOK'
  <2>1. \A q \in Client : DOMAIN runStatus'[q] \subseteq Session!Step
    BY <1>2, <1>4 DEF Session!IInv, Session!TypeOK, Session!Step, Session!AgentSessionAssumption
  <2> QED BY <1>2, <2>1 DEF Session!IInv, Session!TypeOK
<1>6. Session!LoneInv'
  BY <1>2, <1>3, <1>4 DEF Session!IInv, Session!LoneInv
<1>7. \A q \in runAlone' : q = r /\ Session!Completed(q)' = {}
  BY <1>2, <1>4 DEF Session!Completed
<1>8. Session!OwnInv' /\ Session!FreshInv'
  BY <1>2, <1>7 DEF Session!IInv, Session!LoneInv, Session!OwnInv, Session!FreshInv
<1>9. Session!VerdictInv'
  BY <1>2, <1>7 DEF Session!IInv, Session!VerdictInv, Session!AgentSessionAssumption,
       Session!Decision
<1>10. Session!SaveInv'
  BY <1>2, SessionSaveKeeps DEF Session!IInv, Session!TypeOK
<1> QED BY <1>5, <1>6, <1>8, <1>9, <1>10 DEF Session!IInv

\* A run that completes a step is the only one if any is alone.
LEMMA SessionCompleteKeeps ==
    ASSUME Session!AgentSessionAssumption, Session!IInv, NEW r \in Client,
           NEW s \in Session!Step, Session!CompleteStep(r, s)
    PROVE  Session!IInv'
<1>1. PICK text \in Session!Text :
          /\ runStore' = [runStore EXCEPT ![s] = [run |-> r, text |-> text]]
          /\ runAnswer' = IF text # "blank" THEN runAnswer \cup {r} ELSE runAnswer
  BY DEF Session!CompleteStep
<1>2. /\ runPc[r] = "execute" /\ s \in DOMAIN runStatus[r]
      /\ runStatus' = [runStatus EXCEPT ![r][s] = "completed"]
      /\ UNCHANGED <<runPc, runVerdict, runAlone, runFresh, runRecorded, runRow, runMessages>>
      /\ Session!Active' = Session!Active /\ r \in Session!Active
  BY DEF Session!CompleteStep, Session!Pending, Session!Active, Session!Working,
       Session!database
<1>3. /\ DOMAIN runStatus' = Client
      /\ \A q \in Client : DOMAIN runStatus'[q] = DOMAIN runStatus[q]
      /\ Session!Completed(r)' = Session!Completed(r) \cup {s}
      /\ \A q \in Client : q # r => Session!Completed(q)' = Session!Completed(q)
  BY <1>2 DEF Session!IInv, Session!LoneInv, Session!Completed
<1>4. /\ runStore'[s] \in Session!Result /\ runStore'[s].run = r /\ runStore'[s].text = text
      /\ \A q \in Session!Step : q # s => runStore'[q] = runStore[q]
  BY <1>1 DEF Session!IInv, Session!TypeOK, Session!Result
<1>5. Session!TypeOK'
  BY <1>1, <1>2, <1>3, <1>4 DEF Session!IInv, Session!TypeOK
<1>6. Session!LoneInv'
  BY <1>2, <1>3 DEF Session!IInv, Session!LoneInv
<1>7. \A q \in runAlone : q = r /\ Session!Completed(q) \subseteq Session!Step
  BY <1>2 DEF Session!IInv, Session!LoneInv, Session!TypeOK, Session!Completed
<1>8. Session!OwnInv'
  BY <1>1, <1>2, <1>3, <1>4, <1>7 DEF Session!IInv, Session!OwnInv
<1>9. Session!FreshInv'
  BY <1>2, <1>3, <1>4, <1>7 DEF Session!IInv, Session!FreshInv
<1>10. Session!VerdictInv'
  BY <1>2, <1>7 DEF Session!IInv, Session!VerdictInv, Session!AgentSessionAssumption,
       Session!Decision
<1>11. Session!SaveInv'
  BY <1>2, SessionSaveKeeps DEF Session!IInv, Session!TypeOK
<1> QED BY <1>5, <1>6, <1>8, <1>9, <1>10, <1>11 DEF Session!IInv

\* The steps that store nothing and leave the run under way.
LEMMA SessionProgressKeeps ==
    ASSUME Session!AgentSessionAssumption, Session!IInv, NEW r \in Client, r \in Session!Active,
           runPc' = [runPc EXCEPT ![r] = runPc'[r]], runPc'[r] \in Session!Working,
           DOMAIN runStatus' = Client,
           \A q \in Client : DOMAIN runStatus'[q] = DOMAIN runStatus[q],
           \A q \in Client : Session!Completed(q)' = Session!Completed(q),
           runAnswer' \in {runAnswer, runAnswer \cup {r}},
           UNCHANGED <<runStore, runAlone, runFresh, runRow, runMessages>>,
           runRecorded' \in {runRecorded, runRecorded \cup {r}},
           runPc'[r] = "save" => r \in runRecorded',
           runVerdict' \in [Client -> Session!Decision \cup {None}], Session!VerdictInv'
    PROVE  Session!IInv'
<1>1. Session!Active' = Session!Active
  BY DEF Session!Active, Session!IInv, Session!TypeOK
<1>2. Session!TypeOK'
  BY DEF Session!IInv, Session!TypeOK
<1>3. Session!LoneInv'
  BY <1>1 DEF Session!IInv, Session!LoneInv
<1>4. Session!OwnInv' /\ Session!FreshInv'
  BY DEF Session!IInv, Session!OwnInv, Session!FreshInv, Session!LoneInv, Session!Active
<1>5. Session!SaveInv'
  <2>1. \A i \in 1 .. Len(runMessages) : runMessages[i].run \in Client
    BY SessionRunOfMessage DEF Session!IInv, Session!TypeOK
  <2>2. \A q \in Client : runPc[q] = "done" => runPc'[q] = "done"
    BY DEF Session!Active, Session!Working, Session!IInv, Session!TypeOK
  <2>3. \A q \in Client : runPc'[q] = "save" => q \in runRecorded'
    BY DEF Session!IInv, Session!SaveInv, Session!TypeOK
  <2> QED BY <2>1, <2>2, <2>3 DEF Session!IInv, Session!SaveInv, Session!SavedMeansFinished
<1> QED BY <1>2, <1>3, <1>4, <1>5 DEF Session!IInv

LEMMA SessionQuietKeeps ==
    ASSUME Session!AgentSessionAssumption, Session!IInv, NEW r \in Client,
           \/ \E s \in Session!Step : Session!LoseStep(r, s)
           \/ Session!EndExecution(r) \/ Session!AnswerWithoutTools(r)
           \/ Session!QualityGate(r) \/ Session!Reflect(r) \/ Session!Finalize(r)
    PROVE  Session!IInv'
<1> USE DEF Session!Goto, Session!local, Session!database
<1>1. CASE \E s \in Session!Step : Session!LoseStep(r, s)
  <2>1. PICK s \in Session!Step : Session!LoseStep(r, s)
    BY <1>1
  <2>2. /\ runPc[r] = "execute" /\ s \in DOMAIN runStatus[r] /\ runStatus[r][s] = "pending"
        /\ runStatus'[r][s] # "completed" /\ DOMAIN runStatus' = Client
        /\ \A q \in Client : DOMAIN runStatus'[q] = DOMAIN runStatus[q]
        /\ \A q \in Client : \A t : (q # r \/ t # s) /\ t \in DOMAIN runStatus[q]
             => runStatus'[q][t] = runStatus[q][t]
        /\ UNCHANGED <<runPc, runStore, runAnswer, runVerdict, runAlone, runFresh, runRecorded,
                       runRow, runMessages>>
    BY <2>1 DEF Session!LoseStep, Session!Pending, Session!IInv, Session!LoneInv
  <2>3. \A q \in Client : Session!Completed(q)' = Session!Completed(q)
    BY <2>2 DEF Session!Completed
  <2>4. Session!VerdictInv'
    BY <2>2, <2>3 DEF Session!IInv, Session!VerdictInv, Session!LoneInv, Session!Active
  <2>5. /\ r \in Session!Active /\ runPc' = [runPc EXCEPT ![r] = runPc'[r]]
        /\ runPc'[r] \in Session!Working /\ runPc'[r] # "save"
        /\ runVerdict' \in [Client -> Session!Decision \cup {None}]
    BY <2>2 DEF Session!IInv, Session!TypeOK, Session!Active, Session!Working
  <2> QED BY <2>2, <2>3, <2>4, <2>5, SessionProgressKeeps
<1>2. CASE Session!EndExecution(r)
  <2>1. /\ runPc[r] = "execute" /\ runPc' = [runPc EXCEPT ![r] = "gate"]
        /\ DOMAIN runStatus' = Client
        /\ UNCHANGED <<runStore, runAnswer, runVerdict, runAlone, runFresh, runRecorded,
                       runRow, runMessages>>
        /\ \A q \in Client : DOMAIN runStatus'[q] = DOMAIN runStatus[q]
        /\ \A q \in Client : q # r => runStatus'[q] = runStatus[q]
        /\ \A t \in DOMAIN runStatus[r] : \/ runStatus'[r][t] = runStatus[r][t]
                                          \/ runStatus[r][t] = "pending" /\ runStatus'[r][t]
                                               = "skipped"
    BY <1>2 DEF Session!EndExecution, Session!IInv, Session!LoneInv
  <2>2. \A q \in Client : Session!Completed(q)' = Session!Completed(q)
    BY <2>1 DEF Session!Completed
  <2>3. Session!VerdictInv'
    BY <2>1, <2>2 DEF Session!IInv, Session!TypeOK, Session!VerdictInv, Session!LoneInv,
         Session!Active
  <2>5. /\ r \in Session!Active /\ runPc' = [runPc EXCEPT ![r] = runPc'[r]]
        /\ runPc'[r] \in Session!Working /\ runPc'[r] # "save"
        /\ runVerdict' \in [Client -> Session!Decision \cup {None}]
    BY <2>1 DEF Session!IInv, Session!TypeOK, Session!Active, Session!Working
  <2> QED BY <2>1, <2>2, <2>3, <2>5, SessionProgressKeeps
<1>3. CASE Session!AnswerWithoutTools(r)
  <2>1. /\ runPc[r] = "toolless" /\ runPc' = [runPc EXCEPT ![r] = "gate"]
        /\ UNCHANGED <<runStatus, runStore, runVerdict, runAlone, runFresh, runRecorded,
                       runRow, runMessages>>
        /\ runAnswer' \in {runAnswer, runAnswer \cup {r}}
    BY <1>3 DEF Session!AnswerWithoutTools
  <2>2. Session!VerdictInv'
    BY <2>1 DEF Session!IInv, Session!TypeOK, Session!VerdictInv, Session!Completed
  <2>5. /\ r \in Session!Active /\ runPc' = [runPc EXCEPT ![r] = runPc'[r]]
        /\ runPc'[r] \in Session!Working /\ runPc'[r] # "save"
        /\ runVerdict' \in [Client -> Session!Decision \cup {None}]
    BY <2>1 DEF Session!IInv, Session!TypeOK, Session!Active, Session!Working
  <2>6. /\ DOMAIN runStatus' = Client /\ \A q \in Client : DOMAIN runStatus'[q]
             = DOMAIN runStatus[q]
        /\ \A q \in Client : Session!Completed(q)' = Session!Completed(q)
    BY <2>1 DEF Session!IInv, Session!LoneInv, Session!Completed
  <2> QED BY <2>1, <2>2, <2>5, <2>6, SessionProgressKeeps
<1>4. CASE Session!QualityGate(r)
  <2> DEFINE passed == \A s \in Session!Step : runStore[s] # None => runStore[s].text = "text"
  <2>1. /\ runPc[r] = "gate"
        /\ runVerdict' = [runVerdict EXCEPT ![r] = IF passed THEN "clean" ELSE "doubtful"]
        /\ runPc' \in {[runPc EXCEPT ![r] = "reflect"], [runPc EXCEPT ![r] = "finalize"]}
        /\ UNCHANGED <<runStatus, runStore, runAnswer, runAlone, runFresh, runRecorded, runRow,
                       runMessages>>
    BY <1>4 DEF Session!QualityGate
  <2>2. Session!VerdictInv'
    <3>1. \A q \in Client : runPc'[q] \notin {"reflect", "finalize",
        "save"} => runVerdict'[q] = None
      BY <2>1 DEF Session!IInv, Session!TypeOK, Session!VerdictInv
    <3>2. ASSUME r \in runAlone \cap runFresh
          PROVE  passed <=> \A s \in Session!Completed(r) : runStore[s].text = "text"
      <4>1. Session!Completed(r) \subseteq Session!Step
        BY DEF Session!IInv, Session!TypeOK, Session!Completed
      <4> QED BY <3>2, <4>1 DEF Session!IInv, Session!OwnInv, Session!FreshInv,
                   Session!AgentSessionAssumption
    <3>3. runVerdict'[r] \in {"clean", "doubtful"} /\ (runVerdict'[r] = "clean" <=> passed)
      BY <2>1 DEF Session!IInv, Session!TypeOK
    <3>4. \A q \in Client : q # r => runVerdict'[q] = runVerdict[q]
      BY <2>1 DEF Session!IInv, Session!TypeOK
    <3>5. \A q \in Client : Session!Completed(q)' = Session!Completed(q)
      BY <2>1 DEF Session!Completed
    <3> QED BY <2>1, <3>1, <3>2, <3>3, <3>4, <3>5 DEF Session!IInv, Session!VerdictInv,
                 Session!LoneInv, Session!Active
  <2>4. runVerdict' \in [Client -> Session!Decision \cup {None}]
    <3>1. runVerdict \in [Client -> Session!Decision \cup {None}]
      BY DEF Session!IInv, Session!TypeOK
    <3> QED BY <2>1, <3>1 DEF Session!Decision
  <2>5. /\ r \in Session!Active /\ runPc' = [runPc EXCEPT ![r] = runPc'[r]]
        /\ runPc'[r] \in Session!Working /\ runPc'[r] # "save"
    <3>1. DOMAIN runPc = Client /\ r \in Client
      BY DEF Session!IInv, Session!TypeOK
    <3>2. \A at : runPc' = [runPc EXCEPT ![r] = at] => runPc'[r] = at
      BY <3>1
    <3>3. runPc'[r] \in {"reflect", "finalize"}
      BY <2>1, <3>2
    <3>4. runPc' = [runPc EXCEPT ![r] = runPc'[r]]
      BY <2>1, <3>3
    <3>5. runPc[r] \in Session!Working /\ runPc'[r] \in Session!Working /\ runPc'[r] # "save"
      BY <2>1, <3>3 DEF Session!Working
    <3> QED BY <3>1, <3>4, <3>5 DEF Session!Active
  <2>6. DOMAIN runStatus' = Client /\ \A q \in Client : DOMAIN runStatus'[q] = DOMAIN runStatus[q]
    BY <2>1 DEF Session!IInv, Session!LoneInv
  <2>7. \A q \in Client : Session!Completed(q)' = Session!Completed(q)
    BY <2>1 DEF Session!Completed
  <2> QED BY <2>1, <2>2, <2>4, <2>5, <2>6, <2>7, SessionProgressKeeps
<1>5. CASE Session!Reflect(r)
  <2>1. /\ runPc[r] = "reflect" /\ runPc' = [runPc EXCEPT ![r] = "finalize"]
        /\ runVerdict' = [runVerdict EXCEPT ![r] = IF Session!QuickPassCheck(r) THEN "quick" ELSE "model"]
        /\ UNCHANGED <<runStatus, runStore, runAnswer, runAlone, runFresh, runRecorded, runRow,
                       runMessages>>
    BY <1>5 DEF Session!Reflect
  <2>2. ASSUME r \in runAlone \cap runFresh, Session!QuickPassCheck(r)
        PROVE  r \in runAnswer
    <3>1. PICK s \in Session!Step : runStore[s] # None /\ runStore[s].text # "blank"
      BY <2>2 DEF Session!QuickPassCheck, Session!HasResults
    <3> QED BY <2>2, <3>1 DEF Session!IInv, Session!FreshInv, Session!OwnInv
  <2>3. Session!VerdictInv'
    <3>1. \A q \in Client : runPc'[q] \notin {"reflect", "finalize",
        "save"} => runVerdict'[q] = None
      BY <2>1 DEF Session!IInv, Session!TypeOK, Session!VerdictInv
    <3>2. runVerdict'[r] \in {"quick", "model"} /\ (runVerdict'[r] = "quick"
            => Session!QuickPassCheck(r))
      BY <2>1 DEF Session!IInv, Session!TypeOK
    <3>4. \A q \in Client : q # r => runVerdict'[q] = runVerdict[q]
      BY <2>1 DEF Session!IInv, Session!TypeOK
    <3>5. \A q \in Client : Session!Completed(q)' = Session!Completed(q)
      BY <2>1 DEF Session!Completed
    <3> QED BY <2>1, <2>2, <3>1, <3>2, <3>4, <3>5 DEF Session!IInv, Session!VerdictInv,
                 Session!LoneInv, Session!Active
  <2>4. runVerdict' \in [Client -> Session!Decision \cup {None}]
    <3>1. runVerdict \in [Client -> Session!Decision \cup {None}]
      BY DEF Session!IInv, Session!TypeOK
    <3> QED BY <2>1, <3>1 DEF Session!Decision
  <2>5. /\ r \in Session!Active /\ runPc' = [runPc EXCEPT ![r] = runPc'[r]]
        /\ runPc'[r] \in Session!Working /\ runPc'[r] # "save"
    <3>1. DOMAIN runPc = Client /\ r \in Client
      BY DEF Session!IInv, Session!TypeOK
    <3>2. \A at : runPc' = [runPc EXCEPT ![r] = at] => runPc'[r] = at
      BY <3>1
    <3>3. runPc'[r] = "finalize"
      BY <2>1, <3>2
    <3>4. runPc' = [runPc EXCEPT ![r] = runPc'[r]]
      BY <2>1, <3>3
    <3>5. runPc[r] \in Session!Working /\ runPc'[r] \in Session!Working /\ runPc'[r] # "save"
      BY <2>1, <3>3 DEF Session!Working
    <3> QED BY <3>1, <3>4, <3>5 DEF Session!Active
  <2>6. DOMAIN runStatus' = Client /\ \A q \in Client : DOMAIN runStatus'[q] = DOMAIN runStatus[q]
    BY <2>1 DEF Session!IInv, Session!LoneInv
  <2>7. \A q \in Client : Session!Completed(q)' = Session!Completed(q)
    BY <2>1 DEF Session!Completed
  <2> QED BY <2>1, <2>3, <2>4, <2>5, <2>6, <2>7, SessionProgressKeeps
<1>6. CASE Session!Finalize(r)
  <2>1. /\ runPc[r] = "finalize" /\ runPc' = [runPc EXCEPT ![r] = "save"]
        /\ runRecorded' = runRecorded \cup {r}
        /\ UNCHANGED <<runStatus, runStore, runAnswer, runVerdict, runAlone, runFresh, runRow,
                       runMessages>>
    BY <1>6 DEF Session!Finalize
  <2>2. Session!VerdictInv'
    BY <2>1 DEF Session!IInv, Session!TypeOK, Session!VerdictInv, Session!Completed
  <2>4. runVerdict' \in [Client -> Session!Decision \cup {None}]
    <3>1. runVerdict \in [Client -> Session!Decision \cup {None}]
      BY DEF Session!IInv, Session!TypeOK
    <3> QED BY <2>1, <3>1 DEF Session!Decision
  <2>5. /\ r \in Session!Active /\ runPc' = [runPc EXCEPT ![r] = runPc'[r]]
        /\ runPc'[r] \in Session!Working
    <3>1. DOMAIN runPc = Client /\ r \in Client
      BY DEF Session!IInv, Session!TypeOK
    <3>2. \A at : runPc' = [runPc EXCEPT ![r] = at] => runPc'[r] = at
      BY <3>1
    <3>3. runPc'[r] = "save"
      BY <2>1, <3>2
    <3>4. runPc' = [runPc EXCEPT ![r] = runPc'[r]]
      BY <2>1, <3>3
    <3>5. runPc[r] \in Session!Working /\ runPc'[r] \in Session!Working
      BY <2>1, <3>3 DEF Session!Working
    <3> QED BY <3>1, <3>4, <3>5 DEF Session!Active
  <2>6. DOMAIN runStatus' = Client /\ \A q \in Client : DOMAIN runStatus'[q] = DOMAIN runStatus[q]
    BY <2>1 DEF Session!IInv, Session!LoneInv
  <2>7. \A q \in Client : Session!Completed(q)' = Session!Completed(q)
    BY <2>1 DEF Session!Completed
  <2> QED BY <2>1, <2>2, <2>4, <2>5, <2>6, <2>7, SessionProgressKeeps
<1> QED BY <1>1, <1>2, <1>3, <1>4, <1>5, <1>6

\* Runs that are over leave nothing that the invariant speaks of, but messages.
LEMMA SessionLeaveKeeps ==
    ASSUME Session!AgentSessionAssumption, Session!IInv, NEW R \in SUBSET Session!Active,
           NEW place \in {"done", "failed", "gone"}, Session!Leave(R, place),
           runStore' = runStore \/ (R = Session!Active /\ runStore'
             = [s \in Session!Step |-> None]),
           UNCHANGED runRecorded, runRow' \in BOOLEAN,
           runMessages' \in Seq([run : Client, role : {"user", "assistant"}]),
           Session!SavedMeansFinished'
    PROVE  Session!IInv'
<1>1. /\ Session!Active' = Session!Active \ R /\ runAnswer' \subseteq runAnswer
      /\ runAlone' = runAlone \ R /\ runFresh' = runFresh \ R
      /\ \A q \in Client : IF q \in R THEN runPc'[q] = place /\ runVerdict'[q] = None
                        ELSE /\ runPc'[q] = runPc[q] /\ runVerdict'[q] = runVerdict[q]
                                /\ runStatus'[q] = runStatus[q]
                             /\ q \in runAnswer' <=> q \in runAnswer
      /\ DOMAIN runStatus' = Client
  BY DEF Session!Leave, Session!IInv, Session!LoneInv, Session!TypeOK, Session!Active,
       Session!Working
<1>2. \A q \in Client : q \in R => DOMAIN runStatus'[q] = {}
  BY DEF Session!Leave
<1>3. Session!TypeOK'
  <2>1. \A q \in Client : DOMAIN runStatus'[q] \subseteq Session!Step
    BY <1>1, <1>2 DEF Session!IInv, Session!TypeOK
  <2>2. runPc' \in [Client -> {"idle", "done", "failed", "gone"} \cup Session!Working]
    BY DEF Session!IInv, Session!TypeOK, Session!Leave, Session!Active
  <2>3. runVerdict' \in [Client -> Session!Decision \cup {None}]
    BY DEF Session!IInv, Session!TypeOK, Session!Leave
  <2> QED BY <1>1, <2>1, <2>2, <2>3 DEF Session!IInv, Session!TypeOK
<1>4. Session!LoneInv'
  BY <1>1 DEF Session!IInv, Session!LoneInv
<1>5. \A q \in runAlone' : q \in runAlone /\ q \notin R /\ q \in Client
      /\ Session!Completed(q)' = Session!Completed(q) /\ runStore' = runStore
  BY <1>1 DEF Session!IInv, Session!LoneInv, Session!Completed, Session!Active
<1>6. Session!OwnInv' /\ Session!FreshInv' /\ Session!VerdictInv'
  BY <1>1, <1>5 DEF Session!IInv, Session!OwnInv, Session!FreshInv, Session!VerdictInv
<1>7. Session!SaveInv'
  BY <1>1 DEF Session!IInv, Session!SaveInv
<1> QED BY <1>3, <1>4, <1>6, <1>7 DEF Session!IInv

LEMMA SessionSaveMessagesKeeps ==
    ASSUME Session!AgentSessionAssumption, Session!IInv, NEW r \in Client,
           Session!SaveMessages(r)
    PROVE  Session!IInv'
<1> DEFINE Message == [run : Client, role : {"user", "assistant"}]
           question == [run |-> r, role |-> "user"]
           reply == [run |-> r, role |-> "assistant"]
           n == Len(runMessages)
<1>1. /\ runPc[r] = "save" /\ r \in Session!Active /\ r \in runRecorded /\ runRow' = TRUE
      /\ Session!Leave({r}, "done") /\ UNCHANGED <<runStore, runRecorded>>
  BY DEF Session!SaveMessages, Session!Active, Session!Working, Session!IInv, Session!SaveInv
<1>2. /\ question \in Message /\ reply \in Message /\ question # reply
      /\ question.run = r /\ reply.run = r /\ question.role = "user"
  OBVIOUS
<1>3. \/ runMessages' = runMessages \o (<<question>> \o <<reply>>)
      \/ runMessages' = runMessages \o (<<question>> \o <<>>)
  BY DEF Session!SaveMessages
<1>4. runMessages \in Seq(Message) /\ n \in Nat
  BY DEF Session!IInv, Session!TypeOK
<1>5. \A i \in 1 .. n : runMessages[i].run # r /\ runMessages[i].run \in Client
  <2>1. \A i \in 1 .. n : runPc[runMessages[i].run] = "done"
    BY DEF Session!IInv, Session!SaveInv, Session!SavedMeansFinished
  <2>2. \A i \in 1 .. n : runMessages[i].run \in Client
    BY SessionRunOfMessage DEF Session!IInv, Session!TypeOK
  <2> QED BY <1>1, <2>1, <2>2
<1>6. /\ \A q \in Client : runPc[q] = "done" => runPc'[q] = "done"
      /\ runPc'[r] = "done"
  BY <1>1 DEF Session!Leave
<1> HIDE DEF Message, question, reply
<1>7. /\ runMessages' \in Seq(Message) /\ Len(runMessages') \in {n + 1, n + 2}
      /\ \A i \in 1 .. n : runMessages'[i] = runMessages[i]
      /\ runMessages'[n + 1] = question
      /\ Len(runMessages') = n + 2 => runMessages'[n + 2] = reply
  <2>1. /\ runMessages' \in Seq(Message)
        /\ Len(runMessages') \in {Len(runMessages) + 1, Len(runMessages) + 2}
        /\ \A i \in 1 .. Len(runMessages) : runMessages'[i] = runMessages[i]
        /\ runMessages'[Len(runMessages) + 1] = question
        /\ Len(runMessages') = Len(runMessages) + 2 => runMessages'[Len(runMessages) + 2]
             = reply
    <3> HIDE DEF n
    <3>1. question \in Message /\ reply \in Message /\ runMessages \in Seq(Message)
      BY <1>2, <1>4
    <3>2. CASE runMessages' = runMessages \o (<<question>> \o <<reply>>)
      BY <3>1, <3>2, SessionAppendBoth
    <3>3. CASE runMessages' = runMessages \o (<<question>> \o <<>>)
      BY <3>1, <3>3, SessionAppendBoth
    <3> QED BY <1>3, <3>2, <3>3
  <2> QED BY <2>1
<1>8. Session!SavedMeansFinished'
  <2> SUFFICES ASSUME NEW i \in 1 .. Len(runMessages'), NEW j \in 1 .. Len(runMessages')
               PROVE  /\ runMessages'[i].run \in runRecorded'
                      /\ runPc'[runMessages'[i].run] = "done"
                      /\ runMessages'[i].role = "assistant" =>
                            i > 1 /\ runMessages'[i - 1] = [run |-> runMessages'[i].run,
                            role |-> "user"]
                      /\ runMessages'[i] = runMessages'[j] => i = j
    BY DEF Session!SavedMeansFinished
  <2>1. CASE i \in 1 .. n
    <3>1. /\ runMessages[i].run \in runRecorded /\ runPc[runMessages[i].run] = "done"
          /\ runMessages[i].role = "assistant" =>
                i > 1 /\ runMessages[i - 1] = [run |-> runMessages[i].run, role |-> "user"]
      BY <2>1 DEF Session!IInv, Session!SaveInv, Session!SavedMeansFinished
    <3>2. runMessages[i].role = "assistant" => i - 1 \in 1 .. n
      BY <1>4, <2>1, <3>1
    <3>3. runMessages'[i] = runMessages'[j] => i = j
      <4>1. CASE j \in 1 .. n
        BY <1>7, <2>1, <4>1 DEF Session!IInv, Session!SaveInv, Session!SavedMeansFinished
      <4>2. CASE j \notin 1 .. n
        <5>1. runMessages'[j].run = r
          BY <1>2, <1>4, <1>7, <4>2
        <5> QED BY <1>5, <1>7, <2>1, <5>1
      <4> QED BY <4>1, <4>2
    <3> QED BY <1>1, <1>5, <1>6, <1>7, <2>1, <3>1, <3>2, <3>3
  <2>2. CASE i \notin 1 .. n
    <3>1. i = n + 1 \/ (i = n + 2 /\ Len(runMessages') = n + 2)
      BY <1>4, <1>7, <2>2
    <3>2. runMessages'[i].run = r
      BY <1>2, <1>7, <3>1
    <3>3. runMessages'[i].role = "assistant" => i > 1 /\ runMessages'[i - 1] = [run |-> r,
                                                             role |-> "user"]
      BY <1>2, <1>4, <1>7, <3>1 DEF question
    <3>4. runMessages'[i] = runMessages'[j] => i = j
      <4>1. CASE j \in 1 .. n
        BY <1>5, <1>7, <3>2, <4>1
      <4>2. CASE j \notin 1 .. n
        BY <1>2, <1>4, <1>7, <3>1, <4>2
      <4> QED BY <4>1, <4>2
    <3> QED BY <1>1, <1>6, <3>2, <3>3, <3>4
  <2> QED BY <2>1, <2>2
<1>9. runMessages' \in Seq([run : Client, role : {"user", "assistant"}])
  BY <1>7 DEF Message
<1>10. runRow' \in BOOLEAN /\ {r} \in SUBSET Session!Active /\ runStore' = runStore
       /\ UNCHANGED runRecorded
  BY <1>1
<1> HIDE DEF n
<1> QED BY <1>1, <1>8, <1>9, <1>10, SessionLeaveKeeps

LEMMA SessionEndKeeps ==
    ASSUME Session!AgentSessionAssumption, Session!IInv,
           \/ \E r \in Client : Session!LoseMessages(r) \/ Session!Abort(r)
           \/ Session!DeleteSession \/ Session!Restart
    PROVE  Session!IInv'
<1>1. \A i \in 1 .. Len(runMessages) : runMessages[i].run \in Client
  BY SessionRunOfMessage DEF Session!IInv, Session!TypeOK
<1>2. ASSUME NEW R \in SUBSET Session!Active, NEW place \in {"done", "failed", "gone"},
             Session!Leave(R, place),
             UNCHANGED <<runRecorded, Session!database>>
      PROVE  Session!SavedMeansFinished'
  <2>1. \A q \in Client : runPc[q] = "done" => runPc'[q] = "done"
    BY <1>2 DEF Session!Leave, Session!Active, Session!Working
  <2> QED BY <1>1, <1>2, <2>1 DEF Session!IInv, Session!SaveInv, Session!SavedMeansFinished,
               Session!database
<1>3. ASSUME NEW R \in SUBSET Session!Active, NEW place \in {"done", "failed", "gone"},
             Session!Leave(R, place),
             runStore' = runStore \/ (R = Session!Active /\ runStore'
               = [s \in Session!Step |-> None]),
             UNCHANGED <<runRecorded, Session!database>>
      PROVE  Session!IInv'
  <2>1. runRow' \in BOOLEAN /\ runMessages' \in Seq([run : Client, role : {"user",
                                   "assistant"}])
    BY <1>3 DEF Session!IInv, Session!TypeOK, Session!database
  <2> QED BY <1>2, <1>3, <2>1, SessionLeaveKeeps
<1>4. CASE \E r \in Client : Session!LoseMessages(r) \/ Session!Abort(r)
  <2>1. PICK r \in Client : Session!LoseMessages(r) \/ Session!Abort(r)
    BY <1>4
  <2>2. /\ {r} \in SUBSET Session!Active
        /\ Session!Leave({r}, "done") \/ Session!Leave({r}, "failed") \/ Session!Leave({r},
                                                                             "gone")
        /\ runStore' = runStore /\ UNCHANGED <<runRecorded, Session!database>>
    BY <2>1 DEF Session!LoseMessages, Session!Abort, Session!Active, Session!Working
  <2>3. ASSUME NEW place \in {"done", "failed", "gone"}, Session!Leave({r}, place)
        PROVE  Session!IInv'
    BY <1>3, <2>2, <2>3
  <2> QED BY <2>2, <2>3
<1>5. CASE Session!DeleteSession
  <2>0. /\ runRow' \in BOOLEAN /\ runMessages' = <<>>
        /\ UNCHANGED <<runPc, runStatus, runAnswer, runVerdict, runAlone, runFresh, runStore,
                       runRecorded>>
    BY <1>5 DEF Session!DeleteSession, Session!local
  <2>3. Session!TypeOK'
    BY <2>0 DEF Session!IInv, Session!TypeOK
  <2>1. Session!LoneInv' /\ Session!OwnInv' /\ Session!FreshInv' /\ Session!VerdictInv'
    BY <2>0 DEF Session!IInv, Session!LoneInv, Session!OwnInv, Session!FreshInv,
         Session!VerdictInv, Session!Active, Session!Completed
  <2>2. Session!SaveInv'
    BY <1>5 DEF Session!DeleteSession, Session!IInv, Session!SaveInv, Session!SavedMeansFinished
  <2> QED BY <2>1, <2>2, <2>3 DEF Session!IInv
<1>6. CASE Session!Restart
  BY <1>3, <1>6 DEF Session!Restart
<1> QED BY <1>4, <1>5, <1>6

LEMMA SessionNextInv ==
    ASSUME Session!AgentSessionAssumption
    PROVE  Session!IInv /\ [Session!Next]_Session!vars => Session!IInv'
<1> SUFFICES ASSUME Session!IInv, [Session!Next]_Session!vars
             PROVE  Session!IInv'
  OBVIOUS
<1>1. CASE UNCHANGED Session!vars
  BY <1>1 DEF Session!vars, Session!local, Session!database, Session!IInv, Session!TypeOK,
       Session!LoneInv, Session!OwnInv, Session!FreshInv, Session!VerdictInv, Session!SaveInv,
              Session!SavedMeansFinished, Session!Completed, Session!Active
<1> QED BY <1>1, SessionStartKeeps, SessionCompleteKeeps, SessionQuietKeeps,
             SessionSaveMessagesKeeps, SessionEndKeeps DEF Session!Next

LEMMA SessionInvariance == ServicesSpec => []Session!IInv
<1>1. ServicesInit => Session!IInv
  BY SessionInitInv, ServicesAssumption DEF ServicesInit, ServicesAssumption
<1>2. Session!IInv /\ [ServicesNext]_servicesVars => Session!IInv'
  <2> SUFFICES ASSUME Session!IInv, [ServicesNext]_servicesVars
               PROVE  Session!IInv'
    OBVIOUS
  <2>1. Session!Next \/ UNCHANGED runVars
    BY DEF ServicesNext, Still, servicesVars
  <2>2. [Session!Next]_Session!vars
    BY <2>1 DEF runVars, Session!vars, Session!local, Session!database
  <2>3. Session!AgentSessionAssumption
    BY ServicesAssumption DEF ServicesAssumption
  <2> QED BY <2>2, <2>3, SessionNextInv
<1> QED BY <1>1, <1>2, PTL DEF ServicesSpec

\* What the gate reads of a run that nothing overlapped is the run's own, and an
\* exchange in the session is of a run that was recorded and saved, in order and once,
\* for any number of runs and steps, deletes and restarts.
THEOREM SessionsAgreeHolds == ServicesSpec => []SessionsAgree
<1>1. Session!IInv => SessionsAgree
  BY SessionInvProperty, ServicesAssumption DEF SessionsAgree, ServicesAssumption
<1> QED BY <1>1, SessionInvariance, PTL

-----------------------------------------------------------------------------
(* The chat pipeline *)

LEMMA ChatInitInv ==
    ASSUME Pipeline!ChatPipelineAssumption, Pipeline!Init
    PROVE  Pipeline!IInv
<1>1. chatRow \in BOOLEAN
  BY Zenon DEF Pipeline!Init
<1>4. Pipeline!NoResults \in Pipeline!Results /\ Pipeline!Nothing \in [row : BOOLEAN,
                                                     bound : BOOLEAN]
  BY DEF Pipeline!NoResults, Pipeline!Nothing, Pipeline!Results
<1>5. \A S : <<>> \in Seq(S)
  OBVIOUS
<1>2. Pipeline!TypeOK
  <2>1. chatFound \in [Client -> [row : BOOLEAN, bound : BOOLEAN]]
        /\ chatResults \in [Client -> Pipeline!Results]
    BY <1>4 DEF Pipeline!Init
  <2>2. chatEdits \in 0 .. ChatEdits
    BY DEF Pipeline!Init, Pipeline!ChatPipelineAssumption
  <2>6. chatBinding \in BOOLEAN
    BY Zenon DEF Pipeline!Init
  <2>3. chatMessages \in Seq([by : Client, role : {"user", "assistant"}])
    BY <1>5 DEF Pipeline!Init
  <2>4. /\ chatPc \in [Client -> Pipeline!Place]
        /\ chatKind \in [Client -> Pipeline!Kind \cup {None}]
        /\ chatReply \in [Client -> {"", "text", "error", None}]
        /\ chatUsage \in [Client -> Client \cup {None}]
    BY DEF Pipeline!Init, Pipeline!Place
  <2>5. /\ chatVector \subseteq Client /\ chatCached \subseteq Client
        /\ chatAlone \subseteq Client
        /\ chatExact \in Pipeline!Results \cup {None}
        /\ chatSemantic \in Pipeline!Entry \cup {None}
        /\ chatLastUsage \in Client \cup {None} /\ chatUntouched \subseteq Client
    BY DEF Pipeline!Init
  <2> QED BY <1>1, <2>1, <2>2, <2>3, <2>4, <2>5, <2>6 DEF Pipeline!TypeOK
<1>3. Pipeline!ConversationInv /\ Pipeline!LoneInv /\ Pipeline!TokensInv
  BY DEF Pipeline!Init, Pipeline!ConversationInv, Pipeline!LoneInv, Pipeline!TokensInv,
       Pipeline!ChatPipelineAssumption
<1> QED BY <1>2, <1>3 DEF Pipeline!IInv

LEMMA ChatInvProperty ==
    ASSUME Pipeline!IInv
    PROVE  Pipeline!AnsweredIsSaved /\ Pipeline!UsageIsOwn
<1>1. ASSUME NEW r \in chatUntouched, chatPc[r] = "done"
      PROVE  LET places(role) == {i \in 1 .. Len(chatMessages) : chatMessages[i] = [by |-> r,
          role |-> role]}
             IN  \E i, j \in 1 .. Len(chatMessages) :
                     i < j /\ places("user") = {i} /\ places("assistant") = {j}
  <2> DEFINE places(role) == {i \in 1 .. Len(chatMessages) : chatMessages[i] = [by |-> r,
      role |-> role]}
  <2>1. Pipeline!Answered(r)
    BY <1>1 DEF Pipeline!IInv, Pipeline!ConversationInv, Pipeline!TypeOK
  <2>2. PICK i \in 1 .. Len(chatMessages), j \in 1 .. Len(chatMessages) :
            /\ i < j
            /\ chatMessages[i] = Pipeline!Question(r) /\ chatMessages[j] = Pipeline!Answer(r)
            /\ \A k \in 1 .. Len(chatMessages) : chatMessages[k].by = r => k \in {i, j}
    BY <2>1 DEF Pipeline!Answered
  <2>3. Pipeline!Question(r) # Pipeline!Answer(r) /\ Pipeline!Question(r).by = r
        /\ Pipeline!Answer(r).by = r
    BY DEF Pipeline!Question, Pipeline!Answer
  <2>4. \A k \in 1 .. Len(chatMessages) : chatMessages[k] = Pipeline!Question(r) => k = i
    BY <2>2, <2>3
  <2>5. \A k \in 1 .. Len(chatMessages) : chatMessages[k] = Pipeline!Answer(r) => k = j
    BY <2>2, <2>3
  <2>6. places("user") = {i}
    BY <2>2, <2>4 DEF Pipeline!Question
  <2>7. places("assistant") = {j}
    BY <2>2, <2>5 DEF Pipeline!Answer
  <2> QED BY <2>2, <2>6, <2>7
<1> QED BY <1>1 DEF Pipeline!IInv, Pipeline!TokensInv, Pipeline!AnsweredIsSaved,
             Pipeline!UsageIsOwn

\* What a request that is over, or goes on from one place to the next, keeps of the
\* conversation: everything.
LEMMA ChatTalkKeeps ==
    ASSUME Pipeline!IInv, NEW r \in Client,
           UNCHANGED <<chatMessages, chatUntouched>>,
           \A q \in Client : q # r => chatPc'[q] = chatPc[q] /\ chatKind'[q] = chatKind[q],
           \/ chatPc[r] = "idle" /\ chatPc'[r] = "ask" /\ chatKind'[r] # "search"
           \/ chatPc[r] = "idle" /\ chatPc'[r] = "search"
           \/ /\ chatPc[r] \in {"lookup", "search", "fill", "bind", "generate", "save"}
              /\ chatPc'[r] \in {"search", "fill", "bind", "generate", "save"}
              /\ chatKind'[r] = chatKind[r]
           \/ /\ chatPc[r] \in {"usage", "store"} /\ chatPc'[r] \in {"store", "done"}
              /\ chatKind'[r] \in {chatKind[r], None} /\ chatKind'[r] # "search"
           \/ chatPc'[r] = "failed" /\ chatKind'[r] # "search"
           \/ chatPc'[r] = "done" /\ chatKind[r] = "search" /\ chatKind'[r] # "search"
    PROVE  Pipeline!ConversationInv'
<1>1. \A q \in Client : /\ Pipeline!Asked(q)' <=> Pipeline!Asked(q)
                        /\ Pipeline!Answered(q)' <=> Pipeline!Answered(q)
  BY DEF Pipeline!Asked, Pipeline!Answered
<1> QED BY <1>1 DEF Pipeline!IInv, Pipeline!ConversationInv

\* A request that leaves, or one whose place and data move within their types.
LEMMA ChatLeaveTypes ==
    ASSUME Pipeline!TypeOK, NEW r \in Client, NEW place \in {"done", "failed"},
           Pipeline!Leave(r, place)
    PROVE  /\ chatPc' = [chatPc EXCEPT ![r] = place] /\ chatPc' \in [Client -> Pipeline!Place]
           /\ chatKind' = [chatKind EXCEPT ![r] = None]
           /\ chatKind' \in [Client -> Pipeline!Kind \cup {None}]
           /\ chatFound' \in [Client -> [row : BOOLEAN, bound : BOOLEAN]]
           /\ chatResults' \in [Client -> Pipeline!Results]
           /\ chatReply' \in [Client -> {"", "text", "error", None}]
           /\ chatUsage' = [chatUsage EXCEPT ![r] = None]
           /\ chatUsage' \in [Client -> Client \cup {None}]
           /\ chatVector' \subseteq Client /\ chatCached' = chatCached \ {r}
           /\ chatAlone' = chatAlone \ {r}
<1>1. Pipeline!NoResults \in Pipeline!Results /\ Pipeline!Nothing \in [row : BOOLEAN,
                                                     bound : BOOLEAN]
  BY DEF Pipeline!NoResults, Pipeline!Nothing, Pipeline!Results
<1>2. chatFound' \in [Client -> [row : BOOLEAN, bound : BOOLEAN]]
  BY <1>1 DEF Pipeline!TypeOK, Pipeline!Leave
<1>3. chatResults' \in [Client -> Pipeline!Results]
  BY <1>1 DEF Pipeline!TypeOK, Pipeline!Leave
<1> QED BY <1>2, <1>3 DEF Pipeline!TypeOK, Pipeline!Leave, Pipeline!Goto, Pipeline!Place

\* A request that leaves is no longer alone, and its tokens are forgotten.
LEMMA ChatLeaveKeeps ==
    ASSUME Pipeline!ChatPipelineAssumption, Pipeline!IInv, NEW r \in Pipeline!Active,
           NEW place \in {"done", "failed"},
           Pipeline!Leave(r, place), Pipeline!ConversationInv',
           chatRow' \in BOOLEAN, chatBinding' \in BOOLEAN, chatLastUsage' = chatLastUsage,
           chatMessages' \in Seq([by : Client, role : {"user", "assistant"}]),
           chatExact' \in Pipeline!Results \cup {None}, chatSemantic' \in Pipeline!Entry
             \cup {None},
           chatUntouched' = chatUntouched, chatEdits' = chatEdits
    PROVE  Pipeline!IInv'
<1>1. r \in Client /\ Pipeline!TypeOK
  BY DEF Pipeline!Active, Pipeline!IInv
<1>2. Pipeline!TypeOK'
  BY <1>1, ChatLeaveTypes DEF Pipeline!TypeOK
<1>3. Pipeline!Active' = Pipeline!Active \ {r}
  <2>1. chatPc' = [chatPc EXCEPT ![r] = place] /\ DOMAIN chatPc = Client
    BY <1>1 DEF Pipeline!Leave, Pipeline!Goto, Pipeline!TypeOK
  <2> QED BY <1>1, <2>1 DEF Pipeline!Active
<1>4. /\ \A q \in Client : q # r => chatPc'[q] = chatPc[q] /\ chatUsage'[q] = chatUsage[q]
         /\ chatReply'[q] = chatReply[q]
      /\ chatPc'[r] = place /\ chatUsage'[r] = None /\ chatCached' = chatCached \ {r}
      /\ chatAlone' = chatAlone \ {r}
  BY <1>1 DEF Pipeline!Leave, Pipeline!Goto, Pipeline!TypeOK
<1>5. Pipeline!LoneInv'
  BY <1>3, <1>4 DEF Pipeline!IInv, Pipeline!LoneInv
<1>6. Pipeline!TokensInv'
  BY <1>1, <1>4 DEF Pipeline!IInv, Pipeline!TokensInv, Pipeline!TypeOK
<1> QED BY <1>2, <1>5, <1>6 DEF Pipeline!IInv

\* A request that goes on, alone or not.
LEMMA ChatGoOnKeeps ==
    ASSUME Pipeline!ChatPipelineAssumption, Pipeline!IInv, NEW r \in Pipeline!Active,
           NEW place \in Pipeline!Place,
           place \notin {"idle", "done", "failed"}, Pipeline!Goto(r, place),
           Pipeline!ConversationInv',
           UNCHANGED <<chatKind, chatVector, chatAlone>>,
           chatFound' \in [Client -> [row : BOOLEAN, bound : BOOLEAN]],
           chatResults' \in [Client -> Pipeline!Results],
           chatReply' \in [Client -> {"", "text", "error", None}],
           \A q \in Client : q # r => chatReply'[q] = chatReply[q] /\ chatUsage'[q]
             = chatUsage[q],
           chatUsage' \in [Client -> Client \cup {None}],
           chatLastUsage' \in Client \cup {None},
           chatCached' \in {chatCached, chatCached \cup {r}},
           r \in chatCached' => place = "save",
           chatRow' \in BOOLEAN, chatBinding' \in BOOLEAN,
           chatMessages' \in Seq([by : Client, role : {"user", "assistant"}]),
           chatExact' \in Pipeline!Results \cup {None}, chatSemantic' \in Pipeline!Entry
             \cup {None},
           chatUntouched' \subseteq Client, chatEdits' = chatEdits,
           place # "store" => chatUsage'[r] = None,
           place \in {"save", "usage", "store"} => chatReply'[r] \in {"", "text", "error"},
           r \in chatAlone /\ chatReply'[r] = "text" =>
              /\ place = "usage" \/ (place = "save" /\ r \notin chatCached')
                   => chatLastUsage' = r
              /\ place = "store" => chatUsage'[r] \in {r, None}
    PROVE  Pipeline!IInv'
<1>1. /\ r \in Client /\ Pipeline!TypeOK /\ chatPc' = [chatPc EXCEPT ![r] = place]
      /\ DOMAIN chatPc = Client
      /\ chatPc[r] \notin {"idle", "done", "failed"}
  BY DEF Pipeline!Active, Pipeline!IInv, Pipeline!Goto, Pipeline!TypeOK
<1>2. Pipeline!TypeOK'
  BY <1>1 DEF Pipeline!TypeOK
<1>3. Pipeline!Active' = Pipeline!Active
  BY <1>1 DEF Pipeline!Active
<1>4. Pipeline!LoneInv'
  BY <1>3 DEF Pipeline!IInv, Pipeline!LoneInv
<1>5. \A q \in chatAlone : q = r
  BY DEF Pipeline!IInv, Pipeline!LoneInv
<1>6. Pipeline!TokensInv'
  BY <1>1, <1>5 DEF Pipeline!IInv, Pipeline!TokensInv, Pipeline!TypeOK
<1> QED BY <1>2, <1>4, <1>6 DEF Pipeline!IInv

\* One more message, by r.
LEMMA ChatSayKeeps ==
    ASSUME NEW S, NEW s \in Seq(S), NEW e \in S
    PROVE  /\ Append(s, e) \in Seq(S) /\ Len(s) \in Nat
           /\ Len(Append(s, e)) = Len(s) + 1 /\ Append(s, e)[Len(s) + 1] = e
           /\ \A i \in 1 .. Len(s) : Append(s, e)[i] = s[i]
  OBVIOUS

LEMMA ChatOpenKeeps ==
    ASSUME Pipeline!ChatPipelineAssumption, Pipeline!IInv, NEW r \in Client,
           NEW k \in Pipeline!Kind, Pipeline!Open(r, k)
    PROVE  Pipeline!IInv'
<1>1. /\ chatPc[r] = "idle" /\ chatPc' = [chatPc EXCEPT ![r] = IF k
           = "search" THEN "search" ELSE "ask"]
      /\ chatKind' = [chatKind EXCEPT ![r] = k]
      /\ chatVector' \in {chatVector, chatVector \cup {r}}
      /\ chatAlone' = (IF Pipeline!Active = {} THEN {r} ELSE {})
      /\ UNCHANGED <<chatResults, chatReply, chatCached, chatRow, chatBinding, chatMessages,
                     chatExact, chatSemantic, chatLastUsage,
                     chatUsage, chatUntouched, chatEdits>>
  BY DEF Pipeline!Open, Pipeline!Goto, Pipeline!conversation, Pipeline!caches, Pipeline!tokens
<1>2. chatFound' \in [Client -> [row : BOOLEAN, bound : BOOLEAN]]
  <2>1. (k # "search" /\ chatRow /\ chatBinding) \in BOOLEAN
    BY Zenon
  <2>2. [row |-> chatRow, bound |-> k # "search" /\ chatRow /\ chatBinding] \in [row : BOOLEAN,
                                                                   bound : BOOLEAN]
    BY <2>1 DEF Pipeline!IInv, Pipeline!TypeOK
  <2> QED BY <2>2 DEF Pipeline!Open, Pipeline!IInv, Pipeline!TypeOK
<1>3. Pipeline!TypeOK'
  <2>1. chatPc' \in [Client -> Pipeline!Place]
    BY <1>1 DEF Pipeline!IInv, Pipeline!TypeOK, Pipeline!Place
  <2>2. chatKind' \in [Client -> Pipeline!Kind \cup {None}] /\ chatVector' \subseteq Client
        /\ chatAlone' \subseteq Client
    BY <1>1 DEF Pipeline!IInv, Pipeline!TypeOK
  <2> QED BY <1>1, <1>2, <2>1, <2>2 DEF Pipeline!IInv, Pipeline!TypeOK
<1>4. Pipeline!Active' = Pipeline!Active \cup {r} /\ r \notin Pipeline!Active
  <2>1. DOMAIN chatPc = Client
    BY DEF Pipeline!IInv, Pipeline!TypeOK
  <2> QED BY <1>1, <2>1 DEF Pipeline!Active
<1>5. Pipeline!LoneInv'
  BY <1>1, <1>4 DEF Pipeline!IInv, Pipeline!LoneInv
<1>6. Pipeline!TokensInv'
  BY <1>1 DEF Pipeline!IInv, Pipeline!TokensInv, Pipeline!TypeOK
<1>7. Pipeline!ConversationInv'
  <2>1. \A q \in Client : q # r => chatPc'[q] = chatPc[q] /\ chatKind'[q] = chatKind[q]
    BY <1>1 DEF Pipeline!IInv, Pipeline!TypeOK
  <2>2. \/ chatPc'[r] = "ask" /\ chatKind'[r] # "search"
        \/ chatPc'[r] = "search"
    BY <1>1 DEF Pipeline!IInv, Pipeline!TypeOK
  <2> QED BY <1>1, <2>1, <2>2, ChatTalkKeeps
<1> QED BY <1>3, <1>5, <1>6, <1>7 DEF Pipeline!IInv

\* The question is in the conversation, once.
LEMMA ChatAskKeeps ==
    ASSUME Pipeline!ChatPipelineAssumption, Pipeline!IInv, NEW r \in Client, Pipeline!Ask(r)
    PROVE  Pipeline!IInv'
<1> DEFINE Message == [by : Client, role : {"user", "assistant"}]
           n == Len(chatMessages)
<1>1. PICK place \in {"lookup", "search"} : Pipeline!Goto(r, place)
  BY DEF Pipeline!Ask
<1>2. /\ chatPc[r] = "ask" /\ r \in Pipeline!Active /\ chatRow' = TRUE
      /\ chatMessages' = Append(chatMessages, Pipeline!Question(r))
      /\ chatUntouched' = chatUntouched \cup {r}
      /\ chatFound' = [chatFound EXCEPT ![r].row = FALSE]
      /\ UNCHANGED <<chatKind, chatVector, chatResults, chatReply, chatCached, chatAlone,
                     chatBinding, chatExact, chatSemantic,
                     chatLastUsage, chatUsage, chatEdits>>
  BY DEF Pipeline!Ask, Pipeline!Question, Pipeline!Active, Pipeline!caches, Pipeline!tokens
<1>3. Pipeline!Question(r) \in Message /\ Pipeline!Question(r).by = r
  BY DEF Pipeline!Question
<1>4. chatMessages \in Seq(Message)
  BY DEF Pipeline!IInv, Pipeline!TypeOK
<1> HIDE DEF Message
<1>5. /\ chatMessages' \in Seq(Message) /\ n \in Nat /\ Len(chatMessages') = n + 1
      /\ chatMessages'[n + 1] = Pipeline!Question(r)
      /\ \A i \in 1 .. n : chatMessages'[i] = chatMessages[i]
  BY <1>2, <1>3, <1>4, ChatSayKeeps
<1>6. chatPc' = [chatPc EXCEPT ![r] = place] /\ chatPc \in [Client -> Pipeline!Place]
  BY <1>1 DEF Pipeline!Goto, Pipeline!IInv, Pipeline!TypeOK
<1>7. \A i \in 1 .. n : chatMessages[i].by # r
  BY <1>2 DEF Pipeline!IInv, Pipeline!ConversationInv
<1>8. \A j \in 1 .. n + 1 : j = n + 1 \/ j \in 1 .. n
  BY <1>5
<1>9. Pipeline!ConversationInv'
  <2> SUFFICES ASSUME NEW q \in Client
               PROVE  /\ chatPc'[q] \in {"idle", "ask"} =>
                            q \notin chatUntouched'
                            /\ \A i \in 1 .. Len(chatMessages') : chatMessages'[i].by # q
                      /\ chatKind'[q] = "search" => chatPc'[q] # "ask"
                         /\ q \notin chatUntouched'
                      /\ q \in chatUntouched' =>
                            /\ chatPc'[q] \in {"lookup", "search", "fill", "bind", "generate",
                                   "save"} => Pipeline!Asked(q)'
                            /\ chatPc'[q] \in {"usage", "store",
                                   "done"} => Pipeline!Answered(q)'
    BY DEF Pipeline!ConversationInv
  <2>1. CASE q = r
    <3>1. Pipeline!Asked(r)'
      <4>1. n + 1 \in 1 .. Len(chatMessages')
        BY <1>5
      <4>2. Pipeline!Question(r)' = Pipeline!Question(r)
        BY DEF Pipeline!Question
      <4>3. \A k \in 1 .. Len(chatMessages') : chatMessages'[k].by = r => k = n + 1
        BY <1>5, <1>7, <1>8
      <4> QED BY <1>5, <4>1, <4>2, <4>3 DEF Pipeline!Asked
    <3> QED BY <1>1, <1>2, <1>6, <2>1, <3>1 DEF Pipeline!IInv, Pipeline!ConversationInv
  <2>2. CASE q # r
    <3>1. chatPc'[q] = chatPc[q] /\ chatKind'[q] = chatKind[q]
          /\ (q \in chatUntouched' <=> q \in chatUntouched)
      BY <1>2, <1>6, <2>2
    <3>2. \A k \in 1 .. n + 1 : chatMessages'[k].by = q => k \in 1 .. n /\ chatMessages[k].by
            = q
      BY <1>3, <1>5, <1>8, <2>2
    <3>3. ASSUME Pipeline!Asked(q) PROVE Pipeline!Asked(q)'
      BY <1>5, <3>2, <3>3 DEF Pipeline!Asked, Pipeline!Question
    <3>4. ASSUME Pipeline!Answered(q) PROVE Pipeline!Answered(q)'
      BY <1>5, <3>2, <3>4 DEF Pipeline!Answered, Pipeline!Question, Pipeline!Answer
    <3> QED BY <1>5, <3>1, <3>2, <3>3, <3>4 DEF Pipeline!IInv, Pipeline!ConversationInv
  <2> QED BY <2>1, <2>2
<1>10. chatMessages' \in Seq([by : Client, role : {"user", "assistant"}])
  BY <1>5 DEF Message
<1>11. chatFound' \in [Client -> [row : BOOLEAN, bound : BOOLEAN]]
  BY <1>2 DEF Pipeline!IInv, Pipeline!TypeOK
<1>12. place \in Pipeline!Place /\ place \notin {"idle", "done", "failed", "save", "usage",
                                       "store"}
  BY DEF Pipeline!Place
<1>13. chatUsage'[r] = None /\ r \notin chatCached
  BY <1>2 DEF Pipeline!IInv, Pipeline!TokensInv
<1> QED BY <1>1, <1>2, <1>9, <1>10, <1>11, <1>12, <1>13, ChatGoOnKeeps DEF Pipeline!IInv,
             Pipeline!TypeOK

\* The answer is in the conversation, once, after its question.
LEMMA ChatAnswerKeeps ==
    ASSUME Pipeline!ChatPipelineAssumption, Pipeline!IInv, NEW r \in Client,
           Pipeline!SaveAnswer(r)
    PROVE  Pipeline!IInv'
<1> DEFINE Message == [by : Client, role : {"user", "assistant"}]
           n == Len(chatMessages)
<1>2. /\ chatPc[r] = "save" /\ r \in Pipeline!Active
      /\ chatMessages' = Append(chatMessages, Pipeline!Answer(r))
      /\ UNCHANGED <<chatRow, chatBinding, chatExact, chatSemantic, chatLastUsage,
                     chatUntouched, chatEdits>>
      /\ \/ r \in chatCached /\ Pipeline!Leave(r, "done")
         \/ /\ r \notin chatCached /\ Pipeline!Goto(r, "usage")
            /\ UNCHANGED <<chatKind, chatFound, chatVector, chatResults, chatReply, chatCached,
                           chatAlone, chatUsage>>
  BY DEF Pipeline!SaveAnswer, Pipeline!Answer, Pipeline!Active, Pipeline!caches, Pipeline!tokens
<1>3. Pipeline!Answer(r) \in Message /\ Pipeline!Answer(r).by = r
  BY DEF Pipeline!Answer
<1>4. chatMessages \in Seq(Message)
  BY DEF Pipeline!IInv, Pipeline!TypeOK
<1> HIDE DEF Message
<1>5. /\ chatMessages' \in Seq(Message) /\ n \in Nat /\ Len(chatMessages') = n + 1
      /\ chatMessages'[n + 1] = Pipeline!Answer(r)
      /\ \A i \in 1 .. n : chatMessages'[i] = chatMessages[i]
  BY <1>2, <1>3, <1>4, ChatSayKeeps
<1>6. /\ \A q \in Client : q # r => chatPc'[q] = chatPc[q] /\ chatKind'[q] = chatKind[q]
      /\ chatPc'[r] \in {"usage", "done"} /\ chatKind'[r] \in {chatKind[r], None}
  BY <1>2 DEF Pipeline!Goto, Pipeline!Leave, Pipeline!IInv, Pipeline!TypeOK
<1>8. \A j \in 1 .. n + 1 : j = n + 1 \/ j \in 1 .. n
  BY <1>5
<1>9. Pipeline!ConversationInv'
  <2> SUFFICES ASSUME NEW q \in Client
               PROVE  /\ chatPc'[q] \in {"idle", "ask"} =>
                            q \notin chatUntouched'
                            /\ \A i \in 1 .. Len(chatMessages') : chatMessages'[i].by # q
                      /\ chatKind'[q] = "search" => chatPc'[q] # "ask"
                         /\ q \notin chatUntouched'
                      /\ q \in chatUntouched' =>
                            /\ chatPc'[q] \in {"lookup", "search", "fill", "bind", "generate",
                                   "save"} => Pipeline!Asked(q)'
                            /\ chatPc'[q] \in {"usage", "store",
                                   "done"} => Pipeline!Answered(q)'
    BY DEF Pipeline!ConversationInv
  <2>1. CASE q = r
    <3>1. ASSUME r \in chatUntouched PROVE Pipeline!Answered(r)'
      <4>1. PICK i \in 1 .. n : /\ chatMessages[i] = Pipeline!Question(r)
                                /\ \A k \in 1 .. n : chatMessages[k].by = r => k = i
        BY <1>2, <3>1 DEF Pipeline!IInv, Pipeline!ConversationInv, Pipeline!Asked
      <4>2. i \in 1 .. n + 1 /\ n + 1 \in 1 .. n + 1 /\ i < n + 1
        BY <1>5
      <4>3. \A k \in 1 .. n + 1 : chatMessages'[k].by = r => k \in {i, n + 1}
        BY <1>5, <1>8, <4>1
      <4> QED BY <1>5, <4>1, <4>2, <4>3 DEF Pipeline!Answered, Pipeline!Question,
                   Pipeline!Answer
    <3>2. chatKind'[r] = "search" => chatKind[r] = "search"
      BY <1>6 DEF Pipeline!ChatPipelineAssumption, Pipeline!Kind
    <3> QED BY <1>2, <1>6, <2>1, <3>1, <3>2 DEF Pipeline!IInv, Pipeline!ConversationInv
  <2>2. CASE q # r
    <3>1. chatPc'[q] = chatPc[q] /\ chatKind'[q] = chatKind[q]
          /\ (q \in chatUntouched' <=> q \in chatUntouched)
      BY <1>2, <1>6, <2>2
    <3>2. \A k \in 1 .. n + 1 : chatMessages'[k].by = q => k \in 1 .. n /\ chatMessages[k].by
            = q
      BY <1>3, <1>5, <1>8, <2>2
    <3>3. ASSUME Pipeline!Asked(q) PROVE Pipeline!Asked(q)'
      BY <1>5, <3>2, <3>3 DEF Pipeline!Asked, Pipeline!Question
    <3>4. ASSUME Pipeline!Answered(q) PROVE Pipeline!Answered(q)'
      BY <1>5, <3>2, <3>4 DEF Pipeline!Answered, Pipeline!Question, Pipeline!Answer
    <3> QED BY <1>5, <3>1, <3>2, <3>3, <3>4 DEF Pipeline!IInv, Pipeline!ConversationInv
  <2> QED BY <2>1, <2>2
<1>10. chatMessages' \in Seq([by : Client, role : {"user", "assistant"}])
  BY <1>5 DEF Message
<1>11. CASE r \in chatCached
  <2>1. Pipeline!Leave(r, "done")
    BY <1>2, <1>11
  <2>2. /\ chatRow' \in BOOLEAN /\ chatBinding' \in BOOLEAN /\ chatLastUsage' = chatLastUsage
        /\ chatExact' \in Pipeline!Results \cup {None}
        /\ chatSemantic' \in Pipeline!Entry \cup {None}
        /\ chatUntouched' = chatUntouched /\ chatEdits' = chatEdits
    BY <1>2 DEF Pipeline!IInv, Pipeline!TypeOK
  <2> QED BY <1>2, <1>9, <1>10, <2>1, <2>2, ChatLeaveKeeps
<1>12. CASE r \notin chatCached
  <2>1. Pipeline!Goto(r, "usage") /\ UNCHANGED <<chatKind, chatFound, chatVector, chatResults,
                                                 chatReply, chatCached, chatAlone, chatUsage>>
    BY <1>2, <1>12
  <2>2. /\ chatUsage'[r] = None /\ (r \in chatAlone /\ chatReply[r] = "text"
             => chatLastUsage' = r)
        /\ chatReply[r] \in {"", "text", "error"}
    BY <1>2, <1>12, <2>1 DEF Pipeline!IInv, Pipeline!TokensInv
  <2>3. "usage" \in Pipeline!Place /\ "usage" \notin {"idle", "done", "failed", "save", "store"}
    BY DEF Pipeline!Place
  <2> QED BY <1>2, <1>9, <1>10, <1>12, <2>1, <2>2, <2>3, ChatGoOnKeeps DEF Pipeline!IInv,
               Pipeline!TypeOK
<1> QED BY <1>11, <1>12

\* A step of a request between its question and its answer.
LEMMA ChatStepKeeps ==
    ASSUME Pipeline!ChatPipelineAssumption, Pipeline!IInv, NEW r \in Client,
           NEW place \in {"search", "fill", "bind", "generate", "save"}, Pipeline!Goto(r,
           place),
           chatPc[r] \in {"lookup", "search", "fill", "bind", "generate"},
           UNCHANGED <<chatKind, chatFound, chatVector, chatAlone, chatRow, chatMessages,
                       chatUsage, chatUntouched, chatEdits>>,
           chatResults' \in [Client -> Pipeline!Results],
           chatReply' \in [Client -> {"", "text", "error", None}],
           \A q \in Client : q # r => chatReply'[q] = chatReply[q],
           chatLastUsage' \in Client \cup {None},
           chatCached' \in {chatCached, chatCached \cup {r}},
           r \in chatCached' => place = "save",
           place = "save" /\ r \notin chatCached' /\ chatReply'[r] = "text" => chatLastUsage'
             = r,
           place = "save" => chatReply'[r] \in {"", "text", "error"},
           chatBinding' \in BOOLEAN,
           chatExact' \in Pipeline!Results \cup {None}, chatSemantic' \in Pipeline!Entry
             \cup {None}
    PROVE  Pipeline!IInv'
<1>1. /\ r \in Pipeline!Active /\ place \in Pipeline!Place
      /\ place \notin {"idle", "done", "failed", "usage", "store"}
      /\ chatPc' = [chatPc EXCEPT ![r] = place] /\ DOMAIN chatPc = Client
  BY DEF Pipeline!Active, Pipeline!Goto, Pipeline!Place, Pipeline!IInv, Pipeline!TypeOK
<1>2. Pipeline!ConversationInv'
  <2>1. \A q \in Client : q # r => chatPc'[q] = chatPc[q] /\ chatKind'[q] = chatKind[q]
    BY <1>1
  <2>2. chatPc'[r] = place /\ chatKind'[r] = chatKind[r]
    BY <1>1
  <2> QED BY <2>1, <2>2, ChatTalkKeeps
<1>3. chatUsage'[r] = None
  BY <1>1 DEF Pipeline!IInv, Pipeline!TokensInv, Pipeline!Active
<1> QED BY <1>1, <1>2, <1>3, ChatGoOnKeeps DEF Pipeline!IInv, Pipeline!TypeOK

LEMMA ChatSearchKeeps ==
    ASSUME Pipeline!ChatPipelineAssumption, Pipeline!IInv, NEW r \in Client,
           \/ Pipeline!AnswerFromCache(r) \/ Pipeline!MissCache(r) \/ Pipeline!SkipSearch(r)
           \/ Pipeline!SearchCaches(r)
           \/ Pipeline!Retrieve(r) \/ Pipeline!FillCaches(r) \/ Pipeline!Bind(r)
           \/ Pipeline!Generate(r)
    PROVE  Pipeline!IInv'
<1> USE DEF Pipeline!caches, Pipeline!tokens, Pipeline!conversation
<1>0. Pipeline!TypeOK /\ Pipeline!After(r) \in {"bind", "generate"}
  BY DEF Pipeline!IInv, Pipeline!After
<1>9. chatPc[r] \in {"lookup", "search", "fill", "bind", "generate"} => r \notin chatCached
  BY DEF Pipeline!IInv, Pipeline!TokensInv
<1>1. CASE Pipeline!AnswerFromCache(r)
  <2>1. /\ Pipeline!Goto(r, "save") /\ chatPc[r] = "lookup" /\ chatCached' = chatCached \cup {r}
        /\ chatReply' = [chatReply EXCEPT ![r] = chatSemantic.answer] /\ chatSemantic # None
        /\ UNCHANGED <<chatKind, chatFound, chatVector, chatResults, chatAlone, chatRow,
                       chatBinding, chatMessages, chatExact, chatSemantic,
                       chatLastUsage, chatUsage, chatUntouched, chatEdits>>
    BY <1>1 DEF Pipeline!AnswerFromCache
  <2>2. chatSemantic.answer \in {"", "text", "error"}
    BY <1>0, <2>1 DEF Pipeline!TypeOK, Pipeline!Entry
  <2>3. /\ chatReply' \in [Client -> {"", "text", "error", None}] /\ \A q \in Client : q # r
             => chatReply'[q] = chatReply[q]
        /\ chatReply'[r] \in {"", "text", "error"}
    BY <1>0, <2>1, <2>2 DEF Pipeline!TypeOK
  <2> QED BY <1>0, <2>1, <2>3, ChatStepKeeps DEF Pipeline!TypeOK
<1>2. CASE Pipeline!MissCache(r)
  BY <1>0, <1>2, <1>9, ChatStepKeeps DEF Pipeline!MissCache, Pipeline!TypeOK
<1>3. CASE Pipeline!SkipSearch(r)
  BY <1>0, <1>3, <1>9, ChatStepKeeps DEF Pipeline!SkipSearch, Pipeline!TypeOK
<1>4. CASE Pipeline!SearchCaches(r)
  <2>1. /\ Pipeline!Goto(r, Pipeline!After(r)) /\ chatPc[r] = "search"
        /\ UNCHANGED <<chatKind, chatFound, chatVector, chatReply, chatCached, chatAlone,
                       chatRow, chatBinding, chatMessages, chatSemantic,
                       chatLastUsage, chatUsage, chatUntouched, chatEdits>>
    BY <1>4 DEF Pipeline!SearchCaches
  <2>2. chatResults' \in [Client -> Pipeline!Results] /\ chatExact' \in Pipeline!Results
          \cup {None}
    <3>1. \A e \in Pipeline!Entry : e.sources \in Pipeline!Results
      BY DEF Pipeline!Entry
    <3>2. CASE chatExact # None /\ chatResults' = [chatResults EXCEPT ![r] = chatExact]
               /\ UNCHANGED chatExact
      BY <1>0, <3>2 DEF Pipeline!TypeOK
    <3>3. CASE /\ chatSemantic # None
               /\ chatResults' = [chatResults EXCEPT ![r] = chatSemantic.sources]
               /\ chatExact' = IF chatSemantic.sources.empty THEN None ELSE chatSemantic.sources
      <4>1. chatSemantic.sources \in Pipeline!Results
        BY <1>0, <3>1, <3>3 DEF Pipeline!TypeOK
      <4> QED BY <1>0, <3>3, <4>1 DEF Pipeline!TypeOK
    <3> QED BY <1>4, <3>2, <3>3 DEF Pipeline!SearchCaches
  <2> QED BY <1>0, <1>9, <2>1, <2>2, ChatStepKeeps DEF Pipeline!TypeOK
<1>5. CASE Pipeline!Retrieve(r)
  <2>1. /\ Pipeline!Goto(r, "fill") /\ chatPc[r] = "search"
        /\ UNCHANGED <<chatKind, chatFound, chatVector, chatReply, chatCached, chatAlone,
                       chatRow, chatBinding, chatMessages, chatExact, chatSemantic,
                       chatLastUsage, chatUsage, chatUntouched, chatEdits>>
    BY <1>5 DEF Pipeline!Retrieve
  <2>2. PICK none \in BOOLEAN :
            chatResults' = [chatResults EXCEPT ![r] =
                [of |-> IF Pipeline!OnDocuments(r) THEN "documents" ELSE "index",
                empty |-> none]]
    BY <1>5 DEF Pipeline!Retrieve
  <2>3. [of |-> IF Pipeline!OnDocuments(r) THEN "documents" ELSE "index",
      empty |-> none] \in Pipeline!Results
    BY DEF Pipeline!Results
  <2>4. chatResults' \in [Client -> Pipeline!Results]
    BY <1>0, <2>2, <2>3 DEF Pipeline!TypeOK
  <2> QED BY <1>0, <1>9, <2>1, <2>4, ChatStepKeeps DEF Pipeline!TypeOK
<1>6. CASE Pipeline!FillCaches(r)
  <2>1. /\ Pipeline!Goto(r, Pipeline!After(r)) /\ chatPc[r] = "fill"
        /\ UNCHANGED <<chatKind, chatFound, chatVector, chatResults, chatReply, chatCached,
                       chatAlone, chatRow, chatBinding, chatMessages,
                       chatLastUsage, chatUsage, chatUntouched, chatEdits>>
        /\ chatExact' \in {chatExact, chatResults[r]}
        /\ chatSemantic' \in {chatSemantic, [answer |-> "", sources |-> chatResults[r]]}
    BY <1>6 DEF Pipeline!FillCaches
  <2>2. chatResults[r] \in Pipeline!Results
    BY <1>0 DEF Pipeline!TypeOK
  <2>3. [answer |-> "", sources |-> chatResults[r]] \in Pipeline!Entry
    BY <2>2 DEF Pipeline!Entry
  <2> QED BY <1>0, <1>9, <2>1, <2>2, <2>3, ChatStepKeeps DEF Pipeline!TypeOK
<1>7. CASE Pipeline!Bind(r)
  BY <1>0, <1>7, <1>9, ChatStepKeeps DEF Pipeline!Bind, Pipeline!TypeOK
<1>8. CASE Pipeline!Generate(r)
  <2>1. /\ Pipeline!Goto(r, "save") /\ chatPc[r] = "generate"
        /\ UNCHANGED <<chatKind, chatFound, chatVector, chatResults, chatCached, chatAlone,
                       chatRow, chatBinding, chatMessages, chatExact, chatSemantic,
                       chatUsage, chatUntouched, chatEdits>>
        /\ \/ chatReply' = [chatReply EXCEPT ![r] = "text"] /\ chatLastUsage' = r
           \/ chatReply' = [chatReply EXCEPT ![r] = "error"] /\ chatLastUsage' = chatLastUsage
    BY <1>8 DEF Pipeline!Generate
  <2>2. /\ chatReply' \in [Client -> {"", "text", "error", None}]
        /\ chatLastUsage' \in Client \cup {None}
        /\ \A q \in Client : q # r => chatReply'[q] = chatReply[q]
        /\ chatReply'[r] = "text" => chatLastUsage' = r
        /\ chatReply'[r] \in {"", "text", "error"}
    BY <1>0, <2>1 DEF Pipeline!TypeOK
  <2> QED BY <1>0, <1>9, <2>1, <2>2, ChatStepKeeps DEF Pipeline!TypeOK
<1> QED BY <1>1, <1>2, <1>3, <1>4, <1>5, <1>6, <1>7, <1>8

\* The request records its tokens, and its answer where it is looked up.
LEMMA ChatEndKeeps ==
    ASSUME Pipeline!ChatPipelineAssumption, Pipeline!IInv, NEW r \in Client,
           Pipeline!RecordUsage(r) \/ Pipeline!StoreAnswer(r) \/ Pipeline!EndSearch(r)
           \/ Pipeline!Fail(r)
    PROVE  Pipeline!IInv'
<1> USE DEF Pipeline!caches, Pipeline!tokens, Pipeline!conversation
<1>0. Pipeline!TypeOK /\ None # "search"
  BY DEF Pipeline!IInv, Pipeline!ChatPipelineAssumption, Pipeline!Kind
<1>1. CASE Pipeline!RecordUsage(r)
  <2>1. /\ Pipeline!Goto(r, "store") /\ chatPc[r] = "usage" /\ r \in Pipeline!Active
        /\ chatUsage' \in {chatUsage, [chatUsage EXCEPT ![r] = chatLastUsage]}
        /\ UNCHANGED <<chatKind, chatFound, chatVector, chatResults, chatReply, chatCached,
                       chatAlone, chatRow, chatBinding, chatMessages, chatExact,
                       chatSemantic, chatLastUsage, chatUntouched, chatEdits>>
    BY <1>1 DEF Pipeline!RecordUsage, Pipeline!Active
  <2>2. /\ chatUsage' \in [Client -> Client \cup {None}] /\ \A q \in Client : q # r
             => chatUsage'[q] = chatUsage[q]
        /\ chatUsage'[r] \in {None, chatLastUsage}
    BY <1>0, <2>1 DEF Pipeline!TypeOK, Pipeline!IInv, Pipeline!TokensInv
  <2>3. /\ r \notin chatCached /\ (r \in chatAlone /\ chatReply[r] = "text" => chatLastUsage
             = r)
        /\ chatReply[r] \in {"", "text", "error"}
    BY <2>1 DEF Pipeline!IInv, Pipeline!TokensInv
  <2>4. "store" \in Pipeline!Place /\ "store" \notin {"idle", "done", "failed", "save", "usage"}
    BY DEF Pipeline!Place
  <2>5. Pipeline!ConversationInv'
    <3>1. \A q \in Client : q # r => chatPc'[q] = chatPc[q] /\ chatKind'[q] = chatKind[q]
      BY <1>0, <2>1 DEF Pipeline!Goto, Pipeline!TypeOK
    <3>2. chatPc'[r] = "store" /\ chatKind'[r] = chatKind[r]
      BY <1>0, <2>1 DEF Pipeline!Goto, Pipeline!TypeOK
    <3>3. \A q \in Client : (Pipeline!Asked(q)' <=> Pipeline!Asked(q))
          /\ (Pipeline!Answered(q)' <=> Pipeline!Answered(q))
      BY <2>1 DEF Pipeline!Asked, Pipeline!Answered
    <3> QED BY <2>1, <3>1, <3>2, <3>3 DEF Pipeline!IInv, Pipeline!ConversationInv
  <2>6. /\ UNCHANGED <<chatKind, chatVector, chatAlone>> /\ chatReply' = chatReply
        /\ chatCached' = chatCached /\ chatEdits' = chatEdits
        /\ chatFound' \in [Client -> [row : BOOLEAN, bound : BOOLEAN]]
        /\ chatResults' \in [Client -> Pipeline!Results]
        /\ chatReply' \in [Client -> {"", "text", "error", None}]
        /\ chatLastUsage' \in Client \cup {None}
        /\ chatRow' \in BOOLEAN /\ chatBinding' \in BOOLEAN
        /\ chatMessages' \in Seq([by : Client, role : {"user", "assistant"}])
        /\ chatExact' \in Pipeline!Results \cup {None}
        /\ chatSemantic' \in Pipeline!Entry \cup {None} /\ chatUntouched' \subseteq Client
    BY <1>0, <2>1 DEF Pipeline!TypeOK
  <2>7. r \in chatAlone /\ chatReply'[r] = "text" => chatUsage'[r] \in {r, None}
    BY <2>1, <2>2, <2>3, <2>6
  <2> HIDE DEF Pipeline!caches, Pipeline!tokens, Pipeline!conversation
  <2> QED BY <2>1, <2>2, <2>3, <2>4, <2>5, <2>6, <2>7, ChatGoOnKeeps
<1>2. ASSUME NEW place \in {"done", "failed"}, Pipeline!Leave(r, place),
             place = "failed" \/ chatPc[r] = "store" \/ chatKind[r] = "search",
             UNCHANGED <<chatMessages, chatUntouched>>
      PROVE  Pipeline!ConversationInv'
  <2>1. \A q \in Client : q # r => chatPc'[q] = chatPc[q] /\ chatKind'[q] = chatKind[q]
    BY <1>0, <1>2 DEF Pipeline!Leave, Pipeline!Goto, Pipeline!TypeOK
  <2>2. chatPc'[r] = place /\ chatKind'[r] = None
    BY <1>0, <1>2 DEF Pipeline!Leave, Pipeline!Goto, Pipeline!TypeOK
  <2> QED BY <1>0, <1>2, <2>1, <2>2, ChatTalkKeeps
<1>3. CASE Pipeline!StoreAnswer(r)
  <2>1. /\ Pipeline!Leave(r, "done") /\ chatPc[r] = "store" /\ r \in Pipeline!Active
        /\ UNCHANGED <<chatRow, chatBinding, chatMessages, chatExact, chatLastUsage,
                       chatUntouched, chatEdits>>
        /\ chatSemantic' = IF Pipeline!General(r) /\ r \in chatVector
                       THEN [answer |-> chatReply[r], sources |-> chatResults[r]]
                       ELSE chatSemantic
    BY <1>3 DEF Pipeline!StoreAnswer, Pipeline!Active
  <2>2. chatSemantic' \in Pipeline!Entry \cup {None}
    <3>1. chatResults[r] \in Pipeline!Results /\ chatReply[r] \in {"", "text", "error"}
      BY <1>0, <2>1 DEF Pipeline!TypeOK, Pipeline!IInv, Pipeline!TokensInv
    <3>2. [answer |-> chatReply[r], sources |-> chatResults[r]] \in Pipeline!Entry
      BY <3>1 DEF Pipeline!Entry
    <3> QED BY <1>0, <2>1, <3>2 DEF Pipeline!TypeOK
  <2> QED BY <1>0, <1>2, <2>1, <2>2, ChatLeaveKeeps DEF Pipeline!TypeOK
<1>4. CASE Pipeline!EndSearch(r)
  <2>1. /\ Pipeline!Leave(r, "done") /\ chatKind[r] = "search" /\ r \in Pipeline!Active
        /\ UNCHANGED <<chatRow, chatBinding, chatMessages, chatExact, chatSemantic,
                       chatLastUsage, chatUntouched, chatEdits>>
    BY <1>4 DEF Pipeline!EndSearch, Pipeline!Active
  <2> QED BY <1>0, <1>2, <2>1, ChatLeaveKeeps DEF Pipeline!TypeOK
<1>5. CASE Pipeline!Fail(r)
  <2>1. /\ Pipeline!Leave(r, "failed") /\ r \in Pipeline!Active
        /\ UNCHANGED <<chatRow, chatBinding, chatMessages, chatExact, chatSemantic,
                       chatLastUsage, chatUntouched, chatEdits>>
    BY <1>5 DEF Pipeline!Fail
  <2> QED BY <1>0, <1>2, <2>1, ChatLeaveKeeps DEF Pipeline!TypeOK
<1> QED BY <1>1, <1>3, <1>4, <1>5

LEMMA ChatAroundKeeps ==
    ASSUME Pipeline!ChatPipelineAssumption, Pipeline!IInv,
           \/ Pipeline!ClearConversation \/ Pipeline!DeleteConversation
           \/ Pipeline!UnbindDocuments
           \/ Pipeline!ExpireExact \/ Pipeline!ExpireSemantic
    PROVE  Pipeline!IInv'
<1>1. /\ UNCHANGED <<chatPc, chatKind, chatFound, chatVector, chatResults, chatReply,
                     chatCached, chatAlone, chatLastUsage, chatUsage>>
      /\ chatExact' \in {chatExact, None} /\ chatSemantic' \in {chatSemantic, None}
      /\ \/ chatMessages' = chatMessages /\ chatUntouched' = chatUntouched
         \/ chatMessages' = <<>> /\ chatUntouched' = {}
      /\ chatEdits' = chatEdits \/ (chatEdits < ChatEdits /\ chatEdits' = chatEdits + 1)
  BY DEF Pipeline!ClearConversation, Pipeline!DeleteConversation, Pipeline!UnbindDocuments,
       Pipeline!ExpireExact, Pipeline!ExpireSemantic, Pipeline!Edit,
         Pipeline!perRequest, Pipeline!conversation, Pipeline!caches, Pipeline!tokens
<1>2. chatRow' \in BOOLEAN /\ chatBinding' \in BOOLEAN
  BY DEF Pipeline!ClearConversation, Pipeline!DeleteConversation, Pipeline!UnbindDocuments,
       Pipeline!ExpireExact, Pipeline!ExpireSemantic,
         Pipeline!conversation, Pipeline!IInv, Pipeline!TypeOK
<1>3. chatMessages' \in Seq([by : Client, role : {"user", "assistant"}])
  <2>1. \A S : <<>> \in Seq(S)
    OBVIOUS
  <2> QED BY <1>1, <2>1 DEF Pipeline!IInv, Pipeline!TypeOK
<1>4. Pipeline!TypeOK'
  <2>1. chatEdits' \in 0 .. ChatEdits
    <3>1. chatEdits \in 0 .. ChatEdits /\ ChatEdits \in Nat
      BY DEF Pipeline!IInv, Pipeline!TypeOK, Pipeline!ChatPipelineAssumption
    <3> QED BY <1>1, <3>1
  <2>2. chatUntouched' \subseteq Client
    BY <1>1 DEF Pipeline!IInv, Pipeline!TypeOK
  <2> QED BY <1>1, <1>2, <1>3, <2>1, <2>2 DEF Pipeline!IInv, Pipeline!TypeOK
<1>5. Pipeline!LoneInv' /\ Pipeline!TokensInv'
  BY <1>1 DEF Pipeline!IInv, Pipeline!LoneInv, Pipeline!TokensInv, Pipeline!Active
<1>6. Pipeline!ConversationInv'
  <2>1. CASE chatMessages' = chatMessages /\ chatUntouched' = chatUntouched
    BY <1>1, <2>1 DEF Pipeline!IInv, Pipeline!ConversationInv, Pipeline!Asked, Pipeline!Answered
  <2>2. CASE chatMessages' = <<>> /\ chatUntouched' = {}
    BY <1>1, <2>2 DEF Pipeline!IInv, Pipeline!ConversationInv
  <2> QED BY <1>1, <2>1, <2>2
<1> QED BY <1>4, <1>5, <1>6 DEF Pipeline!IInv

LEMMA ChatNextInv ==
    ASSUME Pipeline!ChatPipelineAssumption
    PROVE  Pipeline!IInv /\ [Pipeline!Next]_Pipeline!vars => Pipeline!IInv'
<1> SUFFICES ASSUME Pipeline!IInv, [Pipeline!Next]_Pipeline!vars
             PROVE  Pipeline!IInv'
  OBVIOUS
<1>1. CASE UNCHANGED Pipeline!vars
  <2>1. UNCHANGED <<chatPc, chatKind, chatFound, chatVector, chatResults, chatReply,
                    chatCached, chatAlone, chatRow, chatBinding, chatMessages, chatExact,
                    chatSemantic, chatLastUsage, chatUsage, chatUntouched, chatEdits>>
    BY <1>1 DEF Pipeline!vars, Pipeline!perRequest, Pipeline!conversation, Pipeline!caches,
         Pipeline!tokens
  <2>2. Pipeline!TypeOK'
    BY <2>1 DEF Pipeline!IInv, Pipeline!TypeOK
  <2>3. Pipeline!ConversationInv'
    BY <2>1 DEF Pipeline!IInv, Pipeline!ConversationInv, Pipeline!Asked, Pipeline!Answered
  <2>4. Pipeline!LoneInv' /\ Pipeline!TokensInv'
    BY <2>1 DEF Pipeline!IInv, Pipeline!LoneInv, Pipeline!TokensInv, Pipeline!Active
  <2> QED BY <2>2, <2>3, <2>4 DEF Pipeline!IInv
<1> QED BY <1>1, ChatOpenKeeps, ChatAskKeeps, ChatSearchKeeps, ChatAnswerKeeps, ChatEndKeeps,
             ChatAroundKeeps DEF Pipeline!Next

LEMMA ChatInvariance == ServicesSpec => []Pipeline!IInv
<1>1. ServicesInit => Pipeline!IInv
  BY ChatInitInv, ServicesAssumption DEF ServicesInit, ServicesAssumption
<1>2. Pipeline!IInv /\ [ServicesNext]_servicesVars => Pipeline!IInv'
  <2> SUFFICES ASSUME Pipeline!IInv, [ServicesNext]_servicesVars
               PROVE  Pipeline!IInv'
    OBVIOUS
  <2>1. Pipeline!Next \/ UNCHANGED chatVars
    BY DEF ServicesNext, Still, servicesVars
  <2>2. [Pipeline!Next]_Pipeline!vars
    BY <2>1 DEF chatVars, Pipeline!vars, Pipeline!perRequest, Pipeline!conversation, Pipeline!caches, Pipeline!tokens
  <2>3. Pipeline!ChatPipelineAssumption
    BY ServicesAssumption DEF ServicesAssumption
  <2> QED BY <2>2, <2>3, ChatNextInv
<1> QED BY <1>1, <1>2, PTL DEF ServicesSpec

\* A question that was answered is in its conversation once with its answer after it,
\* and the tokens recorded for a lone request are those of its answer, for any number of
\* requests and edits of the conversation.
THEOREM ChatsAgreeHolds == ServicesSpec => []ChatsAgree
<1>1. Pipeline!IInv => ChatsAgree
  BY ChatInvProperty, ServicesAssumption DEF ChatsAgree, ServicesAssumption
<1> QED BY <1>1, ChatInvariance, PTL

-----------------------------------------------------------------------------
(* The agent service *)

\* The cardinality of the instance is that of the library's theorems.
LEMMA ServiceFinite ==
    \A S : Service!Cardinality(S) = Cardinality(S) /\ Service!IsFiniteSet(S) = IsFiniteSet(S)
<1>1. \A S : Service!IsFiniteSet(S) = IsFiniteSet(S)
  BY DEF Service!IsFiniteSet, IsFiniteSet
<1>2. \A S : Service!Cardinality(S) = Cardinality(S)
  BY DEF Service!Cardinality, Cardinality, Service!IsFiniteSet, IsFiniteSet
<1> QED BY <1>1, <1>2

LEMMA ServiceInitInv ==
    ASSUME Service!AgentApiAssumption, Service!Init
    PROVE  Service!IInv
<1>1. servChunks \in BOOLEAN /\ servCut \in BOOLEAN
  BY Zenon DEF Service!Init
<1>2. Service!TypeOK
  BY <1>1 DEF Service!Init, Service!TypeOK, Service!NoResponse, Service!AgentApiAssumption
<1>3. Service!Succeeded = {} /\ Cardinality({}) = 0 /\ Len(servTraced) = 0
  BY FS_EmptySet DEF Service!Init, Service!Succeeded, Service!Last
<1>4. Service!Last = 0 /\ ServEvents \in Nat
  BY DEF Service!Init, Service!Last, Service!AgentApiAssumption
<1>5. Service!CallsInv /\ Service!ResponseInv
  BY <1>4 DEF Service!Init, Service!CallsInv, Service!ResponseInv
<1>6. Service!TraceHasSuccesses
  BY <1>3, ServiceFinite DEF Service!TraceHasSuccesses
<1> QED BY <1>2, <1>5, <1>6 DEF Service!IInv

LEMMA ServiceFiniteSuccesses ==
    ASSUME Service!TypeOK
    PROVE  /\ IsFiniteSet(Service!Succeeded) /\ Cardinality(Service!Succeeded) \in Nat
           /\ Service!Last \in Nat
<1>1. Service!Last \in Nat
  BY DEF Service!TypeOK, Service!Last
<1>2. IsFiniteSet(1 .. Service!Last)
  BY <1>1, FS_Interval
<1>3. Service!Succeeded \in SUBSET (1 .. Service!Last)
  BY DEF Service!Succeeded
<1> QED BY <1>1, <1>2, <1>3, FS_Subset, FS_CardinalityType

LEMMA ServiceReplaceLast ==
    ASSUME NEW S, NEW s \in Seq(S), NEW e \in S, Len(s) > 0
    PROVE  LET t == [s EXCEPT ![Len(s)] = e]
           IN  /\ t \in Seq(S) /\ Len(t) = Len(s) /\ t[Len(s)] = e
               /\ \A i \in 1 .. Len(s) - 1 : t[i] = s[i]
<1>1. Len(s) \in Nat
  OBVIOUS
<1> QED BY <1>1

\* Steps that touch neither calls nor the trace.
LEMMA ServiceQuietKeeps ==
    ASSUME Service!IInv, UNCHANGED <<servCalls, servBorrowed, servTraced>>, Service!TypeOK',
           Service!ResponseInv'
    PROVE  Service!IInv'
  BY ServiceFinite DEF Service!IInv, Service!CallsInv, Service!TraceHasSuccesses,
       Service!Succeeded,
       Service!Last

LEMMA ServicePlanKeeps ==
    ASSUME Service!AgentApiAssumption, Service!IInv,
           Service!PlanStep \/ Service!PlanComplete
           \/ (\E s \in Service!Step : Service!BeginStep(s)) \/ Service!EndStep
              \/ Service!EndRun \/ Service!Cut
    PROVE  Service!IInv'
<1> USE DEF Service!IInv, Service!TypeOK, Service!ResponseInv
<1>1. CASE Service!PlanStep
  BY <1>1, ServiceQuietKeeps DEF Service!PlanStep, Service!AgentApiAssumption
<1>2. CASE Service!PlanComplete
  BY <1>2, ServiceQuietKeeps DEF Service!PlanComplete, Service!AgentApiAssumption, Service!Step
<1>3. CASE \E s \in Service!Step : Service!BeginStep(s)
  BY <1>3, ServiceQuietKeeps DEF Service!BeginStep, Service!Step
<1>4. CASE Service!EndStep
  <2>1. servChunks' \in BOOLEAN
    BY <1>4 DEF Service!EndStep
  <2>2. Service!TypeOK'
    BY <1>4, <2>1 DEF Service!EndStep, Service!AgentApiAssumption
  <2> QED BY <1>4, <2>2, ServiceQuietKeeps DEF Service!EndStep
<1>5. CASE Service!EndRun
  <2>1. servChunks' \in BOOLEAN
    BY <1>5 DEF Service!EndRun
  <2> QED BY <1>5, <2>1, ServiceQuietKeeps DEF Service!EndRun
<1>6. CASE Service!Cut
  <2>1. servCut' \in BOOLEAN
    BY <1>6, Zenon DEF Service!Cut
  <2> QED BY <1>6, <2>1, ServiceQuietKeeps DEF Service!Cut
<1> QED BY <1>1, <1>2, <1>3, <1>4, <1>5, <1>6

LEMMA ServiceCallKeeps ==
    ASSUME Service!AgentApiAssumption, Service!IInv, Service!ToolCall
    PROVE  Service!IInv'
<1>1. /\ servPhase = "executing" /\ servStep \in Service!Step /\ Service!Last < ServEvents
      /\ Service!Last \in Nat
      /\ Service!Last > 0 => servCalls[Service!Last].own # "running"
      /\ servCalls' = Append(servCalls, [step |-> servStep, status |-> "running",
             own |-> "running"])
      /\ UNCHANGED <<servPhase, servPlanSteps, servLeft, servStep, servErrors, servBorrowed,
                     servChunks, servTraced, servCut, servResponse>>
  BY DEF Service!IInv, Service!TypeOK, Service!ToolCall, Service!Step,
       Service!AgentApiAssumption, Service!Last
<1>2. /\ servCalls' \in Seq(Service!Called) /\ Service!Last' = Service!Last + 1
      /\ servCalls'[Service!Last + 1].status = "running"
      /\ servCalls'[Service!Last + 1].own = "running"
      /\ \A i \in 1 .. Service!Last : servCalls'[i] = servCalls[i]
  <2> DEFINE call == [step |-> servStep, status |-> "running", own |-> "running"]
  <2>1. call \in Service!Called /\ call.status = "running" /\ call.own = "running"
    BY <1>1 DEF Service!Called, Service!Outcome
  <2>2. servCalls' = Append(servCalls, call) /\ servCalls \in Seq(Service!Called)
    BY <1>1 DEF Service!IInv, Service!TypeOK
  <2> HIDE DEF call
  <2>3. /\ servCalls' \in Seq(Service!Called) /\ Len(servCalls') = Len(servCalls) + 1
        /\ servCalls'[Len(servCalls) + 1] = call
        /\ \A i \in 1 .. Len(servCalls) : servCalls'[i] = servCalls[i]
    BY <2>1, <2>2
  <2> QED BY <2>1, <2>3 DEF Service!Last
<1>3. Service!TypeOK' /\ Service!ResponseInv'
  BY <1>1, <1>2 DEF Service!IInv, Service!TypeOK, Service!ResponseInv
<1>4. Service!CallsInv'
  BY <1>1, <1>2 DEF Service!IInv, Service!CallsInv, Service!AgentApiAssumption
<1>5. Service!Succeeded' = Service!Succeeded
  <2>1. \A i \in 1 .. Service!Last + 1 : i # Service!Last + 1 => i \in 1 .. Service!Last
    BY <1>1
  <2>2. Service!Succeeded' = {i \in 1 .. Service!Last + 1 : servCalls'[i].own = "success"}
    BY <1>2 DEF Service!Succeeded
  <2>6. \A i \in 1 .. Service!Last : i \in 1 .. Service!Last + 1
    BY <1>1
  <2>3. \A i \in 1 .. Service!Last : i \in 1 .. Service!Last + 1 /\ servCalls'[i].own
          = servCalls[i].own
    BY <1>2, <2>6, Zenon
  <2>4. servCalls'[Service!Last + 1].own # "success"
    BY <1>2
  <2> HIDE DEF Service!Last
  <2>5. \A i : i \in {j \in 1 .. Service!Last + 1 : servCalls'[j].own = "success"}
              <=> i \in {j \in 1 .. Service!Last : servCalls[j].own = "success"}
    BY <2>1, <2>3, <2>4, Zenon
  <2> QED BY <2>2, <2>5, Zenon DEF Service!Succeeded
<1>6. Service!TraceHasSuccesses'
  BY <1>1, <1>2, <1>5, ServiceFinite DEF Service!IInv, Service!TraceHasSuccesses,
       Service!Succeeded
<1> QED BY <1>3, <1>4, <1>6 DEF Service!IInv

\* What a call succeeds with is the last of the trace.
LEMMA ServiceResultKeeps ==
    ASSUME Service!AgentApiAssumption, Service!IInv, Service!ToolResult
    PROVE  Service!IInv'
<1>1. /\ servPhase = "executing" /\ Service!Last \in Nat \ {0}
      /\ servCalls[Service!Last].own = "running"
      /\ servCalls' = [servCalls EXCEPT ![Service!Last].status = "success",
             ![Service!Last].own = "success"]
      /\ servTraced' = Append(servTraced, servCalls[Service!Last].step)
      /\ UNCHANGED <<servPhase, servPlanSteps, servLeft, servStep, servErrors, servBorrowed,
                     servChunks, servCut, servResponse>>
  BY DEF Service!IInv, Service!TypeOK, Service!ToolResult, Service!LogStep, Service!Last
<1>2. /\ servCalls' \in Seq(Service!Called)
      /\ Service!Last' = Service!Last /\ servCalls'[Service!Last].own = "success"
      /\ servCalls'[Service!Last].status = "success"
      /\ servCalls'[Service!Last].step = servCalls[Service!Last].step
      /\ \A i \in 1 .. Service!Last - 1 : servCalls'[i] = servCalls[i]
      /\ servCalls[Service!Last].step \in Service!Step
  <2> DEFINE call == [step |-> servCalls[Service!Last].step, status |-> "success",
      own |-> "success"]
  <2>1. servCalls \in Seq(Service!Called) /\ Len(servCalls) = Service!Last
        /\ Len(servCalls) > 0 /\ servCalls[Service!Last] \in Service!Called
    BY <1>1 DEF Service!IInv, Service!TypeOK, Service!Last
  <2>2. /\ servCalls' = [servCalls EXCEPT ![Service!Last] = call]
        /\ servCalls[Service!Last].step \in Service!Step
        /\ call \in Service!Called /\ call.step = servCalls[Service!Last].step
        /\ call.own = "success" /\ call.status = "success"
    BY <1>1, <2>1 DEF Service!Called, Service!Outcome
  <2> HIDE DEF call
  <2>3. /\ servCalls' \in Seq(Service!Called) /\ Len(servCalls') = Len(servCalls)
        /\ servCalls'[Service!Last] = call
        /\ \A i \in 1 .. Service!Last - 1 : servCalls'[i] = servCalls[i]
    BY <2>1, <2>2, ServiceReplaceLast
  <2> QED BY <2>1, <2>2, <2>3 DEF Service!Last
<1>3. /\ servTraced' \in Seq(Service!Step) /\ Len(servTraced) \in Nat
      /\ Len(servTraced') = Len(servTraced) + 1
      /\ servTraced'[Len(servTraced) + 1] = servCalls[Service!Last].step
      /\ \A i \in 1 .. Len(servTraced) : servTraced'[i] = servTraced[i]
  BY <1>1, <1>2 DEF Service!IInv, Service!TypeOK
<1>4. Service!TypeOK' /\ Service!ResponseInv'
  BY <1>1, <1>2, <1>3 DEF Service!IInv, Service!TypeOK, Service!ResponseInv
<1>5. Service!CallsInv'
  <2> SUFFICES ASSUME NEW i \in 1 .. Service!Last
               PROVE  /\ servCalls'[i].status # servCalls'[i].own => i \in servBorrowed
                         /\ servCalls'[i].status = "error"
                      /\ i < Service!Last => servCalls'[i].own # "running"
    BY <1>1, <1>2 DEF Service!CallsInv, Service!IInv
  <2>1. CASE i = Service!Last
    BY <1>2, <2>1
  <2>2. CASE i # Service!Last
    BY <1>1, <1>2, <2>2 DEF Service!CallsInv, Service!IInv
  <2> QED BY <2>1, <2>2
<1>6. Service!Succeeded' = Service!Succeeded \cup {Service!Last}
      /\ Service!Last \notin Service!Succeeded /\ \A i \in Service!Succeeded : i < Service!Last /\ i \in Nat
  BY <1>1, <1>2 DEF Service!Succeeded
<1>7. /\ IsFiniteSet(Service!Succeeded) /\ Cardinality(Service!Succeeded) \in Nat
      /\ Cardinality(Service!Succeeded') = Cardinality(Service!Succeeded) + 1
  BY <1>6, ServiceFiniteSuccesses, FS_AddElement DEF Service!IInv
<1>8. ASSUME NEW i \in Service!Succeeded'
      PROVE  servTraced'[Cardinality({j \in Service!Succeeded' : j <= i})] = servCalls'[i].step
  <2>1. CASE i = Service!Last
    <3>1. {j \in Service!Succeeded' : j <= i} = Service!Succeeded'
      BY <1>6, <1>1, <2>1
    <3> QED BY <1>2, <1>3, <1>7, <2>1, <3>1, ServiceFinite DEF Service!IInv,
                 Service!TraceHasSuccesses
  <2>2. CASE i # Service!Last
    <3>0. i \in Service!Succeeded /\ i < Service!Last /\ i \in 1 .. Service!Last - 1
      <4>1. i \in Service!Succeeded
        BY <1>6, <2>2, Zenon
      <4>2. i < Service!Last /\ i \in 1 .. Service!Last
        BY <4>1, <1>6 DEF Service!Succeeded
      <4> QED BY <1>1, <4>1, <4>2
    <3>1. {j \in Service!Succeeded' : j <= i} = {j \in Service!Succeeded : j <= i}
      BY <1>1, <1>6, <3>0
    <3> DEFINE n == Cardinality({j \in Service!Succeeded : j <= i})
    <3>2. n \in 1 .. Len(servTraced)
      <4>1. {j \in Service!Succeeded : j <= i} \in SUBSET Service!Succeeded
            /\ {i} \in SUBSET {j \in Service!Succeeded : j <= i}
        BY <3>0, <1>6
      <4>2. IsFiniteSet({j \in Service!Succeeded : j <= i}) /\ n \in Nat /\ n
              <= Cardinality(Service!Succeeded)
        BY <1>7, <4>1, FS_Subset, FS_CardinalityType
      <4>3. Cardinality({i}) = 1 /\ Cardinality({i}) <= n
        BY <4>1, <4>2, FS_Subset, FS_Singleton
      <4> QED BY <4>2, <4>3, ServiceFinite DEF Service!IInv, Service!TraceHasSuccesses
    <3>3. servTraced[n] = servCalls[i].step
      BY <3>0, ServiceFinite DEF Service!IInv, Service!TraceHasSuccesses
    <3> QED BY <1>2, <1>3, <3>0, <3>1, <3>2, <3>3
  <2> QED BY <2>1, <2>2
<1>9. Service!TraceHasSuccesses'
  BY <1>3, <1>7, <1>8, ServiceFinite DEF Service!IInv, Service!TraceHasSuccesses
<1> QED BY <1>4, <1>5, <1>9 DEF Service!IInv

LEMMA ServiceFailedCall ==
    ASSUME NEW r \in Service!Called
    PROVE  [r EXCEPT !.status = "error"] = [step |-> r.step, status |-> "error", own |-> r.own]
  BY DEF Service!Called

\* An error is booked on the last call listed, if there is one.
LEMMA ServiceErrorKeeps ==
    ASSUME Service!AgentApiAssumption, Service!IInv, Service!ToolError \/ Service!StepError
    PROVE  Service!IInv'
<1>1. /\ servPhase = "executing" /\ servStep \in Service!Step /\ Service!Last \in Nat
      /\ servErrors' = Append(servErrors, servStep)
      /\ UNCHANGED <<servPhase, servPlanSteps, servLeft, servStep, servChunks, servTraced,
                     servCut, servResponse>>
      /\ servCalls \in Seq(Service!Called) /\ Service!Last = Len(servCalls)
  BY DEF Service!IInv, Service!TypeOK, Service!ToolError, Service!StepError, Service!LogError,
       Service!Step, Service!AgentApiAssumption, Service!Last
<1>2. /\ servCalls' \in Seq(Service!Called) /\ Service!Last' = Service!Last
      /\ \A i \in 1 .. Service!Last - 1 : servCalls'[i] = servCalls[i]
      /\ Service!Last > 0 =>
            /\ servCalls'[Service!Last].status = "error"
            /\ servCalls'[Service!Last].step = servCalls[Service!Last].step
            /\ servCalls'[Service!Last].own = "success" <=> servCalls[Service!Last].own
                 = "success"
            /\ servCalls'[Service!Last].own # "error" => Service!Last \in servBorrowed'
      /\ servBorrowed \subseteq servBorrowed' /\ servBorrowed' \subseteq servBorrowed
           \cup (IF Service!Last = 0 THEN {} ELSE {Service!Last})
  <2>1. CASE Service!Last = 0
    <3>1. servCalls' = servCalls /\ servBorrowed' = servBorrowed
      BY <2>1 DEF Service!ToolError, Service!StepError
    <3> QED BY <1>1, <2>1, <3>1 DEF Service!Last
  <2>2. CASE Service!ToolError
    <3> DEFINE call == [step |-> servCalls[Service!Last].step, status |-> "error",
        own |-> "error"]
    <3>1. /\ Service!Last > 0 /\ servCalls[Service!Last].own = "running"
          /\ servBorrowed' = servBorrowed
          /\ servCalls' = [servCalls EXCEPT ![Service!Last].status = "error",
                 ![Service!Last].own = "error"]
      BY <2>2 DEF Service!ToolError
    <3>2. servCalls[Service!Last] \in Service!Called /\ Len(servCalls) = Service!Last
          /\ Len(servCalls) > 0 /\ servCalls \in Seq(Service!Called)
      BY <1>1, <3>1
    <3>3. /\ servCalls' = [servCalls EXCEPT ![Service!Last] = call] /\ call \in Service!Called
          /\ call.step = servCalls[Service!Last].step /\ call.own = "error"
          /\ call.status = "error"
      BY <1>1, <3>1, <3>2 DEF Service!Called, Service!Outcome
    <3> HIDE DEF call
    <3>4. /\ servCalls' \in Seq(Service!Called) /\ Len(servCalls') = Len(servCalls)
          /\ servCalls'[Service!Last] = call
          /\ \A i \in 1 .. Service!Last - 1 : servCalls'[i] = servCalls[i]
      BY <3>2, <3>3, ServiceReplaceLast
    <3> QED BY <1>1, <3>1, <3>3, <3>4 DEF Service!Last
  <2>3. CASE Service!StepError /\ Service!Last # 0
    <3> DEFINE call == [step |-> servCalls[Service!Last].step, status |-> "error",
        own |-> servCalls[Service!Last].own]
    <3>1. /\ Service!Last > 0 /\ servBorrowed' = servBorrowed \cup {Service!Last}
          /\ servCalls' = [servCalls EXCEPT ![Service!Last].status = "error"]
      BY <1>1, <2>3 DEF Service!StepError
    <3>2. servCalls[Service!Last] \in Service!Called /\ Len(servCalls) = Service!Last
          /\ Len(servCalls) > 0 /\ servCalls \in Seq(Service!Called)
      BY <1>1, <3>1
    <3>5. servCalls' = [servCalls EXCEPT ![Service!Last] = [@ EXCEPT !.status = "error"]]
      BY <3>1
    <3>7. [servCalls[Service!Last] EXCEPT !.status = "error"] = call
      BY <3>2, ServiceFailedCall
    <3>3. /\ servCalls' = [servCalls EXCEPT ![Service!Last] = call] /\ call \in Service!Called
          /\ call.step = servCalls[Service!Last].step
          /\ call.own = servCalls[Service!Last].own /\ call.status = "error"
      <4>1. servCalls' = [servCalls EXCEPT ![Service!Last] = call]
        BY <3>5, <3>7
      <4> QED BY <3>2, <4>1 DEF Service!Called, Service!Outcome
    <3> HIDE DEF call
    <3>4. /\ servCalls' \in Seq(Service!Called) /\ Len(servCalls') = Len(servCalls)
          /\ servCalls'[Service!Last] = call
          /\ \A i \in 1 .. Service!Last - 1 : servCalls'[i] = servCalls[i]
      BY <3>2, <3>3, ServiceReplaceLast
    <3> QED BY <1>1, <3>1, <3>3, <3>4 DEF Service!Last
  <2> QED BY <2>1, <2>2, <2>3
<1>3. Service!TypeOK' /\ Service!ResponseInv'
  <2>1. servErrors' \in Seq(Service!Step)
    BY <1>1 DEF Service!IInv, Service!TypeOK
  <2>2. servBorrowed' \subseteq 1 .. ServEvents
    BY <1>1, <1>2 DEF Service!IInv, Service!TypeOK, Service!CallsInv, Service!AgentApiAssumption
  <2> QED BY <1>1, <1>2, <2>1, <2>2 DEF Service!IInv, Service!TypeOK, Service!ResponseInv
<1>4. Service!CallsInv'
  <2>1. servBorrowed' \subseteq 1 .. Service!Last
    BY <1>1, <1>2 DEF Service!IInv, Service!CallsInv
  <2> SUFFICES ASSUME NEW i \in 1 .. Service!Last
               PROVE  /\ servCalls'[i].status # servCalls'[i].own => i \in servBorrowed'
                         /\ servCalls'[i].status = "error"
                      /\ i < Service!Last => servCalls'[i].own # "running"
    BY <1>1, <1>2, <2>1 DEF Service!CallsInv, Service!IInv
  <2>2. CASE i = Service!Last
    BY <1>1, <1>2, <2>2
  <2>3. CASE i # Service!Last
    BY <1>1, <1>2, <2>3 DEF Service!CallsInv, Service!IInv
  <2> QED BY <2>2, <2>3
<1>5. Service!Succeeded' = Service!Succeeded
  <2>1. ASSUME NEW i \in 1 .. Service!Last
        PROVE  servCalls'[i].own = "success" <=> servCalls[i].own = "success"
    <3>1. i = Service!Last \/ i \in 1 .. Service!Last - 1
      BY <1>1
    <3>2. CASE i = Service!Last
      <4>1. Service!Last > 0
        BY <1>1, <3>2
      <4> QED BY <1>2, <3>2, <4>1
    <3>3. CASE i \in 1 .. Service!Last - 1
      <4>1. servCalls'[i] = servCalls[i]
        BY <1>2, <3>3
      <4> QED BY <4>1
    <3> QED BY <3>1, <3>2, <3>3
  <2> QED BY <1>2, <2>1 DEF Service!Succeeded
<1>6. \A i \in 1 .. Service!Last : servCalls'[i].step = servCalls[i].step
  BY <1>1, <1>2
<1>7. Service!TraceHasSuccesses'
  BY <1>1, <1>2, <1>5, <1>6, ServiceFinite DEF Service!IInv, Service!TraceHasSuccesses,
       Service!Succeeded
<1> QED BY <1>3, <1>4, <1>7 DEF Service!IInv

LEMMA ServiceRespondKeeps ==
    ASSUME Service!AgentApiAssumption, Service!IInv, Service!Respond
    PROVE  Service!IInv'
<1>1. /\ servPhase' = "responded"
      /\ UNCHANGED <<servPlanSteps, servLeft, servStep, servCalls, servErrors, servBorrowed,
                     servChunks, servTraced, servCut>>
      /\ servResponse'.status = "ok" => servErrors = <<>> /\ (servCut => servChunks)
      /\ servResponse' \in [status : {"none", "ok", "partial"}, answer : {"none", "text",
             "empty", "error"}]
  BY DEF Service!Respond, Service!Status, Service!IInv, Service!TypeOK
<1>2. Service!TypeOK' /\ Service!ResponseInv'
  BY <1>1 DEF Service!IInv, Service!TypeOK, Service!ResponseInv
<1> QED BY <1>1, <1>2, ServiceQuietKeeps

LEMMA ServiceNextInv ==
    ASSUME Service!AgentApiAssumption
    PROVE  Service!IInv /\ [Service!Next]_Service!vars => Service!IInv'
<1> SUFFICES ASSUME Service!IInv, [Service!Next]_Service!vars
             PROVE  Service!IInv'
  OBVIOUS
<1>1. CASE UNCHANGED Service!vars
  BY <1>1, ServiceFinite DEF Service!vars, Service!IInv, Service!TypeOK, Service!CallsInv,
       Service!TraceHasSuccesses, Service!Succeeded, Service!Last, Service!ResponseInv
<1> QED BY <1>1, ServicePlanKeeps, ServiceCallKeeps, ServiceResultKeeps, ServiceErrorKeeps,
             ServiceRespondKeeps DEF Service!Next

LEMMA ServiceInvProperty ==
    ASSUME Service!IInv
    PROVE  Service!ResponseTellsRun
  BY DEF Service!IInv, Service!CallsInv, Service!ResponseInv, Service!ResponseTellsRun

LEMMA ServiceInvariance == ServicesSpec => []Service!IInv
<1>1. ServicesInit => Service!IInv
  BY ServiceInitInv, ServicesAssumption DEF ServicesInit, ServicesAssumption
<1>2. Service!IInv /\ [ServicesNext]_servicesVars => Service!IInv'
  <2> SUFFICES ASSUME Service!IInv, [ServicesNext]_servicesVars
               PROVE  Service!IInv'
    OBVIOUS
  <2>1. Service!Next \/ UNCHANGED servVars
    BY DEF ServicesNext, Still, servicesVars
  <2>2. [Service!Next]_Service!vars
    BY <2>1 DEF servVars, Service!vars
  <2>3. Service!AgentApiAssumption
    BY ServicesAssumption DEF ServicesAssumption
  <2> QED BY <2>2, <2>3, ServiceNextInv
<1> QED BY <1>1, <1>2, PTL DEF ServicesSpec

\* The response tells how the run went, call by call, whatever events the step runner
\* yields and wherever the run is cut off, for any number of steps and events.
THEOREM ResponseTellsRunHolds == ServicesSpec => []ResponseTellsRun
<1>1. Service!IInv => ResponseTellsRun
  BY ServiceInvProperty, ServicesAssumption DEF ResponseTellsRun, ServicesAssumption
<1> QED BY <1>1, ServiceInvariance, PTL

-----------------------------------------------------------------------------
(* One retrieval *)

\* The cardinality of the instance is that of the library's theorems.
LEMMA FindFinite ==
    \A S : Search!Cardinality(S) = Cardinality(S) /\ Search!IsFiniteSet(S) = IsFiniteSet(S)
<1>1. \A S : Search!IsFiniteSet(S) = IsFiniteSet(S)
  BY DEF Search!IsFiniteSet, IsFiniteSet
<1>2. \A S : Search!Cardinality(S) = Cardinality(S)
  BY DEF Search!Cardinality, Cardinality, Search!IsFiniteSet, IsFiniteSet
<1> QED BY <1>1, <1>2

\* A sequence of all the elements of a set, each once.
LEMMA FindSeqsOf ==
    ASSUME NEW S, IsFiniteSet(S), NEW list \in Search!SetToSeqs(S)
    PROVE  /\ list \in Seq(S) /\ Len(list) = Cardinality(S) /\ Cardinality(S) \in Nat
           /\ DOMAIN list = 1 .. Cardinality(S)
           /\ Search!IsInjective(list) /\ Search!ToSet(list) = S
<1> DEFINE n == Cardinality(S)
<1>1. n \in Nat
  BY FS_CardinalityType
<1>2. list \in [1 .. n -> S] /\ \A i, j \in 1 .. n : i # j => list[i] # list[j]
  BY FindFinite DEF Search!SetToSeqs
<1>3. IsFiniteSet(1 .. n) /\ Cardinality(1 .. n) = n
  <2>1. \A m \in Nat : IsFiniteSet(1 .. m) /\ Cardinality(1 .. m) = m
    BY FS_Interval
  <2> QED BY <1>1, <2>1
<1> HIDE DEF n
<1>4. list \in Seq(S) /\ Len(list) = n /\ Search!IsInjective(list)
  BY <1>1, <1>2 DEF Search!IsInjective
<1>5. list \in Injection(1 .. n, S)
  BY <1>2, <1>4 DEF Injection, IsInjective, Search!IsInjective
<1>6. list \in Surjection(1 .. n, S)
  BY <1>3, <1>5, FS_Injection DEF n
<1>7. \A x \in S : \E i \in 1 .. n : list[i] = x
  BY <1>6 DEF Surjection
<1>8. Search!ToSet(list) = S
  BY <1>2, <1>7 DEF Search!ToSet
<1> QED BY <1>1, <1>2, <1>4, <1>8 DEF n

\* A list without duplicates is a sequence of its elements, each once.
LEMMA FindOneByOne ==
    ASSUME NEW C, NEW list \in Seq(C), Search!IsInjective(list)
    PROVE  /\ IsFiniteSet(Search!ToSet(list)) /\ Cardinality(Search!ToSet(list)) = Len(list)
           /\ list \in Search!SetToSeqs(Search!ToSet(list)) /\ Search!ToSet(list) \subseteq C
<1> DEFINE n == Len(list)
           S == Search!ToSet(list)
<1>1. n \in Nat /\ DOMAIN list = 1 .. n /\ S \subseteq C
  BY DEF Search!ToSet
<1>2. IsFiniteSet(1 .. n) /\ Cardinality(1 .. n) = n
  <2>1. \A m \in Nat : IsFiniteSet(1 .. m) /\ Cardinality(1 .. m) = m
    BY FS_Interval
  <2> QED BY <1>1, <2>1
<1>3. list \in [1 .. n -> S] /\ \A x \in S : \E i \in 1 .. n : list[i] = x
  BY <1>1 DEF Search!ToSet
<1>4. list \in Injection(1 .. n, S) /\ list \in Surjection(1 .. n, S)
  BY <1>1, <1>3 DEF Injection, Surjection, IsInjective, Search!IsInjective
<1>5. ExistsBijection(1 .. n, S)
  BY <1>4 DEF ExistsBijection, Bijection
<1>6. IsFiniteSet(S) /\ Cardinality(S) = n
  BY <1>2, <1>5, FS_Bijection
<1>7. list \in Search!SetToSeqs(S)
  <2> HIDE DEF n, S
  <2> QED BY <1>1, <1>3, <1>6, FindFinite DEF Search!SetToSeqs, Search!IsInjective
<1> QED BY <1>1, <1>6, <1>7

LEMMA FindRankedIs ==
    ASSUME NEW C, IsFiniteSet(C), NEW list
    PROVE  list \in Search!Ranked(C) <=> list \in Seq(C) /\ Search!IsInjective(list)
<1>1. ASSUME list \in Search!Ranked(C)
      PROVE  list \in Seq(C) /\ Search!IsInjective(list)
  <2>1. PICK S \in SUBSET C : list \in Search!SetToSeqs(S)
    BY <1>1 DEF Search!Ranked, Search!SetToAllKPermutations
  <2>2. IsFiniteSet(S)
    BY FS_Subset
  <2>3. list \in Seq(S) /\ Search!IsInjective(list)
    BY <2>1, <2>2, FindSeqsOf
  <2> QED BY <2>3, SeqMonotonic
<1>2. ASSUME list \in Seq(C), Search!IsInjective(list)
      PROVE  list \in Search!Ranked(C)
  <2>1. list \in Search!SetToSeqs(Search!ToSet(list)) /\ Search!ToSet(list) \in SUBSET C
    BY <1>2, FindOneByOne
  <2> QED BY <2>1 DEF Search!Ranked, Search!SetToAllKPermutations
<1> QED BY <1>1, <1>2

\* Where an element is in a list without duplicates.
LEMMA FindPositionOf ==
    ASSUME NEW C, NEW list \in Seq(C), Search!IsInjective(list)
    PROVE  /\ \A c \in Search!ToSet(list) : /\ Search!Position(list, c) \in 1 .. Len(list)
                                     /\ list[Search!Position(list, c)] = c
           /\ \A i \in 1 .. Len(list) : Search!Position(list, list[i]) = i
              /\ list[i] \in Search!ToSet(list)
<1>1. DOMAIN list = 1 .. Len(list)
  OBVIOUS
<1>2. \A c \in Search!ToSet(list) : \E i \in 1 .. Len(list) : list[i] = c
  BY <1>1 DEF Search!ToSet
<1>3. \A c \in Search!ToSet(list) : /\ Search!Position(list, c) \in 1 .. Len(list)
                             /\ list[Search!Position(list, c)] = c
  BY <1>2 DEF Search!Position
<1>4. \A i \in 1 .. Len(list) : list[i] \in Search!ToSet(list)
  BY <1>1 DEF Search!ToSet
<1>5. \A i \in 1 .. Len(list) : Search!Position(list, list[i]) = i
  BY <1>1, <1>3, <1>4 DEF Search!IsInjective
<1> QED BY <1>3, <1>4, <1>5

\* The elements of a finite set can be put in any strict total order.
LEMMA FindArrange ==
    ASSUME NEW S, IsFiniteSet(S), NEW R,
           \A c \in S : <<c, c>> \notin R,
           \A c, d, e \in S : <<c, d>> \in R /\ <<d, e>> \in R => <<c, e>> \in R,
           \A c, d \in S : c = d \/ <<c, d>> \in R \/ <<d, c>> \in R
    PROVE  \E list \in Search!SetToSeqs(S) : \A c, d \in S : Search!Ahead(list, c,
        d) <=> <<c, d>> \in R
<1> DEFINE n == Cardinality(S)
           before(c) == {d \in S : <<d, c>> \in R}
           rank == [c \in S |-> Cardinality(before(c)) + 1]
<1>1. n \in Nat
  BY FS_CardinalityType
<1>2. ASSUME NEW c \in S
      PROVE  IsFiniteSet(before(c)) /\ Cardinality(before(c)) \in Nat
  BY FS_Subset, FS_CardinalityType
<1>3. ASSUME NEW c \in S, NEW d \in S, <<c, d>> \in R
      PROVE  Cardinality(before(c)) < Cardinality(before(d))
  <2>1. before(c) \subseteq before(d) /\ before(c) # before(d)
    BY <1>3
  <2>2. /\ Cardinality(before(c)) <= Cardinality(before(d))
        /\ Cardinality(before(c)) # Cardinality(before(d))
    BY <2>1, <1>2, FS_Subset
  <2> QED BY <2>2, <1>2
<1>4. ASSUME NEW c \in S
      PROVE  Cardinality(before(c)) + 1 \in 1 .. n
  <2>1. before(c) \in SUBSET S /\ before(c) # S
    OBVIOUS
  <2>2. Cardinality(before(c)) <= n /\ Cardinality(before(c)) # n
    BY <2>1, FS_Subset
  <2> QED BY <2>2, <1>1, <1>2
<1> HIDE DEF before
<1>5. rank \in [S -> 1 .. n]
  BY <1>4
<1>6. \A c, d \in S : rank[c] < rank[d] <=> <<c, d>> \in R
  <2>1. \A c, d \in S : <<c, d>> \in R => rank[c] < rank[d]
    BY <1>2, <1>3
  <2>2. \A c \in S : rank[c] \in Nat
    BY <1>2
  <2> HIDE DEF rank
  <2>3. ASSUME NEW c \in S, NEW d \in S, rank[c] < rank[d]
        PROVE  <<c, d>> \in R
    <3>1. c # d /\ ~(rank[d] < rank[c])
      BY <2>2, <2>3
    <3> QED BY <3>1, <2>1
  <2> QED BY <2>1, <2>3
<1> HIDE DEF rank
<1>7. \A c, d \in S : rank[c] = rank[d] => c = d
  BY <1>1, <1>5, <1>6
<1>8. \A i \in 1 .. n : \E c \in S : rank[c] = i
  <2>1. IsFiniteSet(1 .. n) /\ Cardinality(1 .. n) = n
    <3>1. \A m \in Nat : IsFiniteSet(1 .. m) /\ Cardinality(1 .. m) = m
      BY FS_Interval
    <3> QED BY <1>1, <3>1
  <2>2. rank \in Injection(S, 1 .. n)
    BY <1>5, <1>7 DEF Injection, IsInjective, Search!IsInjective
  <2>3. rank \in Surjection(S, 1 .. n)
    BY <2>1, <2>2, FS_Injection
  <2> QED BY <2>3 DEF Surjection
<1> DEFINE list == [i \in 1 .. n |-> CHOOSE c \in S : rank[c] = i]
<1>9. \A i \in 1 .. n : list[i] \in S /\ rank[list[i]] = i
  BY <1>8
<1>10. list \in [1 .. n -> S] /\ Len(list) = n /\ DOMAIN list = 1 .. n
  BY <1>1, <1>9
<1> HIDE DEF list
<1>11. list \in Search!SetToSeqs(S)
  BY <1>9, <1>10, FindFinite DEF Search!SetToSeqs, n
<1>12. \A c \in S : Search!Position(list, c) = rank[c]
  <2> TAKE c \in S
  <2>1. rank[c] \in 1 .. n
    BY <1>5
  <2>2. list[rank[c]] = c
    BY <2>1, <1>7, <1>9
  <2>3. \A i \in 1 .. n : list[i] = c => i = rank[c]
    BY <1>9
  <2> QED BY <2>1, <2>2, <2>3, <1>10 DEF Search!Position
<1> QED BY <1>6, <1>11, <1>12 DEF Search!Ahead

\* Only(list, S) has the elements of both, in the order of the list.
LEMMA FindOnlyIs ==
    ASSUME NEW C, NEW list \in Seq(C), Search!IsInjective(list), NEW S
    PROVE  /\ Search!Only(list, S) \in Seq(C) /\ Search!IsInjective(Search!Only(list, S))
           /\ Search!ToSet(Search!Only(list, S)) = Search!ToSet(list) \cap S
           /\ Len(Search!Only(list, S)) = Cardinality(Search!ToSet(list) \cap S)
           /\ IsFiniteSet(Search!ToSet(list) \cap S)
           /\ \A c, d \in Search!ToSet(list) \cap S : Search!Ahead(Search!Only(list, S), c,
                  d) <=> Search!Ahead(list, c, d)
<1> DEFINE T == Search!ToSet(list) \cap S
           R == {p \in T \X T : Search!Ahead(list, p[1], p[2])}
           at(c) == Search!Position(list, c)
<1>1. IsFiniteSet(T) /\ T \subseteq C
  BY FindOneByOne, FS_Subset
<1>2. \A c \in T : at(c) \in Nat /\ list[at(c)] = c
  BY FindPositionOf
<1>3. \A c, d \in T : <<c, d>> \in R <=> at(c) < at(d)
  BY DEF Search!Ahead
<1>4. \A c, d \in T : at(c) = at(d) => c = d
  BY <1>2
<1> HIDE DEF at, R, T
<1>5. /\ \A c \in T : <<c, c>> \notin R
      /\ \A c, d, e \in T : <<c, d>> \in R /\ <<d, e>> \in R => <<c, e>> \in R
      /\ \A c, d \in T : c = d \/ <<c, d>> \in R \/ <<d, c>> \in R
  BY <1>2, <1>3, <1>4
<1>6. \E l \in Search!SetToSeqs(T) : \A c, d \in T : Search!Ahead(l, c, d) <=> <<c, d>> \in R
  BY <1>1, <1>5, FindArrange
<1>7. \E l \in Search!SetToSeqs(T) : \A c, d \in T : Search!Ahead(l, c,
    d) <=> Search!Ahead(list, c, d)
  BY <1>3, <1>6 DEF Search!Ahead, at
<1>8. /\ Search!Only(list, S) \in Search!SetToSeqs(T)
      /\ \A c, d \in T : Search!Ahead(Search!Only(list, S), c, d) <=> Search!Ahead(list, c, d)
  BY <1>7 DEF Search!Only, T
<1>9. Search!Only(list, S) \in Seq(T) /\ Search!IsInjective(Search!Only(list, S))
      /\ Search!ToSet(Search!Only(list, S)) = T
      /\ Len(Search!Only(list, S)) = Cardinality(T)
  BY <1>1, <1>8, FindSeqsOf
<1>10. Search!Only(list, S) \in Seq(C)
  BY <1>1, <1>9, SeqMonotonic
<1> QED BY <1>1, <1>8, <1>9, <1>10 DEF T

\* The element ahead of all is the first.
LEMMA FindFirstIs ==
    ASSUME NEW C, NEW list \in Seq(C), Search!IsInjective(list), NEW b \in Search!ToSet(list),
           \A c \in Search!ToSet(list) : ~Search!Ahead(list, c, b)
    PROVE  list # <<>> /\ list[1] = b
<1>1. Search!Position(list, b) \in 1 .. Len(list) /\ list[Search!Position(list, b)] = b
      /\ Len(list) \in Nat
  BY FindPositionOf
<1>2. 1 \in 1 .. Len(list)
  BY <1>1
<1>3. Search!Position(list, list[1]) = 1 /\ list[1] \in Search!ToSet(list)
  BY <1>2, FindPositionOf
<1>4. ~(1 < Search!Position(list, b))
  BY <1>3 DEF Search!Ahead
<1> QED BY <1>1, <1>2, <1>4

-----------------------------------------------------------------------------

\* A set with more than two elements has three.
LEMMA FindThreeOf ==
    ASSUME NEW S, IsFiniteSet(S), ~(Cardinality(S) <= 2)
    PROVE  \E a, b, c \in S : a # b /\ a # c /\ b # c
<1>1. Cardinality(S) \in Nat
  BY FS_CardinalityType
<1>2. S # {}
  BY <1>1, FS_EmptySet
<1>3. PICK a \in S : TRUE
  BY <1>2
<1>4. /\ IsFiniteSet(S \ {a}) /\ Cardinality(S \ {a}) = Cardinality(S) - 1
  BY <1>3, FS_RemoveElement
<1>5. S \ {a} # {}
  BY <1>1, <1>4, FS_EmptySet
<1>6. PICK b \in S \ {a} : TRUE
  BY <1>5
<1>7. /\ IsFiniteSet((S \ {a}) \ {b}) /\ Cardinality((S \ {a}) \ {b}) = Cardinality(S) - 2
  <2>1. Cardinality((S \ {a}) \ {b}) = Cardinality(S \ {a}) - 1
    BY <1>4, <1>6, FS_RemoveElement
  <2> QED BY <1>1, <1>4, <1>6, <2>1, FS_RemoveElement
<1>8. (S \ {a}) \ {b} # {}
  BY <1>1, <1>7, FS_EmptySet
<1> QED BY <1>3, <1>6, <1>8

LEMMA FindTwoAtLeast ==
    ASSUME NEW S, IsFiniteSet(S), NEW a \in S, NEW b \in S, a # b
    PROVE  Cardinality(S) >= 2 /\ Cardinality(S) \in Nat
<1>1. {a, b} \subseteq S
  OBVIOUS
<1>2. IsFiniteSet({a}) /\ Cardinality({a}) = 1
  BY FS_Singleton
<1>3. Cardinality({a} \cup {b}) = 2
  BY <1>2, FS_AddElement
<1>4. {a} \cup {b} = {a, b}
  OBVIOUS
<1>5. Cardinality({a, b}) <= Cardinality(S) /\ Cardinality(S) \in Nat
  BY <1>1, FS_Subset, FS_CardinalityType
<1> QED BY <1>3, <1>4, <1>5

\* The steps of PostProcess: the hits ahead of one in its document, the hits that
\* may be listed, their list, and the part of it that is taken.
FindBefore(hits, c) == {d \in Search!ToSet(hits) : FindDocument[d] = FindDocument[c]
/\ Search!Ahead(hits, d, c)}
FindFit(hits, relevant) == {c \in relevant : Cardinality(FindBefore(hits, c)) < 2}
FindListed(hits, relevant) == Search!Only(hits, FindFit(hits, relevant))
FindTaken(hits, relevant) ==
    SubSeq(FindListed(hits, relevant), 1,
    IF Len(FindListed(hits, relevant)) < Search!Fetch THEN Len(FindListed(hits, relevant)) ELSE Search!Fetch)

\* What is relevant is a hit.
LEMMA FindRelevantIs ==
    ASSUME NEW hits, NEW fused, NEW relevant \in Search!Relevant(hits, fused)
    PROVE  relevant \subseteq Search!ToSet(hits)
BY DEF Search!Relevant

LEMMA FindPostProcessSteps ==
    ASSUME Search!RetrievalAssumption, NEW hits \in Seq(FindChunk), Search!IsInjective(hits),
           NEW fused, NEW relevant \in Search!Relevant(hits, fused)
    PROVE  /\ Search!PostProcess(hits, fused, relevant) = Search!Only(FindTaken(hits, relevant),
                  {c \in FindChunk : Search!Enough(c, fused)})
           /\ FindListed(hits, relevant) \in Seq(FindChunk) /\ Search!IsInjective(FindListed(hits, relevant))
           /\ Search!ToSet(FindListed(hits, relevant)) = FindFit(hits, relevant)
           /\ FindTaken(hits, relevant) \in Seq(FindChunk) /\ Search!IsInjective(FindTaken(hits, relevant))
           /\ Search!ToSet(FindTaken(hits, relevant)) \subseteq FindFit(hits, relevant)
           /\ Len(FindListed(hits, relevant)) <= Search!Fetch => FindTaken(hits, relevant) = FindListed(hits, relevant)
           /\ FindListed(hits, relevant) # <<>> => FindTaken(hits, relevant) # <<>> /\ FindTaken(hits, relevant)[1]
                = FindListed(hits, relevant)[1]
<1> DEFINE listed == FindListed(hits, relevant)
           many == IF Len(listed) < Search!Fetch THEN Len(listed) ELSE Search!Fetch
           taken == SubSeq(listed, 1, many)
<1>1. Search!PostProcess(hits, fused, relevant) = Search!Only(taken, {c \in FindChunk : Search!Enough(c,
    fused)})
  BY FindFinite, FindRelevantIs DEF Search!PostProcess, FindListed, FindFit, FindBefore
<1>2. taken = FindTaken(hits, relevant)
  BY DEF FindTaken
<1>3. /\ listed \in Seq(FindChunk) /\ Search!IsInjective(listed)
      /\ Search!ToSet(listed) = FindFit(hits, relevant)
  <2>1. Search!ToSet(hits) \cap FindFit(hits, relevant) = FindFit(hits, relevant)
    BY FindRelevantIs DEF FindFit
  <2> QED BY <2>1, FindOnlyIs DEF FindListed
<1> HIDE DEF listed
<1>4. Len(listed) \in Nat /\ DOMAIN listed = 1 .. Len(listed)
  BY <1>3
<1>5. Search!Fetch \in Nat \ {0}
  BY FindFinite DEF Search!Fetch, Search!RetrievalAssumption
<1>6. many \in Nat /\ many <= Len(listed) /\ (Len(listed) <= Search!Fetch => many = Len(listed))
      /\ (Len(listed) # 0 => many # 0)
  <2> DEFINE n == Len(listed)
             k == Search!Fetch
  <2>1. n \in Nat /\ k \in Nat /\ k # 0
    BY <1>4, <1>5
  <2>2. many = IF n < k THEN n ELSE k
    OBVIOUS
  <2> HIDE DEF n, k, many
  <2>3. many \in Nat /\ many <= n /\ (n <= k => many = n) /\ (n # 0 => many # 0)
    BY <2>1, <2>2
  <2> QED BY <2>3 DEF n, k
<1> HIDE DEF many
<1>0. \A i \in 1 .. many : i \in 1 .. Len(listed)
  <2>1. many \in Nat /\ many <= Len(listed) /\ Len(listed) \in Nat
    BY <1>4, <1>6
  <2>2. \A m, n \in Nat : m <= n => \A i \in 1 .. m : i \in 1 .. n
    OBVIOUS
  <2> QED BY <2>1, <2>2
<1>7. /\ taken \in Seq(FindChunk) /\ Len(taken) = many /\ DOMAIN taken = 1 .. many
      /\ \A i \in 1 .. many : taken[i] = listed[i]
  <2>1. many \in Nat /\ \A i \in 1 .. many : i \in 1 .. Len(listed) /\ listed[i] \in FindChunk
    <3>2. \A i \in 1 .. Len(listed) : listed[i] \in FindChunk
      BY <1>3
    <3> QED BY <1>6, <1>0, <3>2
  <2>2. taken \in Seq(FindChunk) /\ Len(taken) = many /\ \A i \in 1 .. many : taken[i]
          = listed[i]
    BY <1>3, <2>1, SubSeqProperties
  <2> HIDE DEF taken
  <2> QED BY <2>1, <2>2
<1> HIDE DEF taken
<1>8. Search!IsInjective(taken)
  <2>1. \A i \in 1 .. many : i \in DOMAIN listed
    BY <1>4, <1>0
  <2> QED BY <1>3, <1>7, <2>1 DEF Search!IsInjective
<1>9. Search!ToSet(taken) \subseteq Search!ToSet(listed)
  BY <1>0, <1>4, <1>7 DEF Search!ToSet
<1>10. Len(listed) <= Search!Fetch => taken = listed
  BY <1>3, <1>4, <1>6, <1>7
<1>11. listed # <<>> => taken # <<>> /\ taken[1] = listed[1]
  <2> SUFFICES ASSUME listed # <<>>
               PROVE  taken # <<>> /\ taken[1] = listed[1]
    OBVIOUS
  <2>1. Len(listed) # 0
    BY <1>3
  <2>2. 1 \in 1 .. many /\ many # 0
    <3>1. many \in Nat /\ many # 0
      BY <1>6, <2>1
    <3> QED BY <3>1
  <2> QED BY <1>7, <2>2
<1> QED BY <1>1, <1>2, <1>3, <1>7, <1>8, <1>9, <1>10, <1>11 DEF listed

\* What PostProcess keeps are hits, each once, two of a document at most.
LEMMA FindPostProcessKeeps ==
    ASSUME Search!RetrievalAssumption, NEW hits \in Search!Ranked(FindChunk), NEW fused,
           NEW relevant \in Search!Relevant(hits, fused)
    PROVE  /\ Search!PostProcess(hits, fused, relevant) \in Search!Ranked(FindChunk)
           /\ Search!TwoOfEach(Search!PostProcess(hits, fused, relevant))
<1> DEFINE returned == Search!PostProcess(hits, fused, relevant)
<1>0. IsFiniteSet(FindChunk)
  BY FindFinite DEF Search!RetrievalAssumption
<1>1. hits \in Seq(FindChunk) /\ Search!IsInjective(hits)
  BY <1>0, FindRankedIs
<1>2. /\ FindTaken(hits, relevant) \in Seq(FindChunk) /\ Search!IsInjective(FindTaken(hits, relevant))
      /\ Search!ToSet(FindTaken(hits, relevant)) \subseteq FindFit(hits, relevant)
      /\ returned = Search!Only(FindTaken(hits, relevant), {c \in FindChunk : Search!Enough(c, fused)})
  BY <1>1, FindPostProcessSteps
<1> HIDE DEF returned
<1>3. returned \in Seq(FindChunk) /\ Search!IsInjective(returned)
      /\ Search!ToSet(returned) \subseteq FindFit(hits, relevant)
  <2>1. /\ returned \in Seq(FindChunk) /\ Search!IsInjective(returned)
        /\ Search!ToSet(returned) = Search!ToSet(FindTaken(hits, relevant)) \cap {c \in FindChunk : Search!Enough(c,
               fused)}
    BY <1>2, FindOnlyIs
  <2> QED BY <1>2, <2>1
<1>4. returned \in Search!Ranked(FindChunk)
  BY <1>0, <1>3, FindRankedIs
<1>5. IsFiniteSet(Search!ToSet(hits)) /\ \A c \in Search!ToSet(hits) : IsFiniteSet(FindBefore(hits, c))
  BY <1>1, FindOneByOne, FS_Subset DEF FindBefore
<1>6. ASSUME NEW x \in DOMAIN returned, NEW y \in DOMAIN returned, NEW z \in DOMAIN returned,
             FindDocument[returned[x]] = FindDocument[returned[y]],
             FindDocument[returned[y]] = FindDocument[returned[z]],
             x # y, x # z, y # z
      PROVE  FALSE
  <2> DEFINE S == {x, y, z}
             at(i) == Search!Position(hits, returned[i])
  <2>3. /\ \A i \in S : /\ returned[i] \in FindFit(hits, relevant)
                        /\ returned[i] \in Search!ToSet(hits)
        /\ \A i, j \in S : FindDocument[returned[i]] = FindDocument[returned[j]]
    <3>1. FindFit(hits, relevant) \subseteq Search!ToSet(hits)
      BY FindRelevantIs DEF FindFit
    <3>2. \A i \in S : returned[i] \in FindFit(hits, relevant)
      BY <1>3, <1>6 DEF Search!ToSet
    <3> QED BY <1>6, <3>1, <3>2
  <2>4. \A i, j \in S : i # j => returned[i] # returned[j]
    BY <1>3 DEF Search!IsInjective
  <2>5. \A i \in S : at(i) \in Nat /\ hits[at(i)] = returned[i]
    BY <1>1, <2>3, FindPositionOf
  <2>6. \A i, j \in S : i # j => at(i) # at(j)
    BY <2>4, <2>5
  <2>7. ASSUME NEW i \in S, NEW j \in S, NEW k \in S, i # j, i # k, j # k,
               at(i) < at(k), at(j) < at(k)
        PROVE  FALSE
    <3>1. returned[i] \in FindBefore(hits, returned[k]) /\ returned[j] \in FindBefore(hits,
                                                               returned[k])
      BY <2>3, <2>7 DEF Search!Ahead, FindBefore
    <3>2. IsFiniteSet(FindBefore(hits, returned[k]))
      BY <1>5, <2>3
    <3>3. /\ Cardinality(FindBefore(hits, returned[k])) >= 2
          /\ Cardinality(FindBefore(hits, returned[k])) \in Nat
      BY <2>4, <2>7, <3>1, <3>2, FindTwoAtLeast
    <3>4. Cardinality(FindBefore(hits, returned[k])) < 2
      BY <2>3 DEF FindFit
    <3> QED BY <3>3, <3>4
  <2>8. x \in S /\ y \in S /\ z \in S
    OBVIOUS
  <2> HIDE DEF at, S
  <2> QED BY <1>6, <2>5, <2>6, <2>7, <2>8
<1> QED BY <1>4, <1>6 DEF Search!TwoOfEach, returned

\* A hit that covers the question well is relevant and good enough, whatever found it.
LEMMA FindGoodEnough ==
    ASSUME NEW c, findCoverage[c] = 6, NEW fused
    PROVE  /\ Search!Enough(c, fused)
           /\ \A hits : \A relevant \in Search!Relevant(hits, fused) :
                 c \in Search!ToSet(hits) => c \in relevant
<1>1. 6 >= 3 /\ 6 >= 4 /\ 6 >= 5 /\ 6 >= 6
  OBVIOUS
<1>2. Search!Enough(c, fused)
  BY <1>1 DEF Search!Enough
<1>3. ASSUME NEW hits, NEW relevant \in Search!Relevant(hits, fused), c \in Search!ToSet(hits)
      PROVE  c \in relevant
  <2> DEFINE vectorOnly(x) == Search!ByVector(x, fused) /\ ~Search!ByKeyword(x, fused)
  <2>1. {x \in Search!ToSet(hits) : findCoverage[x] >= IF vectorOnly(x) THEN 5 ELSE 3}
            \subseteq relevant
    BY DEF Search!Relevant
  <2> HIDE DEF vectorOnly
  <2> QED BY <1>1, <1>3, <2>1
<1> QED BY <1>2, <1>3

\* A first hit that covers the question well is kept.
LEMMA FindFirstIsKept ==
    ASSUME Search!RetrievalAssumption, NEW hits \in Search!Ranked(FindChunk), NEW fused,
           NEW relevant \in Search!Relevant(hits, fused), hits # <<>>,
           findCoverage[hits[1]] = 6
    PROVE  hits[1] \in Search!ToSet(Search!PostProcess(hits, fused, relevant))
<1> DEFINE best == hits[1]
<1>1. IsFiniteSet(FindChunk) /\ hits \in Seq(FindChunk) /\ Search!IsInjective(hits)
  BY FindRankedIs, FindFinite DEF Search!RetrievalAssumption
<1>2. 1 \in 1 .. Len(hits)
  BY <1>1
<1>3. best \in Search!ToSet(hits) /\ Search!Position(hits, best) = 1
  BY <1>1, <1>2, FindPositionOf
<1>4. \A c \in Search!ToSet(hits) : ~Search!Ahead(hits, c, best)
  <2> TAKE c \in Search!ToSet(hits)
  <2>1. Search!Position(hits, c) \in 1 .. Len(hits)
    BY <1>1, FindPositionOf
  <2>2. ~(Search!Position(hits, c) < 1)
    BY <2>1
  <2> QED BY <1>3, <2>2 DEF Search!Ahead
<1>5. findCoverage[best] = 6
  OBVIOUS
<1> HIDE DEF best
<1>6. best \in FindFit(hits, relevant)
  <2>1. FindBefore(hits, best) = {}
    BY <1>4 DEF FindBefore
  <2>2. Cardinality(FindBefore(hits, best)) = 0
    BY <2>1, FS_EmptySet
  <2>3. best \in relevant
    BY <1>3, <1>5, FindGoodEnough
  <2>4. 0 < 2
    OBVIOUS
  <2> QED BY <2>2, <2>3, <2>4 DEF FindFit
<1>7. /\ FindListed(hits, relevant) \in Seq(FindChunk) /\ Search!IsInjective(FindListed(hits, relevant))
      /\ Search!ToSet(FindListed(hits, relevant)) = FindFit(hits, relevant)
  BY <1>1, FindPostProcessSteps
<1>8. \A c \in FindFit(hits, relevant) : ~Search!Ahead(FindListed(hits, relevant), c, best)
  <2>1. /\ FindFit(hits, relevant) \subseteq Search!ToSet(hits)
        /\ Search!ToSet(hits) \cap FindFit(hits, relevant) = FindFit(hits, relevant)
    BY FindRelevantIs DEF FindFit
  <2>2. \A c, d \in FindFit(hits, relevant) : Search!Ahead(FindListed(hits, relevant), c, d) <=> Search!Ahead(hits,
      c, d)
    BY <1>1, <2>1, FindOnlyIs DEF FindListed
  <2> QED BY <1>4, <1>6, <2>1, <2>2
<1>9. FindListed(hits, relevant) # <<>> /\ FindListed(hits, relevant)[1] = best
  BY <1>6, <1>7, <1>8, FindFirstIs
<1>10. /\ FindTaken(hits, relevant) \in Seq(FindChunk) /\ Search!IsInjective(FindTaken(hits, relevant))
       /\ FindTaken(hits, relevant) # <<>> /\ FindTaken(hits, relevant)[1] = best
       /\ Search!PostProcess(hits, fused, relevant) = Search!Only(FindTaken(hits, relevant),
              {c \in FindChunk : Search!Enough(c, fused)})
  BY <1>1, <1>9, FindPostProcessSteps
<1>11. best \in Search!ToSet(FindTaken(hits, relevant)) /\ best \in FindChunk
  <2>1. 1 \in 1 .. Len(FindTaken(hits, relevant))
    BY <1>10
  <2> QED BY <2>1, <1>10, FindPositionOf
<1>12. Search!Enough(best, fused)
  BY <1>5, FindGoodEnough
<1>13. Search!ToSet(Search!PostProcess(hits, fused, relevant)) = Search!ToSet(FindTaken(hits, relevant)) \cap {c \in FindChunk : Search!Enough(c, fused)}
  BY <1>10, FindOnlyIs
<1> QED BY <1>11, <1>12, <1>13 DEF best

\* Of two hits at most none is cut off, and one that covers the question well is kept.
LEMMA FindFewAreKept ==
    ASSUME Search!RetrievalAssumption, NEW hits \in Search!Ranked(FindChunk), NEW fused,
           NEW relevant \in Search!Relevant(hits, fused), Cardinality(Search!ToSet(hits)) <= 2, 2 <= Search!Fetch,
           NEW best \in Search!ToSet(hits), findCoverage[best] = 6
    PROVE  best \in Search!ToSet(Search!PostProcess(hits, fused, relevant))
<1>1. IsFiniteSet(FindChunk) /\ hits \in Seq(FindChunk) /\ Search!IsInjective(hits)
  BY FindRankedIs, FindFinite DEF Search!RetrievalAssumption
<1>2. IsFiniteSet(Search!ToSet(hits)) /\ Cardinality(Search!ToSet(hits)) \in Nat
  BY <1>1, FindOneByOne, FS_CardinalityType
<1>3. best \notin FindBefore(hits, best)
  <2>1. Search!Position(hits, best) \in Nat
    BY <1>1, FindPositionOf
  <2> QED BY <2>1 DEF Search!Ahead, FindBefore
<1>4. /\ FindBefore(hits, best) \subseteq Search!ToSet(hits)
      /\ FindBefore(hits, best) # Search!ToSet(hits)
  BY <1>3 DEF FindBefore
<1>5. Cardinality(FindBefore(hits, best)) < 2
  <2>1. IsFiniteSet(FindBefore(hits, best)) /\ Cardinality(FindBefore(hits, best)) \in Nat
    BY <1>2, <1>4, FS_Subset, FS_CardinalityType
  <2>2. /\ Cardinality(FindBefore(hits, best)) <= Cardinality(Search!ToSet(hits))
        /\ Cardinality(FindBefore(hits, best)) # Cardinality(Search!ToSet(hits))
    BY <1>2, <1>4, FS_Subset
  <2> QED BY <1>2, <2>1, <2>2
<1>6. best \in FindFit(hits, relevant)
  BY <1>5, FindGoodEnough DEF FindFit
<1>7. /\ FindFit(hits, relevant) \subseteq Search!ToSet(hits)
      /\ Search!ToSet(hits) \cap FindFit(hits, relevant) = FindFit(hits, relevant)
  BY FindRelevantIs DEF FindFit
<1>8. FindListed(hits, relevant) \in Seq(FindChunk) /\ Search!ToSet(FindListed(hits, relevant)) = FindFit(hits, relevant)
      /\ Len(FindListed(hits, relevant)) = Cardinality(FindFit(hits, relevant))
  BY <1>1, <1>7, FindOnlyIs DEF FindListed
<1>9. Len(FindListed(hits, relevant)) <= Search!Fetch
  <2>1. Cardinality(FindFit(hits, relevant)) <= Cardinality(Search!ToSet(hits))
        /\ Cardinality(FindFit(hits, relevant)) \in Nat
    BY <1>2, <1>7, FS_Subset, FS_CardinalityType
  <2>2. Search!Fetch \in Nat
    BY FindFinite DEF Search!Fetch, Search!RetrievalAssumption
  <2>3. Cardinality(FindFit(hits, relevant)) <= Search!Fetch
    BY <1>2, <2>1, <2>2
  <2> QED BY <1>8, <2>3
<1>10. /\ Search!IsInjective(FindListed(hits, relevant))
       /\ Search!PostProcess(hits, fused, relevant) = Search!Only(FindListed(hits, relevant),
              {c \in FindChunk : Search!Enough(c, fused)})
  BY <1>1, <1>9, FindPostProcessSteps
<1>11. Search!Enough(best, fused) /\ best \in FindChunk
  BY <1>1, FindOneByOne, FindGoodEnough
<1>12. /\ Search!ToSet(Search!PostProcess(hits, fused, relevant))
            = Search!ToSet(FindListed(hits, relevant)) \cap {c \in FindChunk : Search!Enough(c, fused)}
  BY <1>8, <1>10, FindOnlyIs
<1> QED BY <1>6, <1>8, <1>11, <1>12

-----------------------------------------------------------------------------
(* The two searches of an attempt. *)

\* A rank gives a share, the first the largest.
LEMMA FindShareOfRank ==
    ASSUME NEW p \in Nat \ {0}
    PROVE  1000000 \div (60 + p) \in Nat /\ 1000000 \div (60 + p) <= 16393
<1> DEFINE q == 1000000 \div (60 + p)
<1>1. q \in Int /\ (60 + p) * q <= 1000000 /\ 1000000 < (60 + p) * q + (60 + p)
  OBVIOUS
<1> HIDE DEF q
<1>2. q >= 0
  <2> SUFFICES ASSUME q <= -1
               PROVE  FALSE
    BY <1>1
  <2>1. (60 + p) * q <= (60 + p) * (-1)
    BY <1>1
  <2> QED BY <1>1, <2>1
<1>3. q <= 16393
  <2> SUFFICES ASSUME q >= 16394
               PROVE  FALSE
    BY <1>1
  <2>1. (60 + p) * q >= 61 * q
    BY <1>1
  <2>2. 61 * q >= 1000034
    BY <1>1
  <2> QED BY <1>1, <2>1, <2>2
<1> QED BY <1>1, <1>2, <1>3 DEF q

LEMMA FindShareIs ==
    ASSUME NEW list \in Seq(FindChunk), Search!IsInjective(list), NEW c
    PROVE  Search!Share(list, c) \in Nat /\ Search!Share(list, c) <= 16393
<1>1. CASE c \in Search!ToSet(list)
  <2>1. Search!Position(list, c) \in Nat \ {0}
    BY <1>1, FindPositionOf
  <2> HIDE DEF Search!Position
  <2> QED BY <1>1, <2>1, FindShareOfRank DEF Search!Share
<1>2. CASE c \notin Search!ToSet(list)
  BY <1>2 DEF Search!Share
<1> QED BY <1>1, <1>2

\* Two lists without a common element, one after the other.
LEMMA FindJoined ==
    ASSUME NEW C, NEW l \in Seq(C), NEW m \in Seq(C), Search!IsInjective(l),
           Search!IsInjective(m),
           Search!ToSet(l) \cap Search!ToSet(m) = {}
    PROVE  l \o m \in Seq(C) /\ Search!IsInjective(l \o m) /\ Search!ToSet(l \o m)
             = Search!ToSet(l) \cup Search!ToSet(m)
<1> DEFINE n == Len(l)
           k == Len(m)
           j == l \o m
<1>1. n \in Nat /\ k \in Nat /\ DOMAIN l = 1 .. n /\ DOMAIN m = 1 .. k
  OBVIOUS
<1>2. j \in Seq(C) /\ Len(j) = n + k /\ DOMAIN j = 1 .. n + k
  OBVIOUS
<1>3. \A i \in 1 .. n + k : j[i] = IF i <= n THEN l[i] ELSE m[i - n]
  OBVIOUS
<1> HIDE DEF n, k, j
<1>4. \A i \in 1 .. n : l[i] \in Search!ToSet(l) /\ j[i] = l[i] /\ i \in 1 .. n + k
  BY <1>1, <1>3 DEF Search!ToSet
<1>5. \A i \in 1 .. k : m[i] \in Search!ToSet(m) /\ j[i + n] = m[i] /\ i + n \in 1 .. n + k
  <2> TAKE i \in 1 .. k
  <2>1. i + n \in 1 .. n + k /\ ~(i + n <= n) /\ (i + n) - n = i
    BY <1>1
  <2>2. j[i + n] = m[(i + n) - n]
    BY <1>3, <2>1
  <2> QED BY <1>1, <2>1, <2>2 DEF Search!ToSet
<1>10. \A i \in 1 .. n + k : i - n \in 1 .. k => j[i] \in Search!ToSet(m)
  <2> SUFFICES ASSUME NEW i \in 1 .. n + k, i - n \in 1 .. k
               PROVE  j[i] \in Search!ToSet(m)
    OBVIOUS
  <2>1. (i - n) + n = i
    BY <1>1
  <2> QED BY <1>5, <2>1
<1>6. \A i \in 1 .. n + k : i \in 1 .. n \/ i - n \in 1 .. k
  BY <1>1
<1>7. Search!IsInjective(j)
  <2> SUFFICES ASSUME NEW a \in 1 .. n + k, NEW b \in 1 .. n + k, j[a] = j[b]
               PROVE  a = b
    BY <1>2 DEF Search!IsInjective
  <2>1. CASE a \in 1 .. n /\ b \in 1 .. n
    BY <1>1, <1>4, <2>1 DEF Search!IsInjective
  <2>2. CASE a - n \in 1 .. k /\ b - n \in 1 .. k
    <3>1. m[a - n] = m[b - n]
      BY <1>1, <1>5, <2>2
    <3>2. a - n = b - n
      BY <1>1, <2>2, <3>1 DEF Search!IsInjective
    <3> QED BY <1>1, <3>2
  <2>3. CASE a \in 1 .. n /\ b - n \in 1 .. k
    BY <1>4, <1>10, <2>3
  <2>4. CASE a - n \in 1 .. k /\ b \in 1 .. n
    BY <1>4, <1>10, <2>4
  <2> QED BY <1>6, <2>1, <2>2, <2>3, <2>4
<1>8. Search!ToSet(j) \subseteq Search!ToSet(l) \cup Search!ToSet(m)
  <2> SUFFICES ASSUME NEW i \in 1 .. n + k
               PROVE  j[i] \in Search!ToSet(l) \cup Search!ToSet(m)
    BY <1>2 DEF Search!ToSet
  <2>1. CASE i \in 1 .. n
    BY <1>4, <2>1
  <2>2. CASE i - n \in 1 .. k
    <3>1. j[(i - n) + n] = m[i - n] /\ (i - n) + n = i
      BY <1>1, <1>5, <2>2
    <3> QED BY <1>5, <2>2, <3>1
  <2> QED BY <1>6, <2>1, <2>2
<1>9. Search!ToSet(l) \cup Search!ToSet(m) \subseteq Search!ToSet(j)
  <2>1. \A i \in 1 .. n : l[i] \in Search!ToSet(j)
    BY <1>2, <1>4 DEF Search!ToSet
  <2>2. \A i \in 1 .. k : m[i] \in Search!ToSet(j)
    BY <1>2, <1>5 DEF Search!ToSet
  <2> QED BY <1>1, <2>1, <2>2 DEF Search!ToSet
<1> QED BY <1>2, <1>7, <1>8, <1>9 DEF j

\* Fused has the hits of both searches, each once; without vector hits the first
\* keyword hit stays the first.
LEMMA FindFusedIs ==
    ASSUME Search!RetrievalAssumption, findKeyword \in Search!Ranked(FindChunk),
           findVector \in Search!Ranked(FindChunk)
    PROVE  /\ Search!Fused \in Search!Ranked(FindChunk)
           /\ Search!ToSet(Search!Fused) = Search!ToSet(findKeyword)
                \cup Search!ToSet(findVector)
           /\ findVector = <<>> /\ findKeyword # <<>> => Search!Fused # <<>>
              /\ Search!Fused[1] = findKeyword[1]
<1> DEFINE unseen == Search!Only(findVector, FindChunk \ Search!ToSet(findKeyword))
           seen == findKeyword \o unseen
           S == Search!ToSet(seen)
           score(c) == Search!Share(findKeyword, c) + Search!Share(findVector, c)
           R == {p \in S \X S : \/ score(p[1]) > score(p[2])
                                \/ score(p[1]) = score(p[2]) /\ Search!Ahead(seen, p[1], p[2])}
           right(list) == \A c, d \in S :
               Search!Ahead(list, c, d) <=> \/ score(c) > score(d)
                                            \/ score(c) = score(d) /\ Search!Ahead(seen, c, d)
<1>1. /\ IsFiniteSet(FindChunk)
      /\ findKeyword \in Seq(FindChunk) /\ Search!IsInjective(findKeyword)
      /\ findVector \in Seq(FindChunk) /\ Search!IsInjective(findVector)
  BY FindRankedIs, FindFinite DEF Search!RetrievalAssumption
<1>2. /\ unseen \in Seq(FindChunk) /\ Search!IsInjective(unseen)
      /\ Search!ToSet(unseen) = Search!ToSet(findVector) \cap (FindChunk \ Search!ToSet(findKeyword))
  BY <1>1, FindOnlyIs
<1>3. Search!ToSet(findKeyword) \subseteq FindChunk
      /\ Search!ToSet(findVector) \subseteq FindChunk
  BY <1>1, FindOneByOne
<1> HIDE DEF unseen
<1>4. seen \in Seq(FindChunk) /\ Search!IsInjective(seen) /\ S = Search!ToSet(findKeyword)
        \cup Search!ToSet(findVector)
  <2>1. Search!ToSet(findKeyword) \cap Search!ToSet(unseen) = {}
    BY <1>2
  <2>2. Search!ToSet(findKeyword) \cup Search!ToSet(unseen) = Search!ToSet(findKeyword)
          \cup Search!ToSet(findVector)
    BY <1>2, <1>3
  <2> HIDE DEF seen
  <2>3. seen \in Seq(FindChunk) /\ Search!IsInjective(seen) /\ S = Search!ToSet(findKeyword)
          \cup Search!ToSet(unseen)
    BY <1>1, <1>2, <2>1, FindJoined DEF seen
  <2> QED BY <2>2, <2>3
<1>5. \A c \in S : score(c) \in Nat
  BY <1>1, FindShareIs
<1>6. \A c \in S : Search!Position(seen, c) \in Nat /\ seen[Search!Position(seen, c)] = c
  <2> HIDE DEF seen
  <2> QED BY <1>4, FindPositionOf
<1>7. IsFiniteSet(S)
  <2> HIDE DEF seen
  <2> QED BY <1>4, FindOneByOne
<1>8. \E list \in Search!SetToSeqs(S) : right(list)
  <2> HIDE DEF seen, score
  <2>1. \A c, d \in S : <<c, d>> \in R <=> \/ score(c) > score(d)
                                           \/ score(c) = score(d) /\ Search!Ahead(seen, c, d)
    OBVIOUS
  <2>2. \A c, d \in S : Search!Position(seen, c) = Search!Position(seen, d) => c = d
    BY <1>6
  <2> HIDE DEF S, R
  <2>3. \A c \in S : <<c, c>> \notin R
    BY <1>5, <1>6, <2>1 DEF Search!Ahead
  <2>4. \A c, d, e \in S : <<c, d>> \in R /\ <<d, e>> \in R => <<c, e>> \in R
    BY <1>5, <1>6, <2>1 DEF Search!Ahead
  <2>5. \A c, d \in S : c = d \/ <<c, d>> \in R \/ <<d, c>> \in R
    <3> TAKE c \in S, d \in S
    <3>1. /\ score(c) \in Nat /\ score(d) \in Nat
          /\ Search!Position(seen, c) \in Nat /\ Search!Position(seen, d) \in Nat
      BY <1>5, <1>6
    <3>2. \/ score(c) > score(d) \/ score(d) > score(c)
          \/ score(c) = score(d) /\ Search!Position(seen, c) = Search!Position(seen, d)
          \/ score(c) = score(d) /\ Search!Position(seen, c) < Search!Position(seen, d)
          \/ score(d) = score(c) /\ Search!Position(seen, d) < Search!Position(seen, c)
      BY <3>1
    <3> QED BY <2>1, <2>2, <3>2 DEF Search!Ahead
  <2>6. \E list \in Search!SetToSeqs(S) : \A c, d \in S : Search!Ahead(list, c,
      d) <=> <<c, d>> \in R
    BY <1>7, <2>3, <2>4, <2>5, FindArrange
  <2> QED BY <2>1, <2>6
<1>9. Search!Fused = CHOOSE list \in Search!SetToSeqs(S) : right(list)
  BY DEF Search!Fused, unseen
<1>10. Search!Fused \in Search!SetToSeqs(S) /\ right(Search!Fused)
  <2> HIDE DEF S, right
  <2> QED BY <1>8, <1>9
<1>11. Search!Fused \in Seq(S) /\ Search!IsInjective(Search!Fused)
       /\ Search!ToSet(Search!Fused) = S
  <2> HIDE DEF S
  <2> QED BY <1>7, <1>10, FindSeqsOf
<1>12. Search!Fused \in Search!Ranked(FindChunk)
  <2>1. S \subseteq FindChunk
    BY <1>3, <1>4
  <2> HIDE DEF S
  <2> QED BY <1>1, <1>11, <2>1, FindRankedIs, SeqMonotonic
<1>13. ASSUME findVector = <<>>, findKeyword # <<>>
       PROVE  Search!Fused # <<>> /\ Search!Fused[1] = findKeyword[1]
  <2> DEFINE best == findKeyword[1]
  <2>1. 1 \in 1 .. Len(findKeyword)
    BY <1>1, <1>13
  <2>2. best \in Search!ToSet(findKeyword) /\ Search!Position(findKeyword, best) = 1
    BY <1>1, <2>1, FindPositionOf
  <2>3. Search!ToSet(findVector) = {}
    BY <1>13 DEF Search!ToSet
  <2>4. S = Search!ToSet(findKeyword)
    BY <1>4, <2>3
  <2>5. unseen = <<>>
    <3>1. Search!ToSet(unseen) = {}
      BY <1>2, <2>3
    <3>2. Len(unseen) \in Nat /\ (Len(unseen) = 0 \/ 1 \in DOMAIN unseen)
      BY <1>2
    <3>3. 1 \notin DOMAIN unseen
      BY <3>1 DEF Search!ToSet
    <3> QED BY <1>2, <3>2, <3>3
  <2>6. seen = findKeyword
    BY <1>1, <2>5
  <2>7. ASSUME NEW c \in S
        PROVE  score(c) <= score(best)
    <3>1. Search!Share(findVector, c) = 0 /\ Search!Share(findVector, best) = 0
      BY <2>3 DEF Search!Share
    <3>2. Search!Share(findKeyword, c) <= 16393 /\ Search!Share(findKeyword, c) \in Nat
      BY <1>1, FindShareIs
    <3>3. Search!Share(findKeyword, best) = 1000000 \div (60 + 1)
      BY <2>2 DEF Search!Share
    <3>4. 1000000 \div (60 + 1) = 16393
      OBVIOUS
    <3>5. Search!Share(findKeyword, best) = 16393
      BY <3>3, <3>4
    <3> QED BY <3>1, <3>2, <3>5
  <2>8. ASSUME NEW c \in S
        PROVE  ~Search!Ahead(Search!Fused, c, best)
    <3>1. ~Search!Ahead(findKeyword, c, best)
      <4>1. Search!Position(findKeyword, c) \in 1 .. Len(findKeyword)
        BY <1>1, <2>4, FindPositionOf
      <4>2. ~(Search!Position(findKeyword, c) < 1)
        BY <4>1
      <4> QED BY <2>2, <4>2 DEF Search!Ahead
    <3>2. ~(score(c) > score(best))
      <4>1. best \in S
        BY <2>2, <2>4
      <4>2. score(c) \in Nat /\ score(best) \in Nat /\ score(c) <= score(best)
        BY <1>5, <2>7, <4>1
      <4> HIDE DEF score, best
      <4> QED BY <4>2
    <3>3. best \in S
      BY <2>2, <2>4
    <3> HIDE DEF S, score, best, seen
    <3> QED BY <1>10, <2>6, <3>1, <3>2, <3>3
  <2>9. best \in Search!ToSet(Search!Fused)
    BY <1>11, <2>2, <2>4
  <2> HIDE DEF best, S
  <2>10. Search!Fused # <<>> /\ Search!Fused[1] = best
    BY <1>11, <2>8, <2>9, FindFirstIs
  <2> QED BY <2>10 DEF best
<1> QED BY <1>4, <1>11, <1>12, <1>13

\* The rewritings of a question find chunks, each once.
LEMMA FindMergeRewritesIs ==
    ASSUME Search!RetrievalAssumption, NEW n \in Nat,
           NEW lists \in [1 .. n -> Search!Ranked(FindChunk)],
           NEW list \in Search!MergeRewrites(lists)
    PROVE  list \in Search!Ranked(FindChunk)
<1> DEFINE found == UNION {Search!ToSet(lists[i]) : i \in DOMAIN lists}
<1>1. IsFiniteSet(FindChunk)
  BY FindFinite DEF Search!RetrievalAssumption
<1>2. \A i \in DOMAIN lists : Search!ToSet(lists[i]) \subseteq FindChunk
  BY <1>1, FindRankedIs, FindOneByOne
<1>3. found \in SUBSET FindChunk
  BY <1>2
<1>4. list \in Search!SetToSeqs(found)
  BY DEF Search!MergeRewrites
<1> HIDE DEF found
<1> QED BY <1>3, <1>4 DEF Search!Ranked, Search!SetToAllKPermutations

\* The selection has hits, each once; all that have an embedding, when that many are
\* asked for.
LEMMA FindMmrSelectIs ==
    ASSUME Search!RetrievalAssumption, NEW hits \in Search!Ranked(FindChunk),
           NEW list \in Search!MmrSelect(hits)
    PROVE  /\ list \in Search!Ranked(FindChunk)
           /\ findEmbedding = "none" => list = hits
           /\ findEmbedding # "none" /\ Search!ToSet(hits) \cap FindEmbedded # {}
                 /\ Cardinality(Search!ToSet(hits) \cap FindEmbedded) <= Search!Fetch
              => Search!ToSet(list) = Search!ToSet(hits) \cap FindEmbedded
<1> DEFINE candidates == Search!ToSet(hits) \cap FindEmbedded
           many == IF Cardinality(candidates) < Search!Fetch THEN Cardinality(candidates)
             ELSE Search!Fetch
<1>1. IsFiniteSet(FindChunk) /\ hits \in Seq(FindChunk) /\ Search!IsInjective(hits)
  BY FindRankedIs, FindFinite DEF Search!RetrievalAssumption
<1>2. candidates \subseteq FindChunk /\ IsFiniteSet(candidates)
  BY <1>1, FindOneByOne, FS_Subset
<1>3. CASE findEmbedding = "none" \/ candidates = {}
  <2>1. list = hits
    BY <1>3, FindFinite DEF Search!MmrSelect
  <2> QED BY <1>3, <2>1
<1>4. CASE ~(findEmbedding = "none" \/ candidates = {})
  <2>1. list \in Search!Ranked(candidates) /\ Len(list) = many
    BY <1>4, FindFinite DEF Search!MmrSelect
  <2> HIDE DEF candidates, many
  <2>2. list \in Seq(candidates) /\ Search!IsInjective(list)
    BY <1>2, <2>1, FindRankedIs
  <2>3. list \in Search!Ranked(FindChunk)
    BY <1>1, <1>2, <2>2, FindRankedIs, SeqMonotonic
  <2>4. ASSUME Cardinality(candidates) <= Search!Fetch
        PROVE  Search!ToSet(list) = candidates
    <3>1. Cardinality(candidates) \in Nat /\ Search!Fetch \in Nat
      BY <1>2, FS_CardinalityType, FindFinite DEF Search!Fetch, Search!RetrievalAssumption
    <3>2. many = Cardinality(candidates)
      BY <2>4, <3>1 DEF many
    <3>3. Search!ToSet(list) \subseteq candidates /\ Cardinality(Search!ToSet(list))
            = Cardinality(candidates)
      BY <2>1, <2>2, <3>2, FindOneByOne
    <3> QED BY <1>2, <3>3, FS_Subset
  <2>5. list \in Search!Ranked(FindChunk) /\ (Cardinality(candidates) <= Search!Fetch
          => Search!ToSet(list) = candidates)
        /\ findEmbedding # "none"
    BY <1>4, <2>3, <2>4
  <2> QED BY <2>5 DEF candidates
<1> QED BY <1>3, <1>4

-----------------------------------------------------------------------------
(* The ranking of the results. *)

\* The passages of a list at some places.
FindPicked(list, places) == [i \in DOMAIN places |-> list[places[i]]]

\* An answer of the service or of a model names places of the candidates; those it does
\* not name follow.
LEMMA FindNamedFirstIs ==
    ASSUME NEW C, NEW candidates \in Seq(C), NEW names \in Seq(DOMAIN candidates)
    PROVE  \E h \in Seq(DOMAIN candidates) :
              /\ Search!NamedFirst(candidates, names) = FindPicked(candidates, h)
              /\ Search!IsInjective(names) => Search!IsInjective(h)
              /\ candidates # <<>> => h # <<>>
<1> DEFINE n == Len(candidates)
           D == DOMAIN candidates
           id == [i \in D |-> i]
           rest == Search!Only(id, D \ Search!ToSet(names))
           h == names \o rest
<1>1. n \in Nat /\ D = 1 .. n
  OBVIOUS
<1>2. id \in Seq(D) /\ Search!IsInjective(id) /\ Search!ToSet(id) = D
  <2>1. id \in Seq(D) /\ DOMAIN id = D
    BY <1>1
  <2>2. \A i \in D : id[i] = i
    OBVIOUS
  <2> HIDE DEF id, D
  <2>3. Search!ToSet(id) = D
    BY <2>1, <2>2 DEF Search!ToSet
  <2> QED BY <2>1, <2>2, <2>3 DEF Search!IsInjective
<1> HIDE DEF D, id
<1>3. rest \in Seq(D) /\ Search!IsInjective(rest) /\ Search!ToSet(rest)
        = D \ Search!ToSet(names)
  <2>1. D \cap (D \ Search!ToSet(names)) = D \ Search!ToSet(names)
    OBVIOUS
  <2> QED BY <1>2, <2>1, FindOnlyIs
<1> HIDE DEF rest
<1>4. names \in Seq(D) /\ candidates \in Seq(C)
  BY DEF D
<1>5. h \in Seq(D) /\ Len(h) = Len(names) + Len(rest) /\ DOMAIN h = 1 .. Len(names) + Len(rest)
  BY <1>3, <1>4
<1>6. Search!IsInjective(names) => Search!IsInjective(h)
  <2>1. Search!ToSet(names) \cap Search!ToSet(rest) = {}
    BY <1>3
  <2> QED BY <1>3, <1>4, <2>1, FindJoined
<1>7. Search!NamedFirst(candidates, names) = FindPicked(candidates, h)
  <2> DEFINE l == [i \in DOMAIN names |-> candidates[names[i]]]
             m == [i \in DOMAIN rest |-> candidates[rest[i]]]
  <2>1. Search!NamedFirst(candidates, names) = l \o m
    BY DEF Search!NamedFirst, rest, id, D
  <2>2. l \in Seq(C) /\ m \in Seq(C) /\ Len(l) = Len(names) /\ Len(m) = Len(rest)
    <3>1. \A i \in D : candidates[i] \in C
      BY DEF D
    <3> HIDE DEF D
    <3>2. /\ \A i \in 1 .. Len(names) : candidates[names[i]] \in C
          /\ \A i \in 1 .. Len(rest) : candidates[rest[i]] \in C
          /\ DOMAIN names = 1 .. Len(names) /\ DOMAIN rest = 1 .. Len(rest)
          /\ Len(names) \in Nat /\ Len(rest) \in Nat
      BY <1>3, <1>4, <3>1
    <3> QED BY <3>2
  <2>3. l \o m \in Seq(C) /\ DOMAIN (l \o m) = 1 .. Len(names) + Len(rest)
    <3> HIDE DEF l, m
    <3> QED BY <2>2
  <2>4. ASSUME NEW i \in 1 .. Len(names) + Len(rest)
        PROVE  (l \o m)[i] = candidates[h[i]]
    <3>0. Len(names) \in Nat /\ Len(rest) \in Nat
      BY <1>3, <1>4
    <3>1. CASE i <= Len(names)
      <4>1. i \in DOMAIN names
        BY <1>4, <3>0, <3>1
      <4>2. h[i] = names[i]
        BY <1>3, <1>4, <3>0, <3>1
      <4>3. l[i] = candidates[names[i]]
        BY <4>1
      <4>4. (l \o m)[i] = l[i]
        <5> HIDE DEF l, m
        <5> QED BY <2>2, <3>0, <3>1
      <4> QED BY <4>2, <4>3, <4>4
    <3>2. CASE ~(i <= Len(names))
      <4>1. i - Len(names) \in DOMAIN rest
        BY <1>3, <3>0, <3>2
      <4>2. h[i] = rest[i - Len(names)]
        BY <1>3, <1>4, <3>0, <3>2
      <4>3. m[i - Len(names)] = candidates[rest[i - Len(names)]]
        BY <4>1
      <4>4. (l \o m)[i] = m[i - Len(names)]
        <5> HIDE DEF l, m
        <5> QED BY <2>2, <3>0, <3>2
      <4> QED BY <4>2, <4>3, <4>4
    <3> QED BY <3>1, <3>2
  <2> HIDE DEF l, m, h
  <2>5. l \o m = [i \in DOMAIN (l \o m) |-> (l \o m)[i]]
    <3>1. l \o m \in [1 .. Len(l \o m) -> C]
      BY <2>3, LenProperties
    <3> DEFINE j == l \o m
    <3> HIDE DEF j
    <3>2. j \in [1 .. Len(j) -> C]
      BY <3>1 DEF j
    <3>3. j = [i \in DOMAIN j |-> j[i]]
      BY <3>2
    <3> QED BY <3>3 DEF j
  <2>6. FindPicked(candidates, h) = [i \in 1 .. Len(names) + Len(rest) |-> candidates[h[i]]]
    BY <1>5 DEF FindPicked
  <2> QED BY <2>1, <2>3, <2>4, <2>5, <2>6
<1>8. candidates # <<>> => h # <<>>
  <2> SUFFICES ASSUME candidates # <<>>, h = <<>>
               PROVE  FALSE
    OBVIOUS
  <2>1. 1 \in D
    BY <1>1
  <2>2. Len(names) = 0 /\ Len(rest) = 0
    BY <1>3, <1>4, <1>5
  <2>3. 1 \in Search!ToSet(names) \/ 1 \in Search!ToSet(rest)
    BY <1>3, <2>1
  <2>4. DOMAIN names = {} /\ DOMAIN rest = {}
    BY <1>3, <1>4, <2>2
  <2> QED BY <2>3, <2>4 DEF Search!ToSet
<1> HIDE DEF h
<1> QED BY <1>5, <1>6, <1>7, <1>8 DEF D

\* A list that is cut off.
LEMMA FindCutOff ==
    ASSUME NEW C, NEW list \in Seq(C), NEW k \in Nat \ {0}
    PROVE  LET cut == SubSeq(list, 1, IF Len(list) < k THEN Len(list) ELSE k)
           IN  /\ cut \in Seq(C) /\ Len(cut) <= Len(list)
               /\ \A i \in 1 .. Len(cut) : cut[i] = list[i]
               /\ list # <<>> => cut # <<>>
<1> DEFINE n == Len(list)
           many == IF n < k THEN n ELSE k
           cut == SubSeq(list, 1, many)
<1>1. n \in Nat /\ k \in Nat /\ k # 0 /\ (list # <<>> => n # 0)
  OBVIOUS
<1>2. many \in Nat /\ many <= n /\ (n # 0 => many # 0)
  <2> HIDE DEF n
  <2> QED BY <1>1
<1> HIDE DEF many
<1>3. \A i \in 1 .. many : i \in 1 .. n
  <2> HIDE DEF n
  <2> QED BY <1>1, <1>2
<1>4. cut \in Seq(C) /\ Len(cut) = many /\ \A i \in 1 .. many : cut[i] = list[i]
  <2>1. \A i \in 1 .. many : list[i] \in C
    BY <1>3
  <2> QED BY <1>2, <2>1, SubSeqProperties
<1>5. cut # <<>> \/ many = 0
  <2> HIDE DEF cut
  <2> QED BY <1>4
<1>6. /\ cut \in Seq(C) /\ Len(cut) <= Len(list)
      /\ \A i \in 1 .. Len(cut) : cut[i] = list[i]
      /\ list # <<>> => cut # <<>>
  <2> HIDE DEF cut
  <2> QED BY <1>1, <1>2, <1>4, <1>5 DEF n
<1> QED BY <1>6 DEF n, many, cut

\* What a model or the service makes of the candidates are candidates, each once unless
\* the service names one twice.
LEMMA FindReorderedIs ==
    ASSUME NEW C, NEW candidates \in Seq(C), NEW ordered \in Search!Reordered(candidates)
    PROVE  \E h \in Seq(DOMAIN candidates) :
              /\ ordered = FindPicked(candidates, h) /\ Search!IsInjective(h)
              /\ candidates # <<>> => h # <<>>
<1> DEFINE n == Len(candidates)
<1>1. n \in Nat /\ DOMAIN candidates = 1 .. n /\ (candidates # <<>> => n # 0)
  OBVIOUS
<1>2. PICK order \in Search!SetToSeqs(DOMAIN candidates) :
          ordered = [i \in DOMAIN candidates |-> candidates[order[i]]]
  BY DEF Search!Reordered
<1>3. IsFiniteSet(1 .. n) /\ Cardinality(1 .. n) = n
  <2>1. \A m \in Nat : IsFiniteSet(1 .. m) /\ Cardinality(1 .. m) = m
    BY FS_Interval
  <2> QED BY <1>1, <2>1
<1>4. /\ order \in Seq(DOMAIN candidates) /\ Search!IsInjective(order)
      /\ Len(order) = n /\ DOMAIN order = DOMAIN candidates
  <2> HIDE DEF n
  <2>1. order \in Seq(1 .. n) /\ Search!IsInjective(order) /\ Len(order) = Cardinality(1 .. n)
        /\ DOMAIN order = 1 .. Cardinality(1 .. n)
    BY <1>1, <1>2, <1>3, FindSeqsOf
  <2> QED BY <1>1, <1>3, <2>1
<1>5. ordered = FindPicked(candidates, order)
  BY <1>2, <1>4 DEF FindPicked
<1>6. candidates # <<>> => order # <<>>
  <2> HIDE DEF n
  <2> QED BY <1>1, <1>4
<1> QED BY <1>4, <1>5, <1>6

LEMMA FindOrderedIs ==
    ASSUME NEW C, NEW candidates \in Seq(C),
           NEW ordered \in Search!Reordered(candidates) \cup Search!Numbered(candidates)
             \cup {candidates}
    PROVE  \E h \in Seq(DOMAIN candidates) :
              /\ ordered = FindPicked(candidates, h) /\ Search!IsInjective(h)
              /\ candidates # <<>> => h # <<>>
<1>1. CASE ordered \in Search!Reordered(candidates)
  BY <1>1, FindReorderedIs
<1>2. CASE ordered \in Search!Numbered(candidates)
  <2>1. PICK names \in Search!Named(candidates) :
            Search!IsInjective(names) /\ ordered = Search!NamedFirst(candidates, names)
    BY <1>2 DEF Search!Numbered
  <2>2. names \in Seq(DOMAIN candidates)
    BY <2>1 DEF Search!Named, Search!BoundedSeq, Search!SeqOf
  <2> QED BY <2>1, <2>2, FindNamedFirstIs
<1>3. CASE ordered = candidates
  <2> DEFINE h == [i \in DOMAIN candidates |-> i]
  <2>1. h \in Seq(DOMAIN candidates) /\ DOMAIN h = DOMAIN candidates /\ Len(h) = Len(candidates)
    OBVIOUS
  <2>2. Search!IsInjective(h)
    BY DEF Search!IsInjective
  <2>3. candidates = FindPicked(candidates, h)
    BY DEF FindPicked
  <2>4. candidates # <<>> => h # <<>>
    BY <2>1
  <2> HIDE DEF h
  <2> QED BY <1>3, <2>1, <2>2, <2>3, <2>4
<1> QED BY <1>1, <1>2, <1>3

\* The others follow the candidates, and the caller gets the first: passages of the
\* list, each once if the candidates came back once.
FindReturned(list, many, h) ==
    LET all == FindPicked(SubSeq(list, 1, many), h) \o SubSeq(list, many + 1, Len(list))
    IN  SubSeq(all, 1, IF Len(all) < FindTopK THEN Len(all) ELSE FindTopK)

LEMMA FindRankedFrom ==
    ASSUME Search!RetrievalAssumption, NEW C, NEW list \in Seq(C),
           NEW many \in Nat, many <= Len(list), list # <<>> => many # 0,
           NEW h \in Seq(DOMAIN SubSeq(list, 1, many)),
           SubSeq(list, 1, many) # <<>> => h # <<>>
    PROVE  /\ FindReturned(list, many, h) \in Seq(C)
           /\ list # <<>> => FindReturned(list, many, h) # <<>>
           /\ \E g \in [DOMAIN FindReturned(list, many, h) -> DOMAIN list] :
                 /\ \A i \in DOMAIN FindReturned(list, many, h) :
                       FindReturned(list, many, h)[i] = list[g[i]]
                 /\ Search!IsInjective(h) => Search!IsInjective(g)
<1> DEFINE n == Len(list)
           candidates == SubSeq(list, 1, many)
           others == SubSeq(list, many + 1, n)
           first == FindPicked(candidates, h)
           all == first \o others
           result == SubSeq(all, 1, IF Len(all) < FindTopK THEN Len(all) ELSE FindTopK)
           k == Len(h)
           at(i) == IF i <= k THEN h[i] ELSE many + (i - k)
           g == [i \in DOMAIN result |-> at(i)]
<1>1. n \in Nat /\ FindTopK \in Nat \ {0} /\ DOMAIN list = 1 .. n /\ (list # <<>> => n # 0)
      /\ \A i \in 1 .. n : list[i] \in C
  BY FindFinite DEF Search!RetrievalAssumption
<1>2. many \in Nat /\ many <= n /\ (list # <<>> => many # 0)
  OBVIOUS
<1> HIDE DEF n
<1>0. /\ \A i \in 1 .. many : i \in 1 .. n
      /\ \A i \in 1 .. n - many : many + i \in 1 .. n /\ (many + 1) + i - 1 = many + i
      /\ n - (many + 1) + 1 = n - many /\ n - many \in Nat
      /\ \A i \in many + 1 .. n : i \in 1 .. n
      /\ n - many = IF many + 1 <= n THEN n - many ELSE 0
  <2>1. \A i \in 1 .. many : i \in 1 .. n
    BY <1>1, <1>2
  <2>2. \A i \in 1 .. n - many : many + i \in 1 .. n /\ (many + 1) + i - 1 = many + i
    BY <1>1, <1>2
  <2>3. n - (many + 1) + 1 = n - many /\ n - many \in Nat
    BY <1>1, <1>2
  <2>4. \A i \in many + 1 .. n : i \in 1 .. n
    BY <1>1, <1>2
  <2>5. n - many = IF many + 1 <= n THEN n - many ELSE 0
    BY <1>1, <1>2
  <2> QED BY <2>1, <2>2, <2>3, <2>4, <2>5
<1>3. candidates \in Seq(C) /\ Len(candidates) = many /\ DOMAIN candidates = 1 .. many
      /\ \A i \in 1 .. many : candidates[i] = list[i]
  <2>1. \A i \in 1 .. many : list[i] \in C
    BY <1>0, <1>1
  <2>2. candidates \in Seq(C) /\ Len(candidates) = many
        /\ \A i \in 1 .. many : candidates[i] = list[i]
    BY <1>2, <2>1, SubSeqProperties
  <2> HIDE DEF candidates
  <2> QED BY <2>2
<1>4. others \in Seq(C) /\ Len(others) = n - many
      /\ \A i \in 1 .. n - many : others[i] = list[many + i]
  <2>1. \A i \in many + 1 .. n : list[i] \in C
    BY <1>0, <1>1
  <2>0. many + 1 \in Int /\ n \in Int
    BY <1>1, <1>2
  <2>2. /\ others \in Seq(C)
        /\ Len(others) = IF many + 1 <= n THEN n - (many + 1) + 1 ELSE 0
        /\ \A i \in 1 .. n - (many + 1) + 1 : others[i] = list[(many + 1) + i - 1]
    BY <2>0, <2>1, SubSeqProperties
  <2> HIDE DEF others
  <2> QED BY <1>0, <2>2
<1>5. h \in Seq(1 .. many) /\ k \in Nat /\ DOMAIN h = 1 .. k
      /\ \A i \in 1 .. k : h[i] \in 1 .. many
  <2>1. h \in Seq(1 .. many)
    BY <1>3
  <2>2. \A S, l : l \in Seq(S) => /\ Len(l) \in Nat /\ DOMAIN l = 1 .. Len(l)
                                   /\ \A i \in 1 .. Len(l) : l[i] \in S
    OBVIOUS
  <2>3. Len(h) \in Nat /\ DOMAIN h = 1 .. Len(h) /\ \A i \in 1 .. Len(h) : h[i] \in 1 .. many
    BY <2>1, <2>2
  <2> QED BY <2>1, <2>3
<1> HIDE DEF candidates, others, k
<1>6. first \in Seq(C) /\ Len(first) = k /\ \A i \in 1 .. k : first[i] = list[h[i]]
  <2>1. first = [i \in 1 .. k |-> candidates[h[i]]]
    BY <1>5 DEF FindPicked
  <2>2. \A i \in 1 .. k : candidates[h[i]] \in C /\ candidates[h[i]] = list[h[i]]
    BY <1>3, <1>5
  <2> QED BY <1>5, <2>1, <2>2
<1> HIDE DEF first
<1>7. all \in Seq(C) /\ Len(all) = k + (n - many) /\ n - many \in Nat
      /\ \A i \in 1 .. k + (n - many) :
            all[i] = IF i <= k THEN first[i] ELSE others[i - k]
  <2>1. all \in Seq(C) /\ Len(all) = Len(first) + Len(others)
        /\ \A i \in 1 .. Len(first) + Len(others) :
              all[i] = IF i <= Len(first) THEN first[i] ELSE others[i - Len(first)]
    BY <1>4, <1>6, ConcatProperties
  <2> HIDE DEF all
  <2> QED BY <1>0, <1>4, <1>6, <2>1
<1>8. ASSUME NEW i \in 1 .. k + (n - many)
      PROVE  at(i) \in 1 .. n /\ all[i] = list[at(i)]
  <2>1. CASE i <= k
    <3>1. i \in 1 .. k /\ at(i) = h[i]
      BY <1>5, <2>1
    <3>2. h[i] \in 1 .. many
      BY <1>5, <3>1
    <3> HIDE DEF at, all
    <3> QED BY <1>1, <1>2, <1>6, <1>7, <2>1, <3>1, <3>2
  <2>2. CASE ~(i <= k)
    <3>1. i - k \in 1 .. n - many /\ at(i) = many + (i - k)
      BY <1>5, <1>7, <2>2
    <3>2. all[i] = list[many + (i - k)]
      BY <1>4, <1>7, <2>2, <3>1
    <3>3. many + (i - k) \in 1 .. n
      BY <1>1, <1>2, <1>5, <3>1
    <3> HIDE DEF at, all
    <3> QED BY <3>1, <3>2, <3>3
  <2> QED BY <2>1, <2>2
<1>9. list # <<>> => all # <<>>
  <2> SUFFICES ASSUME list # <<>>
               PROVE  all # <<>>
    OBVIOUS
  <2>1. candidates # <<>>
    BY <1>2, <1>3
  <2>2. k # 0
    BY <1>5, <2>1 DEF k, candidates
  <2>3. Len(all) # 0
    BY <1>5, <1>7, <2>2
  <2> HIDE DEF all
  <2> QED BY <1>7, <2>3
<1> HIDE DEF all
<1>10. /\ result \in Seq(C) /\ Len(result) <= Len(all)
       /\ \A i \in 1 .. Len(result) : result[i] = all[i]
       /\ all # <<>> => result # <<>>
  BY <1>1, <1>7, FindCutOff
<1> HIDE DEF result
<1>11. DOMAIN result = 1 .. Len(result) /\ Len(result) \in Nat
  BY <1>10
<1>12. \A i \in DOMAIN result : i \in 1 .. k + (n - many)
  BY <1>5, <1>7, <1>10, <1>11
<1>13. g \in [DOMAIN result -> DOMAIN list] /\ \A i \in DOMAIN result : result[i] = list[g[i]]
  <2>1. \A i \in DOMAIN result : at(i) \in 1 .. n /\ result[i] = list[at(i)]
    <3> HIDE DEF at
    <3> QED BY <1>8, <1>10, <1>11, <1>12
  <2> HIDE DEF at
  <2> QED BY <1>1, <2>1
<1>14. Search!IsInjective(h) => Search!IsInjective(g)
  <2> SUFFICES ASSUME Search!IsInjective(h), NEW a \in DOMAIN result, NEW b \in DOMAIN result,
                      at(a) = at(b)
               PROVE  a = b
    BY DEF Search!IsInjective
  <2>0. a \in Nat \ {0} /\ b \in Nat \ {0}
    BY <1>11
  <2>1. CASE a <= k /\ b <= k
    <3>1. a \in 1 .. k /\ b \in 1 .. k /\ h[a] = h[b]
      BY <1>5, <2>0, <2>1
    <3> QED BY <1>5, <3>1 DEF Search!IsInjective
  <2>2. CASE ~(a <= k) /\ ~(b <= k)
    BY <1>2, <1>5, <2>0, <2>2
  <2>3. ASSUME NEW c \in DOMAIN result, NEW d \in DOMAIN result, c <= k, ~(d <= k),
               at(c) = at(d)
        PROVE  FALSE
    <3>1. c \in 1 .. k /\ at(c) = h[c]
      BY <1>5, <1>11, <2>3
    <3>2. h[c] <= many /\ h[c] \in Nat
      BY <1>2, <1>5, <3>1
    <3>3. d \in Nat /\ d > k /\ at(d) = many + (d - k)
      BY <1>5, <1>11, <2>3
    <3> HIDE DEF at
    <3>4. h[c] = many + (d - k)
      BY <2>3, <3>1, <3>3
    <3>5. d - k \in Nat /\ d - k # 0
      BY <1>5, <3>3
    <3> QED BY <3>2, <3>4, <3>5
  <2> HIDE DEF at
  <2> QED BY <2>1, <2>2, <2>3
<1> HIDE DEF g
<1>15. FindReturned(list, many, h) = result
  BY DEF FindReturned, result, all, first, candidates, others, n
<1> QED BY <1>9, <1>10, <1>13, <1>14, <1>15

-----------------------------------------------------------------------------
(* The inductive invariant. *)

LEMMA FindInitInv == Search!RetrievalAssumption /\ Search!Init => Search!IInv
<1> SUFFICES ASSUME Search!RetrievalAssumption, Search!Init
             PROVE  Search!IInv
  OBVIOUS
<1>1. <<>> \in Search!Ranked(FindChunk)
  <2>1. <<>> \in Seq(FindChunk) /\ Search!IsInjective(<<>>)
    BY DEF Search!IsInjective
  <2> QED BY <2>1, FindRankedIs, FindFinite DEF Search!RetrievalAssumption
<1>2. Search!TypeOK
  <2>1. 1 \in 1 .. FindSubqueryLimit /\ 0 \in 0 .. FindRetries /\ 1 \in 1 .. 1
    BY FindFinite DEF Search!RetrievalAssumption
  <2>2. <<>> \in Seq([sub : 1 .. FindSubqueryLimit, chunk : FindChunk])
    OBVIOUS
  <2> QED BY <1>1, <2>1, <2>2 DEF Search!Init, Search!TypeOK
<1>3. Search!SearchInv
  BY FindFinite DEF Search!Init, Search!SearchInv, Search!TwoOfEach, Search!RetrievalAssumption
<1>4. Search!MergedInv
  BY DEF Search!Init, Search!MergedInv, Search!IsInjective
<1>5. Search!BestHitIsKept /\ Search!ResultsHoldOnce
  BY FindFinite DEF Search!Init, Search!BestHitIsKept, Search!ResultsHoldOnce
<1> QED BY <1>2, <1>3, <1>4, <1>5 DEF Search!IInv

LEMMA FindEmptyRanked ==
    ASSUME Search!RetrievalAssumption
    PROVE  <<>> \in Search!Ranked(FindChunk) /\ <<>> # None /\ Search!TwoOfEach(<<>>)
<1>1. <<>> \in Seq(FindChunk) /\ Search!IsInjective(<<>>)
  BY DEF Search!IsInjective
<1>2. <<>> \in Search!Ranked(FindChunk) /\ <<>> # None
  BY <1>1, FindRankedIs, FindFinite DEF Search!RetrievalAssumption
<1>3. Search!TwoOfEach(<<>>)
  BY DEF Search!TwoOfEach
<1> QED BY <1>2, <1>3

\* Nothing but Merge and Rerank changes the results of the sub-questions.
LEMMA FindMergedStays ==
    ASSUME Search!IInv, UNCHANGED <<findSub, findMerged>>,
           findPhase \notin {"rerank", "done"}, findPhase' \notin {"rerank", "done"}
    PROVE  Search!MergedInv' /\ Search!ResultsHoldOnce'
<1>1. Search!MergedInv'
  BY DEF Search!IInv, Search!MergedInv
<1>2. Search!ResultsHoldOnce'
  BY FindFinite DEF Search!ResultsHoldOnce
<1> QED BY <1>1, <1>2

LEMMA FindDecomposeInv ==
    ASSUME Search!RetrievalAssumption, Search!IInv, Search!DecomposeQuery
    PROVE  Search!IInv'
<1>1. Search!TypeOK'
  <2>1. findSubqueries' \in 1 .. FindSubqueryLimit /\ findSub' \in 1 .. findSubqueries'
    <3>1. 1 \in 1 .. FindSubqueryLimit
      BY FindFinite DEF Search!RetrievalAssumption
    <3>2. findSubqueries' \in 1 .. FindSubqueryLimit
      BY <3>1 DEF Search!DecomposeQuery
    <3>3. findSub' = 1
      BY DEF Search!DecomposeQuery, Search!IInv, Search!SearchInv
    <3>4. findSubqueries' \in Nat /\ findSubqueries' >= 1
      BY <3>2, FindFinite DEF Search!RetrievalAssumption
    <3> QED BY <3>2, <3>3, <3>4
  <2> QED BY <2>1 DEF Search!DecomposeQuery, Search!IInv, Search!TypeOK, Search!search
<1>2. Search!SearchInv'
  BY DEF Search!DecomposeQuery, Search!IInv, Search!SearchInv, Search!search, Search!TwoOfEach
<1>3. Search!MergedInv' /\ Search!ResultsHoldOnce'
  BY FindMergedStays DEF Search!DecomposeQuery
<1>4. Search!BestHitIsKept'
  BY FindFinite DEF Search!DecomposeQuery, Search!BestHitIsKept
<1> QED BY <1>1, <1>2, <1>3, <1>4 DEF Search!IInv

LEMMA FindKeywordInv ==
    ASSUME Search!RetrievalAssumption, Search!IInv, Search!KeywordHits
    PROVE  Search!IInv'
<1>1. findKeyword' \in Search!Ranked(FindChunk)
  <2>1. PICK n \in Search!Rewrites : \E lists \in [1 .. n -> Search!Ranked(FindChunk)] :
            findKeyword' \in Search!MergeRewrites(lists)
    BY DEF Search!KeywordHits
  <2>2. n \in Nat
    BY FindFinite DEF Search!Rewrites, Search!RetrievalAssumption
  <2> QED BY <2>1, <2>2, FindMergeRewritesIs
<1>2. \/ /\ findPhase' = "kept"
         /\ \E relevant \in Search!Relevant(findKeyword', FALSE) :
               findKept' = Search!PostProcess(findKeyword', FALSE, relevant)
      \/ findPhase' = "search" /\ findKept' = findKept
  BY DEF Search!KeywordHits
<1>3. findKept' \in Search!Ranked(FindChunk) /\ Search!TwoOfEach(findKept')
  <2>1. findKept \in Search!Ranked(FindChunk) /\ Search!TwoOfEach(findKept)
    BY DEF Search!IInv, Search!TypeOK, Search!SearchInv
  <2> QED BY <1>1, <1>2, <2>1, FindPostProcessKeeps
<1>4. Search!TypeOK'
  BY <1>1, <1>2, <1>3 DEF Search!KeywordHits, Search!IInv, Search!TypeOK
<1>5. Search!SearchInv'
  BY <1>2, <1>3 DEF Search!KeywordHits, Search!IInv, Search!SearchInv, Search!TwoOfEach
<1>6. Search!MergedInv' /\ Search!ResultsHoldOnce'
  BY <1>2, FindMergedStays DEF Search!KeywordHits
<1>7. Search!BestHitIsKept'
  <2> SUFFICES ASSUME findPhase' = "kept", findKeyword' # <<>>,
      findCoverage[findKeyword'[1]] = 6
               PROVE  findKeyword'[1] \in Search!ToSet(findKept')
    BY FindFinite DEF Search!BestHitIsKept, Search!KeywordHits
  <2>1. PICK relevant \in Search!Relevant(findKeyword', FALSE) :
            findKept' = Search!PostProcess(findKeyword', FALSE, relevant)
    BY <1>2
  <2> QED BY <1>1, <2>1, FindFirstIsKept
<1> QED BY <1>4, <1>5, <1>6, <1>7 DEF Search!IInv

LEMMA FindEmbedInv ==
    ASSUME Search!RetrievalAssumption, Search!IInv, Search!EmbedQuery
    PROVE  Search!IInv'
<1>1. findEmbedding' \in {"none", "question", "mixed"} /\ findEmbedding' # None
  BY FindFinite DEF Search!EmbedQuery, Search!HydeVectors, Search!RetrievalAssumption
<1>2. findVector' = IF findEmbedding' = "none" THEN <<>> ELSE None
  BY DEF Search!EmbedQuery
<1>3. Search!TypeOK'
  BY <1>1, <1>2, FindEmptyRanked DEF Search!EmbedQuery, Search!IInv, Search!TypeOK
<1>4. Search!SearchInv'
  BY <1>1, <1>2 DEF Search!EmbedQuery, Search!IInv, Search!SearchInv, Search!TwoOfEach
<1>5. Search!MergedInv' /\ Search!ResultsHoldOnce'
  BY FindMergedStays DEF Search!EmbedQuery
<1>6. Search!BestHitIsKept'
  BY FindFinite DEF Search!EmbedQuery, Search!BestHitIsKept
<1> QED BY <1>3, <1>4, <1>5, <1>6 DEF Search!IInv

LEMMA FindVectorInv ==
    ASSUME Search!RetrievalAssumption, Search!IInv, Search!VectorHits
    PROVE  Search!IInv'
<1>1. findVector' \in Search!Ranked(FindChunk)
  <2>1. findVector' \in Seq(FindEmbedded) /\ Search!IsInjective(findVector')
    <3>1. findVector' \in Search!Ranked(FindEmbedded) /\ IsFiniteSet(FindEmbedded)
      BY FS_Subset, FindFinite DEF Search!VectorHits, Search!RetrievalAssumption
    <3> QED BY <3>1, FindRankedIs
  <2>2. findVector' \in Seq(FindChunk)
    BY <2>1, SeqMonotonic, FindFinite DEF Search!RetrievalAssumption
  <2> QED BY <2>1, <2>2, FindRankedIs, FindFinite DEF Search!RetrievalAssumption
<1>2. findEmbedding # "none"
  BY FindEmptyRanked DEF Search!VectorHits, Search!IInv, Search!SearchInv
<1>3. Search!TypeOK'
  BY <1>1 DEF Search!VectorHits, Search!IInv, Search!TypeOK
<1>4. Search!SearchInv'
  BY <1>2 DEF Search!VectorHits, Search!IInv, Search!SearchInv, Search!TwoOfEach
<1>5. Search!MergedInv' /\ Search!ResultsHoldOnce'
  BY FindMergedStays DEF Search!VectorHits
<1>6. Search!BestHitIsKept'
  BY FindFinite DEF Search!VectorHits, Search!BestHitIsKept
<1> QED BY <1>3, <1>4, <1>5, <1>6 DEF Search!IInv

LEMMA FindGatheredInv ==
    ASSUME Search!RetrievalAssumption, Search!IInv, Search!Gathered
    PROVE  Search!IInv'
<1>1. findKeyword \in Search!Ranked(FindChunk) /\ findVector \in Search!Ranked(FindChunk)
  BY DEF Search!Gathered, Search!IInv, Search!TypeOK
<1>2. CASE Search!Fused = <<>>
  <2>1. findKeyword = <<>>
    <3>1. Search!ToSet(findKeyword) \subseteq Search!ToSet(Search!Fused)
      BY <1>1, FindFusedIs
    <3>2. Search!ToSet(findKeyword) = {}
      BY <1>2, <3>1 DEF Search!ToSet
    <3>3. findKeyword \in Seq(FindChunk)
      BY <1>1, FindRankedIs, FindFinite DEF Search!RetrievalAssumption
    <3>4. 1 \notin DOMAIN findKeyword
      BY <3>2 DEF Search!ToSet
    <3> QED BY <3>3, <3>4
  <2>2. findPhase' = "fallback" /\ findKept' = findKept
    BY <1>2 DEF Search!Gathered
  <2>3. Search!TypeOK'
    BY <2>2 DEF Search!Gathered, Search!IInv, Search!TypeOK, Search!search
  <2>4. Search!SearchInv'
    BY <2>1, <2>2 DEF Search!Gathered, Search!IInv, Search!SearchInv, Search!TwoOfEach,
         Search!search
  <2>5. Search!MergedInv' /\ Search!ResultsHoldOnce'
    BY <2>2, FindMergedStays DEF Search!Gathered
  <2>6. Search!BestHitIsKept'
    BY <2>2, FindFinite DEF Search!BestHitIsKept
  <2> QED BY <2>3, <2>4, <2>5, <2>6 DEF Search!IInv
<1>3. CASE Search!Fused # <<>>
  <2>1. PICK hits \in Search!MmrSelect(Search!Fused) :
            \E relevant \in Search!Relevant(hits, TRUE) :
                findKept' = Search!PostProcess(hits, TRUE, relevant)
    BY <1>3 DEF Search!Gathered
  <2>2. PICK relevant \in Search!Relevant(hits, TRUE) :
            findKept' = Search!PostProcess(hits, TRUE, relevant)
    BY <2>1
  <2>3. findPhase' = "kept"
    BY <1>3 DEF Search!Gathered
  <2>4. Search!Fused \in Search!Ranked(FindChunk) /\ Search!ToSet(Search!Fused)
          = Search!ToSet(findKeyword) \cup Search!ToSet(findVector)
    BY <1>1, FindFusedIs
  <2>5. hits \in Search!Ranked(FindChunk)
    BY <2>2, <2>4, FindMmrSelectIs
  <2>6. findKept' \in Search!Ranked(FindChunk) /\ Search!TwoOfEach(findKept')
    BY <2>2, <2>5, FindPostProcessKeeps
  <2>7. Search!TypeOK'
    BY <2>3, <2>6 DEF Search!Gathered, Search!IInv, Search!TypeOK, Search!search
  <2>8. Search!SearchInv'
    BY <2>3, <2>6 DEF Search!Gathered, Search!IInv, Search!SearchInv, Search!TwoOfEach,
         Search!search
  <2>9. Search!MergedInv' /\ Search!ResultsHoldOnce'
    BY <2>3, FindMergedStays DEF Search!Gathered
  <2>10. Search!BestHitIsKept'
    <3> DEFINE best == findKeyword[1]
               rivals == (Search!ToSet(findKeyword)
                 \cup Search!ToSet(findVector)) \cap FindEmbedded
    <3>1. /\ UNCHANGED <<findKeyword, findVector, findEmbedding, findCoverage>>
          /\ findVector # None /\ findEmbedding # None
      BY DEF Search!Gathered, Search!search, Search!IInv, Search!SearchInv
    <3> SUFFICES ASSUME findKeyword # <<>>, findCoverage[best] = 6,
                        findEmbedding \in {"question", "mixed"} =>
                            best \in FindEmbedded /\ Cardinality(rivals) <= 2 /\ 2
                              <= Search!Fetch
                 PROVE  best \in Search!ToSet(findKept')
      BY <3>1, FindFinite DEF Search!BestHitIsKept
    <3>2. findEmbedding \in {"none", "question", "mixed"}
      BY <3>1 DEF Search!IInv, Search!TypeOK
    <3>3. CASE findEmbedding = "none"
      <4>1. findVector = <<>>
        BY <3>3 DEF Search!IInv, Search!SearchInv
      <4>2. hits = Search!Fused
        BY <2>2, <2>4, <3>3, FindMmrSelectIs
      <4>3. Search!Fused[1] = best
        BY <1>1, <4>1, FindFusedIs
      <4> HIDE DEF best
      <4>4. findCoverage[hits[1]] = 6 /\ hits # <<>>
        BY <1>3, <4>2, <4>3
      <4>5. hits[1] \in Search!ToSet(Search!PostProcess(hits, TRUE, relevant))
        BY <2>5, <4>4, FindFirstIsKept
      <4> QED BY <2>2, <4>2, <4>3, <4>5
    <3>4. CASE findEmbedding \in {"question", "mixed"}
      <4>1. best \in FindEmbedded /\ Cardinality(rivals) <= 2 /\ 2 <= Search!Fetch
            /\ findEmbedding # "none"
        BY <3>4
      <4>2. best \in Search!ToSet(findKeyword)
        <5>1. findKeyword \in Seq(FindChunk)
          BY <1>1, FindRankedIs, FindFinite DEF Search!RetrievalAssumption
        <5>2. 1 \in DOMAIN findKeyword
          BY <5>1
        <5> QED BY <5>2 DEF Search!ToSet
      <4>3. best \in rivals /\ Search!ToSet(Search!Fused) \cap FindEmbedded = rivals
        BY <2>4, <4>1, <4>2
      <4> HIDE DEF best, rivals
      <4>4. Cardinality(rivals) <= Search!Fetch
        <5>1. rivals \subseteq FindChunk
          BY FindFinite DEF rivals, Search!RetrievalAssumption
        <5>2. Cardinality(rivals) \in Nat /\ Search!Fetch \in Nat
          BY <5>1, FS_Subset, FS_CardinalityType, FindFinite DEF Search!Fetch,
               Search!RetrievalAssumption
        <5> QED BY <4>1, <5>2
      <4>5. Search!ToSet(hits) = rivals
        BY <2>2, <2>4, <4>1, <4>3, <4>4, FindMmrSelectIs
      <4> QED BY <2>2, <2>5, <4>1, <4>3, <4>5, FindFewAreKept
    <3> QED BY <3>2, <3>3, <3>4
  <2> QED BY <2>7, <2>8, <2>9, <2>10 DEF Search!IInv
<1> QED BY <1>2, <1>3

LEMMA FindFallbackInv ==
    ASSUME Search!RetrievalAssumption, Search!IInv, Search!Fallback
    PROVE  Search!IInv'
<1>1. findKept' \in Search!Ranked(FindChunk) /\ Search!TwoOfEach(findKept')
  BY FindPostProcessKeeps DEF Search!Fallback
<1>2. Search!TypeOK'
  BY <1>1 DEF Search!Fallback, Search!IInv, Search!TypeOK, Search!search
<1>3. Search!SearchInv'
  BY <1>1 DEF Search!Fallback, Search!IInv, Search!SearchInv, Search!TwoOfEach, Search!search
<1>4. Search!MergedInv' /\ Search!ResultsHoldOnce'
  BY FindMergedStays DEF Search!Fallback
<1>5. Search!BestHitIsKept'
  <2>1. findKeyword' = <<>>
    BY DEF Search!Fallback, Search!IInv, Search!SearchInv, Search!search
  <2> QED BY <2>1, FindFinite DEF Search!BestHitIsKept
<1> QED BY <1>2, <1>3, <1>4, <1>5 DEF Search!IInv

LEMMA FindFailsInv ==
    ASSUME Search!RetrievalAssumption, Search!IInv, Search!SearchFails
    PROVE  Search!IInv'
<1>1. /\ findPhase = "search" /\ findPhase' \in {"search", "kept"}
      /\ findKeyword' = None /\ findEmbedding' = None /\ findVector' = None
      /\ findKept' \in {findKept, <<>>}
      /\ UNCHANGED <<findStrategy, findCoverage, findSubqueries, findSub, findMerged,
                     findResults, findRepeated>>
  BY DEF Search!SearchFails
<1>2. findAttempt' \in 0 .. FindRetries
  <2>1. findAttempt \in 0 .. FindRetries /\ FindRetries \in Nat
    BY FindFinite DEF Search!IInv, Search!TypeOK, Search!RetrievalAssumption
  <2>2. CASE findAttempt < FindRetries
    BY <2>1, <2>2 DEF Search!SearchFails
  <2>3. CASE ~(findAttempt < FindRetries)
    BY <2>1, <2>3 DEF Search!SearchFails
  <2> QED BY <2>2, <2>3
<1>3. findKept' \in Search!Ranked(FindChunk) /\ Search!TwoOfEach(findKept')
  BY <1>1, FindEmptyRanked DEF Search!IInv, Search!TypeOK, Search!SearchInv
<1>4. Search!TypeOK'
  BY <1>1, <1>2, <1>3 DEF Search!IInv, Search!TypeOK
<1>5. Search!SearchInv'
  BY <1>1, <1>3, FindFinite DEF Search!SearchInv, Search!TwoOfEach, Search!RetrievalAssumption
<1>6. Search!MergedInv' /\ Search!ResultsHoldOnce'
  BY <1>1, FindMergedStays
<1>7. Search!BestHitIsKept'
  BY <1>1, FindFinite DEF Search!BestHitIsKept
<1> QED BY <1>4, <1>5, <1>6, <1>7 DEF Search!IInv

LEMMA FindMergeInv ==
    ASSUME Search!RetrievalAssumption, Search!IInv, Search!Merge
    PROVE  Search!IInv'
<1> DEFINE P == [sub : 1 .. FindSubqueryLimit, chunk : FindChunk]
           new == [i \in DOMAIN findKept |-> [sub |-> findSub, chunk |-> findKept[i]]]
           n == Len(findMerged)
<1>1. /\ findPhase = "kept" /\ findMerged' = findMerged \o new
      /\ findKept' = <<>> /\ findAttempt' = 0
      /\ findKeyword' = None /\ findEmbedding' = None /\ findVector' = None
      /\ UNCHANGED <<findCoverage, findSubqueries, findResults, findRepeated>>
  BY DEF Search!Merge
<1>2. findKept \in Seq(FindChunk) /\ Search!IsInjective(findKept)
  BY FindRankedIs, FindFinite DEF Search!IInv, Search!TypeOK, Search!RetrievalAssumption
<1>3. /\ findMerged \in Seq(P) /\ findSubqueries \in 1 .. FindSubqueryLimit
      /\ findSub \in 1 .. findSubqueries
      /\ FindSubqueryLimit \in Nat
  BY FindFinite DEF Search!IInv, Search!TypeOK, Search!RetrievalAssumption
<1>4. findSub \in 1 .. FindSubqueryLimit
  BY <1>3
<1>5. new \in Seq(P) /\ Len(new) = Len(findKept) /\ DOMAIN new = DOMAIN findKept
      /\ \A i \in DOMAIN findKept : new[i].sub = findSub /\ new[i].chunk = findKept[i]
  <2>1. \A i \in DOMAIN findKept : [sub |-> findSub, chunk |-> findKept[i]] \in P
    BY <1>2, <1>4
  <2>2. DOMAIN findKept = 1 .. Len(findKept) /\ Len(findKept) \in Nat
    BY <1>2
  <2> HIDE DEF P
  <2> QED BY <2>1, <2>2
<1> HIDE DEF new, P
<1>6. /\ findMerged' \in Seq(P) /\ n \in Nat /\ Len(findMerged') = n + Len(findKept)
      /\ DOMAIN findMerged' = 1 .. n + Len(findKept) /\ Len(findKept) \in Nat
      /\ \A i \in 1 .. n + Len(findKept) :
            findMerged'[i] = IF i <= n THEN findMerged[i] ELSE new[i - n]
  <2>1. /\ findMerged \o new \in Seq(P) /\ Len(findMerged \o new) = n + Len(new)
        /\ \A i \in 1 .. n + Len(new) :
              (findMerged \o new)[i] = IF i <= n THEN findMerged[i] ELSE new[i - n]
    <3>1. findMerged \in Seq(P) /\ new \in Seq(P)
      BY <1>3, <1>5
    <3> QED BY <3>1, ConcatProperties
  <2> QED BY <1>1, <1>2, <1>3, <1>5, <2>1
<1>7. DOMAIN findMerged = 1 .. n /\ DOMAIN findKept = 1 .. Len(findKept)
  BY <1>2, <1>3
<1> HIDE DEF n
<1>8. ASSUME NEW i \in DOMAIN findMerged'
      PROVE  \/ i \in DOMAIN findMerged /\ findMerged'[i] = findMerged[i]
                /\ findMerged'[i].sub < findSub
             \/ /\ ~(i <= n) /\ i - n \in DOMAIN findKept /\ findMerged'[i] = new[i - n]
                /\ findMerged'[i].sub = findSub /\ findMerged'[i].chunk = findKept[i - n]
  <2>1. CASE i <= n
    <3>1. i \in DOMAIN findMerged
      BY <1>6, <1>7, <2>1
    <3>2. findMerged'[i] = findMerged[i]
      BY <1>6, <2>1
    <3> QED BY <1>1, <3>1, <3>2 DEF Search!IInv, Search!MergedInv
  <2>2. CASE ~(i <= n)
    <3>1. i - n \in DOMAIN findKept
      BY <1>6, <1>7, <2>2
    <3>2. findMerged'[i] = new[i - n]
      BY <1>6, <2>2
    <3> QED BY <1>5, <2>2, <3>1, <3>2
  <2> QED BY <2>1, <2>2
<1>9. \A i \in DOMAIN findMerged' : i \in Nat
  BY <1>6
<1>10. /\ \A i \in DOMAIN findMerged' : findMerged'[i].sub \in Nat
       /\ findSub \in Nat
  <2>1. \A i \in DOMAIN findMerged' : findMerged'[i] \in P
    BY <1>6
  <2>2. findSub \in Nat
    BY <1>3
  <2> QED BY <1>3, <2>1, <2>2 DEF P
<1>11. Search!IsInjective(findMerged')
  <2> SUFFICES ASSUME NEW i \in DOMAIN findMerged', NEW j \in DOMAIN findMerged',
                      findMerged'[i] = findMerged'[j]
               PROVE  i = j
    BY DEF Search!IsInjective
  <2>1. CASE findMerged'[i].sub < findSub
    <3>1. i \in DOMAIN findMerged /\ j \in DOMAIN findMerged /\ findMerged[i] = findMerged[j]
      BY <1>8, <1>10, <2>1
    <3> QED BY <3>1 DEF Search!IInv, Search!MergedInv, Search!IsInjective
  <2>2. CASE ~(findMerged'[i].sub < findSub)
    <3>1. i - n \in DOMAIN findKept /\ j - n \in DOMAIN findKept /\ findKept[i - n]
            = findKept[j - n]
      BY <1>8, <1>10, <2>2
    <3>2. i - n = j - n
      BY <1>2, <3>1 DEF Search!IsInjective
    <3> QED BY <1>6, <1>9, <3>2
  <2> QED BY <2>1, <2>2
<1>12. ASSUME NEW i \in DOMAIN findMerged', NEW j \in DOMAIN findMerged',
              NEW k \in DOMAIN findMerged',
              findMerged'[i].sub = findMerged'[j].sub, findMerged'[j].sub = findMerged'[k].sub,
              FindDocument[findMerged'[i].chunk] = FindDocument[findMerged'[j].chunk],
              FindDocument[findMerged'[j].chunk] = FindDocument[findMerged'[k].chunk]
       PROVE  i = j \/ i = k \/ j = k
  <2>1. CASE findMerged'[i].sub < findSub
    <3>1. /\ i \in DOMAIN findMerged /\ j \in DOMAIN findMerged /\ k \in DOMAIN findMerged
          /\ findMerged'[i] = findMerged[i] /\ findMerged'[j] = findMerged[j]
          /\ findMerged'[k] = findMerged[k]
      BY <1>8, <1>10, <1>12, <2>1
    <3> QED BY <1>12, <3>1 DEF Search!IInv, Search!MergedInv
  <2>2. CASE ~(findMerged'[i].sub < findSub)
    <3>1. /\ i - n \in DOMAIN findKept /\ j - n \in DOMAIN findKept /\ k - n \in DOMAIN findKept
          /\ findMerged'[i].chunk = findKept[i - n] /\ findMerged'[j].chunk = findKept[j - n]
          /\ findMerged'[k].chunk = findKept[k - n]
      BY <1>8, <1>10, <1>12, <2>2
    <3>2. i - n = j - n \/ i - n = k - n \/ j - n = k - n
      BY <1>12, <3>1 DEF Search!IInv, Search!SearchInv, Search!TwoOfEach
    <3> QED BY <1>6, <1>9, <3>2
  <2> QED BY <2>1, <2>2
<1>13. /\ findSub' \in 1 .. findSubqueries /\ findSub' >= findSub /\ findSub' \in Nat
       /\ findStrategy' \in Search!Strategy
       /\ \/ findPhase' = "search" /\ findSub' > findSub
          \/ findPhase' = "rerank" /\ findSub' = findSub
  <2>1. CASE findSub < findSubqueries
    BY <1>3, <2>1 DEF Search!Merge
  <2>2. CASE ~(findSub < findSubqueries)
    BY <1>3, <2>2 DEF Search!Merge, Search!IInv, Search!TypeOK
  <2> QED BY <2>1, <2>2
<1>14. \A i \in DOMAIN findMerged' : /\ findMerged'[i].sub <= findSub'
                                     /\ findPhase' \notin {"rerank",
                                            "done"} => findMerged'[i].sub < findSub'
  <2>1. \A i \in DOMAIN findMerged' : findMerged'[i].sub <= findSub
    BY <1>8, <1>10
  <2> QED BY <1>10, <1>13, <2>1
<1>15. Search!MergedInv'
  BY <1>11, <1>12, <1>14 DEF Search!MergedInv
<1>16. Search!TypeOK'
  <2>1. findMerged' \in Seq([sub : 1 .. FindSubqueryLimit, chunk : FindChunk])
    BY <1>6 DEF P
  <2>2. findAttempt' \in 0 .. FindRetries
    BY <1>1, FindFinite DEF Search!RetrievalAssumption
  <2> QED BY <1>1, <1>13, <2>1, <2>2, FindEmptyRanked DEF Search!IInv, Search!TypeOK
<1>17. Search!SearchInv'
  BY <1>1, <1>13, FindEmptyRanked, FindFinite DEF Search!SearchInv, Search!TwoOfEach,
       Search!RetrievalAssumption
<1>18. Search!BestHitIsKept' /\ Search!ResultsHoldOnce'
  BY <1>13, FindFinite DEF Search!BestHitIsKept, Search!ResultsHoldOnce
<1> QED BY <1>15, <1>16, <1>17, <1>18 DEF Search!IInv

\* What the caller gets are passages that the sub-questions returned.
LEMMA FindRerankGets ==
    ASSUME Search!RetrievalAssumption, Search!IInv, Search!Rerank
    PROVE  /\ findResults' \in Seq([sub : 1 .. FindSubqueryLimit, chunk : FindChunk])
           /\ findMerged # <<>> => findResults' # <<>>
           /\ findRepeated' \in BOOLEAN
           /\ \E g \in [DOMAIN findResults' -> DOMAIN findMerged] :
                 /\ \A i \in DOMAIN findResults' : findResults'[i] = findMerged[g[i]]
                 /\ ~findRepeated' => Search!IsInjective(g)
<1> DEFINE P == [sub : 1 .. FindSubqueryLimit, chunk : FindChunk]
           many == IF Len(findMerged) < FindTopN THEN Len(findMerged) ELSE FindTopN
           candidates == SubSeq(findMerged, 1, many)
           others == SubSeq(findMerged, many + 1, Len(findMerged))
           trimmed(list) == SubSeq(list, 1, IF Len(list) < FindTopK THEN Len(list)
             ELSE FindTopK)
<1>1. \/ /\ \E ordered \in Search!Reordered(candidates) \cup Search!Numbered(candidates)
           \cup {candidates} :
                 findResults' = trimmed(ordered \o others)
         /\ findRepeated' = findRepeated
      \/ \E names \in Search!Named(candidates) :
            /\ findResults' = trimmed(Search!NamedFirst(candidates, names) \o others)
            /\ findRepeated' = ~Search!IsInjective(names)
  BY DEF Search!Rerank
<1>2. findMerged \in Seq(P) /\ Len(findMerged) \in Nat /\ findRepeated \in BOOLEAN
  BY DEF Search!IInv, Search!TypeOK
<1>3. many \in Nat /\ many <= Len(findMerged) /\ (findMerged # <<>> => many # 0)
  <2> DEFINE n == Len(findMerged)
  <2>1. n \in Nat /\ FindTopN \in Nat /\ FindTopN # 0 /\ (findMerged # <<>> => n # 0)
    BY <1>2, FindFinite DEF Search!RetrievalAssumption
  <2>2. many = IF n < FindTopN THEN n ELSE FindTopN
    OBVIOUS
  <2> HIDE DEF n, many
  <2>3. many \in Nat /\ many <= n /\ (n # 0 => many # 0)
    BY <2>1, <2>2
  <2> QED BY <2>1, <2>3 DEF n
<1> HIDE DEF many, P
<1>4. candidates \in Seq(P)
  <2>1. \A i \in 1 .. many : findMerged[i] \in P
    BY <1>2, <1>3
  <2> QED BY <1>3, <2>1, SubSeqProperties
<1>5. ASSUME NEW h \in Seq(DOMAIN candidates), candidates # <<>> => h # <<>>,
             findResults' = trimmed(FindPicked(candidates, h) \o others),
             ~findRepeated' => Search!IsInjective(h)
      PROVE  /\ findResults' \in Seq(P)
             /\ findMerged # <<>> => findResults' # <<>>
             /\ \E g \in [DOMAIN findResults' -> DOMAIN findMerged] :
                   /\ \A i \in DOMAIN findResults' : findResults'[i] = findMerged[g[i]]
                   /\ ~findRepeated' => Search!IsInjective(g)
  <2>1. findResults' = FindReturned(findMerged, many, h)
    BY <1>5 DEF FindReturned
  <2>2. /\ FindReturned(findMerged, many, h) \in Seq(P)
        /\ findMerged # <<>> => FindReturned(findMerged, many, h) # <<>>
        /\ \E g \in [DOMAIN FindReturned(findMerged, many, h) -> DOMAIN findMerged] :
              /\ \A i \in DOMAIN FindReturned(findMerged, many, h) :
                    FindReturned(findMerged, many, h)[i] = findMerged[g[i]]
              /\ Search!IsInjective(h) => Search!IsInjective(g)
    BY <1>2, <1>3, <1>5, FindRankedFrom
  <2> QED BY <1>5, <2>1, <2>2
<1>6. CASE /\ \E ordered \in Search!Reordered(candidates) \cup Search!Numbered(candidates)
                \cup {candidates} :
                 findResults' = trimmed(ordered \o others)
           /\ findRepeated' = findRepeated
  <2>1. PICK ordered \in Search!Reordered(candidates) \cup Search!Numbered(candidates)
          \cup {candidates} :
            findResults' = trimmed(ordered \o others)
    BY <1>6
  <2> HIDE DEF candidates, others, trimmed
  <2>2. PICK h \in Seq(DOMAIN candidates) :
            /\ ordered = FindPicked(candidates, h) /\ Search!IsInjective(h)
            /\ candidates # <<>> => h # <<>>
    BY <1>4, FindOrderedIs
  <2> QED BY <1>2, <1>5, <1>6, <2>1, <2>2 DEF P
<1>7. CASE \E names \in Search!Named(candidates) :
              /\ findResults' = trimmed(Search!NamedFirst(candidates, names) \o others)
              /\ findRepeated' = ~Search!IsInjective(names)
  <2>1. PICK names \in Search!Named(candidates) :
              /\ findResults' = trimmed(Search!NamedFirst(candidates, names) \o others)
              /\ findRepeated' = ~Search!IsInjective(names)
    BY <1>7
  <2> HIDE DEF candidates, others, trimmed
  <2>2. names \in Seq(DOMAIN candidates)
    BY DEF Search!Named, Search!BoundedSeq, Search!SeqOf
  <2>3. PICK h \in Seq(DOMAIN candidates) :
            /\ Search!NamedFirst(candidates, names) = FindPicked(candidates, h)
            /\ Search!IsInjective(names) => Search!IsInjective(h)
            /\ candidates # <<>> => h # <<>>
    BY <1>4, <2>2, FindNamedFirstIs
  <2>4. findRepeated' \in BOOLEAN
    BY <2>1
  <2> QED BY <1>5, <2>1, <2>3, <2>4 DEF P
<1> QED BY <1>1, <1>6, <1>7

LEMMA FindRerankInv ==
    ASSUME Search!RetrievalAssumption, Search!IInv, Search!Rerank
    PROVE  Search!IInv'
<1>1. /\ findPhase = "rerank" /\ findPhase' = "done"
      /\ UNCHANGED <<findStrategy, findCoverage, findSubqueries, findSub, findAttempt,
                     findKeyword, findEmbedding, findVector,
                     findKept, findMerged>>
  BY DEF Search!Rerank, Search!search
<1>2. Search!TypeOK'
  BY <1>1, FindRerankGets DEF Search!IInv, Search!TypeOK
<1>3. Search!SearchInv' /\ Search!MergedInv'
  BY <1>1 DEF Search!IInv, Search!SearchInv, Search!MergedInv, Search!TwoOfEach
<1>4. Search!BestHitIsKept'
  BY <1>1, FindFinite DEF Search!BestHitIsKept
<1>5. PICK g \in [DOMAIN findResults' -> DOMAIN findMerged] :
           /\ \A i \in DOMAIN findResults' : findResults'[i] = findMerged[g[i]]
           /\ ~findRepeated' => Search!IsInjective(g)
  BY FindRerankGets
<1>6. ASSUME ~findRepeated'
      PROVE  Search!IsInjective(findResults')
  BY <1>5, <1>6 DEF Search!IInv, Search!MergedInv, Search!IsInjective
<1>7. ASSUME ~findRepeated', NEW s, NEW c
      PROVE  Cardinality({i \in DOMAIN findResults' :
                   findResults'[i].sub = s /\ FindDocument[findResults'[i].chunk]
                     = FindDocument[c]}) <= 2
  <2> DEFINE S == {i \in DOMAIN findResults' :
                   findResults'[i].sub = s /\ FindDocument[findResults'[i].chunk]
                     = FindDocument[c]}
  <2> SUFFICES ASSUME ~(Cardinality(S) <= 2)
               PROVE  FALSE
    OBVIOUS
  <2>1. IsFiniteSet(S)
    <3>1. \A m \in Nat : IsFiniteSet(1 .. m)
      BY FS_Interval
    <3>2. Len(findResults') \in Nat /\ DOMAIN findResults' = 1 .. Len(findResults')
      BY FindRerankGets
    <3>3. IsFiniteSet(DOMAIN findResults')
      BY <3>1, <3>2
    <3> QED BY <3>3, FS_Subset
  <2>2. PICK i, j, k \in S : i # j /\ i # k /\ j # k
    BY <2>1, FindThreeOf
  <2>3. /\ g[i] \in DOMAIN findMerged /\ g[j] \in DOMAIN findMerged
        /\ g[k] \in DOMAIN findMerged
        /\ g[i] # g[j] /\ g[i] # g[k] /\ g[j] # g[k]
    BY <1>5, <1>7, <2>2 DEF Search!IsInjective
  <2>4. /\ findMerged[g[i]].sub = findMerged[g[j]].sub
        /\ findMerged[g[j]].sub = findMerged[g[k]].sub
        /\ FindDocument[findMerged[g[i]].chunk] = FindDocument[findMerged[g[j]].chunk]
        /\ FindDocument[findMerged[g[j]].chunk] = FindDocument[findMerged[g[k]].chunk]
    BY <1>5, <2>2
  <2> QED BY <2>3, <2>4 DEF Search!IInv, Search!MergedInv
<1>8. Search!ResultsHoldOnce'
  <2>1. findMerged' # <<>> => findResults' # <<>>
    BY <1>1, FindRerankGets
  <2>2. ASSUME ~findRepeated'
        PROVE  \A s \in 1 .. findSubqueries', c \in FindChunk :
                  Cardinality({i \in DOMAIN findResults' :
                      /\ findResults'[i].sub = s
                      /\ FindDocument[findResults'[i].chunk] = FindDocument[c]}) <= 2
    <3> TAKE s \in 1 .. findSubqueries', c \in FindChunk
    <3> QED BY <1>7, <2>2
  <2> QED BY <1>6, <2>1, <2>2, FindFinite DEF Search!ResultsHoldOnce
<1> QED BY <1>2, <1>3, <1>4, <1>8 DEF Search!IInv

LEMMA FindNextInv == Search!RetrievalAssumption /\ Search!IInv /\ [Search!Next]_Search!vars
  => Search!IInv'
<1> SUFFICES ASSUME Search!RetrievalAssumption, Search!IInv, [Search!Next]_Search!vars
             PROVE  Search!IInv'
  OBVIOUS
<1>1. CASE UNCHANGED Search!vars
  <2>1. Search!TypeOK'
    BY <1>1 DEF Search!vars, Search!search, Search!IInv, Search!TypeOK
  <2>2. Search!SearchInv' /\ Search!MergedInv'
    BY <1>1, FindFinite DEF Search!vars, Search!search, Search!IInv, Search!SearchInv,
       Search!TwoOfEach, Search!MergedInv
  <2>3. Search!BestHitIsKept'
    BY <1>1 DEF Search!vars, Search!search, Search!IInv, Search!BestHitIsKept
  <2>4. Search!ResultsHoldOnce'
    BY <1>1 DEF Search!vars, Search!search, Search!IInv, Search!ResultsHoldOnce
  <2> QED BY <2>1, <2>2, <2>3, <2>4 DEF Search!IInv
<1>2. CASE Search!Next
  BY <1>2, FindDecomposeInv, FindKeywordInv, FindEmbedInv, FindVectorInv, FindGatheredInv,
       FindFallbackInv, FindFailsInv,
     FindMergeInv, FindRerankInv DEF Search!Next
<1> QED BY <1>1, <1>2

LEMMA FindInvProperty == Search!IInv => Search!RetrievalSound
BY DEF Search!IInv, Search!RetrievalSound

LEMMA FindInvariance == ServicesSpec => []Search!IInv
<1>1. ServicesInit => Search!IInv
  BY FindInitInv, ServicesAssumption DEF ServicesInit, ServicesAssumption
<1>2. Search!IInv /\ [ServicesNext]_servicesVars => Search!IInv'
  <2> SUFFICES ASSUME Search!IInv, [ServicesNext]_servicesVars
               PROVE  Search!IInv'
    OBVIOUS
  <2>1. Search!Next \/ UNCHANGED findVars
    BY DEF ServicesNext, Still, servicesVars
  <2>2. [Search!Next]_Search!vars
    BY <2>1 DEF findVars, Search!vars, Search!search
  <2>3. Search!RetrievalAssumption
    BY ServicesAssumption DEF ServicesAssumption
  <2> QED BY <2>2, <2>3, FindNextInv
<1> QED BY <1>1, <1>2, PTL DEF ServicesSpec

-----------------------------------------------------------------------------
(* The chunks of a text: what ChunkingProofs shows, of the service's chunks. *)

CutFacts == INSTANCE ChunkingProofs WITH
    Texts <- PolicyTexts, text <- cutText, clause <- cutClause,
    chunks <- cutChunks, rows <- cutRows, failed <- cutFailed

LEMMA CutSameSplit ==
    ASSUME NEW c, NEW breaks
    PROVE  Chunks!SplitAt(c, breaks) = CutFacts!SplitAt(c, breaks)
BY ZenonT(60) DEF Chunks!SplitAt, CutFacts!SplitAt, Chunks!Piece, CutFacts!Piece,
   Chunks!LengthOf, CutFacts!LengthOf, Chunks!Total, CutFacts!Total,
   Chunks!Between, CutFacts!Between, Chunks!Count, CutFacts!Count,
   Chunks!FoldLeft, CutFacts!FoldLeft, Chunks!MapThenFoldSet, CutFacts!MapThenFoldSet,
   Chunks!Max, CutFacts!Max

LEMMA CutSameMerge ==
    ASSUME NEW pieces
    PROVE  Chunks!MergePieces(pieces) = CutFacts!MergePieces(pieces)
BY DEF Chunks!MergePieces, CutFacts!MergePieces, Chunks!Piece, CutFacts!Piece,
   Chunks!LengthOf, CutFacts!LengthOf, Chunks!Total, CutFacts!Total,
   Chunks!FoldLeft, CutFacts!FoldLeft, Chunks!MapThenFoldSet, CutFacts!MapThenFoldSet,
   Chunks!Max, CutFacts!Max

LEMMA CutSameRuns ==
    ASSUME NEW c, NEW from, NEW to
    PROVE  Chunks!Between(c, from, to) = CutFacts!Between(c, from, to)
BY DEF Chunks!Between, CutFacts!Between

LEMMA CutSameLength ==
    ASSUME NEW sentences
    PROVE  /\ Chunks!LengthOf(sentences) = CutFacts!LengthOf(sentences)
           /\ Chunks!Piece(sentences) = CutFacts!Piece(sentences)
BY DEF Chunks!Piece, CutFacts!Piece, Chunks!LengthOf, CutFacts!LengthOf, Chunks!Total,
   CutFacts!Total, Chunks!FoldLeft, CutFacts!FoldLeft,
   Chunks!MapThenFoldSet, CutFacts!MapThenFoldSet, Chunks!Max, CutFacts!Max

LEMMA CutSameTruncate ==
    ASSUME NEW ch
    PROVE  Chunks!SmartTruncate(ch) = CutFacts!SmartTruncate(ch)
<1>1. Chunks!LastBreak(ch) = CutFacts!LastBreak(ch)
  <2>1. \A lengths : Chunks!Max(lengths) = CutFacts!Max(lengths)
    BY DEF Chunks!Max, CutFacts!Max
  <2>2. \A sentences : Chunks!LengthOf(sentences) = CutFacts!LengthOf(sentences)
    BY CutSameLength
  <2>3. \A c, from, to : Chunks!Between(c, from, to) = CutFacts!Between(c, from, to)
    BY CutSameRuns
  <2> QED BY ONLY <2>1, <2>2, <2>3, ZenonT(60) DEF Chunks!LastBreak, CutFacts!LastBreak
<1> QED BY <1>1, CutSameLength DEF Chunks!SmartTruncate, CutFacts!SmartTruncate,
     Chunks!Min, CutFacts!Min

LEMMA CutSameSemantic ==
    ASSUME NEW c, NEW breaks
    PROVE  Chunks!SemanticSplit(c, breaks) = CutFacts!SemanticSplit(c, breaks)
<1>1. Chunks!SplitAt(c, breaks) = CutFacts!SplitAt(c, breaks)
  BY CutSameSplit
<1>2. Chunks!MergePieces(Chunks!SplitAt(c, breaks))
          = CutFacts!MergePieces(CutFacts!SplitAt(c, breaks))
  BY <1>1, CutSameMerge
<1>3. \A ch : Chunks!SmartTruncate(ch) = CutFacts!SmartTruncate(ch)
  BY CutSameTruncate
<1> QED BY <1>2, <1>3 DEF Chunks!SemanticSplit, CutFacts!SemanticSplit

LEMMA CutSameTails ==
    ASSUME NEW all
    PROVE  Chunks!MergeSmallTails(all) = CutFacts!MergeSmallTails(all)
BY DEF Chunks!MergeSmallTails, CutFacts!MergeSmallTails,
   Chunks!FoldLeft, CutFacts!FoldLeft, Chunks!MapThenFoldSet, CutFacts!MapThenFoldSet,
   Chunks!Max, CutFacts!Max

LEMMA CutSameWhole ==
    Chunks!WholeText = CutFacts!WholeText /\ Chunks!AllSentences = CutFacts!AllSentences
BY DEF Chunks!WholeText, CutFacts!WholeText, Chunks!AllSentences, CutFacts!AllSentences,
   Chunks!LengthOf, CutFacts!LengthOf, Chunks!Total, CutFacts!Total,
   Chunks!Clause, CutFacts!Clause, Chunks!SentencesOf, CutFacts!SentencesOf,
   Chunks!Between, CutFacts!Between, Chunks!Count, CutFacts!Count,
   Chunks!FoldLeft, CutFacts!FoldLeft, Chunks!MapThenFoldSet, CutFacts!MapThenFoldSet,
   Chunks!Max, CutFacts!Max

LEMMA CutSameSteps ==
    /\ Chunks!Init => CutFacts!Init
    /\ [Chunks!Next]_Chunks!vars => [CutFacts!Next]_CutFacts!vars
<1>1. Chunks!Init => CutFacts!Init
  BY DEF Chunks!Init, CutFacts!Init
<1>2. /\ \A c : /\ Chunks!SentencesOf(c) = CutFacts!SentencesOf(c)
                /\ Chunks!Count(c) = CutFacts!Count(c)
                /\ Chunks!TitleOf(c) = CutFacts!TitleOf(c)
                /\ Chunks!Breaks(c) = CutFacts!Breaks(c)
      /\ \A ps, title : Chunks!Titled(ps, title) = CutFacts!Titled(ps, title)
  BY DEF Chunks!SentencesOf, CutFacts!SentencesOf, Chunks!Between, CutFacts!Between,
     Chunks!Count, CutFacts!Count, Chunks!TitleOf, CutFacts!TitleOf,
     Chunks!Breaks, CutFacts!Breaks, Chunks!Cardinality, CutFacts!Cardinality,
     Chunks!IsFiniteSet, CutFacts!IsFiniteSet, Chunks!Titled, CutFacts!Titled
<1>3. Chunks!KeepWhole => CutFacts!KeepWhole
  BY <1>2, CutSameWhole, CutSameLength DEF Chunks!KeepWhole, CutFacts!KeepWhole
<1>4. Chunks!SplitClause => CutFacts!SplitClause
  BY <1>2, CutSameWhole, CutSameLength, CutSameSemantic
     DEF Chunks!SplitClause, CutFacts!SplitClause
<1>5. Chunks!StoreChunks => CutFacts!StoreChunks
  BY CutSameTails DEF Chunks!StoreChunks, CutFacts!StoreChunks
<1>6. UNCHANGED Chunks!vars => UNCHANGED CutFacts!vars
  BY DEF Chunks!vars, CutFacts!vars
<1> QED BY <1>1, <1>3, <1>4, <1>5, <1>6 DEF Chunks!Next, CutFacts!Next

LEMMA CutSameTells == CutFacts!ChunksTell => Chunks!ChunksTell
<1>1. CutFacts!TextIsKept => Chunks!TextIsKept
  <2>1. Chunks!Lost = CutFacts!Lost
    BY DEF Chunks!Lost, CutFacts!Lost, Chunks!Stored, CutFacts!Stored,
       Chunks!Range, CutFacts!Range, Chunks!Sentence, CutFacts!Sentence,
       Chunks!Clause, CutFacts!Clause
  <2>2. \A s, t : Chunks!Before(s, t) <=> CutFacts!Before(s, t)
    BY DEF Chunks!Before, CutFacts!Before
  <2>3. \A s : Chunks!LengthOf(s) = CutFacts!LengthOf(s)
    BY CutSameLength
  <2>4. \A c, from, to : Chunks!Between(c, from, to) = CutFacts!Between(c, from, to)
    BY CutSameRuns
  <2>5. /\ \A c : Chunks!Count(c) = CutFacts!Count(c)
        /\ \A f : Chunks!Range(f) = CutFacts!Range(f)
    BY DEF Chunks!Count, CutFacts!Count, Chunks!Range, CutFacts!Range
  <2> QED BY <2>1, <2>2, <2>3, <2>4, <2>5 DEF Chunks!TextIsKept, CutFacts!TextIsKept
<1>2. CutFacts!TitlesFit => Chunks!TitlesFit
  BY CutSameWhole DEF Chunks!TitlesFit, CutFacts!TitlesFit, Chunks!Clause, CutFacts!Clause
<1> QED BY <1>1, <1>2 DEF Chunks!ChunksTell, CutFacts!ChunksTell

LEMMA CutInvariance == ServicesSpec => []CutFacts!IInv
<1>1. CutFacts!ChunkingAssumption
  BY ServicesAssumption
     DEF ServicesAssumption, Chunks!ChunkingAssumption, CutFacts!ChunkingAssumption
<1>2. ServicesInit => CutFacts!IInv
  BY <1>1, CutSameSteps, CutFacts!InitInv DEF ServicesInit
<1>3. CutFacts!IInv /\ [ServicesNext]_servicesVars => CutFacts!IInv'
  <2> SUFFICES ASSUME CutFacts!IInv, [ServicesNext]_servicesVars
               PROVE  CutFacts!IInv'
    OBVIOUS
  <2>1. Chunks!Next \/ UNCHANGED cutVars
    BY DEF ServicesNext, Still, servicesVars
  <2>2. [Chunks!Next]_Chunks!vars
    BY <2>1 DEF cutVars, Chunks!vars
  <2> QED BY <1>1, <2>2, CutSameSteps, CutFacts!NextInv
<1> QED BY <1>2, <1>3, PTL DEF ServicesSpec

\* A sub-question keeps its first keyword hit if that covers the question well, unless the
\* selection by vectors displaces it; what was kept is in the results once, with two chunks
\* of a document at most, unless the rerank service repeated one; and the chunks that are
\* searched have the text of their document in order: for any rankings, limits and texts.
THEOREM RetrievalSoundHolds == ServicesSpec => []RetrievalSound
<1>1. Search!IInv => Search!RetrievalSound
  BY FindInvProperty
<1>2. CutFacts!IInv => Chunks!ChunksTell
  BY CutFacts!InvProperty, CutSameTells
<1>3. Search!IInv /\ CutFacts!IInv => RetrievalSound
  BY <1>1, <1>2 DEF RetrievalSound
<1> QED BY <1>3, FindInvariance, CutInvariance, PTL

-----------------------------------------------------------------------------
(* The context window *)

\* What holds of 0, and of a number when of the one before, holds up to a bound.
LEMMA WindowUpTo ==
    ASSUME NEW n \in Nat, NEW P, 0 \in P, \A k \in 1 .. n : k - 1 \in P => k \in P
    PROVE  0 .. n \subseteq P
<1> DEFINE T == (0 .. n) \ P
<1> SUFFICES ASSUME T # {}
             PROVE  FALSE
  OBVIOUS
<1>1. T \in SUBSET Nat
  OBVIOUS
<1>2. PICK m \in T : \A k \in T : m <= k
  <2> DEFINE R == {p \in Nat \X Nat : p[1] < p[2]}
  <2>1. IsWellFoundedOn(R, Nat)
    BY NatLessThanWellFounded DEF OpToRel
  <2> HIDE DEF T
  <2>2. PICK m \in T : \A k \in T : <<k, m>> \notin R
    BY <1>1, <2>1, WFMin
  <2>3. ASSUME NEW k \in T
        PROVE  m <= k
    <3>1. <<k, m>> \notin R
      BY <2>2
    <3>2. m \in Nat /\ k \in Nat
      BY <1>1, <2>2
    <3> QED BY <3>1, <3>2
  <2> QED BY <2>3
<1>3. m \in 1 .. n
  OBVIOUS
<1>4. m - 1 \notin T
  BY <1>1, <1>2
<1>5. m - 1 \in P
  BY <1>3, <1>4
<1> QED BY <1>3, <1>5

\* The largest and the least of some of the first numbers.
LEMMA WindowBounds ==
    ASSUME NEW n \in Nat, NEW s \in SUBSET (1 .. n), s # {}
    PROVE  /\ Window!Max(s) \in s /\ Window!Min(s) \in s
           /\ \A y \in s : Window!Max(s) >= y /\ Window!Min(s) =< y
<1> DEFINE P == {k \in 0 .. n : \A t \in SUBSET (1 .. k) : t # {} =>
                   /\ \E x \in t : \A y \in t : x >= y
                   /\ \E x \in t : \A y \in t : x =< y}
<1>1. 0 \in P
  <2>1. 1 .. 0 = {}
    OBVIOUS
  <2>2. \A t \in SUBSET (1 .. 0) : t = {}
    BY <2>1
  <2>3. 0 \in 0 .. n
    OBVIOUS
  <2> QED BY <2>2, <2>3
<1>2. ASSUME NEW k \in 1 .. n, k - 1 \in P
      PROVE  k \in P
  <2> SUFFICES ASSUME NEW t \in SUBSET (1 .. k), t # {}
               PROVE  /\ \E x \in t : \A y \in t : x >= y
                      /\ \E x \in t : \A y \in t : x =< y
    OBVIOUS
  <2>1. CASE k \notin t
    <3>1. t \in SUBSET (1 .. k - 1)
      BY <2>1
    <3> QED BY <1>2, <3>1
  <2>2. CASE k \in t /\ t = {k}
    BY <2>2
  <2>3. CASE k \in t /\ t # {k}
    <3>1. t \ {k} \in SUBSET (1 .. k - 1) /\ t \ {k} # {}
      BY <2>3
    <3>2. PICK x \in t \ {k} : \A y \in t \ {k} : x =< y
      BY <1>2, <3>1
    <3>3. \A y \in t : x =< y
      BY <3>2
    <3>4. \A y \in t : k >= y
      OBVIOUS
    <3> QED BY <2>3, <3>3, <3>4
  <2> QED BY <2>1, <2>2, <2>3
<1>3. n \in P
  <2> HIDE DEF P
  <2>1. 0 .. n \subseteq P
    BY <1>1, <1>2, WindowUpTo
  <2> QED BY <2>1
<1>4. (\E x \in s : \A y \in s : x >= y) /\ (\E x \in s : \A y \in s : x =< y)
  BY <1>3
<1> QED BY <1>4 DEF Window!Max, Window!Min

LEMMA WindowMaxOfFirst ==
    ASSUME NEW k \in Nat \ {0}
    PROVE  Window!Max(1 .. k) = k /\ (1 .. k) \ {k} = 1 .. k - 1 /\ 1 .. k # {}
<1>1. k \in 1 .. k /\ \A y \in 1 .. k : k >= y
  OBVIOUS
<1>2. \A x \in 1 .. k : (\A y \in 1 .. k : x >= y) => x = k
  BY <1>1
<1>3. Window!Max(1 .. k) = k
  BY <1>1, <1>2 DEF Window!Max
<1> QED BY <1>1, <1>3

LEMMA WindowMinOfLast ==
    ASSUME NEW n \in Nat, NEW k \in 1 .. n
    PROVE  Window!Min(k .. n) = k /\ (k .. n) \ {k} = k + 1 .. n /\ k .. n # {}
<1>1. k \in k .. n /\ \A y \in k .. n : k =< y
  OBVIOUS
<1>2. \A x \in k .. n : (\A y \in k .. n : x =< y) => x = k
  BY <1>1
<1>3. Window!Min(k .. n) = k
  BY <1>1, <1>2 DEF Window!Min
<1> QED BY <1>1, <1>3

\* What a fold from either end is by definition, with a function for its step.
WindowFoldsLeft(g, n, base, f) ==
    \A s \in SUBSET (1 .. n) :
        g[s] = IF s = {} THEN base ELSE f[<<Window!Max(s), g[s \ {Window!Max(s)}]>>]
WindowFoldsRight(g, n, base, f) ==
    \A s \in SUBSET (1 .. n) :
        g[s] = IF s = {} THEN base ELSE f[<<Window!Min(s), g[s \ {Window!Min(s)}]>>]

\* The function that a fold of a sequence iterates exists.
LEMMA WindowFoldLeftExists ==
    ASSUME NEW S, NEW base \in S, NEW n \in Nat, NEW f,
           \A i \in 1 .. n, x \in S : f[<<i, x>>] \in S
    PROVE  \E g \in [SUBSET (1 .. n) -> S] : WindowFoldsLeft(g, n, base, f)
<1> DEFINE Solves(g, k) ==
              \A s \in SUBSET (1 .. k) :
                  g[s] = IF s = {} THEN base ELSE f[<<Window!Max(s), g[s \ {Window!Max(s)}]>>]
           P == {k \in 0 .. n : \E g \in [SUBSET (1 .. k) -> S] : Solves(g, k)}
<1>1. 0 \in P
  <2> DEFINE g == [s \in SUBSET (1 .. 0) |-> base]
  <2>1. g \in [SUBSET (1 .. 0) -> S]
    OBVIOUS
  <2>2. \A s \in SUBSET (1 .. 0) : s = {} /\ g[s] = base
    OBVIOUS
  <2>3. Solves(g, 0)
    BY <2>2
  <2> HIDE DEF g, Solves
  <2> QED BY <2>1, <2>3
<1>2. ASSUME NEW k \in 1 .. n, k - 1 \in P
      PROVE  k \in P
  <2>1. PICK g \in [SUBSET (1 .. k - 1) -> S] : Solves(g, k - 1)
    BY <1>2
  <2> DEFINE h == [s \in SUBSET (1 .. k) |->
                      IF k \in s THEN f[<<k, g[s \ {k}]>>] ELSE g[s]]
  <2>0. (1 .. k) \ {k} = 1 .. k - 1
    OBVIOUS
  <2>2. \A s \in SUBSET (1 .. k) : s \ {k} \in SUBSET (1 .. k - 1)
    BY <2>0
  <2>3. \A s \in SUBSET (1 .. k) : k \notin s => s \in SUBSET (1 .. k - 1)
    OBVIOUS
  <2>4. h \in [SUBSET (1 .. k) -> S]
    BY <2>2, <2>3
  <2>5. \A s \in SUBSET (1 .. k - 1) : h[s] = g[s]
    <3>1. \A s \in SUBSET (1 .. k - 1) : s \in SUBSET (1 .. k) /\ k \notin s
      OBVIOUS
    <3> QED BY <3>1
  <2>6. ASSUME NEW s \in SUBSET (1 .. k), k \in s
        PROVE  h[s] = IF s = {} THEN base ELSE f[<<Window!Max(s), h[s \ {Window!Max(s)}]>>]
    <3>1. Window!Max(s) = k
      <4>1. \A y \in s : k >= y
        OBVIOUS
      <4>2. \A x \in s : (\A y \in s : x >= y) => x = k
        BY <2>6
      <4> QED BY <2>6, <4>1, <4>2 DEF Window!Max
    <3>2. h[s] = f[<<k, g[s \ {k}]>>] /\ s # {}
      BY <2>6
    <3>3. h[s \ {k}] = g[s \ {k}]
      BY <2>2, <2>5
    <3> HIDE DEF h
    <3> QED BY <3>1, <3>2, <3>3
  <2>7. ASSUME NEW s \in SUBSET (1 .. k), k \notin s
        PROVE  h[s] = IF s = {} THEN base ELSE f[<<Window!Max(s), h[s \ {Window!Max(s)}]>>]
    <3>1. s \in SUBSET (1 .. k - 1) /\ s \ {Window!Max(s)} \in SUBSET (1 .. k - 1)
      BY <2>3, <2>7
    <3>2. h[s] = g[s] /\ h[s \ {Window!Max(s)}] = g[s \ {Window!Max(s)}]
      BY <2>5, <3>1
    <3> HIDE DEF h
    <3> QED BY <2>1, <3>1, <3>2
  <2>8. Solves(h, k)
    BY <2>6, <2>7
  <2> HIDE DEF h, Solves
  <2>9. \E e \in [SUBSET (1 .. k) -> S] : Solves(e, k)
    BY <2>4, <2>8
  <2>10. k \in 0 .. n
    OBVIOUS
  <2> QED BY <2>9, <2>10
<1>3. n \in P
  <2> HIDE DEF P
  <2>1. 0 .. n \subseteq P
    BY <1>1, <1>2, WindowUpTo
  <2> QED BY <2>1
<1> QED BY <1>3 DEF WindowFoldsLeft

LEMMA WindowFoldRightExists ==
    ASSUME NEW S, NEW base \in S, NEW n \in Nat, NEW f,
           \A i \in 1 .. n, x \in S : f[<<i, x>>] \in S
    PROVE  \E g \in [SUBSET (1 .. n) -> S] : WindowFoldsRight(g, n, base, f)
<1> DEFINE Last0(k) == n + 1 - k .. n
           Solves(g, k) ==
              \A s \in SUBSET Last0(k) :
                  g[s] = IF s = {} THEN base ELSE f[<<Window!Min(s), g[s \ {Window!Min(s)}]>>]
           P == {k \in 0 .. n : \E g \in [SUBSET Last0(k) -> S] : Solves(g, k)}
<1>1. 0 \in P
  <2> DEFINE g == [s \in SUBSET Last0(0) |-> base]
  <2>0. Last0(0) = {}
    OBVIOUS
  <2>1. g \in [SUBSET Last0(0) -> S]
    OBVIOUS
  <2>2. \A s \in SUBSET Last0(0) : s = {} /\ g[s] = base
    BY <2>0
  <2>3. Solves(g, 0)
    BY <2>2
  <2> HIDE DEF g, Solves, Last0
  <2> QED BY <2>1, <2>3
<1>2. ASSUME NEW k \in 1 .. n, k - 1 \in P
      PROVE  k \in P
  <2>1. PICK g \in [SUBSET Last0(k - 1) -> S] : Solves(g, k - 1)
    BY <1>2
  <2> DEFINE m == n + 1 - k
             h == [s \in SUBSET Last0(k) |->
                      IF m \in s THEN f[<<m, g[s \ {m}]>>] ELSE g[s]]
  <2>0. m \in 1 .. n /\ Last0(k) = m .. n /\ Last0(k - 1) = m + 1 .. n
    OBVIOUS
  <2> HIDE DEF Last0, m
  <2>2. \A s \in SUBSET Last0(k) : s \ {m} \in SUBSET Last0(k - 1)
    BY <2>0
  <2>3. \A s \in SUBSET Last0(k) : m \notin s => s \in SUBSET Last0(k - 1)
    BY <2>0
  <2>4. h \in [SUBSET Last0(k) -> S]
    BY <2>0, <2>2, <2>3
  <2>5. \A s \in SUBSET Last0(k - 1) : h[s] = g[s]
    <3>1. \A s \in SUBSET Last0(k - 1) : s \in SUBSET Last0(k) /\ m \notin s
      BY <2>0
    <3> QED BY <3>1
  <2>6. ASSUME NEW s \in SUBSET Last0(k), m \in s
        PROVE  h[s] = IF s = {} THEN base ELSE f[<<Window!Min(s), h[s \ {Window!Min(s)}]>>]
    <3>1. Window!Min(s) = m
      <4>1. \A y \in s : m =< y /\ y \in Int
        BY <2>0
      <4>2. \A x \in s : (\A y \in s : x =< y) => x = m
        BY <2>0, <2>6, <4>1
      <4> QED BY <2>6, <4>1, <4>2 DEF Window!Min
    <3>2. h[s] = f[<<m, g[s \ {m}]>>] /\ s # {}
      BY <2>6
    <3>3. h[s \ {m}] = g[s \ {m}]
      BY <2>2, <2>5
    <3> HIDE DEF h
    <3> QED BY <3>1, <3>2, <3>3
  <2>7. ASSUME NEW s \in SUBSET Last0(k), m \notin s
        PROVE  h[s] = IF s = {} THEN base ELSE f[<<Window!Min(s), h[s \ {Window!Min(s)}]>>]
    <3>1. s \in SUBSET Last0(k - 1) /\ s \ {Window!Min(s)} \in SUBSET Last0(k - 1)
      BY <2>3, <2>7
    <3>2. h[s] = g[s] /\ h[s \ {Window!Min(s)}] = g[s \ {Window!Min(s)}]
      BY <2>5, <3>1
    <3> HIDE DEF h
    <3> QED BY <2>1, <3>1, <3>2
  <2>8. Solves(h, k)
    BY <2>6, <2>7
  <2> HIDE DEF h, Solves
  <2> QED BY <2>4, <2>8
<1>3. n \in P
  <2> HIDE DEF P
  <2>1. 0 .. n \subseteq P
    BY <1>1, <1>2, WindowUpTo
  <2> QED BY <2>1
<1>4. Last0(n) = 1 .. n
  OBVIOUS
<1> HIDE DEF Last0
<1> QED BY <1>3, <1>4 DEF WindowFoldsRight

-----------------------------------------------------------------------------
(* The steps of the folds.                                                  *)

WindowAdded(sizes, i, x) == x + sizes[i]

WindowTexted(old, i, t) == IF old[i].size = 0 THEN t ELSE Append(t, old[i])

WindowPaired == [question : {None} \cup Window!Message,
pairs : Seq(Window!Message \X Window!Message)]
WindowUnpaired == [question |-> None, pairs |-> <<>>]
WindowPairedWith(old, i, t) ==
    IF old[i].size = 0 THEN t
    ELSE IF old[i].role = "user" THEN [t EXCEPT !.question = old[i]]
    ELSE IF t.question = None THEN t
    ELSE [question |-> None, pairs |-> Append(t.pairs, <<t.question, old[i]>>)]

WindowTaken == [full : BOOLEAN, used : Nat, kept : Seq(Window!Message)]
WindowUntaken == [full |-> FALSE, used |-> 0, kept |-> <<>>]
WindowTook(recent, budget, i, t) ==
    IF t.full \/ t.used + Window!MessageTokens(recent[i]) > budget
    THEN [t EXCEPT !.full = TRUE]
    ELSE [t EXCEPT !.used = @ + Window!MessageTokens(recent[i]), !.kept = <<recent[i]>> \o @]

LEMMA WindowSizesOf ==
    ASSUME NEW m \in Window!Message, Window!ContextWindowAssumption
    PROVE  m.size \in Nat /\ Window!MessageTokens(m) \in Nat \ {0}
           /\ Window!Clipped(m.size) \in Nat
<1>1. Overhead \in Nat \ {0} /\ Clip \in Nat \ {0} /\ MessageSize \subseteq Nat
  BY DEF Window!ContextWindowAssumption
<1>2. m.size \in Nat
  BY <1>1 DEF Window!Message
<1> QED BY <1>1, <1>2 DEF Window!MessageTokens, Window!EstimateTokens, Window!Clipped,
             Window!SmallerOf, Window!LargerOf

LEMMA WindowClosedPairs ==
    ASSUME NEW old \in Seq(Window!Message), NEW i \in 1 .. Len(old), NEW t \in WindowPaired
    PROVE  WindowPairedWith(old, i, t) \in WindowPaired
<1>1. old[i] \in Window!Message
  OBVIOUS
<1>2. t.pairs \in Seq(Window!Message \X Window!Message) /\ t.question \in {None}
        \cup Window!Message
  BY DEF WindowPaired
<1>3. CASE old[i].size = 0
  BY <1>3 DEF WindowPairedWith
<1>4. CASE old[i].size # 0 /\ old[i].role = "user"
  BY <1>1, <1>4 DEF WindowPairedWith, WindowPaired
<1>5. CASE old[i].size # 0 /\ old[i].role # "user" /\ t.question = None
  BY <1>5 DEF WindowPairedWith
<1>6. CASE old[i].size # 0 /\ old[i].role # "user" /\ t.question # None
  <2>1. WindowPairedWith(old, i, t)
          = [question |-> None, pairs |-> Append(t.pairs, <<t.question, old[i]>>)]
    BY <1>6 DEF WindowPairedWith
  <2>2. <<t.question, old[i]>> \in Window!Message \X Window!Message
    BY <1>1, <1>2, <1>6
  <2>3. Append(t.pairs, <<t.question, old[i]>>) \in Seq(Window!Message \X Window!Message)
    BY <1>2, <2>2
  <2> QED BY <2>1, <2>3 DEF WindowPaired
<1> QED BY <1>3, <1>4, <1>5, <1>6

LEMMA WindowClosedTail ==
    ASSUME NEW recent \in Seq(Window!Message), NEW budget \in Int,
           NEW i \in 1 .. Len(recent), NEW t \in WindowTaken, Window!ContextWindowAssumption
    PROVE  WindowTook(recent, budget, i, t) \in WindowTaken
<1>1. recent[i] \in Window!Message /\ Window!MessageTokens(recent[i]) \in Nat
  BY WindowSizesOf
<1>2. t.full \in BOOLEAN /\ t.used \in Nat /\ t.kept \in Seq(Window!Message)
  BY DEF WindowTaken
<1>3. t.used + Window!MessageTokens(recent[i]) \in Nat
      /\ <<recent[i]>> \o t.kept \in Seq(Window!Message)
  BY <1>1, <1>2
<1> QED BY <1>2, <1>3 DEF WindowTook, WindowTaken

(* The folds.                                                                *)

\* Total adds one size after the other.
LEMMA WindowTotalIs ==
    ASSUME NEW sizes \in Seq(Nat)
    PROVE  \E F \in [0 .. Len(sizes) -> Nat] :
              /\ F[0] = 0
              /\ \A k \in 1 .. Len(sizes) : F[k] = WindowAdded(sizes, k, F[k - 1])
              /\ Window!Total(sizes) = F[Len(sizes)]
<1> DEFINE n == Len(sizes)
           f == [p \in (1 .. n) \X Nat |-> WindowAdded(sizes, p[1], p[2])]
           it == CHOOSE it : it = [s \in SUBSET DOMAIN sizes |->
                    IF s = {} THEN 0 ELSE WindowAdded(sizes, Window!Max(s),
                    it[s \ {Window!Max(s)}])]
<1>1. n \in Nat /\ DOMAIN sizes = 1 .. n
  OBVIOUS
<1>2. Window!Total(sizes) = it[DOMAIN sizes]
  BY DEF Window!Total, WindowAdded, Window!FoldLeft, Window!MapThenFoldSet
<1>3. \A i \in 1 .. n, x \in Nat : WindowAdded(sizes, i, x) \in Nat
  BY DEF WindowAdded
<1>4. \A i \in 1 .. n, x \in Nat : f[<<i, x>>] = WindowAdded(sizes, i, x)
  OBVIOUS
<1> HIDE DEF n, f, it
<1>5. PICK g \in [SUBSET (1 .. n) -> Nat] : WindowFoldsLeft(g, n, 0, f)
  <2>1. 0 \in Nat /\ \A i \in 1 .. n, x \in Nat : f[<<i, x>>] \in Nat
    BY <1>3, <1>4
  <2>2. n \in Nat
    BY <1>1
  <2> QED BY <2>1, <2>2, WindowFoldLeftExists
<1>6. \A s \in SUBSET (1 .. n) :
         g[s] = IF s = {} THEN 0 ELSE WindowAdded(sizes, Window!Max(s), g[s \ {Window!Max(s)}])
  <2> TAKE s \in SUBSET (1 .. n)
  <2>1. CASE s = {}
    BY <1>5, <2>1 DEF WindowFoldsLeft
  <2>2. CASE s # {}
    <3>1. Window!Max(s) \in 1 .. n
      BY <1>1, <2>2, WindowBounds
    <3>2. g[s \ {Window!Max(s)}] \in Nat
      BY <1>5
    <3> QED BY <1>4, <1>5, <2>2, <3>1, <3>2 DEF WindowFoldsLeft
  <2> QED BY <2>1, <2>2
<1>7. g = [s \in SUBSET DOMAIN sizes |->
              IF s = {} THEN 0 ELSE WindowAdded(sizes, Window!Max(s), g[s \ {Window!Max(s)}])]
  BY <1>1, <1>5, <1>6
<1>8. it = [s \in SUBSET DOMAIN sizes |->
               IF s = {} THEN 0 ELSE WindowAdded(sizes, Window!Max(s), it[s \ {Window!Max(s)}])]
  BY <1>7 DEF it
<1> DEFINE firsts(k) == 1 .. k
<1>9. it[{}] = 0 /\ \A k \in 1 .. n : it[firsts(k)] = WindowAdded(sizes, k, it[firsts(k - 1)])
  <2>1. it[{}] = 0
    BY <1>8
  <2>2. ASSUME NEW k \in 1 .. n
        PROVE  it[firsts(k)] = WindowAdded(sizes, k, it[firsts(k - 1)])
    <3>1. k \in Nat \ {0}
      BY <1>1
    <3>2. Window!Max(firsts(k)) = k /\ firsts(k) \ {k} = firsts(k - 1) /\ firsts(k) # {}
      BY <3>1, WindowMaxOfFirst
    <3>3. firsts(k) \in SUBSET DOMAIN sizes
      BY <1>1
    <3> HIDE DEF firsts
    <3> QED BY <1>8, <3>2, <3>3
  <2> QED BY <2>1, <2>2
<1>0. firsts(0) = {} /\ firsts(n) = DOMAIN sizes
  BY <1>1
<1> DEFINE F == [k \in 0 .. n |-> it[firsts(k)]]
           P == {k \in 0 .. n : F[k] \in Nat}
<1>10. F[0] = 0 /\ \A k \in 1 .. n : F[k] = WindowAdded(sizes, k, F[k - 1])
  <2>1. 0 \in 0 .. n
    BY <1>1
  <2>2. \A k \in 1 .. n : k \in 0 .. n /\ k - 1 \in 0 .. n
    BY <1>1
  <2> HIDE DEF firsts
  <2> QED BY <1>9, <1>0, <2>1, <2>2
<1>11. Window!Total(sizes) = F[n]
  <2>1. n \in 0 .. n
    BY <1>1
  <2> HIDE DEF firsts
  <2> QED BY <1>1, <1>2, <1>0, <2>1
<1> HIDE DEF F
<1>12. 0 .. n \subseteq P
  <2>1. 0 \in P
    <3>1. F[0] \in Nat
      BY <1>10
    <3>2. 0 \in 0 .. n
      BY <1>1
    <3> QED BY <3>1, <3>2
  <2>2. ASSUME NEW k \in 1 .. n, k - 1 \in P
        PROVE  k \in P
    <3>1. F[k - 1] \in Nat /\ k \in 0 .. n
      BY <1>1, <2>2
    <3>2. F[k] = WindowAdded(sizes, k, F[k - 1])
      BY <1>10
    <3>3. k \in 1 .. n
      BY <1>1
    <3> QED BY <1>3, <3>1, <3>2, <3>3
  <2> HIDE DEF P
  <2> QED BY <1>1, <2>1, <2>2, WindowUpTo
<1>13. F \in [0 .. n -> Nat]
  BY <1>12 DEF F
<1> QED BY <1>10, <1>11, <1>13 DEF n

\* What has a text is some of the messages.
LEMMA WindowTextsAre ==
    ASSUME NEW old \in Seq(Window!Message)
    PROVE  \E F \in [0 .. Len(old) -> Seq(Window!Message)] :
              /\ F[0] = <<>>
              /\ \A k \in 1 .. Len(old) : F[k] = WindowTexted(old, k, F[k - 1])
              /\ Window!Texts(old) = F[Len(old)]
<1> DEFINE n == Len(old)
           f == [p \in (1 .. n) \X Seq(Window!Message) |-> WindowTexted(old, p[1], p[2])]
           it == CHOOSE it : it = [s \in SUBSET DOMAIN old |->
                    IF s = {} THEN <<>> ELSE WindowTexted(old, Window!Max(s),
                    it[s \ {Window!Max(s)}])]
<1>1. n \in Nat /\ DOMAIN old = 1 .. n
  OBVIOUS
<1>2. Window!Texts(old) = it[DOMAIN old]
  BY DEF Window!Texts, WindowTexted, Window!FoldLeft, Window!MapThenFoldSet
<1>3. \A i \in 1 .. n, x \in Seq(Window!Message) : WindowTexted(old, i,
    x) \in Seq(Window!Message)
  BY DEF WindowTexted
<1>4. \A i \in 1 .. n, x \in Seq(Window!Message) : f[<<i, x>>] = WindowTexted(old, i, x)
  OBVIOUS
<1> HIDE DEF n, f, it
<1>5. PICK g \in [SUBSET (1 .. n) -> Seq(Window!Message)] : WindowFoldsLeft(g, n, <<>>, f)
  <2>1. <<>> \in Seq(Window!Message) /\ \A i \in 1 .. n,
                                            x \in Seq(Window!Message) : f[<<i, x>>] \in Seq(Window!Message)
    BY <1>3, <1>4
  <2>2. n \in Nat
    BY <1>1
  <2> QED BY <2>1, <2>2, WindowFoldLeftExists
<1>6. \A s \in SUBSET (1 .. n) :
         g[s] = IF s = {} THEN <<>> ELSE WindowTexted(old, Window!Max(s),
         g[s \ {Window!Max(s)}])
  <2> TAKE s \in SUBSET (1 .. n)
  <2>1. CASE s = {}
    BY <1>5, <2>1 DEF WindowFoldsLeft
  <2>2. CASE s # {}
    <3>1. Window!Max(s) \in 1 .. n
      BY <1>1, <2>2, WindowBounds
    <3>2. g[s \ {Window!Max(s)}] \in Seq(Window!Message)
      BY <1>5
    <3> QED BY <1>4, <1>5, <2>2, <3>1, <3>2 DEF WindowFoldsLeft
  <2> QED BY <2>1, <2>2
<1>7. g = [s \in SUBSET DOMAIN old |->
              IF s = {} THEN <<>> ELSE WindowTexted(old, Window!Max(s), g[s \ {Window!Max(s)}])]
  BY <1>1, <1>5, <1>6
<1>8. it = [s \in SUBSET DOMAIN old |->
               IF s = {} THEN <<>> ELSE WindowTexted(old, Window!Max(s),
               it[s \ {Window!Max(s)}])]
  BY <1>7 DEF it
<1> DEFINE firsts(k) == 1 .. k
<1>9. it[{}] = <<>> /\ \A k \in 1 .. n : it[firsts(k)] = WindowTexted(old, k, it[firsts(k - 1)])
  <2>1. it[{}] = <<>>
    BY <1>8
  <2>2. ASSUME NEW k \in 1 .. n
        PROVE  it[firsts(k)] = WindowTexted(old, k, it[firsts(k - 1)])
    <3>1. k \in Nat \ {0}
      BY <1>1
    <3>2. Window!Max(firsts(k)) = k /\ firsts(k) \ {k} = firsts(k - 1) /\ firsts(k) # {}
      BY <3>1, WindowMaxOfFirst
    <3>3. firsts(k) \in SUBSET DOMAIN old
      BY <1>1
    <3> HIDE DEF firsts
    <3> QED BY <1>8, <3>2, <3>3
  <2> QED BY <2>1, <2>2
<1>0. firsts(0) = {} /\ firsts(n) = DOMAIN old
  BY <1>1
<1> DEFINE F == [k \in 0 .. n |-> it[firsts(k)]]
           P == {k \in 0 .. n : F[k] \in Seq(Window!Message)}
<1>10. F[0] = <<>> /\ \A k \in 1 .. n : F[k] = WindowTexted(old, k, F[k - 1])
  <2>1. 0 \in 0 .. n
    BY <1>1
  <2>2. \A k \in 1 .. n : k \in 0 .. n /\ k - 1 \in 0 .. n
    BY <1>1
  <2> HIDE DEF firsts
  <2> QED BY <1>9, <1>0, <2>1, <2>2
<1>11. Window!Texts(old) = F[n]
  <2>1. n \in 0 .. n
    BY <1>1
  <2> HIDE DEF firsts
  <2> QED BY <1>1, <1>2, <1>0, <2>1
<1> HIDE DEF F
<1>12. 0 .. n \subseteq P
  <2>1. 0 \in P
    <3>1. F[0] \in Seq(Window!Message)
      BY <1>10
    <3>2. 0 \in 0 .. n
      BY <1>1
    <3> QED BY <3>1, <3>2
  <2>2. ASSUME NEW k \in 1 .. n, k - 1 \in P
        PROVE  k \in P
    <3>1. F[k - 1] \in Seq(Window!Message) /\ k \in 0 .. n
      BY <1>1, <2>2
    <3>2. F[k] = WindowTexted(old, k, F[k - 1])
      BY <1>10
    <3>3. k \in 1 .. n
      BY <1>1
    <3> QED BY <1>3, <3>1, <3>2, <3>3
  <2> HIDE DEF P
  <2> QED BY <1>1, <2>1, <2>2, WindowUpTo
<1>13. F \in [0 .. n -> Seq(Window!Message)]
  BY <1>12 DEF F
<1> QED BY <1>10, <1>11, <1>13 DEF n

\* Pairs takes one message after the other.
LEMMA WindowPairsAre ==
    ASSUME NEW old \in Seq(Window!Message)
    PROVE  \E F \in [0 .. Len(old) -> WindowPaired] :
              /\ F[0] = WindowUnpaired
              /\ \A k \in 1 .. Len(old) : F[k] = WindowPairedWith(old, k, F[k - 1])
              /\ Window!Pairs(old) = F[Len(old)].pairs
<1> DEFINE n == Len(old)
           f == [p \in (1 .. n) \X WindowPaired |-> WindowPairedWith(old, p[1], p[2])]
           it == CHOOSE it : it = [s \in SUBSET DOMAIN old |->
                    IF s = {} THEN WindowUnpaired ELSE WindowPairedWith(old, Window!Max(s),
                    it[s \ {Window!Max(s)}])]
<1>1. n \in Nat /\ DOMAIN old = 1 .. n
  OBVIOUS
<1>2. Window!Pairs(old) = it[DOMAIN old].pairs
  BY DEF Window!Pairs, WindowUnpaired, WindowPairedWith, Window!FoldLeft, Window!MapThenFoldSet
<1>3. \A i \in 1 .. n, x \in WindowPaired : WindowPairedWith(old, i, x) \in WindowPaired
  BY WindowClosedPairs
<1>4. \A i \in 1 .. n, x \in WindowPaired : f[<<i, x>>] = WindowPairedWith(old, i, x)
  OBVIOUS
<1> HIDE DEF n, f, it
<1>5. PICK g \in [SUBSET (1 .. n) -> WindowPaired] : WindowFoldsLeft(g, n, WindowUnpaired, f)
  <2>1. WindowUnpaired \in WindowPaired /\ \A i \in 1 .. n,
                                               x \in WindowPaired : f[<<i, x>>] \in WindowPaired
    BY <1>3, <1>4 DEF WindowUnpaired, WindowPaired
  <2>2. n \in Nat
    BY <1>1
  <2> QED BY <2>1, <2>2, WindowFoldLeftExists
<1>6. \A s \in SUBSET (1 .. n) :
         g[s] = IF s = {} THEN WindowUnpaired ELSE WindowPairedWith(old, Window!Max(s),
         g[s \ {Window!Max(s)}])
  <2> TAKE s \in SUBSET (1 .. n)
  <2>1. CASE s = {}
    BY <1>5, <2>1 DEF WindowFoldsLeft
  <2>2. CASE s # {}
    <3>1. Window!Max(s) \in 1 .. n
      BY <1>1, <2>2, WindowBounds
    <3>2. g[s \ {Window!Max(s)}] \in WindowPaired
      BY <1>5
    <3> QED BY <1>4, <1>5, <2>2, <3>1, <3>2 DEF WindowFoldsLeft
  <2> QED BY <2>1, <2>2
<1>7. g = [s \in SUBSET DOMAIN old |->
              IF s = {} THEN WindowUnpaired ELSE WindowPairedWith(old, Window!Max(s),
              g[s \ {Window!Max(s)}])]
  BY <1>1, <1>5, <1>6
<1>8. it = [s \in SUBSET DOMAIN old |->
               IF s = {} THEN WindowUnpaired ELSE WindowPairedWith(old, Window!Max(s),
               it[s \ {Window!Max(s)}])]
  BY <1>7 DEF it
<1> DEFINE firsts(k) == 1 .. k
<1>9. it[{}] = WindowUnpaired /\ \A k \in 1 .. n : it[firsts(k)] = WindowPairedWith(old, k,
                                     it[firsts(k - 1)])
  <2>1. it[{}] = WindowUnpaired
    BY <1>8
  <2>2. ASSUME NEW k \in 1 .. n
        PROVE  it[firsts(k)] = WindowPairedWith(old, k, it[firsts(k - 1)])
    <3>1. k \in Nat \ {0}
      BY <1>1
    <3>2. Window!Max(firsts(k)) = k /\ firsts(k) \ {k} = firsts(k - 1) /\ firsts(k) # {}
      BY <3>1, WindowMaxOfFirst
    <3>3. firsts(k) \in SUBSET DOMAIN old
      BY <1>1
    <3> HIDE DEF firsts
    <3> QED BY <1>8, <3>2, <3>3
  <2> QED BY <2>1, <2>2
<1>0. firsts(0) = {} /\ firsts(n) = DOMAIN old
  BY <1>1
<1> DEFINE F == [k \in 0 .. n |-> it[firsts(k)]]
           P == {k \in 0 .. n : F[k] \in WindowPaired}
<1>10. F[0] = WindowUnpaired /\ \A k \in 1 .. n : F[k] = WindowPairedWith(old, k, F[k - 1])
  <2>1. 0 \in 0 .. n
    BY <1>1
  <2>2. \A k \in 1 .. n : k \in 0 .. n /\ k - 1 \in 0 .. n
    BY <1>1
  <2> HIDE DEF firsts
  <2> QED BY <1>9, <1>0, <2>1, <2>2
<1>11. Window!Pairs(old) = F[n].pairs
  <2>1. n \in 0 .. n
    BY <1>1
  <2> HIDE DEF firsts
  <2> QED BY <1>1, <1>2, <1>0, <2>1
<1> HIDE DEF F
<1>12. 0 .. n \subseteq P
  <2>1. 0 \in P
    <3>1. F[0] \in WindowPaired
      BY <1>10 DEF WindowUnpaired, WindowPaired
    <3>2. 0 \in 0 .. n
      BY <1>1
    <3> QED BY <3>1, <3>2
  <2>2. ASSUME NEW k \in 1 .. n, k - 1 \in P
        PROVE  k \in P
    <3>1. F[k - 1] \in WindowPaired /\ k \in 0 .. n
      BY <1>1, <2>2
    <3>2. F[k] = WindowPairedWith(old, k, F[k - 1])
      BY <1>10
    <3>3. k \in 1 .. n
      BY <1>1
    <3> QED BY <1>3, <3>1, <3>2, <3>3
  <2> HIDE DEF P
  <2> QED BY <1>1, <2>1, <2>2, WindowUpTo
<1>13. F \in [0 .. n -> WindowPaired]
  BY <1>12 DEF F
<1> QED BY <1>10, <1>11, <1>13 DEF n

\* FitTail takes one message after the other, from the newest on.
LEMMA WindowTailIs ==
    ASSUME NEW recent \in Seq(Window!Message), NEW budget \in Int,
           Window!ContextWindowAssumption
    PROVE  \E F \in [0 .. Len(recent) -> WindowTaken] :
              /\ F[0] = WindowUntaken
              /\ \A k \in 1 .. Len(recent) : F[k] = WindowTook(recent, budget,
                     Len(recent) + 1 - k, F[k - 1])
              /\ Window!FitTail(recent, budget) = F[Len(recent)].kept
<1> DEFINE n == Len(recent)
           f == [p \in (1 .. n) \X WindowTaken |-> WindowTook(recent, budget, p[1], p[2])]
           it == CHOOSE it : it = [s \in SUBSET DOMAIN recent |->
                    IF s = {} THEN WindowUntaken ELSE WindowTook(recent, budget, Window!Min(s),
                    it[s \ {Window!Min(s)}])]
<1>1. n \in Nat /\ DOMAIN recent = 1 .. n
  OBVIOUS
<1>2. Window!FitTail(recent, budget) = it[DOMAIN recent].kept
  BY DEF Window!FitTail, WindowUntaken, WindowTook, Window!FoldRight, Window!MapThenFoldSet
<1>3. \A i \in 1 .. n, x \in WindowTaken : WindowTook(recent, budget, i, x) \in WindowTaken
  BY WindowClosedTail
<1>4. \A i \in 1 .. n, x \in WindowTaken : f[<<i, x>>] = WindowTook(recent, budget, i, x)
  OBVIOUS
<1> HIDE DEF n, f, it
<1>5. PICK g \in [SUBSET (1 .. n) -> WindowTaken] : WindowFoldsRight(g, n, WindowUntaken, f)
  <2>1. WindowUntaken \in WindowTaken /\ \A i \in 1 .. n,
                                             x \in WindowTaken : f[<<i, x>>] \in WindowTaken
    BY <1>3, <1>4 DEF WindowUntaken, WindowTaken
  <2>2. n \in Nat
    BY <1>1
  <2> QED BY <2>1, <2>2, WindowFoldRightExists
<1>6. \A s \in SUBSET (1 .. n) :
         g[s] = IF s = {} THEN WindowUntaken ELSE WindowTook(recent, budget, Window!Min(s),
         g[s \ {Window!Min(s)}])
  <2> TAKE s \in SUBSET (1 .. n)
  <2>1. CASE s = {}
    BY <1>5, <2>1 DEF WindowFoldsRight
  <2>2. CASE s # {}
    <3>1. Window!Min(s) \in 1 .. n
      BY <1>1, <2>2, WindowBounds
    <3>2. g[s \ {Window!Min(s)}] \in WindowTaken
      BY <1>5
    <3> QED BY <1>4, <1>5, <2>2, <3>1, <3>2 DEF WindowFoldsRight
  <2> QED BY <2>1, <2>2
<1>7. g = [s \in SUBSET DOMAIN recent |->
              IF s = {} THEN WindowUntaken ELSE WindowTook(recent, budget, Window!Min(s),
              g[s \ {Window!Min(s)}])]
  BY <1>1, <1>5, <1>6
<1>8. it = [s \in SUBSET DOMAIN recent |->
               IF s = {} THEN WindowUntaken ELSE WindowTook(recent, budget, Window!Min(s),
               it[s \ {Window!Min(s)}])]
  BY <1>7 DEF it
<1> DEFINE firsts(k) == n + 1 - k .. n
<1>9. it[{}] = WindowUntaken /\ \A k \in 1 .. n : it[firsts(k)] = WindowTook(recent, budget,
                                    n + 1 - k, it[firsts(k - 1)])
  <2>1. it[{}] = WindowUntaken
    BY <1>8
  <2>2. ASSUME NEW k \in 1 .. n
        PROVE  it[firsts(k)] = WindowTook(recent, budget, n + 1 - k, it[firsts(k - 1)])
    <3>1. n + 1 - k \in 1 .. n /\ n \in Nat /\ n + 1 - (k - 1) = n + 1 - k + 1
      BY <1>1
    <3>2. /\ Window!Min(firsts(k)) = n + 1 - k
          /\ firsts(k) \ {n + 1 - k} = firsts(k - 1)
          /\ firsts(k) # {}
      BY <3>1, WindowMinOfLast
    <3>3. firsts(k) \in SUBSET DOMAIN recent
      BY <1>1
    <3> HIDE DEF firsts
    <3> QED BY <1>8, <3>2, <3>3
  <2> QED BY <2>1, <2>2
<1>0. firsts(0) = {} /\ firsts(n) = DOMAIN recent
  BY <1>1
<1> DEFINE F == [k \in 0 .. n |-> it[firsts(k)]]
           P == {k \in 0 .. n : F[k] \in WindowTaken}
<1>10. F[0] = WindowUntaken /\ \A k \in 1 .. n : F[k] = WindowTook(recent, budget, n + 1 - k,
                                   F[k - 1])
  <2>1. 0 \in 0 .. n
    BY <1>1
  <2>2. \A k \in 1 .. n : k \in 0 .. n /\ k - 1 \in 0 .. n
    BY <1>1
  <2> HIDE DEF firsts
  <2> QED BY <1>9, <1>0, <2>1, <2>2
<1>11. Window!FitTail(recent, budget) = F[n].kept
  <2>1. n \in 0 .. n
    BY <1>1
  <2> HIDE DEF firsts
  <2> QED BY <1>1, <1>2, <1>0, <2>1
<1> HIDE DEF F
<1>12. 0 .. n \subseteq P
  <2>1. 0 \in P
    <3>1. F[0] \in WindowTaken
      BY <1>10 DEF WindowUntaken, WindowTaken
    <3>2. 0 \in 0 .. n
      BY <1>1
    <3> QED BY <3>1, <3>2
  <2>2. ASSUME NEW k \in 1 .. n, k - 1 \in P
        PROVE  k \in P
    <3>1. F[k - 1] \in WindowTaken /\ k \in 0 .. n
      BY <1>1, <2>2
    <3>2. F[k] = WindowTook(recent, budget, n + 1 - k, F[k - 1])
      BY <1>10
    <3>3. n + 1 - k \in 1 .. n
      BY <1>1
    <3> QED BY <1>3, <3>1, <3>2, <3>3
  <2> HIDE DEF P
  <2> QED BY <1>1, <2>1, <2>2, WindowUpTo
<1>13. F \in [0 .. n -> WindowTaken]
  BY <1>12 DEF F
<1> QED BY <1>10, <1>11, <1>13 DEF n
-----------------------------------------------------------------------------
(* The history.                                                              *)

\* The total of sizes with one more before them.
LEMMA WindowTotalOfMore ==
    ASSUME NEW x \in Nat, NEW sizes \in Seq(Nat)
    PROVE  Window!Total(<<x>> \o sizes) = x + Window!Total(sizes)
           /\ Window!Total(sizes) \in Nat /\ Window!Total(<<>>) = 0
<1> DEFINE n == Len(sizes)
           more == <<x>> \o sizes
<1>1. n \in Nat /\ more \in Seq(Nat) /\ Len(more) = n + 1 /\ more[1] = x
  OBVIOUS
<1>2. \A k \in 1 .. n : more[k + 1] = sizes[k] /\ sizes[k] \in Nat
  OBVIOUS
<1> HIDE DEF more
<1>3. PICK F \in [0 .. n -> Nat] :
         /\ F[0] = 0
         /\ \A k \in 1 .. n : F[k] = WindowAdded(sizes, k, F[k - 1])
         /\ Window!Total(sizes) = F[n]
  BY WindowTotalIs
<1>4. PICK G \in [0 .. n + 1 -> Nat] :
         /\ G[0] = 0
         /\ \A k \in 1 .. n + 1 : G[k] = WindowAdded(more, k, G[k - 1])
         /\ Window!Total(more) = G[n + 1]
  BY <1>1, WindowTotalIs
<1> HIDE DEF n
<1> DEFINE P == {k \in 0 .. n : G[k + 1] = x + F[k]}
<1>5. 0 \in P
  <2>1. 1 \in 1 .. n + 1 /\ 1 - 1 = 0 /\ 0 + 1 = 1 /\ 0 \in 0 .. n
    BY <1>1
  <2>2. G[1] = G[0] + more[1]
    BY <1>4, <2>1 DEF WindowAdded
  <2> QED BY <1>1, <1>3, <1>4, <2>1, <2>2
<1>6. ASSUME NEW k \in 1 .. n, k - 1 \in P
      PROVE  k \in P
  <2>1. k + 1 \in 1 .. n + 1 /\ (k + 1) - 1 = k /\ (k - 1) + 1 = k /\ k \in 0 .. n
        /\ k - 1 \in 0 .. n
    BY <1>1
  <2>2. G[k + 1] = G[k] + sizes[k] /\ F[k] = F[k - 1] + sizes[k]
    BY <1>2, <1>3, <1>4, <2>1 DEF WindowAdded
  <2>3. G[k] = x + F[k - 1]
    BY <1>6, <2>1
  <2>4. F[k - 1] \in Nat /\ sizes[k] \in Nat
    BY <1>2, <2>1
  <2> QED BY <2>1, <2>2, <2>3, <2>4
<1>7. G[n + 1] = x + F[n]
  <2> HIDE DEF P
  <2>1. 0 .. n \subseteq P
    BY <1>1, <1>5, <1>6, WindowUpTo
  <2> QED BY <1>1, <2>1 DEF P
<1>8. Window!Total(<<>>) = 0
  <2>1. <<>> \in Seq(Nat) /\ Len(<<>>) = 0
    OBVIOUS
  <2>2. \E H \in [0 .. Len(<<>>) -> Nat] : H[0] = 0 /\ Window!Total(<<>>) = H[Len(<<>>)]
    BY <2>1, WindowTotalIs
  <2> QED BY <2>1, <2>2
<1>9. Window!Total(more) = x + Window!Total(sizes) /\ Window!Total(sizes) \in Nat
  BY <1>1, <1>3, <1>4, <1>7
<1> QED BY <1>8, <1>9 DEF more

\* The tokens of some messages.
LEMMA WindowTokensOf ==
    ASSUME NEW s \in Seq(Window!Message), Window!ContextWindowAssumption
    PROVE  /\ Window!Tokens(s) \in Nat /\ Window!Tokens(<<>>) = 0
           /\ \A m \in Window!Message : Window!Tokens(<<m>> \o s)
                = Window!MessageTokens(m) + Window!Tokens(s)
<1> DEFINE sizes == [i \in DOMAIN s |-> Window!MessageTokens(s[i])]
<1>1. DOMAIN s = 1 .. Len(s) /\ Len(s) \in Nat /\ \A i \in DOMAIN s : s[i] \in Window!Message
  OBVIOUS
<1>2. \A i \in DOMAIN s : Window!MessageTokens(s[i]) \in Nat
  BY <1>1, WindowSizesOf
<1>3. sizes \in Seq(Nat)
  BY <1>1, <1>2
<1>4. Window!Tokens(s) \in Nat
  <2>1. 0 \in Nat
    OBVIOUS
  <2> HIDE DEF sizes
  <2>2. Window!Total(sizes) \in Nat
    BY <1>3, <2>1, WindowTotalOfMore
  <2> QED BY <2>2 DEF Window!Tokens, sizes
<1>5. Window!Tokens(<<>>) = 0
  <2>1. 0 \in Nat /\ <<>> \in Seq(Nat)
    OBVIOUS
  <2>2. Window!Total(<<>>) = 0
    BY <2>1, WindowTotalOfMore
  <2>3. [i \in DOMAIN <<>> |-> Window!MessageTokens(<<>>[i])] = <<>>
    OBVIOUS
  <2> QED BY <2>2, <2>3 DEF Window!Tokens
<1>6. ASSUME NEW m \in Window!Message
      PROVE  Window!Tokens(<<m>> \o s) = Window!MessageTokens(m) + Window!Tokens(s)
  <2> DEFINE more == <<m>> \o s
  <2>1. more \in Seq(Window!Message) /\ DOMAIN more = 1 .. Len(s) + 1 /\ more[1] = m
    OBVIOUS
  <2>2. \A i \in 2 .. Len(s) + 1 : more[i] = s[i - 1]
    BY <1>1
  <2>3. Len(sizes) = Len(s)
    BY <1>1
  <2>4. Window!MessageTokens(m) \in Nat
    BY WindowSizesOf
  <2> HIDE DEF more
  <2>5. [i \in DOMAIN more |-> Window!MessageTokens(more[i])]
          = <<Window!MessageTokens(m)>> \o sizes
    <3> DEFINE l == [i \in DOMAIN more |-> Window!MessageTokens(more[i])]
               r == <<Window!MessageTokens(m)>> \o sizes
    <3>1. DOMAIN l = 1 .. Len(s) + 1 /\ l \in [1 .. Len(s) + 1 -> Nat]
      <4>1. \A i \in DOMAIN more : Window!MessageTokens(more[i]) \in Nat
        BY <2>1, WindowSizesOf
      <4> QED BY <2>1, <4>1
    <3>2. r \in Seq(Nat) /\ Len(r) = Len(s) + 1 /\ r[1] = Window!MessageTokens(m)
      <4> HIDE DEF sizes
      <4> QED BY <1>1, <1>3, <2>3, <2>4
    <3>3. \A i \in 2 .. Len(s) + 1 : r[i] = sizes[i - 1]
      <4> HIDE DEF sizes
      <4> QED BY <1>1, <1>3, <2>3, <2>4
    <3>4. \A i \in 2 .. Len(s) + 1 : sizes[i - 1] = Window!MessageTokens(s[i - 1])
      BY <1>1
    <3>5. \A i \in 1 .. Len(s) + 1 : l[i] = r[i]
      <4> TAKE i \in 1 .. Len(s) + 1
      <4>1. l[i] = Window!MessageTokens(more[i])
        BY <2>1
      <4> HIDE DEF l, r
      <4>2. CASE i = 1
        BY <2>1, <3>2, <4>1, <4>2
      <4>3. CASE i # 1
        <5>1. i \in 2 .. Len(s) + 1
          BY <1>1, <4>3
        <5> QED BY <2>2, <3>3, <3>4, <4>1, <5>1
      <4> QED BY <4>2, <4>3
    <3> HIDE DEF l, r
    <3>6. l \in [1 .. Len(s) + 1 -> Nat] /\ r \in [1 .. Len(s) + 1 -> Nat]
      BY <1>1, <3>1, <3>2
    <3>7. l = r
      BY <3>5, <3>6
    <3> QED BY <3>7 DEF l, r
  <2> HIDE DEF sizes
  <2>6. Window!Total(<<Window!MessageTokens(m)>> \o sizes)
          = Window!MessageTokens(m) + Window!Total(sizes)
    BY <1>3, <2>4, WindowTotalOfMore
  <2> QED BY <2>5, <2>6 DEF Window!Tokens, more, sizes
<1> QED BY <1>4, <1>5, <1>6

\* FitTail keeps the last messages, and as many as the budget allows.
LEMMA WindowTailFits ==
    ASSUME NEW recent \in Seq(Window!Message), NEW budget \in Int,
           Window!ContextWindowAssumption
    PROVE  LET kept == Window!FitTail(recent, budget)
               n == Len(recent)
           IN  /\ kept \in Seq(Window!Message) /\ Len(kept) <= n
               /\ kept = SubSeq(recent, n + 1 - Len(kept), n)
               /\ kept = <<>> \/ Window!Tokens(kept) <= budget
               /\ Len(kept) < n =>
                     Window!Tokens(SubSeq(recent, n - Len(kept), n)) > budget
<1> DEFINE n == Len(recent)
<1>1. n \in Nat
  OBVIOUS
<1>2. PICK F \in [0 .. n -> WindowTaken] :
         /\ F[0] = WindowUntaken
         /\ \A k \in 1 .. n : F[k] = WindowTook(recent, budget, n + 1 - k, F[k - 1])
         /\ Window!FitTail(recent, budget) = F[n].kept
  BY WindowTailIs
<1> HIDE DEF n
<1> DEFINE Some(t, k) ==
              /\ Len(t.kept) <= k
              /\ t.kept = SubSeq(recent, n + 1 - Len(t.kept), n)
              /\ t.used = Window!Tokens(t.kept)
              /\ t.kept = <<>> \/ t.used <= budget
           Full(t, k) ==
              /\ t.full => Len(t.kept) < k
                        /\ t.used + Window!MessageTokens(recent[n - Len(t.kept)]) > budget
              /\ ~t.full => Len(t.kept) = k
           P == {k \in 0 .. n : Some(F[k], k) /\ Full(F[k], k)}
<1>3. 0 \in P
  <2>1. WindowUntaken.kept = <<>> /\ WindowUntaken.used = 0 /\ WindowUntaken.full = FALSE
    BY DEF WindowUntaken
  <2>2. <<>> \in Seq(Window!Message) /\ Len(<<>>) = 0 /\ Window!Tokens(<<>>) = 0
    BY WindowTokensOf
  <2>3. SubSeq(recent, n + 1, n) = <<>>
    BY <1>1
  <2>4. n + 1 - 0 = n + 1 /\ 0 \in 0 .. n
    BY <1>1
  <2>5. F[0].kept = <<>> /\ F[0].used = 0 /\ F[0].full = FALSE
    BY <1>2, <2>1
  <2>6. Some(F[0], 0)
    <3> DEFINE e == F[0].kept
    <3>1. e = <<>> /\ Len(e) = 0 /\ SubSeq(recent, n + 1, n) = e
      BY <2>2, <2>3, <2>5
    <3>2. Window!Tokens(e) = F[0].used
      BY <2>2, <2>5, <3>1
    <3> HIDE DEF e
    <3>3. n + 1 - Len(e) = n + 1
      BY <1>1, <3>1
    <3>4. e = SubSeq(recent, n + 1 - Len(e), n)
      BY <3>1, <3>3
    <3>5. Len(e) <= 0
      BY <3>1
    <3> QED BY <3>1, <3>2, <3>4, <3>5 DEF e
  <2>7. Full(F[0], 0)
    BY <2>2, <2>5
  <2> HIDE DEF Some, Full
  <2> QED BY <2>4, <2>6, <2>7
<1>4. ASSUME NEW k \in 1 .. n, k - 1 \in P
      PROVE  k \in P
  <2> DEFINE t == F[k - 1]
             m == recent[n + 1 - k]
  <2>1. k \in 0 .. n /\ k - 1 \in 0 .. n /\ n + 1 - k \in 1 .. n
    BY <1>1
  <2>2. t \in WindowTaken
    BY <1>2, <2>1
  <2>3. F[k] = WindowTook(recent, budget, n + 1 - k, t)
    BY <1>2
  <2>4. m \in Window!Message
    BY <2>1 DEF n
  <2>5. Some(t, k - 1) /\ Full(t, k - 1)
    BY <1>4
  <2>6. t.full \in BOOLEAN /\ t.used \in Nat /\ t.kept \in Seq(Window!Message)
        /\ Len(t.kept) \in Nat
    BY <2>2 DEF WindowTaken
  <2>7. Window!MessageTokens(m) \in Nat
    BY <2>4, WindowSizesOf
  <2>0. DOMAIN t = {"full", "used", "kept"}
    BY <2>2 DEF WindowTaken
  <2> HIDE DEF t, m, P
  <2>8. CASE t.full \/ t.used + Window!MessageTokens(m) > budget
    <3>1. F[k] = [t EXCEPT !.full = TRUE]
      BY <2>3, <2>8 DEF WindowTook, m
    <3>2. F[k].full = TRUE /\ F[k].used = t.used /\ F[k].kept = t.kept
      BY <2>0, <3>1
    <3>3. Some(F[k], k)
      BY <2>1, <2>5, <2>6, <3>2
    <3>4. Len(t.kept) < k /\ t.used + Window!MessageTokens(recent[n - Len(t.kept)]) > budget
      <4>1. CASE t.full
        BY <2>1, <2>5, <2>6, <4>1
      <4>2. CASE ~t.full
        <5>1. Len(t.kept) = k - 1 /\ n - (k - 1) = n + 1 - k
          BY <1>1, <2>5, <4>2
        <5>2. recent[n - Len(t.kept)] = m
          BY <5>1 DEF m
        <5> QED BY <2>8, <4>2, <5>1, <5>2
      <4> QED BY <4>1, <4>2
    <3>5. Full(F[k], k)
      BY <3>2, <3>4
    <3> QED BY <2>1, <3>3, <3>5 DEF P
  <2>9. CASE ~(t.full \/ t.used + Window!MessageTokens(m) > budget)
    <3>1. F[k] = [t EXCEPT !.used = @ + Window!MessageTokens(m), !.kept = <<m>> \o @]
      BY <2>3, <2>9 DEF WindowTook, m
    <3>2. /\ F[k].full = FALSE /\ F[k].used = t.used + Window!MessageTokens(m)
          /\ F[k].kept = <<m>> \o t.kept
      BY <2>0, <2>9, <2>6, <3>1
    <3>3. Len(t.kept) = k - 1
      BY <2>5, <2>9
    <3>4. Len(<<m>> \o t.kept) = k
      BY <2>1, <2>4, <2>6, <3>3
    <3>5. <<m>> \o t.kept = SubSeq(recent, n + 1 - k, n)
      <4>0. n + 1 - (k - 1) = n + 2 - k
        BY <1>1
      <4>1. t.kept = SubSeq(recent, n + 2 - k, n)
        BY <2>5, <3>3, <4>0
      <4> DEFINE r == SubSeq(recent, n + 1 - k, n)
      <4>2. /\ r \in Seq(Window!Message) /\ Len(r) = k
            /\ \A i \in 1 .. k : r[i] = recent[n + 1 - k + i - 1]
        BY <2>1, <1>1, SubSeqProperties DEF n
      <4>3. \A i \in 1 .. k - 1 : t.kept[i] = recent[n + 2 - k + i - 1]
        BY <2>1, <1>1, <4>1, SubSeqProperties DEF n
      <4> HIDE DEF r
      <4>4. \A i \in 1 .. k : (<<m>> \o t.kept)[i] = r[i]
        <5> TAKE i \in 1 .. k
        <5>1. CASE i = 1
          <6>1. (<<m>> \o t.kept)[1] = m
            BY <2>4, <2>6
          <6>2. r[1] = recent[n + 1 - k]
            BY <1>1, <2>1, <4>2
          <6> QED BY <5>1, <6>1, <6>2 DEF m
        <5>2. CASE i # 1
          <6>1. i - 1 \in 1 .. k - 1 /\ n + 2 - k + (i - 1) - 1 = n + 1 - k + i - 1
            BY <1>1, <2>1, <5>2
          <6>2. (<<m>> \o t.kept)[i] = t.kept[i - 1]
            BY <2>4, <2>6, <3>3, <6>1
          <6>3. t.kept[i - 1] = recent[n + 1 - k + i - 1]
            BY <4>3, <6>1
          <6> QED BY <4>2, <6>2, <6>3
        <5> QED BY <5>1, <5>2
      <4>5. <<m>> \o t.kept \in Seq(Window!Message)
        BY <2>4, <2>6
      <4>6. <<m>> \o t.kept = r
        BY <3>4, <4>2, <4>4, <4>5, SeqEqual
      <4> QED BY <4>6 DEF r
    <3>6. Window!Tokens(<<m>> \o t.kept) = Window!MessageTokens(m) + Window!Tokens(t.kept)
      BY <2>4, <2>6, WindowTokensOf
    <3>7. Window!Tokens(<<m>> \o t.kept) = t.used + Window!MessageTokens(m)
      BY <2>5, <2>6, <2>7, <3>6
    <3>8. t.used + Window!MessageTokens(m) <= budget
      BY <2>6, <2>7, <2>9
    <3>9. Some(F[k], k)
      <4> DEFINE e == <<m>> \o t.kept
      <4>1. Len(e) = k /\ e = SubSeq(recent, n + 1 - k, n) /\ F[k].kept = e
        BY <3>2, <3>4, <3>5
      <4>2. F[k].used = Window!Tokens(e) /\ F[k].used <= budget
        BY <3>2, <3>7, <3>8
      <4> HIDE DEF e
      <4>3. n + 1 - Len(e) = n + 1 - k /\ Len(e) <= k
        BY <1>1, <2>1, <4>1
      <4>4. e = SubSeq(recent, n + 1 - Len(e), n)
        BY <4>1, <4>3
      <4> QED BY <4>1, <4>2, <4>3, <4>4
    <3>10. Full(F[k], k)
      BY <3>2, <3>4
    <3> QED BY <2>1, <3>9, <3>10 DEF P
  <2> QED BY <2>8, <2>9
<1>5. Some(F[n], n) /\ Full(F[n], n)
  <2> HIDE DEF P
  <2>1. 0 .. n \subseteq P
    BY <1>1, <1>3, <1>4, WindowUpTo
  <2>2. n \in P
    BY <1>1, <2>1
  <2> QED BY <2>2 DEF P
<1> DEFINE kept == F[n].kept
<1>6. kept \in Seq(Window!Message) /\ F[n].used \in Nat /\ Len(kept) \in Nat
      /\ F[n].full \in BOOLEAN
  <2>1. F[n] \in WindowTaken
    BY <1>1, <1>2
  <2> QED BY <2>1 DEF WindowTaken
<1>7. ASSUME Len(kept) < n
      PROVE  Window!Tokens(SubSeq(recent, n - Len(kept), n)) > budget
  <2> DEFINE i == n - Len(kept)
             m == recent[i]
             r == SubSeq(recent, i, n)
  <2>1. i \in 1 .. n /\ n + 1 - Len(kept) = i + 1 /\ n - i + 1 = Len(kept) + 1
    BY <1>1, <1>6, <1>7
  <2>2. F[n].full /\ F[n].used + Window!MessageTokens(m) > budget
    BY <1>1, <1>5, <1>6, <1>7
  <2>3. m \in Window!Message
    BY <2>1 DEF n
  <2>4. kept = SubSeq(recent, i + 1, n)
    BY <1>5, <2>1
  <2> HIDE DEF kept, i, m
  <2>5. /\ r \in Seq(Window!Message) /\ Len(r) = Len(kept) + 1
        /\ \A j \in 1 .. Len(kept) + 1 : r[j] = recent[i + j - 1]
    BY <2>1, <1>1, SubSeqProperties DEF n
  <2>6. \A j \in 1 .. Len(kept) : kept[j] = recent[i + 1 + j - 1]
    BY <2>1, <1>1, <2>4, SubSeqProperties DEF n
  <2> HIDE DEF r
  <2>7. <<m>> \o kept \in Seq(Window!Message) /\ Len(<<m>> \o kept) = Len(kept) + 1
    BY <1>6, <2>3
  <2>8. \A j \in 1 .. Len(kept) + 1 : (<<m>> \o kept)[j] = r[j]
    <3> TAKE j \in 1 .. Len(kept) + 1
    <3>1. CASE j = 1
      <4>1. (<<m>> \o kept)[1] = m
        BY <1>6, <2>3
      <4>2. r[1] = recent[i]
        BY <1>6, <2>1, <2>5
      <4> QED BY <3>1, <4>1, <4>2 DEF m
    <3>2. CASE j # 1
      <4>1. j - 1 \in 1 .. Len(kept) /\ i + 1 + (j - 1) - 1 = i + j - 1
        BY <1>6, <2>1, <3>2
      <4>2. (<<m>> \o kept)[j] = kept[j - 1]
        BY <1>6, <2>3, <4>1
      <4> QED BY <2>5, <2>6, <4>1, <4>2
    <3> QED BY <3>1, <3>2
  <2>9. <<m>> \o kept = r
    BY <2>5, <2>7, <2>8, SeqEqual
  <2>10. Window!Tokens(r) = Window!MessageTokens(m) + Window!Tokens(kept)
    BY <1>6, <2>3, <2>9, WindowTokensOf
  <2>11. F[n].used = Window!Tokens(kept) /\ Window!MessageTokens(m) \in Nat
    BY <1>5, <2>3, WindowSizesOf DEF kept
  <2>12. Window!Tokens(r) > budget
    BY <1>6, <2>2, <2>10, <2>11
  <2> QED BY <2>12 DEF r, i
<1>8. Window!FitTail(recent, budget) = kept
  BY <1>2
<1>9. kept = <<>> \/ Window!Tokens(kept) <= budget
  BY <1>5
<1> QED BY <1>1, <1>5, <1>6, <1>7, <1>8, <1>9 DEF n

\* The pairs of messages in which questions and answers alternate.
LEMMA WindowPairsOf ==
    ASSUME NEW old \in Seq(Window!Message), Window!ContextWindowAssumption
    PROVE  /\ Window!Pairs(old) \in Seq(Window!Message \X Window!Message)
           /\ (\A i \in DOMAIN old : old[i].size > 0 /\ (old[i].role = "user" <=> i % 2 = 1)) =>
                 Window!Pairs(old) = [i \in 1 .. Len(old) \div 2 |-> <<old[2 * i - 1], old[2 * i]>>]
<1> DEFINE n == Len(old)
           exchanges(k) == [i \in 1 .. k \div 2 |-> <<old[2 * i - 1], old[2 * i]>>]
           open(k) == IF k % 2 = 1 THEN old[k] ELSE None
           P(F) == {k \in 0 .. n : F[k].question = open(k) /\ F[k].pairs = exchanges(k)}
<1>1. n \in Nat /\ DOMAIN old = 1 .. n /\ \A i \in 1 .. n : old[i] \in Window!Message
  OBVIOUS
<1>2. PICK F \in [0 .. n -> WindowPaired] :
         /\ F[0] = WindowUnpaired
         /\ \A k \in 1 .. n : F[k] = WindowPairedWith(old, k, F[k - 1])
         /\ Window!Pairs(old) = F[n].pairs
  BY WindowPairsAre
<1> HIDE DEF n
<1>3. Window!Pairs(old) \in Seq(Window!Message \X Window!Message)
  BY <1>1, <1>2 DEF WindowPaired
<1>4. ASSUME \A i \in 1 .. n : old[i].size > 0 /\ (old[i].role = "user" <=> i % 2 = 1)
      PROVE  Window!Pairs(old) = exchanges(n)
  <2>1. 0 \in P(F)
    <3>1. 0 % 2 = 0 /\ 0 \div 2 = 0 /\ 0 \in 0 .. n /\ 1 .. 0 = {}
      BY <1>1
    <3>2. open(0) = None /\ exchanges(0) = <<>>
      BY <3>1
    <3> HIDE DEF open, exchanges
    <3> QED BY <1>2, <3>1, <3>2 DEF WindowUnpaired
  <2>2. ASSUME NEW k \in 1 .. n, k - 1 \in P(F)
        PROVE  k \in P(F)
    <3> DEFINE t == F[k - 1]
               m == old[k]
    <3>1. k \in 0 .. n /\ k - 1 \in 0 .. n /\ k \in Nat /\ k - 1 \in Nat
      BY <1>1
    <3>2. F[k] = WindowPairedWith(old, k, t) /\ t \in WindowPaired
      BY <1>2, <3>1
    <3>3. t.question = open(k - 1) /\ t.pairs = exchanges(k - 1)
      BY <2>2
    <3>4. m \in Window!Message /\ m.size # 0 /\ (m.role = "user" <=> k % 2 = 1)
      <4>1. m \in Window!Message
        BY <1>1
      <4>2. m.size > 0 /\ (m.role = "user" <=> k % 2 = 1)
        BY <1>4
      <4> HIDE DEF m
      <4>3. m.size # 0
        BY <4>2
      <4> QED BY <4>1, <4>2, <4>3
    <3> HIDE DEF t
    <3>5. CASE k % 2 = 1
      <4>1. (k - 1) % 2 = 0 /\ (k - 1) \div 2 = k \div 2
        BY <3>1, <3>5
      <4>2. exchanges(k - 1) = exchanges(k) /\ open(k) = m
        BY <3>5, <4>1
      <4> HIDE DEF open, exchanges
      <4>3. F[k] = [t EXCEPT !.question = m]
        BY <3>2, <3>4, <3>5 DEF WindowPairedWith
      <4>4. F[k].question = m /\ F[k].pairs = t.pairs
        BY <3>2, <4>3 DEF WindowPaired
      <4> QED BY <3>1, <3>3, <4>2, <4>4
    <3>6. CASE k % 2 # 1
      <4>1. (k - 1) % 2 = 1 /\ (k - 1) \div 2 + 1 = k \div 2 /\ k \div 2 \in Nat
            /\ 2 * (k \div 2) = k /\ 2 * (k \div 2) - 1 = k - 1
            /\ k - 1 \in 1 .. n
        BY <1>1, <3>1, <3>6
      <4>2. open(k) = None /\ open(k - 1) = old[k - 1] /\ old[k - 1] \in Window!Message
        BY <1>1, <3>6, <4>1
      <4>3. old[k - 1] # None
        BY <4>2 DEF Window!ContextWindowAssumption
      <4>4. F[k] = [question |-> None, pairs |-> Append(t.pairs, <<t.question, m>>)]
        BY <3>2, <3>3, <3>4, <3>6, <4>2, <4>3 DEF WindowPairedWith
      <4>5. F[k].question = None /\ F[k].pairs = Append(exchanges(k - 1), <<old[k - 1], m>>)
        BY <3>3, <4>2, <4>4
      <4>6. Append(exchanges(k - 1), <<old[k - 1], old[k]>>) = exchanges(k)
        <5> DEFINE h == k \div 2
                   pair(i) == <<old[2 * i - 1], old[2 * i]>>
        <5>1. h \in Nat \ {0} /\ (k - 1) \div 2 = h - 1 /\ 2 * h = k /\ 2 * h - 1 = k - 1
          BY <3>1, <4>1
        <5>2. pair(h) = <<old[k - 1], old[k]>>
          BY <5>1
        <5> HIDE DEF h, pair
        <5>3. Append([i \in 1 .. h - 1 |-> pair(i)], pair(h)) = [i \in 1 .. h |-> pair(i)]
          BY <5>1
        <5> QED BY <5>1, <5>2, <5>3 DEF h, pair
      <4> HIDE DEF open, exchanges
      <4> QED BY <3>1, <4>2, <4>5, <4>6
    <3> QED BY <3>5, <3>6
  <2> HIDE DEF P
  <2>3. 0 .. n \subseteq P(F)
    BY <1>1, <2>1, <2>2, WindowUpTo
  <2>4. n \in P(F)
    BY <1>1, <2>3
  <2> QED BY <1>2, <2>4 DEF P
<1> QED BY <1>1, <1>3, <1>4 DEF n

\* What the pairs in a summary take.
LEMMA WindowTotalOfPairs ==
    ASSUME NEW told \in Seq(Window!Message \X Window!Message), Window!ContextWindowAssumption
    PROVE  1 + Window!Total([i \in DOMAIN told |->
                         Window!Clipped(told[i][1].size) + Window!Clipped(told[i][2].size)]) \in Nat
<1> DEFINE ofPairs == [i \in DOMAIN told |->
                          Window!Clipped(told[i][1].size) + Window!Clipped(told[i][2].size)]
<1>1. ofPairs \in Seq(Nat)
  <2>1. \A i \in DOMAIN told : told[i][1] \in Window!Message /\ told[i][2] \in Window!Message
    OBVIOUS
  <2>2. \A i \in DOMAIN told : Window!Clipped(told[i][1].size) + Window!Clipped(told[i][2].size) \in Nat
    <3> TAKE i \in DOMAIN told
    <3>1. Window!Clipped(told[i][1].size) \in Nat /\ Window!Clipped(told[i][2].size) \in Nat
      BY <2>1, WindowSizesOf
    <3> QED BY <3>1
  <2> DEFINE size(i) == Window!Clipped(told[i][1].size) + Window!Clipped(told[i][2].size)
  <2>3. DOMAIN told = 1 .. Len(told) /\ Len(told) \in Nat
    OBVIOUS
  <2>4. \A i \in 1 .. Len(told) : size(i) \in Nat
    BY <2>2, <2>3
  <2>5. ofPairs = [i \in 1 .. Len(told) |-> size(i)]
    BY <2>3
  <2> HIDE DEF size, ofPairs
  <2> QED BY <2>3, <2>4, <2>5
<1>2. Window!Total(ofPairs) \in Nat
  <2>1. 0 \in Nat
    OBVIOUS
  <2> HIDE DEF ofPairs
  <2> QED BY <1>1, <2>1, WindowTotalOfMore
<1> QED BY <1>2

\* A summary has a size.
LEMMA WindowSummaryOf ==
    ASSUME NEW old \in Seq(Window!Message), Window!ContextWindowAssumption,
           Window!CompressOld(old) # None
    PROVE  /\ Window!CompressOld(old).size \in Nat
           /\ Window!CompressOld(old).pairs \in Seq(Window!Message \X Window!Message)
           /\ Window!MessageTokens(Window!CompressOld(old)) \in Nat
<1> DEFINE pairs == Window!Pairs(old)
           told == SubSeq(pairs, 1, Window!SmallerOf(MaxPairs, Len(pairs)))
           texts == Window!Texts(old)
           topics == SubSeq(texts, 1, Window!SmallerOf(MaxTopics, Len(texts)))
           ofPairs == [i \in DOMAIN told |->
                          Window!Clipped(told[i][1].size) + Window!Clipped(told[i][2].size)]
           ofTopics == [i \in DOMAIN topics |-> Window!Clipped(topics[i].size)]
<1>1. pairs \in Seq(Window!Message \X Window!Message)
  BY WindowPairsOf
<1>2. texts \in Seq(Window!Message)
  <2>1. PICK F \in [0 .. Len(old) -> Seq(Window!Message)] : Window!Texts(old) = F[Len(old)]
    BY WindowTextsAre
  <2> QED BY <2>1
<1>3. MaxPairs \in Nat /\ MaxTopics \in Nat
  BY DEF Window!ContextWindowAssumption
<1> HIDE DEF pairs, texts
<1>4. told \in Seq(Window!Message \X Window!Message)
  <2>1. Window!SmallerOf(MaxPairs, Len(pairs)) \in Nat /\ Window!SmallerOf(MaxPairs,
                                                              Len(pairs)) <= Len(pairs)
    BY <1>1, <1>3 DEF Window!SmallerOf
  <2> QED BY <1>1, <2>1, SubSeqProperties
<1>5. topics \in Seq(Window!Message)
  <2>1. Window!SmallerOf(MaxTopics, Len(texts)) \in Nat /\ Window!SmallerOf(MaxTopics,
                                                               Len(texts)) <= Len(texts)
    BY <1>2, <1>3 DEF Window!SmallerOf
  <2> QED BY <1>2, <2>1, SubSeqProperties
<1> HIDE DEF told, topics
<1>7. ofTopics \in Seq(Nat)
  <2>1. \A i \in DOMAIN topics : Window!Clipped(topics[i].size) \in Nat
    BY <1>5, WindowSizesOf
  <2> QED BY <1>5, <2>1
<1>8. 1 + Window!Total(ofPairs) \in Nat /\ 1 + Window!Total(ofTopics) \in Nat
  <2>1. 1 + Window!Total(ofPairs) \in Nat
    BY <1>4, WindowTotalOfPairs
  <2>2. 0 \in Nat
    OBVIOUS
  <2> HIDE DEF ofTopics
  <2>3. Window!Total(ofTopics) \in Nat
    BY <1>7, <2>2, WindowTotalOfMore
  <2> QED BY <2>1, <2>3
<1>9. Window!CompressOld(old) \in [pairs : Seq(Window!Message \X Window!Message), size : Nat]
  <2>1. Window!CompressOld(old) =
          IF pairs # <<>> THEN [pairs |-> told, size |-> 1 + Window!Total(ofPairs)]
          ELSE IF texts = <<>> THEN None
          ELSE [pairs |-> <<>>, size |-> 1 + Window!Total(ofTopics)]
    BY DEF Window!CompressOld, pairs, told, texts, topics, ofPairs, ofTopics
  <2>2. <<>> \in Seq(Window!Message \X Window!Message)
    OBVIOUS
  <2> HIDE DEF ofPairs, ofTopics
  <2> QED BY <1>4, <1>8, <2>1, <2>2
<1>10. Overhead \in Nat
  BY DEF Window!ContextWindowAssumption
<1> QED BY <1>9, <1>10 DEF Window!MessageTokens, Window!EstimateTokens, Window!LargerOf

LEMMA WindowLastAre ==
    ASSUME NEW s \in Seq(Window!Message), NEW k \in Nat
    PROVE  /\ Window!LastOf(s, k) \in Seq(Window!Message)
           /\ Len(s) <= k => Window!LastOf(s, k) = s
           /\ k <= Len(s) => /\ Len(Window!LastOf(s, k)) = k
                             /\ Window!LastOf(s, k) = SubSeq(s, Len(s) + 1 - k, Len(s))
                             /\ \A i \in 1 .. k : Window!LastOf(s, k)[i] = s[Len(s) - k + i]
<1>1. Len(s) \in Nat
  OBVIOUS
<1>2. CASE Len(s) <= k
  <2>1. Window!LargerOf(1, Len(s) - k + 1) = 1
    BY <1>1, <1>2 DEF Window!LargerOf
  <2>2. Window!LastOf(s, k) = SubSeq(s, 1, Len(s))
    BY <2>1 DEF Window!LastOf
  <2>3. SubSeq(s, 1, Len(s)) = s
    OBVIOUS
  <2>4. k <= Len(s) => k = Len(s)
    BY <1>1, <1>2
  <2>5. k = Len(s) => Len(s) + 1 - k = 1 /\ \A i \in 1 .. k : Len(s) - k + i = i
    BY <1>1
  <2>6. Window!LastOf(s, k) = s
    BY <2>2, <2>3
  <2> QED BY <2>2, <2>3, <2>4, <2>5, <2>6
<1>3. CASE k < Len(s)
  <2> DEFINE from == Len(s) + 1 - k
  <2>1. Window!LargerOf(1, Len(s) - k + 1) = from
    BY <1>1, <1>3 DEF Window!LargerOf
  <2>2. Window!LastOf(s, k) = SubSeq(s, from, Len(s))
    BY <2>1 DEF Window!LastOf
  <2>3. from \in 1 .. Len(s) + 1 /\ Len(s) - from + 1 = k
    BY <1>1, <1>3
  <2> HIDE DEF from
  <2>4. /\ SubSeq(s, from, Len(s)) \in Seq(Window!Message)
        /\ Len(SubSeq(s, from, Len(s))) = k
        /\ \A i \in 1 .. k : SubSeq(s, from, Len(s))[i] = s[from + i - 1]
    BY <1>1, <2>3, SubSeqProperties
  <2>5. \A i \in 1 .. k : from + i - 1 = Len(s) - k + i
    BY <1>1 DEF from
  <2>6. \A i \in 1 .. k : Window!LastOf(s, k)[i] = s[Len(s) - k + i]
    BY <2>2, <2>4, <2>5
  <2>7. ~(Len(s) <= k)
    BY <1>1, <1>3
  <2> QED BY <2>2, <2>4, <2>6, <2>7 DEF from
<1> QED BY <1>1, <1>2, <1>3

-----------------------------------------------------------------------------
(* The invariant.                                                           *)

LEMMA WindowInitInv == Window!Init => Window!IInv
<1> SUFFICES ASSUME Window!Init
             PROVE  Window!IInv
  OBVIOUS
<1>1. winMessages \in Seq(Window!Message) /\ winAsked \in BOOLEAN /\ winPrompt = None
  <2>1. <<>> \in Seq(Window!Message)
    OBVIOUS
  <2> QED BY <2>1 DEF Window!Init
<1> QED BY <1>1 DEF Window!IInv, Window!TypeOK, Window!PromptInv

LEMMA WindowNextInv ==
    ASSUME Window!ContextWindowAssumption, Window!IInv, [Window!Next]_Window!vars
    PROVE  Window!IInv'
<1> USE DEF Window!IInv
<1>1. ASSUME NEW size \in MessageSize, NEW pinned \in Pinned, Window!AskQuestion(size, pinned)
      PROVE  Window!IInv'
  <2>1. winMessages \in Seq(Window!Message) /\ HistoryLimit \in Nat
    BY DEF Window!TypeOK, Window!ContextWindowAssumption
  <2>2. Window!LoadHistory \in Seq(Window!Message) /\ Len(Window!LoadHistory) <= HistoryLimit
    <3>1. /\ Window!SmallerOf(HistoryLimit, Len(winMessages)) \in Nat
          /\ Window!SmallerOf(HistoryLimit, Len(winMessages)) <= Len(winMessages)
          /\ Window!SmallerOf(HistoryLimit, Len(winMessages)) <= HistoryLimit
      BY <2>1 DEF Window!SmallerOf
    <3> QED BY <2>1, <3>1, SubSeqProperties DEF Window!LoadHistory
  <2>3. winMessages' \in Seq(Window!Message) /\ winAsked' \in BOOLEAN
    <3>1. [role |-> "user", size |-> size] \in Window!Message
      BY DEF Window!Message
    <3> QED BY <1>1, <2>1, <3>1 DEF Window!AskQuestion
  <2>4. /\ winPrompt'.history = Window!LoadHistory /\ winPrompt'.pinned = pinned
        /\ winPrompt'.fitted = Window!FitMessages(Window!LoadHistory, pinned)
    BY <1>1 DEF Window!AskQuestion, Window!BuildRagMessages
  <2> QED BY <2>2, <2>3, <2>4 DEF Window!TypeOK, Window!PromptInv
<1>2. ASSUME NEW size \in MessageSize, Window!SaveAnswer(size)
      PROVE  Window!IInv'
  <2>1. [role |-> "assistant", size |-> size] \in Window!Message
    BY DEF Window!Message
  <2>2. winMessages \in Seq(Window!Message)
    BY DEF Window!TypeOK
  <2>3. /\ winMessages' = Append(winMessages, [role |-> "assistant", size |-> size])
        /\ winAsked' = FALSE /\ winPrompt' = winPrompt
    BY <1>2 DEF Window!SaveAnswer
  <2>4. winMessages' \in Seq(Window!Message) /\ winAsked' \in BOOLEAN
    <3> DEFINE m == [role |-> "assistant", size |-> size]
    <3>1. m \in Window!Message /\ winMessages' = Append(winMessages, m)
      BY <2>1, <2>3
    <3> HIDE DEF m
    <3>2. Append(winMessages, m) \in Seq(Window!Message)
      BY <2>2, <3>1
    <3> QED BY <2>3, <3>1, <3>2
  <2> QED BY <2>3, <2>4 DEF Window!TypeOK, Window!PromptInv
<1>3. CASE Window!LoseAnswer
  BY <1>3 DEF Window!TypeOK, Window!PromptInv, Window!LoseAnswer
<1>4. CASE Window!Clear
  BY <1>4 DEF Window!TypeOK, Window!PromptInv, Window!Clear
<1>5. CASE UNCHANGED Window!vars
  BY <1>5 DEF Window!TypeOK, Window!PromptInv, Window!vars
<1> QED BY <1>1, <1>2, <1>3, <1>4, <1>5 DEF Window!Next

\* What a summary is made of.
WindowOldMessages == SubSeq(winPrompt.history, 1, Len(winPrompt.history) - TailWindow)

\* The summary and the tail of the last prompt, with what they are made of.
LEMMA WindowFittedIs ==
    ASSUME Window!ContextWindowAssumption, Window!IInv, winPrompt # None
    PROVE  /\ winPrompt.history \in Seq(Window!Message)
           /\ winPrompt.pinned \in Nat /\ TailWindow \in Nat
           /\ Len(winPrompt.history) > TailWindow => WindowOldMessages \in Seq(Window!Message)
           /\ Window!Summary = IF Len(winPrompt.history) <= TailWindow THEN None
                        ELSE Window!CompressOld(WindowOldMessages)
           /\ Window!SummaryTokens \in Nat
           /\ Window!Kept = Window!FitTail(Window!LastOf(winPrompt.history, TailWindow),
                             Window!Budget(winPrompt.pinned) - Window!SummaryTokens)
<1> DEFINE history == winPrompt.history
           old == WindowOldMessages
<1>1. history \in Seq(Window!Message) /\ winPrompt.pinned \in Nat
  BY DEF Window!IInv, Window!TypeOK, Window!ContextWindowAssumption
<1>2. /\ Len(history) \in Nat /\ Len(history) <= MaxHistoryMessages
      /\ MaxHistoryMessages \in Nat /\ TailWindow \in Nat
  BY <1>1 DEF Window!IInv, Window!PromptInv, Window!ContextWindowAssumption
<1>3. Window!LastOf(history, MaxHistoryMessages) = history
  BY <1>1, <1>2, WindowLastAre
<1>4. winPrompt.fitted = Window!FitMessages(history, winPrompt.pinned)
  BY DEF Window!IInv, Window!PromptInv
<1>5. Window!AllButLast(history, TailWindow) = old
  BY DEF Window!AllButLast, WindowOldMessages
<1> HIDE DEF history, old
<1>6. Window!Summary = IF Len(history) <= TailWindow THEN None ELSE Window!CompressOld(old)
  BY <1>3, <1>4, <1>5 DEF Window!Summary, Window!FitMessages
<1>7. Window!Kept = Window!FitTail(Window!LastOf(history, TailWindow),
    Window!Budget(winPrompt.pinned) - Window!SummaryTokens)
  BY <1>3, <1>4, <1>5, <1>6 DEF Window!Kept, Window!SummaryTokens, Window!Summary,
       Window!FitMessages
<1>8. ASSUME Len(history) > TailWindow
      PROVE  old \in Seq(Window!Message)
  <2>1. Len(history) - TailWindow \in Nat /\ Len(history) - TailWindow <= Len(history)
    BY <1>2, <1>8
  <2> QED BY <1>1, <2>1, SubSeqProperties DEF old, WindowOldMessages, history
<1>9. Window!SummaryTokens \in Nat
  <2>1. CASE Window!Summary = None
    BY <2>1 DEF Window!SummaryTokens
  <2>2. CASE Window!Summary # None
    <3>1. Len(history) > TailWindow /\ Window!Summary = Window!CompressOld(old)
      BY <1>2, <1>6, <2>2
    <3>2. Window!MessageTokens(Window!Summary) \in Nat
      BY <1>8, <2>2, <3>1, WindowSummaryOf
    <3> QED BY <2>2, <3>2 DEF Window!SummaryTokens
  <2> QED BY <2>1, <2>2
<1> QED BY <1>1, <1>2, <1>6, <1>7, <1>8, <1>9 DEF history, old

LEMMA WindowNewestFit ==
    ASSUME Window!ContextWindowAssumption, Window!IInv, winPrompt # None
    PROVE  Window!NewestThatFit
<1> DEFINE recent == Window!LastOf(winPrompt.history, TailWindow)
           n == Len(recent)
           budget == Window!Budget(winPrompt.pinned)
           k == Len(Window!Kept)
<1>1. /\ winPrompt.history \in Seq(Window!Message) /\ winPrompt.pinned \in Nat
      /\ TailWindow \in Nat
      /\ Window!SummaryTokens \in Nat
      /\ Window!Kept = Window!FitTail(recent, budget - Window!SummaryTokens)
  BY WindowFittedIs
<1>2. recent \in Seq(Window!Message)
  BY <1>1, WindowLastAre
<1>3. budget \in Nat
  BY <1>1 DEF Window!Budget, Window!LargerOf, Window!ContextWindowAssumption
<1> HIDE DEF recent, budget
<1>4. budget - Window!SummaryTokens \in Int
  BY <1>1, <1>3
<1>5. /\ Window!Kept \in Seq(Window!Message) /\ k <= n
      /\ Window!Kept = SubSeq(recent, n + 1 - k, n)
      /\ Window!Kept = <<>> \/ Window!Tokens(Window!Kept) <= budget - Window!SummaryTokens
      /\ k < n => Window!Tokens(SubSeq(recent, n - k, n)) > budget - Window!SummaryTokens
  BY <1>1, <1>2, <1>4, WindowTailFits
<1>6. n \in Nat /\ k \in Nat /\ k <= n
  BY <1>2, <1>5
<1>7. Window!LastOf(recent, k) = Window!Kept
  BY <1>2, <1>5, <1>6, WindowLastAre
<1>8. Window!Tokens(Window!Kept) \in Nat /\ Window!Tokens(<<>>) = 0
  BY <1>5, WindowTokensOf
<1>9. Window!SummaryTokens + Window!Tokens(Window!Kept) <= budget \/ (Window!Kept = <<>>
      /\ Window!Summary # None)
  <2>1. CASE Window!Kept # <<>>
    BY <1>1, <1>3, <1>5, <1>8, <2>1
  <2>2. CASE Window!Kept = <<>> /\ Window!Summary = None
    <3>1. Window!SummaryTokens = 0 /\ Window!Tokens(Window!Kept) = 0
      BY <1>8, <2>2 DEF Window!SummaryTokens
    <3> QED BY <1>3, <3>1
  <2> QED BY <2>1, <2>2
<1>10. ASSUME k < n
       PROVE  Window!SummaryTokens + Window!Tokens(Window!LastOf(recent, k + 1)) > budget
  <2>1. k + 1 \in Nat /\ k + 1 <= n /\ n + 1 - (k + 1) = n - k
    BY <1>6, <1>10
  <2>2. Window!LastOf(recent, k + 1) = SubSeq(recent, n - k, n) /\ Window!LastOf(recent,
                                                                       k + 1) \in Seq(Window!Message)
    BY <1>2, <2>1, WindowLastAre
  <2>3. Window!Tokens(Window!LastOf(recent, k + 1)) \in Nat
    BY <2>2, WindowTokensOf
  <2>4. Window!Tokens(Window!LastOf(recent, k + 1)) > budget - Window!SummaryTokens
    BY <1>5, <1>10, <2>2
  <2> QED BY <1>1, <1>3, <2>3, <2>4
<1> QED BY <1>7, <1>9, <1>10 DEF Window!NewestThatFit, recent, budget

LEMMA WindowExchanges ==
    ASSUME Window!ContextWindowAssumption, Window!IInv, winPrompt # None
    PROVE  Window!ExchangesAreTold
<1> DEFINE history == winPrompt.history
           n == Len(history)
           w == Window!SmallerOf(TailWindow, n)
           old == WindowOldMessages
           recent == Window!LastOf(history, TailWindow)
<1> SUFFICES ASSUME Window!Alternates(history)
             PROVE  /\ n - w > 0 => Window!Summary # None /\ Window!Summary.pairs =
                          [i \in 1 .. Window!SmallerOf(MaxPairs, (n - w) \div 2) |->
                              <<history[2 * i - 1], history[2 * i]>>]
                    /\ Len(Window!Kept) = w /\ Window!Kept # <<>> => Head(Window!Kept).role
                         = "user"
  BY DEF Window!ExchangesAreTold
<1>1. /\ history \in Seq(Window!Message) /\ TailWindow \in Nat
      /\ n > TailWindow => old \in Seq(Window!Message)
      /\ Window!Summary = IF n <= TailWindow THEN None ELSE Window!CompressOld(old)
      /\ winPrompt.pinned \in Nat /\ Window!SummaryTokens \in Nat
      /\ Window!Kept = Window!FitTail(recent,
             Window!Budget(winPrompt.pinned) - Window!SummaryTokens)
  BY WindowFittedIs
<1> HIDE DEF history
<1>2. n \in Nat /\ n % 2 = 0 /\ TailWindow % 2 = 0 /\ MaxPairs \in Nat \ {0}
  <2>1. n \in Nat
    BY <1>1
  <2>2. n % 2 = 0
    BY DEF Window!Alternates
  <2>3. TailWindow % 2 = 0 /\ MaxPairs \in Nat \ {0}
    BY DEF Window!ContextWindowAssumption
  <2> QED BY <2>1, <2>2, <2>3
<1>3. \A i \in 1 .. n : history[i].size > 0 /\ (history[i].role = "user" <=> i % 2 = 1)
  <2>1. DOMAIN history = 1 .. n
    BY <1>1
  <2> QED BY <2>1 DEF Window!Alternates
<1>4. w \in Nat /\ w <= n /\ w <= TailWindow /\ w % 2 = 0 /\ (n <= TailWindow => w = n)
      /\ (n > TailWindow => w = TailWindow)
  <2> HIDE DEF n
  <2>1. CASE n <= TailWindow
    <3>1. w = n
      BY <1>1, <1>2, <2>1 DEF Window!SmallerOf
    <3> HIDE DEF w
    <3> QED BY <1>1, <1>2, <2>1, <3>1
  <2>2. CASE n > TailWindow
    <3>1. w = TailWindow
      BY <1>1, <1>2, <2>2 DEF Window!SmallerOf
    <3> HIDE DEF w
    <3> QED BY <1>1, <1>2, <2>2, <3>1
  <2> QED BY <1>1, <1>2, <2>1, <2>2
<1> HIDE DEF w
<1>5. ASSUME n - w > 0
      PROVE  Window!Summary # None /\ Window!Summary.pairs =
                [i \in 1 .. Window!SmallerOf(MaxPairs, (n - w) \div 2) |->
                    <<history[2 * i - 1], history[2 * i]>>]
  <2> DEFINE o == n - w
             h == o \div 2
             p == Window!SmallerOf(MaxPairs, h)
             pairs == Window!Pairs(old)
             told == SubSeq(pairs, 1, Window!SmallerOf(MaxPairs, Len(pairs)))
  <2>1. n > TailWindow /\ w = TailWindow /\ o \in Nat \ {0}
    BY <1>1, <1>2, <1>4, <1>5
  <2>2. o % 2 = 0 /\ h \in Nat \ {0} /\ 2 * h = o /\ o <= n
    BY <1>2, <1>4, <2>1
  <2>3. old \in Seq(Window!Message) /\ Len(old) = o /\ \A i \in 1 .. o : old[i] = history[i]
    <3>1. old = SubSeq(history, 1, o)
      BY <2>1 DEF WindowOldMessages, history
    <3>2. o \in Nat /\ o <= Len(history)
      BY <2>1, <2>2
    <3> HIDE DEF o, old
    <3>3. /\ old \in Seq(Window!Message)
          /\ Len(old) = IF 1 <= o THEN o - 1 + 1 ELSE 0
          /\ \A i \in 1 .. o - 1 + 1 : old[i] = history[1 + i - 1]
      BY <1>1, <3>1, <3>2, SubSeqProperties
    <3>4. o >= 1 /\ o - 1 + 1 = o /\ \A i \in 1 .. o : 1 + i - 1 = i
      BY <2>1
    <3> QED BY <3>3, <3>4
  <2> HIDE DEF o, h, old
  <2>4. \A i \in DOMAIN old : old[i].size > 0 /\ (old[i].role = "user" <=> i % 2 = 1)
    <3>1. DOMAIN old = 1 .. o
      BY <2>3
    <3>2. \A i \in 1 .. o : i \in 1 .. n
      BY <1>2, <2>1, <2>2
    <3> QED BY <1>3, <2>3, <3>1, <3>2
  <2>5. pairs = [i \in 1 .. h |-> <<old[2 * i - 1], old[2 * i]>>]
        /\ pairs \in Seq(Window!Message \X Window!Message)
    BY <2>3, <2>4, WindowPairsOf DEF h
  <2>6. \A i \in 1 .. h : 2 * i - 1 \in 1 .. o /\ 2 * i \in 1 .. o
    BY <2>2, <2>1
  <2>7. pairs = [i \in 1 .. h |-> <<history[2 * i - 1], history[2 * i]>>]
    BY <2>3, <2>5, <2>6
  <2>8. Len(pairs) = h /\ pairs # <<>>
    BY <2>2, <2>5
  <2>0. h \in Nat
    BY <2>2
  <2>9. p \in Nat /\ p <= h /\ p >= 1
    BY <1>2, <2>2 DEF Window!SmallerOf
  <2>10. told = [i \in 1 .. p |-> <<history[2 * i - 1], history[2 * i]>>]
    <3> DEFINE pair(i) == <<history[2 * i - 1], history[2 * i]>>
    <3>1. pairs = [i \in 1 .. h |-> pair(i)]
      BY <2>7
    <3>2. told = SubSeq(pairs, 1, p)
      BY <2>8
    <3> HIDE DEF pairs, p, pair, told
    <3>7. /\ told \in Seq(Window!Message \X Window!Message)
          /\ Len(told) = IF 1 <= p THEN p - 1 + 1 ELSE 0
          /\ \A i \in 1 .. p - 1 + 1 : told[i] = pairs[1 + i - 1]
      <4>1. pairs \in Seq(Window!Message \X Window!Message) /\ Len(pairs) = h
        BY <2>5, <2>8 DEF pairs
      <4>2. p \in Nat /\ p <= h
        BY <2>9
      <4>3. \A i \in 1 .. p : pairs[i] \in Window!Message \X Window!Message
        BY <2>0, <4>1, <4>2
      <4> QED BY <3>2, <4>2, <4>3, SubSeqProperties
    <3>8. p - 1 + 1 = p /\ \A i \in 1 .. p : 1 + i - 1 = i
      BY <2>9
    <3>3. /\ told \in Seq(Window!Message \X Window!Message) /\ Len(told) = p
          /\ \A i \in 1 .. p : told[i] = pairs[i]
      BY <2>9, <3>7, <3>8
    <3>9. \A i \in 1 .. p : i \in 1 .. h
      BY <2>9, <2>0
    <3>4. \A i \in 1 .. p : told[i] = pair(i)
      BY <3>1, <3>3, <3>9
    <3>5. told = [i \in 1 .. p |-> told[i]]
      BY <3>3
    <3>6. told = [i \in 1 .. p |-> pair(i)]
      BY <3>4, <3>5
    <3> QED BY <3>6 DEF pair
  <2>11. Window!Summary = Window!CompressOld(old)
    BY <1>1, <1>2, <2>1
  <2> DEFINE size == 1 + Window!Total([i \in DOMAIN told |->
                                  Window!Clipped(told[i][1].size) + Window!Clipped(told[i][2].size)])
  <2>12. Window!CompressOld(old) = [pairs |-> told, size |-> size]
    BY <2>8 DEF Window!CompressOld
  <2>13. told \in Seq(Window!Message \X Window!Message)
    <3> DEFINE q == Window!SmallerOf(MaxPairs, Len(pairs))
    <3>1. Len(pairs) = h
      BY <2>8
    <3>2. MaxPairs \in Nat
      BY <1>2
    <3> HIDE DEF pairs
    <3>3. q \in Nat /\ q <= Len(pairs)
      BY <2>0, <3>1, <3>2 DEF Window!SmallerOf
    <3>4. pairs \in Seq(Window!Message \X Window!Message)
      BY <2>5 DEF pairs
    <3> HIDE DEF q
    <3>5. SubSeq(pairs, 1, q) \in Seq(Window!Message \X Window!Message)
      BY <3>3, <3>4, SubSeqProperties
    <3> QED BY <3>5 DEF q
  <2> HIDE DEF told, size
  <2>14. Window!Summary.pairs = told
    BY <2>11, <2>12
  <2>15. Window!Summary # None
    <3>1. ASSUME Window!Summary = None
          PROVE  FALSE
      <4>1. None = [pairs |-> told, size |-> size]
        BY <2>11, <2>12, <3>1
      <4>2. size \in Nat
        BY WindowTotalOfPairs, <2>13 DEF size
      <4> QED BY <2>13, <4>1, <4>2 DEF Window!ContextWindowAssumption
    <3> QED BY <3>1
  <2> QED BY <2>10, <2>14, <2>15 DEF p, h, o
<1>6. ASSUME Len(Window!Kept) = w, Window!Kept # <<>>
      PROVE  Head(Window!Kept).role = "user"
  <2>1. recent \in Seq(Window!Message) /\ Len(recent) = w /\ \A i \in 1 .. w : recent[i]
          = history[n - w + i]
    <3>1. CASE n <= TailWindow
      <4>1. recent = history /\ w = n
        BY <1>1, <1>2, <1>4, <3>1, WindowLastAre
      <4>2. \A i \in 1 .. w : n - w + i = i
        BY <1>2, <4>1
      <4> HIDE DEF recent
      <4> QED BY <1>1, <4>1, <4>2
    <3>2. CASE n > TailWindow
      <4>1. w = TailWindow /\ TailWindow <= n
        BY <1>1, <1>2, <1>4, <3>2
      <4> QED BY <1>1, <4>1, WindowLastAre
    <3> QED BY <1>1, <1>2, <3>1, <3>2
  <2> HIDE DEF recent
  <2>2. Window!Budget(winPrompt.pinned) - Window!SummaryTokens \in Int
    BY <1>1 DEF Window!Budget, Window!LargerOf, Window!ContextWindowAssumption
  <2>3. Window!Kept \in Seq(Window!Message) /\ Window!Kept = SubSeq(recent,
                                                   Len(recent) + 1 - Len(Window!Kept),
                                                   Len(recent))
    BY <1>1, <2>1, <2>2, WindowTailFits
  <2>4. Len(recent) + 1 - Len(Window!Kept) = 1
    BY <1>4, <1>6, <2>1
  <2>5. Window!Kept = recent
    <3>1. SubSeq(recent, 1, Len(recent)) = recent
      BY <2>1
    <3> QED BY <2>3, <2>4, <3>1
  <2>6. w \in Nat \ {0}
    BY <1>4, <1>6, <2>3
  <2>7. Head(Window!Kept) = history[n - w + 1]
    BY <2>1, <2>5, <2>6
  <2>8. n - w + 1 \in 1 .. n /\ (n - w + 1) % 2 = 1
    BY <1>2, <1>4, <2>6
  <2> QED BY <1>3, <2>7, <2>8
<1> QED BY <1>5, <1>6 DEF w

LEMMA WindowInvProperty ==
    ASSUME Window!ContextWindowAssumption, Window!IInv
    PROVE  Window!PromptTells
BY WindowNewestFit, WindowExchanges DEF Window!PromptTells

LEMMA WindowInvariance == ServicesSpec => []Window!IInv
<1>1. ServicesInit => Window!IInv
  BY WindowInitInv, ServicesAssumption DEF ServicesInit, ServicesAssumption
<1>2. Window!IInv /\ [ServicesNext]_servicesVars => Window!IInv'
  <2> SUFFICES ASSUME Window!IInv, [ServicesNext]_servicesVars
               PROVE  Window!IInv'
    OBVIOUS
  <2>1. Window!Next \/ UNCHANGED winVars
    BY DEF ServicesNext, Still, servicesVars
  <2>2. [Window!Next]_Window!vars
    BY <2>1 DEF winVars, Window!vars
  <2>3. Window!ContextWindowAssumption
    BY ServicesAssumption DEF ServicesAssumption
  <2> QED BY <2>2, <2>3, WindowNextInv
<1> QED BY <1>1, <1>2, PTL DEF ServicesSpec

\* The history in a prompt takes no more than its budget, as many of the newest messages
\* as fit are kept, and in a conversation of answered questions each exchange is told:
\* for any sizes of messages, budget, tail and limits of the summary.
THEOREM PromptTellsHolds == ServicesSpec => []PromptTells
<1>1. Window!IInv => PromptTells
  BY WindowInvProperty, ServicesAssumption DEF PromptTells, ServicesAssumption
<1> QED BY <1>1, WindowInvariance, PTL
=============================================================================
