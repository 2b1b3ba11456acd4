------------------------------ MODULE AgentProofs ------------------------------
(***************************************************************************)
(* Theorems about the parts of Services that an agent's run is made of: the *)
(* tool registry, the sandbox of execute_python, the multi-agent pipeline,   *)
(* the executor in serial mode and the lessons learned from failures, for   *)
(* any number of calls, steps and scripts; and, with the other parts'       *)
(* theorems, that every variable of Services stays in its type.             *)
(*                                                                          *)
(* Each section shows that the invariant IInv of a part holds initially and *)
(* is kept by every step of the part, that it is therefore an invariant of   *)
(* Services, where other parts leave its variables alone, and that it        *)
(* implies the part's property.                                              *)
(***************************************************************************)
EXTENDS ConversationProofs, PlatformProofs

\* What PlanDagProofs shows of a plan's graph, for the pipeline's plans.
Graph == INSTANCE PlanDagProofs WITH NumSteps <- OrchSteps

\* The serial executor again, with the theorems about it.
Runs == INSTANCE ExecutorProofs WITH
    NumSteps <- SerialSteps, RawPlans <- SerialPlans, ViaLoop <- TRUE,
    ExecutionMode <- "serial", MaxRetriesPerStep <- SerialRetries,
    MaxConsecutiveFailures <- SerialFailures, MaxLowGainSteps <- SerialLowGain,
    Fingerprint <- SerialFingerprint,
    planned <- execPlanned, status <- execStatus, pc <- execPc,
    batch <- execBatch, task <- execTask, collected <- execCollected,
    attempts <- execAttempts, resultText <- execResultText,
    stepText <- execStepText, completedSteps <- execCompletedSteps,
    failedSteps <- execFailedSteps,
    consecutiveFailures <- execConsecutiveFailures,
    consecutiveLowGain <- execConsecutiveLowGain, seen <- execSeen,
    store <- execStore

-----------------------------------------------------------------------------
(* The tool registry *)

\* A new entry moves the others back, and the oldest out of a full log.
LEMMA ToolLoggedShifts ==
    ASSUME NEW S, toolLog \in Seq(S), NEW e \in S, ToolLogLimit \in Nat \ {0}
    PROVE  /\ Calls!Logged(e) \in Seq(S)
           /\ Len(Calls!Logged(e)) = IF Len(toolLog) < ToolLogLimit THEN Len(toolLog) + 1
                ELSE ToolLogLimit
           /\ Calls!Logged(e)[1] = e
           /\ \A i \in 2 .. Len(Calls!Logged(e)) : Calls!Logged(e)[i] = toolLog[i - 1]
<1> DEFINE all == <<e>> \o toolLog
           m == IF Len(all) > ToolLogLimit THEN ToolLogLimit ELSE Len(all)
<1>1. <<e>> \in Seq(S) /\ Len(<<e>>) = 1 /\ <<e>>[1] = e
  OBVIOUS
<1>2. all \in Seq(S) /\ Len(all) = 1 + Len(toolLog) /\ Len(toolLog) \in Nat
  BY <1>1
<1>3. all[1] = e /\ \A i \in 2 .. Len(all) : all[i] = toolLog[i - 1]
  BY <1>1, <1>2
<1>4. m \in 1 .. Len(all) /\ m <= ToolLogLimit
  BY <1>2
<1>5. Calls!Logged(e) = SubSeq(all, 1, m)
  BY DEF Calls!Logged
<1> HIDE DEF all, m
<1>6. /\ Calls!Logged(e) \in Seq(S) /\ Len(Calls!Logged(e)) = m
      /\ \A i \in 1 .. m : Calls!Logged(e)[i] = all[i]
  BY <1>2, <1>4, <1>5, SubSeqProperties
<1>7. m = IF Len(toolLog) < ToolLogLimit THEN Len(toolLog) + 1 ELSE ToolLogLimit
  BY <1>2 DEF m
<1>8. \A i \in 2 .. m : i \in 1 .. m /\ i \in 2 .. Len(all)
  BY <1>2, <1>4
<1> QED BY <1>3, <1>4, <1>6, <1>7, <1>8

LEMMA ToolInitInv ==
    ASSUME Calls!ToolCallsAssumption, Calls!Init
    PROVE  Calls!IInv
<1>1. DOMAIN toolCalls = {} /\ DOMAIN toolLog = {} /\ Len(toolCalls) = 0 /\ Len(toolLog) = 0
  BY DEF Calls!Init
<1>2. \A S : <<>> \in Seq(S)
  OBVIOUS
<1>3. Calls!TypeOK
  BY <1>1, <1>2 DEF Calls!Init, Calls!TypeOK, Calls!ToolCallsAssumption
<1> QED BY <1>1, <1>3 DEF Calls!IInv, Calls!LogInv, Calls!LogTellsCalls

LEMMA ToolMappedForm ==
    ASSUME NEW code, NEW raw
    PROVE  \/ Calls!Mapped(code, raw) = raw /\ raw \in {"timeout", "connection_error",
                                                   "rate_limited"}
           \/ Calls!Mapped(code, raw) \in {"auth_error", "not_found"} /\ code = "unknown"
           \/ Calls!Mapped(code, raw) = code
<1>1. CASE raw \in {"timeout", "connection_error", "rate_limited"}
  BY <1>1 DEF Calls!Mapped
<1>2. CASE raw \notin {"timeout", "connection_error", "rate_limited"}
  <2>1. CASE raw = "token" /\ code = "unknown"
    BY <2>1 DEF Calls!Mapped
  <2>2. CASE raw = "missing" /\ code = "unknown"
    BY <2>2 DEF Calls!Mapped
  <2>3. CASE ~(raw = "token" /\ code = "unknown") /\ ~(raw = "missing" /\ code = "unknown")
    BY <1>2, <2>3 DEF Calls!Mapped
  <2> QED BY <2>1, <2>2, <2>3
<1> QED BY <1>1, <1>2

\* What a handler or a skill's call can come to.
LEMMA ToolResultForm ==
    ASSUME Calls!ToolCallsAssumption, NEW result,
           \/ \E tool : result \in Calls!Results(tool)
           \/ \E text : result = Calls!Answer(text)
           \/ result = Calls!Failure("unknown", "other")
    PROVE  \/ result.code = "none" /\ Calls!Mapped(result.code, result.raw) = "none"
           \/ /\ result.text = "flagged" /\ result.code # "none" /\ result.code \in Calls!Code
              /\ Calls!Mapped(result.code, result.raw) \in Calls!Code
              /\ \/ Calls!Mapped(result.code, result.raw) = result.code
                 \/ result.code = "unknown" \/ Calls!Mapped(result.code, result.raw) \in ToolRaw
<1>1. CASE \E text : result = Calls!Answer(text)
  <2>1. result.code = "none" /\ result.raw = "none"
    BY <1>1 DEF Calls!Answer
  <2> QED BY <2>1, ToolMappedForm
<1>2. CASE \E code \in {"unknown", "auth_config_error", "api_error"},
    raw \in ToolRaw \cup {"none", "other"} :
               result = Calls!Failure(code, raw)
  <2>1. PICK code \in {"unknown", "auth_config_error", "api_error"},
      raw \in ToolRaw \cup {"none", "other"} :
                 result = Calls!Failure(code, raw)
    BY <1>2
  <2>2. result.text = "flagged" /\ result.code = code /\ result.raw = raw
    BY <2>1 DEF Calls!Failure
  <2>3. raw \in {"timeout", "connection_error", "rate_limited"} => raw \in ToolRaw
    OBVIOUS
  <2>4. code # "none" /\ code \in Calls!Code
    BY DEF Calls!Code
  <2>5. \/ Calls!Mapped(code, raw) = raw /\ raw \in {"timeout", "connection_error",
                                                "rate_limited"}
        \/ Calls!Mapped(code, raw) \in {"auth_error", "not_found"} /\ code = "unknown"
        \/ Calls!Mapped(code, raw) = code
    BY ToolMappedForm
  <2>6. Calls!Mapped(code, raw) \in Calls!Code
    BY <2>4, <2>5 DEF Calls!Code
  <2> QED BY <2>2, <2>3, <2>4, <2>5, <2>6
<1> QED BY <1>1, <1>2 DEF Calls!Results, Calls!FeishuFailures

\* Steps that leave the log alone.
LEMMA ToolSilentKeeps ==
    ASSUME Calls!IInv, toolLog' = toolLog, toolCalls' \in Seq(Calls!Called),
           Len(toolCalls') \in Len(toolCalls) .. ToolCallLimit,
           \A k \in DOMAIN toolCalls :
              /\ toolCalls'[k].nested = toolCalls[k].nested
              /\ \/ toolCalls'[k] = toolCalls[k]
                 \/ /\ Calls!Running(k)
                    /\ Calls!Running(k)' \/ toolCalls'[k].args = "other"
                       \/ toolCalls'[k].end \in {"unknown", "timeout"},
           \A k \in DOMAIN toolCalls' \ DOMAIN toolCalls : Calls!Running(k)'
           \/ toolCalls'[k].end = "unknown"
    PROVE  Calls!IInv'
<1>1. /\ DOMAIN toolCalls = 1 .. Len(toolCalls) /\ DOMAIN toolCalls' = 1 .. Len(toolCalls')
      /\ Len(toolCalls) \in Nat
      /\ DOMAIN toolCalls \subseteq DOMAIN toolCalls' /\ DOMAIN toolLog' = DOMAIN toolLog
  BY DEF Calls!IInv, Calls!TypeOK
<1>2. Calls!TypeOK'
  BY <1>1 DEF Calls!IInv, Calls!TypeOK
<1>3. Calls!LogInv'
  BY <1>1 DEF Calls!IInv, Calls!LogInv
<1>4. \A k : Calls!Own(k)' = Calls!Own(k) /\ Calls!Nested(k)' = Calls!Nested(k)
  BY <1>1 DEF Calls!Own, Calls!Nested
<1>5. ASSUME NEW k \in DOMAIN toolCalls'
      PROVE  Calls!VerdictsAgree(k)' /\ Calls!MissingExplained(k)' /\ Calls!SkillsInOrder(k)'
  <2>1. CASE k \in DOMAIN toolCalls
    <3>1. Calls!VerdictsAgree(k) /\ Calls!MissingExplained(k) /\ Calls!SkillsInOrder(k)
      BY <2>1 DEF Calls!IInv, Calls!LogTellsCalls
    <3>2. Calls!SkillsInOrder(k)'
      BY <1>4, <2>1, <3>1 DEF Calls!SkillsInOrder
    <3>3. CASE toolCalls'[k] = toolCalls[k]
      <4>1. Calls!Running(k)' <=> Calls!Running(k)
        BY <3>3 DEF Calls!Running
      <4> QED BY <1>4, <3>1, <3>2, <3>3, <4>1 DEF Calls!VerdictsAgree, Calls!MissingExplained
    <3>4. CASE toolCalls'[k] # toolCalls[k]
      <4>1. Calls!Own(k) = {}
        BY <2>1, <3>1, <3>4 DEF Calls!VerdictsAgree
      <4> QED BY <1>4, <2>1, <3>2, <3>4, <4>1 DEF Calls!VerdictsAgree, Calls!MissingExplained
    <3> QED BY <3>3, <3>4
  <2>2. CASE k \notin DOMAIN toolCalls
    <3>1. Calls!Own(k) = {} /\ Calls!Nested(k) = {}
      BY <2>2 DEF Calls!IInv, Calls!LogInv, Calls!Own, Calls!Nested
    <3> QED BY <1>4, <2>2, <3>1 DEF Calls!VerdictsAgree, Calls!MissingExplained,
                 Calls!SkillsInOrder
  <2> QED BY <2>1, <2>2
<1> QED BY <1>2, <1>3, <1>5 DEF Calls!IInv, Calls!LogTellsCalls

LEMMA ToolCallKeeps ==
    ASSUME Calls!ToolCallsAssumption, Calls!IInv, NEW s \in ToolStep, NEW tool \in ToolDirect,
           NEW args \in Calls!Args,
           NEW ids \in {0, 2}, Calls!Call(s, tool, args, ids)
    PROVE  Calls!IInv'
<1> DEFINE call == [step |-> s, tool |-> tool, args |-> args, nested |-> 0, ids |-> ids,
    insight |-> FALSE,
                    told |-> IF tool \in Calls!Known THEN "running" ELSE "error",
                    code |-> IF tool \in Calls!Known THEN "none" ELSE "not_found",
                    end |-> IF tool \in Calls!Known THEN "none" ELSE "unknown"]
<1>1. toolCalls' = Append(toolCalls, call) /\ Len(toolCalls) < ToolCallLimit /\ toolLog'
        = toolLog
  BY DEF Calls!Call
<1>2. call \in Calls!Called /\ (call.told = "running" \/ call.end = "unknown")
  BY DEF Calls!Called, Calls!Code
<1>3. toolCalls \in Seq(Calls!Called)
  BY DEF Calls!IInv, Calls!TypeOK
<1> HIDE DEF call
<1>4. /\ toolCalls' \in Seq(Calls!Called) /\ Len(toolCalls) \in Nat
      /\ Len(toolCalls') = Len(toolCalls) + 1
      /\ toolCalls'[Len(toolCalls) + 1] = call
      /\ \A k \in 1 .. Len(toolCalls) : toolCalls'[k] = toolCalls[k]
  BY <1>1, <1>2, <1>3
<1>5. /\ DOMAIN toolCalls = 1 .. Len(toolCalls)
      /\ \A k \in DOMAIN toolCalls' \ DOMAIN toolCalls : k = Len(toolCalls) + 1
  BY <1>3, <1>4
<1>6. \A k \in DOMAIN toolCalls' \ DOMAIN toolCalls : Calls!Running(k)' \/ toolCalls'[k].end
        = "unknown"
  BY <1>2, <1>4, <1>5 DEF Calls!Running
<1>7. Len(toolCalls') \in Len(toolCalls) .. ToolCallLimit
  BY <1>1, <1>4 DEF Calls!ToolCallsAssumption
<1> QED BY <1>1, <1>4, <1>5, <1>6, <1>7, ToolSilentKeeps

\* A step that logs an entry e of the call k: what the log says of other calls moves
\* back by one.
LEMMA ToolOthersKeep ==
    ASSUME Calls!ToolCallsAssumption, Calls!IInv, NEW e \in Calls!Logs,
           toolLog' = Calls!Logged(e),
           NEW q \in DOMAIN toolCalls, q # e.call, toolCalls'[q] = toolCalls[q]
    PROVE  Calls!VerdictsAgree(q)' /\ Calls!MissingExplained(q)' /\ Calls!SkillsInOrder(q)'
<1>1. /\ toolLog' \in Seq(Calls!Logs) /\ Len(toolLog) \in Nat /\ ToolLogLimit \in Nat \ {0}
      /\ Len(toolLog) <= ToolLogLimit
      /\ Len(toolLog') = IF Len(toolLog) < ToolLogLimit THEN Len(toolLog) + 1 ELSE ToolLogLimit
      /\ toolLog'[1] = e
      /\ \A i \in 2 .. Len(toolLog') : toolLog'[i] = toolLog[i - 1]
      /\ DOMAIN toolLog = 1 .. Len(toolLog) /\ DOMAIN toolLog' = 1 .. Len(toolLog')
  BY ToolLoggedShifts DEF Calls!IInv, Calls!TypeOK, Calls!ToolCallsAssumption
<1>2. ASSUME NEW i \in DOMAIN toolLog', toolLog'[i].call = q
      PROVE  i - 1 \in DOMAIN toolLog /\ toolLog'[i] = toolLog[i - 1] /\ i \in Nat
  BY <1>1, <1>2
<1>3. ASSUME NEW i \in DOMAIN toolLog, i + 1 <= Len(toolLog')
      PROVE  i + 1 \in DOMAIN toolLog' /\ toolLog'[i + 1] = toolLog[i]
  BY <1>1, <1>3
<1>4. \A i : i \in Calls!Own(q)' => i - 1 \in Calls!Own(q) /\ toolLog'[i] = toolLog[i - 1]
      /\ i \in Nat
  BY <1>2 DEF Calls!Own
<1>5. \A i : i \in Calls!Nested(q)' => i - 1 \in Calls!Nested(q) /\ toolLog'[i]
        = toolLog[i - 1] /\ i \in Nat
  BY <1>2 DEF Calls!Nested
<1>6. Calls!VerdictsAgree(q) /\ Calls!MissingExplained(q) /\ Calls!SkillsInOrder(q)
  BY DEF Calls!IInv, Calls!LogTellsCalls
<1>7. Calls!Own(q) \subseteq 1 .. Len(toolLog) /\ Calls!Nested(q) \subseteq 1 .. Len(toolLog)
  BY <1>1 DEF Calls!Own, Calls!Nested
<1>8. Calls!VerdictsAgree(q)'
  BY <1>4, <1>6 DEF Calls!VerdictsAgree, Calls!Running
<1>9. Calls!MissingExplained(q)'
  <2> SUFFICES ASSUME Calls!Own(q)' = {},
                      ~(Calls!Running(q) \/ toolCalls[q].args = "other"
                      \/ toolCalls[q].end \in {"unknown", "timeout"})
               PROVE  Len(toolLog') = ToolLogLimit /\ Calls!Nested(q)' = {}
    BY DEF Calls!MissingExplained, Calls!Running
  <2>1. CASE Calls!Own(q) = {}
    <3>1. Len(toolLog) = ToolLogLimit /\ Calls!Nested(q) = {}
      BY <1>6, <2>1 DEF Calls!MissingExplained
    <3>2. Len(toolLog') = ToolLogLimit
      BY <1>1, <3>1
    <3>3. \A i : i \notin Calls!Nested(q)'
      BY <1>5, <3>1
    <3> QED BY <3>2, <3>3
  <2>2. CASE Calls!Own(q) # {}
    <3>1. PICK i \in Calls!Own(q) : i \in 1 .. Len(toolLog)
      BY <1>7, <2>2
    <3>2. i + 1 > Len(toolLog')
      <4> SUFFICES ASSUME i + 1 <= Len(toolLog')
                   PROVE  FALSE
        BY <1>1, <3>1
      <4>1. i + 1 \in Calls!Own(q)'
        BY <1>3, <3>1 DEF Calls!Own
      <4> QED BY <4>1
    <3>3. Len(toolLog') = ToolLogLimit /\ i = Len(toolLog)
      <4>1. /\ i \in Nat /\ Len(toolLog) \in Nat /\ ToolLogLimit \in Nat
            /\ Len(toolLog) <= ToolLogLimit
            /\ i <= Len(toolLog) /\ i + 1 > Len(toolLog')
            /\ Len(toolLog') = IF Len(toolLog) < ToolLogLimit THEN Len(toolLog) + 1
                 ELSE ToolLogLimit
        BY <1>1, <3>1, <3>2
      <4>2. CASE Len(toolLog) < ToolLogLimit
        <5>1. i + 1 > Len(toolLog) + 1
          BY <4>1, <4>2
        <5> QED BY <4>1, <5>1
      <4>3. CASE ~(Len(toolLog) < ToolLogLimit)
        <5>1. Len(toolLog) = ToolLogLimit /\ Len(toolLog') = ToolLogLimit
          BY <4>1, <4>3
        <5> QED BY <4>1, <5>1
      <4> QED BY <4>2, <4>3
    <3>4. ASSUME NEW j \in Calls!Nested(q)' PROVE FALSE
      <4>1. j - 1 \in Calls!Nested(q) /\ j - 1 \in 1 .. Len(toolLog)
        BY <1>5, <1>7, <3>4
      <4>2. i < j - 1
        BY <1>6, <4>1 DEF Calls!SkillsInOrder
      <4> QED BY <3>1, <3>3, <4>1, <4>2
    <3> QED BY <3>3, <3>4
  <2> QED BY <2>1, <2>2
<1>10. Calls!SkillsInOrder(q)'
  <2>1. \A i, j \in Calls!Nested(q)' : i < j => toolLog'[i].nested > toolLog'[j].nested
    BY <1>5, <1>6, <1>7 DEF Calls!SkillsInOrder
  <2>2. \A i \in Calls!Own(q)', j \in Calls!Nested(q)' : i < j
    <3> SUFFICES ASSUME NEW i \in Calls!Own(q)', NEW j \in Calls!Nested(q)' PROVE i < j
      OBVIOUS
    <3>1. i - 1 \in Calls!Own(q) /\ j - 1 \in Calls!Nested(q) /\ i \in Nat /\ j \in Nat
      BY <1>4, <1>5
    <3>2. i - 1 < j - 1
      BY <1>6, <3>1 DEF Calls!SkillsInOrder
    <3> QED BY <3>1, <3>2
  <2>3. ASSUME NEW i \in Calls!Nested(q)', NEW n \in 1 .. toolCalls[q].nested,
               toolLog'[i].nested < n
        PROVE  \E j \in 1 .. i : j \in Calls!Nested(q)' /\ toolLog'[j].nested = n
    <3>1. i - 1 \in Calls!Nested(q) /\ toolLog'[i] = toolLog[i - 1] /\ i \in Nat
      BY <1>5
    <3>2. PICK j \in 1 .. i - 1 : j \in Calls!Nested(q) /\ toolLog[j].nested = n
      BY <1>6, <2>3, <3>1 DEF Calls!SkillsInOrder
    <3>3. i \in 1 .. Len(toolLog') /\ j \in DOMAIN toolLog /\ j + 1 <= Len(toolLog')
          /\ j + 1 \in 1 .. i
      BY <1>1, <1>7, <3>1, <3>2 DEF Calls!Nested
    <3>4. j + 1 \in Calls!Nested(q)'
      BY <1>3, <3>2, <3>3 DEF Calls!Nested
    <3> QED BY <1>3, <3>2, <3>3, <3>4
  <2> QED BY <2>1, <2>2, <2>3 DEF Calls!SkillsInOrder
<1> QED BY <1>8, <1>9, <1>10

\* The entry of the call k goes in; the invariant of k itself is shown apart.
LEMMA ToolLogKeeps ==
    ASSUME Calls!ToolCallsAssumption, Calls!IInv, NEW e \in Calls!Logs,
           toolLog' = Calls!Logged(e),
           NEW k \in DOMAIN toolCalls, e.call = k,
           toolCalls' \in Seq(Calls!Called), Len(toolCalls') = Len(toolCalls),
           \A q \in DOMAIN toolCalls : q # k => toolCalls'[q] = toolCalls[q],
           toolCalls'[k].nested >= toolCalls[k].nested, e.nested <= toolCalls'[k].nested,
           Calls!VerdictsAgree(k)' /\ Calls!MissingExplained(k)' /\ Calls!SkillsInOrder(k)'
    PROVE  Calls!IInv'
<1>1. /\ toolLog' \in Seq(Calls!Logs) /\ Len(toolLog') <= ToolLogLimit /\ Len(toolLog) \in Nat
      /\ toolLog'[1] = e
      /\ \A i \in 2 .. Len(toolLog') : toolLog'[i] = toolLog[i - 1]
      /\ Len(toolLog') <= Len(toolLog) + 1
      /\ DOMAIN toolLog = 1 .. Len(toolLog) /\ DOMAIN toolLog' = 1 .. Len(toolLog')
  BY ToolLoggedShifts DEF Calls!IInv, Calls!TypeOK, Calls!ToolCallsAssumption
<1>2. Calls!TypeOK'
  BY <1>1 DEF Calls!IInv, Calls!TypeOK
<1>3. DOMAIN toolCalls' = DOMAIN toolCalls /\ toolCalls \in Seq(Calls!Called)
  BY DEF Calls!IInv, Calls!TypeOK
<1>4. Calls!LogInv'
  <2> SUFFICES ASSUME NEW i \in DOMAIN toolLog'
               PROVE  toolLog'[i].call \in DOMAIN toolCalls /\ toolLog'[i].nested
                        <= toolCalls'[toolLog'[i].call].nested
    BY <1>3 DEF Calls!LogInv
  <2>1. CASE i = 1
    BY <1>1, <2>1
  <2>2. CASE i # 1
    <3>1. i - 1 \in DOMAIN toolLog /\ toolLog'[i] = toolLog[i - 1]
      BY <1>1, <2>2
    <3> DEFINE c == toolLog[i - 1].call
    <3>2. c \in DOMAIN toolCalls /\ toolLog[i - 1].nested <= toolCalls[c].nested
          /\ toolLog[i - 1] \in Calls!Logs
      BY <3>1 DEF Calls!IInv, Calls!LogInv, Calls!TypeOK
    <3>3. toolCalls[c] \in Calls!Called /\ toolCalls'[c] \in Calls!Called
      BY <1>3, <3>2
    <3>4. toolCalls[c].nested \in Nat /\ toolCalls'[c].nested \in Nat
          /\ toolLog[i - 1].nested \in Nat
      BY <3>2, <3>3 DEF Calls!Called, Calls!Logs
    <3>5. toolCalls[c].nested <= toolCalls'[c].nested
      BY <3>2, <3>4
    <3> QED BY <3>1, <3>2, <3>4, <3>5
  <2> QED BY <2>1, <2>2
<1>5. Calls!LogTellsCalls'
  BY <1>3, ToolOthersKeep DEF Calls!LogTellsCalls
<1> QED BY <1>2, <1>4, <1>5 DEF Calls!IInv

LEMMA ToolReplaceAt ==
    ASSUME NEW S, NEW s \in Seq(S), NEW k \in DOMAIN s, NEW e \in S
    PROVE  LET t == [s EXCEPT ![k] = e]
           IN  /\ t \in Seq(S) /\ Len(t) = Len(s) /\ t[k] = e
               /\ \A i \in DOMAIN s : i # k => t[i] = s[i]
  OBVIOUS

\* A skill's call returns: its entry is newer than those of the skill's other calls.
LEMMA ToolNestedKeeps ==
    ASSUME Calls!ToolCallsAssumption, Calls!IInv, NEW k \in DOMAIN toolCalls, NEW result,
           NEW ids \in 0 .. ToolIds \cup {toolCalls[k].ids}, Calls!NestedEnd(k, result, ids)
    PROVE  Calls!IInv'
<1> DEFINE c == toolCalls[k]
           e == Calls!Entry(k, c.nested + 1, result)
           b == c.insight \/ (c.tool = "knowledge_analysis" /\ c.nested > 0
                             /\ Calls!Usable(Calls!Current(k), result.text))
           call == [c EXCEPT !.nested = c.nested + 1, !.ids = ids, !.insight = b]
<1>1. /\ result \in Calls!NestedEnds(k) /\ toolLog' = Calls!Logged(e)
      /\ toolCalls' = [toolCalls EXCEPT ![k] = call]
  BY DEF Calls!NestedEnd
<1>2. c \in Calls!Called /\ c.nested \in Nat /\ c.nested + 1 \in Nat /\ ids \in Nat
  <2>1. c \in Calls!Called
    BY DEF Calls!IInv, Calls!TypeOK
  <2>2. c.nested \in Nat /\ c.ids \in Nat
    BY <2>1 DEF Calls!Called
  <2> QED BY <2>1, <2>2 DEF Calls!ToolCallsAssumption
<1>3. b \in BOOLEAN
  BY Zenon
<1>4. Calls!Running(k) /\ result \in Calls!Results(Calls!Current(k))
  BY <1>1 DEF Calls!NestedEnds
<1> HIDE DEF b
<1>5. /\ call \in Calls!Called /\ call.nested = c.nested + 1 /\ call.told = c.told
      /\ call.code = c.code
      /\ call.end = c.end /\ call.args = c.args
  <2> HIDE DEF c
  <2> QED BY <1>2, <1>3 DEF Calls!Called, call
<1> HIDE DEF call
<1>6. /\ toolCalls' \in Seq(Calls!Called) /\ Len(toolCalls') = Len(toolCalls)
      /\ toolCalls'[k] = call
      /\ \A i \in DOMAIN toolCalls : i # k => toolCalls'[i] = toolCalls[i]
  BY <1>1, <1>5, ToolReplaceAt DEF Calls!IInv, Calls!TypeOK
<1>7. k \in 1 .. ToolCallLimit
  BY DEF Calls!IInv, Calls!TypeOK, Calls!ToolCallsAssumption
<1>8. e \in Calls!Logs /\ e.call = k /\ e.nested = c.nested + 1
  <2>1. result.code \in Calls!Code
    BY <1>4, ToolResultForm DEF Calls!Code
  <2> QED BY <1>2, <1>7, <2>1 DEF Calls!Entry, Calls!Logs
<1> HIDE DEF e
<1>9. Calls!Running(k)'
  BY <1>4, <1>5, <1>6 DEF Calls!Running
<1>10. /\ toolLog' \in Seq(Calls!Logs) /\ toolLog'[1] = e
       /\ \A i \in 2 .. Len(toolLog') : toolLog'[i] = toolLog[i - 1]
       /\ Len(toolLog') \in 1 .. Len(toolLog) + 1 /\ Len(toolLog) \in Nat
       /\ DOMAIN toolLog = 1 .. Len(toolLog) /\ DOMAIN toolLog' = 1 .. Len(toolLog')
  BY <1>1, <1>8, ToolLoggedShifts DEF Calls!IInv, Calls!TypeOK, Calls!ToolCallsAssumption
<1>11. Calls!Own(k) = {} /\ Calls!SkillsInOrder(k)
  BY <1>4 DEF Calls!IInv, Calls!LogTellsCalls, Calls!VerdictsAgree
<1>12. \A i \in DOMAIN toolLog' : i = 1 \/ (i - 1 \in DOMAIN toolLog /\ toolLog'[i]
         = toolLog[i - 1] /\ i \in Nat)
  BY <1>10
<1>13. Calls!Own(k)' = {}
  <2> SUFFICES ASSUME NEW i \in DOMAIN toolLog', toolLog'[i].call = k, toolLog'[i].nested = 0
               PROVE  FALSE
    BY DEF Calls!Own
  <2>1. CASE i = 1
    BY <1>2, <1>8, <1>10, <2>1
  <2>2. CASE i # 1
    BY <1>11, <1>12, <2>2 DEF Calls!Own
  <2> QED BY <2>1, <2>2
<1>14. \A i \in Calls!Nested(k)' : i = 1 \/ (i - 1 \in Calls!Nested(k) /\ toolLog'[i]
         = toolLog[i - 1] /\ i \in Nat)
  BY <1>12 DEF Calls!Nested
<1>15. \A i \in Calls!Nested(k) : toolLog[i].nested <= c.nested /\ toolLog[i].nested \in Nat
       /\ i \in Nat
  <2>1. \A i \in DOMAIN toolLog : toolLog[i].nested \in Nat /\ i \in Nat
    <3>1. \A i \in DOMAIN toolLog : toolLog[i] \in Calls!Logs /\ i \in Nat
      BY DEF Calls!IInv, Calls!TypeOK
    <3> QED BY <3>1 DEF Calls!Logs
  <2> QED BY <2>1 DEF Calls!IInv, Calls!LogInv, Calls!Nested
<1>16. 1 \in Calls!Nested(k)'
  BY <1>2, <1>8, <1>10 DEF Calls!Nested
<1>17. Calls!VerdictsAgree(k)' /\ Calls!MissingExplained(k)'
  BY <1>9, <1>13 DEF Calls!VerdictsAgree, Calls!MissingExplained
<1>18. Calls!SkillsInOrder(k)'
  <2>1. ASSUME NEW i \in Calls!Nested(k)', NEW j \in Calls!Nested(k)', i < j
        PROVE  toolLog'[i].nested > toolLog'[j].nested
    <3>1. j # 1
      BY <1>14, <1>16, <2>1, <1>10 DEF Calls!Nested
    <3>2. CASE i = 1
      BY <1>2, <1>8, <1>10, <1>14, <1>15, <3>1, <3>2
    <3>3. CASE i # 1
      BY <1>11, <1>14, <2>1, <3>1, <3>3 DEF Calls!SkillsInOrder
    <3> QED BY <3>2, <3>3
  <2>2. ASSUME NEW i \in Calls!Nested(k)', NEW n \in 1 .. toolCalls'[k].nested,
               toolLog'[i].nested < n
        PROVE  \E j \in 1 .. i : j \in Calls!Nested(k)' /\ toolLog'[j].nested = n
    <3>1. n \in 1 .. c.nested + 1 /\ n \in Nat
      BY <1>2, <1>5, <1>6
    <3>2. i # 1
      BY <1>2, <1>8, <1>10, <2>2, <3>1
    <3>3. i - 1 \in Calls!Nested(k) /\ toolLog'[i] = toolLog[i - 1] /\ i \in Nat
          /\ i \in 1 .. Len(toolLog')
      BY <1>10, <1>14, <3>2 DEF Calls!Nested
    <3>4. CASE n = c.nested + 1
      BY <1>8, <1>10, <1>16, <3>3, <3>4
    <3>5. CASE n # c.nested + 1
      <4>1. n \in 1 .. c.nested
        BY <1>2, <3>1, <3>5
      <4>2. PICK j \in 1 .. i - 1 : j \in Calls!Nested(k) /\ toolLog[j].nested = n
        BY <1>11, <2>2, <3>3, <4>1 DEF Calls!SkillsInOrder
      <4>3. j + 1 \in 2 .. Len(toolLog') /\ j + 1 \in 1 .. i /\ (j + 1) - 1 = j
        BY <3>3, <4>2
      <4>4. toolLog'[j + 1] = toolLog[j]
        BY <1>10, <4>3
      <4>5. j + 1 \in Calls!Nested(k)'
        BY <1>10, <4>2, <4>3, <4>4 DEF Calls!Nested
      <4> QED BY <4>2, <4>3, <4>4, <4>5
    <3> QED BY <3>4, <3>5
  <2> QED BY <1>13, <2>1, <2>2 DEF Calls!SkillsInOrder
<1>19. toolCalls'[k].nested >= toolCalls[k].nested /\ e.nested <= toolCalls'[k].nested
  BY <1>2, <1>5, <1>6, <1>8
<1> QED BY <1>1, <1>6, <1>8, <1>17, <1>18, <1>19, ToolLogKeeps

\* A handler ends: its entry is newer than those of the calls it made.
LEMMA ToolEndKeeps ==
    ASSUME Calls!ToolCallsAssumption, Calls!IInv, NEW k \in DOMAIN toolCalls, NEW result,
           Calls!End(k, result)
    PROVE  Calls!IInv'
<1> DEFINE c == toolCalls[k]
           e == Calls!Entry(k, 0, result)
           told == IF result.text = "flagged" THEN "error" ELSE "success"
           code == Calls!Mapped(result.code, result.raw)
           end == IF result.code # "none" THEN "failure"
                  ELSE IF result.text = "flagged" THEN "flagged" ELSE "text"
           call == [c EXCEPT !.told = told, !.code = code, !.end = end]
<1>1. /\ result \in Calls!Ends(k)
      /\ toolLog' = IF c.args = "other" THEN toolLog ELSE Calls!Logged(e)
      /\ toolCalls' = [toolCalls EXCEPT ![k] = call]
  BY DEF Calls!End
<1>2. c \in Calls!Called /\ c.nested \in Nat /\ c.args \in Calls!Args
  <2>1. c \in Calls!Called
    BY DEF Calls!IInv, Calls!TypeOK
  <2> QED BY <2>1 DEF Calls!Called
<1>3. /\ Calls!Running(k)
      /\ \/ \E tool : result \in Calls!Results(tool)
         \/ \E text : result = Calls!Answer(text)
         \/ result = Calls!Failure("unknown", "other")
  BY <1>1 DEF Calls!Ends
<1>4. \/ result.code = "none" /\ code = "none"
      \/ /\ result.text = "flagged" /\ result.code # "none" /\ result.code \in Calls!Code
         /\ code \in Calls!Code
         /\ code = result.code \/ result.code = "unknown" \/ code \in ToolRaw
  BY <1>3, ToolResultForm
<1>5. code \in Calls!Code /\ result.code \in Calls!Code
  BY <1>4 DEF Calls!Code
<1>10. told \in {"success", "error"} /\ end \in {"text", "flagged", "failure"}
  OBVIOUS
<1> HIDE DEF code, told, end
<1>6. /\ call \in Calls!Called /\ call.nested = c.nested /\ call.told = told /\ call.code = code
      /\ call.end = end /\ call.args = c.args
  <2> HIDE DEF c
  <2> QED BY <1>2, <1>5, <1>10 DEF Calls!Called, call
<1> HIDE DEF call
<1>7. /\ toolCalls' \in Seq(Calls!Called) /\ Len(toolCalls') = Len(toolCalls)
      /\ toolCalls'[k] = call
      /\ \A i \in DOMAIN toolCalls : i # k => toolCalls'[i] = toolCalls[i]
  BY <1>1, <1>6, ToolReplaceAt DEF Calls!IInv, Calls!TypeOK
<1>8. CASE c.args = "other"
  <2>1. toolLog' = toolLog /\ toolCalls'[k].args = "other"
    BY <1>1, <1>2, <1>6, <1>7, <1>8 DEF Calls!Args
  <2>2. DOMAIN toolCalls' = DOMAIN toolCalls /\ Len(toolCalls') \in Len(toolCalls) .. ToolCallLimit
    BY <1>7 DEF Calls!IInv, Calls!TypeOK, Calls!ToolCallsAssumption
  <2>3. \A q \in DOMAIN toolCalls : toolCalls'[q].nested = toolCalls[q].nested
    BY <1>6, <1>7
  <2> QED BY <1>3, <1>7, <2>1, <2>2, <2>3, ToolSilentKeeps
<1>9. CASE c.args # "other"
  <2>1. toolLog' = Calls!Logged(e)
    BY <1>1, <1>9
  <2>2. e \in Calls!Logs /\ e.call = k /\ e.nested = 0 /\ e.code = result.code
        /\ e.status = IF result.code = "none" THEN "success" ELSE "error"
    <3>1. k \in 1 .. ToolCallLimit
      BY DEF Calls!IInv, Calls!TypeOK, Calls!ToolCallsAssumption
    <3> QED BY <1>5, <3>1 DEF Calls!Entry, Calls!Logs
  <2> HIDE DEF e
  <2>3. /\ toolLog' \in Seq(Calls!Logs) /\ toolLog'[1] = e
        /\ \A i \in 2 .. Len(toolLog') : toolLog'[i] = toolLog[i - 1]
        /\ Len(toolLog') \in 1 .. Len(toolLog) + 1 /\ Len(toolLog) \in Nat
        /\ DOMAIN toolLog = 1 .. Len(toolLog) /\ DOMAIN toolLog' = 1 .. Len(toolLog')
    BY <2>1, <2>2, ToolLoggedShifts DEF Calls!IInv, Calls!TypeOK, Calls!ToolCallsAssumption
  <2>4. Calls!Own(k) = {} /\ Calls!SkillsInOrder(k)
    BY <1>3 DEF Calls!IInv, Calls!LogTellsCalls, Calls!VerdictsAgree
  <2>5. \A i \in DOMAIN toolLog' : i = 1 \/ (i - 1 \in DOMAIN toolLog /\ toolLog'[i]
          = toolLog[i - 1] /\ i \in Nat)
    BY <2>3
  <2>6. Calls!Own(k)' = {1}
    <3>1. 1 \in Calls!Own(k)'
      BY <2>2, <2>3 DEF Calls!Own
    <3>2. ASSUME NEW i \in DOMAIN toolLog', toolLog'[i].call = k, toolLog'[i].nested = 0, i # 1
          PROVE  FALSE
      BY <2>4, <2>5, <3>2 DEF Calls!Own
    <3> QED BY <3>1, <3>2 DEF Calls!Own
  <2>7. \A i \in Calls!Nested(k)' : i - 1 \in Calls!Nested(k) /\ toolLog'[i]
          = toolLog[i - 1] /\ i \in Nat /\ i > 1
    <3> SUFFICES ASSUME NEW i \in Calls!Nested(k)'
                 PROVE  i - 1 \in Calls!Nested(k) /\ toolLog'[i] = toolLog[i - 1]
                        /\ i \in Nat /\ i > 1
      OBVIOUS
    <3>1. i \in DOMAIN toolLog' /\ toolLog'[i].call = k /\ toolLog'[i].nested > 0
      BY DEF Calls!Nested
    <3>2. i # 1
      BY <2>2, <2>3, <3>1
    <3> QED BY <2>3, <2>5, <3>1, <3>2 DEF Calls!Nested
  <2>8. Calls!VerdictsAgree(k)'
    <3>1. ~Calls!Running(k)'
      BY <1>6, <1>7, <1>10 DEF Calls!Running
    <3> QED BY <1>4, <1>6, <1>7, <2>2, <2>3, <2>6, <3>1 DEF Calls!VerdictsAgree, told, end
  <2>9. Calls!MissingExplained(k)'
    BY <2>6 DEF Calls!MissingExplained
  <2>10. Calls!SkillsInOrder(k)'
    <3>1. ASSUME NEW i \in Calls!Nested(k)', NEW j \in Calls!Nested(k)', i < j
          PROVE  toolLog'[i].nested > toolLog'[j].nested
      BY <2>4, <2>7, <3>1 DEF Calls!SkillsInOrder
    <3>2. \A i \in Calls!Own(k)', j \in Calls!Nested(k)' : i < j
      BY <2>6, <2>7
    <3>3. ASSUME NEW i \in Calls!Nested(k)', NEW n \in 1 .. toolCalls'[k].nested,
                 toolLog'[i].nested < n
          PROVE  \E j \in 1 .. i : j \in Calls!Nested(k)' /\ toolLog'[j].nested = n
      <4>1. n \in 1 .. c.nested
        BY <1>6, <1>7
      <4>2. i - 1 \in Calls!Nested(k) /\ toolLog'[i] = toolLog[i - 1]
            /\ i \in 1 .. Len(toolLog')
        BY <2>3, <2>7 DEF Calls!Nested
      <4>3. PICK j \in 1 .. i - 1 : j \in Calls!Nested(k) /\ toolLog[j].nested = n
        BY <2>4, <3>3, <4>1, <4>2 DEF Calls!SkillsInOrder
      <4>4. j + 1 \in 2 .. Len(toolLog') /\ j + 1 \in 1 .. i /\ (j + 1) - 1 = j
        BY <2>3, <4>2, <4>3
      <4>5. toolLog'[j + 1] = toolLog[j]
        BY <2>3, <4>4
      <4>6. j + 1 \in Calls!Nested(k)'
        BY <2>3, <4>3, <4>4, <4>5 DEF Calls!Nested
      <4> QED BY <4>3, <4>4, <4>5, <4>6
    <3> QED BY <3>1, <3>2, <3>3 DEF Calls!SkillsInOrder
  <2>11. toolCalls'[k].nested >= toolCalls[k].nested /\ e.nested <= toolCalls'[k].nested
    BY <1>2, <1>6, <1>7, <2>2
  <2> QED BY <1>7, <2>1, <2>2, <2>8, <2>9, <2>10, <2>11, ToolLogKeeps
<1> QED BY <1>8, <1>9

LEMMA ToolTimeoutKeeps ==
    ASSUME Calls!ToolCallsAssumption, Calls!IInv, NEW k \in DOMAIN toolCalls, Calls!Timeout(k)
    PROVE  Calls!IInv'
<1> DEFINE call == [toolCalls[k] EXCEPT !.told = "error", !.end = "timeout"]
<1>1. Calls!Running(k) /\ toolCalls' = [toolCalls EXCEPT ![k] = call] /\ toolLog' = toolLog
  BY DEF Calls!Timeout
<1>2. toolCalls[k] \in Calls!Called
  BY DEF Calls!IInv, Calls!TypeOK
<1>3. call \in Calls!Called /\ call.nested = toolCalls[k].nested /\ call.end = "timeout"
  BY <1>2 DEF Calls!Called
<1> HIDE DEF call
<1>4. /\ toolCalls' \in Seq(Calls!Called) /\ Len(toolCalls') = Len(toolCalls)
      /\ toolCalls'[k] = call
      /\ \A i \in DOMAIN toolCalls : i # k => toolCalls'[i] = toolCalls[i]
  BY <1>1, <1>3, ToolReplaceAt DEF Calls!IInv, Calls!TypeOK
<1>5. DOMAIN toolCalls' = DOMAIN toolCalls /\ Len(toolCalls') \in Len(toolCalls) .. ToolCallLimit
  BY <1>4 DEF Calls!IInv, Calls!TypeOK, Calls!ToolCallsAssumption
<1> QED BY <1>1, <1>3, <1>4, <1>5, ToolSilentKeeps

LEMMA ToolNextInv ==
    ASSUME Calls!ToolCallsAssumption
    PROVE  Calls!IInv /\ [Calls!Next]_Calls!vars => Calls!IInv'
<1> SUFFICES ASSUME Calls!IInv, [Calls!Next]_Calls!vars
             PROVE  Calls!IInv'
  OBVIOUS
<1>1. CASE UNCHANGED Calls!vars
  <2>1. toolCalls' = toolCalls /\ toolLog' = toolLog
    BY <1>1 DEF Calls!vars
  <2> QED BY <2>1 DEF Calls!IInv, Calls!TypeOK, Calls!LogInv, Calls!LogTellsCalls,
               Calls!VerdictsAgree, Calls!MissingExplained, Calls!SkillsInOrder,
                      Calls!Own, Calls!Nested, Calls!Running
<1>2. CASE Calls!Next
  BY <1>2, ToolCallKeeps, ToolNestedKeeps, ToolEndKeeps, ToolTimeoutKeeps DEF Calls!Next
<1> QED BY <1>1, <1>2

LEMMA ToolInvProperty ==
    ASSUME Calls!IInv
    PROVE  Calls!LogTellsCalls
  BY DEF Calls!IInv

LEMMA ToolInvariance == ServicesSpec => []Calls!IInv
<1>1. ServicesInit => Calls!IInv
  BY ToolInitInv, ServicesAssumption DEF ServicesInit, ServicesAssumption
<1>2. Calls!IInv /\ [ServicesNext]_servicesVars => Calls!IInv'
  <2> SUFFICES ASSUME Calls!IInv, [ServicesNext]_servicesVars
               PROVE  Calls!IInv'
    OBVIOUS
  <2>1. Calls!Next \/ UNCHANGED toolVars
    BY DEF ServicesNext, Still, servicesVars
  <2>2. [Calls!Next]_Calls!vars
    BY <2>1 DEF toolVars, Calls!vars
  <2>3. Calls!ToolCallsAssumption
    BY ServicesAssumption DEF ServicesAssumption
  <2> QED BY <2>2, <2>3, ToolNextInv
<1> QED BY <1>1, <1>2, PTL DEF ServicesSpec

-----------------------------------------------------------------------------
(* execute_python *)

LEMMA ProgramInitInv ==
    ASSUME Programs!PythonRunsAssumption, Programs!Init
    PROVE  Programs!IInv
<1>1. Programs!TypeOK
  BY DEF Programs!Init, Programs!TypeOK, Programs!Target, Programs!PythonRunsAssumption
<1>2. Programs!Inside = {}
  BY DEF Programs!Init, Programs!Inside
<1>3. <<>> = [i \in 1 .. 0 |-> 0] /\ \A c \in Request : <<>> = [i \in 1 .. 0 |-> c]
  OBVIOUS
<1> QED BY <1>1, <1>2, <1>3 DEF Programs!Init, Programs!IInv, Programs!WaitingInv,
             Programs!AloneInv, Programs!StdoutInv, Programs!PythonRunsAssumption

LEMMA ProgramEnterKeeps ==
    ASSUME Programs!PythonRunsAssumption, Programs!IInv, NEW c \in Request, Programs!Enter(c)
    PROVE  Programs!IInv'
<1> USE DEF Programs!IInv
<1>1. /\ pyThread[c] = "waiting"
      /\ pyThread' = [pyThread EXCEPT ![c] = "inside"]
      /\ pyBefore' = [pyBefore EXCEPT ![c] = pyStdout]
      /\ pyStdout' = c
      /\ pyAlone' = [d \in Request |-> pyAlone[d] /\ (d \in Programs!Inside \cup {c}
           => Programs!Inside = {})]
      /\ UNCHANGED <<pyTold, pyBuffer, pyPrinted, pyResult>>
  BY DEF Programs!Enter
<1>2. Programs!TypeOK'
  <2>1. pyAlone' \in [Request -> BOOLEAN]
    BY <1>1, Zenon DEF Programs!TypeOK
  <2> QED BY <1>1, <2>1 DEF Programs!TypeOK, Programs!Target
<1>3. Programs!Inside' = Programs!Inside \cup {c} /\ c \notin Programs!Inside
      /\ pyStdout # c /\ \A d \in Request : pyBefore[d] # c
  BY <1>1 DEF Programs!Inside, Programs!TypeOK, Programs!WaitingInv
<1>4. Programs!WaitingInv'
  BY <1>1, <1>3 DEF Programs!WaitingInv, Programs!TypeOK
<1>5. \A d \in Request : pyAlone'[d] => pyAlone[d] /\ (d \in Programs!Inside \cup {c}
        => Programs!Inside = {})
  BY <1>1
<1>6. Programs!AloneInv'
  <2> SUFFICES ASSUME NEW d \in Request, pyAlone'[d]
               PROVE  /\ pyThread'[d] = "inside" => Programs!Inside' = {d} /\ pyStdout' = d
                         /\ pyBefore'[d] # d
                      /\ pyThread'[d] = "ended" => pyStdout' # d
                         /\ \A e \in Programs!Inside' : pyBefore'[e] # d
                      /\ pyBuffer'[d] = [i \in 1 .. pyPrinted'[d] |-> d]
                      /\ pyTold'[d] = "output" => pyThread'[d] = "ended" /\ pyResult'[d]
                           = pyBuffer'[d]
    BY DEF Programs!AloneInv
  <2>1. pyAlone[d] /\ (d \in Programs!Inside \cup {c} => Programs!Inside = {})
    BY <1>5
  <2>2. CASE d = c
    BY <1>1, <1>3, <2>1, <2>2 DEF Programs!AloneInv, Programs!TypeOK
  <2>3. CASE d # c
    <3>1. pyThread'[d] = pyThread[d]
      BY <1>1, <2>3 DEF Programs!TypeOK
    <3>2. pyThread'[d] # "inside"
      BY <1>3, <2>1, <2>3, <3>1 DEF Programs!Inside
    <3>3. pyThread'[d] = "ended" => pyStdout' # d /\ \A e \in Programs!Inside' : pyBefore'[e] # d
      BY <1>1, <1>3, <2>1, <2>3, <3>1 DEF Programs!AloneInv, Programs!TypeOK, Programs!Inside
    <3> QED BY <1>1, <2>1, <3>1, <3>2, <3>3 DEF Programs!AloneInv
  <2> QED BY <2>2, <2>3
<1>7. Programs!StdoutInv'
  <2>1. CASE Programs!Overlapped
    BY <1>5, <2>1 DEF Programs!Overlapped, Programs!StdoutInv
  <2>2. CASE ~Programs!Overlapped /\ Programs!Inside = {}
    BY <1>1, <1>3, <2>2 DEF Programs!StdoutInv, Programs!TypeOK
  <2>3. CASE Programs!Inside # {}
    <3>1. PICK d \in Programs!Inside : TRUE
      BY <2>3
    <3>2. ~pyAlone'[c] /\ ~pyAlone'[d] /\ c # d /\ d \in Request
      BY <1>3, <1>5, <3>1 DEF Programs!Inside
    <3> QED BY <3>2 DEF Programs!StdoutInv, Programs!Overlapped
  <2> QED BY <2>1, <2>2, <2>3
<1> QED BY <1>2, <1>4, <1>6, <1>7

\* A thread that is alone prints to its own buffer, another to none of one alone.
LEMMA ProgramPrintKeeps ==
    ASSUME Programs!PythonRunsAssumption, Programs!IInv, NEW c \in Request,
           Programs!PrintLine(c)
    PROVE  Programs!IInv'
<1> USE DEF Programs!IInv
<1>1. /\ pyThread[c] = "inside" /\ pyPrinted[c] \in Nat
      /\ pyPrinted' = [pyPrinted EXCEPT ![c] = pyPrinted[c] + 1] /\ pyPrinted[c] < PyPrints
      /\ pyBuffer' = IF pyStdout = None THEN pyBuffer ELSE [pyBuffer EXCEPT ![pyStdout]
           = Append(pyBuffer[pyStdout], c)]
      /\ UNCHANGED <<pyThread, pyTold, pyStdout, pyBefore, pyResult, pyAlone>>
  BY DEF Programs!PrintLine, Programs!TypeOK
<1>2. Programs!TypeOK'
  <2>1. pyPrinted' \in [Request -> 0 .. PyPrints]
    BY <1>1 DEF Programs!TypeOK, Programs!PythonRunsAssumption
  <2>2. pyBuffer' \in [Request -> Seq(Request)]
    BY <1>1 DEF Programs!TypeOK, Programs!Target
  <2> QED BY <1>1, <2>1, <2>2 DEF Programs!TypeOK
<1>3. Programs!Inside' = Programs!Inside /\ c \in Programs!Inside
  BY <1>1 DEF Programs!Inside
<1>4. Programs!WaitingInv'
  <2> SUFFICES ASSUME NEW d \in Request, pyThread[d] = "waiting"
               PROVE  pyPrinted'[d] = pyPrinted[d] /\ pyBuffer'[d] = pyBuffer[d]
    BY <1>1 DEF Programs!WaitingInv
  <2> QED BY <1>1 DEF Programs!WaitingInv, Programs!TypeOK
<1>5. ASSUME NEW d \in Request, pyAlone[d]
      PROVE  /\ pyBuffer'[d] = [i \in 1 .. pyPrinted'[d] |-> d]
             /\ pyTold[d] = "output" => pyResult[d] = pyBuffer'[d]
  <2>1. CASE d = c
    <3>1. pyStdout = c /\ pyStdout # None /\ pyTold[c] # "output"
      BY <1>1, <1>5, <2>1 DEF Programs!AloneInv, Programs!PythonRunsAssumption, Programs!TypeOK
    <3>2. pyBuffer'[c] = Append(pyBuffer[c], c) /\ pyPrinted'[c] = pyPrinted[c] + 1
      BY <1>1, <3>1 DEF Programs!TypeOK
    <3>3. pyBuffer[c] = [i \in 1 .. pyPrinted[c] |-> c]
      BY <1>5, <2>1 DEF Programs!AloneInv
    <3> DEFINE own == [i \in 1 .. pyPrinted[c] |-> c]
    <3>4. Append(own, c) = [i \in 1 .. pyPrinted[c] + 1 |-> c]
      BY <1>1
    <3> QED BY <2>1, <3>1, <3>2, <3>3, <3>4
  <2>2. CASE d # c
    <3>1. pyStdout # d
      <4>1. CASE pyThread[d] = "inside"
        BY <1>3, <1>5, <2>2, <4>1 DEF Programs!AloneInv, Programs!TypeOK
      <4>2. CASE pyThread[d] # "inside"
        BY <1>5, <4>2 DEF Programs!AloneInv, Programs!WaitingInv, Programs!TypeOK
      <4> QED BY <4>1, <4>2
    <3>2. pyBuffer'[d] = pyBuffer[d] /\ pyPrinted'[d] = pyPrinted[d]
      BY <1>1, <2>2, <3>1 DEF Programs!TypeOK
    <3> QED BY <1>5, <3>2 DEF Programs!AloneInv
  <2> QED BY <2>1, <2>2
<1>6. Programs!AloneInv'
  BY <1>1, <1>3, <1>5 DEF Programs!AloneInv
<1>7. Programs!StdoutInv'
  BY <1>1, <1>3 DEF Programs!StdoutInv, Programs!Overlapped
<1> QED BY <1>2, <1>4, <1>6, <1>7

\* What a thread puts back is nobody's who is or was alone, and the process's own as
\* long as threads have not overlapped.
LEMMA ProgramLeaveKeeps ==
    ASSUME Programs!PythonRunsAssumption, Programs!IInv, NEW c \in Request, Programs!Leave(c)
    PROVE  Programs!IInv'
<1> USE DEF Programs!IInv
<1>1. /\ pyThread[c] = "inside"
      /\ pyThread' = [pyThread EXCEPT ![c] = "ended"]
      /\ pyStdout' = pyBefore[c]
      /\ UNCHANGED <<pyTold, pyBefore, pyBuffer, pyPrinted, pyResult, pyAlone>>
  BY DEF Programs!Leave
<1>2. Programs!TypeOK'
  BY <1>1 DEF Programs!TypeOK
<1>3. Programs!Inside' = Programs!Inside \ {c} /\ c \in Programs!Inside
  BY <1>1 DEF Programs!Inside, Programs!TypeOK
<1>4. Programs!WaitingInv'
  BY <1>1 DEF Programs!WaitingInv, Programs!TypeOK
<1>5. Programs!AloneInv'
  <2> SUFFICES ASSUME NEW d \in Request, pyAlone[d]
               PROVE  /\ pyThread'[d] = "inside" => Programs!Inside' = {d} /\ pyStdout' = d
                         /\ pyBefore[d] # d
                      /\ pyThread'[d] = "ended" => pyStdout' # d
                         /\ \A e \in Programs!Inside' : pyBefore[e] # d
                      /\ pyTold[d] = "output" => pyThread'[d] = "ended"
    BY <1>1 DEF Programs!AloneInv
  <2>1. CASE d = c
    BY <1>1, <1>3, <2>1 DEF Programs!AloneInv, Programs!TypeOK
  <2>2. CASE d # c
    <3>1. pyThread'[d] = pyThread[d]
      BY <1>1, <2>2 DEF Programs!TypeOK
    <3>2. pyThread[d] # "inside"
      BY <1>3, <2>2 DEF Programs!AloneInv, Programs!TypeOK
    <3> QED BY <1>1, <1>3, <3>1, <3>2 DEF Programs!AloneInv
  <2> QED BY <2>1, <2>2
<1>6. Programs!StdoutInv'
  <2>1. CASE Programs!Overlapped
    BY <1>1, <2>1 DEF Programs!StdoutInv, Programs!Overlapped
  <2>2. CASE ~Programs!Overlapped
    BY <1>1, <1>3, <2>2 DEF Programs!StdoutInv
  <2> QED BY <2>1, <2>2
<1> QED BY <1>2, <1>4, <1>5, <1>6

LEMMA ProgramRespondKeeps ==
    ASSUME Programs!PythonRunsAssumption, Programs!IInv, NEW c \in Request, Programs!Respond(c)
    PROVE  Programs!IInv'
<1> USE DEF Programs!IInv
<1>1. /\ pyThread[c] = "ended" /\ pyTold[c] = "none"
      /\ \/ pyTold' = [pyTold EXCEPT ![c] = "output"] /\ pyResult' = [pyResult EXCEPT ![c]
           = pyBuffer[c]]
         \/ pyTold' = [pyTold EXCEPT ![c] = "error"] /\ pyResult' = pyResult
      /\ UNCHANGED <<pyThread, pyStdout, pyBefore, pyBuffer, pyPrinted, pyAlone>>
  BY DEF Programs!Respond
<1>2. Programs!TypeOK' /\ Programs!Inside' = Programs!Inside
  BY <1>1 DEF Programs!TypeOK, Programs!Inside
<1>3. Programs!WaitingInv' /\ Programs!StdoutInv'
  BY <1>1, <1>2 DEF Programs!WaitingInv, Programs!StdoutInv, Programs!Overlapped
<1>4. \A d \in Request : pyAlone[d] /\ pyTold'[d] = "output" => pyThread[d] = "ended"
      /\ pyResult'[d] = pyBuffer[d]
  BY <1>1 DEF Programs!AloneInv, Programs!TypeOK
<1>5. Programs!AloneInv'
  BY <1>1, <1>2, <1>4 DEF Programs!AloneInv
<1> QED BY <1>2, <1>3, <1>5

LEMMA ProgramTimeoutKeeps ==
    ASSUME Programs!PythonRunsAssumption, Programs!IInv, NEW c \in Request, Programs!Timeout(c)
    PROVE  Programs!IInv'
<1> USE DEF Programs!IInv
<1>1. /\ pyThread[c] \in {"waiting", "inside"} /\ pyTold[c] = "none"
      /\ pyTold' = [pyTold EXCEPT ![c] = "timeout"]
      /\ pyThread' = [pyThread EXCEPT ![c] = IF pyThread[c] = "waiting" THEN "ended"
           ELSE pyThread[c]]
      /\ UNCHANGED <<pyStdout, pyBefore, pyBuffer, pyPrinted, pyResult, pyAlone>>
  BY DEF Programs!Timeout
<1>2. Programs!TypeOK' /\ Programs!Inside' = Programs!Inside
  BY <1>1 DEF Programs!TypeOK, Programs!Inside
<1>3. Programs!WaitingInv' /\ Programs!StdoutInv'
  BY <1>1, <1>2 DEF Programs!WaitingInv, Programs!StdoutInv, Programs!Overlapped,
       Programs!TypeOK
<1>4. Programs!AloneInv'
  <2> SUFFICES ASSUME NEW d \in Request, pyAlone[d]
               PROVE  /\ pyThread'[d] = "inside" => Programs!Inside' = {d} /\ pyStdout = d
                         /\ pyBefore[d] # d
                      /\ pyThread'[d] = "ended" => pyStdout # d
                         /\ \A e \in Programs!Inside' : pyBefore[e] # d
                      /\ pyTold'[d] = "output" => pyThread'[d] = "ended" /\ pyResult[d]
                           = pyBuffer[d]
    BY <1>1 DEF Programs!AloneInv
  <2> QED BY <1>1, <1>2 DEF Programs!AloneInv, Programs!WaitingInv, Programs!TypeOK,
               Programs!Inside
<1> QED BY <1>2, <1>3, <1>4

LEMMA ProgramNextInv ==
    ASSUME Programs!PythonRunsAssumption
    PROVE  Programs!IInv /\ [Programs!Next]_Programs!vars => Programs!IInv'
<1> SUFFICES ASSUME Programs!IInv, [Programs!Next]_Programs!vars
             PROVE  Programs!IInv'
  OBVIOUS
<1>1. CASE UNCHANGED Programs!vars
  BY <1>1 DEF Programs!vars, Programs!IInv, Programs!TypeOK, Programs!WaitingInv,
       Programs!AloneInv, Programs!StdoutInv, Programs!Overlapped, Programs!Inside
<1> QED BY <1>1, ProgramEnterKeeps, ProgramPrintKeeps, ProgramLeaveKeeps, ProgramRespondKeeps,
             ProgramTimeoutKeeps DEF Programs!Next

LEMMA ProgramInvProperty ==
    ASSUME Programs!IInv
    PROVE  Programs!OutputIsOwn
<1>1. ASSUME Programs!Inside = {}, pyStdout # None
      PROVE  \E c, d \in Request : c # d /\ ~pyAlone[c] /\ ~pyAlone[d]
  BY <1>1 DEF Programs!IInv, Programs!StdoutInv, Programs!Overlapped
<1>2. \A c \in Request :
          /\ pyTold[c] = "output" /\ pyAlone[c] => pyResult[c] = [i \in 1 .. pyPrinted[c] |-> c]
          /\ pyAlone[c] /\ c \in Programs!Inside => pyStdout = c
  BY DEF Programs!IInv, Programs!AloneInv, Programs!Inside
<1> QED BY <1>1, <1>2 DEF Programs!OutputIsOwn

LEMMA ProgramInvariance == ServicesSpec => []Programs!IInv
<1>1. ServicesInit => Programs!IInv
  BY ProgramInitInv, ServicesAssumption DEF ServicesInit, ServicesAssumption
<1>2. Programs!IInv /\ [ServicesNext]_servicesVars => Programs!IInv'
  <2> SUFFICES ASSUME Programs!IInv, [ServicesNext]_servicesVars
               PROVE  Programs!IInv'
    OBVIOUS
  <2>1. Programs!Next \/ UNCHANGED pyVars
    BY DEF ServicesNext, Still, servicesVars
  <2>2. [Programs!Next]_Programs!vars
    BY <2>1 DEF pyVars, Programs!vars
  <2>3. Programs!PythonRunsAssumption
    BY ServicesAssumption DEF ServicesAssumption
  <2> QED BY <2>2, <2>3, ProgramNextInv
<1> QED BY <1>1, <1>2, PTL DEF ServicesSpec

\* The registry's log tells what the callers were told, whatever handlers, skills and
\* timeouts do and however short the log is; and a program that ran alone answers with
\* its own output, for any number of calls.
THEOREM ToolsAnswerHolds == ServicesSpec => []ToolsAnswer
<1>1. Calls!IInv => Calls!LogTellsCalls
  BY ToolInvProperty, ServicesAssumption DEF ServicesAssumption
<1>2. Programs!IInv => Programs!OutputIsOwn
  BY ProgramInvProperty, ServicesAssumption DEF ServicesAssumption
<1>3. Calls!IInv /\ Programs!IInv => ToolsAnswer
  BY <1>1, <1>2 DEF ToolsAnswer
<1> QED BY <1>3, ToolInvariance, ProgramInvariance, PTL

-----------------------------------------------------------------------------
(* The multi-agent pipeline *)

\* The planner's graphs are without cycles, and a set of steps has a first one.
LEMMA TeamGraph ==
    /\ \A raw : ~Orchestrator!HasCycle(Orchestrator!ValidateDag(raw))
    /\ \A S \in SUBSET Nat : S # {} => \E n \in S : \A m \in S : n <= m
<1>1. Graph!NumStepsAssumption
  BY ServicesAssumption DEF ServicesAssumption, Orchestrator!NumStepsAssumption,
                            Graph!NumStepsAssumption
<1>2. ASSUME NEW raw
      PROVE  ~Orchestrator!HasCycle(Orchestrator!ValidateDag(raw))
  <2>1. ~Graph!HasCycle(Graph!ValidateDag(raw))
    BY <1>1, Graph!ValidateDagSound
  <2>2. Orchestrator!ValidateDag(raw) = Graph!ValidateDag(raw)
    BY DEF Orchestrator!ValidateDag, Graph!ValidateDag, Orchestrator!Sorted, Graph!Sorted,
           Orchestrator!KnownDeps, Graph!KnownDeps, Orchestrator!Step, Graph!Step
  <2> DEFINE deps == Graph!ValidateDag(raw)
  <2>3. Orchestrator!HasCycle(deps) => Graph!HasCycle(deps)
    BY DEF Orchestrator!HasCycle, Graph!HasCycle, Orchestrator!Step, Graph!Step
  <2> HIDE DEF deps
  <2> QED BY <2>1, <2>2, <2>3 DEF deps
<1>3. \A S \in SUBSET Nat : S # {} => \E n \in S : \A m \in S : n <= m
  BY <1>1, Graph!LeastNat
<1> QED BY <1>2, <1>3

LEMMA TeamInitInv ==
    ASSUME Orchestrator!OrchestrationAssumption, Orchestrator!Init
    PROVE  Orchestrator!IInv
<1>1. PICK raw \in [Orchestrator!Step -> SUBSET Orchestrator!Step] : orchDeps
        = Orchestrator!ValidateDag([deps |-> raw])
  BY DEF Orchestrator!Init
<1>2. orchDeps \in [Orchestrator!Step -> SUBSET Orchestrator!Step]
  BY <1>1 DEF Orchestrator!ValidateDag, Orchestrator!KnownDeps
<1>3. ~Orchestrator!HasCycle(orchDeps)
  BY <1>1, TeamGraph
<1>4. /\ orchPhase = "planning" /\ orchBus = {} /\ orchRound = {}
      /\ orchResult = [s \in Orchestrator!Step |-> None]
      /\ orchAttempts = [s \in Orchestrator!Step |-> 0]
      /\ orchStarted = [s \in Orchestrator!Step |-> {}]
  BY DEF Orchestrator!Init
<1>5. Orchestrator!TypeOK
  BY <1>2, <1>4 DEF Orchestrator!TypeOK, Orchestrator!OrchestrationAssumption
<1>6. Orchestrator!StepInv
  BY <1>4 DEF Orchestrator!StepInv, Orchestrator!OrchestrationAssumption, Orchestrator!Status
<1> QED BY <1>3, <1>4, <1>5, <1>6 DEF Orchestrator!IInv, Orchestrator!RoundInv

\* When no pending step is ready there is no pending step: the plan has no cycle.
LEMMA TeamNoneBlocked ==
    ASSUME Orchestrator!OrchestrationAssumption, Orchestrator!IInv, Orchestrator!Ready = {}
    PROVE  Orchestrator!Pending = {}
<1> SUFFICES ASSUME Orchestrator!Pending # {}
             PROVE  FALSE
  OBVIOUS
<1>1. ASSUME NEW s \in Orchestrator!Pending
      PROVE  orchDeps[s] \cap Orchestrator!Pending # {}
  <2>1. PICK d \in orchDeps[s] : d \notin Orchestrator!Attempted
    BY DEF Orchestrator!Ready
  <2>2. d \in Orchestrator!Step
    BY DEF Orchestrator!IInv, Orchestrator!TypeOK, Orchestrator!Pending
  <2>3. orchResult[d] = None
    BY <2>1, <2>2 DEF Orchestrator!IInv, Orchestrator!TypeOK, Orchestrator!StepInv,
         Orchestrator!Attempted, Orchestrator!Status
  <2> QED BY <2>1, <2>2, <2>3 DEF Orchestrator!Pending
<1>2. Orchestrator!HasCycle(orchDeps)
  BY <1>1 DEF Orchestrator!HasCycle, Orchestrator!Pending
<1> QED BY <1>2 DEF Orchestrator!IInv

LEMMA TeamFirstIsOne ==
    ASSUME Orchestrator!IInv, orchRound # {}
    PROVE  Orchestrator!First(orchRound) \in orchRound
<1>1. orchRound \subseteq Orchestrator!Step /\ Orchestrator!Step \subseteq Nat
  BY DEF Orchestrator!IInv, Orchestrator!TypeOK, Orchestrator!Pending, Orchestrator!Step
<1>2. PICK s \in orchRound : \A t \in orchRound : s <= t
  BY <1>1, TeamGraph
<1> QED BY <1>2 DEF Orchestrator!First

LEMMA TeamStartRoundKeeps ==
    ASSUME Orchestrator!IInv, Orchestrator!StartRound
    PROVE  Orchestrator!IInv'
<1>1. orchRound' = Orchestrator!Ready /\ UNCHANGED <<orchPhase, orchDeps, orchBus, orchResult,
                                                     orchAttempts, orchStarted>>
  BY DEF Orchestrator!StartRound
<1>2. Orchestrator!Ready \subseteq Orchestrator!Pending /\ Orchestrator!Pending'
        = Orchestrator!Pending /\ Orchestrator!Attempted' = Orchestrator!Attempted
  BY <1>1 DEF Orchestrator!Ready, Orchestrator!Pending, Orchestrator!Attempted
<1>3. Orchestrator!TypeOK'
  BY <1>1, <1>2 DEF Orchestrator!IInv, Orchestrator!TypeOK
<1>4. Orchestrator!RoundInv'
  BY <1>1, <1>2 DEF Orchestrator!RoundInv, Orchestrator!Ready
<1>5. Orchestrator!StepInv' /\ ~Orchestrator!HasCycle(orchDeps')
  BY <1>1 DEF Orchestrator!IInv, Orchestrator!StepInv
<1> QED BY <1>3, <1>4, <1>5 DEF Orchestrator!IInv

LEMMA TeamCallToolKeeps ==
    ASSUME Orchestrator!OrchestrationAssumption, Orchestrator!IInv, Orchestrator!CallTool
    PROVE  Orchestrator!IInv'
<1> DEFINE s == Orchestrator!First(orchRound)
<1>1. s \in orchRound /\ s \in Orchestrator!Step /\ orchResult[s] = None
  BY TeamFirstIsOne DEF Orchestrator!CallTool, Orchestrator!IInv, Orchestrator!TypeOK,
       Orchestrator!Pending
<1> HIDE DEF s
<1>2. /\ UNCHANGED <<orchPhase, orchDeps, orchBus>> /\ orchPhase = "executing"
      /\ orchAttempts' = [orchAttempts EXCEPT ![s] = orchAttempts[s] + 1]
      /\ orchStarted' = [orchStarted EXCEPT ![s] = IF orchAttempts[s]
           = 0 THEN Orchestrator!Attempted ELSE orchStarted[s]]
  BY DEF Orchestrator!CallTool, s
<1>3. /\ orchAttempts[s] \in Nat /\ orchAttempts[s] <= OrchRetries /\ OrchRetries \in Nat
      /\ orchAttempts \in [Orchestrator!Step -> 0 .. OrchRetries + 1]
      /\ orchStarted \in [Orchestrator!Step -> SUBSET Orchestrator!Step]
      /\ orchResult \in [Orchestrator!Step -> Orchestrator!Status \cup {None}]
      /\ orchRound \subseteq Orchestrator!Pending
      /\ orchDeps[s] \subseteq Orchestrator!Attempted
      /\ None \notin Orchestrator!Status
  BY <1>1 DEF Orchestrator!IInv, Orchestrator!TypeOK, Orchestrator!StepInv,
       Orchestrator!RoundInv, Orchestrator!OrchestrationAssumption
<1>4. \/ /\ orchResult' = [orchResult EXCEPT ![s] = "completed"]
         /\ orchRound' = orchRound \ {s}
      \/ /\ orchAttempts'[s] <= OrchRetries
         /\ orchResult' = orchResult /\ orchRound' = orchRound
      \/ /\ orchAttempts'[s] > OrchRetries
         /\ orchResult' = [orchResult EXCEPT ![s] = "failed"]
         /\ orchRound' = orchRound \ {s}
  BY DEF Orchestrator!CallTool, s
<1>5. orchAttempts'[s] = orchAttempts[s] + 1 /\ \A t \in Orchestrator!Step : t # s
        => orchAttempts'[t] = orchAttempts[t]
  BY <1>1, <1>2, <1>3
<1>6. \A t \in Orchestrator!Step : t # s => orchResult'[t] = orchResult[t] /\ orchStarted'[t]
        = orchStarted[t]
  BY <1>2, <1>3, <1>4
<1>7. orchStarted'[s] = IF orchAttempts[s] = 0 THEN Orchestrator!Attempted ELSE orchStarted[s]
  BY <1>1, <1>2, <1>3
<1>8. \/ orchResult'[s] = "completed" /\ s \notin orchRound'
      \/ orchResult'[s] = None /\ orchAttempts'[s] <= OrchRetries
      \/ orchResult'[s] = "failed" /\ orchAttempts'[s] > OrchRetries /\ s \notin orchRound'
  BY <1>1, <1>3, <1>4
<1>9. Orchestrator!Attempted \subseteq Orchestrator!Attempted'
      /\ orchRound' \subseteq Orchestrator!Pending'
  <2>1. \A t \in orchRound' : t \in Orchestrator!Step /\ t \in orchRound /\ orchResult[t] = None
    BY <1>3, <1>4 DEF Orchestrator!Pending
  <2>2. None \notin {"completed", "failed"}
    BY <1>3 DEF Orchestrator!Status
  <2> QED BY <1>1, <1>6, <1>8, <2>1, <2>2 DEF Orchestrator!Attempted, Orchestrator!Pending
<1>10. Orchestrator!TypeOK'
  <2>1. orchAttempts' \in [Orchestrator!Step -> 0 .. OrchRetries + 1]
    BY <1>1, <1>2, <1>3
  <2>2. orchStarted' \in [Orchestrator!Step -> SUBSET Orchestrator!Step]
    BY <1>2, <1>3 DEF Orchestrator!Attempted
  <2>3. orchResult' \in [Orchestrator!Step -> Orchestrator!Status \cup {None}]
    BY <1>3, <1>4 DEF Orchestrator!Status
  <2> QED BY <1>2, <1>9, <2>1, <2>2, <2>3 DEF Orchestrator!IInv, Orchestrator!TypeOK
<1>11. Orchestrator!RoundInv'
  <2>1. orchRound' \subseteq orchRound
    BY <1>4
  <2> QED BY <1>2, <1>9, <2>1 DEF Orchestrator!IInv, Orchestrator!RoundInv
<1>12. Orchestrator!StepInv'
  <2> SUFFICES ASSUME NEW t \in Orchestrator!Step
               PROVE  /\ orchAttempts'[t] > 0 => orchDeps'[t] \subseteq orchStarted'[t]
                      /\ orchResult'[t] = None => orchAttempts'[t] <= OrchRetries
                      /\ orchResult'[t] = "failed" => orchAttempts'[t] = OrchRetries + 1
                      /\ orchResult'[t] # "skipped"
                      /\ orchPhase' \in {"reviewing", "done"} => orchResult'[t] # None
    BY DEF Orchestrator!StepInv
  <2>1. CASE t = s
    <3>1. orchDeps[s] \subseteq orchStarted'[s]
      <4>1. orchAttempts[s] > 0 => orchDeps[s] \subseteq orchStarted[s]
        BY <1>1 DEF Orchestrator!IInv, Orchestrator!StepInv
      <4> QED BY <1>3, <1>7, <4>1
    <3>2. None # "failed" /\ None # "completed" /\ None # "skipped"
      BY <1>3 DEF Orchestrator!Status
    <3> QED BY <1>2, <1>3, <1>5, <1>8, <2>1, <3>1, <3>2
  <2>2. CASE t # s
    BY <1>2, <1>5, <1>6, <2>2 DEF Orchestrator!IInv, Orchestrator!StepInv
  <2> QED BY <2>1, <2>2
<1> QED BY <1>2, <1>10, <1>11, <1>12 DEF Orchestrator!IInv

LEMMA TeamEndExecutionKeeps ==
    ASSUME Orchestrator!OrchestrationAssumption, Orchestrator!IInv, Orchestrator!EndExecution
    PROVE  Orchestrator!IInv'
<1>1. /\ orchRound = {} /\ Orchestrator!Ready = {} /\ orchPhase' = "reviewing"
      /\ UNCHANGED <<orchDeps, orchBus, orchRound, orchAttempts, orchStarted>>
      /\ orchResult' = [s \in Orchestrator!Step |-> IF orchResult[s] = None THEN "skipped"
           ELSE orchResult[s]]
  BY DEF Orchestrator!EndExecution
<1>2. \A s \in Orchestrator!Step : orchResult[s] # None
  BY <1>1, TeamNoneBlocked DEF Orchestrator!Pending
<1>3. orchResult \in [Orchestrator!Step -> Orchestrator!Status \cup {None}]
  BY DEF Orchestrator!IInv, Orchestrator!TypeOK
<1>4. orchResult' = orchResult
  BY <1>1, <1>2, <1>3
<1>5. Orchestrator!TypeOK'
  BY <1>1, <1>4 DEF Orchestrator!IInv, Orchestrator!TypeOK
<1>6. Orchestrator!StepInv'
  BY <1>1, <1>2, <1>4 DEF Orchestrator!IInv, Orchestrator!StepInv
<1> QED BY <1>1, <1>5, <1>6 DEF Orchestrator!IInv, Orchestrator!RoundInv

\* The other steps of the pipeline.
LEMMA TeamOtherKeeps ==
    ASSUME Orchestrator!IInv, Orchestrator!NoPlan \/ Orchestrator!SendPlan
           \/ Orchestrator!Review \/ Orchestrator!Abandon \/ UNCHANGED Orchestrator!vars
    PROVE  Orchestrator!IInv'
<1>1. UNCHANGED <<orchDeps, orchRound, orchResult, orchAttempts, orchStarted>>
  BY DEF Orchestrator!NoPlan, Orchestrator!SendPlan, Orchestrator!Review, Orchestrator!Abandon,
       Orchestrator!vars
<1>2. /\ orchPhase' \in {"reviewing", "done"} => orchPhase \in {"reviewing", "done"}
      /\ orchPhase' \in {"planning", "executing", "reviewing", "done", "error", "abandoned"}
      /\ orchBus' \subseteq {"planner", "orchestrator", "reviewer"}
  BY DEF Orchestrator!NoPlan, Orchestrator!SendPlan, Orchestrator!Review, Orchestrator!Abandon,
       Orchestrator!vars, Orchestrator!IInv, Orchestrator!TypeOK
<1>3. Orchestrator!TypeOK'
  BY <1>1, <1>2 DEF Orchestrator!IInv, Orchestrator!TypeOK, Orchestrator!Pending
<1>4. Orchestrator!RoundInv' /\ Orchestrator!StepInv'
  BY <1>1, <1>2 DEF Orchestrator!IInv, Orchestrator!RoundInv, Orchestrator!StepInv,
       Orchestrator!Attempted
<1> QED BY <1>1, <1>3, <1>4 DEF Orchestrator!IInv

LEMMA TeamNextInv ==
    ASSUME Orchestrator!OrchestrationAssumption, Orchestrator!IInv,
           [Orchestrator!Next]_Orchestrator!vars
    PROVE  Orchestrator!IInv'
<1>1. CASE Orchestrator!StartRound
  BY <1>1, TeamStartRoundKeeps
<1>2. CASE Orchestrator!CallTool
  BY <1>2, TeamCallToolKeeps
<1>3. CASE Orchestrator!EndExecution
  BY <1>3, TeamEndExecutionKeeps
<1>4. CASE Orchestrator!NoPlan \/ Orchestrator!SendPlan \/ Orchestrator!Review
           \/ Orchestrator!Abandon \/ UNCHANGED Orchestrator!vars
  BY <1>4, TeamOtherKeeps
<1> QED BY <1>1, <1>2, <1>3, <1>4 DEF Orchestrator!Next

LEMMA TeamInvProperty ==
    ASSUME Orchestrator!OrchestrationAssumption, Orchestrator!IInv
    PROVE  Orchestrator!ResultsCoverPlan
<1>1. \A s \in Orchestrator!Step : orchResult[s] \in {"completed", "failed",
    "skipped"} \cup {None}
  BY DEF Orchestrator!IInv, Orchestrator!TypeOK, Orchestrator!Status
<1> QED BY <1>1 DEF Orchestrator!IInv, Orchestrator!StepInv, Orchestrator!ResultsCoverPlan

LEMMA TeamInvariance == ServicesSpec => []Orchestrator!IInv
<1>1. ServicesInit => Orchestrator!IInv
  BY TeamInitInv, ServicesAssumption DEF ServicesInit, ServicesAssumption
<1>2. Orchestrator!IInv /\ [ServicesNext]_servicesVars => Orchestrator!IInv'
  <2> SUFFICES ASSUME Orchestrator!IInv, [ServicesNext]_servicesVars
               PROVE  Orchestrator!IInv'
    OBVIOUS
  <2>1. Orchestrator!Next \/ UNCHANGED orchVars
    BY DEF ServicesNext, Still, servicesVars
  <2>2. [Orchestrator!Next]_Orchestrator!vars
    BY <2>1 DEF orchVars, Orchestrator!vars
  <2>3. Orchestrator!OrchestrationAssumption
    BY ServicesAssumption DEF ServicesAssumption
  <2> QED BY <2>2, <2>3, TeamNextInv
<1> QED BY <1>1, <1>2, PTL DEF ServicesSpec

\* The orchestrator runs a step only when its dependencies have run to their end, and
\* what reaches the review covers the plan: _validate_dag leaves no plan in which steps
\* wait for each other, for any number of steps, graph and limit of retries.
THEOREM ResultsCoverPlanHolds == ServicesSpec => []ResultsCoverPlan
<1>1. Orchestrator!IInv => ResultsCoverPlan
  BY TeamInvProperty, ServicesAssumption DEF ResultsCoverPlan, ServicesAssumption
<1> QED BY <1>1, TeamInvariance, PTL

-----------------------------------------------------------------------------
(* The executor in serial mode *)

LEMMA SerialFinite == \A S : Runs!Cardinality(S) = Serial!Cardinality(S)
  BY DEF Runs!Cardinality, Serial!Cardinality, Runs!IsFiniteSet, Serial!IsFiniteSet

LEMMA SerialInit == Serial!Init => Runs!Init
  BY DEF Runs!Init, Serial!Init, Runs!PlannedPlan, Serial!PlannedPlan, Runs!ValidateDag,
         Serial!ValidateDag, Runs!KnownDeps, Serial!KnownDeps, Runs!ParseRetry,
         Serial!ParseRetry, Runs!Sorted, Serial!Sorted, Runs!Step, Serial!Step,
         Runs!RetryStrategy, Serial!RetryStrategy

LEMMA SerialNext == Serial!Next => Runs!Next
  BY DEF Runs!Next, Serial!Next, Runs!Main, Serial!Main, Runs!Attempt, Serial!Attempt,
         Runs!Finish, Serial!Finish, Runs!SkipBlocked, Serial!SkipBlocked,
         Runs!TripFailureBreaker, Serial!TripFailureBreaker, Runs!TripLowGainBreaker,
         Serial!TripLowGainBreaker, Runs!StartRound, Serial!StartRound, Runs!Collect,
         Serial!Collect, Runs!BookSuccess, Serial!BookSuccess, Runs!BookFailure,
         Serial!BookFailure, Runs!Raise, Serial!Raise, Runs!Close, Serial!Close,
         Runs!AttemptSucceeds, Serial!AttemptSucceeds, Runs!AttemptFails, Serial!AttemptFails,
         Runs!FallbackAttempt, Serial!FallbackAttempt, Runs!AttemptRaises, Serial!AttemptRaises,
         Runs!Succeed, Serial!Succeed, Runs!GoOn, Serial!GoOn, Runs!GiveUp, Serial!GiveUp,
         Runs!HasFallback, Serial!HasFallback, Runs!MaxAttempts, Serial!MaxAttempts,
         Runs!PreviousResultsReadable, Serial!PreviousResultsReadable, Runs!plan, Serial!plan,
         Runs!RebuiltPlan, Serial!RebuiltPlan, Runs!Step, Serial!Step, Runs!Booked,
         Serial!Booked, Runs!StoreResult, Serial!StoreResult, Runs!UpdateInfoGain,
         Serial!UpdateInfoGain, Runs!IsComplete, Serial!IsComplete, Runs!Ready, Serial!Ready,
         Runs!With, Serial!With, Runs!NextRound, Serial!NextRound, Runs!FirstOf, Serial!FirstOf,
         Runs!SkipPending, Serial!SkipPending, Runs!FailureBreakerOpen,
         Serial!FailureBreakerOpen, Runs!LowGainBreakerOpen, Serial!LowGainBreakerOpen,
         Runs!planVars, Serial!planVars, Runs!mainVars, Serial!mainVars, Runs!taskVars,
         Serial!taskVars, Runs!bookVars, Serial!bookVars

LEMMA SerialProperty == Runs!SerialRun => Serial!SerialRun
<1>1. Runs!RaisedOnlyByEmptyResult => Serial!RaisedOnlyByEmptyResult
  BY DEF Runs!RaisedOnlyByEmptyResult, Serial!RaisedOnlyByEmptyResult, Runs!plan,
         Serial!plan, Runs!RebuiltPlan, Serial!RebuiltPlan, Runs!Step, Serial!Step
<1>2. Runs!InListOrder => Serial!InListOrder
  BY DEF Runs!InListOrder, Serial!InListOrder, Runs!Step, Serial!Step
<1>3. Runs!SerialOrder => Serial!SerialOrder
  <2> DEFINE Busy == {s \in 1 .. SerialSteps : execTask[s] \in {"running", "fallback"}}
  <2>1. Runs!SerialOrder => Runs!Cardinality(Busy) <= 1
    BY DEF Runs!SerialOrder, Runs!Step
  <2>2. Runs!Cardinality(Busy) = Serial!Cardinality(Busy)
    BY SerialFinite
  <2>3. Serial!Cardinality(Busy) <= 1 /\ Serial!InListOrder => Serial!SerialOrder
    BY DEF Serial!SerialOrder, Serial!Step
  <2> HIDE DEF Busy
  <2> QED BY <1>2, <2>1, <2>2, <2>3 DEF Runs!SerialOrder
<1> QED BY <1>1, <1>3 DEF Runs!SerialRun, Serial!SerialRun

LEMMA SerialConstants == Runs!NumStepsAssumption /\ Runs!ExecutorAssumption
BY ServicesAssumption
   DEF ServicesAssumption, Serial!NumStepsAssumption, Runs!NumStepsAssumption,
       Serial!ExecutorAssumption, Runs!ExecutorAssumption, Serial!Step, Runs!Step

\* What the serial executor does here, it does in the module the theorems are about.
LEMMA SerialRefines == ServicesSpec => Runs!Spec
<1>1. ServicesInit => Runs!Init
  BY SerialInit DEF ServicesInit
<1>2. [ServicesNext]_servicesVars => [Runs!Next]_Runs!vars
  <2> SUFFICES ASSUME [ServicesNext]_servicesVars
               PROVE  [Runs!Next]_Runs!vars
    OBVIOUS
  <2>1. Serial!Next \/ UNCHANGED execVars
    BY DEF ServicesNext, Still, servicesVars
  <2> QED BY <2>1, SerialNext DEF execVars, Runs!vars, Runs!planVars, Runs!mainVars,
                                  Runs!taskVars, Runs!bookVars
<1> QED BY <1>1, <1>2, PTL DEF ServicesSpec, Runs!Spec

LEMMA SerialTypes == Runs!TypeOK => Serial!TypeOK
<1>1. Runs!Step = Serial!Step /\ Runs!Status = Serial!Status /\ Runs!Task = Serial!Task
  BY DEF Runs!Step, Serial!Step, Runs!Status, Serial!Status, Runs!Task, Serial!Task
<1>2. Runs!Plan = Serial!Plan
  BY <1>1 DEF Runs!Plan, Serial!Plan, Runs!RetryStrategy, Serial!RetryStrategy
<1>3. Runs!Ended = Serial!Ended
  BY DEF Runs!Ended, Serial!Ended
<1> QED BY <1>1, <1>2, <1>3 DEF Runs!TypeOK, Serial!TypeOK

LEMMA SerialTyped == ServicesSpec => []Serial!TypeOK
<1>1. Runs!Spec => []Runs!TypeOK
  BY SerialConstants, Runs!TypeCorrect
<1> QED BY <1>1, SerialRefines, SerialTypes, PTL

\* Serial mode runs one step at a time and in list order, and raises only because of an
\* empty result, for any plans, number of steps and limits.
THEOREM SerialRunHolds == ServicesSpec => []SerialRun
<1>1. Runs!Spec => []Runs!SerialRun
  BY SerialConstants, Runs!SerialRunHolds
<1>2. Runs!SerialRun => SerialRun
  BY SerialProperty DEF SerialRun
<1> QED BY <1>1, <1>2, SerialRefines, PTL

-----------------------------------------------------------------------------
(* Lessons from failures *)

\* The cardinality of the instance is that of the library's theorems.
LEMMA LessonsFinite ==
    \A S : Lessons!Cardinality(S) = Cardinality(S) /\ Lessons!IsFiniteSet(S) = IsFiniteSet(S)
<1>1. \A S : Lessons!IsFiniteSet(S) = IsFiniteSet(S)
  BY DEF Lessons!IsFiniteSet, IsFiniteSet
<1>2. \A S : Lessons!Cardinality(S) = Cardinality(S)
  BY DEF Lessons!Cardinality, Cardinality, Lessons!IsFiniteSet, IsFiniteSet
<1> QED BY <1>1, <1>2

-----------------------------------------------------------------------------

LEMMA LessonsInitInv == Lessons!ExperiencesAssumption /\ Lessons!Init => Lessons!IInv
<1> SUFFICES ASSUME Lessons!ExperiencesAssumption, Lessons!Init
             PROVE  Lessons!IInv
  OBVIOUS
<1>1. expFile \in {None} \cup Seq(Lessons!Lesson) /\ expSaved \subseteq Lessons!Lesson
  <2>1. \A i \in Lessons!Readable : <<[of |-> 0, case |-> i]>> \in Seq(Lessons!Lesson)
    <3> TAKE i \in Lessons!Readable
    <3>1. [of |-> 0, case |-> i] \in Lessons!Lesson
      BY DEF Lessons!Lesson
    <3> QED BY <3>1
  <2> DEFINE old == {<<[of |-> 0, case |-> i]>> : i \in Lessons!Readable}
  <2>2. expFile \in {None, <<>>} \cup old
    BY DEF Lessons!Init
  <2>3. expFile \in {None} \cup Seq(Lessons!Lesson)
    <3>1. old \subseteq Seq(Lessons!Lesson)
      BY <2>1
    <3>2. <<>> \in Seq(Lessons!Lesson)
      OBVIOUS
    <3> HIDE DEF old
    <3> QED BY <2>2, <3>1, <3>2
  <2>4. expSaved = IF expFile = None THEN {} ELSE Lessons!Range(expFile)
    BY DEF Lessons!Init
  <2> QED BY <2>3, <2>4 DEF Lessons!Range
<1>2. Lessons!TypeOK
  <2>1. 1 \in 1 .. Len(LessonCases) + 1 /\ Client \subseteq Lessons!Process
    BY DEF Lessons!ExperiencesAssumption, Lessons!Process
  <2>2. expTold.question = None /\ expTold.lessons = {}
    BY DEF Lessons!Init
  <2> QED BY <1>1, <2>1, <2>2 DEF Lessons!Init, Lessons!TypeOK
<1>3. Lessons!ScriptInv /\ Lessons!AloneInv /\ Lessons!CountedInv /\ Lessons!ToldInv
  BY DEF Lessons!Init, Lessons!ScriptInv, Lessons!AloneInv, Lessons!CountedInv,
       Lessons!ToldInv, Lessons!AtWork, Lessons!Process, Lessons!ExperiencesAssumption
<1>4. expSaved \subseteq Lessons!Range(Lessons!LoadFromLocal)
  BY DEF Lessons!Init, Lessons!LoadFromLocal
<1>5. Lessons!FileInv
  BY <1>4 DEF Lessons!Init, Lessons!FileInv, Lessons!AtWork, Lessons!Process
<1> QED BY <1>2, <1>3, <1>5 DEF Lessons!IInv

\* Appending to a sequence adds its element to the range.
LEMMA LessonsRangeAppend ==
    ASSUME NEW S, NEW q \in Seq(S), NEW e \in S
    PROVE  Lessons!Range(Append(q, e)) = Lessons!Range(q) \cup {e}
<1>1. /\ DOMAIN Append(q, e) = 1 .. Len(q) + 1 /\ Append(q, e)[Len(q) + 1] = e
      /\ DOMAIN q = 1 .. Len(q) /\ Len(q) \in Nat
      /\ \A i \in 1 .. Len(q) : Append(q, e)[i] = q[i]
  OBVIOUS
<1>2. 1 .. Len(q) + 1 = (1 .. Len(q)) \cup {Len(q) + 1}
  BY <1>1
<1> QED BY <1>1, <1>2 DEF Lessons!Range

LEMMA LessonsLastInRange ==
    ASSUME NEW S, NEW q \in Seq(S), q # <<>>
    PROVE  Lessons!Last(q) \in Lessons!Range(q)
<1>1. Len(q) \in DOMAIN q
  OBVIOUS
<1> QED BY <1>1 DEF Lessons!Last, Lessons!Range

\* What is loaded is a list of lessons.
LEMMA LessonsLoaded ==
    ASSUME Lessons!TypeOK, NEW p \in Lessons!Process
    PROVE  Lessons!EnsureLoaded(p) \in Seq(Lessons!Lesson)
BY DEF Lessons!TypeOK, Lessons!EnsureLoaded, Lessons!LoadFromLocal

\* The lessons that are found are among those that are searched.
LEMMA LessonsFoundLessons ==
    ASSUME NEW q \in Seq(Lessons!Lesson), NEW question
    PROVE  Lessons!FindLessons(q, question) \subseteq Lessons!Lesson
<1> SUFFICES ASSUME NEW l \in Lessons!FindLessons(q, question)
             PROVE  l \in Lessons!Lesson
  OBVIOUS
<1>1. PICK k \in DOMAIN q : l = q[k]
  BY LessonsFinite DEF Lessons!FindLessons
<1> QED BY <1>1

LEMMA LessonsScriptStep ==
    ASSUME Lessons!ExperiencesAssumption, Lessons!IInv, NEW s \in Client,
           \/ Lessons!Begin(s) \/ Lessons!PassOver(s) \/ Lessons!AddLesson(s)
           \/ Lessons!OpenFile(s) \/ Lessons!WriteFile(s)
           \/ Lessons!SaveFails(s) \/ Lessons!Finish(s) \/ Lessons!Stop(s)
    PROVE  Lessons!IInv'
<1> USE DEF Lessons!IInv
<1>0. LessonServer \notin Client /\ None \notin Seq(Lessons!Lesson)
      /\ Client \subseteq Lessons!Process
  BY DEF Lessons!ExperiencesAssumption, Lessons!Lesson, Lessons!Process
<1>t. Lessons!ToldInv'
  <2>1. expTold' = expTold /\ expMemory'[LessonServer] = expMemory[LessonServer]
    BY <1>0 DEF Lessons!Begin, Lessons!PassOver, Lessons!AddLesson, Lessons!OpenFile,
         Lessons!WriteFile, Lessons!SaveFails, Lessons!Finish, Lessons!Stop,
       Lessons!TypeOK, Lessons!Process
  <2> QED BY <2>1, LessonsFinite DEF Lessons!ToldInv, Lessons!FindLessons
<1>c. ASSUME expCounted' = expCounted, expSaved' = expSaved, expFailed' = expFailed,
             \A p \in Client : \/ expMemory'[p] = expMemory[p]
                               \/ /\ expPc[p] # "ended" /\ p = s
                                  /\ expMemory'[p] = None /\ expPc'[p] = "ended",
             \A p \in Client : expPc[p] = "ended" => expPc'[p] = "ended"
      PROVE  Lessons!CountedInv'
  BY <1>c DEF Lessons!CountedInv, Lessons!AtWork
<1>1. CASE Lessons!Begin(s)
  <2>1. Lessons!CountedInv'
    BY <1>1, <1>c DEF Lessons!Begin, Lessons!TypeOK
  <2> QED
    BY <1>1, <2>1, <1>0, <1>t DEF Lessons!Begin, Lessons!TypeOK, Lessons!ScriptInv,
         Lessons!AloneInv, Lessons!FileInv, Lessons!AtWork, Lessons!LoadFromLocal
<1>2. CASE Lessons!PassOver(s)
  <2>1. expNext[s] + 1 \in 1 .. Len(LessonCases) + 1
    BY <1>2 DEF Lessons!PassOver, Lessons!TypeOK, Lessons!ExperiencesAssumption
  <2>2. Lessons!CountedInv'
    BY <1>2, <1>c DEF Lessons!PassOver
  <2> QED
    BY <1>2, <2>1, <2>2, <1>0, <1>t DEF Lessons!PassOver, Lessons!TypeOK, Lessons!ScriptInv,
         Lessons!AloneInv, Lessons!FileInv, Lessons!AtWork, Lessons!LoadFromLocal
<1>3. CASE Lessons!AddLesson(s)
  <2> DEFINE old == Lessons!EnsureLoaded(s)
             lesson == [of |-> s, case |-> expNext[s]]
             new == Append(old, lesson)
  <2>1. lesson \in Lessons!Lesson
    <3>1. expNext[s] \in 1 .. Len(LessonCases) /\ LessonCases[expNext[s]] # None
      BY <1>3 DEF Lessons!AddLesson, Lessons!ExtractsLesson, Lessons!TypeOK,
           Lessons!ExperiencesAssumption
    <3>2. expNext[s] \in Lessons!Readable
      BY <3>1 DEF Lessons!ExperiencesAssumption, Lessons!Readable
    <3> QED BY <3>2 DEF Lessons!Lesson
  <2>2. old \in Seq(Lessons!Lesson) /\ new \in Seq(Lessons!Lesson) /\ new # <<>> /\ new # None
    <3>1. old \in Seq(Lessons!Lesson)
      BY <1>0, LessonsLoaded
    <3> HIDE DEF old, lesson
    <3>2. new \in Seq(Lessons!Lesson) /\ Len(new) = Len(old) + 1 /\ Len(old) \in Nat
      BY <2>1, <3>1
    <3>3. new # <<>>
      <4> HIDE DEF new
      <4> QED BY <3>2
    <3> QED BY <3>3, <1>0, <3>1, <3>2
  <2>3. /\ expMemory' = [expMemory EXCEPT ![s] = new] /\ expPc' = [expPc EXCEPT ![s] = "open"]
        /\ expPc[s] = "scan"
        /\ UNCHANGED <<expFile, expNext, expCounted, expTold, expFailed, expTorn, expSaved>>
        /\ expOverlapped' = (expOverlapped \/ \E t \in Client \ {s} : Lessons!AtWork(t))
    BY <1>3 DEF Lessons!AddLesson
  <2> HIDE DEF old, lesson, new
  <2>4. Lessons!TypeOK'
    BY <2>2, <2>3, <1>0 DEF Lessons!TypeOK
  <2>5. Lessons!ScriptInv'
    <3>1. expNext[s] <= Len(LessonCases)
      BY <1>3 DEF Lessons!AddLesson
    <3>2. Lessons!Last(new).of = s
      <4>1. new[Len(new)] = lesson /\ lesson.of = s
        BY <2>1, <2>2 DEF new, lesson
      <4> QED BY <4>1 DEF Lessons!Last
    <3> QED BY <3>1, <3>2, <2>2, <2>3, <1>0 DEF Lessons!TypeOK, Lessons!ScriptInv, Lessons!AtWork
  <2>6. Lessons!AloneInv'
    BY <2>2, <2>3, <1>0 DEF Lessons!TypeOK, Lessons!AloneInv, Lessons!AtWork
  <2>7. Lessons!FileInv'
    <3> SUFFICES ASSUME ~expOverlapped'
                 PROVE  Lessons!FileInv'
      BY DEF Lessons!FileInv
    <3>1. ~expOverlapped /\ \A t \in Client \ {s} : ~Lessons!AtWork(t)
      BY <2>3
    <3>2. expTorn \subseteq {s} => expSaved \subseteq Lessons!Range(old)
      <4> SUFFICES ASSUME expTorn \subseteq {s}
                   PROVE  expSaved \subseteq Lessons!Range(old)
        OBVIOUS
      <4>1. CASE Lessons!AtWork(s)
        BY <4>1, <3>1 DEF Lessons!FileInv, old, Lessons!EnsureLoaded, Lessons!AtWork
      <4>2. CASE ~Lessons!AtWork(s)
        <5>1. expTorn = {}
          BY <4>2, <2>3 DEF Lessons!ScriptInv
        <5>2. \A t \in Client : expPc[t] # "write"
          BY <4>2, <3>1 DEF Lessons!ScriptInv
        <5> QED BY <4>2, <5>1, <5>2, <3>1 DEF Lessons!FileInv, old, Lessons!EnsureLoaded,
                     Lessons!AtWork
      <4> QED BY <4>1, <4>2
    <3>3. Lessons!Range(new) = Lessons!Range(old) \cup {lesson}
      BY <2>2, LessonsRangeAppend DEF new
    <3>4. expSaved' = expSaved /\ expMemory'[s] = new /\ Lessons!LoadFromLocal'
            = Lessons!LoadFromLocal /\ expTorn' = expTorn
      BY <2>3, <1>0 DEF Lessons!TypeOK, Lessons!LoadFromLocal
    <3>5. \A t \in Client : Lessons!AtWork(t)' => t = s
      BY <3>1, <2>3, <1>0 DEF Lessons!AtWork, Lessons!TypeOK
    <3>6. ASSUME expTorn' = {}, \A t \in Client : expPc'[t] # "write"
          PROVE  expSaved \subseteq Lessons!Range(Lessons!LoadFromLocal)
      <4>1. \A t \in Client : expPc[t] # "write"
        BY <3>6, <2>3 DEF Lessons!TypeOK
      <4> QED BY <4>1, <3>6, <2>3, <3>1 DEF Lessons!FileInv
    <3> QED BY <3>2, <3>3, <3>4, <3>5, <3>6 DEF Lessons!FileInv
  <2>8. Lessons!CountedInv'
    <3> SUFFICES ASSUME NEW l \in expCounted
                 PROVE  /\ Lessons!AtWork(l.of)' \/ expPc'[l.of] = "ended"
                        /\ Lessons!AtWork(l.of)' => l \in Lessons!Range(expMemory'[l.of])
      BY <2>3 DEF Lessons!CountedInv
    <3>1. l.of \in Client /\ (Lessons!AtWork(l.of) \/ expPc[l.of] = "ended")
          /\ (Lessons!AtWork(l.of) => l \in Lessons!Range(expMemory[l.of]))
      BY DEF Lessons!CountedInv
    <3>2. CASE l.of = s
      <4>1. Lessons!AtWork(s) /\ l \in Lessons!Range(expMemory[s]) /\ old = expMemory[s]
        BY <2>3, <3>1, <3>2 DEF old, Lessons!EnsureLoaded, Lessons!AtWork
      <4>2. l \in Lessons!Range(new)
        BY <2>1, <2>2, <4>1, LessonsRangeAppend DEF new
      <4> QED BY <2>2, <2>3, <3>2, <4>2, <1>0 DEF Lessons!AtWork, Lessons!TypeOK
    <3>3. CASE l.of # s
      BY <2>3, <3>1, <3>3, <1>0 DEF Lessons!AtWork, Lessons!TypeOK
    <3> QED BY <3>2, <3>3
  <2> QED BY <2>4, <2>5, <2>6, <2>7, <2>8, <1>t
<1>4. CASE Lessons!OpenFile(s)
  <2>1. Lessons!TypeOK' /\ Lessons!ScriptInv' /\ Lessons!AloneInv'
    BY <1>4, <1>0 DEF Lessons!OpenFile, Lessons!TypeOK, Lessons!ScriptInv, Lessons!AloneInv,
         Lessons!AtWork
  <2>2. expPc'[s] = "write"
    BY <1>4 DEF Lessons!OpenFile, Lessons!TypeOK
  <2>3. Lessons!FileInv'
    BY <2>2, <1>4 DEF Lessons!OpenFile, Lessons!FileInv, Lessons!AtWork
  <2>4. Lessons!CountedInv'
    BY <1>4, <1>c DEF Lessons!OpenFile, Lessons!TypeOK
  <2> QED BY <2>1, <2>3, <2>4, <1>t
<1>5. CASE Lessons!WriteFile(s) \/ Lessons!SaveFails(s)
  <2> DEFINE lesson == Lessons!Last(expMemory[s])
  <2>1. /\ expCounted' = expCounted \cup {lesson} /\ expNext' = [expNext EXCEPT ![s] = @ + 1]
        /\ expPc' = [expPc EXCEPT ![s] = "scan"] /\ expPc[s] \in {"open", "write"}
        /\ UNCHANGED <<expMemory, expTold, expOverlapped>>
    BY <1>5 DEF Lessons!WriteFile, Lessons!SaveFails, Lessons!Count
  <2>2. Lessons!AtWork(s) /\ expMemory[s] \in Seq(Lessons!Lesson) /\ expMemory[s] # <<>>
        /\ expNext[s] <= Len(LessonCases)
    BY <2>1, <1>0 DEF Lessons!ScriptInv, Lessons!TypeOK, Lessons!AtWork
  <2>3. lesson \in Lessons!Range(expMemory[s]) /\ lesson \in Lessons!Lesson
    BY <2>2, LessonsLastInRange DEF Lessons!Last
  <2>4. expNext[s] + 1 \in 1 .. Len(LessonCases) + 1
    BY <2>2 DEF Lessons!TypeOK, Lessons!ExperiencesAssumption
  <2>5. \/ /\ expFile' = expMemory[s] /\ expFailed' = expFailed \ {s}
           /\ expTorn' = expTorn \ {s}
           /\ expSaved' = expSaved \cup Lessons!Range(expMemory[s])
        \/ /\ expFile' = expFile /\ expFailed' = expFailed \cup {s} /\ expSaved' = expSaved
           /\ expTorn' = IF expPc[s] = "write" THEN expTorn \cup {s} ELSE expTorn
    BY <1>5 DEF Lessons!WriteFile, Lessons!SaveFails, Lessons!TornBy
  <2> HIDE DEF lesson
  <2>6. Lessons!TypeOK'
    <3>1. Lessons!Range(expMemory[s]) \subseteq Lessons!Lesson
      BY <2>2 DEF Lessons!Range
    <3> QED BY <3>1, <2>1, <2>2, <2>3, <2>4, <2>5 DEF Lessons!TypeOK
  <2>7. Lessons!ScriptInv'
    BY <2>1, <2>2, <2>5 DEF Lessons!TypeOK, Lessons!ScriptInv, Lessons!AtWork
  <2>8. Lessons!AloneInv'
    BY <2>1 DEF Lessons!AloneInv, Lessons!AtWork
  <2>9. Lessons!FileInv'
    <3> SUFFICES ASSUME ~expOverlapped
                 PROVE  Lessons!FileInv'
      BY <2>1 DEF Lessons!FileInv
    <3>1. \A t \in Client : Lessons!AtWork(t) => t = s
      BY <2>2 DEF Lessons!AloneInv
    <3>2. expTorn' \subseteq {s} => expSaved' \subseteq Lessons!Range(expMemory[s])
      BY <2>2, <2>5 DEF Lessons!FileInv
    <3>3. ASSUME expTorn' = {}, \A t \in Client : expPc'[t] # "write"
          PROVE  expSaved' \subseteq Lessons!Range(Lessons!LoadFromLocal')
      <4>1. CASE expFile' = expMemory[s]
        BY <3>2, <3>3, <4>1, <2>2 DEF Lessons!LoadFromLocal, Lessons!AtWork
      <4>2. CASE expFile' # expMemory[s]
        <5>1. /\ expPc[s] # "write" /\ expTorn = {} /\ expSaved' = expSaved
              /\ expFile' = expFile
          BY <3>3, <4>2, <2>5
        <5>2. \A t \in Client : expPc[t] # "write"
          BY <5>1, <3>3, <2>1 DEF Lessons!TypeOK
        <5> QED BY <5>1, <5>2 DEF Lessons!FileInv, Lessons!LoadFromLocal
      <4> QED BY <4>1, <4>2
    <3> QED BY <3>1, <3>2, <3>3, <2>1 DEF Lessons!FileInv, Lessons!AtWork
  <2>10. Lessons!CountedInv'
    <3> SUFFICES ASSUME NEW l \in expCounted'
                 PROVE  /\ l.of \in Client /\ (Lessons!AtWork(l.of)' \/ expPc'[l.of] = "ended")
                        /\ Lessons!AtWork(l.of)' => l \in Lessons!Range(expMemory'[l.of])
                        /\ l \in expSaved' \/ l.of \in expFailed'
      BY DEF Lessons!CountedInv
    <3>1. CASE l \in expCounted
      <4>1. /\ l.of \in Client /\ (Lessons!AtWork(l.of) \/ expPc[l.of] = "ended")
            /\ Lessons!AtWork(l.of) => l \in Lessons!Range(expMemory[l.of])
            /\ l \in expSaved \/ l.of \in expFailed
        BY <3>1 DEF Lessons!CountedInv
      <4>2. (expPc[l.of] = "ended" => expPc'[l.of] = "ended") /\ expMemory' = expMemory
        BY <2>1, <4>1 DEF Lessons!TypeOK
      <4>3. l \in expSaved' \/ l.of \in expFailed'
        BY <2>2, <2>5, <4>1
      <4> QED BY <4>1, <4>2, <4>3 DEF Lessons!AtWork
    <3>2. CASE l = lesson
      <4>1. l.of = s
        BY <2>1, <3>2 DEF Lessons!ScriptInv, lesson
      <4> QED BY <2>1, <2>2, <2>3, <2>5, <3>2, <4>1 DEF Lessons!AtWork
    <3> QED BY <2>1, <3>1, <3>2
  <2> QED BY <2>6, <2>7, <2>8, <2>9, <2>10, <1>t
<1>6. CASE Lessons!Finish(s) \/ Lessons!Stop(s)
  <2>1. /\ expMemory' = [expMemory EXCEPT ![s] = None] /\ expPc' = [expPc EXCEPT ![s] = "ended"]
        /\ UNCHANGED <<expFile, expNext, expCounted, expTold, expFailed, expOverlapped, expSaved>>
        /\ expTorn' = IF expPc[s] = "write" THEN expTorn \cup {s} ELSE expTorn
        /\ expPc[s] \in {"scan", "open", "write"}
    BY <1>6 DEF Lessons!Finish, Lessons!Stop, Lessons!TornBy
  <2>2. Lessons!TypeOK' /\ Lessons!ScriptInv' /\ Lessons!AloneInv'
    BY <2>1, <1>0 DEF Lessons!TypeOK, Lessons!ScriptInv, Lessons!AloneInv, Lessons!AtWork
  <2>3. Lessons!FileInv'
    <3> SUFFICES ASSUME ~expOverlapped
                 PROVE  Lessons!FileInv'
      BY <2>1 DEF Lessons!FileInv
    <3>1. \A t \in Client : Lessons!AtWork(t)' => Lessons!AtWork(t) /\ expMemory'[t]
            = expMemory[t]
      BY <2>1, <1>0 DEF Lessons!AtWork, Lessons!TypeOK
    <3>2. expSaved' = expSaved /\ Lessons!LoadFromLocal' = Lessons!LoadFromLocal
          /\ expTorn \subseteq expTorn'
      BY <2>1 DEF Lessons!LoadFromLocal
    <3>3. expTorn' = {} /\ (\A t \in Client : expPc'[t] # "write")
             => \A t \in Client : expPc[t] # "write"
      BY <2>1 DEF Lessons!TypeOK
    <3> QED BY <3>1, <3>2, <3>3 DEF Lessons!FileInv
  <2>4. Lessons!CountedInv'
    BY <2>1, <1>c, <1>0 DEF Lessons!TypeOK
  <2> QED BY <2>2, <2>3, <2>4, <1>t
<1> QED BY <1>1, <1>2, <1>3, <1>4, <1>5, <1>6

LEMMA LessonsPlannerStep ==
    ASSUME Lessons!ExperiencesAssumption, Lessons!IInv, NEW question \in LessonQuestions,
           Lessons!FormatForPlanner(question)
    PROVE  Lessons!IInv'
<1> DEFINE lessons == Lessons!EnsureLoaded(LessonServer)
<1>0. LessonServer \notin Client /\ LessonServer \in Lessons!Process
      /\ None \notin Seq(Lessons!Lesson)
  BY DEF Lessons!ExperiencesAssumption, Lessons!Lesson, Lessons!Process
<1>1. /\ expMemory' = [expMemory EXCEPT ![LessonServer] = lessons]
      /\ expTold' = [question |-> question, lessons |-> Lessons!FindLessons(lessons, question)]
      /\ UNCHANGED <<expFile, expPc, expNext, expCounted, expFailed, expTorn,
                     expOverlapped, expSaved>>
  BY DEF Lessons!FormatForPlanner
<1>2. lessons \in Seq(Lessons!Lesson)
  BY <1>0, LessonsLoaded DEF Lessons!IInv
<1> HIDE DEF lessons
<1>3. Lessons!FindLessons(lessons, question) \subseteq Lessons!Lesson
  BY <1>2, LessonsFoundLessons
<1>4. Lessons!TypeOK'
  BY <1>0, <1>1, <1>2, <1>3 DEF Lessons!IInv, Lessons!TypeOK
<1>5. \A s \in Client : expMemory'[s] = expMemory[s]
  BY <1>0, <1>1 DEF Lessons!IInv, Lessons!TypeOK
<1>6. Lessons!ScriptInv' /\ Lessons!AloneInv'
  BY <1>1, <1>5 DEF Lessons!IInv, Lessons!ScriptInv, Lessons!AloneInv, Lessons!AtWork
<1>7. Lessons!FileInv'
  BY <1>1, <1>5 DEF Lessons!IInv, Lessons!FileInv, Lessons!AtWork, Lessons!LoadFromLocal
<1>9. Lessons!CountedInv'
  BY <1>1, <1>5 DEF Lessons!IInv, Lessons!CountedInv, Lessons!AtWork
<1>8. Lessons!ToldInv'
  <2>1. expMemory'[LessonServer] = lessons /\ lessons # None
    BY <1>0, <1>1, <1>2 DEF Lessons!IInv, Lessons!TypeOK
  <2>2. expTold'.question = question /\ expTold'.lessons = Lessons!FindLessons(lessons,
                                            question)
    BY <1>1
  <2> QED BY <2>1, <2>2, LessonsFinite DEF Lessons!ToldInv, Lessons!FindLessons
<1> QED BY <1>4, <1>6, <1>7, <1>8, <1>9 DEF Lessons!IInv

LEMMA LessonsNextInv == Lessons!ExperiencesAssumption /\ Lessons!IInv
/\ [Lessons!Next]_Lessons!vars => Lessons!IInv'
<1> SUFFICES ASSUME Lessons!ExperiencesAssumption, Lessons!IInv, [Lessons!Next]_Lessons!vars
             PROVE  Lessons!IInv'
  OBVIOUS
<1>1. CASE UNCHANGED Lessons!vars
  <2> USE <1>1 DEF Lessons!vars
  <2>1. Lessons!TypeOK' /\ Lessons!ScriptInv' /\ Lessons!AloneInv'
    BY DEF Lessons!IInv, Lessons!TypeOK, Lessons!ScriptInv, Lessons!AloneInv, Lessons!AtWork
  <2>2. Lessons!FileInv'
    BY DEF Lessons!IInv, Lessons!FileInv, Lessons!AtWork, Lessons!LoadFromLocal
  <2>3. Lessons!ToldInv'
    BY LessonsFinite DEF Lessons!IInv, Lessons!ToldInv, Lessons!FindLessons
  <2>4. Lessons!CountedInv'
    BY DEF Lessons!IInv, Lessons!CountedInv, Lessons!AtWork
  <2> QED BY <2>1, <2>2, <2>3, <2>4 DEF Lessons!IInv
<1>2. CASE Lessons!Next
  BY <1>2, LessonsScriptStep, LessonsPlannerStep DEF Lessons!Next
<1> QED BY <1>1, <1>2

\* A harmful lesson is rated below three tenths of its relevance, a harmless one above
\* the half.
LEMMA LessonsScoreBounds ==
    ASSUME Lessons!ExperiencesAssumption, NEW i \in DOMAIN LessonCases,
           NEW question \in LessonQuestions
    PROVE  LET r == question.relevance[i]
           IN  /\ r \in 0 .. 2 /\ Lessons!Score(i, question) \in Nat
               /\ Lessons!AvoidFor(LessonCases[i]) \cap question.scenarios # {}
                    => Lessons!Score(i, question) <= 30 * r
               /\ Lessons!AvoidFor(LessonCases[i]) \cap question.scenarios = {}
                    => Lessons!Score(i, question) >= 50 * r
<1> DEFINE r == question.relevance[i]
           avoided == Lessons!AvoidFor(LessonCases[i]) \cap question.scenarios # {}
           strange == /\ question.scenarios # {} /\ Lessons!ApplicableTo(LessonCases[i]) # {}
                      /\ Lessons!ApplicableTo(LessonCases[i]) \cap question.scenarios = {}
<1>1. r \in 0 .. 2
  BY DEF Lessons!ExperiencesAssumption
<1>2. Lessons!Score(i, question) = LET once == IF avoided THEN ((100 * r) * 3) \div 10
        ELSE 100 * r
                           IN  IF strange THEN once \div 2 ELSE once
  BY DEF Lessons!Score
<1> HIDE DEF r, avoided, strange
<1>3. /\ Lessons!Score(i, question) \in Nat
      /\ avoided => Lessons!Score(i, question) <= 30 * r
      /\ ~avoided => Lessons!Score(i, question) >= 50 * r
  <2>1. CASE r = 0
    BY <2>1, <1>2
  <2>2. CASE r = 1
    BY <2>2, <1>2
  <2>3. CASE r = 2
    BY <2>3, <1>2
  <2> QED BY <2>1, <2>2, <2>3, <1>1
<1> QED BY <1>1, <1>3 DEF r, avoided

LEMMA LessonsHarmlessHolds ==
    ASSUME Lessons!ExperiencesAssumption, Lessons!IInv
    PROVE  Lessons!HarmlessComeFirst
<1> DEFINE q == expTold.question
           known == expMemory[LessonServer]
           Rated(k) == Lessons!Score(known[k].case, q)
           Sure(k) == Lessons!ComputeConfidence(LessonCases[known[k].case]) >= 50
           fit == {k \in DOMAIN known : Sure(k) /\ Rated(k) > 0}
           Ahead(k) == {j \in fit : Rated(j) > Rated(k) \/ (Rated(j) = Rated(k) /\ j < k)}
           Avoided(l) == Lessons!AvoidFor(LessonCases[l.case]) \cap q.scenarios # {}
           Relevance(l) == q.relevance[l.case]
<1> SUFFICES ASSUME q # None, NEW l \in expTold.lessons, NEW m \in Lessons!Range(known),
                    Avoided(l), ~Avoided(m), m \notin expTold.lessons,
                    ~(Lessons!ComputeConfidence(LessonCases[m.case]) < 50),
                    ~(Relevance(m) < Relevance(l))
             PROVE  FALSE
  BY DEF Lessons!HarmlessComeFirst
<1>1. q \in LessonQuestions /\ known \in Seq(Lessons!Lesson)
  BY DEF Lessons!IInv, Lessons!TypeOK, Lessons!ToldInv, Lessons!Process
<1>2. expTold.lessons = {known[k] : k \in {k \in fit : Cardinality(Ahead(k)) < LessonTopK}}
  BY LessonsFinite DEF Lessons!IInv, Lessons!ToldInv, Lessons!FindLessons
<1>3. PICK a \in fit : l = known[a] /\ Cardinality(Ahead(a)) < LessonTopK
  BY <1>2
<1>4. PICK b \in DOMAIN known : m = known[b]
  BY DEF Lessons!Range
<1>5. \A k \in DOMAIN known : known[k] \in Lessons!Lesson /\ known[k].case \in Lessons!Readable
  <2>1. \A k \in DOMAIN known : known[k] \in Lessons!Lesson
    BY <1>1
  <2> QED BY <2>1 DEF Lessons!Lesson
<1>6. \A k \in DOMAIN known : Rated(k) \in Nat
  BY <1>1, <1>5, LessonsScoreBounds DEF Lessons!Readable
<1>7. /\ Rated(a) <= 30 * Relevance(l) /\ Rated(a) > 0
      /\ Rated(b) >= 50 * Relevance(m) /\ Relevance(l) \in 0 .. 2 /\ Relevance(m) \in 0 .. 2
  BY <1>1, <1>3, <1>4, <1>5, LessonsScoreBounds DEF Lessons!Readable
<1>8. Rated(b) > Rated(a) /\ Rated(b) > 0
  BY <1>3, <1>4, <1>6, <1>7
<1>9. Lessons!ComputeConfidence(LessonCases[m.case]) \in Int
  <2>1. LessonCases[m.case].coverage \in 0 .. 100
    BY <1>4, <1>5 DEF Lessons!ExperiencesAssumption, Lessons!Readable
  <2> QED BY <2>1 DEF Lessons!ComputeConfidence, Lessons!SmallerOf, Lessons!LargerOf
<1>10. b \in fit
  BY <1>4, <1>8, <1>9
<1>11. IsFiniteSet(fit)
  <2>1. DOMAIN known = 1 .. Len(known) /\ Len(known) \in Nat
    BY <1>1
  <2>2. IsFiniteSet(1 .. Len(known))
    <3>1. \A n \in Nat : IsFiniteSet(1 .. n)
      BY FS_Interval
    <3> QED BY <2>1, <3>1
  <2>3. fit \subseteq 1 .. Len(known)
    <3>1. \A k \in fit : k \in DOMAIN known
      OBVIOUS
    <3> QED BY <2>1, <3>1
  <2> QED BY <2>2, <2>3, FS_Subset
<1> HIDE DEF fit, Rated
<1>12. fit \subseteq DOMAIN known /\ a \in fit /\ b \in fit
  BY <1>3, <1>10 DEF fit
<1>13. Ahead(b) \subseteq Ahead(a) /\ b \in Ahead(a) /\ b \notin Ahead(b)
  <2>1. \A k \in fit : Rated(k) \in Nat /\ k \in Nat
    BY <1>1, <1>6, <1>12
  <2> QED BY <2>1, <1>8, <1>12
<1>14. IsFiniteSet(Ahead(a)) /\ IsFiniteSet(Ahead(b))
  BY <1>11, FS_Subset
<1>15. Cardinality(Ahead(b)) <= Cardinality(Ahead(a)) /\ Cardinality(Ahead(b)) \in Nat
       /\ Cardinality(Ahead(a)) \in Nat
  BY <1>13, <1>14, FS_Subset, FS_CardinalityType
<1>16. Cardinality(Ahead(b)) < LessonTopK
  BY <1>3, <1>15 DEF Lessons!ExperiencesAssumption
<1>17. m \in expTold.lessons
  BY <1>2, <1>4, <1>10, <1>16
<1> QED BY <1>17

LEMMA LessonsInvProperty == Lessons!ExperiencesAssumption /\ Lessons!IInv
  => Lessons!LessonsServe
<1> SUFFICES ASSUME Lessons!ExperiencesAssumption, Lessons!IInv
             PROVE  Lessons!LessonsServe
  OBVIOUS
<1>1. Lessons!LessonsStay
  <2> SUFFICES ASSUME ~expOverlapped, expTorn = {}, \A s \in Client : expPc[s] # "write"
               PROVE  Lessons!LessonsStay
    BY DEF Lessons!LessonsStay
  <2>1. expSaved \subseteq Lessons!Range(Lessons!LoadFromLocal)
    BY DEF Lessons!IInv, Lessons!FileInv
  <2> QED BY <2>1 DEF Lessons!LessonsStay, Lessons!IInv, Lessons!CountedInv
<1> QED BY <1>1, LessonsHarmlessHolds DEF Lessons!LessonsServe

LEMMA LessonsInvariance == ServicesSpec => []Lessons!IInv
<1>1. ServicesInit => Lessons!IInv
  BY LessonsInitInv, ServicesAssumption DEF ServicesInit, ServicesAssumption
<1>2. Lessons!IInv /\ [ServicesNext]_servicesVars => Lessons!IInv'
  <2> SUFFICES ASSUME Lessons!IInv, [ServicesNext]_servicesVars
               PROVE  Lessons!IInv'
    OBVIOUS
  <2>1. Lessons!Next \/ UNCHANGED expVars
    BY DEF ServicesNext, Still, servicesVars
  <2>2. [Lessons!Next]_Lessons!vars
    BY <2>1 DEF expVars, Lessons!vars
  <2>3. Lessons!ExperiencesAssumption
    BY ServicesAssumption DEF ServicesAssumption
  <2> QED BY <2>2, <2>3, LessonsNextInv
<1> QED BY <1>1, <1>2, PTL DEF ServicesSpec

\* What the file ever held stays there and harmful lessons never take the place of
\* harmless ones: for any cases, lessons and questions, however the scripts interleave,
\* fail and are stopped, unless two are at work at once or a write is cut off.
THEOREM LessonsServeHolds == ServicesSpec => []LessonsServe
<1>1. Lessons!IInv => LessonsServe
  BY LessonsInvProperty, ServicesAssumption DEF ServicesAssumption, LessonsServe
<1> QED BY <1>1, LessonsInvariance, PTL

-----------------------------------------------------------------------------
(* The types of every part *)

LEMMA PartStays == ServicesSpec => [](part \in Part)
<1>1. ServicesInit => part \in Part
  BY DEF ServicesInit
<1>2. part \in Part /\ [ServicesNext]_servicesVars => (part \in Part)'
  BY DEF ServicesNext, Still, servicesVars
<1> QED BY <1>1, <1>2, PTL DEF ServicesSpec

\* Each variable of every part stays in its type: no handler, worker or client stores a
\* status, a counter or a row that the code which reads it does not expect, for any
\* number of users, runs, requests and clients and any limits.
THEOREM TypesOKHolds == ServicesSpec => []TypesOK
<1>1. ServicesSpec => [](/\ Session!TypeOK /\ Pipeline!TypeOK /\ Service!TypeOK
                         /\ Search!TypeOK /\ Window!TypeOK /\ Chunks!TypeOK)
  <2>1. Session!IInv => Session!TypeOK
    BY DEF Session!IInv
  <2>2. Pipeline!IInv => Pipeline!TypeOK
    BY DEF Pipeline!IInv
  <2>3. Service!IInv => Service!TypeOK
    BY DEF Service!IInv
  <2>4. Search!IInv => Search!TypeOK
    BY DEF Search!IInv
  <2>5. Window!IInv => Window!TypeOK
    BY DEF Window!IInv
  <2>6. CutFacts!IInv => Chunks!TypeOK
    BY DEF CutFacts!IInv, CutFacts!TypeOK, Chunks!TypeOK, CutFacts!Chunk, Chunks!Chunk,
           CutFacts!Sentence, Chunks!Sentence, CutFacts!Clause, Chunks!Clause
  <2> QED BY <2>1, <2>2, <2>3, <2>4, <2>5, <2>6, SessionInvariance, ChatInvariance,
             ServiceInvariance, FindInvariance, WindowInvariance, CutInvariance, PTL
<1>2. ServicesSpec => [](/\ TypeOK /\ Limiter!TypeOK /\ Notices!TypeOK /\ Files!TypeOK
                         /\ Flows!TypeOK /\ Templates!TypeOK /\ Indices!TypeOK)
  <2>1. IInv => TypeOK
    BY DEF IInv
  <2>2. Limiter!IInv => Limiter!TypeOK
    BY DEF Limiter!IInv
  <2>3. Notices!IInv => Notices!TypeOK
    BY DEF Notices!IInv
  <2>4. Files!IInv => Files!TypeOK
    BY DEF Files!IInv
  <2>5. Flows!IInv => Flows!TypeOK
    BY DEF Flows!IInv
  <2>6. Templates!IInv => Templates!TypeOK
    BY DEF Templates!IInv
  <2>7. Indices!IInv => Indices!TypeOK
    BY DEF Indices!IInv
  <2> QED BY <2>1, <2>2, <2>3, <2>4, <2>5, <2>6, <2>7, AccountsServe, LimitInvariance,
             NoticeInvariance, FileInvariance, FlowInvariance, PromptInvariance,
             IndexInvariance, PTL
<1>3. ServicesSpec => [](/\ Calls!TypeOK /\ Programs!TypeOK /\ Orchestrator!TypeOK
                         /\ Lessons!TypeOK)
  <2>1. Calls!IInv => Calls!TypeOK
    BY DEF Calls!IInv
  <2>2. Programs!IInv => Programs!TypeOK
    BY DEF Programs!IInv
  <2>3. Orchestrator!IInv => Orchestrator!TypeOK
    BY DEF Orchestrator!IInv
  <2>4. Lessons!IInv => Lessons!TypeOK
    BY DEF Lessons!IInv
  <2> QED BY <2>1, <2>2, <2>3, <2>4, ToolInvariance, ProgramInvariance,
             TeamInvariance, LessonsInvariance, PTL
<1>4. /\ Session!TypeOK /\ Pipeline!TypeOK /\ Service!TypeOK /\ Search!TypeOK
      /\ Window!TypeOK /\ Chunks!TypeOK /\ TypeOK /\ Limiter!TypeOK /\ Notices!TypeOK
      /\ Files!TypeOK /\ Flows!TypeOK /\ Templates!TypeOK /\ Indices!TypeOK
      /\ Calls!TypeOK /\ Programs!TypeOK /\ Orchestrator!TypeOK /\ Lessons!TypeOK
      /\ Orgs!TypeOK /\ Serial!TypeOK /\ part \in Part
      => TypesOK
  BY DEF TypesOK, Part
<1> QED BY <1>1, <1>2, <1>3, <1>4, TreeTyped, SerialTyped, PartStays, PTL
=============================================================================
