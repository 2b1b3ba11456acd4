------------------------- MODULE AgentMemoryProofs -------------------------
(***************************************************************************)
(* Proofs about AgentMemory, for any requests, faults and bounds.           *)
(***************************************************************************)
EXTENDS AgentMemory, TLAPS

\* The memory counts as loaded for any request in flight.
LEMMA InFlightFacts ==
    ASSUME TypeOK, LoadInv
    PROVE  /\ InFlight \subseteq Request
           /\ ~loaded => InFlight = {}
  BY DEF InFlight, LoadInv, Using

LEMMA InitInv == Init => IInv
<1> SUFFICES ASSUME Init PROVE IInv
  OBVIOUS
<1>1. TypeOK
  <2>1. redis \in Snapshot
    BY DEF Init, Snapshot, Item, Insight
  <2>2. Nothing \in Snapshot
    BY DEF Nothing, Snapshot
  <2>3. shortTerm \in 0 .. MaxShortTerm /\ crashes \in 0 .. MaxCrashes
    BY AgentMemoryAssumption DEF Init, AgentMemoryAssumption
  <2>4. /\ pc \in [Request -> {"idle", "loading", "got", "ended"} \cup Using]
        /\ op \in [Request -> Operation]
        /\ older \in [Request -> SUBSET Request]
    BY DEF Init, Operation
  <2>5. got \in [Request -> Snapshot] /\ written \in [Request -> Snapshot]
    BY <2>2 DEF Init
  <2> QED BY <2>1, <2>3, <2>4, <2>5 DEF Init, TypeOK
<1>2. LoadInv
  BY DEF Init, LoadInv, Using, Saving
<1>3. InFlight = {} /\ OwnInv
  BY DEF Init, InFlight, Saving, OwnInv, AddsItem
<1> QED BY <1>1, <1>2, <1>3
        DEF Init, IInv, SaveInv, AckInv, RedisWithinMemory, AcknowledgedDurable

-----------------------------------------------------------------------------
(* Types *)

\* A save builds a snapshot of the memory.
LEMMA SaveType ==
    ASSUME TypeOK, NEW r \in Request, NEW phase \in Saving, NEW snapshot \in Snapshot,
           Save(r, snapshot, phase)
    PROVE  /\ written' \in [Request -> Snapshot]
           /\ older' \in [Request -> SUBSET Request]
           /\ pc' \in [Request -> {"idle", "loading", "got", "ended"} \cup Using]
           /\ late' \subseteq Request
<1>1. InFlight \subseteq Request
  BY DEF InFlight
<1> QED BY <1>1 DEF Save, Go, TypeOK, Using

LEMMA NothingType == Nothing \in Snapshot
  BY DEF Nothing, Snapshot

LEMMA EndType ==
    ASSUME TypeOK, NEW r \in Request, End(r)
    PROVE  /\ pc' \in [Request -> {"idle", "loading", "got", "ended"} \cup Using]
           /\ op' \in [Request -> Operation]
  BY DEF End, Go, TypeOK, Operation

LEMMA ArrivalType ==
    ASSUME TypeOK, NEW r \in Request, Saved(r),
           Reaches(r) \/ (late' = late \ {r} /\ UNCHANGED <<redis, stale>>)
    PROVE  /\ written' \in [Request -> Snapshot]
           /\ older' \in [Request -> SUBSET Request]
           /\ late' \subseteq Request
           /\ redis' \in Snapshot
           /\ stale' \in BOOLEAN
<1>1. written' \in [Request -> Snapshot] /\ older' \in [Request -> SUBSET Request]
  BY NothingType DEF Saved, TypeOK
<1>2. CASE Reaches(r)
  BY <1>1, <1>2 DEF Reaches, TypeOK
<1>3. CASE late' = late \ {r} /\ UNCHANGED <<redis, stale>>
  BY <1>1, <1>3 DEF TypeOK
<1> QED BY <1>2, <1>3

LEMMA StepType ==
    ASSUME TypeOK, NEW r \in Request, Step(r)
    PROVE  TypeOK'
<1>1. CASE Begin(r)
  BY <1>1 DEF Begin, Go, TypeOK, memory, save, history, Using
<1>2. CASE LoadReads(r)
  BY <1>2 DEF LoadReads, Go, TypeOK, memory, save, history
<1>3. CASE LoadDone(r)
  <2>1. got[r].items \subseteq Item
    BY DEF TypeOK, Snapshot
  <2> QED BY <1>3, <2>1, NothingType DEF LoadDone, Go, TypeOK, save, history, Using
<1>4. CASE LoadFails(r)
  BY <1>4 DEF LoadFails, LoadAborted, Go, TypeOK, save, Using
<1>5. CASE LoadCancelled(r)
  BY <1>5, EndType, NothingType DEF LoadCancelled, LoadAborted, TypeOK, save
<1>6. CASE SaveDone(r)
  <2>1. pc' \in [Request -> {"idle", "loading", "got", "ended"} \cup Using]
    BY <1>6 DEF SaveDone, Go, AfterSave, TypeOK, Using
  <2> QED BY <1>6, <2>1, ArrivalType DEF SaveDone, TypeOK, memory
<1>7. CASE SaveFails(r)
  <2>1. pc' \in [Request -> {"idle", "loading", "got", "ended"} \cup Using]
    BY <1>7 DEF SaveFails, Go, AfterSave, TypeOK, Using
  <2> QED BY <1>7, <2>1, ArrivalType DEF SaveFails, SaveAborted, TypeOK, memory
<1>8. CASE SaveCancelled(r)
  BY <1>8, EndType, ArrivalType DEF SaveCancelled, SaveAborted, TypeOK, memory
<1>9. CASE Note(r)
  <2>1. shortTerm' \in 0 .. MaxShortTerm
    BY <1>9, AgentMemoryAssumption DEF Note, OneMore, TypeOK, AgentMemoryAssumption
  <2> QED BY <1>9, <2>1 DEF Note, Go, TypeOK, save, history, Using
<1>10. CASE Add(r)
  <2>1. longTerm' \subseteq Item
    BY <1>10 DEF Add, TypeOK, Item
  <2>2. [items |-> longTerm', insights |-> reflective] \in Snapshot
    BY <2>1 DEF TypeOK, Snapshot
  <2> QED BY <1>10, <2>1, <2>2, SaveType DEF Add, TypeOK, history, Saving
<1>11. CASE AddLesson(r)
  <2>1. reflective' \subseteq Insight
    BY <1>11 DEF AddLesson, TypeOK, Insight
  <2>2. [items |-> longTerm, insights |-> reflective'] \in Snapshot
    BY <2>1 DEF TypeOK, Snapshot
  <2> QED BY <1>11, <2>1, <2>2, SaveType DEF AddLesson, TypeOK, history, Saving
<1>12. CASE Recall(r)
  BY <1>12, EndType DEF Recall, TypeOK, memory, save, history
<1>13. CASE Reflect(r)
  <2>1. reflective' \subseteq Insight
    BY <1>13 DEF Reflect, TypeOK, Insight
  <2>2. [items |-> longTerm, insights |-> reflective'] \in Snapshot
    BY <2>1 DEF TypeOK, Snapshot
  <2> QED BY <1>13, <2>1, <2>2, SaveType DEF Reflect, TypeOK, history, Saving
<1>14. CASE Return(r)
  <2>1. reflective' \subseteq Insight
    BY <1>14 DEF Return, TypeOK, Insight
  <2> QED BY <1>14, <2>1, EndType DEF Return, TypeOK, save, history
<1>15. CASE ClearMemory(r)
  <2>1. shortTerm' \in 0 .. MaxShortTerm
    BY <1>15, AgentMemoryAssumption DEF ClearMemory, TypeOK, AgentMemoryAssumption
  <2> QED BY <1>15, <2>1, EndType DEF ClearMemory, TypeOK, save
<1>16. CASE ImportMemory(r)
  <2>1. longTerm' \subseteq Item /\ shortTerm' \in 0 .. MaxShortTerm
    BY <1>16, AgentMemoryAssumption DEF ImportMemory, TypeOK, Item, AgentMemoryAssumption
  <2> QED BY <1>16, <2>1, EndType DEF ImportMemory, TypeOK, save, history
<1>17. CASE EmbeddingCancelled(r)
  BY <1>17, EndType DEF EmbeddingCancelled, TypeOK, memory, save, history
<1>18. CASE SecondNote(r)
  BY <1>18 DEF SecondNote, Go, TypeOK, memory, save, history, Operation, Using
<1> QED BY <1>1, <1>2, <1>3, <1>4, <1>5, <1>6, <1>7, <1>8, <1>9, <1>10, <1>11, <1>12,
           <1>13, <1>14, <1>15, <1>16, <1>17, <1>18 DEF Step

LEMMA NextType == TypeOK /\ [Next]_vars => TypeOK'
<1> SUFFICES ASSUME TypeOK, [Next]_vars PROVE TypeOK'
  OBVIOUS
<1>1. ASSUME NEW r \in Request, Step(r) PROVE TypeOK'
  BY <1>1, StepType
<1>2. CASE Crash
  <2>1. crashes' \in 0 .. MaxCrashes /\ shortTerm' \in 0 .. MaxShortTerm
    BY <1>2, AgentMemoryAssumption DEF Crash, TypeOK, AgentMemoryAssumption
  <2>2. pc' \in [Request -> {"idle", "loading", "got", "ended"} \cup Using]
    BY <1>2 DEF Crash
  <2> QED BY <1>2, <2>1, <2>2, NothingType DEF Crash, TypeOK, Operation
<1>3. CASE Expire
  BY <1>3, NothingType DEF Expire, TypeOK, memory, save
<1>4. CASE UNCHANGED vars
  BY <1>4 DEF vars, TypeOK, memory, save, history
<1> QED BY <1>1, <1>2, <1>3, <1>4 DEF Next

\* Every variable keeps its type: in particular the short-term memory never outgrows
\* its window (TypeOK).
THEOREM TypeCorrect == Spec => []TypeOK
<1>1. Init => TypeOK
  BY InitInv DEF IInv
<1> QED BY <1>1, NextType, PTL DEF Spec

-----------------------------------------------------------------------------
(* The inductive invariant *)

Rest == LoadInv /\ (~lossy => SaveInv /\ AckInv) /\ RedisWithinMemory /\ AcknowledgedDurable

\* A step that touches no save in flight, no snapshot and neither Redis nor what was
\* confirmed keeps the invariant if the memory does not shrink.
LEMMA QuietStep ==
    ASSUME IInv, loaded' = loaded, longTerm \subseteq longTerm', lossy' = lossy,
           UNCHANGED <<redis, save, stale, acked>>,
           InFlight' = InFlight,
           \A r \in Request : pc'[r] \in Using => pc[r] \in Using \/ loaded,
           ~loaded => \A r \in Request : pc'[r] = "got" => redis.items \subseteq got'[r].items
    PROVE  Rest'
<1>1. LoadInv'
  BY DEF IInv, LoadInv
<1>2. ~lossy' => SaveInv' /\ AckInv'
  BY DEF IInv, SaveInv, AckInv, save
<1>3. RedisWithinMemory' /\ AcknowledgedDurable'
  BY DEF IInv, RedisWithinMemory, AcknowledgedDurable
<1> QED BY <1>1, <1>2, <1>3 DEF Rest

\* A request that begins a save of the whole memory.
LEMMA SaveStep ==
    ASSUME IInv, NEW r \in Request, NEW snapshot, NEW phase \in Saving,
           Save(r, snapshot, phase),
           pc[r] \in Using, pc[r] \notin Saving,
           longTerm \subseteq longTerm', snapshot.items = longTerm',
           UNCHANGED <<loaded, redis, got, stale, acked, lossy>>
    PROVE  Rest'
<1>1. loaded
  BY DEF IInv, LoadInv
<1>2. /\ pc' = [pc EXCEPT ![r] = phase]
      /\ written' = [written EXCEPT ![r] = snapshot]
      /\ older' = [older EXCEPT ![r] = InFlight]
      /\ late' = late
  BY DEF Save, Go
<1>3. InFlight' = InFlight \cup {r} /\ r \notin InFlight /\ InFlight \subseteq Request
  BY <1>2 DEF InFlight, IInv, TypeOK
<1>4. /\ \A q \in InFlight : written'[q] = written[q] /\ older'[q] = older[q]
      /\ written'[r] = snapshot /\ older'[r] = InFlight
  BY <1>2, <1>3 DEF IInv, TypeOK
<1>5. LoadInv'
  BY <1>1 DEF IInv, LoadInv
<1>6. ASSUME ~lossy PROVE SaveInv' /\ AckInv'
  <2>1. SaveInv /\ AckInv /\ redis.items \subseteq longTerm /\ acked \subseteq longTerm
    BY <1>1, <1>6 DEF IInv, AckInv, RedisWithinMemory
  <2>2. AckInv'
    BY <2>1 DEF AckInv
  <2>3. ASSUME NEW p \in InFlight'
        PROVE  /\ written'[p].items \subseteq longTerm'
               /\ p \notin late' => redis'.items \cup acked' \subseteq written'[p].items
               /\ \A q \in InFlight' \ {p} :
                     p \notin older'[q] => written'[q].items \subseteq written'[p].items
    <3>1. CASE p = r
      <4>1. written'[p].items = longTerm'
        BY <1>4, <3>1
      <4>2. \A q \in InFlight' \ {p} : written'[q].items \subseteq longTerm'
        BY <1>3, <1>4, <2>1, <3>1 DEF SaveInv
      <4> QED BY <2>1, <4>1, <4>2
    <3>2. CASE p # r
      <4>1. p \in InFlight /\ p \in older'[r]
        BY <1>3, <1>4, <3>2
      <4>2. \A q \in InFlight' \ {p} : q = r \/ q \in InFlight \ {p}
        BY <1>3
      <4> QED BY <1>2, <1>4, <2>1, <4>1, <4>2 DEF SaveInv
    <3> QED BY <3>1, <3>2
  <2> QED BY <2>2, <2>3 DEF SaveInv
<1>7. RedisWithinMemory' /\ AcknowledgedDurable'
  BY DEF IInv, RedisWithinMemory, AcknowledgedDurable
<1> QED BY <1>5, <1>6, <1>7 DEF Rest

\* A save that is over, whether it has reached Redis or not; the request may go on
\* or end.
LEMMA ArrivalStep ==
    ASSUME IInv, NEW r \in Request, pc[r] \in Saving, Saved(r),
           NEW next, next \notin Saving, Go(r, next),
           \/ Reaches(r) /\ acked' \subseteq acked \cup written[r].items
           \/ late' = late \ {r} /\ UNCHANGED <<redis, stale, acked>>,
           UNCHANGED <<memory, got, lossy>>
    PROVE  Rest'
<1>1. loaded /\ loaded'
  BY DEF IInv, LoadInv, Using, memory
<1>2. r \in InFlight /\ InFlight' = InFlight \ {r}
  BY DEF Go, InFlight, IInv, TypeOK
<1>3. \A q \in InFlight' : written'[q] = written[q] /\ older'[q] = older[q] \ {r}
  BY <1>2 DEF Saved, InFlight, IInv, TypeOK
<1>4. LoadInv'
  BY <1>1 DEF IInv, LoadInv
<1>5. CASE Reaches(r) /\ acked' \subseteq acked \cup written[r].items
  <2>1. ASSUME ~lossy PROVE SaveInv' /\ AckInv' /\ RedisWithinMemory' /\ AcknowledgedDurable'
    <3>1. /\ SaveInv /\ AckInv /\ written[r].items \subseteq longTerm
          /\ acked \subseteq longTerm /\ longTerm' = longTerm
          /\ redis' = written[r] /\ stale' = (r \in late)
          /\ late' = (late \cup older[r]) \ {r}
      BY <1>1, <1>2, <1>5, <2>1 DEF IInv, SaveInv, AckInv, Reaches, memory
    <3>2. acked' \subseteq acked \cup written[r].items
      BY <1>5
    <3>3. ASSUME NEW p \in InFlight'
          PROVE  /\ written'[p].items \subseteq longTerm'
                 /\ p \notin late' => redis'.items \cup acked' \subseteq written'[p].items
                 /\ \A q \in InFlight' \ {p} :
                       p \notin older'[q] => written'[q].items \subseteq written'[p].items
      <4>1. p \in InFlight /\ p # r /\ written'[p] = written[p]
        BY <1>2, <1>3
      <4>2. written'[p].items \subseteq longTerm'
        BY <3>1, <4>1 DEF SaveInv
      <4>3. p \notin late' => redis'.items \cup acked' \subseteq written'[p].items
        <5>1. p \notin late' => p \notin late /\ p \notin older[r]
          BY <3>1, <4>1
        <5>2. p \notin older[r] => written[r].items \subseteq written[p].items
          BY <1>2, <3>1, <4>1 DEF SaveInv
        <5>3. p \notin late => acked \subseteq written[p].items
          BY <3>1, <4>1 DEF SaveInv
        <5> QED BY <3>1, <3>2, <4>1, <5>1, <5>2, <5>3
      <4>4. \A q \in InFlight' \ {p} :
               p \notin older'[q] => written'[q].items \subseteq written'[p].items
        BY <1>2, <1>3, <3>1, <4>1 DEF SaveInv
      <4> QED BY <4>2, <4>3, <4>4
    <3>4. AckInv' /\ RedisWithinMemory'
      BY <3>1, <3>2 DEF AckInv, RedisWithinMemory
    <3>5. AcknowledgedDurable'
      <4>1. r \notin late => acked \subseteq written[r].items
        BY <1>2, <3>1 DEF SaveInv
      <4> QED BY <3>1, <3>2, <4>1 DEF AcknowledgedDurable
    <3> QED BY <3>3, <3>4, <3>5 DEF SaveInv
  <2>2. lossy => RedisWithinMemory' /\ AcknowledgedDurable'
    BY DEF RedisWithinMemory, AcknowledgedDurable
  <2> QED BY <1>4, <2>1, <2>2 DEF Rest
<1>6. CASE late' = late \ {r} /\ UNCHANGED <<redis, stale, acked>>
  <2>1. ASSUME ~lossy PROVE SaveInv' /\ AckInv'
    <3>1. SaveInv /\ AckInv
      BY <2>1 DEF IInv
    <3>2. AckInv'
      BY <1>6, <3>1 DEF AckInv, memory
    <3>3. ASSUME NEW p \in InFlight'
          PROVE  /\ written'[p].items \subseteq longTerm'
                 /\ p \notin late' => redis'.items \cup acked' \subseteq written'[p].items
                 /\ \A q \in InFlight' \ {p} :
                       p \notin older'[q] => written'[q].items \subseteq written'[p].items
      BY <1>2, <1>3, <1>6, <3>1 DEF SaveInv, memory
    <3> QED BY <3>2, <3>3 DEF SaveInv
  <2>2. RedisWithinMemory' /\ AcknowledgedDurable'
    BY <1>6 DEF IInv, RedisWithinMemory, AcknowledgedDurable, memory
  <2> QED BY <1>4, <2>1, <2>2 DEF Rest
<1> QED BY <1>5, <1>6

LEMMA StepInv ==
    ASSUME IInv, NEW r \in Request, Step(r)
    PROVE  Rest'
<1>1. CASE Begin(r)
  <2>1. InFlight' = InFlight
    BY <1>1 DEF Begin, Go, InFlight, Saving, IInv, TypeOK
  <2> QED BY <1>1, <2>1, QuietStep DEF Begin, Go, memory, history, Using, Saving, IInv, TypeOK, LoadInv
<1>2. CASE LoadReads(r)
  <2>1. InFlight' = InFlight
    BY <1>2 DEF LoadReads, Go, InFlight, Saving, IInv, TypeOK
  <2>2. ~loaded => \A q \in Request : pc'[q] = "got" => redis.items \subseteq got'[q].items
    BY <1>2 DEF LoadReads, Go, IInv, TypeOK, LoadInv
  <2> QED BY <1>2, <2>1, <2>2, QuietStep DEF LoadReads, Go, memory, history, Using, Saving, IInv, TypeOK
<1>3. CASE LoadDone(r)
  <2>1. InFlight' = InFlight
    BY <1>3 DEF LoadDone, Go, InFlight, Saving, IInv, TypeOK
  <2>2. LoadInv'
    BY <1>3 DEF LoadDone, LoadInv
  <2>3. ~lossy' => SaveInv'
    BY <1>3, <2>1 DEF LoadDone, IInv, SaveInv, save, history
  <2>4. ~lossy /\ ~loaded => redis.items \subseteq longTerm' /\ acked \subseteq longTerm'
    BY <1>3 DEF LoadDone, IInv, LoadInv, AcknowledgedDurable
  <2>5. ~lossy' => AckInv' /\ RedisWithinMemory'
    BY <1>3, <2>4 DEF LoadDone, IInv, AckInv, RedisWithinMemory, history
  <2>6. RedisWithinMemory' /\ AcknowledgedDurable'
    BY <1>3, <2>5 DEF LoadDone, IInv, RedisWithinMemory, AcknowledgedDurable, history
  <2> QED BY <2>2, <2>3, <2>5, <2>6 DEF Rest
<1>4. ASSUME LoadAborted, pc[r] \notin Saving,
             NEW next, next \notin Saving, Go(r, next), got' = got \/ loaded'
      PROVE  Rest'
  <2>1. InFlight' = InFlight
    BY <1>4 DEF Go, InFlight, IInv, TypeOK
  <2>2. LoadInv'
    BY <1>4 DEF LoadAborted, LoadInv
  <2>3. ~lossy' => loaded /\ ~lossy
    BY <1>4 DEF LoadAborted
  <2>4. ~lossy' => SaveInv' /\ AckInv'
    BY <1>4, <2>1, <2>3 DEF LoadAborted, IInv, SaveInv, AckInv, save
  <2>5. RedisWithinMemory' /\ AcknowledgedDurable'
    BY <1>4, <2>3 DEF LoadAborted, IInv, RedisWithinMemory, AcknowledgedDurable
  <2> QED BY <2>2, <2>4, <2>5 DEF Rest
<1>5. CASE LoadFails(r)
  BY <1>4, <1>5 DEF LoadFails, Saving
<1>6. CASE LoadCancelled(r)
  <2>1. loaded'
    BY <1>6 DEF LoadCancelled, LoadAborted
  <2> QED BY <1>4, <1>6, <2>1 DEF LoadCancelled, End, Saving
<1>7. CASE SaveDone(r)
  <2>1. AfterSave(r) \notin Saving
    BY DEF AfterSave, Saving
  <2>2. acked' \subseteq acked \cup written[r].items
    BY <1>7 DEF SaveDone, IInv, OwnInv
  <2> QED BY <1>7, <2>1, <2>2, ArrivalStep DEF SaveDone
<1>8. CASE SaveFails(r)
  <2>1. AfterSave(r) \notin Saving
    BY DEF AfterSave, Saving
  <2> QED BY <1>8, <2>1, ArrivalStep DEF SaveFails, SaveAborted
<1>9. CASE SaveCancelled(r)
  <2>1. "ended" \notin Saving
    BY DEF Saving
  <2> QED BY <1>9, <2>1, ArrivalStep DEF SaveCancelled, SaveAborted, End
<1>10. CASE Note(r)
  <2>1. InFlight' = InFlight
    BY <1>10 DEF Note, Go, InFlight, Saving, IInv, TypeOK
  <2> QED BY <1>10, <2>1, QuietStep DEF Note, Go, history, Using, Saving, IInv, TypeOK, LoadInv
<1>11. CASE Add(r)
  BY <1>11, SaveStep DEF Add, history, Using, Saving
<1>12. CASE AddLesson(r)
  BY <1>12, SaveStep DEF AddLesson, history, Using, Saving
<1>13. CASE Recall(r)
  <2>1. InFlight' = InFlight
    BY <1>13 DEF Recall, End, Go, InFlight, Saving, IInv, TypeOK
  <2> QED BY <1>13, <2>1, QuietStep
          DEF Recall, End, Go, memory, history, Using, Saving, IInv, TypeOK, LoadInv
<1>14. CASE Reflect(r)
  BY <1>14, SaveStep DEF Reflect, history, Using, Saving
<1>15. CASE Return(r)
  <2>1. InFlight' = InFlight
    BY <1>15 DEF Return, End, Go, InFlight, Saving, IInv, TypeOK
  <2> QED BY <1>15, <2>1, QuietStep
          DEF Return, End, Go, history, Using, Saving, IInv, TypeOK, LoadInv
<1>16. CASE ClearMemory(r)
  <2>1. InFlight' = InFlight
    BY <1>16 DEF ClearMemory, End, Go, InFlight, Saving, IInv, TypeOK
  <2>2. LoadInv'
    BY <1>16 DEF ClearMemory, End, Go, LoadInv, IInv, TypeOK, Using, Saving
  <2>3. CASE longTerm' = longTerm /\ lossy' = lossy
    BY <1>16, <2>1, <2>3, QuietStep
       DEF ClearMemory, End, Go, Using, Saving, IInv, TypeOK, LoadInv
  <2>4. CASE longTerm' = {} /\ lossy' = (lossy \/ loaded)
    <3>1. ~lossy' => ~loaded /\ InFlight' = {}
      BY <2>1, <2>4, InFlightFacts DEF IInv
    <3>2. ~lossy' => SaveInv' /\ AckInv'
      BY <1>16, <3>1 DEF ClearMemory, SaveInv, AckInv
    <3>3. RedisWithinMemory' /\ AcknowledgedDurable'
      BY <1>16, <2>4, <3>1 DEF ClearMemory, IInv, RedisWithinMemory, AcknowledgedDurable
    <3> QED BY <2>2, <3>2, <3>3 DEF Rest
  <2> QED BY <1>16, <2>3, <2>4 DEF ClearMemory
<1>17. CASE ImportMemory(r)
  <2>1. InFlight' = InFlight
    BY <1>17 DEF ImportMemory, End, Go, InFlight, Saving, IInv, TypeOK
  <2> QED BY <1>17, <2>1, QuietStep
          DEF ImportMemory, End, Go, history, Using, Saving, IInv, TypeOK, LoadInv
<1>18. CASE EmbeddingCancelled(r)
  <2>1. InFlight' = InFlight
    BY <1>18 DEF EmbeddingCancelled, End, Go, InFlight, Saving, IInv, TypeOK
  <2> QED BY <1>18, <2>1, QuietStep
          DEF EmbeddingCancelled, End, Go, memory, history, Using, Saving, IInv, TypeOK, LoadInv
<1>19. CASE SecondNote(r)
  <2>1. InFlight' = InFlight
    BY <1>19 DEF SecondNote, Go, InFlight, Saving, IInv, TypeOK
  <2> QED BY <1>19, <2>1, QuietStep
          DEF SecondNote, Go, memory, history, Using, Saving, IInv, TypeOK, LoadInv
<1> QED BY <1>1, <1>2, <1>3, <1>5, <1>6, <1>7, <1>8, <1>9, <1>10, <1>11, <1>12, <1>13,
           <1>14, <1>15, <1>16, <1>17, <1>18, <1>19 DEF Step

\* No step changes the snapshot that is being written for an item (OwnInv).
LEMMA OwnStep ==
    ASSUME TypeOK, OwnInv, [Next]_vars
    PROVE  OwnInv'
<1>1. ASSUME NEW r \in Request, Step(r), NEW q \in Request, AddsItem(q)'
      PROVE  q \in written'[q].items
  <2>1. CASE Add(r)
    <3>1. q = r => written'[q].items = longTerm \cup {r}
      BY <2>1 DEF Add, Save, TypeOK
    <3>2. q # r => written'[q] = written[q] /\ AddsItem(q)
      BY <1>1, <2>1 DEF Add, Save, Go, TypeOK, AddsItem
    <3> QED BY <3>1, <3>2 DEF OwnInv
  <2>2. CASE AddLesson(r) \/ Reflect(r)
    <3>1. q # r
      BY <1>1, <2>2 DEF AddLesson, Reflect, Save, Go, TypeOK, AddsItem
    <3>2. written'[q] = written[q] /\ AddsItem(q)
      BY <1>1, <2>2, <3>1 DEF AddLesson, Reflect, Save, Go, TypeOK, AddsItem
    <3> QED BY <3>2 DEF OwnInv
  <2>3. CASE SaveDone(r) \/ SaveFails(r) \/ SaveCancelled(r)
    <3>1. q # r
      BY <1>1, <2>3
         DEF SaveDone, SaveFails, SaveCancelled, AfterSave, End, Go, TypeOK, AddsItem
    <3>2. written'[q] = written[q] /\ AddsItem(q)
      BY <1>1, <2>3, <3>1
         DEF SaveDone, SaveFails, SaveCancelled, SaveAborted, Saved, End, Go, TypeOK, AddsItem
    <3> QED BY <3>2 DEF OwnInv
  <2>4. CASE Begin(r) \/ LoadReads(r) \/ LoadDone(r) \/ LoadFails(r) \/ Note(r) \/ SecondNote(r)
    <3>1. written'[q] = written[q] /\ AddsItem(q)
      BY <1>1, <2>4
         DEF Begin, LoadReads, LoadDone, LoadFails, LoadAborted, Note, SecondNote, Go, TypeOK,
             AddsItem, save
    <3> QED BY <3>1 DEF OwnInv
  <2>5. CASE \/ LoadCancelled(r) \/ EmbeddingCancelled(r) \/ Recall(r) \/ Return(r)
             \/ ClearMemory(r) \/ ImportMemory(r)
    <3>1. written'[q] = written[q] /\ AddsItem(q)
      BY <1>1, <2>5
         DEF LoadCancelled, LoadAborted, EmbeddingCancelled, Recall, Return, ClearMemory,
             ImportMemory, End, Go, TypeOK, AddsItem, save
    <3> QED BY <3>1 DEF OwnInv
  <2> QED BY <1>1, <2>1, <2>2, <2>3, <2>4, <2>5 DEF Step
<1>2. CASE Crash
  BY <1>2 DEF Crash, OwnInv, AddsItem
<1>3. CASE Expire \/ UNCHANGED vars
  BY <1>3 DEF Expire, vars, save, OwnInv, AddsItem
<1> QED BY <1>1, <1>2, <1>3 DEF Next, OwnInv

LEMMA NextInv == IInv /\ [Next]_vars => IInv'
<1> SUFFICES ASSUME IInv, [Next]_vars PROVE IInv'
  OBVIOUS
<1>1. TypeOK'
  BY NextType DEF IInv
<1>2. ASSUME NEW r \in Request, Step(r) PROVE Rest'
  BY <1>2, StepInv
<1>3. ASSUME Crash PROVE Rest'
  <2>1. InFlight' = {}
    BY <1>3 DEF Crash, InFlight, Saving
  <2>2. LoadInv'
    BY <1>3 DEF Crash, LoadInv, Using, Saving
  <2>3. SaveInv' /\ AckInv' /\ RedisWithinMemory'
    BY <1>3, <2>1 DEF Crash, SaveInv, AckInv, RedisWithinMemory
  <2>4. AcknowledgedDurable'
    BY <1>3 DEF Crash, IInv, AcknowledgedDurable
  <2> QED BY <2>2, <2>3, <2>4 DEF Rest
<1>4. ASSUME Expire PROVE Rest'
  <2>1. redis'.items = {} /\ acked' = {} /\ InFlight' = InFlight
    BY <1>4 DEF Expire, Nothing, InFlight
  <2>2. LoadInv'
    BY <1>4, <2>1 DEF Expire, IInv, LoadInv, memory
  <2>3. ~lossy' => SaveInv' /\ AckInv'
    BY <1>4, <2>1 DEF Expire, IInv, SaveInv, AckInv, memory, save
  <2>4. RedisWithinMemory' /\ AcknowledgedDurable'
    BY <2>1 DEF RedisWithinMemory, AcknowledgedDurable
  <2> QED BY <2>2, <2>3, <2>4 DEF Rest
<1>5. ASSUME UNCHANGED vars PROVE Rest'
  <2>1. InFlight' = InFlight
    BY <1>5 DEF vars, InFlight
  <2>2. ~loaded => \A r \in Request : pc'[r] = "got" => redis.items \subseteq got'[r].items
    BY <1>5 DEF vars, IInv, LoadInv
  <2>3. \A r \in Request : pc'[r] \in Using => pc[r] \in Using
    BY <1>5 DEF vars
  <2> QED BY <1>5, <2>1, <2>2, <2>3, QuietStep DEF vars, memory, history
<1>6. Rest'
  BY <1>2, <1>3, <1>4, <1>5 DEF Next
<1>7. OwnInv'
  BY OwnStep DEF IInv
<1> QED BY <1>1, <1>6, <1>7 DEF IInv, Rest

\* The inductive invariant: what each request holds of the memory, and what of it is
\* on its way to Redis, agrees with what Redis has.
THEOREM Invariance == Spec => []IInv
  BY InitInv, NextInv, PTL DEF Spec

-----------------------------------------------------------------------------
(* Theorems *)

\* A loaded memory holds every item Redis holds (RedisWithinMemory), however loads,
\* additions and saves of the requests interleave.
THEOREM RedisWithinMemoryHolds == Spec => []RedisWithinMemory
<1>1. IInv => RedisWithinMemory
  BY DEF IInv
<1> QED BY <1>1, Invariance, PTL

\* What Redis has confirmed is there for the next life of the process
\* (AcknowledgedDurable).
THEOREM AcknowledgedDurableHolds == Spec => []AcknowledgedDurable
<1>1. IInv => AcknowledgedDurable
  BY DEF IInv
<1> QED BY <1>1, Invariance, PTL

\* A save that has not been overtaken never removes an item from Redis
\* (SaveKeepsStored).
THEOREM SaveKeepsStoredHolds == Spec => SaveKeepsStored
<1> DEFINE Keeps == redis' # redis /\ redis' # Nothing /\ ~stale' /\ ~lossy
                       => redis.items \subseteq redis'.items
<1>1. ASSUME IInv, [Next]_vars PROVE Keeps
  <2>1. ASSUME NEW r \in Request, pc[r] \in Saving, Reaches(r) PROVE Keeps
    <3>1. r \in InFlight
      BY <2>1 DEF InFlight
    <3> QED BY <1>1, <2>1, <3>1 DEF Reaches, IInv, SaveInv
  <2>2. ASSUME NEW r \in Request, Step(r) PROVE Keeps
    <3>1. CASE SaveDone(r)
      BY <2>1, <3>1 DEF SaveDone
    <3>2. CASE SaveFails(r) \/ SaveCancelled(r)
      BY <2>1, <3>2 DEF SaveFails, SaveCancelled, SaveAborted
    <3>3. CASE ~(SaveDone(r) \/ SaveFails(r) \/ SaveCancelled(r))
      <4>1. redis' = redis
        BY <2>2, <3>3
           DEF Step, Begin, LoadReads, LoadDone, LoadFails, LoadCancelled, LoadAborted, Note,
               Add, EmbeddingCancelled, AddLesson, Recall, SecondNote, Reflect, Return,
               ClearMemory, ImportMemory
      <4> QED BY <4>1
    <3> QED BY <3>1, <3>2, <3>3
  <2> QED BY <1>1, <2>2 DEF Next, Crash, Expire, vars
<1>2. IInv /\ [Next]_vars => [Keeps]_vars
  BY <1>1
<1> QED BY <1>2, Invariance, PTL DEF Spec, SaveKeepsStored
=============================================================================
