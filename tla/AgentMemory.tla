---------------------------- MODULE AgentMemory ----------------------------
(***************************************************************************)
(* AgentMemorySystem (services/memory_service.py): the memory of one agent  *)
(* in the API process, shared by every request of a session, and its        *)
(* snapshot in Redis.  A request loads the snapshot if nobody has, adds to  *)
(* the memory, and writes the whole memory back; each of these awaits       *)
(* Redis, so requests overlap.  The process may crash, a Redis call may     *)
(* fail, a client may go away, and the snapshot may expire.                 *)
(*                                                                          *)
(* Items and insights are named after the request that adds them, copies of *)
(* one item are not told apart, and interaction_count, which only decides   *)
(* when a reflection is due, is a choice.  Working memory is not part of    *)
(* the snapshot and is left out.                                            *)
(***************************************************************************)
EXTENDS Naturals

CONSTANTS
    Request,       \* the requests that use the memory, each once
    Old,           \* items and insights of earlier lives of the process
    MaxShortTerm,  \* ShortTermMemory.max_size
    MinRecent,     \* recent memories _auto_reflect asks for
    Faults,        \* what may go wrong besides crashes
    MaxCrashes     \* bound on crashes

ASSUME AgentMemoryAssumption ==
    /\ Request \cap Old = {}
    /\ MaxShortTerm \in Nat \ {0}
    /\ MinRecent \in Nat
    /\ Faults \subseteq {"load", "save", "reorder", "cancel", "expire"}
    /\ MaxCrashes \in Nat

VARIABLES
    loaded,      \* _loaded
    longTerm,    \* LongTermMemory.memories
    shortTerm,   \* length of ShortTermMemory.buffer
    reflective,  \* ReflectiveMemory: insights, patterns, lessons
    redis,       \* the value at _persist_key
    pc,          \* where a request is
    op,          \* what it does
    got,         \* the snapshot its load has read
    written,     \* the snapshot its save is writing
    older,       \* the saves in flight when that save began (history)
    late,        \* saves in flight that a newer one has overtaken (history)
    stale,       \* the save that arrived last was late (history)
    acked,       \* items whose save Redis has confirmed (history)
    lossy,       \* a load was aborted or the memory cleared (history)
    crashes

memory == <<loaded, longTerm, shortTerm, reflective>>
save == <<written, older, late>>
history == <<stale, acked, lossy>>
vars == <<memory, redis, pc, op, got, save, history, crashes>>

Item == Request \cup Old
Insight == (Request \X {"pattern", "lesson"}) \cup Old
Snapshot == [items : SUBSET Item, insights : SUBSET Insight]
Nothing == [items |-> {}, insights |-> {}]

Operation == {"note", "interaction", "remember", "failure", "lesson", "recall"}
Saving == {"saving", "reflecting"}
Using == {"ready", "added", "reflected"} \cup Saving

TypeOK ==
    /\ loaded \in BOOLEAN
    /\ longTerm \subseteq Item
    /\ shortTerm \in 0 .. MaxShortTerm
    /\ reflective \subseteq Insight
    /\ redis \in Snapshot
    /\ pc \in [Request -> {"idle", "loading", "got", "ended"} \cup Using]
    /\ op \in [Request -> Operation]
    /\ got \in [Request -> Snapshot]
    /\ written \in [Request -> Snapshot]
    /\ older \in [Request -> SUBSET Request]
    /\ late \subseteq Request
    /\ stale \in BOOLEAN
    /\ acked \subseteq Request
    /\ lossy \in BOOLEAN
    /\ crashes \in 0 .. MaxCrashes

Init ==
    /\ loaded = FALSE
    /\ longTerm = {}
    /\ shortTerm = 0
    /\ reflective = {}
    /\ redis \in [items : SUBSET Old, insights : SUBSET Old]
    /\ pc = [r \in Request |-> "idle"]
    /\ op = [r \in Request |-> "recall"]
    /\ got = [r \in Request |-> Nothing]
    /\ written = [r \in Request |-> Nothing]
    /\ older = [r \in Request |-> {}]
    /\ late = {}
    /\ stale = FALSE
    /\ acked = {}
    /\ lossy = FALSE
    /\ crashes = 0

Go(r, next) == pc' = [pc EXCEPT ![r] = next]

End(r) ==
    /\ Go(r, "ended")
    /\ op' = [op EXCEPT ![r] = "recall"]

-----------------------------------------------------------------------------
(* _load_from_redis *)

\* Mutant: record_lesson does not wait for the load.
BeginUnloaded(r) ==
    /\ pc[r] = "idle"
    /\ \E o \in Operation :
          /\ op' = [op EXCEPT ![r] = o]
          /\ Go(r, IF loaded \/ o = "lesson" THEN "ready" ELSE "loading")
    /\ UNCHANGED <<memory, redis, got, save, history, crashes>>

\* remember, recall and ensure_loaded wait for the load unless it is over.
Begin(r) ==
    /\ pc[r] = "idle"
    /\ \E o \in Operation : op' = [op EXCEPT ![r] = o]
    /\ Go(r, IF loaded THEN "ready" ELSE "loading")
    /\ UNCHANGED <<memory, redis, got, save, history, crashes>>

\* Mutant: the memory counts as loaded as soon as Redis has been asked.
LoadReadsMarksLoaded(r) ==
    /\ pc[r] = "loading"
    /\ got' = [got EXCEPT ![r] = redis]
    /\ loaded' = TRUE
    /\ Go(r, "got")
    /\ UNCHANGED <<longTerm, shortTerm, reflective, redis, op, save, history, crashes>>

LoadReads(r) ==
    /\ pc[r] = "loading"
    /\ got' = [got EXCEPT ![r] = redis]
    /\ Go(r, "got")
    /\ UNCHANGED <<memory, redis, op, save, history, crashes>>

\* Mutant: import_data replaces the long-term memory.
LoadDoneReplaces(r) ==
    /\ pc[r] = "got"
    /\ longTerm' = got[r].items
    /\ loaded' = TRUE
    /\ got' = [got EXCEPT ![r] = Nothing]
    /\ Go(r, "ready")
    /\ UNCHANGED <<shortTerm, reflective, redis, op, save, history, crashes>>

\* import_data: the snapshot has no short-term memory, and its reflective memory
\* is not looked at.  Requests that load at the same time all import it.
LoadDone(r) ==
    /\ pc[r] = "got"
    /\ longTerm' = longTerm \cup got[r].items
    /\ loaded' = TRUE
    /\ got' = [got EXCEPT ![r] = Nothing]
    /\ Go(r, "ready")
    /\ UNCHANGED <<shortTerm, reflective, redis, op, save, history, crashes>>

\* The finally clause: without an import the memory counts as loaded all the same.
LoadAborted ==
    /\ loaded' = TRUE
    /\ lossy' = (lossy \/ ~loaded)
    /\ UNCHANGED <<longTerm, shortTerm, reflective, redis, save, stale, acked, crashes>>

\* The error is logged.
LoadFails(r) ==
    /\ pc[r] = "loading" /\ "load" \in Faults
    /\ LoadAborted
    /\ Go(r, "ready")
    /\ UNCHANGED <<op, got>>

\* The client goes away and its request is cancelled.
LoadCancelled(r) ==
    /\ pc[r] \in {"loading", "got"} /\ "cancel" \in Faults
    /\ LoadAborted
    /\ End(r)
    /\ got' = [got EXCEPT ![r] = Nothing]

-----------------------------------------------------------------------------
(* _save_to_redis: the snapshot is built in the step that changed the memory,
   then setex is awaited. *)

InFlight == {r \in Request : pc[r] \in Saving}

Save(r, snapshot, phase) ==
    /\ written' = [written EXCEPT ![r] = snapshot]
    /\ older' = [older EXCEPT ![r] = InFlight]
    /\ Go(r, phase)
    /\ UNCHANGED late

\* The write reaches Redis; writes of overlapping requests use connections of
\* their own.
Reaches(r) ==
    /\ r \in late => "reorder" \in Faults
    /\ redis' = written[r]
    /\ stale' = (r \in late)
    /\ late' = (late \cup older[r]) \ {r}

AfterSave(r) == IF pc[r] = "saving" THEN "added" ELSE "reflected"

\* The save is no longer awaited.
Saved(r) ==
    /\ written' = [written EXCEPT ![r] = Nothing]
    /\ older' = [q \in Request |-> IF q = r THEN {} ELSE older[q] \ {r}]

\* The save follows the addition of an item.
AddsItem(r) == pc[r] = "saving" /\ op[r] # "lesson"

SaveDone(r) ==
    /\ pc[r] \in Saving
    /\ Reaches(r)
    /\ Saved(r)
    /\ Go(r, AfterSave(r))
    /\ acked' = acked \cup (IF AddsItem(r) THEN {r} ELSE {})
    /\ UNCHANGED <<memory, op, got, lossy, crashes>>

\* The write may have reached Redis or not.
SaveAborted(r) ==
    /\ pc[r] \in Saving
    /\ \/ Reaches(r)
       \/ late' = late \ {r} /\ UNCHANGED <<redis, stale>>
    /\ Saved(r)
    /\ UNCHANGED <<memory, got, acked, lossy, crashes>>

\* The error is logged.
SaveFails(r) ==
    /\ "save" \in Faults
    /\ SaveAborted(r)
    /\ Go(r, AfterSave(r))
    /\ UNCHANGED op

SaveCancelled(r) ==
    /\ "cancel" \in Faults
    /\ SaveAborted(r)
    /\ End(r)

-----------------------------------------------------------------------------
(* remember, store_interaction, store_experience, record_lesson, recall *)

OneMore == IF shortTerm = MaxShortTerm THEN shortTerm ELSE shortTerm + 1

\* A short-term memory; there is nothing to save.
Note(r) ==
    /\ pc[r] = "ready" /\ op[r] \in {"note", "interaction"}
    /\ shortTerm' = OneMore
    /\ Go(r, "added")
    /\ UNCHANGED <<loaded, longTerm, reflective, redis, op, got, save, history, crashes>>

\* Mutant: the snapshot is taken before the item is added.
AddAfterSnapshot(r) ==
    /\ pc[r] = "ready" /\ op[r] \in {"remember", "failure"}
    /\ longTerm' = longTerm \cup {r}
    /\ Save(r, [items |-> longTerm, insights |-> reflective], "saving")
    /\ UNCHANGED <<loaded, shortTerm, reflective, redis, op, got, history, crashes>>

\* A long-term memory.
Add(r) ==
    /\ pc[r] = "ready" /\ op[r] \in {"remember", "failure"}
    /\ longTerm' = longTerm \cup {r}
    /\ Save(r, [items |-> longTerm', insights |-> reflective], "saving")
    /\ UNCHANGED <<loaded, shortTerm, reflective, redis, op, got, history, crashes>>

\* The client goes away while the embedding of the item is awaited.
EmbeddingCancelled(r) ==
    /\ pc[r] = "ready" /\ op[r] \in {"remember", "failure"} /\ "cancel" \in Faults
    /\ End(r)
    /\ UNCHANGED <<memory, redis, got, save, history, crashes>>

\* AgentMemoryBridge.record_lesson, after ensure_loaded.
AddLesson(r) ==
    /\ pc[r] = "ready" /\ op[r] = "lesson"
    /\ reflective' = reflective \cup {<<r, "lesson">>}
    /\ Save(r, [items |-> longTerm, insights |-> reflective'], "saving")
    /\ UNCHANGED <<loaded, longTerm, shortTerm, redis, op, got, history, crashes>>

Recall(r) ==
    /\ pc[r] = "ready" /\ op[r] = "recall"
    /\ End(r)
    /\ UNCHANGED <<memory, redis, got, save, history, crashes>>

\* _auto_reflect at the end of remember finds a pattern and saves.
Reflect(r) ==
    /\ pc[r] = "added" /\ op[r] # "lesson"
    /\ shortTerm >= MinRecent
    /\ reflective' = reflective \cup {<<r, "pattern">>}
    /\ Save(r, [items |-> longTerm, insights |-> reflective'], "reflecting")
    /\ UNCHANGED <<loaded, longTerm, shortTerm, redis, op, got, history, crashes>>

\* store_interaction: after the user's message the assistant's.
SecondNote(r) ==
    /\ pc[r] \in {"added", "reflected"} /\ op[r] = "interaction"
    /\ op' = [op EXCEPT ![r] = "note"]
    /\ Go(r, "ready")
    /\ UNCHANGED <<memory, redis, got, save, history, crashes>>

\* The request is over; store_experience has the lesson of a failure still to
\* add, which only a later save writes.
Return(r) ==
    /\ pc[r] \in {"added", "reflected"} /\ op[r] # "interaction"
    /\ reflective' = reflective \cup (IF op[r] = "failure" THEN {<<r, "lesson">>} ELSE {})
    /\ End(r)
    /\ UNCHANGED <<loaded, longTerm, shortTerm, redis, got, save, history, crashes>>

-----------------------------------------------------------------------------
(* Endpoints that neither load nor save: clear_memory and import_memory *)

ClearMemory(r) ==
    /\ pc[r] = "idle"
    /\ \/ shortTerm' = 0 /\ UNCHANGED <<longTerm, reflective, lossy>>
       \/ reflective' = {} /\ UNCHANGED <<longTerm, shortTerm, lossy>>
       \/ /\ shortTerm' = 0 /\ reflective' = {} /\ longTerm' = {}
          /\ lossy' = (lossy \/ loaded)
    /\ End(r)
    /\ UNCHANGED <<loaded, redis, got, save, stale, acked, crashes>>

\* An export of this agent made in an earlier life.
ImportMemory(r) ==
    /\ pc[r] = "idle"
    /\ \E items \in SUBSET Old : longTerm' = longTerm \cup items
    /\ \E n \in shortTerm .. MaxShortTerm : shortTerm' = n
    /\ End(r)
    /\ UNCHANGED <<loaded, reflective, redis, got, save, history, crashes>>

-----------------------------------------------------------------------------
(* The environment *)

\* The API process dies and is started again: its memory and its requests are gone.
\* An item Redis does not hold, because of a late save, an aborted load or a
\* cleared memory, is lost for good.
Crash ==
    /\ crashes < MaxCrashes
    /\ crashes' = crashes + 1
    /\ loaded' = FALSE /\ longTerm' = {} /\ shortTerm' = 0 /\ reflective' = {}
    /\ pc' = [r \in Request |-> IF pc[r] = "idle" THEN "idle" ELSE "ended"]
    /\ op' = [r \in Request |-> "recall"]
    /\ got' = [r \in Request |-> Nothing]
    /\ written' = [r \in Request |-> Nothing]
    /\ older' = [r \in Request |-> {}] /\ late' = {}
    /\ acked' = IF stale \/ lossy THEN acked \cap redis.items ELSE acked
    /\ stale' = FALSE /\ lossy' = FALSE
    /\ UNCHANGED redis

\* Seven days without a save.
Expire ==
    /\ "expire" \in Faults
    /\ redis # Nothing
    /\ redis' = Nothing
    /\ acked' = {}
    /\ UNCHANGED <<memory, pc, op, got, save, stale, lossy, crashes>>

-----------------------------------------------------------------------------
Step(r) ==
    \/ Begin(r) \/ LoadReads(r) \/ LoadDone(r) \/ LoadFails(r) \/ LoadCancelled(r)
    \/ SaveDone(r) \/ SaveFails(r) \/ SaveCancelled(r)
    \/ Note(r) \/ Add(r) \/ EmbeddingCancelled(r) \/ AddLesson(r) \/ Recall(r)
    \/ SecondNote(r) \/ Reflect(r) \/ Return(r)
    \/ ClearMemory(r) \/ ImportMemory(r)

Next ==
    \/ \E r \in Request : Step(r)
    \/ Crash
    \/ Expire

Spec == Init /\ [][Next]_vars

-----------------------------------------------------------------------------
(* Properties *)

\* Once the memory counts as loaded it holds every item Redis holds, whoever else is
\* loading, adding or saving (_loaded is set after the import): otherwise the next
\* save, which writes the whole memory, would erase the items that are missing.
\* An aborted load or a cleared memory voids the promise until the process restarts.
RedisWithinMemory == loaded /\ ~lossy => redis.items \subseteq longTerm

\* A save that has not been overtaken never removes an item from Redis.
SaveKeepsStored ==
    [][redis' # redis /\ redis' # Nothing /\ ~stale' /\ ~lossy
          => redis.items \subseteq redis'.items]_vars

\* An item whose save was confirmed is in Redis, ready for the next life of the
\* process, unless the save that arrived last had been overtaken.
AcknowledgedDurable == ~stale /\ ~lossy => acked \subseteq redis.items

\* "Loads long-term and reflective memory from Redis" (_load_from_redis): after the
\* load the reflective memory holds what Redis holds.
ReflectiveRestored == loaded /\ ~lossy => redis.insights \subseteq reflective

(***************************************************************************)
(* The inductive invariant.  Only requests past the load use the memory;    *)
(* while none is, Redis holds no more than a loading request has read.      *)
(* A save in flight holds no more than the memory; one that has not been    *)
(* overtaken holds all that Redis holds and all that was confirmed; of two  *)
(* saves the younger holds more; the save of an item holds it.              *)
(***************************************************************************)
LoadInv ==
    /\ \A r \in Request : pc[r] \in Using => loaded
    /\ lossy => loaded
    /\ ~loaded => /\ ~stale
                  /\ \A r \in Request : pc[r] = "got" => redis.items \subseteq got[r].items

SaveInv ==
    \A r \in InFlight :
        /\ written[r].items \subseteq longTerm
        /\ r \notin late => redis.items \cup acked \subseteq written[r].items
        /\ \A q \in InFlight \ {r} :
              r \notin older[q] => written[q].items \subseteq written[r].items

\* The snapshot that is written for an item has it.
OwnInv == \A r \in Request : AddsItem(r) => r \in written[r].items

AckInv == loaded => acked \subseteq longTerm

IInv ==
    /\ TypeOK
    /\ LoadInv
    /\ OwnInv
    /\ ~lossy => SaveInv /\ AckInv
    /\ RedisWithinMemory
    /\ AcknowledgedDurable
=============================================================================
