---------------------------- MODULE PlatformProofs ----------------------------
(***************************************************************************)
(* Theorems about the parts of Services that run beside the agent: the      *)
(* accounts with their permission cache, the rate limiter, the               *)
(* notifications, the uploads, the workflow engine, the prompt templates,    *)
(* the organizations and the search index, for any number of clients,        *)
(* requests, events and tasks.                                               *)
(*                                                                          *)
(* Each section shows that the invariant IInv of a part holds initially and *)
(* is kept by every step of the part, that it is therefore an invariant of   *)
(* Services, where other parts leave its variables alone, and that it        *)
(* implies the part's property.                                              *)
(***************************************************************************)
EXTENDS Services, TLAPS, FiniteSetTheorems, SequenceTheorems, WellFoundedInduction

-----------------------------------------------------------------------------
(* The accounts: partial rows *)

LEMMA PartialRow ==
    ASSUME NEW C \in SUBSET Column, NEW f \in [C -> Value]
    PROVE  f \in PartialRows
  BY DEF PartialRows

LEMMA PartialRowFacts ==
    ASSUME NEW f \in PartialRows
    PROVE  /\ DOMAIN f \subseteq Column
           /\ f \in [DOMAIN f -> Value]
  BY DEF PartialRows

LEMMA NoColumnsType == NoColumns \in PartialRows /\ DOMAIN NoColumns = {}
<1>1. NoColumns \in [{} -> Value] /\ DOMAIN NoColumns = {}
  BY DEF NoColumns
<1> QED BY <1>1, PartialRow

\* A change of one column.
LEMMA ChangeFacts ==
    ASSUME NEW c \in Column, NEW v \in Value
    PROVE  /\ Change(c, v) \in PartialRows
           /\ DOMAIN Change(c, v) = {c}
           /\ Change(c, v)[c] = v
<1>1. Change(c, v) \in [{c} -> Value] /\ DOMAIN Change(c, v) = {c} /\ Change(c, v)[c] = v
  BY DEF Change
<1> QED BY <1>1, PartialRow

\* Changes put on top of a row leave the other columns alone.
LEMMA OnTopFacts ==
    ASSUME NEW f \in PartialRows, NEW g \in PartialRows
    PROVE  /\ OnTop(f, g) \in PartialRows
           /\ DOMAIN OnTop(f, g) = DOMAIN f \cup DOMAIN g
           /\ \A c \in DOMAIN f : OnTop(f, g)[c] = f[c]
           /\ \A c \in DOMAIN g \ DOMAIN f : OnTop(f, g)[c] = g[c]
<1> DEFINE D == DOMAIN f \cup DOMAIN g
<1>1. D \in SUBSET Column /\ f \in [DOMAIN f -> Value] /\ g \in [DOMAIN g -> Value]
  BY PartialRowFacts
<1>2. OnTop(f, g) = [c \in D |-> IF c \in DOMAIN f THEN f[c] ELSE g[c]]
  BY DEF OnTop
<1>3. OnTop(f, g) \in [D -> Value]
  BY <1>1, <1>2
<1> QED BY <1>1, <1>2, <1>3, PartialRow

\* What a request that merges makes dirty comes from its user, and nothing does when
\* the user belongs to the session.
LEMMA MergedFacts ==
    ASSUME TypeOK, NEW r \in Request
    PROVE  /\ Merged(r) \in PartialRows
           /\ DOMAIN Merged(r) \subseteq DOMAIN user[r]
           /\ r \in bound => DOMAIN Merged(r) = {}
<1> DEFINE S == {c \in DOMAIN user[r] : user[r][c] # row[c]}
<1>1. user[r] \in PartialRows
  BY DEF TypeOK
<1>2. S \in SUBSET Column /\ S \subseteq DOMAIN user[r] /\ user[r] \in [DOMAIN user[r] -> Value]
  BY <1>1, PartialRowFacts
<1>3. [c \in S |-> user[r][c]] \in [S -> Value]
  BY <1>2
<1>4. [c \in S |-> user[r][c]] \in PartialRows
  BY <1>2, <1>3, PartialRow
<1>5. CASE r \in bound
  BY <1>5, NoColumnsType DEF Merged
<1>6. CASE r \notin bound
  <2>1. Merged(r) = [c \in S |-> user[r][c]]
    BY <1>6 DEF Merged
  <2> QED BY <2>1, <1>2, <1>4, <1>6
<1> QED BY <1>5, <1>6

---------------------------------------------------------------------------
(* The invariant *)

LEMMA AccountsInitInv == Init => IInv
<1> SUFFICES ASSUME Init PROVE IInv
  OBVIOUS
<1>1. row \in [Column -> Value]
  BY DEF Init, Value
<1>2. TypeOK
  BY <1>1, NoColumnsType DEF Init, TypeOK, Value
<1>3. PasswordInv /\ WriterInv
  BY NoColumnsType DEF Init, PasswordInv, WriterInv
<1>4. PasswordIsLastAcked
  BY DEF Init, PasswordIsLastAcked, Column
<1> QED BY <1>2, <1>3, <1>4 DEF IInv

\* An answer forgets the request's changes and its user.
LEMMA AnswerFacts ==
    ASSUME TypeOK, NEW r \in Request, NEW outcome \in {"ok", "error"}, Answer(r, outcome)
    PROVE  /\ pc' \in [Request -> {"idle", "read", "handle", "commit", "ok", "error"}]
           /\ user' \in [Request -> PartialRows]
           /\ dirty' \in [Request -> PartialRows]
           /\ bound' \subseteq Request
           /\ pc'[r] = outcome /\ DOMAIN user'[r] = {} /\ DOMAIN dirty'[r] = {}
           /\ \A q \in Request \ {r} :
                 /\ pc'[q] = pc[q] /\ user'[q] = user[q] /\ dirty'[q] = dirty[q]
                 /\ q \in bound' <=> q \in bound
  BY NoColumnsType DEF Answer, Goto, TypeOK

\* A request that answers without writing keeps the invariant.
LEMMA AnswerKeeps ==
    ASSUME IInv, NEW r \in Request, NEW outcome \in {"ok", "error"}, Answer(r, outcome),
           UNCHANGED <<row, kind, histories>>, copy' \in PartialRows,
           "password" \notin DOMAIN copy'
    PROVE  IInv'
<1>1. TypeOK'
  BY AnswerFacts DEF IInv, TypeOK, histories
<1>2. PasswordInv'
  BY AnswerFacts DEF IInv, PasswordInv
<1>3. WriterInv'
  BY AnswerFacts DEF IInv, WriterInv, WritesOwn
<1>4. PasswordIsLastAcked'
  BY DEF IInv, PasswordIsLastAcked, histories
<1> QED BY <1>1, <1>2, <1>3, <1>4 DEF IInv

\* A handler that leaves its changes for the commit keeps the invariant when they are
\* the request's own.
LEMMA WriteKeeps ==
    ASSUME IInv, NEW r \in Request, NEW columns \in PartialRows, Write(r, columns),
           pc[r] = "handle",
           UNCHANGED <<row, copy, kind, user, bound, histories>>,
           "password" \in DOMAIN columns <=> kind[r] = "password",
           kind[r] = "password" => columns["password"] = r,
           \A c \in {"role", "active", "key"} : c \in DOMAIN columns =>
               \/ /\ kind[r] \in IF c = "key" THEN {"key"} ELSE ByAdmin
                  /\ r \in bound /\ columns[c] = r
               \/ kind[r] \in Merging /\ r \notin bound
    PROVE  IInv'
<1>1. /\ pc' = [pc EXCEPT ![r] = "commit"]
      /\ dirty' = [dirty EXCEPT ![r] = columns]
  BY DEF Write, Goto
<1>2. TypeOK'
  BY <1>1 DEF IInv, TypeOK, histories
<1>3. /\ dirty'[r] = columns /\ pc'[r] = "commit"
      /\ \A q \in Request \ {r} : dirty'[q] = dirty[q] /\ pc'[q] = pc[q]
  BY <1>1 DEF IInv, TypeOK
<1>4. PasswordInv'
  BY <1>3 DEF IInv, PasswordInv
<1>5. WriterInv'
  BY <1>3 DEF IInv, WriterInv, WritesOwn
<1>6. PasswordIsLastAcked'
  BY DEF IInv, PasswordIsLastAcked, histories
<1> QED BY <1>2, <1>4, <1>5, <1>6 DEF IInv

\* A request that begins has no changes yet; what it takes for its user is in the
\* session or lacks the password.
LEMMA LoadKeeps ==
    ASSUME IInv, NEW r \in Request, NEW k \in Kind, NEW place \in {"read", "handle"},
           pc[r] = "idle", Goto(r, place), kind' = [kind EXCEPT ![r] = k],
           user' \in [Request -> PartialRows], bound' \in {bound, bound \cup {r}},
           \A q \in Request \ {r} : user'[q] = user[q],
           r \in bound' \/ "password" \notin DOMAIN user'[r],
           place = "read" => r \in bound' /\ DOMAIN user'[r] = Column,
           k \in ByAdmin => r \in bound',
           UNCHANGED <<row, copy, dirty, histories>>
    PROVE  IInv'
<1>1. TypeOK'
  BY DEF IInv, TypeOK, Goto, histories
<1>2. /\ pc'[r] = place /\ kind'[r] = k
      /\ \A q \in Request \ {r} :
            pc'[q] = pc[q] /\ kind'[q] = kind[q] /\ (q \in bound' <=> q \in bound)
  BY DEF IInv, TypeOK, Goto
<1>3. DOMAIN dirty[r] = {}
  BY DEF IInv, WriterInv
<1>4. PasswordInv'
  BY <1>2, <1>3 DEF IInv, PasswordInv
<1>5. WriterInv'
  BY <1>2, <1>3 DEF IInv, WriterInv, WritesOwn
<1>6. PasswordIsLastAcked'
  BY DEF IInv, PasswordIsLastAcked, histories
<1> QED BY <1>1, <1>4, <1>5, <1>6 DEF IInv

LEMMA RowType == ASSUME TypeOK PROVE row \in PartialRows /\ DOMAIN row = Column
  BY PartialRow DEF TypeOK

LEMMA LoadFromCopyKeeps ==
    ASSUME IInv, NEW r \in Request, NEW k \in Kind, LoadFromCopy(r, k)
    PROVE  IInv'
<1>1. user' \in [Request -> PartialRows] /\ user'[r] = copy
  BY DEF LoadFromCopy, IInv, TypeOK
<1>2. "password" \notin DOMAIN user'[r]
  BY <1>1 DEF IInv, PasswordInv
<1>3. \A q \in Request \ {r} : user'[q] = user[q]
  BY DEF LoadFromCopy, IInv, TypeOK
<1>4. /\ pc[r] = "idle" /\ Goto(r, "handle") /\ kind' = [kind EXCEPT ![r] = k]
      /\ k \notin ByAdmin /\ bound' = bound /\ UNCHANGED <<row, copy, dirty, histories>>
  BY DEF LoadFromCopy
<1> QED BY <1>1, <1>2, <1>3, <1>4, LoadKeeps

LEMMA LoadFromRowKeeps ==
    ASSUME IInv, NEW r \in Request, NEW k \in Kind, LoadFromRow(r, k)
    PROVE  IInv'
<1>1. user' \in [Request -> PartialRows]
  BY RowType DEF LoadFromRow, IInv, TypeOK
<1>2. \A q \in Request \ {r} : user'[q] = user[q]
  BY DEF LoadFromRow, IInv, TypeOK
<1>3. /\ pc[r] = "idle" /\ Goto(r, "read") /\ kind' = [kind EXCEPT ![r] = k]
      /\ bound' = bound \cup {r} /\ k \notin ByAdmin
      /\ UNCHANGED <<row, copy, dirty, histories>>
  BY DEF LoadFromRow
<1>4. DOMAIN user'[r] = Column
  BY RowType DEF LoadFromRow, IInv, TypeOK
<1> QED BY <1>1, <1>2, <1>3, <1>4, LoadKeeps

LEMMA LoadAsAdminKeeps ==
    ASSUME IInv, NEW r \in Request, NEW k \in Kind, LoadAsAdmin(r, k)
    PROVE  IInv'
<1>1. /\ user' \in [Request -> PartialRows]
      /\ \A q \in Request \ {r} : user'[q] = user[q]
  BY DEF LoadAsAdmin, IInv, TypeOK
<1>2. /\ pc[r] = "idle" /\ Goto(r, "handle") /\ kind' = [kind EXCEPT ![r] = k]
      /\ bound' = bound \cup {r} /\ UNCHANGED <<row, copy, dirty, histories>>
  BY DEF LoadAsAdmin
<1> QED BY <1>1, <1>2, LoadKeeps

LEMMA FillCopyKeeps ==
    ASSUME IInv, NEW r \in Request, FillCopy(r)
    PROVE  IInv'
<1> DEFINE columns == IF kind[r] = "login" THEN LoginColumns ELSE RowColumns
<1>1. columns \in SUBSET Column /\ "password" \notin columns
  BY DEF LoginColumns, RowColumns, Column
<1>2. user[r] \in PartialRows /\ DOMAIN user[r] = Column /\ r \in bound
  BY DEF FillCopy, IInv, TypeOK, WriterInv
<1>3. user[r] \in [Column -> Value]
  BY <1>2, PartialRowFacts
<1>4. copy' = [c \in columns |-> user[r][c]]
  BY DEF FillCopy
<1>5. copy' \in [columns -> Value]
  BY <1>1, <1>3, <1>4
<1>6. copy' \in PartialRows /\ "password" \notin DOMAIN copy'
  BY <1>1, <1>5, PartialRow
<1>7. CASE kind[r] = "login"
  BY <1>6, <1>7, AnswerKeeps DEF FillCopy
<1>8. CASE kind[r] # "login"
  <2>1. /\ Goto(r, "handle")
        /\ UNCHANGED <<user, bound, dirty, row, kind, histories>>
    BY <1>8 DEF FillCopy
  <2>2. /\ pc'[r] = "handle"
        /\ \A q \in Request \ {r} : pc'[q] = pc[q]
    BY <2>1 DEF Goto, IInv, TypeOK
  <2>3. TypeOK'
    BY <1>6, <2>1 DEF Goto, IInv, TypeOK, histories
  <2>4. PasswordInv'
    BY <1>6, <2>1, <2>2 DEF IInv, PasswordInv
  <2>5. pc[r] = "read"
    BY DEF FillCopy
  <2>6. WriterInv'
    BY <1>2, <2>1, <2>2, <2>5 DEF IInv, WriterInv, WritesOwn
  <2>7. PasswordIsLastAcked'
    BY <2>1 DEF IInv, PasswordIsLastAcked, histories
  <2> QED BY <2>3, <2>4, <2>6, <2>7 DEF IInv
<1> QED BY <1>7, <1>8

LEMMA EditProfileKeeps ==
    ASSUME IInv, NEW r \in Request, EditProfile(r)
    PROVE  IInv'
<1> DEFINE columns == IF kind[r] = "profile"
                      THEN OnTop(Change("name", r), Merged(r)) ELSE Merged(r)
<1>1. /\ Merged(r) \in PartialRows
      /\ r \notin bound => "password" \notin DOMAIN Merged(r)
      /\ r \in bound => DOMAIN Merged(r) = {}
  BY MergedFacts DEF IInv, PasswordInv
<1>2. /\ Change("name", r) \in PartialRows
      /\ DOMAIN Change("name", r) = {"name"}
  BY ChangeFacts DEF Column, Value
<1>3. columns \in PartialRows /\ DOMAIN columns \subseteq {"name"} \cup DOMAIN Merged(r)
  BY <1>1, <1>2, OnTopFacts
<1>4. /\ pc[r] = "handle" /\ kind[r] \in Merging /\ kind[r] # "password"
      /\ Write(r, columns) /\ UNCHANGED <<row, copy, kind, user, bound, histories>>
  BY DEF EditProfile, Merging
<1>5. "password" \notin DOMAIN columns
  BY <1>1, <1>3
<1>6. \A c \in {"role", "active", "key"} : c \in DOMAIN columns => r \notin bound
  BY <1>1, <1>3
<1> HIDE DEF columns
<1> QED BY <1>3, <1>4, <1>5, <1>6, WriteKeeps

\* A handler that changes one column keeps the invariant when the change is its own.
LEMMA ChangeKeeps ==
    ASSUME IInv, NEW r \in Request, NEW c \in Column, Write(r, Change(c, r)),
           pc[r] = "handle", UNCHANGED <<row, copy, kind, user, bound, histories>>,
           c = "password" <=> kind[r] = "password",
           c \in {"role", "active"} => kind[r] \in ByAdmin /\ r \in bound,
           c = "key" => kind[r] = "key" /\ r \in bound
    PROVE  IInv'
<1> DEFINE columns == Change(c, r)
<1>1. columns \in PartialRows /\ DOMAIN columns = {c} /\ columns[c] = r /\ Write(r, columns)
  BY ChangeFacts DEF Value
<1> HIDE DEF columns
<1>2. "password" \in DOMAIN columns <=> kind[r] = "password"
  BY <1>1
<1>3. \A d \in {"role", "active", "key"} : d \in DOMAIN columns =>
         /\ kind[r] \in IF d = "key" THEN {"key"} ELSE ByAdmin
         /\ r \in bound /\ columns[d] = r
  BY <1>1
<1>4. kind[r] = "password" => columns["password"] = r
  BY <1>1, <1>2
<1> QED BY <1>1, <1>2, <1>3, <1>4, WriteKeeps

LEMMA EditColumnKeeps ==
    ASSUME IInv, NEW r \in Request, EditColumn(r)
    PROVE  IInv'
<1>1. r \in Value /\ {"name", "role", "active"} \subseteq Column
  BY DEF Value, Column
<1>2. /\ pc[r] = "handle" /\ UNCHANGED <<row, copy, kind, user, bound, histories>>
      /\ kind[r] \in ByAdmin => r \in bound
  BY DEF EditColumn, IInv, WriterInv
<1>3. CASE kind[r] = "auth_profile" /\ Write(r, Change("name", r))
  BY <1>1, <1>2, <1>3, ChangeKeeps
<1>4. CASE kind[r] = "set_role" /\ Write(r, Change("role", r))
  BY <1>1, <1>2, <1>4, ChangeKeeps DEF ByAdmin
<1>5. CASE kind[r] = "deactivate" /\ Write(r, Change("active", r))
  BY <1>1, <1>2, <1>5, ChangeKeeps DEF ByAdmin
<1> QED BY <1>3, <1>4, <1>5 DEF EditColumn

LEMMA ChangePasswordKeeps ==
    ASSUME IInv, NEW r \in Request, ChangePassword(r)
    PROVE  IInv'
<1>1. r \in Value /\ "password" \in Column
  BY DEF Value, Column
<1>2. /\ pc[r] = "handle" /\ kind[r] = "password" /\ Write(r, Change("password", r))
      /\ UNCHANGED <<row, copy, kind, user, bound, histories>>
  BY DEF ChangePassword
<1> QED BY <1>1, <1>2, ChangeKeeps

LEMMA GenerateKeyKeeps ==
    ASSUME IInv, NEW r \in Request, GenerateKey(r)
    PROVE  IInv'
<1>1. r \in Value /\ "key" \in Column
  BY DEF Value, Column
<1>2. /\ pc[r] = "handle" /\ kind[r] = "key"
      /\ UNCHANGED <<row, copy, kind, user, bound, histories>>
  BY DEF GenerateKey
<1>3. CASE r \in bound /\ Write(r, Change("key", r))
  BY <1>1, <1>2, <1>3, ChangeKeeps
<1>4. CASE r \notin bound /\ Write(r, NoColumns)
  BY <1>2, <1>4, NoColumnsType, WriteKeeps
<1> QED BY <1>3, <1>4 DEF GenerateKey

LEMMA ReadersKeep ==
    ASSUME IInv, NEW r \in Request, RefusePassword(r) \/ FailCommit(r)
    PROVE  IInv'
<1>1. copy \in PartialRows /\ "password" \notin DOMAIN copy
  BY DEF IInv, TypeOK, PasswordInv
<1> QED BY <1>1, AnswerKeeps DEF RefusePassword, FailCommit

\* A commit stores a password only for a change of it, which is then the acknowledged
\* one or one of the lost.
LEMMA CommitKeeps ==
    ASSUME IInv, NEW r \in Request, Commit(r) \/ CommitThenFail(r)
    PROVE  IInv'
<1>1. PICK outcome \in {"ok", "error"} : Answer(r, outcome)
  BY DEF Commit, CommitThenFail
<1>2. /\ pc[r] = "commit" /\ row' = OnTop(dirty[r], row)
      /\ UNCHANGED <<copy, kind>>
      /\ acked' \in {acked, r} /\ lost' \in {lost, {}, lost \cup {r}}
  BY DEF Commit, CommitThenFail
<1>3. dirty[r] \in PartialRows /\ DOMAIN dirty[r] \subseteq Column
  BY PartialRowFacts DEF IInv, TypeOK
<1>4. /\ row' \in PartialRows /\ DOMAIN row' = Column
      /\ \A c \in DOMAIN dirty[r] : row'[c] = dirty[r][c]
      /\ \A c \in Column \ DOMAIN dirty[r] : row'[c] = row[c]
  BY <1>2, <1>3, RowType, OnTopFacts DEF IInv
<1>5. row' \in [Column -> Value]
  BY <1>4, PartialRowFacts
<1>6. TypeOK'
  BY <1>1, <1>2, <1>5, AnswerFacts DEF IInv, TypeOK, Value
<1>7. PasswordInv'
  BY <1>1, <1>2, AnswerFacts DEF IInv, PasswordInv
<1>8. WriterInv'
  BY <1>1, <1>2, AnswerFacts DEF IInv, WriterInv, WritesOwn
<1>9. PasswordIsLastAcked'
  <2>1. CASE kind[r] = "password"
    <3>1. row'["password"] = r
      BY <1>2, <1>4, <2>1 DEF IInv, PasswordInv
    <3>2. r \in {acked'} \cup lost'
      BY <2>1 DEF Commit, CommitThenFail
    <3> QED BY <3>1, <3>2 DEF PasswordIsLastAcked
  <2>2. CASE kind[r] # "password"
    <3>1. row'["password"] = row["password"]
      BY <1>4, <2>2 DEF IInv, PasswordInv, Column
    <3>2. acked' = acked /\ lost' = lost
      BY <2>2 DEF Commit, CommitThenFail
    <3> QED BY <3>1, <3>2 DEF IInv, PasswordIsLastAcked
  <2> QED BY <2>1, <2>2
<1> QED BY <1>6, <1>7, <1>8, <1>9 DEF IInv

LEMMA ExpireCopyKeeps == ASSUME IInv, ExpireCopy PROVE IInv'
<1>1. TypeOK'
  BY NoColumnsType DEF ExpireCopy, IInv, TypeOK, histories
<1>2. PasswordInv' /\ WriterInv'
  BY NoColumnsType DEF ExpireCopy, IInv, PasswordInv, WriterInv, WritesOwn
<1>3. PasswordIsLastAcked'
  BY DEF ExpireCopy, IInv, PasswordIsLastAcked, histories
<1> QED BY <1>1, <1>2, <1>3 DEF IInv

LEMMA StutterKeeps == ASSUME IInv, UNCHANGED vars PROVE IInv'
<1>1. UNCHANGED <<row, copy, pc, kind, user, bound, dirty, acked, lost>>
  BY DEF vars, histories
<1>2. TypeOK'
  BY <1>1 DEF IInv, TypeOK
<1>3. PasswordInv' /\ WriterInv' /\ PasswordIsLastAcked'
  BY <1>1 DEF IInv, PasswordInv, WriterInv, WritesOwn, PasswordIsLastAcked
<1> QED BY <1>2, <1>3 DEF IInv

LEMMA AccountsNextInv == IInv /\ [Next]_vars => IInv'
<1> SUFFICES ASSUME IInv, [Next]_vars PROVE IInv'
  OBVIOUS
<1>1. CASE UNCHANGED vars
  BY <1>1, StutterKeeps
<1>2. CASE ExpireCopy
  BY <1>2, ExpireCopyKeeps
<1>3. ASSUME NEW r \in Request, NEW k \in Kind,
             LoadFromCopy(r, k) \/ LoadFromRow(r, k) \/ LoadAsAdmin(r, k)
      PROVE  IInv'
  BY <1>3, LoadFromCopyKeeps, LoadFromRowKeeps, LoadAsAdminKeeps
<1>4. ASSUME NEW r \in Request,
             FillCopy(r) \/ EditProfile(r) \/ EditColumn(r) \/ ChangePassword(r)
             \/ GenerateKey(r)
      PROVE  IInv'
  BY <1>4, FillCopyKeeps, EditProfileKeeps, EditColumnKeeps, ChangePasswordKeeps,
     GenerateKeyKeeps
<1>5. ASSUME NEW r \in Request,
             RefusePassword(r) \/ FailCommit(r) \/ Commit(r) \/ CommitThenFail(r)
      PROVE  IInv'
  BY <1>5, ReadersKeep, CommitKeeps
<1> QED BY <1>1, <1>2, <1>3, <1>4, <1>5 DEF Next

\* The invariant holds in every reachable state, with any number of requests.
THEOREM AccountsInvariance == Spec => []IInv
  BY AccountsInitInv, AccountsNextInv, PTL DEF Spec

\* The row's password is the last one whose change was acknowledged or a later one
\* whose change was reported as failed, whatever stale copies profile edits and uploads
\* write back (users.py:726, auth_service.py:131).
THEOREM PasswordIsLastAckedHolds == Spec => []PasswordIsLastAcked
<1>1. IInv => PasswordIsLastAcked
  BY DEF IInv
<1> QED BY <1>1, AccountsInvariance, PTL

---------------------------------------------------------------------------
(* Who undoes an administrator's change *)

\* Only a commit changes the row.
LEMMA RowStep ==
    ASSUME Next, row' # row
    PROVE  \E r \in Request : Commit(r) \/ CommitThenFail(r)
  BY DEF Next, LoadFromCopy, LoadFromRow, LoadAsAdmin, FillCopy, EditProfile, EditColumn,
         ChangePassword, RefusePassword, GenerateKey, FailCommit, ExpireCopy

\* Role, status and key are changed by the requests that stand for their change, from
\* an object of their session, or by the merge of a copy (users.py:726).
THEOREM UndoneOnlyByStaleEditHolds == Spec => UndoneOnlyByStaleEdit
<1> DEFINE Undone(c) ==
        row'[c] # row[c] =>
          \E r \in Request :
              /\ pc[r] = "commit" /\ pc'[r] # "commit"
              /\ \/ /\ kind[r] \in IF c = "key" THEN {"key"} ELSE ByAdmin
                    /\ r \in bound /\ row'[c] = r
                 \/ kind[r] \in Merging /\ r \notin bound
<1>1. IInv /\ Next => \A c \in {"role", "active", "key"} : Undone(c)
  <2> SUFFICES ASSUME IInv, Next, NEW c \in {"role", "active", "key"}, row'[c] # row[c]
               PROVE  Undone(c)
    OBVIOUS
  <2>1. PICK r \in Request : Commit(r) \/ CommitThenFail(r)
    BY RowStep
  <2>2. PICK outcome \in {"ok", "error"} : Answer(r, outcome)
    BY <2>1 DEF Commit, CommitThenFail
  <2>3. pc[r] = "commit" /\ row' = OnTop(dirty[r], row)
    BY <2>1 DEF Commit, CommitThenFail
  <2>4. pc'[r] # "commit"
    BY <2>2, AnswerFacts DEF IInv
  <2>5. /\ \A d \in DOMAIN dirty[r] : row'[d] = dirty[r][d]
        /\ \A d \in Column \ DOMAIN dirty[r] : row'[d] = row[d]
    <3>1. dirty[r] \in PartialRows /\ row \in PartialRows /\ DOMAIN row = Column
      BY RowType DEF IInv, TypeOK
    <3> QED BY <2>3, <3>1, OnTopFacts
  <2>6. c \in DOMAIN dirty[r] /\ row'[c] = dirty[r][c]
    BY <2>5 DEF Column
  <2>7. WritesOwn(r, c)
    BY <2>6 DEF IInv, WriterInv
  <2> QED BY <2>3, <2>4, <2>6, <2>7 DEF WritesOwn
<1>2. IInv /\ [Next]_vars => [\A c \in {"role", "active", "key"} : Undone(c)]_vars
  BY <1>1
<1>3. []IInv /\ [][Next]_vars => [][\A c \in {"role", "active", "key"} : Undone(c)]_vars
  BY <1>2, PTL
<1> QED BY <1>3, AccountsInvariance DEF Spec, UndoneOnlyByStaleEdit

\* What the theorems say of the accounts, they say of Services.
LEMMA AccountsServe == ServicesSpec => []IInv
<1>1. ServicesInit => IInv
  BY AccountsInitInv DEF ServicesInit
<1>2. IInv /\ [ServicesNext]_servicesVars => IInv'
  <2> SUFFICES ASSUME IInv, [ServicesNext]_servicesVars
               PROVE  IInv'
    OBVIOUS
  <2>1. Next \/ UNCHANGED vars
    BY DEF ServicesNext, Still, servicesVars
  <2> QED BY <2>1, AccountsNextInv
<1> QED BY <1>1, <1>2, PTL DEF ServicesSpec

-----------------------------------------------------------------------------
(* The rate limiter *)

\* The cardinality of the instance is that of the library's theorems.
LEMMA LimitFinite ==
    \A S : Limiter!Cardinality(S) = Cardinality(S) /\ Limiter!IsFiniteSet(S) = IsFiniteSet(S)
<1>1. \A S : Limiter!IsFiniteSet(S) = IsFiniteSet(S)
  BY DEF Limiter!IsFiniteSet, IsFiniteSet
<1>2. \A S : Limiter!Cardinality(S) = Cardinality(S)
  BY DEF Limiter!Cardinality, Cardinality, Limiter!IsFiniteSet, IsFiniteSet
<1> QED BY <1>1, <1>2

LEMMA LimitSinceFinite ==
    ASSUME Limiter!RateLimitAssumption, NEW t \in Int
    PROVE  /\ IsFiniteSet(Limiter!RequestsSince(t))
           /\ Cardinality(Limiter!RequestsSince(t)) \in Nat
<1>1. IsFiniteSet(Limiter!Second) /\ IsFiniteSet(1 .. RatePerSecond)
  BY FS_Interval DEF Limiter!RateLimitAssumption, Limiter!Second
<1>2. IsFiniteSet(Limiter!Second \X (1 .. RatePerSecond))
  BY <1>1, FS_Product
<1>3. Limiter!RequestsSince(t) \in SUBSET (Limiter!Second \X (1 .. RatePerSecond))
  BY DEF Limiter!RequestsSince
<1> QED BY <1>2, <1>3, FS_Subset, FS_CardinalityType

\* A request more in the current second.
LEMMA LimitArriveAdds ==
    ASSUME Limiter!RateLimitAssumption, Limiter!TypeOK, Limiter!Arrive, NEW t \in Int,
           t <= rateNow
    PROVE  /\ Limiter!RequestsSince(t)' = Limiter!RequestsSince(t)
                \cup {<<rateNow, rateArrived[rateNow] + 1>>}
           /\ IsFiniteSet(Limiter!RequestsSince(t)')
           /\ Cardinality(Limiter!RequestsSince(t)') = Cardinality(Limiter!RequestsSince(t)) + 1
           /\ rateArrived' \in [Limiter!Second -> 0 .. RatePerSecond]
           /\ rateArrived'[rateNow] = rateArrived[rateNow] + 1
           /\ \A s \in Limiter!Second : rateArrived'[s] >= rateArrived[s]
<1> DEFINE new == <<rateNow, rateArrived[rateNow] + 1>>
<1>1. /\ rateNow \in Limiter!Second /\ rateArrived[rateNow] \in Nat
      /\ rateArrived[rateNow] < RatePerSecond
      /\ rateNow' = rateNow
      /\ rateArrived' \in [Limiter!Second -> 0 .. RatePerSecond]
      /\ rateArrived'[rateNow] = rateArrived[rateNow] + 1
      /\ \A s \in Limiter!Second \ {rateNow} : rateArrived'[s] = rateArrived[s]
      /\ \A s \in Limiter!Second : rateArrived[s] \in Nat /\ s \in Nat
      /\ RatePerSecond \in Nat
  BY DEF Limiter!Arrive, Limiter!TypeOK, Limiter!Second, Limiter!RateLimitAssumption
<1>2. new \in Limiter!RequestsSince(t)'
  BY <1>1 DEF Limiter!RequestsSince, Limiter!Second
<1>3. Limiter!RequestsSince(t) \subseteq Limiter!RequestsSince(t)'
  BY <1>1 DEF Limiter!RequestsSince
<1>4. ASSUME NEW a \in Limiter!RequestsSince(t)', a # new
      PROVE  a \in Limiter!RequestsSince(t)
  <2>1. a \in Limiter!Second \X (1 .. RatePerSecond) /\ a[1] \in t .. rateNow /\ a[2]
          <= rateArrived'[a[1]]
    BY <1>1 DEF Limiter!RequestsSince
  <2>2. a[2] <= rateArrived[a[1]]
    BY <1>1, <1>4, <2>1
  <2> QED BY <2>1, <2>2 DEF Limiter!RequestsSince
<1>5. new \notin Limiter!RequestsSince(t)
  BY <1>1 DEF Limiter!RequestsSince
<1>6. Limiter!RequestsSince(t)' = Limiter!RequestsSince(t) \cup {new}
  BY <1>2, <1>3, <1>4
<1>7. IsFiniteSet(Limiter!RequestsSince(t)) /\ Cardinality(Limiter!RequestsSince(t)) \in Nat
  BY LimitSinceFinite
<1>8. /\ IsFiniteSet(Limiter!RequestsSince(t) \cup {new})
      /\ Cardinality(Limiter!RequestsSince(t) \cup {new})
           = Cardinality(Limiter!RequestsSince(t)) + 1
  BY <1>5, <1>7, FS_AddElement
<1> QED BY <1>1, <1>6, <1>8

\* Fewer requests are counted from a later second on.
LEMMA LimitSinceMonotonic ==
    ASSUME Limiter!RateLimitAssumption, NEW t \in Int, NEW u \in Int, t <= u
    PROVE  Cardinality(Limiter!RequestsSince(u)) <= Cardinality(Limiter!RequestsSince(t))
<1>1. Limiter!RequestsSince(u) \subseteq Limiter!RequestsSince(t)
  BY DEF Limiter!RequestsSince, Limiter!Second, Limiter!RateLimitAssumption
<1>2. IsFiniteSet(Limiter!RequestsSince(t))
  BY LimitSinceFinite
<1> QED BY <1>1, <1>2, FS_Subset

LEMMA LimitInitInv ==
    ASSUME Limiter!RateLimitAssumption, Limiter!Init
    PROVE  Limiter!IInv
<1>1. Limiter!TypeOK
  <2>1. rateRefused \in BOOLEAN
    BY Zenon DEF Limiter!Init
  <2>2. 0 \in Limiter!Second /\ 0 \in 0 .. RatePerSecond
    BY DEF Limiter!Second, Limiter!RateLimitAssumption
  <2> QED BY <2>1, <2>2 DEF Limiter!Init, Limiter!TypeOK
<1>2. Limiter!MembersInv /\ Limiter!RefusedOnlyAboveLimit
  BY LimitFinite DEF Limiter!Init, Limiter!MembersInv, Limiter!RefusedOnlyAboveLimit
<1>3. Limiter!CounterInv
  BY LimitSinceFinite, LimitFinite DEF Limiter!Init, Limiter!CounterInv
<1> QED BY <1>1, <1>2, <1>3 DEF Limiter!IInv

LEMMA LimitTickKeeps ==
    ASSUME Limiter!RateLimitAssumption, Limiter!IInv, Limiter!Tick
    PROVE  Limiter!IInv'
<1>1. /\ rateNow \in Nat /\ rateNow' = rateNow + 1 /\ rateNow' \in Limiter!Second
      /\ rateRefused' = FALSE
      /\ UNCHANGED <<rateMembers, rateWindow, rateCounter, rateArrived>> /\ rateWindow \in Int
      /\ rateCounter \in Nat
  BY DEF Limiter!IInv, Limiter!Tick, Limiter!TypeOK, Limiter!Second, Limiter!RateLimitAssumption
<1>2. Limiter!TypeOK'
  BY <1>1 DEF Limiter!IInv, Limiter!TypeOK
<1>3. Limiter!MembersInv' /\ Limiter!RefusedOnlyAboveLimit'
  <2>1. \A t \in rateMembers : t \in Nat /\ t <= rateNow
    BY DEF Limiter!IInv, Limiter!TypeOK, Limiter!MembersInv, Limiter!Second,
         Limiter!RateLimitAssumption
  <2>2. Limiter!MembersInv'
    BY <1>1, <2>1 DEF Limiter!IInv, Limiter!MembersInv
  <2>3. Limiter!RefusedOnlyAboveLimit'
    BY <1>1, LimitFinite DEF Limiter!RefusedOnlyAboveLimit
  <2> QED BY <2>2, <2>3
<1>4. Limiter!CounterInv'
  <2>1. Limiter!RequestsSince(rateWindow) \subseteq Limiter!RequestsSince(rateWindow)'
    BY <1>1 DEF Limiter!RequestsSince, Limiter!Second, Limiter!RateLimitAssumption
  <2>2. IsFiniteSet(Limiter!RequestsSince(rateWindow)')
        /\ Cardinality(Limiter!RequestsSince(rateWindow)') \in Nat
    <3>1. IsFiniteSet(Limiter!Second) /\ IsFiniteSet(1 .. RatePerSecond)
      BY FS_Interval DEF Limiter!RateLimitAssumption, Limiter!Second
    <3>2. IsFiniteSet(Limiter!Second \X (1 .. RatePerSecond))
      BY <3>1, FS_Product
    <3>3. Limiter!RequestsSince(rateWindow)' \in SUBSET (Limiter!Second \X (1 .. RatePerSecond))
      BY DEF Limiter!RequestsSince
    <3> QED BY <3>2, <3>3, FS_Subset, FS_CardinalityType
  <2>3. Cardinality(Limiter!RequestsSince(rateWindow))
          <= Cardinality(Limiter!RequestsSince(rateWindow)')
    BY <2>1, <2>2, FS_Subset
  <2>4. Cardinality(Limiter!RequestsSince(rateWindow)) \in Nat
    BY <1>1, LimitSinceFinite
  <2> QED BY <1>1, <2>2, <2>3, <2>4, LimitFinite DEF Limiter!IInv, Limiter!CounterInv
<1> QED BY <1>2, <1>3, <1>4 DEF Limiter!IInv

\* The windows of the counter in memory are no longer than the sliding ones.
LEMMA LimitMemoryKeeps ==
    ASSUME Limiter!RateLimitAssumption, Limiter!IInv, Limiter!CountInMemory
    PROVE  Limiter!IInv'
<1>1. /\ rateNow \in Limiter!Second /\ rateNow \in Nat /\ WindowSeconds \in Nat \ {0}
      /\ rateCounter \in Nat
      /\ rateWindow \in Limiter!Second \cup {-1} /\ RequestsPerWindow \in Nat
  BY DEF Limiter!IInv, Limiter!TypeOK, Limiter!Second, Limiter!RateLimitAssumption
<1>2. rateNow % WindowSeconds \in 0 .. WindowSeconds - 1 /\ rateNow % WindowSeconds <= rateNow
  BY <1>1
<1>3. /\ rateWindow' = rateNow - (rateNow % WindowSeconds)
      /\ rateWindow' \in 0 .. rateNow /\ rateWindow' >= rateNow - WindowSeconds + 1
  BY <1>1, <1>2 DEF Limiter!CountInMemory
<1>4. /\ UNCHANGED <<rateMembers, rateNow>> /\ Limiter!Arrive
      /\ rateCounter' = IF rateWindow = rateWindow' THEN rateCounter + 1 ELSE 1
  BY DEF Limiter!CountInMemory, Limiter!Arrive
<1>r. rateRefused' \in BOOLEAN /\ (rateRefused' => rateCounter' > RequestsPerWindow)
  <2>1. rateRefused' = (rateCounter' > RequestsPerWindow)
    BY Zenon DEF Limiter!CountInMemory
  <2>2. (rateCounter' > RequestsPerWindow) \in BOOLEAN
    BY SMT
  <2>3. rateRefused' \in BOOLEAN
    BY <2>1, <2>2, Zenon
  <2>4. rateRefused' => rateCounter' > RequestsPerWindow
    BY <2>1, Zenon
  <2> QED BY <2>3, <2>4
<1>5. /\ IsFiniteSet(Limiter!RequestsSince(rateWindow))
      /\ Cardinality(Limiter!RequestsSince(rateWindow)) \in Nat
  BY <1>1, LimitSinceFinite DEF Limiter!Second
<1> DEFINE begin == rateNow - (rateNow % WindowSeconds)
<1> DEFINE early == rateNow - WindowSeconds + 1
<1>6. /\ begin \in Int /\ begin <= rateNow /\ early \in Int /\ early <= begin
      /\ rateWindow' = begin /\ early' = early /\ begin' = begin /\ early <= rateNow
  BY <1>1, <1>2, <1>3, <1>4
<1> HIDE DEF begin, early
<1>7. /\ Cardinality(Limiter!RequestsSince(begin)) \in Nat
      /\ Cardinality(Limiter!RequestsSince(early)) \in Nat
      /\ Cardinality(Limiter!RequestsSince(begin)) <= Cardinality(Limiter!RequestsSince(early))
  BY <1>6, LimitSinceFinite, LimitSinceMonotonic
<1>8. Cardinality(Limiter!RequestsSince(begin)') = Cardinality(Limiter!RequestsSince(begin)) + 1
  BY <1>4, <1>6, LimitArriveAdds DEF Limiter!IInv
<1>9. Cardinality(Limiter!RequestsSince(early)') = Cardinality(Limiter!RequestsSince(early)) + 1
  BY <1>4, <1>6, LimitArriveAdds DEF Limiter!IInv
<1>10. rateCounter' \in Nat /\ rateCounter' <= Cardinality(Limiter!RequestsSince(begin)) + 1
  <2>1. CASE rateWindow = rateWindow'
    <3>1. rateWindow = begin /\ rateCounter' = rateCounter + 1
      BY <2>1, <1>4, <1>6
    <3>2. rateCounter <= Cardinality(Limiter!RequestsSince(rateWindow))
      BY LimitFinite DEF Limiter!IInv, Limiter!CounterInv
    <3>3. rateCounter <= Cardinality(Limiter!RequestsSince(begin))
      BY <3>1, <3>2
    <3> QED BY <1>1, <1>7, <3>1, <3>3
  <2>2. CASE rateWindow # rateWindow'
    BY <2>2, <1>4, <1>7
  <2> QED BY <2>1, <2>2
<1>11. /\ rateArrived' \in [Limiter!Second -> 0 .. RatePerSecond]
       /\ \A s \in Limiter!Second : rateArrived'[s] >= rateArrived[s]
  BY <1>4, <1>6, LimitArriveAdds DEF Limiter!IInv
<1>12. Limiter!TypeOK'
  <2>1. rateWindow' \in Limiter!Second
    BY <1>1, <1>3 DEF Limiter!Second, Limiter!RateLimitAssumption
  <2>2. rateRefused' \in BOOLEAN
    BY <1>r
  <2> QED BY <1>4, <1>10, <1>11, <2>1, <2>2 DEF Limiter!IInv, Limiter!TypeOK
<1>13. Limiter!MembersInv'
  <2>1. \A s \in Limiter!Second : rateArrived[s] \in Nat /\ rateArrived'[s] \in Nat
    BY <1>11 DEF Limiter!IInv, Limiter!TypeOK, Limiter!RateLimitAssumption
  <2> QED BY <1>4, <1>11, <2>1 DEF Limiter!IInv, Limiter!MembersInv, Limiter!TypeOK
<1>14. Limiter!CounterInv'
  <2>1. Limiter!RequestsSince(rateWindow)' = Limiter!RequestsSince(begin)'
    BY <1>4, <1>6 DEF Limiter!RequestsSince
  <2> QED BY <1>3, <1>4, <1>8, <1>10, <2>1, LimitFinite DEF Limiter!CounterInv
<1>15. Limiter!RefusedOnlyAboveLimit'
  <2>1. Limiter!RequestsSince(rateNow - WindowSeconds + 1)' = Limiter!RequestsSince(early)'
    BY <1>4, <1>6 DEF Limiter!RequestsSince, early
  <2>2. ASSUME rateRefused'
        PROVE  Cardinality(Limiter!RequestsSince(early)') > RequestsPerWindow
    BY <1>1, <1>r, <1>7, <1>9, <1>10, <2>2
  <2> QED BY <2>1, <2>2, LimitFinite DEF Limiter!RefusedOnlyAboveLimit
<1> QED BY <1>12, <1>13, <1>14, <1>15 DEF Limiter!IInv

\* Each member of the sorted set is a second with a request, and the one that is
\* refused is one more.
LEMMA LimitKeptAreRequests ==
    ASSUME Limiter!RateLimitAssumption, Limiter!TypeOK, Limiter!MembersInv, Limiter!Arrive,
           NEW t \in Int, t <= rateNow,
           NEW kept, kept \subseteq {s \in rateMembers : s >= t}, \A s \in kept : s <= rateNow
    PROVE  /\ Cardinality(kept) \in Nat
           /\ Cardinality(Limiter!RequestsSince(t)') >= Cardinality(kept) + 1
<1> DEFINE new == <<rateNow, rateArrived[rateNow] + 1>>
           f == [s \in kept |-> <<s, 1>>]
           firsts == {<<s, 1>> : s \in kept}
<1>1. /\ Limiter!RequestsSince(t)' = Limiter!RequestsSince(t) \cup {new}
      /\ IsFiniteSet(Limiter!RequestsSince(t)')
  BY LimitArriveAdds
<1>2. IsFiniteSet(kept) /\ Cardinality(kept) \in Nat
  <2>1. kept \in SUBSET Limiter!Second /\ IsFiniteSet(Limiter!Second)
    BY FS_Interval DEF Limiter!TypeOK, Limiter!Second, Limiter!RateLimitAssumption
  <2> QED BY <2>1, FS_Subset, FS_CardinalityType
<1>3. f \in Bijection(kept, firsts)
  BY DEF Bijection, Injection, Surjection, IsInjective
<1>4. IsFiniteSet(firsts) /\ Cardinality(firsts) = Cardinality(kept)
  BY <1>2, <1>3, FS_Bijection DEF ExistsBijection
<1>5. firsts \subseteq Limiter!RequestsSince(t)
  <2> SUFFICES ASSUME NEW s \in kept
               PROVE  <<s, 1>> \in Limiter!RequestsSince(t)
    OBVIOUS
  <2>1. s \in Limiter!Second /\ s \in t .. rateNow /\ rateArrived[s] \in 1 .. RatePerSecond
    BY DEF Limiter!TypeOK, Limiter!MembersInv, Limiter!Second, Limiter!RateLimitAssumption
  <2> QED BY <2>1 DEF Limiter!RequestsSince, Limiter!RateLimitAssumption
<1>6. new \notin firsts
  <2> SUFFICES ASSUME NEW s \in kept, new = <<s, 1>>
               PROVE  FALSE
    OBVIOUS
  <2>1. s = rateNow /\ rateArrived[rateNow] + 1 = 1
    OBVIOUS
  <2>2. rateArrived[rateNow] > 0 /\ rateArrived[rateNow] \in Nat
    BY <2>1 DEF Limiter!MembersInv, Limiter!TypeOK, Limiter!RateLimitAssumption
  <2> QED BY <2>1, <2>2
<1>7. /\ IsFiniteSet(firsts \cup {new})
      /\ Cardinality(firsts \cup {new}) = Cardinality(kept) + 1
  BY <1>4, <1>6, FS_AddElement
<1>8. firsts \cup {new} \in SUBSET (Limiter!RequestsSince(t)')
  BY <1>1, <1>5
<1>9. Cardinality(firsts \cup {new}) <= Cardinality(Limiter!RequestsSince(t)')
  BY <1>1, <1>8, FS_Subset
<1>10. Cardinality(Limiter!RequestsSince(t)') \in Nat
  BY <1>1, FS_CardinalityType
<1> QED BY <1>2, <1>7, <1>9, <1>10

LEMMA LimitRedisKeeps ==
    ASSUME Limiter!RateLimitAssumption, Limiter!IInv, Limiter!CountInRedis
    PROVE  Limiter!IInv'
<1> DEFINE kept == {s \in rateMembers : Limiter!InWindow(s)}
           early == rateNow - WindowSeconds + 1
<1>1. /\ rateNow \in Limiter!Second /\ rateNow \in Nat /\ WindowSeconds \in Nat \ {0}
      /\ rateCounter \in Nat
      /\ rateWindow \in Int /\ RequestsPerWindow \in Nat /\ rateWindow <= rateNow
      /\ rateMembers \subseteq Limiter!Second /\ (\A s \in rateMembers : s <= rateNow)
         /\ early \in Int /\ early <= rateNow
  BY LimitFinite DEF Limiter!IInv, Limiter!TypeOK, Limiter!Second, Limiter!RateLimitAssumption,
       Limiter!CounterInv, Limiter!MembersInv
<1>2. /\ UNCHANGED <<rateNow, rateWindow, rateCounter>> /\ Limiter!Arrive
      /\ rateMembers' = kept \cup {rateNow}
  BY LimitFinite DEF Limiter!CountInRedis, Limiter!Arrive
<1>r. rateRefused' \in BOOLEAN /\ (rateRefused' => Cardinality(kept) + 1 > RequestsPerWindow)
  <2>1. rateRefused' = (Cardinality(kept) + 1 > RequestsPerWindow)
    BY Zenon, LimitFinite DEF Limiter!CountInRedis
  <2>2. (Cardinality(kept) + 1 > RequestsPerWindow) \in BOOLEAN
    BY SMT
  <2>3. rateRefused' \in BOOLEAN
    BY <2>1, <2>2, Zenon
  <2>4. rateRefused' => Cardinality(kept) + 1 > RequestsPerWindow
    BY <2>1, Zenon
  <2> QED BY <2>3, <2>4
<1>3. kept \subseteq {s \in rateMembers : s >= early}
  <2> SUFFICES ASSUME NEW s \in rateMembers, s > rateNow - WindowSeconds
               PROVE  s >= rateNow - WindowSeconds + 1
    BY DEF Limiter!InWindow
  <2>1. s \in Int
    BY <1>1 DEF Limiter!Second, Limiter!RateLimitAssumption
  <2> QED BY <1>1, <2>1
<1>e. early' = early /\ rateWindow' = rateWindow /\ \A s \in kept : s <= rateNow
  BY <1>1, <1>2
<1> HIDE DEF kept, early
<1>4. /\ Cardinality(kept) \in Nat
      /\ Cardinality(Limiter!RequestsSince(early)') >= Cardinality(kept) + 1
  BY <1>1, <1>2, <1>3, <1>e, LimitKeptAreRequests DEF Limiter!IInv
<1>5. /\ rateArrived' \in [Limiter!Second -> 0 .. RatePerSecond]
      /\ \A s \in Limiter!Second : rateArrived'[s] >= rateArrived[s]
      /\ rateArrived'[rateNow] = rateArrived[rateNow] + 1
      /\ Cardinality(Limiter!RequestsSince(rateWindow)')
           = Cardinality(Limiter!RequestsSince(rateWindow)) + 1
      /\ Cardinality(Limiter!RequestsSince(early)')
           = Cardinality(Limiter!RequestsSince(early)) + 1
  BY <1>1, <1>2, <1>e, LimitArriveAdds DEF Limiter!IInv
<1>6. Limiter!TypeOK'
  <2>1. rateMembers' \subseteq Limiter!Second /\ rateRefused' \in BOOLEAN
    BY <1>1, <1>2, <1>r DEF kept
  <2> QED BY <1>2, <1>5, <2>1 DEF Limiter!IInv, Limiter!TypeOK
<1>7. Limiter!MembersInv'
  <2>1. \A s \in Limiter!Second : rateArrived[s] \in Nat /\ rateArrived'[s] \in Nat
    BY <1>5 DEF Limiter!IInv, Limiter!TypeOK, Limiter!RateLimitAssumption
  <2> QED BY <1>1, <1>2, <1>5, <2>1 DEF Limiter!IInv, Limiter!MembersInv, kept
<1>8. Limiter!CounterInv'
  <2>1. Cardinality(Limiter!RequestsSince(rateWindow)) \in Nat
    BY <1>1, LimitSinceFinite
  <2>2. Limiter!RequestsSince(rateWindow)' = {a \in Limiter!Second \X (1 .. RatePerSecond) : a[1] \in rateWindow .. rateNow /\ a[2] <= rateArrived'[a[1]]}
    BY <1>2 DEF Limiter!RequestsSince
  <2> QED BY <1>1, <1>2, <1>5, <2>1, LimitFinite DEF Limiter!IInv, Limiter!CounterInv
<1>9. Limiter!RefusedOnlyAboveLimit'
  <2>1. Limiter!RequestsSince(rateNow - WindowSeconds + 1)' = Limiter!RequestsSince(early)'
    BY <1>2 DEF Limiter!RequestsSince, early
  <2>2. Cardinality(Limiter!RequestsSince(early)) \in Nat
    BY <1>1, LimitSinceFinite
  <2>3. ASSUME rateRefused'
        PROVE  Cardinality(Limiter!RequestsSince(early)') > RequestsPerWindow
    BY <1>1, <1>r, <1>4, <1>5, <2>2, <2>3
  <2> QED BY <2>1, <2>3, LimitFinite DEF Limiter!RefusedOnlyAboveLimit
<1> QED BY <1>6, <1>7, <1>8, <1>9 DEF Limiter!IInv

LEMMA LimitNextInv ==
    ASSUME Limiter!RateLimitAssumption
    PROVE  Limiter!IInv /\ [Limiter!Next]_Limiter!vars => Limiter!IInv'
<1> SUFFICES ASSUME Limiter!IInv, [Limiter!Next]_Limiter!vars
             PROVE  Limiter!IInv'
  OBVIOUS
<1>1. CASE UNCHANGED Limiter!vars
  BY <1>1, LimitFinite DEF Limiter!vars, Limiter!IInv, Limiter!TypeOK, Limiter!MembersInv,
       Limiter!CounterInv, Limiter!RefusedOnlyAboveLimit, Limiter!RequestsSince
<1> QED BY <1>1, LimitMemoryKeeps, LimitRedisKeeps, LimitTickKeeps DEF Limiter!Next

LEMMA LimitInvProperty ==
    ASSUME Limiter!IInv
    PROVE  Limiter!RefusedOnlyAboveLimit
  BY DEF Limiter!IInv

LEMMA LimitInvariance == ServicesSpec => []Limiter!IInv
<1>1. ServicesInit => Limiter!IInv
  BY LimitInitInv, ServicesAssumption DEF ServicesInit, ServicesAssumption
<1>2. Limiter!IInv /\ [ServicesNext]_servicesVars => Limiter!IInv'
  <2> SUFFICES ASSUME Limiter!IInv, [ServicesNext]_servicesVars
               PROVE  Limiter!IInv'
    OBVIOUS
  <2>1. Limiter!Next \/ UNCHANGED rateVars
    BY DEF ServicesNext, Still, servicesVars
  <2>2. [Limiter!Next]_Limiter!vars
    BY <2>1 DEF rateVars, Limiter!vars
  <2>3. Limiter!RateLimitAssumption
    BY ServicesAssumption DEF ServicesAssumption
  <2> QED BY <2>2, <2>3, LimitNextInv
<1> QED BY <1>1, <1>2, PTL DEF ServicesSpec

\* No request is refused unless more than the limit arrived within a window, for
\* every limit and window, however often Redis fails and comes back.
THEOREM RefusedOnlyAboveLimitHolds == ServicesSpec => []RefusedOnlyAboveLimit
<1>1. Limiter!IInv => RefusedOnlyAboveLimit
  BY LimitInvProperty, ServicesAssumption DEF RefusedOnlyAboveLimit, ServicesAssumption
<1> QED BY <1>1, LimitInvariance, PTL

-----------------------------------------------------------------------------
(* Notifications *)

\* The cardinality of the instance is that of the library's theorems.
LEMMA NoticeFinite ==
    \A S : Notices!Cardinality(S) = Cardinality(S) /\ Notices!IsFiniteSet(S) = IsFiniteSet(S)
<1>1. \A S : Notices!IsFiniteSet(S) = IsFiniteSet(S)
  BY DEF Notices!IsFiniteSet, IsFiniteSet
<1>2. \A S : Notices!Cardinality(S) = Cardinality(S)
  BY DEF Notices!Cardinality, Cardinality, Notices!IsFiniteSet, IsFiniteSet
<1> QED BY <1>1, <1>2

LEMMA NoticeInitInv == Notices!Init => Notices!IInv
<1> SUFFICES ASSUME Notices!Init PROVE Notices!IInv
  OBVIOUS
<1>1. Notices!TypeOK
  BY DEF Notices!Init, Notices!TypeOK
<1>2. IsFiniteSet(noteConns) /\ Cardinality(noteConns) = 0
  BY FS_EmptySet DEF Notices!Init
<1>3. Notices!SocketInv /\ Notices!SocketsCounted
  BY <1>2, NoticeFinite DEF Notices!Init, Notices!SocketInv, Notices!SocketsCounted
<1>4. Notices!RaceInv /\ Notices!DuplicateOnlyByRace
  BY DEF Notices!Init, Notices!RaceInv, Notices!DuplicateOnlyByRace
<1> QED BY <1>1, <1>3, <1>4 DEF Notices!IInv, Notices!NoticesAgree

-----------------------------------------------------------------------------
(* Calls and rows *)

\* What a call of create_notification, time and deletion do: nothing to the sockets and
\* what is counted about them, except that a push may disconnect.
LEMMA NoticeCallType ==
    ASSUME Notices!TypeOK, NEW r \in Client,
           \/ Notices!LookForRecent(r) \/ Notices!Insert(r) \/ Notices!Refresh(r)
           \/ Notices!Push(r) \/ Notices!Age(r) \/ Notices!Delete(r)
    PROVE  Notices!TypeOK' /\ UNCHANGED <<Notices!sockets, Notices!stats>>
  BY DEF Notices!LookForRecent, Notices!Insert, Notices!Refresh, Notices!Push, Notices!Age,
       Notices!Delete, Notices!Goto, Notices!TypeOK, Notices!sockets, Notices!stats

\* A row becomes recent only when it is inserted, and then every other call about to
\* insert is noted as one that looked too early.
LEMMA NoticeCallRaces ==
    ASSUME Notices!TypeOK, Notices!RaceInv, Notices!DuplicateOnlyByRace, NEW r \in Client,
           \/ Notices!LookForRecent(r) \/ Notices!Insert(r) \/ Notices!Refresh(r)
           \/ Notices!Push(r) \/ Notices!Age(r) \/ Notices!Delete(r)
    PROVE  Notices!RaceInv' /\ Notices!DuplicateOnlyByRace'
<1>1. CASE Notices!LookForRecent(r)
  <2>1. UNCHANGED <<noteRow, noteRaced>> /\ \A q \in Client \ {r} : notePc'[q] = notePc[q]
    BY <1>1 DEF Notices!LookForRecent, Notices!Goto, Notices!TypeOK
  <2>2. notePc[r] = "idle"
    BY <1>1 DEF Notices!LookForRecent
  <2>3. notePc'[r] = "insert" => ~\E q \in Client : noteRow[q] = "recent"
    BY <1>1 DEF Notices!LookForRecent, Notices!Goto, Notices!TypeOK
  <2> QED BY <2>1, <2>2, <2>3 DEF Notices!RaceInv, Notices!DuplicateOnlyByRace
<1>2. CASE Notices!Insert(r)
  <2>1. /\ notePc[r] = "insert" /\ notePc'[r] = "refresh"
        /\ \A q \in Client \ {r} : notePc'[q] = notePc[q] /\ noteRow'[q] = noteRow[q]
        /\ noteRow'[r] = "recent"
        /\ noteRaced' = noteRaced \cup {q \in Client : notePc[q] = "insert" /\ q # r}
    BY <1>2 DEF Notices!Insert, Notices!Goto, Notices!TypeOK
  <2>2. Notices!RaceInv'
    BY <2>1 DEF Notices!RaceInv
  <2>3. Notices!DuplicateOnlyByRace'
    BY <2>1 DEF Notices!RaceInv, Notices!DuplicateOnlyByRace
  <2> QED BY <2>2, <2>3
<1>3. CASE Notices!Refresh(r) \/ Notices!Push(r)
  <2>1. /\ UNCHANGED <<noteRow, noteRaced>> /\ notePc'[r] \notin {"idle", "insert"}
        /\ \A q \in Client \ {r} : notePc'[q] = notePc[q]
    BY <1>3 DEF Notices!Refresh, Notices!Push, Notices!Goto, Notices!TypeOK
  <2> QED BY <2>1 DEF Notices!RaceInv, Notices!DuplicateOnlyByRace
<1>4. CASE Notices!Age(r) \/ Notices!Delete(r)
  <2>1. /\ UNCHANGED <<notePc, noteRaced>> /\ noteRow[r] # "none" /\ noteRow'[r] # "recent"
        /\ \A q \in Client \ {r} : noteRow'[q] = noteRow[q]
    BY <1>4 DEF Notices!Age, Notices!Delete, Notices!TypeOK
  <2> QED BY <2>1 DEF Notices!RaceInv, Notices!DuplicateOnlyByRace
<1> QED BY <1>1, <1>2, <1>3, <1>4

-----------------------------------------------------------------------------
(* Sockets *)

\* However often a socket is disconnected, it is counted once.
LEMMA NoticeDisconnectCounts ==
    ASSUME Notices!TypeOK, Notices!SocketInv, Notices!SocketsCounted, NEW s \in Client,
           Notices!Disconnect(s),
           UNCHANGED noteConnects
    PROVE  /\ IsFiniteSet(noteConns') /\ Notices!SocketsCounted'
           /\ noteConns' \subseteq Client /\ noteDisconnects' \in Nat
<1>1. IsFiniteSet(noteConns) /\ Cardinality(noteConns) \in Nat
  BY FS_CardinalityType, NoticeFinite DEF Notices!SocketInv
<1>2. /\ IsFiniteSet(noteConns')
      /\ Cardinality(noteConns') = IF s \in noteConns THEN Cardinality(noteConns) - 1
           ELSE Cardinality(noteConns)
  BY <1>1, FS_RemoveElement DEF Notices!Disconnect
<1> QED BY <1>1, <1>2, NoticeFinite DEF Notices!Disconnect, Notices!SocketsCounted,
             Notices!TypeOK

LEMMA NoticeSendKeeps ==
    ASSUME Notices!IInv, NEW r \in Client, NEW s \in Client, Notices!Send(r, s)
    PROVE  Notices!IInv'
<1> USE DEF Notices!IInv, Notices!NoticesAgree
<1>1. /\ UNCHANGED <<noteRow, noteRaced, notePlace, noteLeft, noteConnects>>
      /\ notePc[r] = "send" /\ notePc'[r] \in {"over", "send"}
      /\ notePc' \in [Client -> {"idle", "insert", "refresh", "push", "send", "over"}]
      /\ \A q \in Client \ {r} : notePc'[q] = notePc[q]
      /\ notePending' \in [Client -> SUBSET Client]
  BY DEF Notices!Send, Notices!Goto, Notices!TypeOK
<1>2. /\ IsFiniteSet(noteConns') /\ Notices!SocketsCounted'
      /\ noteConns' \subseteq noteConns /\ noteDisconnects' \in Nat
  <2>1. CASE Notices!Disconnect(s)
    BY <1>1, <2>1, NoticeDisconnectCounts DEF Notices!Disconnect
  <2>2. CASE UNCHANGED <<noteConns, noteDisconnects>>
    BY <1>1, <2>2, NoticeFinite DEF Notices!SocketInv, Notices!SocketsCounted, Notices!TypeOK
  <2> QED BY <2>1, <2>2 DEF Notices!Send
<1>3. Notices!TypeOK'
  BY <1>1, <1>2 DEF Notices!TypeOK
<1>4. Notices!SocketInv'
  BY <1>1, <1>2, NoticeFinite DEF Notices!SocketInv
<1>5. Notices!RaceInv' /\ Notices!DuplicateOnlyByRace'
  BY <1>1 DEF Notices!RaceInv, Notices!DuplicateOnlyByRace
<1> QED BY <1>2, <1>3, <1>4, <1>5

LEMMA NoticeSocketKeeps ==
    ASSUME Notices!IInv, NEW s \in Client,
           Notices!AcceptSocket(s) \/ Notices!Register(s) \/ Notices!ClientLeaves(s)
           \/ Notices!EndSocket(s)
    PROVE  Notices!IInv'
<1> USE DEF Notices!IInv, Notices!NoticesAgree
<1>1. UNCHANGED <<notePc, noteRow, notePending, noteRaced>>
  BY DEF Notices!AcceptSocket, Notices!Register, Notices!ClientLeaves, Notices!EndSocket
<1>2. Notices!RaceInv' /\ Notices!DuplicateOnlyByRace'
  BY <1>1 DEF Notices!RaceInv, Notices!DuplicateOnlyByRace
<1>3. CASE Notices!AcceptSocket(s) \/ Notices!ClientLeaves(s)
  <2>1. Notices!TypeOK' /\ UNCHANGED <<noteConns, noteConnects, noteDisconnects>>
    BY <1>3 DEF Notices!AcceptSocket, Notices!ClientLeaves, Notices!TypeOK, Notices!stats
  <2>2. \A c \in Client : notePlace[c] = "serving" => notePlace'[c] = "serving"
    BY <1>3 DEF Notices!AcceptSocket, Notices!ClientLeaves, Notices!TypeOK
  <2>3. Notices!SocketInv' /\ Notices!SocketsCounted'
    BY <2>1, <2>2, NoticeFinite DEF Notices!SocketInv, Notices!SocketsCounted, Notices!TypeOK
  <2> QED BY <1>2, <2>1, <2>3
<1>4. CASE Notices!Register(s)
  <2>1. Notices!TypeOK'
    BY <1>4 DEF Notices!Register, Notices!TypeOK
  <2>2. s \notin noteConns
    BY <1>4, NoticeFinite DEF Notices!Register, Notices!SocketInv
  <2>3. IsFiniteSet(noteConns) /\ Cardinality(noteConns) \in Nat
    BY FS_CardinalityType, NoticeFinite DEF Notices!SocketInv
  <2>4. IsFiniteSet(noteConns') /\ Cardinality(noteConns') = Cardinality(noteConns) + 1
    BY <1>4, <2>2, <2>3, FS_AddElement DEF Notices!Register
  <2>5. Notices!SocketInv'
    BY <1>4, <2>4, NoticeFinite DEF Notices!Register, Notices!SocketInv, Notices!TypeOK
  <2>6. Notices!SocketsCounted'
    BY <1>4, <2>3, <2>4, NoticeFinite DEF Notices!Register, Notices!SocketsCounted,
         Notices!TypeOK
  <2> QED BY <1>2, <2>1, <2>5, <2>6
<1>5. CASE Notices!EndSocket(s)
  <2>1. /\ IsFiniteSet(noteConns') /\ Notices!SocketsCounted'
        /\ noteConns' = noteConns \ {s} /\ noteDisconnects' \in Nat
    BY <1>5, NoticeDisconnectCounts DEF Notices!EndSocket, Notices!Disconnect
  <2>2. Notices!TypeOK'
    BY <1>5, <2>1 DEF Notices!EndSocket, Notices!TypeOK
  <2>3. Notices!SocketInv'
    BY <1>5, <2>1, NoticeFinite DEF Notices!EndSocket, Notices!SocketInv, Notices!TypeOK
  <2> QED BY <1>2, <2>1, <2>2, <2>3
<1> QED BY <1>3, <1>4, <1>5

LEMMA NoticeNextInv == Notices!IInv /\ [Notices!Next]_Notices!vars => Notices!IInv'
<1> SUFFICES ASSUME Notices!IInv, [Notices!Next]_Notices!vars
             PROVE  Notices!IInv'
  OBVIOUS
<1>1. ASSUME NEW r \in Client,
             \/ Notices!LookForRecent(r) \/ Notices!Insert(r) \/ Notices!Refresh(r)
             \/ Notices!Push(r) \/ Notices!Age(r) \/ Notices!Delete(r)
      PROVE  Notices!IInv'
  <2>1. Notices!TypeOK' /\ UNCHANGED <<Notices!sockets, Notices!stats>>
    BY <1>1, NoticeCallType DEF Notices!IInv
  <2>2. Notices!RaceInv' /\ Notices!DuplicateOnlyByRace'
    BY <1>1, NoticeCallRaces DEF Notices!IInv, Notices!NoticesAgree
  <2>3. Notices!SocketInv' /\ Notices!SocketsCounted'
    BY <2>1, NoticeFinite DEF Notices!IInv, Notices!NoticesAgree, Notices!SocketInv,
         Notices!SocketsCounted,
         Notices!sockets, Notices!stats
  <2> QED BY <2>1, <2>2, <2>3 DEF Notices!IInv, Notices!NoticesAgree
<1>2. CASE \E r \in Client, s \in Client : Notices!Send(r, s)
  BY <1>2, NoticeSendKeeps
<1>3. CASE \E s \in Client : Notices!AcceptSocket(s) \/ Notices!Register(s)
           \/ Notices!ClientLeaves(s) \/ Notices!EndSocket(s)
  BY <1>3, NoticeSocketKeeps
<1>4. CASE UNCHANGED Notices!vars
  BY <1>4, NoticeFinite DEF Notices!vars, Notices!sockets, Notices!stats, Notices!IInv,
       Notices!TypeOK,
       Notices!SocketInv, Notices!RaceInv, Notices!NoticesAgree,
              Notices!SocketsCounted, Notices!DuplicateOnlyByRace
<1> QED BY <1>1, <1>2, <1>3, <1>4 DEF Notices!Next

LEMMA NoticeInvProperty ==
    ASSUME Notices!IInv
    PROVE  Notices!NoticesAgree
  BY DEF Notices!IInv

LEMMA NoticeInvariance == ServicesSpec => []Notices!IInv
<1>1. ServicesInit => Notices!IInv
  BY NoticeInitInv DEF ServicesInit
<1>2. Notices!IInv /\ [ServicesNext]_servicesVars => Notices!IInv'
  <2> SUFFICES ASSUME Notices!IInv, [ServicesNext]_servicesVars
               PROVE  Notices!IInv'
    OBVIOUS
  <2>1. Notices!Next \/ UNCHANGED noteVars
    BY DEF ServicesNext, Still, servicesVars
  <2>2. [Notices!Next]_Notices!vars
    BY <2>1 DEF noteVars, Notices!vars, Notices!sockets, Notices!stats
  <2> QED BY <2>2, NoticeNextInv
<1> QED BY <1>1, <1>2, PTL DEF ServicesSpec

\* get_stats is right about the connections, and duplicate notifications exist only
\* when two calls raced, for any number of sockets and of requests.
THEOREM NoticesAgreeHolds == ServicesSpec => []NoticesAgree
<1>1. Notices!IInv => NoticesAgree
  BY NoticeInvProperty DEF NoticesAgree
<1> QED BY <1>1, NoticeInvariance, PTL

-----------------------------------------------------------------------------
(* Uploads *)

\* The cardinality of the instance is that of the library's theorems.
LEMMA FileFinite ==
    \A S : Files!Cardinality(S) = Cardinality(S) /\ Files!IsFiniteSet(S) = IsFiniteSet(S)
<1>1. \A S : Files!IsFiniteSet(S) = IsFiniteSet(S)
  BY DEF Files!IsFiniteSet, IsFiniteSet
<1>2. \A S : Files!Cardinality(S) = Cardinality(S)
  BY DEF Files!Cardinality, Cardinality, Files!IsFiniteSet, IsFiniteSet
<1> QED BY <1>1, <1>2

LEMMA FileInitInv ==
    ASSUME Files!UploadsAssumption, Files!Init
    PROVE  Files!IInv
<1>1. Files!TypeOK
  <2>1. fileResent \in BOOLEAN
    BY Zenon DEF Files!Init
  <2>2. /\ filePc \in [Request -> {"idle"}] /\ fileStatus \in [Request -> {"none"}]
        /\ fileTask \in [Request -> {"none"}]
    BY DEF Files!Init
  <2>3. fileCrashes \in 0 .. FileCrashes
    BY DEF Files!Init, Files!UploadsAssumption
  <2>4. fileDir = {} /\ fileSent = {} /\ fileMerging = {} /\ fileObject = {} /\ fileRows
          = {} /\ fileIndex = {} /\ fileDropped = {}
    BY DEF Files!Init
  <2> QED BY <2>1, <2>2, <2>3, <2>4 DEF Files!TypeOK
<1>2. Files!ChunkInv
  BY DEF Files!Init, Files!ChunkInv
<1>3. Files!TaskInv /\ Files!ProcessingIsAttended
  BY DEF Files!Init, Files!TaskInv, Files!ProcessingIsAttended
<1> QED BY <1>1, <1>2, <1>3 DEF Files!IInv

-----------------------------------------------------------------------------
(* The upload *)

\* A request that is idle begins; documents and what is done about them stay.
LEMMA FileBeginKeeps ==
    ASSUME Files!IInv, NEW r \in Request, Files!SendFile(r)
           \/ \E i \in Files!Chunk : Files!SendChunk(r, i)
    PROVE  Files!TypeOK' /\ Files!TaskInv' /\ Files!ProcessingIsAttended'
<1> USE DEF Files!IInv
<1>1. /\ UNCHANGED <<fileObject, Files!document, fileDropped, fileCrashes>>
      /\ filePc[r] = "idle" /\ filePc'[r] \in {"query", "received"}
      /\ filePc' \in [Request -> {"idle", "query", "store", "refresh", "received", "completed",
             "error"}]
      /\ \A q \in Request \ {r} : filePc'[q] = filePc[q]
  BY DEF Files!SendFile, Files!SendChunk, Files!MergeChunks, Files!Goto, Files!TypeOK,
         Files!history
<1>2. UNCHANGED <<fileStatus, fileRows, fileIndex, fileTask>>
  BY <1>1 DEF Files!document
<1>3. /\ fileDir' \subseteq Files!Chunk /\ fileSent' \subseteq Files!Chunk
      /\ fileMerging' \subseteq Request
      /\ fileResent' \in BOOLEAN
  BY DEF Files!SendFile, Files!SendChunk, Files!MergeChunks, Files!TypeOK, Files!history
<1>4. Files!TypeOK'
  BY <1>1, <1>2, <1>3 DEF Files!TypeOK
<1>5. Files!TaskInv'
  BY <1>1, <1>2 DEF Files!TaskInv
<1>6. Files!ProcessingIsAttended'
  BY <1>1, <1>2 DEF Files!ProcessingIsAttended, Files!Active
<1> QED BY <1>4, <1>5, <1>6

\* The chunks are complete for the first time with the last one that was missing; for
\* a second time only when one of them is sent again.
LEMMA FileSendChunkKeepsChunks ==
    ASSUME Files!IInv, NEW r \in Request, NEW i \in Files!Chunk, Files!SendChunk(r, i)
    PROVE  Files!ChunkInv'
<1> USE DEF Files!IInv
<1>1. /\ fileDir' = fileDir \cup {i} /\ fileSent' = fileSent \cup {i}
      /\ fileResent' = (fileResent \/ i \in fileSent)
      /\ fileMerging' = IF fileDir' = Files!Chunk THEN fileMerging \cup {r} ELSE fileMerging
      /\ filePc[r] = "idle" /\ \A q \in Request \ {r} : filePc'[q] = filePc[q]
  BY DEF Files!SendChunk, Files!MergeChunks, Files!AllChunks, Files!Goto, Files!TypeOK
<1>2. fileDir \subseteq Files!Chunk /\ fileSent \subseteq Files!Chunk
      /\ fileMerging \subseteq Request
  BY DEF Files!TypeOK
<1>3. fileDir' = fileSent' \/ \E q \in fileMerging' : filePc'[q] = "completed"
  BY <1>1, <1>2 DEF Files!ChunkInv
<1>4. fileMerging' # {} => fileSent' = Files!Chunk
  <2>1. CASE fileMerging # {}
    BY <2>1, <1>1, <1>2 DEF Files!ChunkInv
  <2>2. CASE fileMerging = {} /\ fileDir' = Files!Chunk
    <3>1. fileDir = fileSent
      BY <2>2 DEF Files!ChunkInv
    <3> QED BY <3>1, <2>2, <1>1
  <2> QED BY <2>1, <2>2, <1>1
<1>5. ~fileResent' => \A q, p \in fileMerging' : q = p
  <2>1. ASSUME ~fileResent'
        PROVE  fileMerging = {}
    BY <2>1, <1>1 DEF Files!ChunkInv
  <2> QED BY <2>1, <1>1
<1> QED BY <1>3, <1>4, <1>5 DEF Files!ChunkInv

\* The rest of an upload.
LEMMA FileUploadKeeps ==
    ASSUME Files!IInv, NEW r \in Request,
           Files!StoreObject(r) \/ Files!CommitDocument(r) \/ Files!Complete(r)
           \/ Files!FailUpload(r)
    PROVE  Files!IInv'
<1> USE DEF Files!IInv
<1>1. /\ UNCHANGED <<fileMerging, fileRows, fileIndex, Files!history, fileCrashes>>
      /\ filePc[r] \in {"query", "store", "refresh"}
      /\ filePc'[r] \in {"store", "refresh", "completed", "error"}
      /\ filePc' \in [Request -> {"idle", "query", "store", "refresh", "received", "completed",
             "error"}]
      /\ \A q \in Request \ {r} : filePc'[q] = filePc[q]
      /\ fileObject' \subseteq Request
  BY DEF Files!StoreObject, Files!CommitDocument, Files!Complete, Files!FailUpload, Files!Goto,
       Files!TypeOK, Files!document, Files!Active
<1>2. /\ fileDir' = fileDir \/ (fileDir' = {} /\ r \in fileMerging /\ filePc'[r] = "completed")
  BY DEF Files!StoreObject, Files!CommitDocument, Files!Complete, Files!FailUpload,
       Files!CleanupTempFiles, Files!Goto, Files!TypeOK
<1>3. UNCHANGED <<fileSent, fileResent, fileDropped>>
  BY <1>1 DEF Files!history
<1>4. Files!ChunkInv'
  BY <1>1, <1>2, <1>3 DEF Files!ChunkInv, Files!TypeOK
<1>5. fileTask[r] = "none"
  BY <1>1 DEF Files!TaskInv, Files!TypeOK
<1>6. /\ \A d \in Request \ {r} : fileTask'[d] = fileTask[d] /\ fileStatus'[d] = fileStatus[d]
      /\ \/ UNCHANGED <<fileTask, fileStatus>> /\ filePc'[r] \in {"store", "error"}
         \/ UNCHANGED fileTask /\ fileStatus'[r] = "uploaded" /\ filePc'[r] = "refresh"
         \/ UNCHANGED fileStatus /\ fileTask'[r] = "load" /\ filePc'[r] = "completed"
      /\ fileStatus' \in [Request -> {"none", "uploaded", "parsing", "parsed", "indexed",
             "failed", "deleted"}]
      /\ fileTask' \in [Request -> {"none", "load", "parse", "build", "mark"}]
  BY DEF Files!StoreObject, Files!CommitDocument, Files!Complete, Files!FailUpload, Files!Goto,
       Files!Become, Files!Then, Files!TypeOK, Files!document
<1>7. Files!TypeOK'
  BY <1>1, <1>2, <1>3, <1>6 DEF Files!TypeOK
<1>8. Files!TaskInv'
  BY <1>1, <1>5, <1>6 DEF Files!TaskInv
<1>9. Files!ProcessingIsAttended'
  BY <1>1, <1>3, <1>6 DEF Files!ProcessingIsAttended, Files!Active
<1> QED BY <1>4, <1>7, <1>8, <1>9

-----------------------------------------------------------------------------
(* The document *)

LEMMA FileTaskKeeps ==
    ASSUME Files!IInv, NEW d \in Request, Files!ProcessDocument(d)
    PROVE  Files!IInv'
<1> USE DEF Files!IInv
<1>1. /\ UNCHANGED <<Files!upload, fileSent, fileResent, fileCrashes>>
      /\ fileTask[d] # "none" /\ fileDropped' \in {fileDropped, fileDropped \cup {d}}
  BY DEF Files!ProcessDocument, Files!StartParsing, Files!Parse, Files!BuildIndex,
       Files!MarkIndexed, Files!GiveUp, Files!history
<1>2. UNCHANGED <<filePc, fileDir, fileMerging, fileObject, fileSent, fileResent>>
  BY <1>1 DEF Files!upload
<1>3. Files!ChunkInv'
  BY <1>2 DEF Files!ChunkInv
<1>4. /\ \A c \in Request \ {d} : fileTask'[c] = fileTask[c] /\ fileStatus'[c] = fileStatus[c]
      /\ fileStatus' \in [Request -> {"none", "uploaded", "parsing", "parsed", "indexed",
             "failed", "deleted"}]
      /\ fileTask' \in [Request -> {"none", "load", "parse", "build", "mark"}]
  BY DEF Files!ProcessDocument, Files!StartParsing, Files!Parse, Files!BuildIndex,
       Files!MarkIndexed, Files!GiveUp, Files!Become, Files!Then, Files!TypeOK
<1>5. fileRows' \subseteq Request /\ fileIndex' \subseteq Request
  BY DEF Files!ProcessDocument, Files!StartParsing, Files!Parse, Files!BuildIndex,
       Files!MarkIndexed, Files!TypeOK
<1>6. \/ /\ fileTask'[d] = "none"
         /\ d \in fileDropped' \/ fileStatus'[d] \notin {"uploaded", "parsing"}
      \/ fileTask'[d] = "parse" /\ fileStatus'[d] = "parsing"
      \/ fileTask'[d] \in {"build", "mark"} /\ fileStatus'[d] \notin {"uploaded", "parsing"}
  BY DEF Files!ProcessDocument, Files!StartParsing, Files!Parse, Files!BuildIndex,
       Files!MarkIndexed, Files!GiveUp, Files!Become, Files!Then, Files!TypeOK,
         Files!TaskInv
<1>7. Files!TypeOK'
  BY <1>1, <1>2, <1>4, <1>5 DEF Files!TypeOK
<1>8. Files!TaskInv'
  BY <1>1, <1>2, <1>4, <1>6 DEF Files!TaskInv
<1>9. Files!ProcessingIsAttended'
  BY <1>1, <1>2, <1>4, <1>6 DEF Files!ProcessingIsAttended, Files!Active
<1> QED BY <1>3, <1>7, <1>8, <1>9

LEMMA FileDeleteKeeps ==
    ASSUME Files!IInv, NEW d \in Request, Files!DeleteDocument(d)
    PROVE  Files!IInv'
<1> USE DEF Files!IInv
<1>1. UNCHANGED <<filePc, fileDir, fileMerging, fileObject, fileIndex, fileTask, fileSent,
                  fileResent, fileDropped, fileCrashes>>
  BY DEF Files!DeleteDocument, Files!upload, Files!history
<1>2. /\ \A c \in Request \ {d} : fileStatus'[c] = fileStatus[c]
      /\ fileStatus'[d] = "deleted" /\ fileRows' \subseteq Request
      /\ fileStatus' \in [Request -> {"none", "uploaded", "parsing", "parsed", "indexed",
             "failed", "deleted"}]
  BY DEF Files!DeleteDocument, Files!Become, Files!TypeOK
<1>3. Files!TypeOK'
  BY <1>1, <1>2 DEF Files!TypeOK
<1>4. Files!ChunkInv' /\ Files!TaskInv'
  BY <1>1, <1>2 DEF Files!ChunkInv, Files!TaskInv
<1>5. Files!ProcessingIsAttended'
  BY <1>1, <1>2 DEF Files!ProcessingIsAttended, Files!Active
<1> QED BY <1>3, <1>4, <1>5

\* A restart ends uploads and tasks, and leaves the chunks and what was completed.
LEMMA FileCrashKeeps ==
    ASSUME Files!UploadsAssumption, Files!IInv, Files!Crash
    PROVE  Files!IInv'
<1> USE DEF Files!IInv
<1>1. /\ UNCHANGED <<fileDir, fileMerging, fileObject, fileStatus, fileRows, fileIndex,
                     fileSent, fileResent>>
      /\ fileDropped' = fileDropped \cup {d \in Request : fileTask[d] # "none"}
      /\ \A r \in Files!Active : filePc'[r] = "error"
      /\ \A r \in Request : filePc[r] = "error" => filePc'[r] = "error"
      /\ \A d \in Request : fileTask'[d] = "none"
      /\ \A r \in Request : filePc[r] = "completed" => filePc'[r] = "completed"
  BY DEF Files!Crash, Files!TypeOK, Files!UploadsAssumption, Files!Active
<1>2. Files!TypeOK'
  BY DEF Files!Crash, Files!TypeOK, Files!UploadsAssumption
<1>3. Files!ChunkInv'
  BY <1>1 DEF Files!ChunkInv, Files!TypeOK
<1>4. Files!TaskInv' /\ Files!ProcessingIsAttended'
  BY <1>1 DEF Files!TaskInv, Files!ProcessingIsAttended
<1> QED BY <1>2, <1>3, <1>4

-----------------------------------------------------------------------------

LEMMA FileNextInv ==
    ASSUME Files!UploadsAssumption
    PROVE  Files!IInv /\ [Files!Next]_Files!vars => Files!IInv'
<1> SUFFICES ASSUME Files!IInv, [Files!Next]_Files!vars
             PROVE  Files!IInv'
  OBVIOUS
<1>1. ASSUME NEW r \in Request, Files!SendFile(r)
      PROVE  Files!IInv'
  <2>1. UNCHANGED <<fileDir, fileMerging, fileSent, fileResent>>
    BY <1>1 DEF Files!SendFile, Files!history
  <2>2. \A q \in Request : filePc[q] = "completed" => filePc'[q] = "completed"
    BY <1>1 DEF Files!SendFile, Files!Goto, Files!IInv, Files!TypeOK
  <2>3. Files!ChunkInv'
    BY <2>1, <2>2 DEF Files!ChunkInv, Files!IInv, Files!TypeOK
  <2> QED BY <1>1, <2>3, FileBeginKeeps DEF Files!IInv
<1>2. ASSUME NEW r \in Request, NEW i \in Files!Chunk, Files!SendChunk(r, i)
      PROVE  Files!IInv'
  BY <1>2, FileBeginKeeps, FileSendChunkKeepsChunks DEF Files!IInv
<1>3. ASSUME NEW r \in Request,
             Files!StoreObject(r) \/ Files!CommitDocument(r) \/ Files!Complete(r)
             \/ Files!FailUpload(r)
      PROVE  Files!IInv'
  BY <1>3, FileUploadKeeps
<1>4. CASE \E d \in Request : Files!ProcessDocument(d) \/ Files!DeleteDocument(d)
  BY <1>4, FileTaskKeeps, FileDeleteKeeps
<1>5. CASE Files!Crash
  BY <1>5, FileCrashKeeps
<1>6. CASE UNCHANGED Files!vars
  BY <1>6 DEF Files!vars, Files!upload, Files!document, Files!history, Files!IInv,
       Files!TypeOK, Files!ChunkInv, Files!TaskInv,
              Files!ProcessingIsAttended, Files!Active
<1> QED BY <1>1, <1>2, <1>3, <1>4, <1>5, <1>6 DEF Files!Next

LEMMA FileInvProperty ==
    ASSUME Files!IInv
    PROVE  Files!UploadsAreServed
<1> SUFFICES Files!ChunksServeOnce
  BY DEF Files!UploadsAreServed, Files!IInv
<1>1. ASSUME ~fileResent PROVE Cardinality(fileMerging) <= 1
  <2>1. CASE fileMerging = {}
    BY <2>1, FS_EmptySet
  <2>2. CASE fileMerging # {}
    <3>1. PICK r \in fileMerging : TRUE
      BY <2>2
    <3>2. fileMerging = {} \cup {r}
      BY <1>1, <3>1 DEF Files!IInv, Files!ChunkInv
    <3>3. Cardinality({} \cup {r}) = 1
      <4>1. IsFiniteSet({}) /\ Cardinality({}) = 0
        BY FS_EmptySet
      <4>2. Cardinality({} \cup {r}) = Cardinality({}) + 1
        BY <4>1, FS_AddElement
      <4> QED BY <4>1, <4>2
    <3> QED BY <3>2, <3>3
  <2> QED BY <2>1, <2>2
<1> QED BY <1>1, FileFinite DEF Files!ChunksServeOnce, Files!IInv, Files!ChunkInv

LEMMA FileInvariance == ServicesSpec => []Files!IInv
<1>1. ServicesInit => Files!IInv
  BY FileInitInv, ServicesAssumption DEF ServicesInit, ServicesAssumption
<1>2. Files!IInv /\ [ServicesNext]_servicesVars => Files!IInv'
  <2> SUFFICES ASSUME Files!IInv, [ServicesNext]_servicesVars
               PROVE  Files!IInv'
    OBVIOUS
  <2>1. Files!Next \/ UNCHANGED fileVars
    BY DEF ServicesNext, Still, servicesVars
  <2>2. [Files!Next]_Files!vars
    BY <2>1 DEF fileVars, Files!vars, Files!upload, Files!document, Files!history
  <2>3. Files!UploadsAssumption
    BY ServicesAssumption DEF ServicesAssumption
  <2> QED BY <2>2, <2>3, FileNextInv
<1> QED BY <1>1, <1>2, PTL DEF ServicesSpec

\* Chunks that are each sent once are merged once, none is lost before the file is
\* stored, and a document that says it is being processed is looked after, however
\* many requests, chunks and restarts there are.
THEOREM UploadsAreServedHolds == ServicesSpec => []UploadsAreServed
<1>1. Files!IInv => UploadsAreServed
  BY FileInvProperty, ServicesAssumption DEF UploadsAreServed, ServicesAssumption
<1> QED BY <1>1, FileInvariance, PTL

-----------------------------------------------------------------------------
(* The workflow engine *)

LEMMA FlowInitInv ==
    ASSUME Flows!WorkflowRunsAssumption, Flows!Init
    PROVE  Flows!IInv
<1>1. flowRefused \in BOOLEAN
  BY Zenon DEF Flows!Init
<1>2. Flows!TypeOK
  BY <1>1 DEF Flows!Init, Flows!TypeOK, Flows!WorkflowRunsAssumption, Flows!Flow
<1> QED BY <1>2 DEF Flows!Init, Flows!IInv, Flows!AttemptsInv, Flows!StreamInv, Flows!ErrorFirst

LEMMA FlowEditsKeep ==
    ASSUME Flows!WorkflowRunsAssumption, Flows!IInv, Flows!UpdateWorkflow
           \/ Flows!DeleteWorkflow
    PROVE  Flows!IInv'
<1>1. CASE Flows!UpdateWorkflow
  <2>1. flowActive' \in BOOLEAN
    BY <1>1 DEF Flows!UpdateWorkflow
  <2> QED BY <1>1, <2>1 DEF Flows!UpdateWorkflow, Flows!IInv, Flows!TypeOK, Flows!AttemptsInv,
               Flows!StreamInv, Flows!ErrorFirst, Flows!request, Flows!execution,
               Flows!WorkflowRunsAssumption
<1>2. CASE Flows!DeleteWorkflow
  <2>1. flowActive' \in BOOLEAN
    BY <1>2, Zenon DEF Flows!DeleteWorkflow
  <2> QED BY <1>2, <2>1 DEF Flows!DeleteWorkflow, Flows!IInv, Flows!TypeOK, Flows!AttemptsInv,
               Flows!StreamInv, Flows!ErrorFirst, Flows!request, Flows!execution
<1> QED BY <1>1, <1>2

LEMMA FlowRequestKeeps ==
    ASSUME Flows!WorkflowRunsAssumption, Flows!IInv, Flows!Execute \/ Flows!StartEngine
           \/ Flows!FailStart \/ Flows!LeaveStream
    PROVE  Flows!IInv'
<1> USE DEF Flows!IInv, Flows!TypeOK, Flows!AttemptsInv, Flows!StreamInv, Flows!ErrorFirst,
             Flows!workflow, Flows!execution
<1>1. CASE Flows!Execute
  BY <1>1 DEF Flows!Execute
<1>2. CASE Flows!StartEngine
  BY <1>2 DEF Flows!StartEngine
<1>3. CASE Flows!FailStart
  <2>1. flowRefused' \in BOOLEAN
    BY <1>3, Zenon DEF Flows!FailStart
  <2> QED BY <1>3, <2>1 DEF Flows!FailStart
<1>4. CASE Flows!LeaveStream
  BY <1>4 DEF Flows!LeaveStream
<1> QED BY <1>1, <1>2, <1>3, <1>4

\* The engine says nothing that ends the stream before it says why it failed.
LEMMA FlowEmitKeeps ==
    ASSUME Flows!IInv, NEW list \in Seq(Flows!Event), Flows!Emit(list),
           UNCHANGED <<Flows!workflow, Flows!request, flowEdits>>,
           flowHandler \notin {"idle", "accepted"},
           flowEngine' \in {"graph", "node", "raised", "returned"}, flowEngine # "none",
           flowAttempts' \in 0 .. FlowRetries,
           Flows!AttemptsInv',
           \A i \in 1 .. Len(list) :
              list[i] = "workflow_result" => \E j \in 1 .. i - 1 : list[j] = "workflow_error"
    PROVE  Flows!IInv'
<1> USE DEF Flows!request, Flows!workflow
<1>1. flowEvents' \in Seq(Flows!Event)
  BY DEF Flows!Emit, Flows!IInv, Flows!TypeOK
<1>2. Flows!TypeOK' /\ Flows!StreamInv'
  BY <1>1 DEF Flows!IInv, Flows!TypeOK, Flows!StreamInv
<1>3. Flows!ErrorFirst'
  <2> SUFFICES ASSUME flowHandler = "stream", NEW i \in 1 .. Len(flowEvents'),
                      flowEvents'[i] = "workflow_result"
               PROVE  \E j \in 1 .. i - 1 : flowEvents'[j] = "workflow_error"
    BY DEF Flows!ErrorFirst
  <2>1. flowEvents' = flowEvents \o list /\ flowEvents \in Seq(Flows!Event)
    BY DEF Flows!Emit, Flows!IInv, Flows!TypeOK
  <2>2. /\ Len(flowEvents') = Len(flowEvents) + Len(list)
        /\ \A k \in 1 .. Len(flowEvents') : flowEvents'[k] = IF k
             <= Len(flowEvents) THEN flowEvents[k] ELSE list[k - Len(flowEvents)]
        /\ Len(flowEvents) \in Nat /\ Len(list) \in Nat
    BY <2>1, ConcatProperties
  <2>3. CASE i <= Len(flowEvents)
    BY <2>2, <2>3 DEF Flows!IInv, Flows!ErrorFirst
  <2>4. CASE i > Len(flowEvents)
    <3>1. /\ i - Len(flowEvents) \in 1 .. Len(list)
          /\ list[i - Len(flowEvents)] = "workflow_result"
      BY <2>2, <2>4
    <3>2. PICK j \in 1 .. (i - Len(flowEvents)) - 1 : list[j] = "workflow_error"
      BY <3>1
    <3>3. /\ j \in Int /\ j + Len(flowEvents) \in 1 .. i - 1
          /\ ~(j + Len(flowEvents) <= Len(flowEvents))
          /\ j + Len(flowEvents) \in 1 .. Len(flowEvents')
          /\ (j + Len(flowEvents)) - Len(flowEvents) = j
      BY <2>2, <2>4, <3>1
    <3>4. flowEvents'[j + Len(flowEvents)] = "workflow_error"
      BY <2>2, <3>2, <3>3
    <3> QED BY <3>3, <3>4
  <2> QED BY <2>2, <2>3, <2>4
<1> QED BY <1>2, <1>3 DEF Flows!IInv

LEMMA FlowOneEvent ==
    ASSUME NEW e \in Flows!Event, e # "workflow_result"
    PROVE  <<e>> \in Seq(Flows!Event) /\ \A i \in 1 .. Len(<<e>>) : <<e>>[i] # "workflow_result"
<1>1. <<e>> \in Seq(Flows!Event) /\ Len(<<e>>) = 1 /\ <<e>>[1] = e
  OBVIOUS
<1>2. \A i \in 1 .. Len(<<e>>) : i = 1
  BY <1>1
<1> QED BY <1>1, <1>2

LEMMA FlowEngineKeeps ==
    ASSUME Flows!WorkflowRunsAssumption, Flows!IInv, Flows!Compile \/ Flows!EnterNode
           \/ Flows!TryNode \/ Flows!ReportError
    PROVE  Flows!IInv'
<1> USE DEF Flows!Event
<1>1. /\ flowAttempts \in 0 .. FlowRetries /\ flowEvents \in Seq(Flows!Event)
      /\ FlowRetries \in Nat
      /\ flowEngine # "none" => flowHandler \notin {"idle", "accepted"}
  BY DEF Flows!IInv, Flows!TypeOK, Flows!StreamInv, Flows!WorkflowRunsAssumption
<1>2. CASE Flows!Compile
  <2> DEFINE e == IF flowConfig = "broken" THEN "workflow_error" ELSE "workflow_start"
             list == <<e>>
  <2>1. list \in Seq(Flows!Event) /\ \A i \in 1 .. Len(list) : list[i] # "workflow_result"
    BY FlowOneEvent
  <2>2. /\ Flows!Emit(list) /\ flowEngine = "new" /\ flowEngine' \in {"returned", "graph"}
        /\ UNCHANGED <<Flows!workflow, Flows!request, flowAttempts, flowEdits>>
    BY <1>2 DEF Flows!Compile
  <2>3. Flows!AttemptsInv'
    BY <2>2 DEF Flows!IInv, Flows!AttemptsInv
  <2> QED BY <1>1, <2>1, <2>2, <2>3, FlowEmitKeeps
<1>3. CASE Flows!EnterNode
  <2>1. CASE flowConfig = "unknown"
    BY <1>1, <1>3, <2>1 DEF Flows!EnterNode, Flows!IInv, Flows!TypeOK, Flows!AttemptsInv,
         Flows!StreamInv, Flows!ErrorFirst, Flows!request, Flows!workflow
  <2>2. CASE flowConfig # "unknown"
    <3>1. /\ flowEngine = "graph" /\ flowEngine' = "node" /\ Flows!Emit(<<"node_start">>)
          /\ UNCHANGED <<Flows!workflow, Flows!request, flowAttempts, flowEdits>>
      BY <1>3, <2>2 DEF Flows!EnterNode
    <3>2. Flows!AttemptsInv'
      BY <1>1, <3>1 DEF Flows!IInv, Flows!AttemptsInv, Flows!WorkflowRunsAssumption
    <3> DEFINE list == <<"node_start">>
    <3>3. list \in Seq(Flows!Event) /\ \A i \in 1 .. Len(list) : list[i] # "workflow_result"
      BY FlowOneEvent
    <3> QED BY <1>1, <3>1, <3>2, <3>3, FlowEmitKeeps
  <2> QED BY <2>1, <2>2
<1>4. CASE Flows!TryNode
  <2>1. /\ flowAttempts' = flowAttempts + 1 /\ flowAttempts' \in 0 .. FlowRetries
        /\ flowEngine' \in {"node", "raised"} /\ (flowEngine' = "node"
             => flowAttempts' < FlowRetries)
        /\ flowEngine = "node"
        /\ UNCHANGED <<Flows!workflow, Flows!request, flowEvents, flowEdits>>
    BY <1>1, <1>4 DEF Flows!TryNode, Flows!BookEnd, Flows!IInv, Flows!AttemptsInv
  <2> QED BY <2>1 DEF Flows!IInv, Flows!TypeOK, Flows!AttemptsInv, Flows!StreamInv,
               Flows!ErrorFirst, Flows!request, Flows!workflow
<1>5. CASE Flows!ReportError
  <2> DEFINE list == <<"workflow_error", "workflow_result">>
  <2>1. list \in Seq(Flows!Event) /\ Len(list) = 2 /\ list[1] = "workflow_error"
    OBVIOUS
  <2>2. \A i \in 1 .. Len(list) :
            list[i] = "workflow_result" => \E j \in 1 .. i - 1 : list[j] = "workflow_error"
    <3>1. \A i \in 1 .. Len(list) : i = 1 \/ (i = 2 /\ 1 \in 1 .. i - 1)
      BY <2>1
    <3> QED BY <2>1, <3>1
  <2>3. /\ Flows!Emit(list) /\ flowEngine = "raised" /\ flowEngine' = "returned"
        /\ UNCHANGED <<Flows!workflow, Flows!request, flowAttempts, flowEdits>>
    BY <1>5 DEF Flows!ReportError
  <2>4. Flows!AttemptsInv'
    BY <2>3 DEF Flows!AttemptsInv
  <2> QED BY <1>1, <2>1, <2>2, <2>3, <2>4, FlowEmitKeeps
<1> QED BY <1>2, <1>3, <1>4, <1>5

LEMMA FlowEndKeeps ==
    ASSUME Flows!WorkflowRunsAssumption, Flows!IInv, Flows!ReadEvent \/ Flows!AnswerPlain
    PROVE  Flows!IInv'
<1>1. CASE Flows!ReadEvent
  <2>1. /\ flowHandler = "stream" /\ flowRow = "running" /\ flowEvents \in Seq(Flows!Event)
        /\ flowEvents # <<>>
        /\ flowEvents' = Tail(flowEvents)
        /\ UNCHANGED <<Flows!workflow, flowConfig, flowEngine, flowAttempts, flowEdits>>
    BY <1>1 DEF Flows!ReadEvent, Flows!IInv, Flows!StreamInv, Flows!TypeOK
  <2>2. /\ flowEvents' \in Seq(Flows!Event) /\ Head(flowEvents) = flowEvents[1]
        /\ Len(flowEvents) \in Nat \ {0}
        /\ Len(flowEvents') = Len(flowEvents) - 1
        /\ \A i \in 1 .. Len(flowEvents') : flowEvents'[i] = flowEvents[i + 1]
    BY <2>1, HeadTailProperties
  <2>3. Head(flowEvents) # "workflow_result"
    BY <2>1, <2>2 DEF Flows!IInv, Flows!ErrorFirst
  <2>4. CASE Head(flowEvents) \in {"workflow_start", "node_start"}
    <3>1. UNCHANGED <<flowRow, flowTold, flowRefused, flowHandler>>
      BY <1>1, <2>4 DEF Flows!ReadEvent
    <3>2. Flows!TypeOK' /\ Flows!AttemptsInv' /\ Flows!StreamInv'
      BY <2>1, <2>2, <3>1 DEF Flows!IInv, Flows!TypeOK, Flows!AttemptsInv, Flows!StreamInv,
           Flows!workflow
    <3>3. Flows!ErrorFirst'
      <4> SUFFICES ASSUME NEW i \in 1 .. Len(flowEvents'), flowEvents'[i] = "workflow_result"
                   PROVE  \E j \in 1 .. i - 1 : flowEvents'[j] = "workflow_error"
        BY <3>1 DEF Flows!ErrorFirst
      <4>1. i + 1 \in 1 .. Len(flowEvents) /\ flowEvents[i + 1] = "workflow_result"
        BY <2>2
      <4>2. PICK j \in 1 .. (i + 1) - 1 : flowEvents[j] = "workflow_error"
        BY <2>1, <4>1 DEF Flows!IInv, Flows!ErrorFirst
      <4>3. j # 1
        BY <2>2, <2>4, <4>2
      <4>4. j - 1 \in 1 .. i - 1 /\ flowEvents'[j - 1] = "workflow_error"
        BY <2>2, <4>2, <4>3
      <4> QED BY <4>4
    <3> QED BY <3>2, <3>3 DEF Flows!IInv
  <2>5. CASE Head(flowEvents) = "workflow_error"
    <3>1. /\ flowHandler' = "over" /\ flowTold' = "error"
          /\ \/ flowRow' = "failed" /\ flowRefused' = flowRefused
             \/ flowRow' = flowRow /\ flowRefused' = TRUE
      BY <1>1, <2>3, <2>5 DEF Flows!ReadEvent, Flows!Fail, Flows!LoseEnd
    <3>2. flowRefused' \in BOOLEAN
      BY <3>1 DEF Flows!IInv, Flows!TypeOK
    <3> QED BY <2>1, <2>2, <3>1, <3>2
                 DEF Flows!IInv, Flows!TypeOK, Flows!AttemptsInv, Flows!StreamInv,
                 Flows!ErrorFirst, Flows!workflow
  <2>6. Head(flowEvents) \in {"workflow_start", "node_start", "workflow_error"}
    BY <2>2, <2>1, <2>3 DEF Flows!Event
  <2> QED BY <2>4, <2>5, <2>6
<1>2. CASE Flows!AnswerPlain
  <2>1. flowRefused' \in BOOLEAN
    BY <1>2 DEF Flows!AnswerPlain, Flows!IInv, Flows!TypeOK, Flows!LoseEnd
  <2>2. flowTold' \in {"error", "complete"} /\ flowRow' \in {flowRow, "failed", "completed"}
    BY <1>2 DEF Flows!AnswerPlain, Flows!Fail, Flows!CompleteRow, Flows!LoseEnd
  <2> QED BY <1>2, <2>1, <2>2 DEF Flows!AnswerPlain, Flows!IInv, Flows!TypeOK,
               Flows!AttemptsInv, Flows!StreamInv, Flows!ErrorFirst, Flows!workflow,
               Flows!execution
<1> QED BY <1>1, <1>2

LEMMA FlowNextInv ==
    ASSUME Flows!WorkflowRunsAssumption
    PROVE  Flows!IInv /\ [Flows!Next]_Flows!vars => Flows!IInv'
<1> SUFFICES ASSUME Flows!IInv, [Flows!Next]_Flows!vars
             PROVE  Flows!IInv'
  OBVIOUS
<1>1. CASE UNCHANGED Flows!vars
  BY <1>1 DEF Flows!vars, Flows!workflow, Flows!request, Flows!execution, Flows!IInv,
       Flows!TypeOK, Flows!AttemptsInv, Flows!StreamInv, Flows!ErrorFirst
<1> QED BY <1>1, FlowEditsKeep, FlowRequestKeeps, FlowEngineKeeps, FlowEndKeeps DEF Flows!Next

LEMMA FlowInvProperty ==
    ASSUME Flows!IInv
    PROVE  Flows!StreamSettles
  BY DEF Flows!IInv, Flows!StreamInv, Flows!StreamSettles, Flows!TypeOK

LEMMA FlowInvariance == ServicesSpec => []Flows!IInv
<1>1. ServicesInit => Flows!IInv
  BY FlowInitInv, ServicesAssumption DEF ServicesInit, ServicesAssumption
<1>2. Flows!IInv /\ [ServicesNext]_servicesVars => Flows!IInv'
  <2> SUFFICES ASSUME Flows!IInv, [ServicesNext]_servicesVars
               PROVE  Flows!IInv'
    OBVIOUS
  <2>1. Flows!Next \/ UNCHANGED flowVars
    BY DEF ServicesNext, Still, servicesVars
  <2>2. [Flows!Next]_Flows!vars
    BY <2>1 DEF flowVars, Flows!vars, Flows!workflow, Flows!request, Flows!execution
  <2>3. Flows!WorkflowRunsAssumption
    BY ServicesAssumption DEF ServicesAssumption
  <2> QED BY <2>2, <2>3, FlowNextInv
<1> QED BY <1>1, <1>2, PTL DEF ServicesSpec

\* A stream read to its end has told what the row says, for any number of retries of
\* a node and whatever is edited while it runs.
THEOREM StreamSettlesHolds == ServicesSpec => []StreamSettles
<1>1. Flows!IInv => StreamSettles
  BY FlowInvProperty, ServicesAssumption DEF StreamSettles, ServicesAssumption
<1> QED BY <1>1, FlowInvariance, PTL

-----------------------------------------------------------------------------
(* Prompt templates *)

\* The cardinality of the instance is that of the library's theorems.
LEMMA PromptFinite ==
    \A S : Templates!Cardinality(S) = Cardinality(S) /\ Templates!IsFiniteSet(S) = IsFiniteSet(S)
<1>1. \A S : Templates!IsFiniteSet(S) = IsFiniteSet(S)
  BY DEF Templates!IsFiniteSet, IsFiniteSet
<1>2. \A S : Templates!Cardinality(S) = Cardinality(S)
  BY DEF Templates!Cardinality, Cardinality, Templates!IsFiniteSet, IsFiniteSet
<1> QED BY <1>1, <1>2

LEMMA PromptInitInv ==
    ASSUME Templates!PromptsAssumption, Templates!Init
    PROVE  Templates!IInv
<1>1. Templates!TypeOK
  <2>1. promptDeleted \in BOOLEAN
    BY Zenon DEF Templates!Init
  <2>2. promptRaces \in Nat /\ promptHistory \in Seq(Templates!Template)
    BY DEF Templates!Init
  <2> QED BY <2>1, <2>2 DEF Templates!Init, Templates!TypeOK
<1>2. Templates!ReadInv /\ Templates!FreshInv /\ Templates!NumberInv
  BY DEF Templates!Init, Templates!ReadInv, Templates!FreshInv, Templates!NumberInv
<1>3. Templates!LostInv
  <2>1. IsFiniteSet(promptSaved) /\ promptSaved \ Templates!Kept = {} /\ Cardinality({}) = 0
    BY FS_EmptySet DEF Templates!Init
  <2> QED BY <2>1, PromptFinite DEF Templates!Init, Templates!LostInv
<1> QED BY <1>1, <1>2, <1>3 DEF Templates!IInv

\* No text is lost if the template keeps its text and no row of the history goes.
LEMMA PromptKeptStays ==
    ASSUME Templates!LostInv, ~promptDeleted, UNCHANGED <<promptRaces, promptDeleted>>,
           NEW new, promptSaved' = promptSaved \cup new, IsFiniteSet(new),
           \A t \in new : t \in Templates!Kept',
           \A t \in Templates!Kept : t \in promptSaved' => t \in Templates!Kept',
           promptRaces \in Nat
    PROVE  Templates!LostInv'
<1>1. IsFiniteSet(promptSaved')
  BY FS_Union, PromptFinite DEF Templates!LostInv
<1>2. promptSaved' \ Templates!Kept' \in SUBSET (promptSaved \ Templates!Kept)
  OBVIOUS
<1>3. IsFiniteSet(promptSaved \ Templates!Kept)
  BY FS_Difference, PromptFinite DEF Templates!LostInv
<1>4. /\ Cardinality(promptSaved' \ Templates!Kept')
           <= Cardinality(promptSaved \ Templates!Kept)
      /\ Cardinality(promptSaved' \ Templates!Kept') \in Nat
      /\ Cardinality(promptSaved \ Templates!Kept) \in Nat
  BY <1>2, <1>3, FS_Subset, FS_CardinalityType
<1> QED BY <1>1, <1>4, PromptFinite DEF Templates!LostInv

\* A step that touches neither texts nor numbers.
LEMMA PromptQuietKeeps ==
    ASSUME Templates!IInv, UNCHANGED <<promptTemplate, promptHistory, promptSaved, promptRaces,
                                       promptDeleted>>,
           Templates!TypeOK', Templates!ReadInv',
           \A r \in PromptRequest : promptRead'[r] \in {promptRead[r], promptTemplate, None}
    PROVE  Templates!IInv'
<1> USE DEF Templates!IInv
<1>1. Templates!FreshInv'
  BY DEF Templates!FreshInv, Templates!TypeOK
<1>2. Templates!NumberInv'
  <2> SUFFICES ASSUME ~promptDeleted, promptTemplate # None, promptRaces = 0
               PROVE  Templates!Known' \subseteq Templates!Known
    BY DEF Templates!NumberInv
  <2> QED BY DEF Templates!Known
<1>3. Templates!LostInv'
  BY PromptFinite DEF Templates!LostInv, Templates!Kept
<1> QED BY <1>1, <1>2, <1>3

-----------------------------------------------------------------------------
(* Creation *)

LEMMA PromptCreateKeeps ==
    ASSUME Templates!PromptsAssumption, Templates!IInv, NEW r \in PromptRequest,
           Templates!Create(r)
    PROVE  Templates!IInv'
<1>1. Templates!TypeOK' /\ Templates!ReadInv'
  BY DEF Templates!IInv, Templates!Create, Templates!Goto, Templates!TypeOK, Templates!ReadInv
<1> QED BY <1>1, PromptQuietKeeps DEF Templates!Create

\* The first template, and with Seed its first version.
LEMMA PromptFirstKeeps ==
    ASSUME Templates!PromptsAssumption, Templates!IInv, NEW r \in PromptRequest,
           promptTemplate = None, ~promptDeleted, promptDeleted' = promptDeleted,
           promptRaces' = promptRaces,
           promptTemplate' = [version |-> 1, text |-> r],
           \/ promptHistory' = promptHistory /\ promptSaved' = promptSaved /\ promptRead'
                = [promptRead EXCEPT ![r] = promptTemplate']
              /\ Templates!Goto(r, "version")
           \/ promptHistory' = Append(promptHistory, promptTemplate') /\ promptSaved'
                = promptSaved \cup {r} /\ promptRead' = promptRead
              /\ Templates!Goto(r, "done")
    PROVE  Templates!IInv'
<1> USE DEF Templates!IInv
<1>1. promptTemplate' \in Templates!Template /\ promptTemplate' # None
  BY DEF Templates!Template, Templates!PromptsAssumption
<1>2. promptHistory = <<>> /\ promptSaved = {} /\ \A q \in PromptRequest : promptRead[q] = None
  BY DEF Templates!FreshInv
<1>3. Templates!TypeOK'
  <2>1. promptHistory' \in Seq(Templates!Template)
    BY <1>1 DEF Templates!TypeOK
  <2>2. promptDeleted' \in BOOLEAN
    BY DEF Templates!TypeOK
  <2>3. promptRaces' \in Nat /\ promptSaved' \subseteq PromptRequest
        /\ promptPc' \in [PromptRequest -> {"idle", "create", "version", "update", "restore",
               "done", "failed"}]
    BY DEF Templates!TypeOK, Templates!Goto
  <2>4. promptRead' \in [PromptRequest -> Templates!Template \cup {None}]
    BY <1>1 DEF Templates!TypeOK
  <2> QED BY <1>1, <2>1, <2>2, <2>3, <2>4 DEF Templates!TypeOK
<1>4. Templates!ReadInv'
  BY <1>1, <1>2 DEF Templates!TypeOK, Templates!Goto, Templates!ReadInv
<1>5. Templates!FreshInv'
  BY <1>1 DEF Templates!FreshInv
<1>6. Templates!Known' = {promptTemplate'}
  <2>1. \A q \in PromptRequest : promptRead'[q] \in {None, promptTemplate'}
    BY <1>2 DEF Templates!TypeOK
  <2>2. \A i \in 1 .. Len(promptHistory') : promptHistory'[i] = promptTemplate'
    BY <1>2
  <2> QED BY <2>1, <2>2 DEF Templates!Known
<1>7. Templates!NumberInv'
  BY <1>6, <1>1 DEF Templates!NumberInv, Templates!Template
<1>8. Templates!LostInv'
  <2>1. promptSaved' \subseteq Templates!Kept'
    BY <1>1, <1>2 DEF Templates!Kept
  <2>2. IsFiniteSet(promptSaved')
    <3>1. IsFiniteSet({}) /\ IsFiniteSet({r})
      BY FS_EmptySet, FS_Singleton
    <3> QED BY <1>2, <3>1
  <2>3. promptSaved' \ Templates!Kept' = {}
    BY <2>1
  <2>4. Cardinality(promptSaved' \ Templates!Kept') = 0
    BY <2>3, FS_EmptySet
  <2>5. promptRaces' \in Nat
    BY DEF Templates!TypeOK
  <2>6. Cardinality(promptSaved' \ Templates!Kept') <= promptRaces'
    BY <2>4, <2>5
  <2> QED BY <2>2, <2>6, PromptFinite DEF Templates!LostInv
<1> QED BY <1>3, <1>4, <1>5, <1>7, <1>8

LEMMA PromptCommitCreateKeeps ==
    ASSUME Templates!PromptsAssumption, Templates!IInv, NEW r \in PromptRequest,
           Templates!CommitCreate(r)
    PROVE  Templates!IInv'
<1>1. CASE promptTemplate = None
  <2>1. /\ ~promptDeleted /\ promptDeleted' = promptDeleted /\ promptRaces' = promptRaces
        /\ promptHistory' = promptHistory /\ promptSaved' = promptSaved
        /\ promptTemplate' = [version |-> 1, text |-> r]
        /\ promptRead' = [promptRead EXCEPT ![r] = promptTemplate']
        /\ Templates!Goto(r, "version")
    BY <1>1 DEF Templates!CommitCreate
  <2> QED BY <1>1, <2>1, PromptFirstKeeps
<1>2. CASE promptTemplate # None
  <2>1. UNCHANGED <<promptTemplate, promptHistory, promptSaved, promptRaces, promptDeleted,
                    promptRead>> /\ Templates!Goto(r, "failed")
    BY <1>2 DEF Templates!CommitCreate
  <2>2. Templates!TypeOK' /\ Templates!ReadInv'
    BY <2>1 DEF Templates!IInv, Templates!Goto, Templates!TypeOK, Templates!ReadInv
  <2> QED BY <2>1, <2>2, PromptQuietKeeps
<1> QED BY <1>1, <1>2

LEMMA PromptSeedKeeps ==
    ASSUME Templates!PromptsAssumption, Templates!IInv, NEW r \in PromptRequest,
           Templates!Seed(r)
    PROVE  Templates!IInv'
  BY PromptFirstKeeps DEF Templates!Seed

\* What joins the history is known already, and its text is kept.
LEMMA PromptCommitVersionKeeps ==
    ASSUME Templates!PromptsAssumption, Templates!IInv, NEW r \in PromptRequest,
           Templates!CommitVersion(r)
    PROVE  Templates!IInv'
<1> USE DEF Templates!IInv
<1>1. /\ promptPc[r] = "version" /\ promptRead[r] # None /\ promptRead[r] \in Templates!Template
      /\ UNCHANGED <<promptTemplate, promptRaces, promptDeleted>>
      /\ promptRead' = [promptRead EXCEPT ![r] = None]
  BY DEF Templates!CommitVersion, Templates!TypeOK, Templates!ReadInv
<1>2. CASE UNCHANGED <<promptHistory, promptSaved>> /\ Templates!Goto(r, "failed")
  <2>1. Templates!TypeOK' /\ Templates!ReadInv'
    BY <1>1, <1>2 DEF Templates!Goto, Templates!TypeOK, Templates!ReadInv
  <2>2. \A q \in PromptRequest : promptRead'[q] \in {promptRead[q], promptTemplate, None}
    BY <1>1 DEF Templates!TypeOK
  <2> QED BY <1>1, <1>2, <2>1, <2>2, PromptQuietKeeps
<1>3. CASE /\ promptTemplate # None /\ promptHistory' = Append(promptHistory, promptRead[r])
           /\ promptSaved' = promptSaved \cup {r} /\ Templates!Goto(r, "done")
  <2>1. /\ promptHistory' \in Seq(Templates!Template)
        /\ Len(promptHistory') = Len(promptHistory) + 1
        /\ promptHistory'[Len(promptHistory) + 1] = promptRead[r] /\ Len(promptHistory) \in Nat
        /\ \A i \in 1 .. Len(promptHistory) : promptHistory'[i] = promptHistory[i]
    BY <1>1, <1>3 DEF Templates!TypeOK
  <2>2. Templates!TypeOK' /\ Templates!ReadInv'
    BY <1>1, <1>3, <2>1 DEF Templates!Goto, Templates!TypeOK, Templates!ReadInv
  <2>3. Templates!FreshInv'
    BY <1>1, <1>3 DEF Templates!FreshInv
  <2>4. Templates!Known' \subseteq Templates!Known
    <3>1. \A q \in PromptRequest : promptRead'[q] # None => promptRead'[q] = promptRead[q]
      BY <1>1 DEF Templates!TypeOK
    <3>2. \A i \in 1 .. Len(promptHistory') : promptHistory'[i] \in Templates!Known
      BY <1>1, <2>1 DEF Templates!Known
    <3> QED BY <1>1, <3>1, <3>2 DEF Templates!Known
  <2>5. Templates!NumberInv'
    BY <1>1, <2>4 DEF Templates!NumberInv
  <2>6. ~promptDeleted => Templates!LostInv'
    <3>1. r \in Templates!Kept' /\ \A t \in Templates!Kept : t \in promptSaved'
            => t \in Templates!Kept'
      BY <1>1, <1>3, <2>1 DEF Templates!Kept, Templates!ReadInv
    <3> QED BY <1>1, <1>3, <3>1, PromptKeptStays, FS_Singleton DEF Templates!TypeOK
  <2>7. promptDeleted => Templates!LostInv'
    <3>1. IsFiniteSet(promptSaved')
      BY <1>3, FS_AddElement, PromptFinite DEF Templates!LostInv
    <3> QED BY <1>1, <3>1, PromptFinite DEF Templates!LostInv
  <2> QED BY <2>2, <2>3, <2>5, <2>6, <2>7
<1> QED BY <1>2, <1>3 DEF Templates!CommitVersion

-----------------------------------------------------------------------------
(* Changes *)

LEMMA PromptReadKeeps ==
    ASSUME Templates!PromptsAssumption, Templates!IInv, NEW r \in PromptRequest,
           Templates!ReadTemplate(r)
    PROVE  Templates!IInv'
<1> USE DEF Templates!IInv
<1>1. Templates!TypeOK' /\ Templates!ReadInv'
  BY DEF Templates!ReadTemplate, Templates!Goto, Templates!TypeOK, Templates!ReadInv
<1>2. \A q \in PromptRequest : promptRead'[q] \in {promptRead[q], promptTemplate, None}
  BY DEF Templates!ReadTemplate, Templates!TypeOK
<1> QED BY <1>1, <1>2, PromptQuietKeeps DEF Templates!ReadTemplate

\* What was read becomes a version and the text a new one is replaced by goes: it
\* is the one that was read, unless another request has committed since.
LEMMA PromptReplaceKeeps ==
    ASSUME Templates!PromptsAssumption, Templates!IInv, NEW r \in PromptRequest,
           NEW text \in PromptRequest,
           promptPc[r] \in {"update", "restore"}, Templates!Replace(r, text),
           promptRead' = [promptRead EXCEPT ![r] = None], UNCHANGED promptDeleted
    PROVE  Templates!IInv'
<1> USE DEF Templates!IInv
<1>1. /\ promptRead[r] # None /\ promptRead[r] \in Templates!Template
      /\ promptRead[r].version < PromptVersions
      /\ \A q \in PromptRequest : promptRead'[q] # None => promptRead'[q] = promptRead[q]
      /\ promptRead' \in [PromptRequest -> Templates!Template \cup {None}]
      /\ promptRaces \in Nat
  BY DEF Templates!TypeOK, Templates!ReadInv
<1>2. CASE promptTemplate = None
  <2>1. UNCHANGED <<promptTemplate, promptHistory, promptSaved, promptRaces, promptDeleted>>
        /\ Templates!Goto(r, "failed")
    BY <1>2 DEF Templates!Replace
  <2>2. Templates!TypeOK' /\ Templates!ReadInv'
    BY <1>1, <2>1 DEF Templates!Goto, Templates!TypeOK, Templates!ReadInv
  <2>3. \A q \in PromptRequest : promptRead'[q] \in {promptRead[q], promptTemplate, None}
    BY <1>1 DEF Templates!TypeOK
  <2> QED BY <2>1, <2>2, <2>3, PromptQuietKeeps
<1>3. CASE promptTemplate # None
  <2>1. /\ promptTemplate' = Templates!Written(r, text)
        /\ promptHistory' = Append(promptHistory, promptRead[r])
        /\ promptSaved' = promptSaved \cup {promptTemplate'.text} /\ Templates!Goto(r, "done")
        /\ promptRaces' = promptRaces + (IF promptTemplate = promptRead[r] THEN 0 ELSE 1)
    BY <1>3 DEF Templates!Replace
  <2>2. /\ promptHistory' \in Seq(Templates!Template)
        /\ Len(promptHistory') = Len(promptHistory) + 1
        /\ promptHistory'[Len(promptHistory) + 1] = promptRead[r] /\ Len(promptHistory) \in Nat
        /\ \A i \in 1 .. Len(promptHistory) : promptHistory'[i] = promptHistory[i]
    BY <1>1, <2>1 DEF Templates!TypeOK
  <2>3. /\ promptTemplate' \in Templates!Template /\ promptTemplate' # None
        /\ promptTemplate'.version = promptRead[r].version + 1
    BY <1>1, <1>3, <2>1 DEF Templates!Written, Templates!TypeOK, Templates!Template,
         Templates!PromptsAssumption
  <2>4. Templates!TypeOK' /\ Templates!ReadInv' /\ Templates!FreshInv'
    <3>1. promptSaved' \subseteq PromptRequest
      BY <2>1, <2>3 DEF Templates!TypeOK, Templates!Template
    <3>2. Templates!TypeOK'
      BY <1>1, <2>1, <2>2, <2>3, <3>1 DEF Templates!TypeOK, Templates!Goto
    <3>3. Templates!ReadInv'
      BY <1>1, <2>1, <2>3 DEF Templates!ReadInv, Templates!Goto, Templates!TypeOK
    <3> QED BY <2>3, <3>2, <3>3 DEF Templates!FreshInv
  <2>5. Templates!NumberInv'
    <3> SUFFICES ASSUME ~promptDeleted, promptRaces' = 0
                 PROVE  /\ \A k \in Templates!Known' : k.version <= promptTemplate'.version
                        /\ \A j, k \in Templates!Known' : j.version = k.version => j.text
                             = k.text
      BY DEF Templates!NumberInv
    <3>1. promptRaces = 0 /\ promptTemplate = promptRead[r]
      BY <1>1, <2>1
    <3>2. /\ \A k \in Templates!Known : k.version <= promptTemplate.version
          /\ \A j, k \in Templates!Known : j.version = k.version => j.text = k.text
      BY <1>3, <3>1 DEF Templates!NumberInv
    <3>3. Templates!Known' \subseteq Templates!Known \cup {promptTemplate'}
      <4>1. \A i \in 1 .. Len(promptHistory') : promptHistory'[i] \in Templates!Known
        BY <1>1, <2>2 DEF Templates!Known
      <4> QED BY <1>1, <4>1 DEF Templates!Known
    <3>4. promptTemplate.version \in Nat /\ promptTemplate'.version = promptTemplate.version + 1
      BY <1>1, <2>3, <3>1 DEF Templates!Template
    <3>5. Templates!Known \subseteq Templates!Template
      BY <1>3 DEF Templates!Known, Templates!TypeOK
    <3>6. \A k \in Templates!Known : k.version \in Nat /\ k.version < promptTemplate'.version
      BY <3>2, <3>4, <3>5 DEF Templates!Template
    <3> QED BY <3>2, <3>3, <3>4, <3>6
  <2>6. IsFiniteSet(promptSaved')
    BY <2>1, FS_AddElement, PromptFinite DEF Templates!LostInv
  <2>7. ~promptDeleted => Cardinality(promptSaved' \ Templates!Kept') <= promptRaces'
    <3> SUFFICES ASSUME ~promptDeleted
                 PROVE  Cardinality(promptSaved' \ Templates!Kept') <= promptRaces'
      OBVIOUS
    <3>1. promptTemplate'.text \in Templates!Kept'
      BY <2>1, <2>3 DEF Templates!Kept
    <3>2. \A t \in Templates!Kept : t \in Templates!Kept' \/ t = promptTemplate.text
      BY <2>1, <2>2 DEF Templates!Kept
    <3>3. IsFiniteSet(promptSaved \ Templates!Kept)
          /\ Cardinality(promptSaved \ Templates!Kept) \in Nat
          /\ Cardinality(promptSaved \ Templates!Kept) <= promptRaces
      BY FS_Difference, FS_CardinalityType, PromptFinite DEF Templates!LostInv
    <3>4. CASE promptTemplate = promptRead[r]
      <4>1. promptTemplate.text \in promptSaved => promptTemplate.text \in Templates!Kept'
        BY <2>1, <2>2, <3>4 DEF Templates!Kept
      <4>2. promptSaved' \ Templates!Kept' \in SUBSET (promptSaved \ Templates!Kept)
        BY <2>1, <3>1, <3>2, <4>1
      <4>3. Cardinality(promptSaved' \ Templates!Kept')
              <= Cardinality(promptSaved \ Templates!Kept)
              /\ Cardinality(promptSaved' \ Templates!Kept') \in Nat
        BY <3>3, <4>2, FS_Subset, FS_CardinalityType
      <4> QED BY <1>1, <2>1, <3>3, <3>4, <4>3
    <3>5. CASE promptTemplate # promptRead[r]
      <4>1. promptSaved' \ Templates!Kept' \in SUBSET ((promptSaved \ Templates!Kept)
              \cup {promptTemplate.text})
        BY <2>1, <3>1, <3>2
      <4>2. /\ IsFiniteSet((promptSaved \ Templates!Kept) \cup {promptTemplate.text})
            /\ Cardinality((promptSaved \ Templates!Kept) \cup {promptTemplate.text})
                 <= Cardinality(promptSaved \ Templates!Kept) + 1
        BY <3>3, FS_AddElement
      <4>3. /\ Cardinality(promptSaved' \ Templates!Kept')
                 <= Cardinality((promptSaved \ Templates!Kept) \cup {promptTemplate.text})
            /\ Cardinality(promptSaved' \ Templates!Kept') \in Nat
            /\ Cardinality((promptSaved \ Templates!Kept) \cup {promptTemplate.text}) \in Nat
        BY <4>1, <4>2, FS_Subset, FS_CardinalityType
      <4> QED BY <1>1, <2>1, <3>3, <3>5, <4>2, <4>3
    <3> QED BY <3>4, <3>5
  <2>8. Templates!LostInv'
    BY <2>6, <2>7, PromptFinite DEF Templates!LostInv
  <2> QED BY <2>4, <2>5, <2>8
<1> QED BY <1>2, <1>3

LEMMA PromptUpdateKeeps ==
    ASSUME Templates!PromptsAssumption, Templates!IInv, NEW r \in PromptRequest,
           Templates!Update(r)
    PROVE  Templates!IInv'
  BY PromptReplaceKeeps DEF Templates!Update

LEMMA PromptRestoreKeeps ==
    ASSUME Templates!PromptsAssumption, Templates!IInv, NEW r \in PromptRequest,
           NEW v \in 1 .. PromptVersions,
           Templates!Restore(r, v)
    PROVE  Templates!IInv'
<1>1. CASE Cardinality(Templates!Numbered(v)) = 1
  <2>1. PICK i \in Templates!Numbered(v) : Templates!Replace(r, promptHistory[i].text)
    BY <1>1, PromptFinite DEF Templates!Restore
  <2>2. promptHistory[i] \in Templates!Template
    BY DEF Templates!Numbered, Templates!IInv, Templates!TypeOK
  <2>4. promptHistory[i].text \in PromptRequest
    BY <2>2 DEF Templates!Template
  <2>3. promptPc[r] = "restore" /\ promptRead' = [promptRead EXCEPT ![r] = None]
        /\ UNCHANGED promptDeleted
    BY PromptFinite DEF Templates!Restore
  <2> QED BY <2>1, <2>3, <2>4, PromptReplaceKeeps
<1>2. CASE Cardinality(Templates!Numbered(v)) # 1
  <2>1. /\ UNCHANGED <<promptTemplate, promptHistory, promptSaved, promptRaces,
                       promptDeleted>> /\ Templates!Goto(r, "failed")
        /\ promptRead' = [promptRead EXCEPT ![r] = None]
    BY <1>2, PromptFinite DEF Templates!Restore
  <2>2. Templates!TypeOK' /\ Templates!ReadInv'
    BY <2>1 DEF Templates!IInv, Templates!Goto, Templates!TypeOK, Templates!ReadInv
  <2>3. \A q \in PromptRequest : promptRead'[q] \in {promptRead[q], promptTemplate, None}
    BY <2>1 DEF Templates!IInv, Templates!TypeOK
  <2> QED BY <2>1, <2>2, <2>3, PromptQuietKeeps
<1> QED BY <1>1, <1>2

LEMMA PromptDeleteKeeps ==
    ASSUME Templates!PromptsAssumption, Templates!IInv, NEW r \in PromptRequest,
           Templates!Delete(r)
    PROVE  Templates!IInv'
<1>1. /\ promptTemplate' = None /\ promptHistory' = <<>> /\ promptDeleted' = TRUE
      /\ Templates!Goto(r, "done")
      /\ UNCHANGED <<promptRead, promptSaved, promptRaces>>
  BY DEF Templates!Delete
<1>2. promptDeleted' \in BOOLEAN /\ promptDeleted'
  BY <1>1
<1>3. Templates!TypeOK' /\ Templates!ReadInv'
  BY <1>1, <1>2 DEF Templates!IInv, Templates!TypeOK, Templates!ReadInv, Templates!Goto
<1> QED BY <1>1, <1>2, <1>3, PromptFinite DEF Templates!IInv, Templates!FreshInv,
             Templates!NumberInv,
             Templates!LostInv

LEMMA PromptNextInv ==
    ASSUME Templates!PromptsAssumption
    PROVE  Templates!IInv /\ [Templates!Next]_Templates!vars => Templates!IInv'
<1> SUFFICES ASSUME Templates!IInv, [Templates!Next]_Templates!vars
             PROVE  Templates!IInv'
  OBVIOUS
<1>1. CASE UNCHANGED Templates!vars
  BY <1>1, PromptFinite DEF Templates!vars, Templates!IInv, Templates!TypeOK, Templates!ReadInv,
       Templates!FreshInv, Templates!NumberInv, Templates!LostInv, Templates!Known,
       Templates!Kept
<1> QED BY <1>1, PromptCreateKeeps, PromptCommitCreateKeeps, PromptCommitVersionKeeps,
             PromptSeedKeeps, PromptReadKeeps,
           PromptUpdateKeeps, PromptRestoreKeeps, PromptDeleteKeeps DEF Templates!Next

LEMMA PromptInvProperty ==
    ASSUME Templates!PromptsAssumption, Templates!IInv
    PROVE  Templates!HistoryKeepsTexts
<1> SUFFICES ASSUME ~promptDeleted, promptRaces = 0, NEW i \in 1 .. Len(promptHistory),
    NEW j \in 1 .. Len(promptHistory),
                    promptHistory[i].version = promptHistory[j].version
             PROVE  promptHistory[i].text = promptHistory[j].text
  BY PromptFinite DEF Templates!HistoryKeepsTexts, Templates!IInv, Templates!LostInv
<1>1. promptTemplate # None
  BY DEF Templates!IInv, Templates!FreshInv
<1>2. promptHistory[i] \in Templates!Known /\ promptHistory[j] \in Templates!Known
  BY DEF Templates!Known
<1> QED BY <1>1, <1>2 DEF Templates!IInv, Templates!NumberInv

LEMMA PromptInvariance == ServicesSpec => []Templates!IInv
<1>1. ServicesInit => Templates!IInv
  BY PromptInitInv, ServicesAssumption DEF ServicesInit, ServicesAssumption
<1>2. Templates!IInv /\ [ServicesNext]_servicesVars => Templates!IInv'
  <2> SUFFICES ASSUME Templates!IInv, [ServicesNext]_servicesVars
               PROVE  Templates!IInv'
    OBVIOUS
  <2>1. Templates!Next \/ UNCHANGED promptVars
    BY DEF ServicesNext, Still, servicesVars
  <2>2. [Templates!Next]_Templates!vars
    BY <2>1 DEF promptVars, Templates!vars
  <2>3. Templates!PromptsAssumption
    BY ServicesAssumption DEF ServicesAssumption
  <2> QED BY <2>2, <2>3, PromptNextInv
<1> QED BY <1>1, <1>2, PTL DEF ServicesSpec

\* A saved text can be looked up again but for one text for each commit over a template
\* that had changed, for any number of requests and versions.
THEOREM HistoryKeepsTextsHolds == ServicesSpec => []HistoryKeepsTexts
<1>1. Templates!IInv => HistoryKeepsTexts
  BY PromptInvProperty, ServicesAssumption DEF HistoryKeepsTexts, ServicesAssumption
<1> QED BY <1>1, PromptInvariance, PTL

-----------------------------------------------------------------------------
(* Organizations *)

\* The cardinality of the instance is that of the library's theorems.
LEMMA TreeFinite ==
    \A S : Orgs!Cardinality(S) = Cardinality(S) /\ Orgs!IsFiniteSet(S) = IsFiniteSet(S)
<1>1. \A S : Orgs!IsFiniteSet(S) = IsFiniteSet(S)
  BY DEF Orgs!IsFiniteSet, IsFiniteSet
<1>2. \A S : Orgs!Cardinality(S) = Cardinality(S)
  BY DEF Orgs!Cardinality, Cardinality, Orgs!IsFiniteSet, IsFiniteSet
<1> QED BY <1>1, <1>2

\* What is above an organization: itself, and what is above its parent.
LEMMA TreePathStep ==
    ASSUME NEW f, NEW o \in DOMAIN f,
           \A x \in DOMAIN f : f[x] = None \/ f[x] \in DOMAIN f
    PROVE  /\ Orgs!Path(f, o) \subseteq DOMAIN f /\ o \in Orgs!Path(f, o)
           /\ f[o] = None => Orgs!Path(f, o) = {o}
           /\ f[o] # None => Orgs!Path(f, o) = {o} \cup Orgs!Path(f, f[o])
<1> DEFINE Up(S) == \A x \in S : f[x] = None \/ f[x] \in S
           D == DOMAIN f
<1>1. \A a, c : a \in Orgs!Path(f, c) <=> a \in D /\ \A up \in SUBSET D : c \in up /\ Up(up)
        => a \in up
  BY DEF Orgs!Path
<1>2. Orgs!Path(f, o) \subseteq D /\ o \in Orgs!Path(f, o)
  BY <1>1
<1>3. ASSUME f[o] = None
      PROVE  Orgs!Path(f, o) = {o}
  <2>1. {o} \in SUBSET D /\ Up({o})
    BY <1>3
  <2>2. \A a : a \in Orgs!Path(f, o) => a \in {o}
    BY <1>1, <2>1
  <2> QED BY <1>2, <2>2
<1>4. ASSUME f[o] # None
      PROVE  Orgs!Path(f, o) = {o} \cup Orgs!Path(f, f[o])
  <2> DEFINE p == f[o]
             P == Orgs!Path(f, p)
  <2>1. p \in D /\ P \subseteq D /\ p \in P
    BY <1>1, <1>4
  <2>2. Up(P)
    <3> SUFFICES ASSUME NEW x \in P, f[x] # None
                 PROVE  f[x] \in P
      OBVIOUS
    <3>1. x \in D /\ f[x] \in D
      BY <2>1
    <3>2. ASSUME NEW up \in SUBSET D, p \in up, Up(up)
          PROVE  f[x] \in up
      <4>1. x \in up
        BY <1>1, <3>2
      <4> QED BY <3>2, <4>1
    <3> QED BY <1>1, <3>1, <3>2
  <2>3. ASSUME NEW a \in Orgs!Path(f, o)
        PROVE  a \in {o} \cup P
    <3>1. {o} \cup P \in SUBSET D /\ o \in {o} \cup P /\ Up({o} \cup P)
      BY <2>1, <2>2
    <3> HIDE DEF P, Up
    <3> QED BY <1>1, <3>1
  <2>4. ASSUME NEW a \in P
        PROVE  a \in Orgs!Path(f, o)
    <3>1. ASSUME NEW up \in SUBSET D, o \in up, Up(up)
          PROVE  a \in up
      <4>1. p \in up
        BY <1>4, <3>1
      <4> QED BY <1>1, <3>1, <4>1
    <3>2. a \in D
      BY <2>1
    <3> QED BY <1>1, <3>1, <3>2
  <2> QED BY <1>2, <2>3, <2>4
<1> QED BY <1>2, <1>3, <1>4

\* The rows of a tree as functions.
LEMMA TreeRowsStep ==
    ASSUME Orgs!IInv
    PROVE  /\ DOMAIN orgStored \subseteq Org
           /\ \A x \in DOMAIN orgStored :
                 /\ orgStored[x].level \in Int
                 /\ orgStored[x] = [parent |-> orgStored[x].parent,
                        level |-> orgStored[x].level]
                 /\ orgStored[x].parent # None => orgStored[x].parent \in DOMAIN orgStored
           /\ DOMAIN Orgs!ParentsOf(orgStored) = DOMAIN orgStored
           /\ \A x \in DOMAIN orgStored : Orgs!ParentsOf(orgStored)[x] = orgStored[x].parent
<1>1. PICK orgs \in SUBSET Org : orgStored \in [orgs -> [parent : Org \cup {None}, level : Int]]
  BY DEF Orgs!IInv
<1>2. DOMAIN orgStored = orgs
  BY <1>1
<1>3. \A x \in DOMAIN orgStored : orgStored[x].parent # None
        => orgStored[x].parent \in DOMAIN orgStored
  BY DEF Orgs!IInv, Orgs!TreeStaysWhole, Orgs!Consistent
<1> QED BY <1>1, <1>2, <1>3 DEF Orgs!ParentsOf

\* Below an organization o: o itself, and what has its parent there.
LEMMA TreeSubtreeStep ==
    ASSUME Orgs!OrganizationsAssumption, Orgs!IInv, NEW o \in DOMAIN orgStored
    PROVE  /\ Orgs!Subtree(orgStored, o) \subseteq DOMAIN orgStored
           /\ o \in Orgs!Subtree(orgStored, o)
           /\ \A x \in Orgs!Subtree(orgStored,
                  o) \ {o} : orgStored[x].parent \in Orgs!Subtree(orgStored, o)
           /\ \A x \in DOMAIN orgStored \ Orgs!Subtree(orgStored,
                  o) : orgStored[x].parent \notin Orgs!Subtree(orgStored, o)
<1> DEFINE f == Orgs!ParentsOf(orgStored)
<1>1. /\ DOMAIN f = DOMAIN orgStored
      /\ \A x \in DOMAIN orgStored : f[x] = orgStored[x].parent /\ (f[x] = None
         \/ f[x] \in DOMAIN f)
  BY TreeRowsStep
<1>2. \A x : x \in Orgs!Subtree(orgStored, o) <=> x \in DOMAIN orgStored /\ o \in Orgs!Path(f,
                                                                                x)
  BY DEF Orgs!Subtree
<1> HIDE DEF f
<1>3. \A x \in DOMAIN f :
         /\ x \in Orgs!Path(f, x)
         /\ f[x] = None => Orgs!Path(f, x) = {x}
         /\ f[x] # None => Orgs!Path(f, x) = {x} \cup Orgs!Path(f, f[x])
  BY <1>1, TreePathStep
<1>4. ASSUME NEW x \in Orgs!Subtree(orgStored, o) \ {o}
      PROVE  orgStored[x].parent \in Orgs!Subtree(orgStored, o)
  <2>1. x \in DOMAIN f /\ o \in Orgs!Path(f, x) /\ x # o
    BY <1>1, <1>2, <1>4
  <2>2. f[x] # None /\ o \in Orgs!Path(f, f[x])
    BY <1>3, <2>1
  <2> QED BY <1>1, <1>2, <2>1, <2>2
<1>5. ASSUME NEW x \in DOMAIN orgStored, orgStored[x].parent \in Orgs!Subtree(orgStored, o)
      PROVE  x \in Orgs!Subtree(orgStored, o)
  <2>1. x \in DOMAIN f /\ f[x] \in DOMAIN f /\ o \in Orgs!Path(f, f[x])
    BY <1>1, <1>2, <1>5
  <2>2. f[x] # None
    <3>1. None \notin DOMAIN orgStored
      BY TreeRowsStep, TreeFinite DEF Orgs!OrganizationsAssumption
    <3> QED BY <1>1, <2>1, <3>1
  <2>3. o \in Orgs!Path(f, x)
    BY <1>3, <2>1, <2>2
  <2> QED BY <1>2, <2>3
<1> QED BY <1>1, <1>2, <1>3, <1>4, <1>5

LEMMA TreeInvProperty ==
    ASSUME Orgs!OrganizationsAssumption, Orgs!IInv
    PROVE  Orgs!TreeStaysWhole
  BY DEF Orgs!IInv

\* In a tree without cycles the number of organizations above one is its level.
LEMMA TreeTreesAreWhole ==
    ASSUME Orgs!OrganizationsAssumption, NEW tree \in Orgs!Trees
    PROVE  /\ \E orgs \in SUBSET Org : tree \in [orgs -> [parent : Org \cup {None},
                  level : Int]]
           /\ Orgs!Consistent(tree)
<1> DEFINE Roots(f, o) == {r \in Orgs!Path(f, o) : f[r] = None}
           Level(f, o) == Cardinality(Orgs!Path(f, o)) - (IF DefaultOrg \in Roots(f,
           o) THEN 1 ELSE 0)
<1>1. PICK f \in Orgs!Parents :
            /\ \A o \in DOMAIN f : f[o] = None \/ o \notin Orgs!Path(f, f[o])
            /\ tree = [o \in DOMAIN f |-> [parent |-> f[o], level |-> Level(f, o)]]
  BY TreeFinite DEF Orgs!Trees
<1>2. /\ DOMAIN f \subseteq Org
      /\ \A o \in DOMAIN f : f[o] = None \/ f[o] \in DOMAIN f
  BY DEF Orgs!Parents
<1>3. ASSUME NEW o \in DOMAIN f
      PROVE  /\ Orgs!Path(f, o) \subseteq DOMAIN f /\ o \in Orgs!Path(f, o)
             /\ f[o] = None => Orgs!Path(f, o) = {o}
             /\ f[o] # None => Orgs!Path(f, o) = {o} \cup Orgs!Path(f, f[o])
  BY <1>2, TreePathStep
<1>4. \A o \in DOMAIN f : IsFiniteSet(Orgs!Path(f, o)) /\ Cardinality(Orgs!Path(f, o)) \in Nat
  BY <1>2, <1>3, FS_Subset, FS_CardinalityType, TreeFinite DEF Orgs!OrganizationsAssumption
<1>5. \A o \in DOMAIN f : Level(f, o) \in Int
  BY <1>4
<1> HIDE DEF Level
<1>6. tree \in [DOMAIN f -> [parent : Org \cup {None}, level : Int]]
  BY <1>1, <1>2, <1>5
<1>7. ASSUME NEW o \in DOMAIN f, f[o] = None
      PROVE  Level(f, o) = Orgs!RootLevel(o)
  <2>1. Orgs!Path(f, o) = {o}
    BY <1>3, <1>7
  <2>2. Cardinality({o}) = 1
    BY FS_Singleton
  <2>3. DefaultOrg \in Roots(f, o) <=> o = DefaultOrg
    BY <1>7, <2>1
  <2> QED BY <2>1, <2>2, <2>3 DEF Level, Orgs!RootLevel
<1>8. ASSUME NEW o \in DOMAIN f, f[o] # None
      PROVE  f[o] \in DOMAIN f /\ Level(f, o) = Level(f, f[o]) + 1
  <2>1. Orgs!Path(f, o) = {o} \cup Orgs!Path(f, f[o]) /\ f[o] \in DOMAIN f
    BY <1>2, <1>3, <1>8
  <2>2. o \notin Orgs!Path(f, f[o])
    BY <1>1, <1>8
  <2>3. Cardinality(Orgs!Path(f, o)) = Cardinality(Orgs!Path(f, f[o])) + 1
    <3> DEFINE above == Orgs!Path(f, f[o])
    <3>1. IsFiniteSet(above) /\ o \notin above /\ Orgs!Path(f, o) = above \cup {o}
      BY <1>4, <2>1, <2>2
    <3> HIDE DEF above
    <3>2. Cardinality(above \cup {o}) = Cardinality(above) + 1
      BY <3>1, FS_AddElement
    <3> QED BY <3>1, <3>2 DEF above
  <2>4. Roots(f, o) = Roots(f, f[o])
    BY <1>8, <2>1
  <2>5. Cardinality(Orgs!Path(f, f[o])) \in Nat
    BY <1>4, <2>1
  <2> HIDE DEF Roots
  <2> QED BY <2>1, <2>3, <2>4, <2>5 DEF Level
<1>9. \A o \in DOMAIN tree : o \in DOMAIN f /\ tree[o].parent = f[o] /\ tree[o].level
        = Level(f, o)
  BY <1>1
<1>10. Orgs!Consistent(tree)
  <2> SUFFICES ASSUME NEW o \in DOMAIN tree
               PROVE  IF tree[o].parent = None THEN tree[o].level \in {Orgs!RootLevel(o), 1}
                      ELSE /\ tree[o].parent \in DOMAIN tree
                           /\ tree[o].level = tree[tree[o].parent].level + 1
    BY DEF Orgs!Consistent
  <2>1. DOMAIN tree = DOMAIN f
    BY <1>1
  <2> QED BY <1>7, <1>8, <1>9, <2>1
<1> QED BY <1>2, <1>6, <1>10

LEMMA TreeInitInv ==
    ASSUME Orgs!OrganizationsAssumption, Orgs!Init
    PROVE  Orgs!IInv
<1>1. orgStored \in Orgs!Trees /\ orgView = None
  BY DEF Orgs!Init
<1>2. \A u \in OrgUser : orgMember[u] # None => orgMember[u] \in DOMAIN orgStored
  BY DEF Orgs!Init
<1> QED BY <1>1, <1>2, TreeTreesAreWhole DEF Orgs!IInv, Orgs!TreeStaysWhole

\* A new organization is a level below its parent.
LEMMA TreeCreateKeeps ==
    ASSUME Orgs!OrganizationsAssumption, Orgs!IInv, NEW o \in Org \ DOMAIN orgStored,
           NEW p \in DOMAIN orgStored \cup {None}
    PROVE  Orgs!Consistent(Orgs!With(o, p))
<1>1. /\ \A x \in DOMAIN orgStored :
            orgStored[x].parent # None => orgStored[x].parent \in DOMAIN orgStored
      /\ None \notin DOMAIN orgStored /\ o # None
  BY TreeRowsStep, TreeFinite DEF Orgs!OrganizationsAssumption
<1>2. Orgs!Consistent(orgStored)
  BY DEF Orgs!IInv, Orgs!TreeStaysWhole
<1> DEFINE t == Orgs!With(o, p)
<1>3. /\ DOMAIN t = DOMAIN orgStored \cup {o} /\ t[o].parent = p
      /\ t[o].level = IF p = None THEN 1 ELSE orgStored[p].level + 1
      /\ \A x \in DOMAIN orgStored : t[x] = orgStored[x]
  BY DEF Orgs!With, Orgs!LevelUnder
<1> HIDE DEF t
<1> SUFFICES ASSUME NEW x \in DOMAIN t
             PROVE  IF t[x].parent = None THEN t[x].level \in {Orgs!RootLevel(x), 1}
                    ELSE t[x].parent \in DOMAIN t /\ t[x].level = t[t[x].parent].level + 1
  BY DEF Orgs!Consistent, t
<1>4. CASE x = o
  BY <1>3, <1>4
<1>5. CASE x \in DOMAIN orgStored
  BY <1>1, <1>2, <1>3, <1>5 DEF Orgs!Consistent
<1> QED BY <1>3, <1>4, <1>5

\* Levels are right after a move to an organization that is not below.
LEMMA TreeMoveKeeps ==
    ASSUME Orgs!OrganizationsAssumption, Orgs!IInv, NEW o \in DOMAIN orgStored,
           NEW p \in (DOMAIN orgStored \cup {None}) \ {o}, p \notin Orgs!Subtree(orgStored, o)
    PROVE  Orgs!Consistent(Orgs!Moved(o, p))
<1> DEFINE t == Orgs!Moved(o, p)
           S == Orgs!Subtree(orgStored, o)
           base == IF p = None THEN 1 ELSE orgStored[p].level + 1
<1>1. /\ S \subseteq DOMAIN orgStored /\ o \in S
      /\ \A x \in S \ {o} : orgStored[x].parent \in S
      /\ \A x \in DOMAIN orgStored \ S : orgStored[x].parent \notin S
  BY TreeSubtreeStep
<1>2. /\ \A x \in DOMAIN orgStored :
            /\ orgStored[x].level \in Int
            /\ orgStored[x].parent # None => orgStored[x].parent \in DOMAIN orgStored
      /\ None \notin DOMAIN orgStored
  BY TreeRowsStep, TreeFinite DEF Orgs!OrganizationsAssumption
<1>3. Orgs!Consistent(orgStored)
  BY DEF Orgs!IInv, Orgs!TreeStaysWhole
<1>4. /\ DOMAIN t = DOMAIN orgStored
      /\ \A x \in DOMAIN orgStored \ S : t[x] = orgStored[x]
      /\ \A x \in S : /\ t[x].parent = (IF x = o THEN p ELSE orgStored[x].parent)
                       /\ t[x].level = base + (orgStored[x].level - orgStored[o].level)
  BY <1>1 DEF Orgs!Moved, Orgs!LevelUnder
<1>5. base \in Int
  BY <1>2
<1> HIDE DEF t, S, base
<1> SUFFICES ASSUME NEW x \in DOMAIN t
             PROVE  IF t[x].parent = None THEN t[x].level \in {Orgs!RootLevel(x), 1}
                    ELSE t[x].parent \in DOMAIN t /\ t[x].level = t[t[x].parent].level + 1
  BY DEF Orgs!Consistent, t
<1>6. CASE x = o
  <2>1. t[x].parent = p /\ t[x].level = base
    BY <1>1, <1>2, <1>4, <1>5, <1>6
  <2>2. CASE p = None
    BY <2>1, <2>2 DEF base
  <2>3. CASE p # None
    <3>1. p \in DOMAIN orgStored \ S
      BY <2>3 DEF S
    <3> QED BY <1>4, <2>1, <2>3, <3>1 DEF base
  <2> QED BY <2>2, <2>3
<1>7. CASE x \in S /\ x # o
  <2> DEFINE q == orgStored[x].parent
  <2>1. q \in S /\ q \in DOMAIN orgStored /\ q # None /\ x \in DOMAIN orgStored
    BY <1>1, <1>2, <1>7
  <2>2. orgStored[x].level = orgStored[q].level + 1
    BY <1>3, <2>1 DEF Orgs!Consistent
  <2>3. /\ t[x].parent = q /\ t[x].level = base + (orgStored[x].level - orgStored[o].level)
        /\ t[q].level = base + (orgStored[q].level - orgStored[o].level)
    BY <1>4, <1>7, <2>1
  <2>4. orgStored[q].level \in Int /\ orgStored[o].level \in Int
    BY <1>1, <1>2, <2>1
  <2> HIDE DEF q
  <2>5. t[x].level = t[q].level + 1
    BY <1>5, <2>2, <2>3, <2>4
  <2> QED BY <1>4, <2>1, <2>3, <2>5
<1>8. CASE x \notin S
  <2>1. x \in DOMAIN orgStored /\ t[x] = orgStored[x] /\ orgStored[x].parent \notin S
    BY <1>1, <1>4, <1>8
  <2>2. CASE orgStored[x].parent = None
    BY <1>3, <2>1, <2>2 DEF Orgs!Consistent
  <2>3. CASE orgStored[x].parent # None
    <3>1. orgStored[x].parent \in DOMAIN orgStored /\ t[orgStored[x].parent]
            = orgStored[orgStored[x].parent]
      BY <1>2, <1>4, <2>1, <2>3
    <3>2. orgStored[x].level = orgStored[orgStored[x].parent].level + 1
      BY <1>3, <2>1, <2>3 DEF Orgs!Consistent
    <3> QED BY <1>4, <2>1, <2>3, <3>1, <3>2
  <2> QED BY <2>2, <2>3
<1> QED BY <1>6, <1>7, <1>8

\* What is left after a deletion has its parent left.
LEMMA TreeDeleteKeeps ==
    ASSUME Orgs!OrganizationsAssumption, Orgs!IInv, NEW orgs \in SUBSET DOMAIN orgStored
    PROVE  Orgs!Consistent([x \in DOMAIN orgStored \ Orgs!Gone(orgs) |-> orgStored[x]])
<1> DEFINE t == [x \in DOMAIN orgStored \ Orgs!Gone(orgs) |-> orgStored[x]]
<1>1. /\ DOMAIN t = DOMAIN orgStored \ Orgs!Gone(orgs)
      /\ \A x \in DOMAIN t : x \in DOMAIN orgStored /\ t[x] = orgStored[x]
  OBVIOUS
<1>2. ASSUME NEW x \in DOMAIN orgStored \ Orgs!Gone(orgs)
      PROVE  orgStored[x].parent \notin Orgs!Gone(orgs)
  <2> SUFFICES ASSUME NEW o \in orgs
               PROVE  orgStored[x].parent \notin Orgs!Subtree(orgStored, o)
    BY DEF Orgs!Gone
  <2>1. x \notin Orgs!Subtree(orgStored, o)
    BY DEF Orgs!Gone
  <2> QED BY <2>1, TreeSubtreeStep
<1>3. Orgs!Consistent(orgStored)
  BY DEF Orgs!IInv, Orgs!TreeStaysWhole
<1> HIDE DEF t
<1> QED BY <1>1, <1>2, <1>3 DEF Orgs!Consistent, t

LEMMA TreeNextInv ==
    ASSUME Orgs!OrganizationsAssumption, Orgs!IInv, [Orgs!Next]_Orgs!vars
    PROVE  Orgs!IInv'
<1>1. CASE Orgs!CreateDefault
  <2> DEFINE t == [o \in {DefaultOrg} |-> [parent |-> None, level |-> 0]]
  <2>1. orgStored' = t /\ orgView' = orgView /\ orgMoved' = orgMoved /\ orgMember'
          = orgMember /\ DOMAIN orgStored = {}
    BY <1>1 DEF Orgs!CreateDefault
  <2>2. t \in [{DefaultOrg} -> [parent : Org \cup {None}, level : Int]]
        /\ {DefaultOrg} \in SUBSET Org
    BY TreeFinite DEF Orgs!OrganizationsAssumption
  <2>3. Orgs!Consistent(t)
    BY DEF Orgs!Consistent, Orgs!RootLevel
  <2>4. \A u \in OrgUser : orgMember[u] = None
    BY <2>1 DEF Orgs!IInv, Orgs!TreeStaysWhole
  <2>5. orgView # None /\ ~orgMoved => Orgs!Consistent(orgView)
    BY DEF Orgs!IInv, Orgs!TreeStaysWhole
  <2> HIDE DEF t
  <2>6. \E orgs \in SUBSET Org : orgStored' \in [orgs -> [parent : Org \cup {None},
      level : Int]]
    BY <2>1, <2>2
  <2>7. Orgs!Consistent(orgStored)'
    BY <2>1, <2>3 DEF Orgs!Consistent
  <2>8. (orgView # None /\ ~orgMoved => Orgs!Consistent(orgView))'
    BY <2>1, <2>5 DEF Orgs!Consistent
  <2> QED BY <2>1, <2>4, <2>6, <2>7, <2>8 DEF Orgs!IInv, Orgs!TreeStaysWhole
<1> DEFINE Kept == orgStored' = orgStored /\ orgMember' = orgMember
<1>2. ASSUME Kept, orgView' # None /\ ~orgMoved' => Orgs!Consistent(orgView')
      PROVE  Orgs!IInv'
  <2>1. Orgs!Consistent(orgStored)' /\ (orgView # None /\ ~orgMoved
          => Orgs!Consistent(orgView))'
    BY <1>2 DEF Orgs!Consistent, Orgs!IInv, Orgs!TreeStaysWhole
  <2> QED BY <1>2, <2>1 DEF Orgs!IInv, Orgs!TreeStaysWhole
<1>3. ASSUME NEW o \in Org, NEW p \in Org \cup {None}, Orgs!Create(o, p)
      PROVE  Orgs!IInv'
  <2>1. Kept /\ orgView' = Orgs!With(o, p) /\ o \in Org \ DOMAIN orgStored
        /\ p \in DOMAIN orgStored \cup {None}
    BY <1>3 DEF Orgs!Create
  <2> QED BY <1>2, <2>1, TreeCreateKeeps
<1>4. ASSUME NEW o \in Org, NEW p \in Org \cup {None}, Orgs!Move(o, p)
      PROVE  Orgs!IInv'
  <2>1. /\ Kept /\ orgView' = Orgs!Moved(o, p) /\ orgMoved' = (p \in Orgs!Subtree(orgStored, o))
        /\ o \in DOMAIN orgStored /\ p \in (DOMAIN orgStored \cup {None}) \ {o}
    BY <1>4 DEF Orgs!Move
  <2> QED BY <1>2, <2>1, TreeMoveKeeps
<1>5. ASSUME NEW orgs \in SUBSET Org, Orgs!Delete(orgs)
      PROVE  Orgs!IInv'
  <2>1. /\ Kept /\ orgView' = [x \in DOMAIN orgStored \ Orgs!Gone(orgs) |-> orgStored[x]]
        /\ orgs \in SUBSET DOMAIN orgStored
    BY <1>5 DEF Orgs!Delete, Orgs!Restrict
  <2> QED BY <1>2, <2>1, TreeDeleteKeeps
<1>6. CASE Orgs!End
  BY <1>2, <1>6 DEF Orgs!End
<1>7. ASSUME NEW u \in OrgUser, NEW o \in DOMAIN orgStored \cup {None}, Orgs!ChangeMember(u, o)
      PROVE  Orgs!IInv'
  <2>1. orgMember' = [orgMember EXCEPT ![u] = o] /\ UNCHANGED <<orgStored, orgView, orgMoved>>
    BY <1>7 DEF Orgs!ChangeMember
  <2>2. \A v \in OrgUser : orgMember'[v] # None => orgMember'[v] \in DOMAIN orgStored
    <3> SUFFICES ASSUME NEW v \in OrgUser, orgMember'[v] # None
                 PROVE  orgMember'[v] \in DOMAIN orgStored
      OBVIOUS
    <3>1. \A w \in OrgUser : orgMember[w] # None => orgMember[w] \in DOMAIN orgStored
      BY DEF Orgs!IInv, Orgs!TreeStaysWhole
    <3> QED BY <2>1, <3>1
  <2>3. Orgs!Consistent(orgStored)' /\ (orgView # None /\ ~orgMoved
          => Orgs!Consistent(orgView))'
    BY <2>1 DEF Orgs!Consistent, Orgs!IInv, Orgs!TreeStaysWhole
  <2> QED BY <2>1, <2>2, <2>3 DEF Orgs!IInv, Orgs!TreeStaysWhole
<1>8. CASE UNCHANGED Orgs!vars
  BY <1>2, <1>8 DEF Orgs!vars, Orgs!IInv, Orgs!TreeStaysWhole
<1> HIDE DEF Kept
<1>9. CASE \E u \in OrgUser : Orgs!RemoveMember(u) \/ \E o \in Org : Orgs!AddMember(u, o)
  BY <1>7, <1>9 DEF Orgs!RemoveMember, Orgs!AddMember
<1> QED BY <1>1, <1>3, <1>4, <1>5, <1>6, <1>8, <1>9 DEF Orgs!Next

LEMMA TreeInvariance == ServicesSpec => []Orgs!IInv
<1>1. ServicesInit => Orgs!IInv
  BY TreeInitInv, ServicesAssumption DEF ServicesInit, ServicesAssumption
<1>2. Orgs!IInv /\ [ServicesNext]_servicesVars => Orgs!IInv'
  <2> SUFFICES ASSUME Orgs!IInv, [ServicesNext]_servicesVars
               PROVE  Orgs!IInv'
    OBVIOUS
  <2>1. Orgs!Next \/ UNCHANGED orgVars
    BY DEF ServicesNext, Still, servicesVars
  <2>2. [Orgs!Next]_Orgs!vars
    BY <2>1 DEF orgVars, Orgs!vars
  <2>3. Orgs!OrganizationsAssumption
    BY ServicesAssumption DEF ServicesAssumption
  <2> QED BY <2>2, <2>3, TreeNextInv
<1> QED BY <1>1, <1>2, PTL DEF ServicesSpec

\* A level is a number: no organization is above a root, and those below one are deeper.
LEMMA TreeLevels ==
    ASSUME Orgs!OrganizationsAssumption, NEW tree \in Orgs!Trees
    PROVE  \E orgs \in SUBSET Org : tree \in [orgs -> Orgs!Row]
<1> DEFINE Roots(f, o) == {r \in Orgs!Path(f, o) : f[r] = None}
           Level(f, o) == Cardinality(Orgs!Path(f, o)) -
                              (IF DefaultOrg \in Roots(f, o) THEN 1 ELSE 0)
<1>1. PICK f \in Orgs!Parents :
            tree = [o \in DOMAIN f |-> [parent |-> f[o], level |-> Level(f, o)]]
  BY TreeFinite DEF Orgs!Trees
<1>2. /\ DOMAIN f \subseteq Org /\ \A o \in DOMAIN f : f[o] \in Org \cup {None}
      /\ \A o \in DOMAIN f : f[o] = None \/ f[o] \in DOMAIN f
  BY DEF Orgs!Parents
<1>3. ASSUME NEW o \in DOMAIN f
      PROVE  Cardinality(Orgs!Path(f, o)) \in Nat \ {0}
  <2>1. Orgs!Path(f, o) \subseteq DOMAIN f /\ o \in Orgs!Path(f, o)
    BY <1>2, TreePathStep
  <2>2. IsFiniteSet(Orgs!Path(f, o))
    BY <1>2, <2>1, FS_Subset, TreeFinite DEF Orgs!OrganizationsAssumption
  <2> QED BY <2>1, <2>2, FS_CardinalityType, FS_EmptySet
<1>4. \A o \in DOMAIN f : Level(f, o) \in Nat
  <2> TAKE o \in DOMAIN f
  <2> DEFINE n == Cardinality(Orgs!Path(f, o))
             d == IF DefaultOrg \in Roots(f, o) THEN 1 ELSE 0
  <2>1. n \in Nat \ {0} /\ d \in {0, 1}
    BY <1>3
  <2> HIDE DEF n, d
  <2>2. n - d \in Nat
    BY <2>1
  <2> QED BY <2>2 DEF n, d
<1> HIDE DEF Level
<1> QED BY <1>1, <1>2, <1>4 DEF Orgs!Row

LEMMA TreeTypesInit ==
    ASSUME Orgs!OrganizationsAssumption, Orgs!Init
    PROVE  Orgs!TypeOK
<1>1. PICK orgs \in SUBSET Org : orgStored \in [orgs -> Orgs!Row]
  BY TreeLevels DEF Orgs!Init
<1>2. orgMember \in [OrgUser -> Org \cup {None}]
  BY <1>1 DEF Orgs!Init
<1>3. orgView = None /\ orgMoved = FALSE /\ orgAudited = FALSE /\ orgChanges = 0
  BY DEF Orgs!Init
<1>4. orgChanges \in 0 .. OrgChanges
  BY <1>3 DEF Orgs!OrganizationsAssumption
<1> QED BY <1>1, <1>2, <1>3, <1>4 DEF Orgs!TypeOK

\* Every tree that a request builds has numbers for levels.
LEMMA TreeBelowDeeper ==
    ASSUME Orgs!OrganizationsAssumption, Orgs!IInv, NEW o \in DOMAIN orgStored,
           NEW x \in Orgs!Subtree(orgStored, o)
    PROVE  orgStored[o].level <= orgStored[x].level
<1> DEFINE up == {y \in DOMAIN orgStored : orgStored[y].level <= orgStored[x].level}
           f == Orgs!ParentsOf(orgStored)
<1>1. x \in DOMAIN orgStored /\ o \in Orgs!Path(f, x)
  BY TreeRowsStep DEF Orgs!Subtree
<1>2. /\ DOMAIN f = DOMAIN orgStored
      /\ \A y \in DOMAIN orgStored :
            /\ orgStored[y].level \in Int /\ f[y] = orgStored[y].parent
            /\ orgStored[y].parent # None => orgStored[y].parent \in DOMAIN orgStored
  BY TreeRowsStep
<1>3. \A y \in DOMAIN orgStored : orgStored[y].parent # None =>
          orgStored[y].level = orgStored[orgStored[y].parent].level + 1
  BY DEF Orgs!IInv, Orgs!TreeStaysWhole, Orgs!Consistent
<1> HIDE DEF f
<1>4. x \in up /\ \A y \in up : f[y] = None \/ f[y] \in up
  <2>1. x \in up
    BY <1>1, <1>2
  <2>2. ASSUME NEW y \in up, f[y] # None
        PROVE  f[y] \in up
    <3> DEFINE p == orgStored[y].parent
    <3>1. p \in DOMAIN orgStored /\ f[y] = p /\ orgStored[y].level = orgStored[p].level + 1
      BY <1>2, <1>3, <2>2
    <3> HIDE DEF p
    <3>2. orgStored[p].level \in Int /\ orgStored[y].level \in Int
          /\ orgStored[x].level \in Int /\ orgStored[y].level <= orgStored[x].level
      BY <1>1, <1>2, <3>1
    <3>3. orgStored[p].level <= orgStored[x].level
      BY <3>1, <3>2
    <3> QED BY <3>1, <3>3
  <2> QED BY <2>1, <2>2
<1>5. up \in SUBSET DOMAIN f
  BY <1>2
<1>6. o \in up
  <2> HIDE DEF up
  <2> QED BY <1>1, <1>4, <1>5 DEF Orgs!Path
<1> QED BY <1>6

LEMMA TreeTypesNext ==
    ASSUME Orgs!OrganizationsAssumption, Orgs!IInv, Orgs!TypeOK, [Orgs!Next]_Orgs!vars
    PROVE  Orgs!TypeOK'
<1>1. PICK orgs \in SUBSET Org : orgStored \in [orgs -> Orgs!Row]
  BY DEF Orgs!TypeOK
<1>2. /\ DOMAIN orgStored = orgs /\ None \notin Org
      /\ \A x \in orgs : orgStored[x].parent \in Org \cup {None} /\ orgStored[x].level \in Nat
  BY <1>1 DEF Orgs!Row, Orgs!OrganizationsAssumption
<1> DEFINE Typed(t) == \E on \in SUBSET Org : t \in [on -> Orgs!Row]
<1>3. ASSUME orgStored' = orgStored, orgView' # None => Typed(orgView'),
             orgMoved' \in BOOLEAN, orgAudited' \in BOOLEAN,
             orgMember' = orgMember, orgChanges' = orgChanges
      PROVE  Orgs!TypeOK'
  BY <1>3 DEF Orgs!TypeOK, Orgs!Row
<1>4. /\ orgMoved \in BOOLEAN /\ orgAudited \in BOOLEAN /\ (orgView # None => Typed(orgView))
      /\ orgMember \in [OrgUser -> Org \cup {None}] /\ orgChanges \in 0 .. OrgChanges
      /\ OrgChanges \in Nat
  BY DEF Orgs!TypeOK, Orgs!OrganizationsAssumption
<1>5. CASE Orgs!CreateDefault
  <2> DEFINE t == [o \in {DefaultOrg} |-> [parent |-> None, level |-> 0]]
  <2>1. orgStored' = t
    BY <1>5 DEF Orgs!CreateDefault
  <2>2. {DefaultOrg} \in SUBSET Org /\ t \in [{DefaultOrg} -> Orgs!Row]
    BY DEF Orgs!Row, Orgs!OrganizationsAssumption
  <2>3. UNCHANGED <<orgView, orgMoved, orgMember, orgAudited, orgChanges>>
    BY <1>5 DEF Orgs!CreateDefault
  <2> HIDE DEF t
  <2>4. \E on \in SUBSET Org : orgStored' \in [on -> Orgs!Row]
    BY <2>1, <2>2
  <2> QED BY <1>4, <2>3, <2>4 DEF Orgs!TypeOK, Orgs!Row
<1>6. ASSUME NEW o \in Org, NEW p \in Org \cup {None}, Orgs!Create(o, p)
      PROVE  Orgs!TypeOK'
  <2>1. orgs \cup {o} \in SUBSET Org /\ p \in orgs \cup {None}
    BY <1>2, <1>6 DEF Orgs!Create
  <2> DEFINE l == Orgs!LevelUnder(orgStored, p)
  <2>2. l \in Nat
    BY <1>2, <2>1 DEF Orgs!LevelUnder
  <2> HIDE DEF l
  <2>3. [parent |-> p, level |-> l] \in Orgs!Row
    BY <2>2 DEF Orgs!Row
  <2>4. \A x \in orgs : orgStored[x] \in Orgs!Row
    BY <1>1
  <2>5. Orgs!With(o, p) = [x \in orgs \cup {o} |->
                              IF x = o THEN [parent |-> p, level |-> l] ELSE orgStored[x]]
    BY <1>2 DEF Orgs!With, l
  <2>6. Orgs!With(o, p) \in [orgs \cup {o} -> Orgs!Row]
    BY <2>3, <2>4, <2>5
  <2> QED BY <1>3, <1>4, <1>6, <2>1, <2>6 DEF Orgs!Create
<1>7. ASSUME NEW o \in Org, NEW p \in Org \cup {None}, Orgs!Move(o, p)
      PROVE  Orgs!TypeOK'
  <2>1. o \in orgs /\ p \in orgs \cup {None}
    BY <1>2, <1>7 DEF Orgs!Move
  <2> DEFINE l == Orgs!LevelUnder(orgStored, p)
             t == Orgs!Moved(o, p)
             S == Orgs!Subtree(orgStored, o)
             Row(x) == [parent |-> IF x = o THEN p ELSE orgStored[x].parent,
                        level |-> l + (orgStored[x].level - orgStored[o].level)]
  <2>2. l \in Nat
    BY <1>2, <2>1 DEF Orgs!LevelUnder
  <2>3. t = [x \in orgs |-> IF x \notin S THEN orgStored[x] ELSE Row(x)]
    BY <1>2 DEF Orgs!Moved
  <2>4. ASSUME NEW x \in orgs, x \in S
        PROVE  Row(x) \in Orgs!Row
    <3>1. orgStored[o].level <= orgStored[x].level
      BY <1>2, <2>1, <2>4, TreeBelowDeeper
    <3>2. orgStored[o].level \in Nat /\ orgStored[x].level \in Nat
          /\ orgStored[x].parent \in Org \cup {None}
      BY <1>2, <2>1
    <3> HIDE DEF l
    <3>3. l + (orgStored[x].level - orgStored[o].level) \in Nat
      BY <2>2, <3>1, <3>2
    <3> QED BY <3>2, <3>3 DEF Orgs!Row
  <2>5. \A x \in orgs : orgStored[x] \in Orgs!Row
    BY <1>1
  <2> HIDE DEF t, S, Row
  <2>6. t \in [orgs -> Orgs!Row]
    BY <2>3, <2>4, <2>5
  <2>7. Typed(t)
    BY <2>6
  <2> QED BY <1>3, <1>4, <1>7, <2>7 DEF Orgs!Move, t
<1>8. ASSUME NEW gone \in SUBSET Org, Orgs!Delete(gone)
      PROVE  Orgs!TypeOK'
  <2> DEFINE left == orgs \ Orgs!Gone(gone)
             t == [x \in left |-> orgStored[x]]
  <2>1. orgView' = t
    BY <1>2, <1>8 DEF Orgs!Delete, Orgs!Restrict
  <2>2. left \in SUBSET Org /\ t \in [left -> Orgs!Row]
    BY <1>1
  <2> HIDE DEF t, left
  <2>3. Typed(orgView')
    BY <2>1, <2>2
  <2> QED BY <1>3, <1>4, <1>8, <2>3 DEF Orgs!Delete
<1>9. CASE Orgs!End
  BY <1>3, <1>4, <1>9 DEF Orgs!End
<1>10. ASSUME NEW u \in OrgUser, NEW o \in Org \cup {None}, Orgs!ChangeMember(u, o)
       PROVE  Orgs!TypeOK'
  <2>1. orgMember' \in [OrgUser -> Org \cup {None}] /\ orgChanges' \in 0 .. OrgChanges
    BY <1>4, <1>10 DEF Orgs!ChangeMember
  <2>2. UNCHANGED <<orgStored, orgView, orgMoved, orgAudited>>
    BY <1>10 DEF Orgs!ChangeMember
  <2> QED BY <1>1, <1>4, <2>1, <2>2 DEF Orgs!TypeOK, Orgs!Row
<1>11. CASE UNCHANGED Orgs!vars
  BY <1>3, <1>4, <1>11 DEF Orgs!vars
<1> HIDE DEF Typed
<1>12. CASE \E u \in OrgUser : Orgs!RemoveMember(u) \/ \E o \in Org : Orgs!AddMember(u, o)
  BY <1>10, <1>12 DEF Orgs!RemoveMember, Orgs!AddMember
<1> QED BY <1>5, <1>6, <1>7, <1>8, <1>9, <1>11, <1>12 DEF Orgs!Next

LEMMA TreeTyped == ServicesSpec => []Orgs!TypeOK
<1>1. ServicesInit => Orgs!TypeOK
  BY TreeTypesInit, ServicesAssumption DEF ServicesInit, ServicesAssumption
<1>2. Orgs!IInv /\ Orgs!TypeOK /\ [ServicesNext]_servicesVars => Orgs!TypeOK'
  <2> SUFFICES ASSUME Orgs!IInv, Orgs!TypeOK, [ServicesNext]_servicesVars
               PROVE  Orgs!TypeOK'
    OBVIOUS
  <2>1. Orgs!Next \/ UNCHANGED orgVars
    BY DEF ServicesNext, Still, servicesVars
  <2>2. [Orgs!Next]_Orgs!vars
    BY <2>1 DEF orgVars, Orgs!vars
  <2>3. Orgs!OrganizationsAssumption
    BY ServicesAssumption DEF ServicesAssumption
  <2> QED BY <2>2, <2>3, TreeTypesNext
<1> QED BY <1>1, <1>2, TreeInvariance, PTL DEF ServicesSpec

\* What a request leaves of the tree has parents that exist and levels that count from
\* the root, unless it has put an organization under one of its own; members are in an
\* organization that exists: for any tree, any organizations and any changes.
THEOREM TreeStaysWholeHolds == ServicesSpec => []TreeStaysWhole
<1>1. Orgs!IInv => TreeStaysWhole
  BY TreeInvProperty, ServicesAssumption DEF TreeStaysWhole, ServicesAssumption
<1> QED BY <1>1, TreeInvariance, PTL

-----------------------------------------------------------------------------
(* The search index *)

\* What a step asks of those after it.
IndexFits(a, rest) ==
    /\ a = "get" => (rest # <<>> /\ Head(rest) = "recreate") \/ "connected" \notin Indices!Range(rest)
    /\ a = "analyze" => rest # <<>> /\ Head(rest) = "check"
    /\ a = "delete" => rest # <<>> /\ Head(rest) = "create"
    /\ a \in {"mapping", "recreate", "delete", "create"} => "checked" \in Indices!Range(rest)
    /\ a = "write" => rest = <<>>

\* A sequence of steps is in order if its first fits and the others are in order.
LEMMA IndexConsOrder ==
    ASSUME NEW a \in Indices!Label, NEW rest \in Seq(Indices!Label)
    PROVE  /\ <<a>> \o rest \in Seq(Indices!Label) \ {<<>>}
           /\ Head(<<a>> \o rest) = a /\ Tail(<<a>> \o rest) = rest
           /\ Indices!Range(<<a>> \o rest) = {a} \cup Indices!Range(rest)
           /\ Indices!InOrder(<<a>> \o rest) <=> IndexFits(a, rest) /\ Indices!InOrder(rest)
<1> DEFINE s == <<a>> \o rest
<1>1. /\ s \in Seq(Indices!Label) /\ Len(s) = Len(rest) + 1 /\ s # <<>> /\ Len(rest) \in Nat
      /\ s[1] = a /\ \A i \in 1 .. Len(rest) : s[i + 1] = rest[i]
      /\ Head(s) = a /\ Tail(s) = rest
  OBVIOUS
<1>2. \A q \in Seq(Indices!Label) : Indices!Range(q) = {q[j] : j \in 1 .. Len(q)}
  BY DEF Indices!Range
<1>3. \A q \in Seq(Indices!Label) : Indices!InOrder(q) <=> \A i \in 1 .. Len(q) : Indices!InPlace(q, i)
  BY DEF Indices!InOrder
<1> HIDE DEF s
<1>4. Indices!Later(s, 1) = Indices!Range(rest)
  <2>1. \A j \in 1 + 1 .. Len(s) : j - 1 \in 1 .. Len(rest) /\ s[j] = rest[j - 1]
    BY <1>1
  <2>2. \A j \in 1 .. Len(rest) : j + 1 \in 1 + 1 .. Len(s) /\ s[j + 1] = rest[j]
    BY <1>1
  <2> QED BY <2>1, <2>2, <1>2 DEF Indices!Later
<1>5. Indices!Range(s) = {a} \cup Indices!Range(rest)
  <2>1. \A j \in 1 .. Len(s) : j = 1 \/ (j - 1 \in 1 .. Len(rest) /\ s[j] = rest[j - 1])
    BY <1>1
  <2>2. \A j \in 1 .. Len(rest) : j + 1 \in 1 .. Len(s) /\ s[j + 1] = rest[j]
    BY <1>1
  <2>3. 1 \in 1 .. Len(s)
    BY <1>1
  <2> QED BY <1>1, <2>1, <2>2, <2>3, <1>2
<1>6. Indices!InPlace(s, 1) <=> IndexFits(a, rest)
  <2>1. 1 < Len(s) <=> rest # <<>>
    BY <1>1
  <2>2. rest # <<>> => s[1 + 1] = Head(rest)
    BY <1>1
  <2>3. 1 = Len(s) <=> rest = <<>>
    BY <1>1
  <2> QED BY <1>1, <1>4, <2>1, <2>2, <2>3 DEF IndexFits, Indices!InPlace, Indices!Followed
<1>7. ASSUME NEW i \in 1 .. Len(rest)
      PROVE  Indices!InPlace(s, i + 1) <=> Indices!InPlace(rest, i)
  <2>1. Indices!Later(s, i + 1) = Indices!Later(rest, i)
    <3>1. \A j \in (i + 1) + 1 .. Len(s) : j - 1 \in i + 1 .. Len(rest) /\ s[j] = rest[j - 1]
      BY <1>1
    <3>2. \A j \in i + 1 .. Len(rest) : j + 1 \in (i + 1) + 1 .. Len(s) /\ s[j + 1] = rest[j]
      BY <1>1
    <3>3. Indices!Later(s, i + 1) \subseteq Indices!Later(rest, i)
      BY <3>1 DEF Indices!Later
    <3>4. Indices!Later(rest, i) \subseteq Indices!Later(s, i + 1)
      BY <3>2 DEF Indices!Later
    <3> QED BY <3>3, <3>4
  <2>2. s[i + 1] = rest[i] /\ (i + 1 < Len(s) <=> i < Len(rest)) /\ (i + 1 = Len(s) <=> i
          = Len(rest))
    BY <1>1
  <2>3. i < Len(rest) => s[(i + 1) + 1] = rest[i + 1]
    BY <1>1
  <2> QED BY <2>1, <2>2, <2>3 DEF Indices!InPlace, Indices!Followed
<1>8. ASSUME \A i \in 1 .. Len(s) : Indices!InPlace(s, i)
      PROVE  Indices!InPlace(s, 1) /\ \A i \in 1 .. Len(rest) : Indices!InPlace(rest, i)
  <2>1. 1 \in 1 .. Len(s) /\ \A i \in 1 .. Len(rest) : i + 1 \in 1 .. Len(s)
    BY <1>1
  <2> QED BY <1>7, <1>8, <2>1
<1>9. ASSUME Indices!InPlace(s, 1), \A i \in 1 .. Len(rest) : Indices!InPlace(rest, i),
             NEW i \in 1 .. Len(s)
      PROVE  Indices!InPlace(s, i)
  <2>1. CASE i = 1
    BY <1>9, <2>1
  <2>2. CASE i # 1
    <3>1. i - 1 \in 1 .. Len(rest) /\ (i - 1) + 1 = i
      BY <1>1, <2>2
    <3> QED BY <1>7, <1>9, <3>1
  <2> QED BY <2>1, <2>2
<1>10. Indices!InOrder(s) <=> IndexFits(a, rest) /\ Indices!InOrder(rest)
  BY <1>1, <1>3, <1>6, <1>8, <1>9
<1> QED BY <1>1, <1>5, <1>10 DEF s

\* The other way round.
LEMMA IndexHeadTail ==
    ASSUME NEW s \in Seq(Indices!Label), s # <<>>
    PROVE  /\ Head(s) \in Indices!Label /\ Tail(s) \in Seq(Indices!Label)
           /\ s = <<Head(s)>> \o Tail(s)
           /\ Indices!Range(s) = {Head(s)} \cup Indices!Range(Tail(s))
           /\ Indices!InOrder(s) <=> IndexFits(Head(s), Tail(s)) /\ Indices!InOrder(Tail(s))
<1>1. Head(s) \in Indices!Label /\ Tail(s) \in Seq(Indices!Label) /\ s = <<Head(s)>> \o Tail(s)
  OBVIOUS
<1>2. LET a == Head(s)
          rest == Tail(s)
      IN  /\ Indices!Range(<<a>> \o rest) = {a} \cup Indices!Range(rest)
          /\ Indices!InOrder(<<a>> \o rest) <=> IndexFits(a, rest) /\ Indices!InOrder(rest)
  BY <1>1, IndexConsOrder
<1> QED BY <1>1, <1>2

\* The end of a sequence in order is in order.
LEMMA IndexSuffixOrder ==
    ASSUME NEW s \in Seq(Indices!Label), Indices!InOrder(s), NEW k \in 1 .. Len(s) + 1
    PROVE  /\ SubSeq(s, k, Len(s)) \in Seq(Indices!Label)
           /\ Indices!InOrder(SubSeq(s, k, Len(s)))
           /\ Indices!Range(SubSeq(s, k, Len(s))) \subseteq Indices!Range(s)
           /\ \A i \in k .. Len(s) : s[i] \in Indices!Range(SubSeq(s, k, Len(s)))
           /\ k = 1 => SubSeq(s, k, Len(s)) = s
<1> DEFINE e == SubSeq(s, k, Len(s))
           d == k - 1
<1>1. /\ e \in Seq(Indices!Label) /\ Len(e) = Len(s) - d /\ d \in Nat /\ Len(s) \in Nat
      /\ Len(e) \in Nat
      /\ \A i \in 1 .. Len(e) : e[i] = s[i + d]
  OBVIOUS
<1>2. \A q \in Seq(Indices!Label) : Indices!Range(q) = {q[j] : j \in 1 .. Len(q)}
  BY DEF Indices!Range
<1>3. \A q \in Seq(Indices!Label) : Indices!InOrder(q) <=> \A i \in 1 .. Len(q) : Indices!InPlace(q, i)
  BY DEF Indices!InOrder
<1>4. k = 1 => e = s
  BY <1>1
<1> HIDE DEF e
<1>5. \A i \in 1 .. Len(e) : i + d \in 1 .. Len(s)
  BY <1>1
<1>6. \A i \in k .. Len(s) : i - d \in 1 .. Len(e) /\ (i - d) + d = i
  BY <1>1
<1>7. ASSUME NEW i \in 1 .. Len(e)
      PROVE  Indices!InPlace(e, i)
  <2>1. Indices!Later(e, i) = Indices!Later(s, i + d)
    <3>1. \A j \in i + 1 .. Len(e) : j + d \in (i + d) + 1 .. Len(s) /\ e[j] = s[j + d]
      BY <1>1
    <3>2. \A j \in (i + d) + 1 .. Len(s) : j - d \in i + 1 .. Len(e) /\ e[j - d] = s[j]
      BY <1>1
    <3>3. Indices!Later(e, i) \subseteq Indices!Later(s, i + d)
      BY <3>1 DEF Indices!Later
    <3>4. Indices!Later(s, i + d) \subseteq Indices!Later(e, i)
      BY <3>2 DEF Indices!Later
    <3> QED BY <3>3, <3>4
  <2>2. e[i] = s[i + d] /\ (i < Len(e) <=> i + d < Len(s)) /\ (i = Len(e) <=> i + d = Len(s))
    BY <1>1
  <2>3. i < Len(e) => e[i + 1] = s[(i + d) + 1]
    BY <1>1
  <2>4. Indices!InPlace(s, i + d)
    BY <1>3, <1>5
  <2> QED BY <2>1, <2>2, <2>3, <2>4 DEF Indices!InPlace, Indices!Followed
<1>8. Indices!Range(e) \subseteq Indices!Range(s)
  BY <1>1, <1>2, <1>5
<1>9. \A i \in k .. Len(s) : s[i] \in Indices!Range(e)
  BY <1>1, <1>2, <1>6
<1>10. Indices!InOrder(e)
  BY <1>1, <1>3, <1>7
<1> QED BY <1>1, <1>4, <1>8, <1>9, <1>10 DEF e

\* The least of a set of numbers, as the library of sequences takes it.
LEMMA IndexLeastOf ==
    ASSUME NEW I \in SUBSET Nat, I # {}
    PROVE  Indices!Min(I) \in I /\ \A i \in I : Indices!Min(I) <= i
<1> DEFINE R == {p \in Nat \X Nat : p[1] < p[2]}
<1>1. IsWellFoundedOn(R, Nat)
  BY NatLessThanWellFounded DEF OpToRel
<1>2. PICK n \in I : \A m \in I : <<m, n>> \notin R
  BY <1>1, WFMin
<1>3. \A m \in I : n <= m
  <2> SUFFICES ASSUME NEW m \in I
               PROVE  n <= m
    OBVIOUS
  <2>1. <<m, n>> \notin R /\ m \in Nat /\ n \in Nat
    BY <1>2
  <2> QED BY <2>1
<1> QED BY <1>2, <1>3 DEF Indices!Min

\* Goto goes to the first step that is one, and to nothing if there is none.
LEMMA IndexGotoGives ==
    ASSUME Indices!TypeOK, NEW t \in IndexTask, NEW steps \in Seq(Indices!Label),
           Indices!InOrder(steps), Indices!Goto(t, steps)
    PROVE  \E new \in Seq(Indices!Label) :
              /\ idxTodo' = [idxTodo EXCEPT ![t] = new]
              /\ Indices!InOrder(new)
              /\ Indices!Range(new) \subseteq Indices!Range(steps)
              /\ Indices!Range(steps) \ Indices!Ends \subseteq Indices!Range(new)
              /\ steps # <<>> /\ Head(steps) \notin Indices!Ends => new = steps
<1> DEFINE I == {i \in 1 .. Len(steps) : steps[i] \notin Indices!Ends}
           next == IF I # {} THEN Indices!Min(I) ELSE 0
           new == IF next = 0 THEN <<>> ELSE SubSeq(steps, next, Len(steps))
<1>1. idxTodo' = [idxTodo EXCEPT ![t] = new]
  BY DEF Indices!Goto, Indices!SelectInSeq
<1>2. Len(steps) \in Nat /\ Indices!Range(steps) = {steps[i] : i \in 1 .. Len(steps)}
  BY DEF Indices!Range
<1>3. CASE I = {}
  <2>1. new = <<>>
    BY <1>3
  <2>2. Indices!Range(<<>>) = {} /\ Indices!InOrder(<<>>) /\ <<>> \in Seq(Indices!Label)
    BY DEF Indices!Range, Indices!InOrder
  <2>3. Indices!Range(steps) \ Indices!Ends = {}
    BY <1>2, <1>3
  <2>4. steps # <<>> => Head(steps) \in Indices!Ends
    <3>1. steps # <<>> => 1 \in 1 .. Len(steps) /\ Head(steps) = steps[1]
      BY <1>2
    <3> QED BY <1>3, <3>1
  <2> HIDE DEF new
  <2> QED BY <1>1, <2>1, <2>2, <2>3, <2>4
<1>4. CASE I # {}
  <2> DEFINE k == Indices!Min(I)
  <2>1. k \in I /\ \A i \in I : k <= i
    <3>1. I \in SUBSET Nat
      BY <1>2
    <3> HIDE DEF I
    <3> QED BY <1>4, <3>1, IndexLeastOf
  <2>2. /\ k \in 1 .. Len(steps) /\ k # 0
        /\ \A i \in 1 .. Len(steps) : i < k => steps[i] \in Indices!Ends
    <3> HIDE DEF k
    <3>1. k \in 1 .. Len(steps) /\ k # 0
      BY <1>2, <2>1
    <3>2. ASSUME NEW i \in 1 .. Len(steps), i < k
          PROVE  steps[i] \in Indices!Ends
      <4>1. i \notin I
        BY <1>2, <2>1, <3>1, <3>2
      <4> QED BY <4>1
    <3> QED BY <3>1, <3>2
  <2>3. next = k
    BY <1>4
  <2> HIDE DEF next, k, I
  <2>4. new = SubSeq(steps, k, Len(steps))
    BY <2>2, <2>3
  <2>5. k \in 1 .. Len(steps) + 1
    BY <1>2, <2>2
  <2>6. /\ new \in Seq(Indices!Label) /\ Indices!InOrder(new)
        /\ Indices!Range(new) \subseteq Indices!Range(steps)
        /\ \A i \in k .. Len(steps) : steps[i] \in Indices!Range(new)
        /\ k = 1 => new = steps
    BY <2>4, <2>5, IndexSuffixOrder
  <2>7. Indices!Range(steps) \ Indices!Ends \subseteq Indices!Range(new)
    <3> SUFFICES ASSUME NEW i \in 1 .. Len(steps), steps[i] \notin Indices!Ends
                 PROVE  steps[i] \in Indices!Range(new)
      BY <1>2
    <3>1. i \in k .. Len(steps)
      BY <1>2, <2>2
    <3> QED BY <2>6, <3>1
  <2>8. ASSUME steps # <<>>, Head(steps) \notin Indices!Ends
        PROVE  new = steps
    <3>1. 1 \in 1 .. Len(steps) /\ Head(steps) = steps[1]
      BY <1>2, <2>8
    <3>2. k = 1
      BY <2>2, <2>8, <3>1
    <3> QED BY <2>6, <3>2
  <2> HIDE DEF new
  <2> QED BY <1>1, <2>6, <2>7, <2>8
<1> QED BY <1>3, <1>4

\* Going to nothing.
LEMMA IndexGotoNothing ==
    ASSUME Indices!TypeOK, NEW t \in IndexTask, Indices!Goto(t, <<>>)
    PROVE  idxTodo' = [idxTodo EXCEPT ![t] = <<>>]
<1>1. Indices!Range(<<>>) = {} /\ Indices!InOrder(<<>>) /\ <<>> \in Seq(Indices!Label)
  BY DEF Indices!Range, Indices!InOrder
<1>2. PICK new \in Seq(Indices!Label) : idxTodo' = [idxTodo EXCEPT ![t] = new]
      /\ Indices!Range(new) \subseteq {}
  BY <1>1, IndexGotoGives
<1>3. new = <<>>
  <2>1. new # <<>> => Head(new) \in Indices!Range(new)
    BY IndexHeadTail
  <2> QED BY <1>2, <2>1
<1> QED BY <1>2, <1>3

\* What is left behind a block.
LEMMA IndexBeyondGives ==
    ASSUME NEW steps \in Seq(Indices!Label), Indices!InOrder(steps), NEW end
    PROVE  /\ Indices!Beyond(steps, end) \in Seq(Indices!Label)
           /\ Indices!InOrder(Indices!Beyond(steps, end))
           /\ Indices!Range(Indices!Beyond(steps, end)) \subseteq Indices!Range(steps)
<1> DEFINE I == {i \in 1 .. Len(steps) : steps[i] = end}
           last == IF I # {} THEN Indices!Min(I) ELSE 0
<1>1. Indices!Beyond(steps, end) = SubSeq(steps, last + 1, Len(steps))
  BY DEF Indices!Beyond, Indices!SelectInSeq
<1>2. Len(steps) \in Nat
  OBVIOUS
<1>3. last \in 0 .. Len(steps)
  <2>1. CASE I # {}
    <3>1. I \in SUBSET Nat /\ I \subseteq 1 .. Len(steps) /\ last = Indices!Min(I)
      BY <1>2, <2>1
    <3> HIDE DEF I, last
    <3>2. Indices!Min(I) \in I
      BY <2>1, <3>1, IndexLeastOf
    <3>3. last \in 1 .. Len(steps)
      BY <3>1, <3>2, Zenon
    <3> QED BY <1>2, <3>3
  <2> QED BY <1>2, <2>1
<1> HIDE DEF last
<1>4. last + 1 \in 1 .. Len(steps) + 1
  BY <1>2, <1>3
<1> QED BY <1>1, <1>4, IndexSuffixOrder

\* A task takes a step: what it leaves of its steps, and of its status.
IndexLeaves(t, new) ==
    /\ new \in Seq(Indices!Label) /\ Indices!InOrder(new)
    /\ idxTodo' = [idxTodo EXCEPT ![t] = new]
    /\ \/ idxStatus' = idxStatus
       \/ \E end \in {"indexed", "failed"} : idxStatus' = [idxStatus EXCEPT ![t] = end]

\* Whether a process that has a client after the step of t still has a task that
\* initializes it, if it had one.
IndexInitialized(t, new, p) ==
    \/ p = IndexHome[t] /\ idxStatus' = idxStatus /\ "connected" \in Indices!Range(new)
    \/ /\ idxClient[p]
       /\ p = IndexHome[t] /\ "connected" \in Indices!Range(idxTodo[t]) =>
             idxStatus' = idxStatus /\ "connected" \in Indices!Range(new)

LEMMA IndexLeavesGives ==
    ASSUME Indices!TypeOK, Indices!OrderInv, NEW t \in Indices!Running, NEW new, IndexLeaves(t,
           new)
    PROVE  /\ idxTodo' \in [IndexTask -> Seq(Indices!Label)]
           /\ idxStatus' \in [IndexTask -> {"waiting", "running", "indexed", "failed"}]
           /\ Indices!OrderInv'
           /\ idxTodo'[t] = new /\ \A u \in IndexTask \ {t} : idxTodo'[u] = idxTodo[u]
              /\ idxStatus'[u] = idxStatus[u]
           /\ t \in Indices!Running' <=> idxStatus' = idxStatus
           /\ Indices!Running' \subseteq Indices!Running
              /\ \A u \in Indices!Running \ {t} : u \in Indices!Running'
<1>1. t \in IndexTask /\ idxStatus[t] = "running"
  BY DEF Indices!Running
<1>2. idxTodo \in [IndexTask -> Seq(Indices!Label)] /\ idxStatus \in [IndexTask -> {"waiting",
                                                           "running", "indexed", "failed"}]
  BY DEF Indices!TypeOK
<1>3. /\ idxTodo' \in [IndexTask -> Seq(Indices!Label)]
      /\ idxStatus' \in [IndexTask -> {"waiting", "running", "indexed", "failed"}]
      /\ idxTodo'[t] = new /\ \A u \in IndexTask \ {t} : idxTodo'[u] = idxTodo[u]
         /\ idxStatus'[u] = idxStatus[u]
      /\ idxStatus'[t] = "running" <=> idxStatus' = idxStatus
      /\ idxStatus'[t] # "waiting"
  BY <1>1, <1>2 DEF IndexLeaves
<1>4. Indices!OrderInv'
  <2> SUFFICES ASSUME NEW u \in IndexTask
               PROVE  Indices!InOrder(idxTodo'[u]) /\ (idxStatus'[u] = "waiting"
                        => idxTodo'[u] = Indices!Steps(u))
    BY DEF Indices!OrderInv, Indices!InOrder, Indices!InPlace, Indices!Followed, Indices!Later,
         Indices!Steps
  <2>1. CASE u = t
    BY <1>3, <2>1 DEF IndexLeaves
  <2>2. CASE u # t
    BY <1>3, <2>2 DEF Indices!OrderInv
  <2> QED BY <2>1, <2>2
<1> QED BY <1>1, <1>3, <1>4 DEF Indices!Running

\* CheckInv for the task that steps, and for the rest.
LEMMA IndexCheckKeeps ==
    ASSUME Indices!TypeOK, Indices!OrderInv, Indices!CheckInv, NEW t \in Indices!Running,
           NEW new, IndexLeaves(t, new),
           idxErred => idxErred', idxStale => idxStale', idxEarly => idxEarly',
           ~idxErred' /\ ~idxStale' /\ ~idxEarly' => Indices!Mapping' # "dynamic",
           ~idxErred' /\ ~idxStale' /\ ~idxEarly' /\ Indices!Mapping' # "right" =>
              /\ Indices!Mapping # "right"
              /\ "write" \in Indices!Range(new) => Indices!Range(new) \cap (Indices!Pending \cup {"get"}) # {}
              /\ "connected" \in Indices!Range(new) => Indices!Range(new) \cap Indices!Pending # {}
              /\ \A p \in Indices!Process : idxClient'[p] => IndexInitialized(t, new, p)
    PROVE  Indices!CheckInv'
<1> SUFFICES ASSUME ~idxErred' /\ ~idxStale' /\ ~idxEarly', Indices!Mapping' # "right"
             PROVE  /\ \A u \in Indices!Running' :
                          /\ "write" \in Indices!Range(idxTodo'[u]) =>
                                Indices!Range(idxTodo'[u]) \cap (Indices!Pending \cup {"get"}) # {}
                          /\ "connected" \in Indices!Range(idxTodo'[u])
                               => Indices!Range(idxTodo'[u]) \cap Indices!Pending # {}
                    /\ \A p \in Indices!Process : idxClient'[p] => Indices!Initializing(p)'
  BY DEF Indices!CheckInv
<1>1. /\ idxTodo'[t] = new /\ \A u \in IndexTask \ {t} : idxTodo'[u] = idxTodo[u]
         /\ idxStatus'[u] = idxStatus[u]
      /\ t \in Indices!Running' <=> idxStatus' = idxStatus
      /\ Indices!Running' \subseteq Indices!Running
         /\ \A u \in Indices!Running \ {t} : u \in Indices!Running'
  BY IndexLeavesGives
<1>2. /\ \A u \in Indices!Running :
            /\ "write" \in Indices!Range(idxTodo[u]) => Indices!Range(idxTodo[u]) \cap (Indices!Pending
                 \cup {"get"}) # {}
            /\ "connected" \in Indices!Range(idxTodo[u]) => Indices!Range(idxTodo[u]) \cap Indices!Pending # {}
      /\ \A p \in Indices!Process : idxClient[p] => Indices!Initializing(p)
  BY DEF Indices!CheckInv
<1>3. \A u \in Indices!Running : u \in IndexTask
  BY DEF Indices!Running
<1>4. ASSUME NEW p \in Indices!Process, idxClient'[p]
      PROVE  Indices!Initializing(p)'
  <2>1. IndexInitialized(t, new, p)
    BY <1>4
  <2>2. CASE p = IndexHome[t] /\ idxStatus' = idxStatus /\ "connected" \in Indices!Range(new)
    BY <1>1, <1>3, <2>2 DEF Indices!Initializing, Indices!Running
  <2>3. CASE idxClient[p] /\ (p = IndexHome[t] /\ "connected" \in Indices!Range(idxTodo[t]) =>
                                 idxStatus' = idxStatus /\ "connected" \in Indices!Range(new))
    <3>1. PICK u \in Indices!Running : IndexHome[u] = p /\ "connected" \in Indices!Range(idxTodo[u])
      BY <1>2, <2>3 DEF Indices!Initializing, Indices!Running
    <3>2. u \in Indices!Running' /\ "connected" \in Indices!Range(idxTodo'[u])
      BY <1>1, <1>3, <2>3, <3>1
    <3> QED BY <1>3, <3>1, <3>2 DEF Indices!Initializing, Indices!Running
  <2> QED BY <2>1, <2>2, <2>3 DEF IndexInitialized
<1>5. ASSUME NEW u \in Indices!Running'
      PROVE  /\ "write" \in Indices!Range(idxTodo'[u]) => Indices!Range(idxTodo'[u]) \cap (Indices!Pending
                  \cup {"get"}) # {}
             /\ "connected" \in Indices!Range(idxTodo'[u]) => Indices!Range(idxTodo'[u]) \cap Indices!Pending # {}
  BY <1>1, <1>2, <1>3
<1> QED BY <1>4, <1>5

IndexChecking == {"mapping", "recreate", "delete", "create", "checked"}

\* AskedInv likewise.
LEMMA IndexAskedKeeps ==
    ASSUME Indices!TypeOK, Indices!OrderInv, Indices!AskedInv, NEW t \in Indices!Running,
           NEW new, IndexLeaves(t, new),
           idxPlain => idxPlain', idxEarly => idxEarly',
           \A p \in Indices!Process : idxAnalyzer[p] = "ik" => idxAnalyzer'[p] = "ik",
           idxAnalyzer' \in [Indices!Process -> {"cjk", "ik"}],
           IndexHome \in [IndexTask -> Indices!Process],
           ~idxPlain' /\ ~idxEarly' =>
              /\ (\/ Indices!Range(new) \cap IndexChecking # {}
                  \/ new # <<>> /\ Head(new) = "check") => idxAnalyzer'[IndexHome[t]] = "ik"
              /\ \A p \in Indices!Process : idxClient'[p] /\ idxAnalyzer'[p] = "cjk"
                   => IndexInitialized(t, new, p)
    PROVE  Indices!AskedInv'
<1> SUFFICES ASSUME ~idxPlain' /\ ~idxEarly'
             PROVE  /\ \A u \in Indices!Running' :
                          (\/ Indices!Range(idxTodo'[u]) \cap IndexChecking # {}
                           \/ idxTodo'[u] # <<>> /\ Head(idxTodo'[u]) = "check") =>
                              idxAnalyzer'[IndexHome[u]] = "ik"
                    /\ \A p \in Indices!Process : idxClient'[p] /\ idxAnalyzer'[p] = "cjk"
                         => Indices!Initializing(p)'
  BY DEF Indices!AskedInv, IndexChecking
<1>1. /\ idxTodo'[t] = new /\ \A u \in IndexTask \ {t} : idxTodo'[u] = idxTodo[u]
         /\ idxStatus'[u] = idxStatus[u]
      /\ t \in Indices!Running' <=> idxStatus' = idxStatus
      /\ Indices!Running' \subseteq Indices!Running
         /\ \A u \in Indices!Running \ {t} : u \in Indices!Running'
  BY IndexLeavesGives
<1>2. /\ \A u \in Indices!Running :
            (\/ Indices!Range(idxTodo[u]) \cap IndexChecking # {}
             \/ idxTodo[u] # <<>> /\ Head(idxTodo[u]) = "check") => idxAnalyzer[IndexHome[u]]
                  = "ik"
      /\ \A p \in Indices!Process : idxClient[p] /\ idxAnalyzer[p] = "cjk"
           => Indices!Initializing(p)
  BY DEF Indices!AskedInv, IndexChecking
<1>3. \A u \in Indices!Running : u \in IndexTask /\ IndexHome[u] \in Indices!Process
  BY DEF Indices!Running
<1>4. ASSUME NEW p \in Indices!Process, idxClient'[p], idxAnalyzer'[p] = "cjk"
      PROVE  Indices!Initializing(p)'
  <2>1. IndexInitialized(t, new, p)
    BY <1>4
  <2>2. CASE p = IndexHome[t] /\ idxStatus' = idxStatus /\ "connected" \in Indices!Range(new)
    BY <1>1, <1>3, <2>2 DEF Indices!Initializing, Indices!Running
  <2>3. CASE idxClient[p] /\ (p = IndexHome[t] /\ "connected" \in Indices!Range(idxTodo[t]) =>
                                 idxStatus' = idxStatus /\ "connected" \in Indices!Range(new))
    <3>0. idxAnalyzer[p] = "cjk"
      BY <1>4 DEF Indices!TypeOK
    <3>1. PICK u \in Indices!Running : IndexHome[u] = p /\ "connected" \in Indices!Range(idxTodo[u])
      BY <1>2, <2>3, <3>0 DEF Indices!Initializing, Indices!Running
    <3>2. u \in Indices!Running' /\ "connected" \in Indices!Range(idxTodo'[u])
      BY <1>1, <1>3, <2>3, <3>1
    <3> QED BY <1>3, <3>1, <3>2 DEF Indices!Initializing, Indices!Running
  <2> QED BY <2>1, <2>2, <2>3 DEF IndexInitialized
<1>5. ASSUME NEW u \in Indices!Running',
             \/ Indices!Range(idxTodo'[u]) \cap IndexChecking # {}
             \/ idxTodo'[u] # <<>> /\ Head(idxTodo'[u]) = "check"
      PROVE  idxAnalyzer'[IndexHome[u]] = "ik"
  <2>1. CASE u = t
    BY <1>1, <1>5, <2>1
  <2>2. CASE u # t
    BY <1>1, <1>2, <1>3, <1>5, <2>2
  <2> QED BY <2>1, <2>2
<1> QED BY <1>4, <1>5

\* A task whose turn it is.
LEMMA IndexTurnGives ==
    ASSUME Indices!TypeOK, Indices!OrderInv, NEW t \in IndexTask, NEW label, Indices!Turn(t,
           label)
    PROVE  /\ t \in Indices!Running /\ label \in Indices!Label
           /\ idxTodo[t] \in Seq(Indices!Label) /\ Indices!InOrder(idxTodo[t])
           /\ idxTodo[t] # <<>> /\ Head(idxTodo[t]) = label
           /\ Tail(idxTodo[t]) \in Seq(Indices!Label) /\ Indices!InOrder(Tail(idxTodo[t]))
           /\ IndexFits(label, Tail(idxTodo[t]))
           /\ Indices!Range(idxTodo[t]) = {label} \cup Indices!Range(Tail(idxTodo[t]))
<1>1. idxTodo[t] \in Seq(Indices!Label) /\ Indices!InOrder(idxTodo[t]) /\ idxTodo[t] # <<>>
      /\ Head(idxTodo[t]) = label
  BY DEF Indices!TypeOK, Indices!OrderInv, Indices!Turn
<1>2. t \in Indices!Running
  BY DEF Indices!Turn, Indices!Running
<1> QED BY <1>1, <1>2, IndexHeadTail

\* Going on with what was left, when the first of it is a step.
LEMMA IndexThenNothing ==
    ASSUME Indices!TypeOK, Indices!OrderInv, NEW t \in IndexTask, NEW label, Indices!Turn(t,
           label), Indices!Then(t, <<>>), idxStatus' = idxStatus
    PROVE  \E new :
              /\ IndexLeaves(t, new)
              /\ Indices!Range(new) \subseteq Indices!Range(Tail(idxTodo[t]))
              /\ Indices!Range(Tail(idxTodo[t])) \ Indices!Ends \subseteq Indices!Range(new)
              /\ Tail(idxTodo[t]) # <<>> /\ Head(Tail(idxTodo[t])) \notin Indices!Ends => new
                   = Tail(idxTodo[t])
<1> DEFINE rest == Tail(idxTodo[t])
<1>1. rest \in Seq(Indices!Label) /\ Indices!InOrder(rest)
  BY IndexTurnGives
<1>2. Indices!Goto(t, rest)
  <2>1. <<>> \o rest = rest
    BY <1>1
  <2> QED BY <2>1 DEF Indices!Then
<1> HIDE DEF rest
<1>3. PICK new \in Seq(Indices!Label) :
              /\ idxTodo' = [idxTodo EXCEPT ![t] = new]
              /\ Indices!InOrder(new)
              /\ Indices!Range(new) \subseteq Indices!Range(rest)
              /\ Indices!Range(rest) \ Indices!Ends \subseteq Indices!Range(new)
              /\ rest # <<>> /\ Head(rest) \notin Indices!Ends => new = rest
  BY <1>1, <1>2, IndexGotoGives
<1>4. IndexLeaves(t, new)
  BY <1>3 DEF IndexLeaves
<1> QED BY <1>3, <1>4 DEF rest

\* One or two steps more.
LEMMA IndexThenOne ==
    ASSUME Indices!TypeOK, Indices!OrderInv, NEW t \in IndexTask, NEW label, Indices!Turn(t,
           label), idxStatus' = idxStatus,
           NEW a \in Indices!Label \ Indices!Ends, IndexFits(a, Tail(idxTodo[t])),
           Indices!Then(t, <<a>>)
    PROVE  /\ IndexLeaves(t, <<a>> \o Tail(idxTodo[t]))
           /\ Indices!Range(<<a>> \o Tail(idxTodo[t])) = {a} \cup Indices!Range(Tail(idxTodo[t]))
           /\ <<a>> \o Tail(idxTodo[t]) # <<>> /\ Head(<<a>> \o Tail(idxTodo[t])) = a
<1> DEFINE rest == Tail(idxTodo[t])
           steps == <<a>> \o rest
<1>1. rest \in Seq(Indices!Label) /\ Indices!InOrder(rest) /\ IndexFits(a, rest)
  BY IndexTurnGives
<1>2. Indices!Goto(t, steps)
  BY DEF Indices!Then
<1> HIDE DEF rest
<1>3. /\ steps \in Seq(Indices!Label) \ {<<>>} /\ Indices!InOrder(steps) /\ Head(steps) = a
      /\ Indices!Range(steps) = {a} \cup Indices!Range(rest)
  BY <1>1, IndexConsOrder
<1> HIDE DEF steps
<1>4. idxTodo' = [idxTodo EXCEPT ![t] = steps]
  BY <1>2, <1>3, IndexGotoGives
<1>5. IndexLeaves(t, steps)
  BY <1>3, <1>4 DEF IndexLeaves
<1> QED BY <1>3, <1>5 DEF steps, rest

LEMMA IndexTwoThenRest ==
    ASSUME NEW a \in Indices!Label, NEW b \in Indices!Label, NEW rest \in Seq(Indices!Label)
    PROVE  <<a, b>> \o rest = <<a>> \o (<<b>> \o rest)
<1> DEFINE x == <<a, b>> \o rest
           more == <<b>> \o rest
           y == <<a>> \o more
<1>1. x \in Seq(Indices!Label) /\ Len(x) = Len(rest) + 2 /\ x[1] = a /\ x[2] = b
      /\ \A i \in 1 .. Len(rest) : x[i + 2] = rest[i]
  OBVIOUS
<1>2. more \in Seq(Indices!Label) /\ Len(more) = Len(rest) + 1 /\ more[1] = b
      /\ \A i \in 1 .. Len(rest) : more[i + 1] = rest[i]
  OBVIOUS
<1> HIDE DEF more
<1>3. y \in Seq(Indices!Label) /\ Len(y) = Len(more) + 1 /\ y[1] = a
      /\ \A i \in 1 .. Len(more) : y[i + 1] = more[i]
  BY <1>2
<1> HIDE DEF x, y
<1>4. Len(rest) \in Nat
  OBVIOUS
<1>5. ASSUME NEW i \in 1 .. Len(x)
      PROVE  x[i] = y[i]
  <2>1. CASE i = 1
    BY <1>1, <1>3, <2>1
  <2>2. CASE i = 2
    <3>1. y[1 + 1] = more[1]
      BY <1>2, <1>3, <1>4
    <3> QED BY <1>1, <1>2, <2>2, <3>1
  <2>3. CASE i # 1 /\ i # 2
    <3>1. i - 2 \in 1 .. Len(rest) /\ i - 1 \in 1 .. Len(more) /\ (i - 2) + 2 = i
          /\ (i - 1) + 1 = i /\ (i - 2) + 1 = i - 1
      BY <1>1, <1>2, <1>4, <2>3
    <3>2. x[(i - 2) + 2] = rest[i - 2] /\ more[(i - 2) + 1] = rest[i - 2] /\ y[(i - 1) + 1]
            = more[i - 1]
      BY <1>1, <1>2, <1>3, <3>1
    <3> QED BY <3>1, <3>2
  <2> QED BY <2>1, <2>2, <2>3
<1>6. Len(x) = Len(y)
  BY <1>1, <1>2, <1>3, <1>4
<1>7. x = y
  <2>1. x = [i \in 1 .. Len(x) |-> x[i]] /\ y = [i \in 1 .. Len(y) |-> y[i]]
    BY <1>1, <1>3
  <2>2. [i \in 1 .. Len(x) |-> x[i]] = [i \in 1 .. Len(y) |-> y[i]]
    BY <1>5, <1>6
  <2> QED BY <2>1, <2>2
<1> QED BY <1>7 DEF x, y, more

LEMMA IndexThenTwo ==
    ASSUME Indices!TypeOK, Indices!OrderInv, NEW t \in IndexTask, NEW label, Indices!Turn(t,
           label), idxStatus' = idxStatus,
           NEW a \in Indices!Label \ Indices!Ends, NEW b \in Indices!Label, Indices!Then(t,
           <<a, b>>),
           IndexFits(b, Tail(idxTodo[t])), IndexFits(a, <<b>> \o Tail(idxTodo[t]))
    PROVE  \E new :
              /\ IndexLeaves(t, new)
              /\ Indices!Range(new) = {a, b} \cup Indices!Range(Tail(idxTodo[t]))
              /\ new # <<>> /\ Head(new) = a
<1> DEFINE rest == Tail(idxTodo[t])
           more == <<b>> \o rest
           steps == <<a>> \o more
<1>1. rest \in Seq(Indices!Label) /\ Indices!InOrder(rest) /\ IndexFits(b, rest)
      /\ IndexFits(a, more)
  BY IndexTurnGives
<1>2. Indices!Goto(t, steps)
  <2>1. <<a, b>> \o rest = steps
    BY <1>1, IndexTwoThenRest
  <2> QED BY <2>1 DEF Indices!Then
<1> HIDE DEF rest
<1>3. more \in Seq(Indices!Label) /\ Indices!InOrder(more) /\ Indices!Range(more) = {b} \cup Indices!Range(rest)
  BY <1>1, IndexConsOrder
<1> HIDE DEF more
<1>4. /\ steps \in Seq(Indices!Label) \ {<<>>} /\ Indices!InOrder(steps) /\ Head(steps) = a
      /\ Indices!Range(steps) = {a} \cup Indices!Range(more)
  BY <1>1, <1>3, IndexConsOrder
<1> HIDE DEF steps
<1>5. idxTodo' = [idxTodo EXCEPT ![t] = steps]
  BY <1>2, <1>4, IndexGotoGives
<1>6. IndexLeaves(t, steps)
  BY <1>4, <1>5 DEF IndexLeaves
<1> QED BY <1>3, <1>4, <1>6 DEF rest

\* An exception is swallowed by the check around it, or ends the task.
LEMMA IndexRaiseGives ==
    ASSUME Indices!TypeOK, Indices!OrderInv, NEW t \in Indices!Running,
           NEW steps \in Seq(Indices!Label), Indices!InOrder(steps),
           Indices!RaiseBefore(t, steps)
    PROVE  \E new :
              /\ IndexLeaves(t, new)
              /\ \/ "checked" \in Indices!Range(steps) /\ idxErred' = TRUE /\ idxStatus' = idxStatus
                 \/ /\ "checked" \notin Indices!Range(steps)
                    /\ new = <<>> /\ idxErred' = idxErred
                    /\ idxStatus' = [idxStatus EXCEPT ![t] = "failed"]
<1>0. t \in IndexTask
  BY DEF Indices!Running
<1>1. CASE "checked" \in Indices!Range(steps)
  <2> DEFINE behind == Indices!Beyond(steps, "checked")
  <2>1. Indices!Goto(t, behind) /\ idxErred' = TRUE /\ idxStatus' = idxStatus
    BY <1>1 DEF Indices!RaiseBefore
  <2>2. behind \in Seq(Indices!Label) /\ Indices!InOrder(behind)
    BY IndexBeyondGives
  <2> HIDE DEF behind
  <2>3. PICK new \in Seq(Indices!Label) : idxTodo' = [idxTodo EXCEPT ![t] = new]
        /\ Indices!InOrder(new)
    BY <1>0, <2>1, <2>2, IndexGotoGives
  <2>4. IndexLeaves(t, new)
    BY <2>1, <2>3 DEF IndexLeaves
  <2> QED BY <1>1, <2>1, <2>4
<1>2. CASE "checked" \notin Indices!Range(steps)
  <2>1. Indices!Goto(t, <<>>) /\ idxStatus' = [idxStatus EXCEPT ![t] = "failed"] /\ idxErred'
          = idxErred
    BY <1>2 DEF Indices!RaiseBefore
  <2>2. idxTodo' = [idxTodo EXCEPT ![t] = <<>>]
    BY <1>0, <2>1, IndexGotoNothing
  <2>3. <<>> \in Seq(Indices!Label) /\ Indices!InOrder(<<>>)
    BY DEF Indices!InOrder
  <2>4. IndexLeaves(t, <<>>)
    BY <2>1, <2>2, <2>3 DEF IndexLeaves
  <2> QED BY <1>2, <2>1, <2>4
<1> QED BY <1>1, <1>2

-----------------------------------------------------------------------------

\* IndexHolds when the index stays as it is and no document becomes indexed.
LEMMA IndexHoldsKept ==
    ASSUME Indices!IndexHolds, idxIndex' = idxIndex,
           idxErred => idxErred', idxStale => idxStale', idxEarly => idxEarly',
           idxPlain => idxPlain',
           \A u \in IndexTask : idxStatus'[u] = "indexed" => idxStatus[u] = "indexed"
    PROVE  Indices!IndexHolds'
<1>1. Indices!Mapping' = Indices!Mapping
  BY DEF Indices!Mapping
<1>2. Indices!IndexedIsFound'
  BY <1>1 DEF Indices!IndexHolds, Indices!IndexedIsFound
<1>3. Indices!AnalyzerIsKnown'
  BY <1>1 DEF Indices!IndexHolds, Indices!AnalyzerIsKnown
<1> QED BY <1>2, <1>3 DEF Indices!IndexHolds

\* CheckInv when a task goes on towards a step that checks the index.
LEMMA IndexCheckOn ==
    ASSUME Indices!TypeOK, Indices!OrderInv, Indices!CheckInv, NEW t \in IndexTask, NEW label,
           Indices!Turn(t, label), label # "connected",
           NEW new, IndexLeaves(t, new), idxStatus' = idxStatus,
           UNCHANGED <<idxIndex, idxClient>>, idxErred => idxErred', idxStale => idxStale',
               idxEarly => idxEarly',
           Indices!Range(new) \cap Indices!Pending # {}, "connected" \in Indices!Range(Tail(idxTodo[t]))
             => "connected" \in Indices!Range(new)
    PROVE  Indices!CheckInv'
<1>1. t \in Indices!Running /\ Indices!Range(idxTodo[t]) = {label} \cup Indices!Range(Tail(idxTodo[t]))
  BY IndexTurnGives
<1>2. Indices!Mapping' = Indices!Mapping
  BY DEF Indices!Mapping
<1>3. \A p \in Indices!Process : idxClient'[p] => IndexInitialized(t, new, p)
  BY <1>1 DEF IndexInitialized
<1>4. ~idxErred' /\ ~idxStale' /\ ~idxEarly' => Indices!Mapping' # "dynamic"
  BY <1>2 DEF Indices!CheckInv
<1> QED BY <1>1, <1>2, <1>3, <1>4, IndexCheckKeeps

\* AskedInv in a check: the analyzer is known, so no client is without one.
LEMMA IndexAskedOn ==
    ASSUME Indices!SearchIndexAssumption, Indices!TypeOK, Indices!OrderInv, Indices!AskedInv,
           NEW t \in IndexTask, NEW label,
           Indices!Turn(t, label), label \in {"check", "mapping", "recreate", "delete",
           "create"},
           NEW new, IndexLeaves(t, new), UNCHANGED <<idxClient, idxAnalyzer, idxEarly,
                                                     idxPlain>>
    PROVE  /\ Indices!AskedInv'
           /\ ~idxPlain /\ ~idxEarly => idxAnalyzer[IndexHome[t]] = "ik"
<1>1. /\ t \in Indices!Running /\ Indices!Range(idxTodo[t]) = {label} \cup Indices!Range(Tail(idxTodo[t]))
      /\ idxTodo[t] # <<>> /\ Head(idxTodo[t]) = label
  BY IndexTurnGives
<1>2. ~idxPlain /\ ~idxEarly => idxAnalyzer[IndexHome[t]] = "ik"
  BY <1>1 DEF Indices!AskedInv
<1>3. ~idxPlain' /\ ~idxEarly' => \A p \in Indices!Process : idxClient'[p] /\ idxAnalyzer'[p]
        = "cjk" =>
          IndexInitialized(t, new, p)
  BY <1>2 DEF IndexInitialized
<1>4. IndexHome \in [IndexTask -> Indices!Process] /\ idxAnalyzer' \in [Indices!Process -> {"cjk", "ik"}]
  BY DEF Indices!SearchIndexAssumption, Indices!Process, Indices!TypeOK
<1>5. Indices!AskedInv'
  BY <1>1, <1>2, <1>3, <1>4, IndexAskedKeeps
<1> QED BY <1>2, <1>5

-----------------------------------------------------------------------------

LEMMA IndexInitInv ==
    ASSUME Indices!SearchIndexAssumption, Indices!Init
    PROVE  Indices!IInv
<1>1. IndexHome \in [IndexTask -> Indices!Process] /\ idxTodo
        = [t \in IndexTask |-> Indices!Steps(t)]
      /\ idxStatus = [t \in IndexTask |-> "waiting"] /\ Indices!Running = {}
  BY DEF Indices!SearchIndexAssumption, Indices!Init, Indices!Process, Indices!Running
<1>2. \A t \in IndexTask : Indices!Steps(t) \in Seq(Indices!Label)
      /\ Indices!InOrder(Indices!Steps(t))
  <2>1. \A a \in Indices!Label : IndexFits(a, <<>>) <=> a \notin {"analyze", "mapping",
      "recreate", "delete", "create"}
    BY DEF IndexFits, Indices!Range, Indices!Label
  <2>2. Indices!InOrder(<<>>) /\ <<>> \in Seq(Indices!Label) /\ Indices!Range(<<>>) = {}
    BY DEF Indices!InOrder, Indices!Range
  <2> DEFINE w == <<"write">> \o <<>>
             g == <<"get">> \o w
             c == <<"check">> \o g
             s == <<"get">> \o c
             e == <<"connected">> \o <<>>
             i == <<"info">> \o e
  <2>3. w \in Seq(Indices!Label) /\ Indices!InOrder(w) /\ Indices!Range(w) = {"write"}
    BY <2>1, <2>2, IndexConsOrder DEF Indices!Label
  <2>4. e \in Seq(Indices!Label) /\ Indices!InOrder(e)
    BY <2>1, <2>2, IndexConsOrder DEF Indices!Label
  <2>5. <<"get", "write">> = g /\ <<"info", "connected">> = i
        /\ <<"get", "check", "get", "write">> = s
    OBVIOUS
  <2> HIDE DEF w, e
  <2>6. g \in Seq(Indices!Label) /\ Indices!InOrder(g) /\ Indices!Range(g) = {"get", "write"}
    <3>1. IndexFits("get", w)
      BY <2>3 DEF IndexFits
    <3> QED BY <2>3, <3>1, IndexConsOrder DEF Indices!Label
  <2>7. i \in Seq(Indices!Label) /\ Indices!InOrder(i)
    <3>1. IndexFits("info", e)
      BY DEF IndexFits
    <3> QED BY <2>4, <3>1, IndexConsOrder DEF Indices!Label
  <2> HIDE DEF g, i
  <2>8. c \in Seq(Indices!Label) /\ Indices!InOrder(c) /\ Indices!Range(c) = {"check", "get", "write"}
    <3>1. IndexFits("check", g)
      BY DEF IndexFits
    <3> QED BY <2>6, <3>1, IndexConsOrder DEF Indices!Label
  <2> HIDE DEF c
  <2>9. s \in Seq(Indices!Label) /\ Indices!InOrder(s)
    <3>1. IndexFits("get", c)
      BY <2>8 DEF IndexFits
    <3> QED BY <2>8, <3>1, IndexConsOrder DEF Indices!Label
  <2> HIDE DEF s
  <2> QED BY <2>5, <2>6, <2>7, <2>9 DEF Indices!Steps
<1>3. Indices!TypeOK
  <2>1. idxIndex \in {None} \cup [mapping : {"right", "other"}, analyzer : {"ik"}, docs : {{}}]
    BY DEF Indices!Init
  <2>2. idxIndex \in {None} \cup [mapping : {"right", "other", "dynamic"}, analyzer : {"cjk",
      "ik"},
                               docs : SUBSET IndexTask]
    BY <2>1
  <2>3. idxTodo \in [IndexTask -> Seq(Indices!Label)]
    BY <1>1, <1>2
  <2>4. idxClient \in [Indices!Process -> BOOLEAN] /\ idxAnalyzer \in [Indices!Process -> {"cjk", "ik"}]
        /\ idxStatus \in [IndexTask -> {"waiting", "running", "indexed", "failed"}]
    BY <1>1 DEF Indices!Init
  <2>5. idxFailures \in 0 .. IndexFailures
    BY DEF Indices!Init, Indices!SearchIndexAssumption
  <2>6. idxErred \in BOOLEAN /\ idxStale \in BOOLEAN /\ idxEarly \in BOOLEAN
        /\ idxPlain \in BOOLEAN
    BY DEF Indices!Init
  <2> QED BY <2>2, <2>3, <2>4, <2>5, <2>6 DEF Indices!TypeOK
<1>4. Indices!OrderInv
  BY <1>1, <1>2 DEF Indices!OrderInv
<1>5. \A p \in Indices!Process : ~idxClient[p]
  BY DEF Indices!Init
<1>6. Indices!Mapping # "dynamic" /\ Indices!AnalyzerIsKnown
  <2>1. CASE idxIndex = None
    BY <2>1 DEF Indices!Mapping, Indices!AnalyzerIsKnown
  <2>2. CASE idxIndex # None
    <3>1. idxIndex.mapping \in {"right", "other"} /\ idxIndex.analyzer = "ik"
      BY <2>2 DEF Indices!Init
    <3> QED BY <2>2, <3>1 DEF Indices!Mapping, Indices!AnalyzerIsKnown
  <2> QED BY <2>1, <2>2
<1>7. Indices!CheckInv
  BY <1>1, <1>5, <1>6 DEF Indices!CheckInv
<1>8. Indices!AskedInv
  BY <1>1, <1>5 DEF Indices!AskedInv
<1>9. Indices!IndexHolds
  BY <1>1, <1>6 DEF Indices!IndexHolds, Indices!IndexedIsFound
<1> QED BY <1>3, <1>4, <1>7, <1>8, <1>9 DEF Indices!IInv

\* A task that begins is still to get its client.
LEMMA IndexBeginKeeps ==
    ASSUME Indices!SearchIndexAssumption, Indices!IInv, NEW t \in IndexTask, Indices!Begin(t)
    PROVE  Indices!IInv'
<1>0. Indices!TypeOK /\ Indices!OrderInv /\ Indices!CheckInv /\ Indices!AskedInv
      /\ Indices!IndexHolds
  BY DEF Indices!IInv
<1>1. /\ idxStatus[t] = "waiting" /\ idxStatus' = [idxStatus EXCEPT ![t] = "running"]
      /\ idxClient' = IF t = IndexStartup THEN [idxClient EXCEPT !["api"] = TRUE] ELSE idxClient
      /\ UNCHANGED <<idxIndex, idxAnalyzer, idxTodo, idxFailures, idxErred, idxStale, idxEarly,
                     idxPlain>>
  BY DEF Indices!Begin
<1>2. Indices!TypeOK'
  BY <1>0, <1>1 DEF Indices!TypeOK, Indices!Process
<1>3. idxTodo[t] = Indices!Steps(t) /\ Indices!Running' = Indices!Running \cup {t}
      /\ t \notin Indices!Running
      /\ \A u \in IndexTask \ {t} : idxStatus'[u] = idxStatus[u]
  BY <1>0, <1>1 DEF Indices!OrderInv, Indices!Running, Indices!TypeOK
<1>4. Indices!OrderInv'
  BY <1>0, <1>1, <1>3 DEF Indices!OrderInv, Indices!InOrder, Indices!InPlace, Indices!Followed,
       Indices!Later, Indices!Steps
<1>5. /\ Indices!Range(idxTodo[t]) \subseteq {"get", "check", "write", "info", "connected"}
      /\ t # IndexStartup => "get" \in Indices!Range(idxTodo[t]) /\ "connected" \notin Indices!Range(idxTodo[t])
      /\ t = IndexStartup => "info" \in Indices!Range(idxTodo[t]) /\ "connected" \in Indices!Range(idxTodo[t])
      /\ Head(idxTodo[t]) \in {"get", "info"}
  <2>1. Indices!Range(<<"info", "connected">>) = {"info", "connected"}
        /\ Head(<<"info", "connected">>) = "info"
    BY DEF Indices!Range
  <2>2. Indices!Range(<<"get", "write">>) = {"get", "write"} /\ Head(<<"get", "write">>) = "get"
    BY DEF Indices!Range
  <2>3. Indices!Range(<<"get", "check", "get", "write">>) = {"get", "check", "write"}
        /\ Head(<<"get", "check", "get", "write">>) = "get"
    BY DEF Indices!Range
  <2> QED BY <1>3, <2>1, <2>2, <2>3 DEF Indices!Steps
<1>6. \A p \in Indices!Process : Indices!Initializing(p) => Indices!Initializing(p)'
  BY <1>1, <1>3 DEF Indices!Initializing
<1>7. \A p \in Indices!Process : idxClient'[p] => idxClient[p] \/ Indices!Initializing(p)'
  <2> SUFFICES ASSUME NEW p \in Indices!Process, idxClient'[p], ~idxClient[p]
               PROVE  Indices!Initializing(p)'
    OBVIOUS
  <2>1. t = IndexStartup /\ p = "api" /\ IndexHome[t] = "api"
    BY <1>0, <1>1 DEF Indices!TypeOK, Indices!SearchIndexAssumption
  <2>2. idxStatus'[t] = "running" /\ "connected" \in Indices!Range(idxTodo'[t])
    BY <1>0, <1>1, <1>5, <2>1 DEF Indices!TypeOK
  <2> QED BY <2>1, <2>2 DEF Indices!Initializing
<1>8. Indices!Mapping' = Indices!Mapping
  BY <1>1 DEF Indices!Mapping
<1>9. Indices!CheckInv'
  <2> SUFFICES ASSUME ~idxErred /\ ~idxStale /\ ~idxEarly, Indices!Mapping # "right"
               PROVE  /\ \A u \in Indices!Running \cup {t} :
                            /\ "write" \in Indices!Range(idxTodo[u]) =>
                                  Indices!Range(idxTodo[u]) \cap (Indices!Pending \cup {"get"}) # {}
                            /\ "connected" \in Indices!Range(idxTodo[u])
                                 => Indices!Range(idxTodo[u]) \cap Indices!Pending # {}
                      /\ \A p \in Indices!Process : idxClient'[p] => Indices!Initializing(p)'
    BY <1>0, <1>1, <1>3, <1>8 DEF Indices!CheckInv
  <2>1. \A p \in Indices!Process : idxClient'[p] => Indices!Initializing(p)'
    BY <1>0, <1>6, <1>7 DEF Indices!CheckInv
  <2>2. /\ "write" \in Indices!Range(idxTodo[t]) => Indices!Range(idxTodo[t]) \cap (Indices!Pending
             \cup {"get"}) # {}
        /\ "connected" \in Indices!Range(idxTodo[t]) => Indices!Range(idxTodo[t]) \cap Indices!Pending # {}
    BY <1>5 DEF Indices!Pending
  <2>3. \A u \in Indices!Running :
            /\ "write" \in Indices!Range(idxTodo[u]) => Indices!Range(idxTodo[u]) \cap (Indices!Pending
                 \cup {"get"}) # {}
            /\ "connected" \in Indices!Range(idxTodo[u]) => Indices!Range(idxTodo[u]) \cap Indices!Pending # {}
    BY <1>0 DEF Indices!CheckInv
  <2> QED BY <2>1, <2>2, <2>3
<1>10. Indices!AskedInv'
  <2> SUFFICES ASSUME ~idxPlain /\ ~idxEarly
               PROVE  /\ \A u \in Indices!Running \cup {t} :
                            (\/ Indices!Range(idxTodo[u]) \cap IndexChecking # {}
                             \/ idxTodo[u] # <<>> /\ Head(idxTodo[u]) = "check") =>
                                idxAnalyzer[IndexHome[u]] = "ik"
                      /\ \A p \in Indices!Process : idxClient'[p] /\ idxAnalyzer[p] = "cjk"
                           => Indices!Initializing(p)'
    BY <1>1, <1>3 DEF Indices!AskedInv, IndexChecking
  <2>1. \A p \in Indices!Process : idxClient'[p] /\ idxAnalyzer[p] = "cjk"
          => Indices!Initializing(p)'
    BY <1>0, <1>6, <1>7 DEF Indices!AskedInv
  <2>2. Indices!Range(idxTodo[t]) \cap IndexChecking = {} /\ Head(idxTodo[t]) # "check"
    BY <1>5 DEF IndexChecking
  <2>3. \A u \in Indices!Running :
            (\/ Indices!Range(idxTodo[u]) \cap IndexChecking # {}
             \/ idxTodo[u] # <<>> /\ Head(idxTodo[u]) = "check") => idxAnalyzer[IndexHome[u]]
                  = "ik"
    BY <1>0 DEF Indices!AskedInv, IndexChecking
  <2> QED BY <2>1, <2>2, <2>3
<1>11. Indices!IndexHolds'
  <2>1. \A u \in IndexTask : idxStatus'[u] = "indexed" => idxStatus[u] = "indexed"
    BY <1>0, <1>1 DEF Indices!TypeOK
  <2> QED BY <1>0, <1>1, <2>1, IndexHoldsKept
<1> QED BY <1>2, <1>4, <1>9, <1>10, <1>11 DEF Indices!IInv

\* Getting the client: one that is there has been initialized, or else the task is
\* the one that initializes it.
LEMMA IndexGetKeeps ==
    ASSUME Indices!SearchIndexAssumption, Indices!IInv, NEW t \in IndexTask,
           Indices!GetElasticsearch(t)
    PROVE  Indices!IInv'
<1> DEFINE p == IndexHome[t]
           rest == Tail(idxTodo[t])
<1>0. Indices!TypeOK /\ Indices!OrderInv /\ Indices!CheckInv /\ Indices!AskedInv
      /\ Indices!IndexHolds
  BY DEF Indices!IInv
<1>1. /\ Indices!Turn(t, "get") /\ idxClient' = [idxClient EXCEPT ![p] = TRUE]
      /\ UNCHANGED <<idxIndex, idxAnalyzer, idxStatus, idxFailures, idxErred, idxStale,
                     idxPlain>>
  BY DEF Indices!GetElasticsearch
<1>2. /\ t \in Indices!Running /\ rest \in Seq(Indices!Label) /\ Indices!InOrder(rest)
      /\ IndexFits("get", rest)
      /\ Indices!Range(idxTodo[t]) = {"get"} \cup Indices!Range(rest)
  BY <1>0, <1>1, IndexTurnGives
<1>3. IndexHome \in [IndexTask -> Indices!Process] /\ p \in Indices!Process
  BY DEF Indices!SearchIndexAssumption, Indices!Process
<1>4. Indices!Mapping' = Indices!Mapping
  BY <1>1 DEF Indices!Mapping
<1>5. SUFFICES ASSUME NEW new, IndexLeaves(t, new), idxEarly' \in BOOLEAN,
    idxEarly => idxEarly',
                      Indices!CheckInv', Indices!AskedInv'
               PROVE  Indices!IInv'
  <2>1. CASE idxClient[p]
    <3>1. Indices!Then(t, <<>>) /\ idxEarly' = (idxEarly \/ (Indices!Initializing(p)
          /\ "connected" \notin Indices!Range(idxTodo[t])))
      BY <2>1 DEF Indices!GetElasticsearch
    <3>2. idxEarly' \in BOOLEAN /\ (idxEarly => idxEarly')
      BY <1>0, <3>1 DEF Indices!TypeOK, Indices!Initializing
    <3>3. PICK new :
              /\ IndexLeaves(t, new)
              /\ Indices!Range(new) \subseteq Indices!Range(rest)
              /\ Indices!Range(rest) \ Indices!Ends \subseteq Indices!Range(new)
              /\ rest # <<>> /\ Head(rest) \notin Indices!Ends => new = rest
      BY <1>0, <1>1, <3>1, IndexThenNothing
    <3>4. idxClient' = idxClient
      BY <1>0, <1>1, <1>3, <2>1 DEF Indices!TypeOK
    <3>5. "connected" \in Indices!Range(idxTodo[t]) => new = rest /\ "recreate" \in Indices!Range(rest)
      <4>1. "connected" \in Indices!Range(idxTodo[t]) => rest # <<>> /\ Head(rest) = "recreate"
        BY <1>2 DEF IndexFits
      <4>2. rest # <<>> => Head(rest) \in Indices!Range(rest)
        BY <1>2, IndexHeadTail
      <4> QED BY <3>3, <4>1, <4>2 DEF Indices!Ends
    <3>6. "connected" \in Indices!Range(idxTodo[t]) => "connected" \in Indices!Range(new)
      BY <1>2, <3>5
    <3>7. \A q \in Indices!Process : idxClient'[q] => IndexInitialized(t, new, q)
      BY <1>1, <3>4, <3>6 DEF IndexInitialized
    <3>8. Indices!CheckInv'
      <4>1. ASSUME ~idxErred' /\ ~idxStale' /\ ~idxEarly' /\ Indices!Mapping' # "right"
            PROVE  Indices!Range(new) \cap Indices!Pending # {}
        <5>1. Indices!Initializing(p)
          BY <1>0, <1>1, <1>3, <1>4, <2>1, <3>2, <4>1 DEF Indices!CheckInv
        <5>2. "connected" \in Indices!Range(idxTodo[t])
          BY <3>1, <4>1, <5>1
        <5> QED BY <3>5, <5>2 DEF Indices!Pending
      <4>2. ~idxErred' /\ ~idxStale' /\ ~idxEarly' => Indices!Mapping' # "dynamic"
        BY <1>0, <1>1, <1>4, <3>2 DEF Indices!CheckInv
      <4> QED BY <1>0, <1>1, <1>2, <1>4, <3>2, <3>3, <3>7, <4>1, <4>2, IndexCheckKeeps
    <3>9. Indices!AskedInv'
      <4>1. ASSUME ~idxPlain' /\ ~idxEarly'
            PROVE  idxAnalyzer'[IndexHome[t]] = "ik"
        <5>1. CASE "connected" \in Indices!Range(idxTodo[t])
          BY <1>0, <1>1, <1>2, <3>2, <3>5, <4>1, <5>1 DEF Indices!AskedInv
        <5>2. CASE ~Indices!Initializing(p)
          <6>1. idxAnalyzer[p] # "cjk"
            BY <1>0, <1>1, <1>3, <2>1, <3>2, <4>1, <5>2 DEF Indices!AskedInv
          <6> QED BY <1>0, <1>1, <1>3, <6>1 DEF Indices!TypeOK
        <5> QED BY <3>1, <4>1, <5>1, <5>2
      <4>2. idxAnalyzer' \in [Indices!Process -> {"cjk", "ik"}]
            /\ \A q \in Indices!Process : idxAnalyzer'[q] = idxAnalyzer[q]
        BY <1>0, <1>1 DEF Indices!TypeOK
      <4> QED BY <1>0, <1>1, <1>2, <1>3, <3>2, <3>3, <3>7, <4>1, <4>2, IndexAskedKeeps
    <3> QED BY <1>5, <3>2, <3>3, <3>8, <3>9
  <2>2. CASE ~idxClient[p]
    <3>1. Indices!Then(t, <<"info", "connected">>) /\ idxEarly' = idxEarly
      BY <2>2 DEF Indices!GetElasticsearch
    <3>2. idxEarly' \in BOOLEAN
      BY <1>0, <3>1 DEF Indices!TypeOK
    <3>3. PICK new :
              /\ IndexLeaves(t, new)
              /\ Indices!Range(new) = {"info", "connected"} \cup Indices!Range(rest)
              /\ new # <<>> /\ Head(new) = "info"
      <4>1. IndexFits("connected", rest) /\ IndexFits("info", <<"connected">> \o rest)
        BY DEF IndexFits
      <4>2. "info" \in Indices!Label \ Indices!Ends /\ "connected" \in Indices!Label
        BY DEF Indices!Label, Indices!Ends
      <4> QED BY <1>0, <1>1, <3>1, <4>1, <4>2, IndexThenTwo
    <3>4. \A q \in Indices!Process : idxClient'[q] => IndexInitialized(t, new, q)
      BY <1>0, <1>1, <1>3, <3>3 DEF IndexInitialized, Indices!TypeOK
    <3>5. Indices!CheckInv'
      <4>1. Indices!Range(new) \cap Indices!Pending # {}
        BY <3>3 DEF Indices!Pending
      <4>2. ~idxErred' /\ ~idxStale' /\ ~idxEarly' => Indices!Mapping' # "dynamic"
        BY <1>0, <1>1, <1>4, <3>1 DEF Indices!CheckInv
      <4> QED BY <1>0, <1>1, <1>2, <1>4, <3>1, <3>3, <3>4, <4>1, <4>2, IndexCheckKeeps
    <3>6. Indices!AskedInv'
      <4>1. ASSUME ~idxPlain' /\ ~idxEarly', Indices!Range(new) \cap IndexChecking # {}
            PROVE  idxAnalyzer'[IndexHome[t]] = "ik"
        <5>1. Indices!Range(idxTodo[t]) \cap IndexChecking # {}
          BY <1>2, <3>3, <4>1 DEF IndexChecking
        <5> QED BY <1>0, <1>1, <1>2, <3>1, <4>1, <5>1 DEF Indices!AskedInv, IndexChecking
      <4>2. idxAnalyzer' \in [Indices!Process -> {"cjk", "ik"}]
            /\ \A q \in Indices!Process : idxAnalyzer'[q] = idxAnalyzer[q]
        BY <1>0, <1>1 DEF Indices!TypeOK
      <4> QED BY <1>0, <1>1, <1>2, <1>3, <3>1, <3>3, <3>4, <4>1, <4>2, IndexAskedKeeps
    <3> QED BY <1>5, <3>1, <3>2, <3>3, <3>5, <3>6
  <2> QED BY <2>1, <2>2
<1>6. Indices!OrderInv' /\ idxTodo' \in [IndexTask -> Seq(Indices!Label)]
  BY <1>0, <1>2, <1>5, IndexLeavesGives
<1>7. Indices!TypeOK'
  BY <1>0, <1>1, <1>3, <1>5, <1>6 DEF Indices!TypeOK
<1>8. Indices!IndexHolds'
  BY <1>0, <1>1, <1>5, IndexHoldsKept
<1> QED BY <1>5, <1>6, <1>7, <1>8 DEF Indices!IInv

\* A client that answers leads to a check of the index; one that does not is taken away.
LEMMA IndexInfoKeeps ==
    ASSUME Indices!SearchIndexAssumption, Indices!IInv, NEW t \in IndexTask, Indices!Info(t)
    PROVE  Indices!IInv'
<1> DEFINE p == IndexHome[t]
           rest == Tail(idxTodo[t])
<1>0. Indices!TypeOK /\ Indices!OrderInv /\ Indices!CheckInv /\ Indices!AskedInv
      /\ Indices!IndexHolds
  BY DEF Indices!IInv
<1>1. Indices!Turn(t, "info") /\ UNCHANGED <<idxIndex, idxAnalyzer, idxStale, idxEarly,
                                             idxPlain>>
  BY DEF Indices!Info
<1>2. /\ t \in Indices!Running /\ rest \in Seq(Indices!Label) /\ Indices!InOrder(rest)
      /\ idxTodo[t] \in Seq(Indices!Label) /\ Indices!InOrder(idxTodo[t])
      /\ Indices!Range(idxTodo[t]) = {"info"} \cup Indices!Range(rest)
  BY <1>0, <1>1, IndexTurnGives
<1>3. IndexHome \in [IndexTask -> Indices!Process] /\ p \in Indices!Process
  BY DEF Indices!SearchIndexAssumption, Indices!Process
<1>4. Indices!Mapping' = Indices!Mapping
  BY <1>1 DEF Indices!Mapping
<1>5. idxAnalyzer' \in [Indices!Process -> {"cjk", "ik"}]
      /\ \A q \in Indices!Process : idxAnalyzer'[q] = idxAnalyzer[q]
  BY <1>0, <1>1 DEF Indices!TypeOK
<1>6. CASE Indices!Then(t, <<"analyze", "check">>) /\ UNCHANGED <<idxClient, idxStatus,
                                                                  idxFailures, idxErred>>
  <2>1. PICK new :
            /\ IndexLeaves(t, new)
            /\ Indices!Range(new) = {"analyze", "check"} \cup Indices!Range(rest)
            /\ new # <<>> /\ Head(new) = "analyze"
    <3>1. "analyze" \in Indices!Label \ Indices!Ends /\ "check" \in Indices!Label
      BY DEF Indices!Label, Indices!Ends
    <3>2. IndexFits("check", rest)
      BY DEF IndexFits
    <3>3. IndexFits("analyze", <<"check">> \o rest)
      <4>1. <<"check">> \o rest # <<>> /\ Head(<<"check">> \o rest) = "check"
        BY <1>2
      <4> QED BY <4>1 DEF IndexFits
    <3> QED BY <1>0, <1>1, <1>6, <3>1, <3>2, <3>3, IndexThenTwo
  <2>2. Indices!CheckInv'
    <3>1. Indices!Range(new) \cap Indices!Pending # {} /\ ("connected" \in Indices!Range(rest)
            => "connected" \in Indices!Range(new))
      BY <2>1 DEF Indices!Pending
    <3> QED BY <1>0, <1>1, <1>6, <2>1, <3>1, IndexCheckOn
  <2>3. Indices!AskedInv'
    <3>1. \A q \in Indices!Process : idxClient'[q] => IndexInitialized(t, new, q)
      BY <1>2, <1>6, <2>1 DEF IndexInitialized
    <3>2. ASSUME ~idxPlain' /\ ~idxEarly', Indices!Range(new) \cap IndexChecking # {}
          PROVE  idxAnalyzer'[IndexHome[t]] = "ik"
      <4>1. Indices!Range(idxTodo[t]) \cap IndexChecking # {}
        BY <1>2, <2>1, <3>2 DEF IndexChecking
      <4> QED BY <1>0, <1>1, <1>2, <3>2, <4>1 DEF Indices!AskedInv, IndexChecking
    <3> QED BY <1>0, <1>1, <1>2, <1>3, <1>5, <2>1, <3>1, <3>2, IndexAskedKeeps
  <2>4. Indices!OrderInv' /\ idxTodo' \in [IndexTask -> Seq(Indices!Label)]
    BY <1>0, <1>2, <2>1, IndexLeavesGives
  <2>5. Indices!TypeOK'
    BY <1>0, <1>1, <1>6, <2>4 DEF Indices!TypeOK
  <2>6. Indices!IndexHolds'
    BY <1>0, <1>1, <1>6, IndexHoldsKept
  <2> QED BY <2>2, <2>3, <2>4, <2>5, <2>6 DEF Indices!IInv
<1>7. CASE /\ Indices!Fails
           /\ idxClient' = [idxClient EXCEPT ![p] = FALSE]
           /\ IF t = IndexStartup
              THEN Indices!Goto(t, <<>>) /\ UNCHANGED <<idxStatus, idxErred>>
              ELSE Indices!RaiseBefore(t, Indices!Beyond(idxTodo[t], "connected"))
  <2>1. PICK new :
            /\ IndexLeaves(t, new)
            /\ idxErred => idxErred'
            /\ idxErred' \in BOOLEAN
            /\ \A u \in IndexTask : idxStatus'[u] = "indexed" => idxStatus[u] = "indexed"
            /\ new = <<>> \/ (idxErred' = TRUE /\ idxStatus' = idxStatus
               /\ "checked" \in Indices!Range(idxTodo[t]))
    <3>1. CASE t = IndexStartup
      <4>1. Indices!Goto(t, <<>>) /\ UNCHANGED <<idxStatus, idxErred>>
        BY <1>7, <3>1
      <4>2. idxTodo' = [idxTodo EXCEPT ![t] = <<>>]
        BY <1>0, <4>1, IndexGotoNothing
      <4>3. IndexLeaves(t, <<>>)
        BY <4>1, <4>2 DEF IndexLeaves, Indices!InOrder
      <4> QED BY <1>0, <4>1, <4>3 DEF Indices!TypeOK
    <3>2. CASE t # IndexStartup
      <4> DEFINE steps == Indices!Beyond(idxTodo[t], "connected")
      <4>1. Indices!RaiseBefore(t, steps)
        BY <1>7, <3>2
      <4>2. steps \in Seq(Indices!Label) /\ Indices!InOrder(steps)
            /\ Indices!Range(steps) \subseteq Indices!Range(idxTodo[t])
        BY <1>2, IndexBeyondGives
      <4> HIDE DEF steps
      <4>3. PICK new :
              /\ IndexLeaves(t, new)
              /\ \/ "checked" \in Indices!Range(steps) /\ idxErred' = TRUE /\ idxStatus' = idxStatus
                 \/ /\ new = <<>> /\ idxErred' = idxErred
                    /\ idxStatus' = [idxStatus EXCEPT ![t] = "failed"]
        BY <1>0, <1>2, <4>1, <4>2, IndexRaiseGives
      <4>4. \A u \in IndexTask : idxStatus'[u] = "indexed" => idxStatus[u] = "indexed"
        BY <1>0, <4>3 DEF Indices!TypeOK
      <4>5. (idxErred => idxErred') /\ idxErred' \in BOOLEAN
        <5>1. idxErred \in BOOLEAN
          BY <1>0 DEF Indices!TypeOK
        <5>2. idxErred' = TRUE \/ idxErred' = idxErred
          BY <4>3
        <5> QED BY <5>1, <5>2
      <4> QED BY <4>2, <4>3, <4>4, <4>5
    <3> QED BY <3>1, <3>2
  <2>2. \A q \in Indices!Process : idxClient'[q] => idxClient[q] /\ q # p
    BY <1>0, <1>3, <1>7 DEF Indices!TypeOK
  <2>3. \A q \in Indices!Process : idxClient'[q] => IndexInitialized(t, new, q)
    BY <2>2 DEF IndexInitialized
  <2>4. Indices!Range(<<>>) = {}
    BY DEF Indices!Range
  <2>5. Indices!CheckInv'
    <3>1. CASE idxErred' = TRUE
      BY <3>1 DEF Indices!CheckInv
    <3>2. CASE idxErred' # TRUE
      <4>1. ~idxErred' /\ ~idxStale' /\ ~idxEarly' => Indices!Mapping' # "dynamic"
        BY <1>0, <1>1, <1>4, <2>1 DEF Indices!CheckInv
      <4>2. new = <<>>
        BY <2>1, <3>2
      <4>3. "write" \notin Indices!Range(new) /\ "connected" \notin Indices!Range(new)
        BY <2>4, <4>2
      <4> QED BY <1>0, <1>1, <1>2, <1>4, <2>1, <2>3, <4>1, <4>3, IndexCheckKeeps
    <3> QED BY <3>1, <3>2
  <2>6. Indices!AskedInv'
    <3>1. CASE new = <<>>
      BY <1>0, <1>1, <1>2, <1>3, <1>5, <2>1, <2>3, <2>4, <3>1, IndexAskedKeeps
    <3>2. CASE "checked" \in Indices!Range(idxTodo[t])
      <4>1. ~idxPlain' /\ ~idxEarly' => idxAnalyzer'[IndexHome[t]] = "ik"
        BY <1>0, <1>1, <1>2, <3>2 DEF Indices!AskedInv
      <4> QED BY <1>0, <1>1, <1>2, <1>3, <1>5, <2>1, <2>3, <4>1, IndexAskedKeeps
    <3> QED BY <2>1, <3>1, <3>2
  <2>7. /\ Indices!OrderInv' /\ idxTodo' \in [IndexTask -> Seq(Indices!Label)]
        /\ idxStatus' \in [IndexTask -> {"waiting", "running", "indexed", "failed"}]
    BY <1>0, <1>2, <2>1, IndexLeavesGives
  <2>8. Indices!TypeOK'
    <3>1. idxFailures' \in 0 .. IndexFailures
      BY <1>0, <1>7 DEF Indices!Fails, Indices!TypeOK, Indices!SearchIndexAssumption
    <3>2. idxClient' \in [Indices!Process -> BOOLEAN]
      BY <1>0, <1>7 DEF Indices!TypeOK
    <3> QED BY <1>0, <1>1, <2>1, <2>7, <3>1, <3>2 DEF Indices!TypeOK
  <2>9. Indices!IndexHolds'
    BY <1>0, <1>1, <2>1, IndexHoldsKept
  <2> QED BY <2>5, <2>6, <2>7, <2>8, <2>9 DEF Indices!IInv
<1> QED BY <1>6, <1>7 DEF Indices!Info

\* The analyzer is known, or it could not be asked for.
LEMMA IndexDetectKeeps ==
    ASSUME Indices!SearchIndexAssumption, Indices!IInv, NEW t \in IndexTask,
           Indices!DetectAnalyzer(t)
    PROVE  Indices!IInv'
<1> DEFINE p == IndexHome[t]
           rest == Tail(idxTodo[t])
<1>0. Indices!TypeOK /\ Indices!OrderInv /\ Indices!CheckInv /\ Indices!AskedInv
      /\ Indices!IndexHolds
  BY DEF Indices!IInv
<1>1. /\ Indices!Turn(t, "analyze") /\ Indices!Then(t, <<>>)
      /\ UNCHANGED <<idxIndex, idxClient, idxStatus, idxErred, idxStale, idxEarly>>
      /\ \/ idxAnalyzer' = [idxAnalyzer EXCEPT ![p] = "ik"] /\ UNCHANGED <<idxFailures,
                                                                           idxPlain>>
         \/ Indices!Fails /\ idxPlain' = TRUE /\ UNCHANGED idxAnalyzer
  BY DEF Indices!DetectAnalyzer
<1>2. /\ t \in Indices!Running /\ rest \in Seq(Indices!Label) /\ Indices!InOrder(rest)
      /\ IndexFits("analyze", rest)
      /\ Indices!Range(idxTodo[t]) = {"analyze"} \cup Indices!Range(rest)
  BY <1>0, <1>1, IndexTurnGives
<1>3. IndexHome \in [IndexTask -> Indices!Process] /\ p \in Indices!Process
  BY DEF Indices!SearchIndexAssumption, Indices!Process
<1>4. rest # <<>> /\ Head(rest) = "check" /\ "check" \in Indices!Range(rest)
  <2>1. rest # <<>> /\ Head(rest) = "check"
    BY <1>2 DEF IndexFits
  <2> QED BY <1>2, <2>1, IndexHeadTail
<1>5. IndexLeaves(t, rest)
  <2>1. PICK new :
              /\ IndexLeaves(t, new)
              /\ rest # <<>> /\ Head(rest) \notin Indices!Ends => new = rest
    BY <1>0, <1>1, IndexThenNothing
  <2> QED BY <1>4, <2>1 DEF Indices!Ends
<1>6. Indices!CheckInv'
  <2>1. Indices!Range(rest) \cap Indices!Pending # {}
    BY <1>4 DEF Indices!Pending
  <2> QED BY <1>0, <1>1, <1>5, <2>1, IndexCheckOn
<1>7. /\ idxAnalyzer' \in [Indices!Process -> {"cjk", "ik"}] /\ (idxPlain => idxPlain')
         /\ idxPlain' \in BOOLEAN
      /\ \A q \in Indices!Process : idxAnalyzer[q] = "ik" => idxAnalyzer'[q] = "ik"
      /\ ~idxPlain' => idxAnalyzer'[p] = "ik"
  <2>1. idxAnalyzer \in [Indices!Process -> {"cjk", "ik"}] /\ idxPlain \in BOOLEAN
    BY <1>0 DEF Indices!TypeOK
  <2>2. CASE idxAnalyzer' = [idxAnalyzer EXCEPT ![p] = "ik"] /\ idxPlain' = idxPlain
    <3>1. idxAnalyzer' \in [Indices!Process -> {"cjk", "ik"}] /\ idxAnalyzer'[p] = "ik"
          /\ \A q \in Indices!Process : idxAnalyzer[q] = "ik" => idxAnalyzer'[q] = "ik"
      BY <1>3, <2>1, <2>2
    <3> QED BY <2>1, <2>2, <3>1
  <2>3. CASE idxPlain' = TRUE /\ idxAnalyzer' = idxAnalyzer
    BY <2>1, <2>3
  <2> QED BY <1>1, <2>2, <2>3
<1>8. Indices!AskedInv'
  <2>1. \A q \in Indices!Process : idxClient'[q] => IndexInitialized(t, rest, q)
    BY <1>1, <1>2 DEF IndexInitialized
  <2> QED BY <1>0, <1>1, <1>2, <1>3, <1>5, <1>7, <2>1, IndexAskedKeeps
<1>9. Indices!OrderInv' /\ idxTodo' \in [IndexTask -> Seq(Indices!Label)]
  BY <1>0, <1>2, <1>5, IndexLeavesGives
<1>10. Indices!TypeOK'
  <2>1. idxFailures' \in 0 .. IndexFailures
    BY <1>0, <1>1 DEF Indices!Fails, Indices!TypeOK, Indices!SearchIndexAssumption
  <2> QED BY <1>0, <1>1, <1>7, <1>9, <2>1 DEF Indices!TypeOK
<1>11. Indices!IndexHolds'
  BY <1>0, <1>1, <1>7, IndexHoldsKept
<1> QED BY <1>6, <1>8, <1>9, <1>10, <1>11 DEF Indices!IInv

-----------------------------------------------------------------------------

\* An error of a check is logged by the check.
LEMMA IndexRaiseKeeps ==
    ASSUME Indices!SearchIndexAssumption, Indices!IInv, NEW t \in IndexTask, NEW label,
           Indices!Turn(t, label),
           label \in {"mapping", "recreate", "delete", "create"}, Indices!Raise(t),
           UNCHANGED <<idxIndex, idxClient, idxAnalyzer, idxStale, idxEarly, idxPlain>>,
           idxFailures' = idxFailures \/ Indices!Fails
    PROVE  Indices!IInv'
<1>0. Indices!TypeOK /\ Indices!OrderInv /\ Indices!CheckInv /\ Indices!AskedInv
      /\ Indices!IndexHolds
  BY DEF Indices!IInv
<1>1. /\ t \in Indices!Running /\ IndexFits(label, Tail(idxTodo[t]))
      /\ idxTodo[t] \in Seq(Indices!Label) /\ Indices!InOrder(idxTodo[t])
      /\ Indices!Range(idxTodo[t]) = {label} \cup Indices!Range(Tail(idxTodo[t]))
  BY <1>0, IndexTurnGives
<1>2. "checked" \in Indices!Range(idxTodo[t])
  BY <1>1 DEF IndexFits
<1>3. PICK new : IndexLeaves(t, new) /\ idxErred' = TRUE /\ idxStatus' = idxStatus
  BY <1>0, <1>1, <1>2, IndexRaiseGives DEF Indices!Raise
<1>4. Indices!CheckInv'
  BY <1>3 DEF Indices!CheckInv
<1>5. Indices!AskedInv'
  BY <1>0, <1>3, IndexAskedOn
<1>6. Indices!OrderInv' /\ idxTodo' \in [IndexTask -> Seq(Indices!Label)]
  BY <1>0, <1>1, <1>3, IndexLeavesGives
<1>7. Indices!TypeOK'
  <2>1. idxFailures' \in 0 .. IndexFailures
    BY <1>0 DEF Indices!Fails, Indices!TypeOK, Indices!SearchIndexAssumption
  <2> QED BY <1>0, <1>3, <1>6, <2>1 DEF Indices!TypeOK
<1>8. Indices!IndexHolds'
  BY <1>0, <1>3, IndexHoldsKept
<1> QED BY <1>4, <1>5, <1>6, <1>7, <1>8 DEF Indices!IInv

\* A check that goes on, or one that need not.
LEMMA IndexOnKeeps ==
    ASSUME Indices!SearchIndexAssumption, Indices!IInv, NEW t \in IndexTask, NEW label,
           Indices!Turn(t, label),
           label \in {"check", "mapping", "recreate"},
           NEW new, IndexLeaves(t, new),
           UNCHANGED <<idxIndex, idxClient, idxAnalyzer, idxStatus, idxFailures, idxErred,
                       idxStale, idxEarly, idxPlain>>,
           \/ idxErred \/ idxStale \/ idxEarly \/ Indices!Mapping = "right"
           \/ /\ Indices!Range(new) \cap Indices!Pending # {}
              /\ "connected" \in Indices!Range(Tail(idxTodo[t])) => "connected" \in Indices!Range(new)
    PROVE  Indices!IInv'
<1>0. Indices!TypeOK /\ Indices!OrderInv /\ Indices!CheckInv /\ Indices!AskedInv
      /\ Indices!IndexHolds
  BY DEF Indices!IInv
<1>1. t \in Indices!Running
  BY <1>0, IndexTurnGives
<1>2. Indices!Mapping' = Indices!Mapping
  BY DEF Indices!Mapping
<1>3. Indices!CheckInv'
  <2>1. CASE idxErred \/ idxStale \/ idxEarly \/ Indices!Mapping = "right"
    BY <1>0, <1>2, <2>1 DEF Indices!CheckInv
  <2>2. CASE /\ Indices!Range(new) \cap Indices!Pending # {}
             /\ "connected" \in Indices!Range(Tail(idxTodo[t])) => "connected" \in Indices!Range(new)
    BY <1>0, <2>2, IndexCheckOn
  <2> QED BY <2>1, <2>2
<1>4. Indices!AskedInv'
  BY <1>0, IndexAskedOn
<1>5. Indices!OrderInv' /\ idxTodo' \in [IndexTask -> Seq(Indices!Label)]
  BY <1>0, <1>1, IndexLeavesGives
<1>6. Indices!TypeOK'
  BY <1>0, <1>5 DEF Indices!TypeOK
<1>7. Indices!IndexHolds'
  BY <1>0, IndexHoldsKept
<1> QED BY <1>3, <1>4, <1>5, <1>6, <1>7 DEF Indices!IInv

LEMMA IndexCheckExistsKeeps ==
    ASSUME Indices!SearchIndexAssumption, Indices!IInv, NEW t \in IndexTask,
           Indices!CheckExists(t)
    PROVE  Indices!IInv'
<1> DEFINE rest == Tail(idxTodo[t])
<1>0. Indices!TypeOK /\ Indices!OrderInv /\ Indices!CheckInv /\ Indices!AskedInv
      /\ Indices!IndexHolds
  BY DEF Indices!IInv
<1>1. Indices!Turn(t, "check") /\ UNCHANGED <<idxIndex, idxClient, idxAnalyzer, idxStatus,
                                              idxStale, idxEarly, idxPlain>>
  BY DEF Indices!CheckExists
<1>2. t \in Indices!Running /\ rest \in Seq(Indices!Label)
  BY <1>0, <1>1, IndexTurnGives
<1>3. CASE /\ Indices!Then(t, <<IF idxIndex = None THEN "create" ELSE "mapping", "checked">>)
           /\ UNCHANGED <<idxFailures, idxErred>>
  <2> DEFINE a == IF idxIndex = None THEN "create" ELSE "mapping"
  <2>1. a \in Indices!Label \ Indices!Ends /\ "checked" \in Indices!Label
        /\ a \in Indices!Pending /\ a \in {"create", "mapping"}
    BY DEF Indices!Label, Indices!Ends, Indices!Pending
  <2>2. Indices!Then(t, <<a, "checked">>)
    BY <1>3
  <2> HIDE DEF a
  <2>3. IndexFits("checked", rest)
    BY DEF IndexFits
  <2>4. IndexFits(a, <<"checked">> \o rest)
    <3>1. "checked" \in Indices!Range(<<"checked">> \o rest)
      <4>1. Indices!Range(<<"checked">> \o rest) = {"checked"} \cup Indices!Range(rest)
        BY <1>2, <2>1, IndexConsOrder
      <4> QED BY <4>1
    <3> QED BY <2>1, <3>1 DEF IndexFits
  <2>5. PICK new : IndexLeaves(t, new) /\ Indices!Range(new) = {a, "checked"} \cup Indices!Range(rest)
    BY <1>0, <1>1, <2>1, <2>2, <2>3, <2>4, IndexThenTwo
  <2>6. Indices!Range(new) \cap Indices!Pending # {} /\ ("connected" \in Indices!Range(rest)
          => "connected" \in Indices!Range(new))
    BY <2>1, <2>5
  <2> QED BY <1>1, <1>3, <2>5, <2>6, IndexOnKeeps
<1>4. CASE Indices!Fails /\ idxErred' = TRUE /\ Indices!Then(t, <<>>)
  <2>1. PICK new : IndexLeaves(t, new)
    BY <1>0, <1>1, <1>4, IndexThenNothing
  <2>2. Indices!CheckInv'
    BY <1>4 DEF Indices!CheckInv
  <2>3. Indices!AskedInv'
    BY <1>0, <1>1, <2>1, IndexAskedOn
  <2>4. Indices!OrderInv' /\ idxTodo' \in [IndexTask -> Seq(Indices!Label)]
    BY <1>0, <1>2, <2>1, IndexLeavesGives
  <2>5. Indices!TypeOK'
    <3>1. idxFailures' \in 0 .. IndexFailures
      BY <1>0, <1>4 DEF Indices!Fails, Indices!TypeOK, Indices!SearchIndexAssumption
    <3> QED BY <1>0, <1>1, <1>4, <2>4, <3>1 DEF Indices!TypeOK
  <2>6. Indices!IndexHolds'
    BY <1>0, <1>1, <1>4, IndexHoldsKept
  <2> QED BY <2>2, <2>3, <2>4, <2>5, <2>6 DEF Indices!IInv
<1> QED BY <1>3, <1>4 DEF Indices!CheckExists

LEMMA IndexReadMappingKeeps ==
    ASSUME Indices!SearchIndexAssumption, Indices!IInv, NEW t \in IndexTask,
           Indices!ReadMapping(t)
    PROVE  Indices!IInv'
<1> DEFINE rest == Tail(idxTodo[t])
<1>0. Indices!TypeOK /\ Indices!OrderInv /\ Indices!CheckInv /\ Indices!AskedInv
      /\ Indices!IndexHolds
  BY DEF Indices!IInv
<1>1. Indices!Turn(t, "mapping") /\ UNCHANGED <<idxIndex, idxClient, idxAnalyzer, idxStale,
                                                idxEarly, idxPlain>>
  BY DEF Indices!ReadMapping
<1>2. t \in Indices!Running /\ rest \in Seq(Indices!Label) /\ IndexFits("mapping", rest)
  BY <1>0, <1>1, IndexTurnGives
<1>3. CASE /\ Indices!Mapping \in {"right", "dynamic"} /\ Indices!Then(t, <<>>)
           /\ UNCHANGED <<idxFailures, idxErred, idxStatus>>
  <2>1. PICK new : IndexLeaves(t, new)
    BY <1>0, <1>1, <1>3, IndexThenNothing
  <2>2. idxErred \/ idxStale \/ idxEarly \/ Indices!Mapping = "right"
    BY <1>0, <1>3 DEF Indices!CheckInv
  <2> QED BY <1>1, <1>3, <2>1, <2>2, IndexOnKeeps
<1>4. CASE /\ Indices!Mapping \in {"other", "dynamic"} /\ Indices!Then(t, <<"get", "recreate">>)
           /\ UNCHANGED <<idxFailures, idxErred, idxStatus>>
  <2>1. "get" \in Indices!Label \ Indices!Ends /\ "recreate" \in Indices!Label
        /\ "recreate" \in Indices!Pending
    BY DEF Indices!Label, Indices!Ends, Indices!Pending
  <2>2. IndexFits("recreate", rest)
    BY <1>2 DEF IndexFits
  <2>3. IndexFits("get", <<"recreate">> \o rest)
    <3>1. <<"recreate">> \o rest # <<>> /\ Head(<<"recreate">> \o rest) = "recreate"
      BY <1>2
    <3> QED BY <3>1 DEF IndexFits
  <2>4. PICK new : IndexLeaves(t, new) /\ Indices!Range(new) = {"get", "recreate"} \cup Indices!Range(rest)
    BY <1>0, <1>1, <1>4, <2>1, <2>2, <2>3, IndexThenTwo
  <2>5. Indices!Range(new) \cap Indices!Pending # {} /\ ("connected" \in Indices!Range(rest)
          => "connected" \in Indices!Range(new))
    BY <2>1, <2>4
  <2> QED BY <1>1, <1>4, <2>4, <2>5, IndexOnKeeps
<1>5. CASE Indices!Raise(t) /\ (idxFailures' = idxFailures \/ Indices!Fails)
  BY <1>1, <1>5, IndexRaiseKeeps
<1> QED BY <1>3, <1>4, <1>5 DEF Indices!ReadMapping

LEMMA IndexRecreateExistsKeeps ==
    ASSUME Indices!SearchIndexAssumption, Indices!IInv, NEW t \in IndexTask,
           Indices!RecreateExists(t)
    PROVE  Indices!IInv'
<1> DEFINE rest == Tail(idxTodo[t])
<1>0. Indices!TypeOK /\ Indices!OrderInv /\ Indices!CheckInv /\ Indices!AskedInv
      /\ Indices!IndexHolds
  BY DEF Indices!IInv
<1>1. Indices!Turn(t, "recreate") /\ UNCHANGED <<idxIndex, idxClient, idxAnalyzer, idxStale,
                                                 idxEarly, idxPlain>>
  BY DEF Indices!RecreateExists
<1>2. t \in Indices!Running /\ rest \in Seq(Indices!Label) /\ IndexFits("recreate", rest)
  BY <1>0, <1>1, IndexTurnGives
<1>3. "create" \in Indices!Label \ Indices!Ends /\ "delete" \in Indices!Label \ Indices!Ends
      /\ "create" \in Indices!Pending
  BY DEF Indices!Label, Indices!Ends, Indices!Pending
<1>4. IndexFits("create", rest)
  BY <1>2 DEF IndexFits
<1>5. CASE /\ Indices!Then(t, IF idxIndex = None THEN <<"create">> ELSE <<"delete", "create">>)
           /\ UNCHANGED <<idxFailures, idxErred, idxStatus>>
  <2>1. CASE idxIndex = None
    <3>1. Indices!Then(t, <<"create">>)
      BY <1>5, <2>1
    <3>2. PICK new : IndexLeaves(t, new) /\ Indices!Range(new) = {"create"} \cup Indices!Range(rest)
      BY <1>0, <1>1, <1>3, <1>4, <1>5, <3>1, IndexThenOne
    <3>3. Indices!Range(new) \cap Indices!Pending # {} /\ ("connected" \in Indices!Range(rest)
            => "connected" \in Indices!Range(new))
      BY <1>3, <3>2
    <3> QED BY <1>1, <1>5, <3>2, <3>3, IndexOnKeeps
  <2>2. CASE idxIndex # None
    <3>1. Indices!Then(t, <<"delete", "create">>)
      BY <1>5, <2>2
    <3>2. IndexFits("delete", <<"create">> \o rest)
      <4>1. <<"create">> \o rest # <<>> /\ Head(<<"create">> \o rest) = "create"
        BY <1>2
      <4>2. "checked" \in Indices!Range(<<"create">> \o rest)
        <5>1. Indices!Range(<<"create">> \o rest) = {"create"} \cup Indices!Range(rest)
          BY <1>2, <1>3, IndexConsOrder
        <5> QED BY <1>2, <5>1 DEF IndexFits
      <4> QED BY <4>1, <4>2 DEF IndexFits
    <3>3. PICK new : IndexLeaves(t, new) /\ Indices!Range(new) = {"delete", "create"} \cup Indices!Range(rest)
      BY <1>0, <1>1, <1>3, <1>4, <1>5, <3>1, <3>2, IndexThenTwo
    <3>4. Indices!Range(new) \cap Indices!Pending # {} /\ ("connected" \in Indices!Range(rest)
            => "connected" \in Indices!Range(new))
      BY <1>3, <3>3
    <3> QED BY <1>1, <1>5, <3>3, <3>4, IndexOnKeeps
  <2> QED BY <2>1, <2>2
<1>6. CASE Indices!Raise(t) /\ Indices!Fails
  BY <1>1, <1>6, IndexRaiseKeeps
<1> QED BY <1>5, <1>6 DEF Indices!RecreateExists

\* Only an index that does not fit is deleted, or it is said so.
LEMMA IndexDeleteIndexKeeps ==
    ASSUME Indices!SearchIndexAssumption, Indices!IInv, NEW t \in IndexTask,
           Indices!DeleteIndex(t)
    PROVE  Indices!IInv'
<1> DEFINE rest == Tail(idxTodo[t])
<1>0. Indices!TypeOK /\ Indices!OrderInv /\ Indices!CheckInv /\ Indices!AskedInv
      /\ Indices!IndexHolds
  BY DEF Indices!IInv
<1>1. Indices!Turn(t, "delete") /\ UNCHANGED <<idxClient, idxAnalyzer, idxEarly, idxPlain>>
  BY DEF Indices!DeleteIndex
<1>2. /\ t \in Indices!Running /\ rest \in Seq(Indices!Label) /\ IndexFits("delete", rest)
      /\ Indices!Range(idxTodo[t]) = {"delete"} \cup Indices!Range(rest)
  BY <1>0, <1>1, IndexTurnGives
<1>3. CASE /\ idxIndex' = None /\ idxStale' = (idxStale \/ Indices!Mapping = "right")
              /\ Indices!Then(t, <<>>)
           /\ UNCHANGED <<idxFailures, idxErred, idxStatus>>
  <2>1. rest # <<>> /\ Head(rest) = "create" /\ "create" \in Indices!Range(rest)
    <3>1. rest # <<>> /\ Head(rest) = "create"
      BY <1>2 DEF IndexFits
    <3> QED BY <1>2, <3>1, IndexHeadTail
  <2>2. IndexLeaves(t, rest)
    <3>1. PICK new : IndexLeaves(t, new) /\ (rest # <<>> /\ Head(rest) \notin Indices!Ends
            => new = rest)
      BY <1>0, <1>1, <1>3, IndexThenNothing
    <3> QED BY <2>1, <3>1 DEF Indices!Ends
  <2>3. Indices!Mapping' = "none"
    BY <1>3 DEF Indices!Mapping
  <2>4. idxStale' \in BOOLEAN /\ (idxStale => idxStale') /\ (~idxStale'
          => Indices!Mapping # "right")
    BY <1>0, <1>3 DEF Indices!TypeOK, Indices!Mapping
  <2>5. Indices!CheckInv'
    <3>1. \A p \in Indices!Process : idxClient'[p] => IndexInitialized(t, rest, p)
      BY <1>1, <1>2, <1>3 DEF IndexInitialized
    <3>2. Indices!Range(rest) \cap Indices!Pending # {}
      BY <2>1 DEF Indices!Pending
    <3> QED BY <1>0, <1>1, <1>2, <1>3, <2>2, <2>3, <2>4, <3>1, <3>2, IndexCheckKeeps
  <2>6. Indices!AskedInv'
    BY <1>0, <1>1, <2>2, IndexAskedOn
  <2>7. Indices!OrderInv' /\ idxTodo' \in [IndexTask -> Seq(Indices!Label)]
    BY <1>0, <1>2, <2>2, IndexLeavesGives
  <2>8. Indices!TypeOK'
    BY <1>0, <1>1, <1>3, <2>4, <2>7 DEF Indices!TypeOK
  <2>9. Indices!IndexHolds'
    <3>1. Indices!IndexedIsFound'
      BY <1>0, <1>1, <1>3, <2>4 DEF Indices!IndexHolds, Indices!IndexedIsFound
    <3>2. Indices!AnalyzerIsKnown'
      BY <2>3 DEF Indices!AnalyzerIsKnown
    <3> QED BY <3>1, <3>2 DEF Indices!IndexHolds
  <2> QED BY <2>5, <2>6, <2>7, <2>8, <2>9 DEF Indices!IInv
<1>4. CASE Indices!Raise(t) /\ UNCHANGED <<idxIndex, idxStale>> /\ (idxFailures'
             = idxFailures \/ Indices!Fails)
  BY <1>1, <1>4, IndexRaiseKeeps
<1> QED BY <1>3, <1>4 DEF Indices!DeleteIndex

\* A new index fits, and has the analyzer that is known in a check.
LEMMA IndexCreateIndexKeeps ==
    ASSUME Indices!SearchIndexAssumption, Indices!IInv, NEW t \in IndexTask,
           Indices!CreateIndex(t)
    PROVE  Indices!IInv'
<1>0. Indices!TypeOK /\ Indices!OrderInv /\ Indices!CheckInv /\ Indices!AskedInv
      /\ Indices!IndexHolds
  BY DEF Indices!IInv
<1>1. Indices!Turn(t, "create") /\ UNCHANGED <<idxClient, idxAnalyzer, idxStale, idxEarly,
                                               idxPlain>>
  BY DEF Indices!CreateIndex
<1>2. t \in Indices!Running
  BY <1>0, <1>1, IndexTurnGives
<1>3. CASE /\ idxIndex = None /\ idxIndex' = Indices!NewIndex(t) /\ Indices!Then(t, <<>>)
           /\ UNCHANGED <<idxFailures, idxErred, idxStatus>>
  <2>1. PICK new : IndexLeaves(t, new)
    BY <1>0, <1>1, <1>3, IndexThenNothing
  <2>2. Indices!AskedInv' /\ (~idxPlain /\ ~idxEarly => idxAnalyzer[IndexHome[t]] = "ik")
    BY <1>0, <1>1, <2>1, IndexAskedOn
  <2>3. /\ idxIndex' \in [mapping : {"right", "other", "dynamic"}, analyzer : {"cjk", "ik"},
                       docs : SUBSET IndexTask]
        /\ idxIndex' # None /\ idxIndex'.mapping = "right"
        /\ idxIndex'.analyzer = idxAnalyzer[IndexHome[t]]
    <3>1. idxAnalyzer[IndexHome[t]] \in {"cjk", "ik"}
      BY <1>0 DEF Indices!TypeOK, Indices!SearchIndexAssumption, Indices!Process
    <3>2. idxIndex' \in [mapping : {"right", "other", "dynamic"}, analyzer : {"cjk", "ik"},
                      docs : SUBSET IndexTask]
      BY <1>3, <3>1 DEF Indices!NewIndex
    <3>3. idxIndex'.mapping = "right" /\ idxIndex'.analyzer = idxAnalyzer[IndexHome[t]]
      BY <1>3 DEF Indices!NewIndex
    <3> QED BY <3>2, <3>3 DEF Indices!SearchIndexAssumption
  <2>4. Indices!Mapping' = "right" /\ Indices!Mapping = "none"
    BY <1>3, <2>3 DEF Indices!Mapping
  <2>5. Indices!CheckInv'
    BY <2>4 DEF Indices!CheckInv
  <2>6. Indices!OrderInv' /\ idxTodo' \in [IndexTask -> Seq(Indices!Label)]
    BY <1>0, <1>2, <2>1, IndexLeavesGives
  <2>7. Indices!TypeOK'
    BY <1>0, <1>1, <1>3, <2>3, <2>6 DEF Indices!TypeOK
  <2>8. Indices!IndexHolds'
    <3>1. Indices!IndexedIsFound'
      BY <1>0, <1>1, <1>3, <2>4 DEF Indices!IndexHolds, Indices!IndexedIsFound
    <3>2. Indices!AnalyzerIsKnown'
      BY <1>1, <2>2, <2>3 DEF Indices!AnalyzerIsKnown
    <3> QED BY <3>1, <3>2 DEF Indices!IndexHolds
  <2> QED BY <2>2, <2>5, <2>6, <2>7, <2>8 DEF Indices!IInv
<1>4. CASE Indices!Raise(t) /\ idxIndex' = idxIndex /\ (idxFailures' = idxFailures
           \/ Indices!Fails)
  BY <1>1, <1>4, IndexRaiseKeeps
<1> QED BY <1>3, <1>4 DEF Indices!CreateIndex

\* A document that is written is written into an index that fits.
LEMMA IndexIndexDocumentKeeps ==
    ASSUME Indices!SearchIndexAssumption, Indices!IInv, NEW t \in IndexTask,
           Indices!IndexDocument(t)
    PROVE  Indices!IInv'
<1>0. Indices!TypeOK /\ Indices!OrderInv /\ Indices!CheckInv /\ Indices!AskedInv
      /\ Indices!IndexHolds
  BY DEF Indices!IInv
<1>1. Indices!Turn(t, "write") /\ UNCHANGED <<idxClient, idxAnalyzer, idxStale, idxEarly,
                                              idxPlain>>
  BY DEF Indices!IndexDocument
<1>2. t \in Indices!Running /\ Indices!Range(idxTodo[t]) = {"write"}
      /\ idxTodo[t] \in Seq(Indices!Label) /\ Indices!InOrder(idxTodo[t])
  <2>1. Indices!Range(<<>>) = {}
    BY DEF Indices!Range
  <2>2. IndexFits("write", Tail(idxTodo[t])) /\ Indices!Range(idxTodo[t]) = {"write"}
          \cup Indices!Range(Tail(idxTodo[t]))
    BY <1>0, <1>1, IndexTurnGives
  <2>3. Indices!Range(idxTodo[t]) = {"write"}
    BY <2>1, <2>2 DEF IndexFits
  <2> QED BY <1>0, <1>1, <2>3, IndexTurnGives
<1>3. idxErred \/ idxStale \/ idxEarly \/ Indices!Mapping = "right"
  BY <1>0, <1>2 DEF Indices!CheckInv, Indices!Pending
<1>4. IndexHome \in [IndexTask -> Indices!Process] /\ idxAnalyzer' \in [Indices!Process -> {"cjk", "ik"}]
      /\ \A p \in Indices!Process : idxAnalyzer'[p] = idxAnalyzer[p]
  BY <1>0, <1>1 DEF Indices!SearchIndexAssumption, Indices!Process, Indices!TypeOK
<1>5. \A p \in Indices!Process : idxClient'[p] => IndexInitialized(t, <<>>, p)
  BY <1>1, <1>2 DEF IndexInitialized
<1>6. IndexLeaves(t, <<>>) => Indices!OrderInv' /\ Indices!AskedInv'
      /\ idxTodo' \in [IndexTask -> Seq(Indices!Label)]
         /\ idxStatus' \in [IndexTask -> {"waiting", "running", "indexed", "failed"}]
  <2>1. Indices!Range(<<>>) = {}
    BY DEF Indices!Range
  <2> QED BY <1>0, <1>1, <1>2, <1>4, <1>5, <2>1, IndexAskedKeeps, IndexLeavesGives
<1>7. CASE /\ Indices!Mapping # "other"
           /\ idxIndex' = IF idxIndex = None
                       THEN [mapping |-> "dynamic", analyzer |-> "cjk", docs |-> {t}]
                       ELSE [idxIndex EXCEPT !.docs = @ \cup {t}]
           /\ idxStatus' = [idxStatus EXCEPT ![t] = "indexed"]
           /\ Indices!Goto(t, <<>>)
           /\ UNCHANGED <<idxFailures, idxErred>>
  <2>1. IndexLeaves(t, <<>>)
    <3>1. idxTodo' = [idxTodo EXCEPT ![t] = <<>>]
      BY <1>0, <1>7, IndexGotoNothing
    <3> QED BY <1>7, <3>1 DEF IndexLeaves, Indices!InOrder
  <2>2. idxIndex' \in [mapping : {"right", "other", "dynamic"}, analyzer : {"cjk", "ik"},
                    docs : SUBSET IndexTask]
    <3>1. CASE idxIndex = None
      BY <1>7, <3>1
    <3>2. CASE idxIndex # None
      <4>1. idxIndex \in [mapping : {"right", "other", "dynamic"}, analyzer : {"cjk", "ik"},
                       docs : SUBSET IndexTask]
        BY <1>0, <3>2 DEF Indices!TypeOK
      <4> QED BY <1>7, <3>2, <4>1
    <3> QED BY <3>1, <3>2
  <2>3. idxIndex' # None
    BY <2>2 DEF Indices!SearchIndexAssumption
  <2>4. CASE idxIndex = None
    <3>1. idxIndex'.mapping = "dynamic"
      BY <1>7, <2>4
    <3>2. Indices!Mapping' = "dynamic" /\ Indices!Mapping = "none"
      BY <2>3, <2>4, <3>1 DEF Indices!Mapping
    <3>3. idxErred' \/ idxStale' \/ idxEarly'
      BY <1>1, <1>3, <1>7, <3>2
    <3>4. Indices!CheckInv' /\ Indices!IndexHolds'
      BY <3>2, <3>3 DEF Indices!CheckInv, Indices!IndexHolds, Indices!IndexedIsFound,
           Indices!AnalyzerIsKnown
    <3> QED BY <1>0, <1>1, <1>6, <1>7, <2>1, <2>2, <3>4 DEF Indices!IInv, Indices!TypeOK
  <2>5. CASE idxIndex # None
    <3>1. idxIndex \in [mapping : {"right", "other", "dynamic"}, analyzer : {"cjk", "ik"},
                     docs : SUBSET IndexTask]
      BY <1>0, <2>5 DEF Indices!TypeOK
    <3>2. idxIndex'.mapping = idxIndex.mapping /\ idxIndex'.analyzer = idxIndex.analyzer
          /\ idxIndex'.docs = idxIndex.docs \cup {t}
      BY <1>7, <2>5, <3>1
    <3>3. Indices!Mapping' = Indices!Mapping
      BY <2>3, <2>5, <3>2 DEF Indices!Mapping
    <3>4. Indices!CheckInv'
      BY <1>1, <1>3, <1>7, <3>3 DEF Indices!CheckInv
    <3>5. Indices!IndexedIsFound'
      <4> SUFFICES ASSUME ~idxErred /\ ~idxStale /\ ~idxEarly, NEW u \in IndexTask \ {IndexStartup},
                          idxStatus'[u] = "indexed"
                   PROVE  Indices!Mapping = "right" /\ u \in idxIndex'.docs
        BY <1>1, <1>7, <3>3 DEF Indices!IndexedIsFound
      <4>1. CASE u = t
        BY <1>3, <3>2, <4>1
      <4>2. CASE u # t
        <5>1. idxStatus[u] = "indexed"
          BY <1>0, <1>7, <4>2 DEF Indices!TypeOK
        <5> QED BY <1>0, <3>2, <5>1 DEF Indices!IndexHolds, Indices!IndexedIsFound
      <4> QED BY <4>1, <4>2
    <3>6. Indices!AnalyzerIsKnown'
      BY <1>0, <1>1, <3>2, <3>3 DEF Indices!IndexHolds, Indices!AnalyzerIsKnown
    <3> QED BY <1>0, <1>1, <1>6, <1>7, <2>1, <2>2, <3>4, <3>5, <3>6 DEF Indices!IInv,
                 Indices!TypeOK, Indices!IndexHolds
  <2> QED BY <2>4, <2>5
<1>8. CASE Indices!Raise(t) /\ idxIndex' = idxIndex /\ (idxFailures' = idxFailures
           \/ Indices!Fails)
  <2>1. IndexLeaves(t, <<>>) /\ idxErred' = idxErred /\ idxStatus' = [idxStatus EXCEPT ![t]
          = "failed"]
    BY <1>0, <1>2, <1>8, IndexRaiseGives DEF Indices!Raise
  <2>2. Indices!Mapping' = Indices!Mapping
    BY <1>8 DEF Indices!Mapping
  <2>3. Indices!CheckInv'
    BY <1>1, <1>3, <2>1, <2>2 DEF Indices!CheckInv
  <2>4. \A u \in IndexTask : idxStatus'[u] = "indexed" => idxStatus[u] = "indexed"
    BY <1>0, <2>1 DEF Indices!TypeOK
  <2>5. Indices!IndexHolds'
    BY <1>0, <1>1, <1>8, <2>1, <2>4, IndexHoldsKept
  <2>6. idxFailures' \in 0 .. IndexFailures
    BY <1>0, <1>8 DEF Indices!Fails, Indices!TypeOK, Indices!SearchIndexAssumption
  <2>7. Indices!TypeOK'
    BY <1>0, <1>1, <1>6, <1>8, <2>1, <2>6 DEF Indices!TypeOK
  <2> QED BY <1>6, <2>1, <2>3, <2>5, <2>7 DEF Indices!IInv
<1> QED BY <1>7, <1>8 DEF Indices!IndexDocument

LEMMA IndexNextInv ==
    ASSUME Indices!SearchIndexAssumption, Indices!IInv, [Indices!Next]_Indices!vars
    PROVE  Indices!IInv'
<1>1. CASE UNCHANGED Indices!vars
  <2>1. Indices!TypeOK' /\ Indices!OrderInv' /\ Indices!CheckInv' /\ Indices!AskedInv'
        /\ Indices!IndexHolds'
    BY <1>1 DEF Indices!vars, Indices!IInv, Indices!TypeOK, Indices!OrderInv, Indices!CheckInv,
         Indices!AskedInv, Indices!IndexHolds, Indices!IndexedIsFound,
       Indices!AnalyzerIsKnown, Indices!Mapping, Indices!Running, Indices!Initializing,
       Indices!InOrder, Indices!InPlace, Indices!Later, Indices!Followed, Indices!Steps
  <2> QED BY <2>1 DEF Indices!IInv
<1>2. CASE Indices!Next
  BY <1>2, IndexBeginKeeps, IndexGetKeeps, IndexInfoKeeps, IndexDetectKeeps,
       IndexCheckExistsKeeps, IndexReadMappingKeeps,
     IndexRecreateExistsKeeps, IndexDeleteIndexKeeps, IndexCreateIndexKeeps,
     IndexIndexDocumentKeeps DEF Indices!Next
<1> QED BY <1>1, <1>2

LEMMA IndexInvProperty ==
    ASSUME Indices!SearchIndexAssumption, Indices!IInv
    PROVE  Indices!IndexHolds
  BY DEF Indices!IInv

LEMMA IndexInvariance == ServicesSpec => []Indices!IInv
<1>1. ServicesInit => Indices!IInv
  BY IndexInitInv, ServicesAssumption DEF ServicesInit, ServicesAssumption
<1>2. Indices!IInv /\ [ServicesNext]_servicesVars => Indices!IInv'
  <2> SUFFICES ASSUME Indices!IInv, [ServicesNext]_servicesVars
               PROVE  Indices!IInv'
    OBVIOUS
  <2>1. Indices!Next \/ UNCHANGED idxVars
    BY DEF ServicesNext, Still, servicesVars
  <2>2. [Indices!Next]_Indices!vars
    BY <2>1 DEF idxVars, Indices!vars
  <2>3. Indices!SearchIndexAssumption
    BY ServicesAssumption DEF ServicesAssumption
  <2> QED BY <2>2, <2>3, IndexNextInv
<1> QED BY <1>1, <1>2, PTL DEF ServicesSpec

\* A document that says it is indexed is in an index that fits, with the analyzer that
\* is installed, unless a call of the check failed, a task deleted the index after it
\* had looked, or was given a client too early: for any number of tasks and failures,
\* however the tasks of the processes interleave.
THEOREM DocumentsAreFoundHolds == ServicesSpec => []DocumentsAreFound
<1>1. Indices!IInv => DocumentsAreFound
  BY IndexInvProperty, ServicesAssumption DEF DocumentsAreFound, ServicesAssumption
<1> QED BY <1>1, IndexInvariance, PTL
=============================================================================
