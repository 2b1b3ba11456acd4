------------------------------ MODULE Accounts ------------------------------
(***************************************************************************)
(* The account of one user: its row, the copy of it that authentication     *)
(* keeps in Redis, and the requests that read and change them, several at   *)
(* once (services/auth_service.py, endpoints/auth.py, endpoints/users.py).  *)
(*                                                                          *)
(* A column's value is the request that wrote it, or None at first.  The    *)
(* columns stand for the ways a column is treated: "role" and "name" are in *)
(* every copy, "key" and "active" only in one made from the row, and        *)
(* "password" in none.  A request that finds the copy works with a User     *)
(* object that is not attached to its database session.                     *)
(*                                                                          *)
(* DELETE /users/api-key is left out: DELETE /users/{user_id} is declared   *)
(* before it and takes its requests.                                        *)
(***************************************************************************)
EXTENDS Naturals

CONSTANTS
    Request, \* the requests about this user
    None

ASSUME AccountsAssumption == None \notin Request

VARIABLES
    row,   \* the user's row
    copy,  \* Redis user:<id>: the columns it has, or <<>> when it expired
    pc,    \* where each request is
    kind,  \* what each request is
    user,  \* columns of the User object that authentication returned
    bound, \* requests whose User object belongs to their database session
    dirty, \* columns the session will write
    acked, \* the last password change that was acknowledged (history)
    lost   \* later ones that were reported as errors (history)

histories == <<acked, lost>>
vars == <<row, copy, pc, kind, user, bound, dirty, histories>>

Column == {"role", "name", "key", "active", "password"}
LoginColumns == {"role", "name"}
\* Mutant: the copy takes the password's hash along.
RowColumnsAll == Column
RowColumns == Column \ {"password"}
Kind == {"login", "profile", "upload", "auth_profile", "password", "key", "set_role", "deactivate"}
Merging == {"profile", "upload"}
ByAdmin == {"set_role", "deactivate"}

Value == Request \cup {None}
NoColumns == [c \in {} |-> None]
Change(column, value) == [c \in {column} |-> value]
\* The columns of changes on top of those of base.
OnTop(changes, base) ==
    [c \in DOMAIN changes \cup DOMAIN base |-> IF c \in DOMAIN changes THEN changes[c] ELSE base[c]]
PartialRows == UNION {[C -> Value] : C \in SUBSET Column}

TypeOK ==
    /\ row \in [Column -> Value]
    /\ copy \in PartialRows
    /\ pc \in [Request -> {"idle", "read", "handle", "commit", "ok", "error"}]
    /\ kind \in [Request -> Kind \cup {None}]
    /\ user \in [Request -> PartialRows]
    /\ dirty \in [Request -> PartialRows]
    /\ bound \subseteq Request
    /\ acked \in Value
    /\ lost \subseteq Request

Init ==
    /\ row = [c \in Column |-> None]
    /\ copy = NoColumns
    /\ pc = [r \in Request |-> "idle"]
    /\ kind = [r \in Request |-> None]
    /\ user = [r \in Request |-> NoColumns]
    /\ bound = {}
    /\ dirty = [r \in Request |-> NoColumns]
    /\ acked = None
    /\ lost = {}

Goto(r, place) == pc' = [pc EXCEPT ![r] = place]

\* An answered request drops its session and its objects.
Answer(r, outcome) ==
    /\ Goto(r, outcome)
    /\ user' = [user EXCEPT ![r] = NoColumns]
    /\ dirty' = [dirty EXCEPT ![r] = NoColumns]
    /\ bound' = bound \ {r}

---------------------------------------------------------------------------
(* Authentication.                                                         *)

\* get_current_user with a copy in Redis.
LoadFromCopy(r, k) ==
    /\ pc[r] = "idle"
    /\ k \notin ByAdmin \cup {"login"}
    /\ copy # NoColumns
    /\ kind' = [kind EXCEPT ![r] = k]
    /\ user' = [user EXCEPT ![r] = copy]
    /\ Goto(r, "handle")
    /\ UNCHANGED <<row, copy, bound, dirty, histories>>

\* get_current_user without one, and authenticate_user, read the row.
LoadFromRow(r, k) ==
    /\ pc[r] = "idle"
    /\ k \notin ByAdmin
    /\ copy = NoColumns \/ k = "login"
    /\ kind' = [kind EXCEPT ![r] = k]
    /\ user' = [user EXCEPT ![r] = row]
    /\ bound' = bound \cup {r}
    /\ Goto(r, "read")
    /\ UNCHANGED <<row, copy, dirty, histories>>

\* The copy is written from what was read; a login is then over.
FillCopy(r) ==
    /\ pc[r] = "read"
    /\ LET columns == IF kind[r] = "login" THEN LoginColumns ELSE RowColumns
       IN  copy' = [c \in columns |-> user[r][c]]
    /\ IF kind[r] = "login"
       THEN Answer(r, "ok")
       ELSE Goto(r, "handle") /\ UNCHANGED <<user, bound, dirty>>
    /\ UNCHANGED <<row, kind, histories>>

\* An administrator's request loads the user's row itself.
LoadAsAdmin(r, k) ==
    /\ pc[r] = "idle"
    /\ k \in ByAdmin
    /\ kind' = [kind EXCEPT ![r] = k]
    /\ bound' = bound \cup {r}
    /\ Goto(r, "handle")
    /\ UNCHANGED <<row, copy, user, dirty, histories>>

---------------------------------------------------------------------------
(* The handlers, up to the commit.                                         *)

Write(r, columns) ==
    /\ dirty' = [dirty EXCEPT ![r] = columns]
    /\ Goto(r, "commit")

\* Mutant: an object of the session is written back as a whole, too.
MergedWhole(r) ==
    LET stale == {c \in DOMAIN user[r] : user[r][c] # row[c]}
    IN  [c \in stale |-> user[r][c]]

\* What db.merge makes dirty: every column of an unattached object that differs from
\* the row it reads.
Merged(r) ==
    LET stale == {c \in DOMAIN user[r] : user[r][c] # row[c]}
    IN  IF r \in bound THEN NoColumns ELSE [c \in stale |-> user[r][c]]

\* PUT /users/me merges and puts its edit on top; the uploads of documents, files
\* and avatars merge too, and commit with their own rows.
EditProfile(r) ==
    /\ pc[r] = "handle" /\ kind[r] \in Merging
    /\ Write(r, IF kind[r] = "profile" THEN OnTop(Change("name", r), Merged(r)) ELSE Merged(r))
    /\ UNCHANGED <<row, copy, kind, user, bound, histories>>

\* PUT /auth/me, role change and deactivation change one column of a row they load.
EditColumn(r) ==
    /\ pc[r] = "handle"
    /\ \/ kind[r] = "auth_profile" /\ Write(r, Change("name", r))
       \/ kind[r] = "set_role" /\ Write(r, Change("role", r))
       \/ kind[r] = "deactivate" /\ Write(r, Change("active", r))
    /\ UNCHANGED <<row, copy, kind, user, bound, histories>>

\* PUT /users/password and POST /auth/change-password: the old password that was
\* given must be that of the User object, and a copy has none.
ChangePassword(r) ==
    /\ pc[r] = "handle" /\ kind[r] = "password"
    /\ "password" \in DOMAIN user[r]
    /\ Write(r, Change("password", r))
    /\ UNCHANGED <<row, copy, kind, user, bound, histories>>

RefusePassword(r) ==
    /\ pc[r] = "handle" /\ kind[r] = "password"
    /\ Answer(r, "error")
    /\ UNCHANGED <<row, copy, kind, histories>>

\* POST /users/api-key: an unattached object takes the key and is forgotten.
GenerateKey(r) ==
    /\ pc[r] = "handle" /\ kind[r] = "key"
    /\ Write(r, IF r \in bound THEN Change("key", r) ELSE NoColumns)
    /\ UNCHANGED <<row, copy, kind, user, bound, histories>>

Commit(r) ==
    /\ pc[r] = "commit"
    /\ row' = OnTop(dirty[r], row)
    /\ Answer(r, "ok")
    /\ acked' = IF kind[r] = "password" THEN r ELSE acked
    /\ lost' = IF kind[r] = "password" THEN {} ELSE lost
    /\ UNCHANGED <<copy, kind>>

\* What follows the commit fails (the push of create_notification, the task of an
\* upload): the change is kept and the client is told that it failed.
CommitThenFail(r) ==
    /\ pc[r] = "commit"
    /\ kind[r] \in Merging \cup {"password", "key"}
    /\ row' = OnTop(dirty[r], row)
    /\ Answer(r, "error")
    /\ lost' = IF kind[r] = "password" THEN lost \cup {r} ELSE lost
    /\ UNCHANGED <<copy, kind, acked>>

FailCommit(r) ==
    /\ pc[r] = "commit"
    /\ Answer(r, "error")
    /\ UNCHANGED <<row, copy, kind, histories>>

ExpireCopy ==
    /\ copy # NoColumns
    /\ copy' = NoColumns
    /\ UNCHANGED <<row, pc, kind, user, bound, dirty, histories>>

Next ==
    \/ \E r \in Request :
          \/ \E k \in Kind : LoadFromCopy(r, k) \/ LoadFromRow(r, k) \/ LoadAsAdmin(r, k)
          \/ FillCopy(r)
          \/ EditProfile(r) \/ EditColumn(r)
          \/ ChangePassword(r) \/ RefusePassword(r) \/ GenerateKey(r)
          \/ Commit(r) \/ CommitThenFail(r) \/ FailCommit(r)
    \/ ExpireCopy

Spec == Init /\ [][Next]_vars

---------------------------------------------------------------------------
(* Properties.                                                             *)

\* The stored password is the one of the last change that was acknowledged, or of
\* a later one reported as failed: no profile edit, however stale the user it
\* merges (users.py:726), brings an old password back.
PasswordIsLastAcked == row["password"] \in {acked} \cup lost

\* A column is written by a request that stands for its change, or by the merge of an
\* unattached copy.
WritesOwn(r, c) ==
    \/ /\ kind[r] \in IF c = "key" THEN {"key"} ELSE ByAdmin
       /\ r \in bound /\ dirty[r][c] = r
    \/ kind[r] \in Merging /\ r \notin bound

\* Nothing but a change of the password ever holds one for its commit: the copy has
\* none, so neither has a user that a merge could write back.
PasswordInv ==
    /\ "password" \notin DOMAIN copy
    /\ \A r \in Request :
          /\ r \notin bound => "password" \notin DOMAIN user[r]
          /\ "password" \in DOMAIN dirty[r] => kind[r] = "password" /\ dirty[r]["password"] = r
          /\ pc[r] = "commit" /\ kind[r] = "password" => "password" \in DOMAIN dirty[r]

\* A request that read the row has all of it in its session; only one before its commit
\* holds changes, each its own to make.
WriterInv ==
    \A r \in Request :
        /\ pc[r] = "read" => r \in bound /\ DOMAIN user[r] = Column
        /\ pc[r] # "commit" => DOMAIN dirty[r] = {}
        /\ pc[r] = "handle" /\ kind[r] \in ByAdmin => r \in bound
        /\ \A c \in {"role", "active", "key"} : c \in DOMAIN dirty[r] => WritesOwn(r, c)

\* The inductive invariant of the proofs.
IInv ==
    /\ TypeOK
    /\ PasswordInv
    /\ WriterInv
    /\ PasswordIsLastAcked

\* An administrator's change of role or status, and a new API key, is only ever
\* undone by a profile edit or an upload that merges a copy: whatever else happens
\* to the account leaves role and status to administrators and the key to the
\* requests for one, of which only those that read the row store what they issue.
UndoneOnlyByStaleEdit ==
    [][\A c \in {"role", "active", "key"} : row'[c] # row[c] =>
          \E r \in Request :
              /\ pc[r] = "commit" /\ pc'[r] # "commit"
              /\ \/ /\ kind[r] \in IF c = "key" THEN {"key"} ELSE ByAdmin
                    /\ r \in bound /\ row'[c] = r
                 \/ kind[r] \in Merging /\ r \notin bound]_vars
=============================================================================
