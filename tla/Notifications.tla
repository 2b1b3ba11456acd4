---------------------------- MODULE Notifications ----------------------------
(***************************************************************************)
(* The notifications of one user under one title, as create_notification    *)
(* (endpoints/notifications.py) makes and pushes them, and the user's       *)
(* sockets in NotificationConnectionManager (core/notification_ws.py).      *)
(* A notification is named after the request that made it.                  *)
(*                                                                          *)
(* Reading is left out; read-all has nothing to change: its condition,      *)
(* `not Notification.is_read`, is False before the database sees it.        *)
(***************************************************************************)
EXTENDS Naturals, FiniteSets

CONSTANTS
    Request, \* calls of create_notification
    Socket

VARIABLES
    pc,         \* where each call is
    row,        \* each notification: none, recent (within a minute), old, deleted
    pending,    \* sockets each push has yet to send to
    raced,      \* calls that looked before another one's row was there (history)
    place,      \* where the handler of each socket is
    left,       \* sockets whose client is gone
    conns,      \* _connections of the user
    connects,   \* _stats: connect_total
    disconnects \* disconnect_total

sockets == <<place, left, conns>>
stats == <<connects, disconnects>>
vars == <<pc, row, pending, raced, sockets, stats>>

Committed == {r \in Request : row[r] # "none"}

TypeOK ==
    /\ pc \in [Request -> {"idle", "insert", "refresh", "push", "send", "over"}]
    /\ row \in [Request -> {"none", "recent", "old", "deleted"}]
    /\ pending \in [Request -> SUBSET Socket]
    /\ raced \subseteq Request
    /\ place \in [Socket -> {"new", "accepted", "serving", "over"}]
    /\ left \subseteq Socket /\ conns \subseteq Socket
    /\ connects \in Nat /\ disconnects \in Nat

Init ==
    /\ pc = [r \in Request |-> "idle"]
    /\ row = [r \in Request |-> "none"]
    /\ pending = [r \in Request |-> {}]
    /\ raced = {}
    /\ place = [s \in Socket |-> "new"]
    /\ left = {} /\ conns = {}
    /\ connects = 0 /\ disconnects = 0

Goto(r, p) == pc' = [pc EXCEPT ![r] = p]

---------------------------------------------------------------------------
(* create_notification.                                                    *)

\* A row of the last minute under the title, in the snapshot of the caller's session,
\* is returned instead of a new one.
LookForRecent(r) ==
    /\ pc[r] = "idle"
    /\ Goto(r, IF \E q \in Request : row[q] = "recent" THEN "over" ELSE "insert")
    /\ UNCHANGED <<row, pending, raced, sockets, stats>>

\* The row is committed with whatever else the caller's session holds.
Insert(r) ==
    /\ pc[r] = "insert"
    /\ row' = [row EXCEPT ![r] = "recent"]
    /\ raced' = raced \cup {q \in Request : pc[q] = "insert" /\ q # r}
    /\ Goto(r, "refresh")
    /\ UNCHANGED <<pending, sockets, stats>>

\* The row is read again; one that is gone raises.
Refresh(r) ==
    /\ pc[r] = "refresh"
    /\ Goto(r, IF row[r] = "deleted" THEN "over" ELSE "push")
    /\ UNCHANGED <<row, pending, raced, sockets, stats>>

\* The sockets of the moment are sent to, all at once.
Push(r) ==
    /\ pc[r] = "push"
    /\ pending' = [pending EXCEPT ![r] = conns]
    /\ Goto(r, IF conns = {} THEN "over" ELSE "send")
    /\ UNCHANGED <<row, raced, sockets, stats>>

\* Mutant: a socket is counted as disconnected whether it was registered or not.
DisconnectCounted(s) ==
    /\ conns' = conns \ {s}
    /\ disconnects' = disconnects + 1

\* disconnect: only a socket that is registered is removed and counted.
Disconnect(s) ==
    /\ conns' = conns \ {s}
    /\ disconnects' = IF s \in conns THEN disconnects + 1 ELSE disconnects

\* _send_to_ws; what it counts besides is left out.
Send(r, s) ==
    /\ pc[r] = "send"
    /\ s \in pending[r]
    /\ pending' = [pending EXCEPT ![r] = @ \ {s}]
    /\ Goto(r, IF pending[r] = {s} THEN "over" ELSE "send")
    /\ IF s \in left
       THEN Disconnect(s)
       ELSE UNCHANGED <<conns, disconnects>>
    /\ UNCHANGED <<row, raced, place, left, connects>>

---------------------------------------------------------------------------
(* Around it.                                                              *)

\* A minute passes for a notification.
Age(r) ==
    /\ row[r] = "recent"
    /\ row' = [row EXCEPT ![r] = "old"]
    /\ UNCHANGED <<pc, pending, raced, sockets, stats>>

\* One notification is deleted, or several, each its own row.
Delete(r) ==
    /\ row[r] \in {"recent", "old"}
    /\ row' = [row EXCEPT ![r] = "deleted"]
    /\ UNCHANGED <<pc, pending, raced, sockets, stats>>

AcceptSocket(s) ==
    /\ place[s] = "new"
    /\ place' = [place EXCEPT ![s] = "accepted"]
    /\ UNCHANGED <<pc, row, pending, raced, left, conns, stats>>

\* connect, under its lock.
Register(s) ==
    /\ place[s] = "accepted"
    /\ place' = [place EXCEPT ![s] = "serving"]
    /\ conns' = conns \cup {s}
    /\ connects' = connects + 1
    /\ UNCHANGED <<pc, row, pending, raced, left, disconnects>>

ClientLeaves(s) ==
    /\ place[s] \in {"accepted", "serving"}
    /\ s \notin left
    /\ left' = left \cup {s}
    /\ UNCHANGED <<pc, row, pending, raced, place, conns, stats>>

\* receive_text raises, and the handler ends.
EndSocket(s) ==
    /\ place[s] = "serving"
    /\ s \in left
    /\ place' = [place EXCEPT ![s] = "over"]
    /\ Disconnect(s)
    /\ UNCHANGED <<pc, row, pending, raced, left, connects>>

Next ==
    \/ \E r \in Request :
          \/ LookForRecent(r) \/ Insert(r) \/ Refresh(r) \/ Push(r)
          \/ \E s \in Socket : Send(r, s)
          \/ Age(r) \/ Delete(r)
    \/ \E s \in Socket :
          AcceptSocket(s) \/ Register(s) \/ ClientLeaves(s) \/ EndSocket(s)

Spec == Init /\ [][Next]_vars

---------------------------------------------------------------------------
(* Properties.                                                             *)

\* get_stats tells the truth about connections: those counted in and not counted
\* out are the registered ones, although a failed push and the end of the socket's
\* handler both disconnect it, in any order and more than once.
SocketsCounted == connects = disconnects + Cardinality(conns)

\* Two notifications of one minute under one title (create_notification says it
\* removes such duplicates, notifications.py:293) exist only when one call looked
\* before the other's row was committed.
DuplicateOnlyByRace ==
    \A r, q \in Request :
        r # q /\ row[r] = "recent" /\ row[q] = "recent" => r \in raced \/ q \in raced

NoticesAgree == SocketsCounted /\ DuplicateOnlyByRace

(***************************************************************************)
(* The inductive invariant: the registered sockets are those of handlers     *)
(* that serve; a call has no row before it has inserted one, and one that is *)
(* about to insert next to a recent row had looked too early.                *)
(***************************************************************************)
SocketInv ==
    /\ IsFiniteSet(conns)
    /\ \A s \in conns : place[s] = "serving"

RaceInv ==
    \A r \in Request :
        /\ pc[r] \in {"idle", "insert"} => row[r] = "none"
        /\ pc[r] = "insert" /\ (\E q \in Request : row[q] = "recent") => r \in raced

IInv == TypeOK /\ SocketInv /\ RaceInv /\ NoticesAgree
=============================================================================
