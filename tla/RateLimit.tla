------------------------------ MODULE RateLimit ------------------------------
(***************************************************************************)
(* RateLimitMiddleware (core/middleware.py) for one client: a sorted set in *)
(* Redis while Redis answers, a counter in memory else.                     *)
(*                                                                          *)
(* A member of the sorted set is the second of the request, so requests of  *)
(* one second are one member: Redis counts seconds with requests.  With the *)
(* default limit of 10000 requests in 60 seconds it never refuses any.      *)
(***************************************************************************)
EXTENDS Integers, FiniteSets

CONSTANTS
    WindowSeconds,     \* RATE_LIMIT_WINDOW_SECONDS
    RequestsPerWindow, \* RATE_LIMIT_REQUESTS_PER_MINUTE
    MaxTime,           \* bound on the clock
    MaxPerSecond       \* bound on the requests of one second

RateLimitAssumption ==
    /\ WindowSeconds \in Nat \ {0} /\ RequestsPerWindow \in Nat \ {0}
    /\ MaxTime \in Nat /\ MaxPerSecond \in Nat

VARIABLES
    now,     \* the clock, in seconds
    members, \* the sorted set rl:sliding:<client>
    window,  \* start of the window that _memory_counter counts, -1 before
    counter, \* and its count
    arrived, \* requests of each second (history)
    refused  \* the last request was refused

vars == <<now, members, window, counter, arrived, refused>>

Second == 0 .. MaxTime

TypeOK ==
    /\ now \in Second
    /\ members \subseteq Second
    /\ window \in Second \cup {-1}
    /\ counter \in Nat
    /\ arrived \in [Second -> 0 .. MaxPerSecond]
    /\ refused \in BOOLEAN

Init ==
    /\ now = 0
    /\ members = {}
    /\ window = -1 /\ counter = 0
    /\ arrived = [t \in Second |-> 0]
    /\ refused = FALSE

\* Mutant: the window is one second longer than it says.
InWindowAndOne(t) == t >= now - WindowSeconds

\* What zremrangebyscore(key, 0, now - window_seconds) leaves.
InWindow(t) == t > now - WindowSeconds

Arrive ==
    /\ arrived[now] < MaxPerSecond
    /\ arrived' = [arrived EXCEPT ![now] = @ + 1]
    /\ UNCHANGED now

\* _check_and_incr_redis, and the verdict of dispatch.  Refused requests count.
CountInRedis ==
    /\ Arrive
    /\ LET kept == {t \in members : InWindow(t)}
       IN  /\ members' = kept \cup {now}
           /\ refused' = (Cardinality(kept) + 1 > RequestsPerWindow)
    /\ UNCHANGED <<window, counter>>

\* _check_and_incr_memory: windows are aligned to multiples of their length.
CountInMemory ==
    /\ Arrive
    /\ window' = now - (now % WindowSeconds)
    /\ counter' = IF window = window' THEN counter + 1 ELSE 1
    /\ refused' = (counter' > RequestsPerWindow)
    /\ UNCHANGED members

Tick ==
    /\ now < MaxTime
    /\ now' = now + 1
    /\ refused' = FALSE
    /\ UNCHANGED <<members, window, counter, arrived>>

Next == CountInRedis \/ CountInMemory \/ Tick

Spec == Init /\ [][Next]_vars

---------------------------------------------------------------------------
(* Properties.                                                             *)

\* The requests since second t and until now, numbered within their second.
RequestsSince(t) ==
    {a \in Second \X (1 .. MaxPerSecond) : a[1] \in t .. now /\ a[2] <= arrived[a[1]]}

\* No request is refused unless more than the limit arrived within the last
\* window, however often the middleware switches between Redis and memory.
RefusedOnlyAboveLimit ==
    refused => Cardinality(RequestsSince(now - WindowSeconds + 1)) > RequestsPerWindow

(***************************************************************************)
(* The inductive invariant: a member of the sorted set is a second so far  *)
(* with a request, and the counter in memory counts requests since its window began. *)
(***************************************************************************)
MembersInv == \A t \in members : arrived[t] > 0 /\ t <= now

CounterInv ==
    /\ window <= now
    /\ counter > 0 => window >= 0
    /\ counter <= Cardinality(RequestsSince(window))

IInv == TypeOK /\ MembersInv /\ CounterInv /\ RefusedOnlyAboveLimit
=============================================================================
