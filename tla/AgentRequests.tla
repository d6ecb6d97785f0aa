---------------------------- MODULE AgentRequests ----------------------------
(***************************************************************************)
(* Requests of agents to POST, PUT and DELETE routes: the token is         *)
(* verified and charged to its budget (AgentTokenService, the in-process   *)
(* or the Redis rate limiter), the Idempotency-Key is looked up, the       *)
(* command runs, and its response is recorded for replays (the in-process  *)
(* or the Redis store).  All requests are of one token, tenant and route.  *)
(*                                                                         *)
(* A request is what a client sends once; a retry is another request with  *)
(* the same key.  A definition whose name ends in Mutant is the one that   *)
(* follows it with a plausible bug.                                        *)
(***************************************************************************)
EXTENDS Integers, Sequences, FiniteSets

CONSTANTS
  MaxRequests,  \* bound: requests
  Hosts, Keys,
  KeysOf,     \* the Idempotency-Keys the requests may come with
  Skew,       \* per host, what its monotonic clock shows at time 0
  Limit,      \* rate_limit_rpm
  Window,     \* the ticks of 60 seconds
  TimeToLive, \* the ticks of DEFAULT_IDEMPOTENCY_TTL
  Cap,        \* max_entries of the in-process store
  MaxTime,    \* bound: ticks
  MaxFaults,  \* bound: requests that die, hosts that restart, a revoke
  None

\* A token's limit is from 1 to 10 000, which is what a deque holds; names are
\* neither times nor each other's.
RequestSettings ==
  /\ MaxRequests \in Nat /\ MaxTime \in Nat /\ MaxFaults \in Nat
  /\ Limit \in Nat \ {0} /\ Cap \in Nat \ {0} /\ Window \in Nat /\ TimeToLive \in Nat
  /\ Skew \in [Hosts -> Int] /\ KeysOf \subseteq [1 .. MaxRequests -> Keys]
  /\ "redis" \notin Hosts /\ None \notin Hosts \cup Nat
ASSUME RequestAssumption == RequestSettings

Requests == 1 .. MaxRequests

VARIABLES
  backend,   \* where limiter and store live: in_memory or redis
  now,       \* time
  token,     \* the token's row: live or revoked
  dropping,  \* the host of a revoke that has yet to drop the bucket, or None
  bucket,    \* per host, its deque of the timestamps of the calls it admitted
  stamps,    \* the sorted set of Redis: its members are the timestamps
  touched,   \* when the last one was added (EXPIRE)
  replays,   \* per place, the recorded responses, in the order of their slots
  where, host, key,  \* of each request: where it is, who serves it, its key
  ran,       \* the requests whose command took effect
  answer,    \* the request whose response a replay returned, or None
  faults,    \* count for the bound
  admitted,  \* history: when each place admitted a call since its bucket was new
  recorded,  \* history: when each request's response was recorded; what is lost again is not in it
  missed     \* history: the responses to its key on record when a request looked and went on

limiter   == <<bucket, stamps, touched, admitted>>
request   == <<where, host, key, ran, answer>>
agentVars == <<backend, now, token, dropping, limiter, replays, request, faults, recorded, missed>>

Places == Hosts \cup {"redis"}
Place(h) == IF backend = "redis" THEN "redis" ELSE h
Here(r) == Place(host[r])
Entry == [key : Keys, by : Requests, until : Nat]

RequestTypeOK ==
  /\ backend \in {"in_memory", "redis"} /\ now \in 0 .. MaxTime
  /\ token \in {"live", "revoked"} /\ dropping \in Hosts \cup {None}
  /\ \A h \in Hosts : bucket[h] \in Seq(Int) /\ Len(bucket[h]) <= Limit
  /\ stamps \subseteq Int /\ touched \in 0 .. MaxTime
  /\ \A p \in Places : replays[p] \in Seq(Entry) /\ (p \in Hosts => Len(replays[p]) <= Cap)
  /\ where \in [Requests -> {"new", "budget", "lookup", "run", "record", "done"}]
  /\ host \in [Requests -> Hosts \cup {None}] /\ key \in [Requests -> Keys]
  /\ ran \subseteq Requests /\ answer \in [Requests -> Requests \cup {None}]
  /\ faults \in 0 .. MaxFaults
  /\ \A p \in Places : admitted[p] \in Seq(Nat)
  /\ recorded \in [Requests -> Nat \cup {None}]
  /\ missed \in [Requests -> SUBSET Requests]

RequestInit ==
  /\ backend \in {"in_memory", "redis"} /\ now = 0
  /\ token = "live" /\ dropping = None
  /\ bucket = [h \in Hosts |-> <<>>] /\ stamps = {} /\ touched = 0
  /\ replays = [p \in Places |-> <<>>]
  /\ where = [r \in Requests |-> "new"]
  /\ host = [r \in Requests |-> None] /\ key \in KeysOf
  /\ ran = {} /\ answer = [r \in Requests |-> None]
  /\ faults = 0
  /\ admitted = [p \in Places |-> <<>>]
  /\ recorded = [r \in Requests |-> None] /\ missed = [r \in Requests |-> {}]

RequestAt(r, place) == where' = [where EXCEPT ![r] = place]

-----------------------------------------------------------------------------
(* A request on its way through the controller.                              *)

\* verify reads the row of a token that is not revoked; anything else is refused.
Arrive(r) ==
  /\ where[r] = "new"
  /\ \E h \in Hosts : host' = [host EXCEPT ![r] = h]
  /\ RequestAt(r, IF token = "live" THEN "budget" ELSE "done")
  /\ UNCHANGED <<backend, now, token, dropping, limiter, replays, key, ran, answer, faults, recorded, missed>>

\* The limiter lets a call pass, or answers that the budget is exhausted.
Charged(r, passes) ==
  /\ RequestAt(r, IF passes THEN "lookup" ELSE "done")
  /\ admitted' = IF passes THEN [admitted EXCEPT ![Here(r)] = Append(@, now)] ELSE admitted
  /\ UNCHANGED <<backend, now, token, dropping, replays, host, key, ran, answer, faults, recorded, missed>>

Clock(r) == now + Skew[host[r]]

\* popleft takes n timestamps, as long as the first is older than the window.
PoppedMutant(queue, n, cutoff) ==
  /\ queue # <<>> => n > 0
  /\ \A i \in 2 .. n : queue[i] < cutoff
  /\ n < Len(queue) => queue[n + 1] >= cutoff
Popped(queue, n, cutoff) ==
  /\ \A i \in 1 .. n : queue[i] < cutoff
  /\ n < Len(queue) => queue[n + 1] >= cutoff

\* try_take, under the lock of its limiter.
TryTake(r) ==
  /\ where[r] = "budget" /\ backend = "in_memory"
  /\ \E n \in 0 .. Len(bucket[host[r]]) :
       LET queue == bucket[host[r]]
           rest == SubSeq(queue, n + 1, Len(queue))
       IN  /\ Popped(queue, n, Clock(r) - Window)
           /\ bucket' = [bucket EXCEPT ![host[r]] =
                           IF Len(rest) < Limit THEN Append(rest, Clock(r)) ELSE rest]
           /\ Charged(r, Len(rest) < Limit)
  /\ UNCHANGED <<stamps, touched>>

\* The script, which Redis runs as one step: what is not younger than the window
\* goes, and the whole set if nothing was added to it for longer than that.
RunScript(r) ==
  /\ where[r] = "budget" /\ backend = "redis"
  /\ LET recent == {stamp \in stamps : stamp > Clock(r) - Window /\ now - touched <= Window}
     IN  IF Cardinality(recent) < Limit
           THEN stamps' = recent \cup {Clock(r)} /\ touched' = now /\ Charged(r, TRUE)
           ELSE stamps' = recent /\ UNCHANGED touched /\ Charged(r, FALSE)
  /\ UNCHANGED bucket

\* The slot of a key, 0 if it has none.
Slot(slots, k) ==
  IF \E i \in DOMAIN slots : slots[i].key = k THEN CHOOSE i \in DOMAIN slots : slots[i].key = k ELSE 0

\* check_idempotency_replay: a response on record is the answer, whatever is asked.
Lookup(r) ==
  /\ where[r] = "lookup"
  /\ LET slots == replays[Here(r)]
         i == Slot(slots, key[r])
     IN  IF i # 0 /\ slots[i].until > now
           THEN RequestAt(r, "done") /\ answer' = [answer EXCEPT ![r] = slots[i].by] /\ UNCHANGED missed
           ELSE /\ RequestAt(r, "run") /\ UNCHANGED answer
                /\ missed' = [missed EXCEPT ![r] =
                     {q \in Requests : /\ recorded[q] # None /\ recorded[q] + TimeToLive > now
                                     /\ Here(q) = Here(r) /\ key[q] = key[r]}]
  /\ UNCHANGED <<backend, now, token, dropping, limiter, replays, host, key, ran, faults, recorded>>

\* The command.  One that fails is answered with its error, and not recorded.
Run(r) ==
  /\ where[r] = "run"
  /\ \/ RequestAt(r, "record") /\ ran' = ran \cup {r}
     \/ RequestAt(r, "done") /\ UNCHANGED ran
  /\ UNCHANGED <<backend, now, token, dropping, limiter, replays, host, key, answer, faults, recorded, missed>>

\* The first slot goes while the in-process store is full, also when the key has
\* one; a key that has one keeps its place in the order.
RoomMutant(p) == IF p # "redis" /\ Len(replays[p]) > Cap THEN Tail(replays[p]) ELSE replays[p]
Room(p) == IF p # "redis" /\ Len(replays[p]) >= Cap THEN Tail(replays[p]) ELSE replays[p]
StoredMutant(slots, entry) ==
  IF Slot(slots, entry.key) = 0 THEN Append(slots, entry) ELSE slots
Stored(slots, entry) ==
  IF Slot(slots, entry.key) = 0 THEN Append(slots, entry)
  ELSE [slots EXCEPT ![Slot(slots, entry.key)] = entry]

\* record_response.  The response that was stored for the key before is replaced.
Record(r) ==
  /\ where[r] = "record"
  /\ LET p == Here(r)
         slots == Room(p)
     IN  /\ replays' = [replays EXCEPT ![p] =
                Stored(slots, [key |-> key[r], by |-> r, until |-> now + TimeToLive])]
         /\ recorded' = [q \in Requests |->
                IF q = r THEN now
                ELSE IF host[q] # None /\ Here(q) = p /\ Slot(slots, key[q]) = 0 THEN None
                ELSE recorded[q]]
  /\ RequestAt(r, "done")
  /\ UNCHANGED <<backend, now, token, dropping, limiter, host, key, ran, answer, faults, missed>>

-----------------------------------------------------------------------------
(* The token's administration, time and faults.                              *)

Revoke ==
  /\ token = "live" /\ faults < MaxFaults /\ faults' = faults + 1
  /\ token' = "revoked" /\ \E h \in Hosts : dropping' = h
  /\ UNCHANGED <<backend, now, limiter, replays, request, recorded, missed>>

\* The host that revokes drops the bucket it can reach.
DropBucket ==
  /\ dropping # None
  /\ IF backend = "redis" THEN stamps' = {} /\ UNCHANGED bucket
     ELSE bucket' = [bucket EXCEPT ![dropping] = <<>>] /\ UNCHANGED stamps
  /\ admitted' = [admitted EXCEPT ![Place(dropping)] = <<>>]
  /\ dropping' = None
  /\ UNCHANGED <<backend, now, token, touched, replays, request, faults, recorded, missed>>

Tick ==
  /\ now < MaxTime
  /\ now' = now + 1
  /\ UNCHANGED <<backend, token, dropping, limiter, replays, request, faults, recorded, missed>>

\* The request is cancelled, or the client is gone and so is its task.
RequestDies(r) ==
  /\ where[r] \in {"run", "record"} /\ faults < MaxFaults
  /\ RequestAt(r, "done") /\ faults' = faults + 1
  /\ UNCHANGED <<backend, now, token, dropping, limiter, replays, host, key, ran, answer, recorded, missed>>

\* What a host has in memory is gone, and so are the requests it was serving.
Restart(h) ==
  /\ faults < MaxFaults /\ faults' = faults + 1
  /\ bucket' = [bucket EXCEPT ![h] = <<>>] /\ admitted' = [admitted EXCEPT ![h] = <<>>]
  /\ replays' = [replays EXCEPT ![h] = <<>>]
  /\ recorded' = [r \in Requests |-> IF host[r] # None /\ Here(r) = h THEN None ELSE recorded[r]]
  /\ where' = [r \in Requests |-> IF host[r] = h THEN "done" ELSE where[r]]
  /\ dropping' = IF dropping = h THEN None ELSE dropping
  /\ UNCHANGED <<backend, now, token, stamps, touched, host, key, ran, answer, missed>>

RequestNext ==
  \/ \E r \in Requests :
       \/ Arrive(r) \/ TryTake(r) \/ RunScript(r) \/ Lookup(r) \/ Run(r) \/ Record(r)
       \/ RequestDies(r)
  \/ Revoke \/ DropBucket \/ Tick
  \/ \E h \in Hosts : Restart(h)

RequestSpec == RequestInit /\ [][RequestNext]_agentVars

-----------------------------------------------------------------------------
(* Safety.                                                                   *)

\* A retry that looks after the response was recorded does not run the command
\* again: not within the time to live, where that store is the one it asks, and
\* unless the response was evicted or went with its process.  What it is given is
\* the response of a request with its key that did take effect.
RetriesRunOnce ==
  \A r \in Requests :
    /\ missed[r] = {}
    /\ answer[r] # None => answer[r] \in ran /\ key[answer[r]] = key[r]

\* In any 60 seconds a limiter admits no more calls than the limit.  Calls that
\* come at the same instant to Redis are one; and what hosts share there is a
\* budget only where their monotonic clocks show the same, for each stamps its
\* calls with its own.
SameClock == \A g, h \in Hosts : Skew[g] = Skew[h]
InWindow(times, i) == {j \in i .. Len(times) : times[j] < times[i] + Window}
Calls(p, i) ==
  IF p = "redis" THEN {admitted[p][j] : j \in InWindow(admitted[p], i)} ELSE InWindow(admitted[p], i)
BudgetHolds ==
  \A p \in Places : p \in Hosts \/ SameClock =>
    \A i \in DOMAIN admitted[p] : Cardinality(Calls(p, i)) <= Limit
=============================================================================
