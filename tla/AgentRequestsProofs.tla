------------------------- MODULE AgentRequestsProofs -------------------------
(***************************************************************************)
(* Proofs about AgentRequests, for any number of requests, hosts and keys, *)
(* every limit, window and cap, and clocks that differ by anything: the    *)
(* types, that no limiter admits more than its budget, and that no retry   *)
(* passes a response on record.                                            *)
(***************************************************************************)
EXTENDS AgentRequests, FiniteSetTheorems, SequenceTheorems, TLAPS

-----------------------------------------------------------------------------
(* The invariant.                                                            *)

RequestTyped ==
  /\ backend \in {"in_memory", "redis"} /\ now \in 0 .. MaxTime
  /\ token \in {"live", "revoked"} /\ dropping \in Hosts \cup {None}
  /\ bucket \in [Hosts -> Seq(Int)] /\ \A h \in Hosts : Len(bucket[h]) <= Limit
  /\ stamps \subseteq Int /\ IsFiniteSet(stamps) /\ touched \in 0 .. now
  /\ replays \in [Places -> Seq(Entry)] /\ \A h \in Hosts : Len(replays[h]) <= Cap
  /\ where \in [Requests -> {"new", "budget", "lookup", "run", "record", "done"}]
  /\ host \in [Requests -> Hosts \cup {None}] /\ key \in [Requests -> Keys]
  /\ ran \subseteq Requests /\ answer \in [Requests -> Requests \cup {None}]
  /\ faults \in 0 .. MaxFaults
  /\ admitted \in [Places -> Seq(Nat)]
  /\ recorded \in [Requests -> Nat \cup {None}]
  /\ missed \in [Requests -> SUBSET Requests]

\* A request that has arrived is served by a host, and one that records has run.
Served ==
  \A r \in Requests :
    /\ where[r] # "new" => host[r] \in Hosts
    /\ where[r] = "record" => r \in ran
    /\ recorded[r] # None => where[r] # "new" /\ recorded[r] <= now

\* Time goes forward.
InOrder(times) ==
  \A i, j \in DOMAIN times : times[i] <= now /\ (i <= j => times[i] <= times[j])

\* A deque holds the last calls that were admitted, as the host's clock showed
\* them; those it dropped are older than the window, and always will be.
EndOf(queue, times, skew, time) ==
  \E gone \in Nat :
    /\ Len(times) = gone + Len(queue)
    /\ \A i \in 1 .. Len(queue) : queue[i] = times[gone + i] + skew
    /\ \A j \in 1 .. gone : times[j] < time - Window
QueueIsEnd(h) == EndOf(bucket[h], admitted[h], Skew[h], now)

\* The sorted set holds the calls of the window, where the clocks show the same.
SetIsWindow ==
  \A j \in DOMAIN admitted["redis"] :
    /\ admitted["redis"][j] <= touched
    /\ \A h \in Hosts : SameClock /\ admitted["redis"][j] > now - Window =>
         admitted["redis"][j] + Skew[h] \in stamps

\* A key has one slot, with the response of a request that has run.
SlotsSound(p) ==
  /\ \A i, j \in DOMAIN replays[p] : replays[p][i].key = replays[p][j].key => i = j
  /\ \A i \in DOMAIN replays[p] :
       replays[p][i].by \in ran /\ key[replays[p][i].by] = replays[p][i].key

\* A response on record is in the slot of its key, until it has lived its time.
OnRecord(q) ==
  recorded[q] # None =>
    \E i \in DOMAIN replays[Here(q)] :
      replays[Here(q)][i].key = key[q] /\ replays[Here(q)][i].until >= recorded[q] + TimeToLive

LimiterInv ==
  /\ \A p \in Places : InOrder(admitted[p])
  /\ \A h \in Hosts : QueueIsEnd(h)
  /\ SetIsWindow /\ BudgetHolds

StoreInv ==
  /\ \A p \in Places : SlotsSound(p)
  /\ \A q \in Requests : OnRecord(q)
  /\ RetriesRunOnce

RequestInv == RequestTyped /\ Served /\ LimiterInv /\ StoreInv

-----------------------------------------------------------------------------
(* What a step leaves alone.                                                 *)

\* What is older than the window stays older.
LEMMA Aging ==
  ASSUME NEW queue \in Seq(Int), NEW times \in Seq(Nat), NEW skew \in Int,
         NEW time \in Nat, NEW later \in Nat, time <= later, EndOf(queue, times, skew, time)
  PROVE  EndOf(queue, times, skew, later)
<1>1. PICK gone \in Nat :
        /\ Len(times) = gone + Len(queue)
        /\ \A i \in 1 .. Len(queue) : queue[i] = times[gone + i] + skew
        /\ \A j \in 1 .. gone : times[j] < time - Window
  BY DEF EndOf
<1>2. \A j \in 1 .. gone : times[j] < later - Window
  <2> TAKE j \in 1 .. gone
  <2>1. Len(queue) \in Nat /\ j \in 1 .. Len(times)
    BY <1>1, LenProperties
  <2>2. times[j] \in Nat /\ Window \in Nat
    BY <2>1, ElementOfSeq, RequestAssumption DEF RequestSettings
  <2> QED BY <1>1, <2>2
<1> QED BY <1>1, <1>2 DEF EndOf

\* Time may pass: what is older than the window stays older.
LEMMA LimiterQuiet ==
  ASSUME RequestTyped, LimiterInv, UNCHANGED limiter, now' \in Nat, now' >= now
  PROVE  LimiterInv'
<1>1. Window \in Nat /\ now \in Nat /\ touched \in Nat /\ Skew \in [Hosts -> Int]
  BY RequestAssumption DEF RequestSettings, RequestTyped
<1>2. admitted' = admitted /\ bucket' = bucket /\ stamps' = stamps /\ touched' = touched
  BY DEF limiter
<1>3. admitted \in [Places -> Seq(Nat)] /\ \A p \in Places : \A j \in DOMAIN admitted[p] : admitted[p][j] \in Nat
  BY ElementOfSeq, LenProperties DEF RequestTyped
<1>4. \A p \in Places : InOrder(admitted[p])'
  BY <1>1, <1>2, <1>3 DEF LimiterInv, InOrder
<1>5. ASSUME NEW h \in Hosts PROVE QueueIsEnd(h)'
  <2>1. QueueIsEnd(h) /\ admitted[h] \in Seq(Nat) /\ bucket[h] \in Seq(Int)
    BY <1>3 DEF LimiterInv, Places, RequestTyped
  <2>2. EndOf(bucket[h], admitted[h], Skew[h], now')
    BY <1>1, <2>1, Aging DEF QueueIsEnd
  <2> QED BY <1>2, <2>2 DEF QueueIsEnd
<1>6. SetIsWindow'
  <2>1. "redis" \in Places
    BY DEF Places
  <2> QED BY <1>1, <1>2, <1>3, <2>1 DEF LimiterInv, SetIsWindow
<1>7. BudgetHolds'
  BY <1>2 DEF LimiterInv, BudgetHolds, Calls, InWindow
<1> QED BY <1>4, <1>5, <1>6, <1>7 DEF LimiterInv

LEMMA StoreQuiet ==
  ASSUME RequestTyped, Served, StoreInv,
         UNCHANGED <<backend, replays, key, answer, recorded, missed>>, ran \subseteq ran',
         \A q \in Requests : recorded[q] # None => host'[q] = host[q]
  PROVE  StoreInv'
<1>1. \A p \in Places : SlotsSound(p)'
  BY DEF StoreInv, SlotsSound
<1>2. ASSUME NEW q \in Requests PROVE OnRecord(q)'
  BY DEF StoreInv, OnRecord, Here, Place
<1>3. RetriesRunOnce'
  BY DEF StoreInv, RetriesRunOnce
<1> QED BY <1>1, <1>2, <1>3 DEF StoreInv

-----------------------------------------------------------------------------
(* The limiter.                                                              *)

\* What passes the deque: of the window that ends with a new call there are only
\* calls that the deque still holds.
LEMMA QueueWindow ==
  ASSUME NEW times \in Seq(Nat), NEW time \in Nat, NEW n \in 0 .. Len(times), Len(times) - n < Limit,
         \A j \in 1 .. n : times[j] < time - Window,
         \A i \in DOMAIN times : times[i] <= time,
         \A i \in DOMAIN times : Cardinality(InWindow(times, i)) <= Limit
  PROVE  \A i \in DOMAIN Append(times, time) : Cardinality(InWindow(Append(times, time), i)) <= Limit
<1>0. PICK more : more = Append(times, time)
  OBVIOUS
<1> DEFINE size == Len(times)
<1>1. Limit \in Nat \ {0} /\ Window \in Nat
  BY RequestAssumption DEF RequestSettings
<1>2. /\ size \in Nat /\ DOMAIN times = 1 .. size /\ DOMAIN more = 1 .. size + 1 /\ Len(more) = size + 1
      /\ \A i \in 1 .. size : more[i] = times[i] /\ times[i] \in Nat
      /\ more[size + 1] = time
  BY <1>0, AppendProperties, LenProperties, ElementOfSeq
<1>3. SUFFICES ASSUME NEW i \in 1 .. size + 1 PROVE Cardinality(InWindow(more, i)) <= Limit
  BY <1>0, <1>2
<1> HIDE DEF size
<1>4. CASE time >= more[i] + Window
  <2>1. i \in 1 .. size \/ Window = 0
    BY <1>1, <1>2, <1>4
  <2>2. CASE i \in 1 .. size
    <3>1. \A j \in i .. size + 1 : j # size + 1 => j \in i .. size /\ more[j] = times[j]
      BY <1>2, <2>2
    <3>2. \A j \in i .. size + 1 : more[j] < more[i] + Window => j # size + 1
      BY <1>1, <1>2, <1>4
    <3>3. more[i] = times[i] /\ i .. size \subseteq i .. size + 1
      BY <1>2, <2>2
    <3>4. InWindow(more, i) = InWindow(times, i)
      BY <1>2, <3>1, <3>2, <3>3, SMTT(30) DEF InWindow, size
    <3> QED BY <1>2, <2>2, <3>4
  <2>3. CASE i = size + 1
    <3>1. InWindow(more, i) = {}
      BY <1>1, <1>2, <1>4, <2>3 DEF InWindow
    <3> QED BY <1>1, <3>1, FS_EmptySet
  <2> QED BY <2>2, <2>3, <1>2
<1>5. CASE time < more[i] + Window
  <2>1. i > n
    BY <1>1, <1>2, <1>5
  <2>2. InWindow(more, i) \subseteq n + 1 .. size + 1
    BY <1>2, <2>1 DEF InWindow
  <2>3. IsFiniteSet(n + 1 .. size + 1) /\ Cardinality(n + 1 .. size + 1) = size - n + 1
    <3>1. n + 1 \in Int /\ size + 1 \in Int /\ n + 1 <= size + 1
      BY <1>2
    <3> QED BY <1>2, <3>1, FS_Interval
  <2>4. Cardinality(InWindow(more, i)) <= size - n + 1 /\ Cardinality(InWindow(more, i)) \in Nat
    BY <2>2, <2>3, FS_Subset, FS_CardinalityType
  <2> QED BY <1>1, <1>2, <2>4
<1>6. more[i] \in Nat
  <2>1. i \in 1 .. size \/ i = size + 1
    BY <1>2
  <2> QED BY <1>2, <2>1
<1> QED BY <1>1, <1>4, <1>5, <1>6

\* What passes the script: the same, of the instants at which calls were admitted.
LEMMA SetWindow ==
  ASSUME NEW times \in Seq(Nat), NEW time \in Nat, NEW skew \in Int,
         NEW recent, IsFiniteSet(recent), Cardinality(recent) < Limit,
         \A j \in DOMAIN times : times[j] > time - Window => times[j] + skew \in recent,
         \A i, j \in DOMAIN times : times[i] <= time /\ (i <= j => times[i] <= times[j]),
         \A i \in DOMAIN times : Cardinality({times[j] : j \in InWindow(times, i)}) <= Limit
  PROVE  \A i \in DOMAIN Append(times, time) :
           Cardinality({Append(times, time)[j] : j \in InWindow(Append(times, time), i)}) <= Limit
<1>0. PICK more : more = Append(times, time)
  OBVIOUS
<1> DEFINE size == Len(times)
<1>1. Limit \in Nat \ {0} /\ Window \in Nat
  BY RequestAssumption DEF RequestSettings
<1>2. /\ size \in Nat /\ DOMAIN times = 1 .. size /\ DOMAIN more = 1 .. size + 1 /\ Len(more) = size + 1
      /\ \A i \in 1 .. size : more[i] = times[i] /\ times[i] \in Nat
      /\ more[size + 1] = time
  BY <1>0, AppendProperties, LenProperties, ElementOfSeq
<1>3. SUFFICES ASSUME NEW i \in 1 .. size + 1
               PROVE  Cardinality({more[j] : j \in InWindow(more, i)}) <= Limit
  BY <1>0, <1>2
<1> HIDE DEF size
<1>4. i = size + 1 \/ i \in 1 .. size
  BY <1>2
<1>5. more[i] \in Nat
  BY <1>2, <1>4
<1>6. CASE i \in 1 .. size /\ time >= more[i] + Window
  <2>1. \A j \in i .. size + 1 : j # size + 1 => j \in i .. size /\ more[j] = times[j]
    BY <1>2, <1>6
  <2>2. \A j \in i .. size + 1 : more[j] < more[i] + Window => j # size + 1
    <3>1. ~(time < more[i] + Window)
      BY <1>1, <1>5, <1>6
    <3> QED BY <1>2, <3>1
  <2>3. more[i] = times[i] /\ i .. size \subseteq i .. size + 1
    BY <1>2, <1>6
  <2>4. InWindow(more, i) = InWindow(times, i)
    BY <1>2, <2>1, <2>2, <2>3, SMTT(30) DEF InWindow, size
  <2>5. {more[j] : j \in InWindow(more, i)} = {times[j] : j \in InWindow(times, i)}
    <3>1. \A j \in InWindow(times, i) : more[j] = times[j]
      BY <1>2, <1>6 DEF InWindow, size
    <3> QED BY <2>4, <3>1
  <2> QED BY <1>2, <1>6, <2>5
<1>7. CASE i = size + 1 \/ time < more[i] + Window
  <2> DEFINE old == {more[j] : j \in InWindow(more, i)} \ {time}
  <2>1. ASSUME NEW x \in old PROVE x \in Nat /\ x + skew \in recent
    <3>1. PICK j \in InWindow(more, i) : x = more[j] /\ x # time
      OBVIOUS
    <3>2. j \in i .. size + 1 /\ j # size + 1
      BY <1>2, <3>1 DEF InWindow
    <3>3. j \in 1 .. size /\ i \in 1 .. size /\ i <= j
      BY <1>2, <3>2
    <3>4. x = times[j] /\ times[i] <= times[j] /\ more[i] = times[i] /\ x \in Nat
      BY <1>2, <3>1, <3>3
    <3>5. times[j] > time - Window
      BY <1>1, <1>2, <1>7, <3>3, <3>4
    <3> QED BY <1>2, <3>3, <3>4, <3>5
  <2> DEFINE shown == [x \in old |-> x + skew]
  <2>2. \A x \in old : shown[x] = x + skew
    OBVIOUS
  <2>3. shown \in Injection(old, recent)
    <3>1. shown \in [old -> recent]
      BY <2>1
    <3>2. \A x, y \in old : shown[x] = shown[y] => x = y
      BY <2>1, <2>2
    <3> HIDE DEF shown, old
    <3> QED BY <3>1, <3>2 DEF Injection, IsInjective
  <2> HIDE DEF shown, old
  <2>4. IsFiniteSet(old) /\ Cardinality(old) <= Cardinality(recent)
    BY <2>3, FS_Injection
  <2>5. /\ IsFiniteSet(old \cup {time})
        /\ Cardinality(old \cup {time}) <= Cardinality(old) + 1
        /\ Cardinality(old) \in Nat /\ Cardinality(recent) \in Nat
    <3>1. Cardinality(old) \in Nat /\ Cardinality(recent) \in Nat
      BY <2>4, FS_CardinalityType
    <3>2. Cardinality(old \cup {time}) \in {Cardinality(old), Cardinality(old) + 1}
      BY <2>4, FS_AddElement
    <3>3. Cardinality(old \cup {time}) <= Cardinality(old) + 1
      BY <3>1, <3>2
    <3> QED BY <2>4, <3>1, <3>3, FS_AddElement
  <2>6. {more[j] : j \in InWindow(more, i)} \subseteq old \cup {time}
    BY DEF old
  <2>7. /\ Cardinality({more[j] : j \in InWindow(more, i)}) <= Cardinality(old \cup {time})
        /\ IsFiniteSet({more[j] : j \in InWindow(more, i)})
    BY <2>5, <2>6, FS_Subset
  <2>8. /\ Cardinality({more[j] : j \in InWindow(more, i)}) \in Nat
        /\ Cardinality(old \cup {time}) \in Nat
    BY <2>5, <2>7, FS_CardinalityType
  <2> QED BY <1>1, <2>4, <2>5, <2>7, <2>8
<1> QED BY <1>1, <1>2, <1>4, <1>5, <1>6, <1>7

\* A call that is charged goes on, or is done; nothing else of it changes.
LEMMA ChargedTyped ==
  ASSUME RequestTyped, Served, StoreInv, NEW r \in Requests, where[r] = "budget",
         NEW passes \in BOOLEAN, Charged(r, passes)
  PROVE  /\ Here(r) \in Places /\ host[r] \in Hosts /\ Clock(r) \in Int /\ now \in Nat
         /\ now' = now /\ UNCHANGED <<backend, host>>
         /\ admitted' \in [Places -> Seq(Nat)]
         /\ Served' /\ StoreInv'
         /\ where' \in [Requests -> {"new", "budget", "lookup", "run", "record", "done"}]
<1>1. host[r] \in Hosts /\ Here(r) \in Places /\ now \in Nat
  BY RequestAssumption DEF RequestTyped, Served, Here, Place, Places, RequestSettings
<1>2. Clock(r) \in Int
  BY <1>1, RequestAssumption DEF Clock, RequestSettings
<1>3. admitted' \in [Places -> Seq(Nat)]
  <2>1. Append(admitted[Here(r)], now) \in Seq(Nat)
    BY <1>1, AppendProperties DEF RequestTyped
  <2> QED BY <1>1, <2>1 DEF Charged, RequestTyped
<1>4. Served' /\ where' \in [Requests -> {"new", "budget", "lookup", "run", "record", "done"}]
  BY DEF Charged, RequestAt, Served, RequestTyped
<1>5. StoreInv'
  BY StoreQuiet DEF Charged
<1> QED BY <1>1, <1>2, <1>3, <1>4, <1>5 DEF Charged

\* Of the other places nothing changes.
LEMMA OtherPlaces ==
  ASSUME RequestTyped, NEW p \in Places, admitted'[p] = admitted[p], now' = now
  PROVE  /\ InOrder(admitted[p]) => InOrder(admitted[p])'
         /\ p \in Hosts /\ bucket'[p] = bucket[p] /\ QueueIsEnd(p) => QueueIsEnd(p)'
         /\ \A i \in DOMAIN admitted[p] : Calls(p, i)' = Calls(p, i)
<1>1. InOrder(admitted[p]) => InOrder(admitted[p])'
  BY DEF InOrder
<1>2. p \in Hosts /\ bucket'[p] = bucket[p] /\ QueueIsEnd(p) => QueueIsEnd(p)'
  BY DEF QueueIsEnd
<1>3. \A i \in DOMAIN admitted[p] : Calls(p, i)' = Calls(p, i)
  BY DEF Calls, InWindow
<1> QED BY <1>1, <1>2, <1>3

\* A call more, now: the order is kept.
LEMMA NowIsLast ==
  ASSUME RequestTyped, NEW p \in Places, InOrder(admitted[p]), now' = now,
         admitted'[p] = Append(admitted[p], now)
  PROVE  InOrder(admitted[p])'
<1>1. now \in Nat /\ admitted[p] \in Seq(Nat)
  BY RequestAssumption DEF RequestTyped, RequestSettings
<1>2. PICK times : times = admitted[p]
  OBVIOUS
<1>3. PICK more : more = Append(times, now)
  OBVIOUS
<1>4. /\ Len(times) \in Nat /\ DOMAIN times = 1 .. Len(times) /\ DOMAIN more = 1 .. Len(times) + 1
      /\ \A i \in 1 .. Len(times) : more[i] = times[i] /\ times[i] \in Nat
      /\ more[Len(times) + 1] = now
  BY <1>1, <1>2, <1>3, AppendProperties, LenProperties, ElementOfSeq
<1>5. \A i, j \in 1 .. Len(times) : times[i] <= now /\ (i <= j => times[i] <= times[j])
  BY <1>2, <1>4 DEF InOrder
<1>6. \A i, j \in 1 .. Len(times) + 1 : more[i] <= now /\ (i <= j => more[i] <= more[j])
  <2> SUFFICES ASSUME NEW i \in 1 .. Len(times) + 1, NEW j \in 1 .. Len(times) + 1
               PROVE  more[i] <= now /\ (i <= j => more[i] <= more[j])
    OBVIOUS
  <2>1. i = Len(times) + 1 \/ i \in 1 .. Len(times)
    BY <1>4
  <2>2. j = Len(times) + 1 \/ j \in 1 .. Len(times)
    BY <1>4
  <2>3. more[i] <= now
    BY <1>1, <1>4, <1>5, <2>1
  <2>4. CASE j = Len(times) + 1
    BY <1>4, <2>3, <2>4
  <2>5. CASE j \in 1 .. Len(times)
    BY <1>1, <1>4, <1>5, <2>1, <2>3, <2>5
  <2> QED BY <2>2, <2>3, <2>4, <2>5
<1> QED BY <1>2, <1>3, <1>4, <1>6 DEF InOrder

\* A sequence without its first n elements.
LEMMA Shortened ==
  ASSUME NEW S, NEW q \in Seq(S), NEW n \in 0 .. Len(q)
  PROVE  /\ SubSeq(q, n + 1, Len(q)) \in Seq(S)
         /\ Len(SubSeq(q, n + 1, Len(q))) = Len(q) - n
         /\ \A i \in 1 .. Len(q) - n : SubSeq(q, n + 1, Len(q))[i] = q[n + i]
<1>1. Len(q) \in Nat /\ \A i \in n + 1 .. Len(q) : q[i] \in S
  BY LenProperties, ElementOfSeq
<1>2. PICK rest : rest = SubSeq(q, n + 1, Len(q))
  OBVIOUS
<1>3. n + 1 \in Int /\ Len(q) \in Int
  BY <1>1
<1>4. /\ rest \in Seq(S) /\ Len(rest) = IF n + 1 <= Len(q) THEN Len(q) - (n + 1) + 1 ELSE 0
      /\ \A i \in 1 .. Len(q) - (n + 1) + 1 : rest[i] = q[n + 1 + i - 1]
  BY <1>1, <1>2, <1>3, SubSeqProperties
<1>5. Len(rest) = Len(q) - n
  BY <1>1, <1>4
<1>6. ASSUME NEW i \in 1 .. Len(q) - n PROVE rest[i] = q[n + i]
  <2>1. i \in 1 .. Len(q) - (n + 1) + 1 /\ n + 1 + i - 1 = n + i
    BY <1>1
  <2> QED BY <1>4, <2>1
<1> QED BY <1>2, <1>4, <1>5, <1>6

\* What the deque forgets is older than the window, now.
LEMMA Popping ==
  ASSUME NEW queue \in Seq(Int), NEW times \in Seq(Nat), NEW skew \in Int, NEW time \in Nat,
         EndOf(queue, times, skew, time),
         NEW n \in 0 .. Len(queue), \A i \in 1 .. n : queue[i] < time + skew - Window
  PROVE  EndOf(SubSeq(queue, n + 1, Len(queue)), times, skew, time)
<1>1. PICK gone \in Nat :
        /\ Len(times) = gone + Len(queue)
        /\ \A i \in 1 .. Len(queue) : queue[i] = times[gone + i] + skew
        /\ \A j \in 1 .. gone : times[j] < time - Window
  BY DEF EndOf
<1>2. PICK rest : rest = SubSeq(queue, n + 1, Len(queue))
  OBVIOUS
<1>3. Len(rest) = Len(queue) - n /\ \A i \in 1 .. Len(queue) - n : rest[i] = queue[n + i]
  BY <1>2, Shortened
<1>4. /\ Window \in Nat /\ Len(queue) \in Nat
      /\ \A i \in 1 .. Len(times) : times[i] \in Nat
  BY ElementOfSeq, LenProperties, RequestAssumption DEF RequestSettings
<1>5. ASSUME NEW j \in 1 .. gone + n PROVE times[j] < time - Window
  <2>1. CASE j <= gone
    BY <1>1, <2>1
  <2>2. CASE j > gone
    <3>1. PICK i \in 1 .. n : j = gone + i
      <4>1. j - gone \in 1 .. n /\ j = gone + (j - gone)
        BY <2>2
      <4> QED BY <4>1
    <3>2. i \in 1 .. Len(queue) /\ j \in 1 .. Len(times)
      BY <1>1, <1>4, <3>1
    <3>3. queue[i] = times[j] + skew /\ queue[i] < time + skew - Window
      BY <1>1, <3>1, <3>2
    <3> QED BY <1>4, <3>2, <3>3
  <2> QED BY <2>1, <2>2
<1>6. ASSUME NEW i \in 1 .. Len(rest) PROVE rest[i] = times[gone + n + i] + skew
  <2>1. n + i \in 1 .. Len(queue) /\ gone + (n + i) = gone + n + i
    BY <1>3, <1>4
  <2> QED BY <1>1, <1>3, <2>1
<1>7. gone + n \in Nat /\ Len(times) = gone + n + Len(rest)
  BY <1>1, <1>3, <1>4
<1>8. EndOf(rest, times, skew, time)
  BY <1>5, <1>6, <1>7 DEF EndOf
<1> QED BY <1>2, <1>8

\* A call that is admitted is the last of both.
LEMMA Taking ==
  ASSUME NEW queue \in Seq(Int), NEW times \in Seq(Nat), NEW skew \in Int, NEW time \in Nat,
         EndOf(queue, times, skew, time)
  PROVE  EndOf(Append(queue, time + skew), Append(times, time), skew, time)
<1>1. PICK gone \in Nat :
        /\ Len(times) = gone + Len(queue)
        /\ \A i \in 1 .. Len(queue) : queue[i] = times[gone + i] + skew
        /\ \A j \in 1 .. gone : times[j] < time - Window
  BY DEF EndOf
<1>2. PICK longer : longer = Append(queue, time + skew)
  OBVIOUS
<1>3. PICK more : more = Append(times, time)
  OBVIOUS
<1>4. time + skew \in Int /\ Len(queue) \in Nat /\ Len(times) \in Nat
  BY LenProperties
<1>5. /\ Len(longer) = Len(queue) + 1 /\ longer[Len(queue) + 1] = time + skew
      /\ \A i \in 1 .. Len(queue) : longer[i] = queue[i]
  BY <1>2, <1>4, AppendProperties
<1>6. /\ Len(more) = Len(times) + 1 /\ more[Len(times) + 1] = time
      /\ \A i \in 1 .. Len(times) : more[i] = times[i]
  BY <1>3, AppendProperties
<1>7. ASSUME NEW i \in 1 .. Len(longer) PROVE longer[i] = more[gone + i] + skew
  <2>1. CASE i \in 1 .. Len(queue)
    <3>1. gone + i \in 1 .. Len(times)
      BY <1>1, <1>4, <2>1
    <3> QED BY <1>1, <1>5, <1>6, <2>1, <3>1
  <2>2. CASE i = Len(queue) + 1
    <3>1. gone + i = Len(times) + 1
      BY <1>1, <1>4, <2>2
    <3> QED BY <1>5, <1>6, <2>2, <3>1
  <2> QED BY <1>4, <1>5, <2>1, <2>2
<1>8. \A j \in 1 .. gone : more[j] < time - Window
  <2> TAKE j \in 1 .. gone
  <2>1. j \in 1 .. Len(times)
    BY <1>1, <1>4
  <2> QED BY <1>1, <1>6, <2>1
<1>9. Len(more) = gone + Len(longer)
  BY <1>1, <1>4, <1>5, <1>6
<1>10. EndOf(longer, more, skew, time)
  BY <1>7, <1>8, <1>9 DEF EndOf
<1> QED BY <1>2, <1>3, <1>10

\* So the budget holds where it takes what the deque is too short to refuse.
LEMMA QueueBudget ==
  ASSUME NEW queue \in Seq(Int), NEW times \in Seq(Nat), NEW skew \in Int, NEW time \in Nat,
         EndOf(queue, times, skew, time), Len(queue) < Limit,
         \A i \in DOMAIN times : times[i] <= time,
         \A i \in DOMAIN times : Cardinality(InWindow(times, i)) <= Limit
  PROVE  \A i \in DOMAIN Append(times, time) : Cardinality(InWindow(Append(times, time), i)) <= Limit
<1>1. PICK gone \in Nat :
        /\ Len(times) = gone + Len(queue)
        /\ \A j \in 1 .. gone : times[j] < time - Window
  BY DEF EndOf
<1>2. gone \in 0 .. Len(times) /\ Len(times) - gone < Limit
  BY <1>1, LenProperties
<1> QED BY <1>1, <1>2, QueueWindow

LEMMA TryTakeKeeps ==
  ASSUME RequestInv, NEW r \in Requests, TryTake(r)
  PROVE  RequestInv'
<1>1. PICK h \in Hosts : h = host[r] /\ Clock(r) = now + Skew[h] /\ Here(r) = h
  BY DEF RequestInv, Served, TryTake, Clock, Here, Place
<1>2. PICK queue : queue = bucket[h]
  OBVIOUS
<1>3. PICK times : times = admitted[h]
  OBVIOUS
<1>4. PICK n \in 0 .. Len(queue) :
        /\ Popped(queue, n, Clock(r) - Window)
        /\ LET rest == SubSeq(queue, n + 1, Len(queue))
           IN  /\ bucket' = [bucket EXCEPT ![h] = IF Len(rest) < Limit THEN Append(rest, Clock(r)) ELSE rest]
               /\ Charged(r, Len(rest) < Limit)
  BY <1>1, <1>2 DEF TryTake
<1>5. PICK rest : rest = SubSeq(queue, n + 1, Len(queue))
  OBVIOUS
<1>6. /\ bucket' = [bucket EXCEPT ![h] = IF Len(rest) < Limit THEN Append(rest, now + Skew[h]) ELSE rest]
      /\ Charged(r, Len(rest) < Limit)
  BY <1>1, <1>4, <1>5
<1>7. (Len(rest) < Limit) \in BOOLEAN /\ where[r] = "budget" /\ stamps' = stamps /\ touched' = touched
  BY DEF TryTake
<1>8. /\ now \in Nat /\ now' = now /\ h \in Places /\ h # "redis"
      /\ admitted' \in [Places -> Seq(Nat)] /\ Served' /\ StoreInv'
      /\ where' \in [Requests -> {"new", "budget", "lookup", "run", "record", "done"}]
  BY <1>1, <1>6, <1>7, ChargedTyped, RequestAssumption DEF RequestInv, RequestSettings, Places
<1>9. Limit \in Nat \ {0} /\ Window \in Nat /\ Skew[h] \in Int
  BY RequestAssumption DEF RequestSettings
<1>10. /\ queue \in Seq(Int) /\ Len(queue) \in Nat /\ Len(queue) <= Limit
       /\ times \in Seq(Nat) /\ DOMAIN times = 1 .. Len(times)
       /\ InOrder(admitted[h]) /\ EndOf(queue, times, Skew[h], now)
       /\ \A i \in DOMAIN times : Cardinality(InWindow(times, i)) <= Limit
  BY <1>1, <1>2, <1>3, <1>8, LenProperties
     DEF RequestInv, RequestTyped, LimiterInv, QueueIsEnd, BudgetHolds, Calls
<1>11. /\ rest \in Seq(Int) /\ Len(rest) = Len(queue) - n
       /\ EndOf(rest, times, Skew[h], now)
  <2>1. \A i \in 1 .. n : queue[i] < now + Skew[h] - Window
    <3>1. \A i \in 1 .. n : queue[i] < Clock(r) - Window
      BY <1>4, Zenon DEF Popped
    <3> QED BY <1>1, <1>8, <1>9, <3>1
  <2> QED BY <1>5, <1>8, <1>9, <1>10, <2>1, Shortened, Popping
<1>12. Len(rest) \in Nat /\ Len(rest) <= Limit
  BY <1>10, <1>11, LenProperties, <1>9
<1>13. /\ \A p \in Places \ {h} : admitted'[p] = admitted[p]
       /\ \A g \in Hosts \ {h} : bucket'[g] = bucket[g]
       /\ bucket'[h] = IF Len(rest) < Limit THEN Append(rest, now + Skew[h]) ELSE rest
       /\ admitted'[h] = IF Len(rest) < Limit THEN Append(times, now) ELSE times
       /\ bucket' \in [Hosts -> Seq(Int)]
  <2>1. Append(rest, now + Skew[h]) \in Seq(Int)
    BY <1>8, <1>9, <1>11, AppendProperties
  <2>2. bucket \in [Hosts -> Seq(Int)] /\ admitted \in [Places -> Seq(Nat)]
    BY DEF RequestInv, RequestTyped
  <2>3. admitted' = IF Len(rest) < Limit THEN [admitted EXCEPT ![h] = Append(times, now)] ELSE admitted
    BY <1>1, <1>3, <1>6 DEF Charged
  <2>4. /\ \A p \in Places \ {h} : admitted'[p] = admitted[p]
        /\ admitted'[h] = IF Len(rest) < Limit THEN Append(times, now) ELSE times
    BY <1>3, <1>8, <2>2, <2>3
  <2> QED BY <1>6, <1>11, <2>1, <2>2, <2>4
<1>14. /\ Len(bucket'[h]) <= Limit /\ EndOf(bucket'[h], admitted'[h], Skew[h], now)
       /\ InOrder(admitted[h])'
       /\ \A i \in DOMAIN admitted'[h] : Cardinality(InWindow(admitted'[h], i)) <= Limit
  <2>1. CASE Len(rest) < Limit
    <3>1. bucket'[h] = Append(rest, now + Skew[h]) /\ admitted'[h] = Append(times, now)
      BY <1>13, <2>1
    <3>2. Len(Append(rest, now + Skew[h])) <= Limit
      BY <1>8, <1>9, <1>11, <1>12, <2>1, AppendProperties
    <3>3. EndOf(Append(rest, now + Skew[h]), Append(times, now), Skew[h], now)
      BY <1>8, <1>9, <1>10, <1>11, Taking
    <3>4. \A i \in DOMAIN times : times[i] <= now
      BY <1>3, <1>10 DEF InOrder
    <3>5. \A i \in DOMAIN Append(times, now) : Cardinality(InWindow(Append(times, now), i)) <= Limit
      BY <1>8, <1>9, <1>10, <1>11, <2>1, <3>4, QueueBudget
    <3>6. InOrder(admitted[h])'
      BY <1>3, <1>8, <1>10, <3>1, NowIsLast DEF RequestInv
    <3> QED BY <3>1, <3>2, <3>3, <3>5, <3>6
  <2>2. CASE ~(Len(rest) < Limit)
    <3>1. bucket'[h] = rest /\ admitted'[h] = times
      BY <1>13, <2>2
    <3>2. InOrder(admitted[h])'
      BY <1>3, <1>8, <1>10, <3>1 DEF InOrder
    <3> QED BY <1>10, <1>11, <1>12, <3>1, <3>2
  <2> QED BY <2>1, <2>2
<1>15. ASSUME NEW p \in Places PROVE InOrder(admitted[p])' /\ (p \in Hosts => QueueIsEnd(p)')
  <2>1. CASE p = h
    BY <1>8, <1>14, <2>1 DEF QueueIsEnd
  <2>2. CASE p # h
    <3>1. admitted'[p] = admitted[p] /\ (p \in Hosts => bucket'[p] = bucket[p])
      BY <1>13, <2>2
    <3> QED BY <1>8, <3>1, OtherPlaces DEF RequestInv, LimiterInv
  <2> QED BY <2>1, <2>2
<1>16. SetIsWindow'
  <2>1. "redis" \in Places /\ admitted'["redis"] = admitted["redis"]
    BY <1>8, <1>13 DEF Places
  <2> QED BY <1>7, <1>8, <2>1 DEF RequestInv, LimiterInv, SetIsWindow
<1>17. BudgetHolds'
  <2>1. ASSUME NEW p \in Places, p \in Hosts \/ SameClock, NEW i \in DOMAIN admitted'[p]
        PROVE  Cardinality(Calls(p, i)') <= Limit
    <3>1. CASE p = h
      BY <1>8, <1>14, <2>1, <3>1 DEF Calls
    <3>2. CASE p # h
      <4>1. admitted'[p] = admitted[p]
        BY <1>13, <3>2
      <4> QED BY <1>8, <2>1, <4>1, OtherPlaces DEF RequestInv, LimiterInv, BudgetHolds
    <3> QED BY <3>1, <3>2
  <2> QED BY <2>1 DEF BudgetHolds
<1>18. RequestTyped'
  <2>1. \A g \in Hosts : Len(bucket'[g]) <= Limit
    BY <1>13, <1>14 DEF RequestInv, RequestTyped
  <2>2. UNCHANGED <<backend, now, token, dropping, replays, host, key, ran, answer, faults, recorded, missed>>
    BY <1>6 DEF Charged
  <2> QED BY <1>7, <1>8, <1>13, <2>1, <2>2 DEF RequestInv, RequestTyped
<1> QED BY <1>8, <1>15, <1>16, <1>17, <1>18 DEF RequestInv, LimiterInv, Places

LEMMA RunScriptKeeps ==
  ASSUME RequestInv, NEW r \in Requests, RunScript(r)
  PROVE  RequestInv'
<1>1. PICK recent : recent = {stamp \in stamps : stamp > Clock(r) - Window /\ now - touched <= Window}
  OBVIOUS
<1>2. PICK times : times = admitted["redis"]
  OBVIOUS
<1>3. /\ Charged(r, Cardinality(recent) < Limit)
      /\ stamps' = IF Cardinality(recent) < Limit THEN recent \cup {Clock(r)} ELSE recent
      /\ touched' = IF Cardinality(recent) < Limit THEN now ELSE touched
  <2>1. IF Cardinality(recent) < Limit
          THEN stamps' = recent \cup {Clock(r)} /\ touched' = now /\ Charged(r, TRUE)
          ELSE stamps' = recent /\ UNCHANGED touched /\ Charged(r, FALSE)
    BY <1>1, Zenon DEF RunScript
  <2>2. CASE Cardinality(recent) < Limit
    BY <2>1, <2>2 DEF Charged
  <2>3. CASE ~(Cardinality(recent) < Limit)
    BY <2>1, <2>3 DEF Charged
  <2> QED BY <2>2, <2>3
<1>4. (Cardinality(recent) < Limit) \in BOOLEAN /\ where[r] = "budget" /\ bucket' = bucket
      /\ Here(r) = "redis"
  BY DEF RunScript, Here, Place
<1>5. /\ now \in Nat /\ now' = now /\ Clock(r) \in Int /\ host[r] \in Hosts /\ "redis" \in Places
      /\ admitted' \in [Places -> Seq(Nat)] /\ Served' /\ StoreInv'
      /\ where' \in [Requests -> {"new", "budget", "lookup", "run", "record", "done"}]
  BY <1>3, <1>4, ChargedTyped DEF RequestInv, Places
<1>6. /\ Limit \in Nat \ {0} /\ Window \in Nat /\ "redis" \notin Hosts
      /\ Skew[host[r]] \in Int /\ Clock(r) = now + Skew[host[r]]
  BY <1>5, RequestAssumption DEF RequestSettings, Clock
<1>7. /\ stamps \subseteq Int /\ IsFiniteSet(stamps) /\ touched \in Nat /\ touched <= now
      /\ times \in Seq(Nat) /\ DOMAIN times = 1 .. Len(times) /\ Len(times) \in Nat
      /\ \A j \in DOMAIN times : times[j] \in Nat
  BY <1>2, <1>5, LenProperties, ElementOfSeq DEF RequestInv, RequestTyped
<1>8. /\ recent \subseteq Int /\ IsFiniteSet(recent)
      /\ IsFiniteSet(recent \cup {Clock(r)}) /\ recent \cup {Clock(r)} \subseteq Int
  <2>1. recent \subseteq stamps
    BY <1>1
  <2> QED BY <1>5, <1>7, <2>1, FS_Subset, FS_AddElement
<1>9. /\ \A p \in Places \ {"redis"} : admitted'[p] = admitted[p]
      /\ admitted'["redis"] = IF Cardinality(recent) < Limit THEN Append(times, now) ELSE times
  BY <1>2, <1>3, <1>4, <1>5 DEF Charged, RequestInv, RequestTyped
<1>10. ASSUME SameClock, NEW j \in DOMAIN times, times[j] > now - Window, NEW h \in Hosts
       PROVE  times[j] + Skew[h] \in recent
  <2>1. Skew[h] = Skew[host[r]]
    BY <1>5, <1>10 DEF SameClock
  <2>2. times[j] + Skew[h] \in stamps /\ times[j] <= touched
    BY <1>2, <1>10 DEF RequestInv, LimiterInv, SetIsWindow
  <2>3. times[j] + Skew[h] > Clock(r) - Window /\ now - touched <= Window
    BY <1>5, <1>6, <1>7, <1>10, <2>1, <2>2
  <2> QED BY <1>1, <2>2, <2>3
<1>11. SetIsWindow'
  <2>1. CASE Cardinality(recent) < Limit
    <3>1. stamps' = recent \cup {Clock(r)} /\ touched' = now /\ admitted'["redis"] = Append(times, now)
      BY <1>3, <1>9, <2>1
    <3>2. PICK more : more = Append(times, now)
      OBVIOUS
    <3>3. /\ DOMAIN more = 1 .. Len(times) + 1 /\ more[Len(times) + 1] = now
          /\ \A i \in 1 .. Len(times) : more[i] = times[i]
      BY <1>5, <1>7, <3>2, AppendProperties, LenProperties
    <3>4. ASSUME NEW j \in 1 .. Len(times) + 1
          PROVE  /\ more[j] <= now
                 /\ \A h \in Hosts : SameClock /\ more[j] > now - Window => more[j] + Skew[h] \in stamps'
      <4>1. CASE j = Len(times) + 1
        <5>1. \A h \in Hosts : SameClock => now + Skew[h] = Clock(r)
          BY <1>5, <1>6 DEF SameClock
        <5> QED BY <1>5, <3>1, <3>3, <4>1, <5>1
      <4>2. CASE j \in 1 .. Len(times)
        <5>1. more[j] = times[j] /\ times[j] <= touched
          BY <1>2, <1>7, <3>3, <4>2 DEF RequestInv, LimiterInv, SetIsWindow
        <5>2. more[j] <= now
          BY <1>5, <1>7, <4>2, <5>1
        <5>3. j \in DOMAIN times
          BY <1>7, <4>2
        <5> QED BY <1>10, <3>1, <5>1, <5>2, <5>3
      <4> QED BY <1>7, <4>1, <4>2
    <3> QED BY <1>5, <3>1, <3>2, <3>3, <3>4 DEF SetIsWindow
  <2>2. CASE ~(Cardinality(recent) < Limit)
    <3>1. stamps' = recent /\ touched' = touched /\ admitted'["redis"] = times
      BY <1>3, <1>9, <2>2
    <3> QED BY <1>2, <1>5, <1>10, <3>1 DEF RequestInv, LimiterInv, SetIsWindow
  <2> QED BY <2>1, <2>2
<1>12. InOrder(admitted["redis"])'
  <2>1. InOrder(admitted["redis"])
    BY <1>5 DEF RequestInv, LimiterInv
  <2>2. CASE Cardinality(recent) < Limit
    BY <1>2, <1>5, <1>9, <2>1, <2>2, NowIsLast DEF RequestInv
  <2>3. CASE ~(Cardinality(recent) < Limit)
    BY <1>2, <1>5, <1>9, <2>1, <2>3 DEF InOrder
  <2> QED BY <2>2, <2>3
<1>13. ASSUME SameClock, NEW i \in DOMAIN admitted'["redis"]
       PROVE  Cardinality(Calls("redis", i)') <= Limit
  <2>1. \A k \in DOMAIN times : Cardinality({times[j] : j \in InWindow(times, k)}) <= Limit
    BY <1>2, <1>5, <1>13 DEF RequestInv, LimiterInv, BudgetHolds, Calls
  <2>2. CASE Cardinality(recent) < Limit
    <3>1. \A j \in DOMAIN times : times[j] > now - Window => times[j] + Skew[host[r]] \in recent
      BY <1>5, <1>10, <1>13
    <3>2. \A k, j \in DOMAIN times : times[k] <= now /\ (k <= j => times[k] <= times[j])
      BY <1>2, <1>5 DEF RequestInv, LimiterInv, InOrder
    <3>3. \A k \in DOMAIN Append(times, now) :
            Cardinality({Append(times, now)[j] : j \in InWindow(Append(times, now), k)}) <= Limit
      BY <1>5, <1>6, <1>7, <1>8, <2>1, <2>2, <3>1, <3>2, SetWindow
    <3> QED BY <1>9, <1>13, <2>2, <3>3 DEF Calls
  <2>3. CASE ~(Cardinality(recent) < Limit)
    BY <1>9, <1>13, <2>1, <2>3 DEF Calls
  <2> QED BY <2>2, <2>3
<1>14. ASSUME NEW p \in Hosts
       PROVE  /\ InOrder(admitted[p])' /\ QueueIsEnd(p)'
              /\ \A i \in DOMAIN admitted'[p] : Cardinality(Calls(p, i)') <= Limit
  <2>1. admitted'[p] = admitted[p] /\ p \in Places
    BY <1>6, <1>9 DEF Places
  <2>2. bucket'[p] = bucket[p]
    BY <1>4
  <2> QED BY <1>5, <2>1, <2>2, OtherPlaces DEF RequestInv, LimiterInv, BudgetHolds
<1>15. BudgetHolds'
  BY <1>13, <1>14 DEF BudgetHolds, Places, SameClock
<1>16. RequestTyped'
  <2>1. stamps' \subseteq Int /\ IsFiniteSet(stamps') /\ touched' \in 0 .. now'
    BY <1>3, <1>5, <1>7, <1>8
  <2>2. UNCHANGED <<backend, now, token, dropping, replays, host, key, ran, answer, faults, recorded, missed>>
    BY <1>3 DEF Charged
  <2> QED BY <1>4, <1>5, <2>1, <2>2 DEF RequestInv, RequestTyped
<1> QED BY <1>5, <1>11, <1>12, <1>14, <1>15, <1>16 DEF RequestInv, LimiterInv, Places

-----------------------------------------------------------------------------
(* The store of the responses.                                               *)

\* The slot of a key is the one with that key.
LEMMA SlotOf ==
  ASSUME NEW slots, NEW k
  PROVE  /\ (\E i \in DOMAIN slots : slots[i].key = k) =>
              Slot(slots, k) \in DOMAIN slots /\ slots[Slot(slots, k)].key = k
         /\ ~ (\E i \in DOMAIN slots : slots[i].key = k) => Slot(slots, k) = 0
<1>1. CASE \E i \in DOMAIN slots : slots[i].key = k
  <2>1. Slot(slots, k) = CHOOSE i \in DOMAIN slots : slots[i].key = k
    BY <1>1 DEF Slot
  <2> QED BY <1>1, <2>1, Zenon
<1>2. CASE ~ \E i \in DOMAIN slots : slots[i].key = k
  BY <1>2 DEF Slot
<1> QED BY <1>1, <1>2

\* Making room takes at most the first slot, and makes room.
LEMMA RoomShifts ==
  ASSUME RequestTyped, NEW p \in Places
  PROVE  \E gone \in {0, 1} :
           /\ Room(p) \in Seq(Entry) /\ Len(Room(p)) = Len(replays[p]) - gone
           /\ \A i \in 1 .. Len(Room(p)) : Room(p)[i] = replays[p][i + gone]
           /\ p \in Hosts => Len(Room(p)) < Cap
<1>1. PICK slots : slots = replays[p]
  OBVIOUS
<1>2. /\ slots \in Seq(Entry) /\ Len(slots) \in Nat /\ (p \in Hosts => Len(slots) <= Cap /\ p # "redis")
      /\ Cap \in Nat \ {0}
  BY <1>1, LenProperties, RequestAssumption DEF RequestTyped, RequestSettings
<1>3. CASE p # "redis" /\ Len(slots) >= Cap
  <2>1. PICK rest : rest = Tail(slots)
    OBVIOUS
  <2>2. slots # <<>>
    BY <1>2, <1>3
  <2>3. /\ rest \in Seq(Entry) /\ Len(rest) = Len(slots) - 1
        /\ \A i \in 1 .. Len(rest) : rest[i] = slots[i + 1]
    BY <1>2, <2>1, <2>2, HeadTailProperties
  <2>4. Room(p) = rest
    BY <1>1, <1>3, <2>1 DEF Room
  <2> QED BY <1>1, <1>2, <2>3, <2>4
<1>4. CASE ~(p # "redis" /\ Len(slots) >= Cap)
  <2>1. Room(p) = slots
    BY <1>1, <1>4 DEF Room
  <2>2. \A i \in 1 .. Len(slots) : i + 0 = i
    BY <1>2
  <2> QED BY <1>1, <1>2, <1>4, <2>1, <2>2
<1> QED BY <1>3, <1>4

\* An entry takes the slot of its key, or a new one at the end.
Takes(new, slots, entry) ==
  /\ new \in Seq(Entry) /\ Len(new) <= Len(slots) + 1
  /\ \A i \in DOMAIN slots :
       i \in DOMAIN new /\ (new[i] = slots[i] \/ (new[i] = entry /\ slots[i].key = entry.key))
  /\ \E k \in DOMAIN new :
       /\ new[k] = entry
       /\ \A i \in DOMAIN new : i # k => i \in DOMAIN slots /\ new[i] = slots[i]
       /\ k \in DOMAIN slots \/ \A i \in DOMAIN slots : slots[i].key # entry.key

LEMMA StoredAt ==
  ASSUME NEW slots \in Seq(Entry), NEW entry \in Entry
  PROVE  Takes(Stored(slots, entry), slots, entry)
<1>1. PICK new : new = Stored(slots, entry)
  OBVIOUS
<1> SUFFICES Takes(new, slots, entry)
  BY <1>1
<1>2. /\ Len(slots) \in Nat /\ DOMAIN slots = 1 .. Len(slots)
      /\ \A i \in 1 .. Len(slots) : slots[i] \in Entry
  BY LenProperties, ElementOfSeq
<1>3. CASE Slot(slots, entry.key) = 0
  <2>1. \A i \in DOMAIN slots : slots[i].key # entry.key
    <3>1. 0 \notin DOMAIN slots
      BY <1>2
    <3> QED BY <1>3, <3>1, SlotOf
  <2>2. new = Append(slots, entry)
    BY <1>1, <1>3 DEF Stored
  <2>3. /\ new \in Seq(Entry) /\ Len(new) = Len(slots) + 1 /\ DOMAIN new = 1 .. Len(slots) + 1
        /\ new[Len(slots) + 1] = entry /\ \A i \in 1 .. Len(slots) : new[i] = slots[i]
    BY <1>2, <2>2, AppendProperties, LenProperties
  <2>4. Len(slots) + 1 \in DOMAIN new /\ \A i \in DOMAIN new : i # Len(slots) + 1 => i \in DOMAIN slots
    BY <1>2, <2>3
  <2>5. Len(new) <= Len(slots) + 1 /\ \A i \in DOMAIN slots : i \in DOMAIN new
    BY <1>2, <2>3
  <2>6. \A i \in DOMAIN slots : i \in DOMAIN new /\ new[i] = slots[i]
    BY <1>2, <2>3, <2>5
  <2>7. \E k \in DOMAIN new :
          /\ new[k] = entry
          /\ \A i \in DOMAIN new : i # k => i \in DOMAIN slots /\ new[i] = slots[i]
          /\ k \in DOMAIN slots \/ \A i \in DOMAIN slots : slots[i].key # entry.key
    BY <2>1, <2>3, <2>4, <2>6
  <2>8. new \in Seq(Entry) /\ Len(new) <= Len(slots) + 1
    BY <2>3, <2>5
  <2> QED BY <2>6, <2>7, <2>8, Zenon DEF Takes
<1>4. CASE Slot(slots, entry.key) # 0
  <2>1. PICK k : k = Slot(slots, entry.key)
    OBVIOUS
  <2>2. k \in DOMAIN slots /\ slots[k].key = entry.key
    BY <1>4, <2>1, SlotOf
  <2>3. new = [slots EXCEPT ![k] = entry]
    BY <1>1, <1>4, <2>1 DEF Stored
  <2>4. /\ new \in Seq(Entry) /\ Len(new) = Len(slots) /\ DOMAIN new = DOMAIN slots
        /\ new[k] = entry /\ \A i \in DOMAIN slots : i # k => new[i] = slots[i]
    BY <1>2, <2>2, <2>3, ExceptSeq
  <2>5. \A i \in DOMAIN slots :
          i \in DOMAIN new /\ (new[i] = slots[i] \/ (new[i] = entry /\ slots[i].key = entry.key))
    <3> TAKE i \in DOMAIN slots
    <3>1. CASE i = k
      BY <2>2, <2>4, <3>1, Zenon
    <3>2. CASE i # k
      <4>1. new[i] = slots[i]
        BY <2>4, <3>2
      <4>2. i \in DOMAIN new
        BY <2>4
      <4> QED BY <4>1, <4>2
    <3> QED BY <3>1, <3>2
  <2>6. \E j \in DOMAIN new :
          /\ new[j] = entry
          /\ \A i \in DOMAIN new : i # j => i \in DOMAIN slots /\ new[i] = slots[i]
          /\ j \in DOMAIN slots \/ \A i \in DOMAIN slots : slots[i].key # entry.key
    BY <2>2, <2>4
  <2>7. Len(new) <= Len(slots) + 1
    BY <1>2, <2>4
  <2> QED BY <2>4, <2>5, <2>6, <2>7, Zenon DEF Takes
<1> QED BY <1>3, <1>4

\* What an arrived request asks is its host's store, or Redis.
LEMMA Placed ==
  ASSUME RequestTyped, Served, NEW r \in Requests, where[r] # "new"
  PROVE  host[r] \in Hosts /\ Here(r) \in Places /\ (backend = "redis" => Here(r) = "redis")
BY DEF RequestTyped, Served, Here, Place, Places

\* A request that looks is given the response, if there is one on record.
LEMMA LookupKeeps ==
  ASSUME RequestInv, NEW r \in Requests, Lookup(r)
  PROVE  RequestInv'
<1>1. PICK slots : slots = replays[Here(r)]
  OBVIOUS
<1>2. PICK i : i = Slot(slots, key[r])
  OBVIOUS
<1>3. /\ where[r] = "lookup"
      /\ UNCHANGED <<backend, now, token, dropping, limiter, replays, host, key, ran, faults, recorded>>
      /\ IF i # 0 /\ slots[i].until > now
           THEN RequestAt(r, "done") /\ answer' = [answer EXCEPT ![r] = slots[i].by] /\ UNCHANGED missed
           ELSE /\ RequestAt(r, "run") /\ UNCHANGED answer
                /\ missed' = [missed EXCEPT ![r] =
                     {q \in Requests : /\ recorded[q] # None /\ recorded[q] + TimeToLive > now
                                     /\ Here(q) = Here(r) /\ key[q] = key[r]}]
  BY <1>1, <1>2, Zenon DEF Lookup
<1>4. RequestTyped /\ Served /\ LimiterInv /\ StoreInv
  BY DEF RequestInv
<1>5. /\ Here(r) \in Places /\ slots \in Seq(Entry) /\ DOMAIN slots = 1 .. Len(slots)
      /\ Len(slots) \in Nat /\ \A j \in DOMAIN slots : slots[j] \in Entry
  BY <1>1, <1>3, <1>4, Placed, LenProperties, ElementOfSeq DEF RequestTyped
<1>6. SlotsSound(Here(r))
  BY <1>4, <1>5 DEF StoreInv
<1>7. CASE i # 0 /\ slots[i].until > now
  <2>1. RequestAt(r, "done") /\ answer' = [answer EXCEPT ![r] = slots[i].by] /\ missed' = missed
    BY <1>3, <1>7
  <2>2. i \in DOMAIN slots /\ slots[i].key = key[r]
    BY <1>2, <1>7, SlotOf
  <2>3. slots[i].by \in ran /\ key[slots[i].by] = key[r] /\ slots[i].by \in Requests
    BY <1>1, <1>4, <1>6, <2>2 DEF SlotsSound, RequestTyped
  <2>4. answer' \in [Requests -> Requests \cup {None}]
    BY <1>4, <2>1, <2>3 DEF RequestTyped
  <2>5. where' \in [Requests -> {"new", "budget", "lookup", "run", "record", "done"}]
    BY <1>4, <2>1 DEF RequestTyped, RequestAt
  <2>6. RequestTyped'
    BY <1>3, <1>4, <2>1, <2>4, <2>5 DEF RequestTyped, limiter
  <2>7. Served'
    BY <1>3, <1>4, <2>1 DEF Served, RequestAt, RequestTyped
  <2>8. RetriesRunOnce'
    <3>1. \A q \in Requests : answer'[q] # None => answer'[q] \in ran /\ key[answer'[q]] = key[q]
      BY <1>4, <2>1, <2>3 DEF StoreInv, RetriesRunOnce, RequestTyped
    <3> QED BY <1>3, <1>4, <2>1, <3>1 DEF StoreInv, RetriesRunOnce
  <2>9. LimiterInv'
    BY <1>3, <1>4, LimiterQuiet, RequestAssumption DEF RequestTyped, RequestSettings
  <2>10. StoreInv'
    BY <1>3, <1>4, <2>8 DEF StoreInv, SlotsSound, OnRecord, Here, Place
  <2> QED BY <2>6, <2>7, <2>9, <2>10 DEF RequestInv
<1>8. CASE ~(i # 0 /\ slots[i].until > now)
  <2>1. /\ RequestAt(r, "run") /\ answer' = answer
        /\ missed' = [missed EXCEPT ![r] =
             {q \in Requests : /\ recorded[q] # None /\ recorded[q] + TimeToLive > now
                             /\ Here(q) = Here(r) /\ key[q] = key[r]}]
    BY <1>3, <1>8
  <2>2. ASSUME NEW q \in Requests, recorded[q] # None, recorded[q] + TimeToLive > now,
               Here(q) = Here(r), key[q] = key[r]
        PROVE  FALSE
    <3>1. PICK j \in DOMAIN slots : slots[j].key = key[r] /\ slots[j].until >= recorded[q] + TimeToLive
      BY <1>1, <1>4, <2>2 DEF StoreInv, OnRecord
    <3>2. i \in DOMAIN slots /\ slots[i].key = key[r]
      BY <1>2, <3>1, SlotOf
    <3>3. i = j /\ i # 0
      BY <1>1, <1>5, <1>6, <3>1, <3>2 DEF SlotsSound
    <3>4. slots[j].until \in Nat /\ recorded[q] \in Nat /\ TimeToLive \in Nat /\ now \in Nat
      BY <1>4, <1>5, <2>2, <3>1, RequestAssumption DEF RequestTyped, RequestSettings, Entry
    <3> QED BY <1>8, <2>2, <3>1, <3>3, <3>4
  <2>3. missed' = [missed EXCEPT ![r] = {}]
    BY <2>1, <2>2
  <2>4. missed' \in [Requests -> SUBSET Requests] /\ \A q \in Requests : missed'[q] = {}
    BY <1>4, <2>3 DEF RequestTyped, StoreInv, RetriesRunOnce
  <2>5. where' \in [Requests -> {"new", "budget", "lookup", "run", "record", "done"}]
    BY <1>4, <2>1 DEF RequestTyped, RequestAt
  <2>6. RequestTyped'
    BY <1>3, <1>4, <2>1, <2>4, <2>5 DEF RequestTyped, limiter
  <2>7. Served'
    BY <1>3, <1>4, <2>1 DEF Served, RequestAt, RequestTyped
  <2>8. RetriesRunOnce'
    BY <1>3, <1>4, <2>1, <2>4 DEF StoreInv, RetriesRunOnce
  <2>9. LimiterInv'
    BY <1>3, <1>4, LimiterQuiet, RequestAssumption DEF RequestTyped, RequestSettings
  <2>10. StoreInv'
    BY <1>3, <1>4, <2>8 DEF StoreInv, SlotsSound, OnRecord, Here, Place
  <2> QED BY <2>6, <2>7, <2>9, <2>10 DEF RequestInv
<1> QED BY <1>7, <1>8

\* A step of a request, or of time, that touches neither limiter nor store.
LEMMA QuietStep ==
  ASSUME RequestInv, now' \in Nat, now <= now',
         UNCHANGED <<backend, limiter, replays, key, answer, recorded, missed>>, ran \subseteq ran',
         \A q \in Requests : where[q] # "new" => host'[q] = host[q],
         RequestTyped', Served'
  PROVE  RequestInv'
<1>1. LimiterInv'
  <2>1. now' >= now
    BY RequestAssumption DEF RequestInv, RequestTyped, RequestSettings
  <2> QED BY <2>1, LimiterQuiet DEF RequestInv
<1>2. StoreInv'
  <2>1. \A q \in Requests : recorded[q] # None => host'[q] = host[q]
    BY DEF RequestInv, Served
  <2> QED BY <2>1, StoreQuiet DEF RequestInv
<1> QED BY <1>1, <1>2 DEF RequestInv

LEMMA QuietKeeps ==
  ASSUME RequestInv,
         \/ \E r \in Requests : Arrive(r) \/ Run(r) \/ RequestDies(r)
         \/ Revoke \/ Tick
  PROVE  RequestInv'
<1>1. RequestTyped /\ Served /\ now \in Nat /\ MaxTime \in Nat /\ MaxFaults \in Nat
  BY RequestAssumption DEF RequestInv, RequestTyped, RequestSettings
<1>2. ASSUME NEW r \in Requests, Arrive(r) PROVE RequestInv'
  <2>1. PICK h \in Hosts : host' = [host EXCEPT ![r] = h]
    BY <1>2 DEF Arrive
  <2>2. host' \in [Requests -> Hosts \cup {None}] /\ host'[r] \in Hosts
        /\ \A q \in Requests : q # r => host'[q] = host[q]
    BY <1>1, <2>1 DEF RequestTyped
  <2>3. where[r] = "new" /\ \E at \in {"budget", "done"} : where' = [where EXCEPT ![r] = at]
    BY <1>2 DEF Arrive, RequestAt
  <2>4. RequestTyped'
    BY <1>1, <1>2, <2>2, <2>3 DEF Arrive, RequestTyped, limiter
  <2>5. Served'
    BY <1>1, <1>2, <2>2, <2>3 DEF Arrive, RequestTyped, Served
  <2>6. \A q \in Requests : where[q] # "new" => host'[q] = host[q]
    BY <2>2, <2>3
  <2>7. now' \in Nat /\ now <= now' /\ ran \subseteq ran'
    BY <1>1, <1>2 DEF Arrive
  <2> QED BY <1>2, <2>4, <2>5, <2>6, <2>7, QuietStep DEF Arrive
<1>3. ASSUME NEW r \in Requests, Run(r) PROVE RequestInv'
  <2>1. \E at \in {"record", "done"} : where' = [where EXCEPT ![r] = at] /\ (at = "record" => r \in ran')
    BY <1>3 DEF Run, RequestAt
  <2>2. ran \subseteq ran' /\ ran' \subseteq Requests /\ where[r] = "run"
    BY <1>1, <1>3 DEF Run, RequestTyped
  <2>3. RequestTyped'
    BY <1>1, <1>3, <2>1, <2>2 DEF Run, RequestTyped, limiter
  <2>4. Served'
    BY <1>1, <1>3, <2>1, <2>2 DEF Run, RequestTyped, Served
  <2>5. now' \in Nat /\ now <= now'
    BY <1>1, <1>3 DEF Run
  <2> QED BY <1>3, <2>2, <2>3, <2>4, <2>5, QuietStep DEF Run
<1>4. ASSUME NEW r \in Requests, RequestDies(r) PROVE RequestInv'
  <2>1. RequestTyped'
    BY <1>1, <1>4 DEF RequestDies, RequestAt, RequestTyped, limiter
  <2>2. Served'
    BY <1>1, <1>4 DEF RequestDies, RequestAt, RequestTyped, Served
  <2>3. now' \in Nat /\ now <= now' /\ ran \subseteq ran'
    BY <1>1, <1>4 DEF RequestDies
  <2> QED BY <1>4, <2>1, <2>2, <2>3, QuietStep DEF RequestDies
<1>5. CASE Revoke
  <2>1. RequestTyped'
    BY <1>1, <1>5 DEF Revoke, RequestTyped, limiter, request
  <2>2. Served'
    BY <1>1, <1>5 DEF Revoke, Served, request
  <2>3. now' \in Nat /\ now <= now' /\ ran \subseteq ran'
    BY <1>1, <1>5 DEF Revoke, request
  <2> QED BY <1>5, <2>1, <2>2, <2>3, QuietStep DEF Revoke, request
<1>6. CASE Tick
  <2>1. now' \in 0 .. MaxTime /\ now' = now + 1
    BY <1>1, <1>6 DEF Tick
  <2>2. touched \in 0 .. now'
    BY <1>1, <2>1 DEF RequestTyped
  <2>3. RequestTyped'
    BY <1>1, <1>6, <2>1, <2>2 DEF Tick, RequestTyped, limiter, request
  <2>4. Served'
    <3> SUFFICES ASSUME NEW q \in Requests, recorded[q] # None PROVE recorded[q] <= now'
      BY <1>1, <1>6 DEF Tick, Served, request
    <3>1. recorded[q] \in Nat /\ recorded[q] <= now
      BY <1>1 DEF RequestTyped, Served
    <3> QED BY <1>1, <2>1, <3>1
  <2>5. now' \in Nat /\ now <= now' /\ ran \subseteq ran'
    BY <1>1, <1>6, <2>1 DEF Tick, request
  <2> QED BY <1>6, <2>3, <2>4, <2>5, QuietStep DEF Tick, request
<1> QED BY <1>2, <1>3, <1>4, <1>5, <1>6

\* What is forgotten at once is forgotten in both.
LEMMA LimiterReset ==
  ASSUME RequestTyped, LimiterInv, now' = now, touched' = touched,
         \A p \in Places :
           \/ admitted'[p] = <<>> /\ (p \in Hosts => bucket'[p] = <<>>)
           \/ admitted'[p] = admitted[p] /\ (p \in Hosts => bucket'[p] = bucket[p]),
         stamps' = stamps \/ admitted'["redis"] = <<>>
  PROVE  LimiterInv'
<1>2. ASSUME NEW p \in Places
      PROVE  /\ InOrder(admitted[p])' /\ (p \in Hosts => QueueIsEnd(p)')
             /\ p \in Hosts \/ SameClock =>
                  \A i \in DOMAIN admitted'[p] : Cardinality(Calls(p, i)') <= Limit
  <2>1. CASE admitted'[p] = <<>> /\ (p \in Hosts => bucket'[p] = <<>>)
    <3>1. InOrder(admitted[p])' /\ \A i \in DOMAIN admitted'[p] : FALSE
      BY <2>1 DEF InOrder
    <3>2. ASSUME p \in Hosts PROVE QueueIsEnd(p)'
      <4>1. 0 \in Nat /\ Len(<<>>) = 0 + Len(<<>>) /\ 1 .. 0 = {} /\ Len(<<>>) = 0
        OBVIOUS
      <4>2. EndOf(<<>>, <<>>, Skew[p], now)
        BY <4>1 DEF EndOf
      <4> QED BY <2>1, <3>2, <4>2 DEF QueueIsEnd
    <3> QED BY <3>1, <3>2
  <2>2. CASE admitted'[p] = admitted[p] /\ (p \in Hosts => bucket'[p] = bucket[p])
    BY <2>2, OtherPlaces DEF LimiterInv, BudgetHolds
  <2> QED BY <2>1, <2>2
<1>3. SetIsWindow'
  <2>1. "redis" \in Places
    BY DEF Places
  <2>2. CASE admitted'["redis"] = <<>>
    BY <2>2 DEF SetIsWindow
  <2>3. CASE admitted'["redis"] # <<>>
    <3>1. admitted'["redis"] = admitted["redis"] /\ stamps' = stamps
      BY <2>1, <2>3
    <3> QED BY <3>1 DEF LimiterInv, SetIsWindow
  <2> QED BY <2>2, <2>3
<1>4. BudgetHolds'
  BY <1>2 DEF BudgetHolds
<1> QED BY <1>2, <1>3, <1>4 DEF LimiterInv, Places

LEMMA DropBucketKeeps ==
  ASSUME RequestInv, DropBucket
  PROVE  RequestInv'
<1>1. RequestTyped /\ Served /\ LimiterInv /\ StoreInv
  BY DEF RequestInv
<1>2. /\ UNCHANGED <<backend, now, token, touched, replays, request, faults, recorded, missed>>
      /\ dropping' = None /\ dropping \in Hosts
      /\ admitted' = [admitted EXCEPT ![Place(dropping)] = <<>>]
  BY <1>1 DEF DropBucket, RequestTyped
<1>3. CASE backend = "redis"
  <2>1. stamps' = {} /\ bucket' = bucket /\ admitted' = [admitted EXCEPT !["redis"] = <<>>]
    BY <1>2, <1>3 DEF DropBucket, Place
  <2>2. <<>> \in Seq(Nat) /\ "redis" \in Places
    BY DEF Places
  <2>3. /\ admitted' \in [Places -> Seq(Nat)] /\ admitted'["redis"] = <<>>
        /\ \A p \in Places : p # "redis" => admitted'[p] = admitted[p]
    BY <1>1, <2>1, <2>2 DEF RequestTyped
  <2>4. LimiterInv'
    <3>1. \A p \in Places : p \in Hosts => p # "redis"
      BY RequestAssumption DEF RequestSettings
    <3> QED BY <1>1, <1>2, <2>1, <2>3, <3>1, LimiterReset
  <2>5. RequestTyped'
    BY <1>1, <1>2, <2>1, <2>3, FS_EmptySet DEF RequestTyped, request
  <2>6. StoreInv' /\ Served'
    BY <1>1, <1>2, StoreQuiet DEF Served, request
  <2> QED BY <2>4, <2>5, <2>6 DEF RequestInv
<1>4. CASE backend # "redis"
  <2> PICK h \in Hosts : h = dropping
    BY <1>2
  <2>1. stamps' = stamps /\ bucket' = [bucket EXCEPT ![h] = <<>>] /\ admitted' = [admitted EXCEPT ![h] = <<>>]
    BY <1>2, <1>4 DEF DropBucket, Place
  <2>2. <<>> \in Seq(Nat) /\ <<>> \in Seq(Int) /\ Len(<<>>) <= Limit /\ h \in Places
    BY RequestAssumption DEF Places, RequestSettings
  <2>3. /\ admitted' \in [Places -> Seq(Nat)] /\ admitted'[h] = <<>>
        /\ \A p \in Places : p # h => admitted'[p] = admitted[p]
    BY <1>1, <2>1, <2>2 DEF RequestTyped
  <2>4. /\ bucket' \in [Hosts -> Seq(Int)] /\ bucket'[h] = <<>>
        /\ \A p \in Hosts : p # h => bucket'[p] = bucket[p]
    BY <1>1, <2>1, <2>2 DEF RequestTyped
  <2>5. LimiterInv'
    BY <1>1, <1>2, <2>1, <2>3, <2>4, LimiterReset
  <2>6. RequestTyped'
    BY <1>1, <1>2, <2>1, <2>2, <2>3, <2>4 DEF RequestTyped, request
  <2>7. StoreInv' /\ Served'
    BY <1>1, <1>2, StoreQuiet DEF Served, request
  <2> QED BY <2>5, <2>6, <2>7 DEF RequestInv
<1> QED BY <1>3, <1>4

LEMMA RestartKeeps ==
  ASSUME RequestInv, NEW h \in Hosts, Restart(h)
  PROVE  RequestInv'
<1>1. RequestTyped /\ Served /\ LimiterInv /\ StoreInv
  BY DEF RequestInv
<1>2. /\ UNCHANGED <<backend, now, token, stamps, touched, host, key, ran, answer, missed>>
      /\ faults' \in 0 .. MaxFaults /\ dropping' \in Hosts \cup {None}
      /\ bucket' = [bucket EXCEPT ![h] = <<>>] /\ admitted' = [admitted EXCEPT ![h] = <<>>]
      /\ replays' = [replays EXCEPT ![h] = <<>>]
  <2>1. MaxFaults \in Nat /\ faults < MaxFaults /\ faults' = faults + 1
    BY RequestAssumption DEF Restart, RequestSettings
  <2>2. faults' \in 0 .. MaxFaults
    BY <1>1, <2>1 DEF RequestTyped
  <2> QED BY <1>1, <2>2 DEF Restart, RequestTyped
<1>3. /\ where' = [r \in Requests |-> IF host[r] = h THEN "done" ELSE where[r]]
      /\ recorded' = [r \in Requests |-> IF host[r] # None /\ Here(r) = h THEN None ELSE recorded[r]]
  BY DEF Restart
<1>4. /\ <<>> \in Seq(Nat) /\ <<>> \in Seq(Int) /\ <<>> \in Seq(Entry) /\ Len(<<>>) <= Limit /\ Len(<<>>) <= Cap
      /\ h \in Places /\ h # "redis"
  BY RequestAssumption DEF Places, RequestSettings
<1>5. /\ admitted' \in [Places -> Seq(Nat)] /\ admitted'[h] = <<>>
      /\ \A p \in Places : p # h => admitted'[p] = admitted[p]
  BY <1>1, <1>2, <1>4 DEF RequestTyped
<1>6. /\ bucket' \in [Hosts -> Seq(Int)] /\ bucket'[h] = <<>>
      /\ \A p \in Hosts : p # h => bucket'[p] = bucket[p]
  BY <1>1, <1>2, <1>4 DEF RequestTyped
<1>7. /\ replays' \in [Places -> Seq(Entry)] /\ replays'[h] = <<>>
      /\ \A p \in Places : p # h => replays'[p] = replays[p]
  BY <1>1, <1>2, <1>4 DEF RequestTyped
<1>8. LimiterInv'
  BY <1>1, <1>2, <1>5, <1>6, LimiterReset
<1>9. RequestTyped'
  <2>1. where' \in [Requests -> {"new", "budget", "lookup", "run", "record", "done"}]
    BY <1>1, <1>3 DEF RequestTyped
  <2>2. recorded' \in [Requests -> Nat \cup {None}]
    BY <1>1, <1>3 DEF RequestTyped
  <2>3. \A g \in Hosts : Len(bucket'[g]) <= Limit /\ Len(replays'[g]) <= Cap
    BY <1>1, <1>4, <1>6, <1>7 DEF RequestTyped, Places
  <2> QED BY <1>1, <1>2, <1>5, <1>6, <1>7, <2>1, <2>2, <2>3 DEF RequestTyped
<1>10. Served'
  <2>1. h # None
    BY RequestAssumption DEF RequestSettings
  <2> SUFFICES ASSUME NEW r \in Requests
               PROVE  /\ where'[r] # "new" => host[r] \in Hosts
                      /\ where'[r] = "record" => r \in ran
                      /\ recorded'[r] # None => where'[r] # "new" /\ recorded'[r] <= now
    BY <1>2 DEF Served
  <2>2. where'[r] = where[r] \/ (where'[r] = "done" /\ host[r] = h)
    BY <1>3
  <2>3. recorded'[r] # None => recorded'[r] = recorded[r]
    BY <1>3
  <2> QED BY <1>1, <2>2, <2>3 DEF Served
<1>11. \A p \in Places : SlotsSound(p)'
  <2> SUFFICES ASSUME NEW p \in Places PROVE SlotsSound(p)'
    OBVIOUS
  <2>1. CASE p = h
    BY <1>7, <2>1 DEF SlotsSound
  <2>2. CASE p # h
    BY <1>1, <1>2, <1>7, <2>2 DEF StoreInv, SlotsSound
  <2> QED BY <2>1, <2>2
<1>12. \A q \in Requests : OnRecord(q)'
  <2> SUFFICES ASSUME NEW q \in Requests, recorded'[q] # None
               PROVE  \E i \in DOMAIN replays'[Here(q)] :
                        replays'[Here(q)][i].key = key[q] /\ replays'[Here(q)][i].until >= recorded'[q] + TimeToLive
    BY <1>2 DEF OnRecord, Here, Place
  <2>1. recorded'[q] = recorded[q] /\ ~(host[q] # None /\ Here(q) = h)
    BY <1>3
  <2>2. where[q] # "new" /\ host[q] \in Hosts
    BY <1>1, <2>1 DEF Served
  <2>3. Here(q) \in Places /\ Here(q) # h
    BY <1>1, <2>1, <2>2, Placed, RequestAssumption DEF RequestSettings
  <2>4. OnRecord(q) /\ recorded[q] # None
    BY <1>1, <2>1 DEF StoreInv
  <2>5. replays'[Here(q)] = replays[Here(q)]
    BY <1>7, <2>3
  <2> QED BY <2>1, <2>4, <2>5 DEF OnRecord
<1>13. RetriesRunOnce'
  BY <1>1, <1>2 DEF StoreInv, RetriesRunOnce
<1> QED BY <1>8, <1>9, <1>10, <1>11, <1>12, <1>13 DEF RequestInv, StoreInv

\* The response takes the slot of its key; the other slots stay, but for the
\* first one where the store is full.
LEMMA RecordKeeps ==
  ASSUME RequestInv, NEW r \in Requests, Record(r)
  PROVE  RequestInv'
<1>1. RequestTyped /\ Served /\ LimiterInv /\ StoreInv /\ where[r] = "record" /\ r \in ran
  BY DEF RequestInv, Served, Record
<1>2. PICK p \in Places : p = Here(r)
  BY <1>1, Placed
<1>3. PICK slots : slots = Room(p)
  OBVIOUS
<1>4. PICK entry : entry = [key |-> key[r], by |-> r, until |-> now + TimeToLive]
  OBVIOUS
<1>5. PICK new : new = Stored(slots, entry)
  OBVIOUS
<1>6. /\ replays' = [replays EXCEPT ![p] = new]
      /\ recorded' = [q \in Requests |->
            IF q = r THEN now
            ELSE IF host[q] # None /\ Here(q) = p /\ Slot(slots, key[q]) = 0 THEN None
            ELSE recorded[q]]
      /\ where' = [where EXCEPT ![r] = "done"]
      /\ UNCHANGED <<backend, now, token, dropping, limiter, host, key, ran, answer, faults, missed>>
  BY <1>2, <1>3, <1>4, <1>5 DEF Record, RequestAt
<1>7. /\ now \in Nat /\ TimeToLive \in Nat /\ Cap \in Nat
      /\ entry \in Entry /\ entry.key = key[r] /\ entry.by = r /\ entry.until = now + TimeToLive
  BY <1>1, <1>4, RequestAssumption DEF RequestTyped, RequestSettings, Entry
<1>8. PICK gone \in {0, 1} :
        /\ slots \in Seq(Entry) /\ Len(slots) = Len(replays[p]) - gone
        /\ \A i \in 1 .. Len(slots) : slots[i] = replays[p][i + gone]
        /\ p \in Hosts => Len(slots) < Cap
  BY <1>1, <1>3, RoomShifts
<1>9. /\ DOMAIN slots = 1 .. Len(slots) /\ Len(slots) \in Nat
      /\ DOMAIN replays[p] = 1 .. Len(replays[p]) /\ Len(replays[p]) \in Nat
      /\ \A i \in DOMAIN replays[p] : replays[p][i] \in Entry
  BY <1>1, <1>8, LenProperties, ElementOfSeq DEF RequestTyped
<1>10. \A i \in DOMAIN slots : i + gone \in DOMAIN replays[p] /\ slots[i] = replays[p][i + gone]
  BY <1>8, <1>9
<1>11. SlotsSound(p)
  BY <1>1 DEF StoreInv
<1>12. /\ \A i, j \in DOMAIN slots : slots[i].key = slots[j].key => i = j
       /\ \A i \in DOMAIN slots : slots[i].by \in ran /\ key[slots[i].by] = slots[i].key
  <2>1. ASSUME NEW i \in DOMAIN slots, NEW j \in DOMAIN slots, slots[i].key = slots[j].key PROVE i = j
    <3>1. i + gone = j + gone
      BY <1>10, <1>11, <2>1 DEF SlotsSound
    <3> QED BY <1>8, <1>9, <3>1
  <2>2. \A i \in DOMAIN slots : slots[i].by \in ran /\ key[slots[i].by] = slots[i].key
    BY <1>10, <1>11 DEF SlotsSound
  <2> QED BY <2>1, <2>2
<1>13. /\ new \in Seq(Entry) /\ Len(new) <= Len(slots) + 1
       /\ \A i \in DOMAIN slots :
            i \in DOMAIN new /\ (new[i] = slots[i] \/ (new[i] = entry /\ slots[i].key = entry.key))
       /\ \E k \in DOMAIN new :
            /\ new[k] = entry
            /\ \A i \in DOMAIN new : i # k => i \in DOMAIN slots /\ new[i] = slots[i]
            /\ k \in DOMAIN slots \/ \A i \in DOMAIN slots : slots[i].key # entry.key
  <2>1. slots \in Seq(Entry) /\ entry \in Entry
    BY <1>7, <1>8
  <2>2. Takes(new, slots, entry)
    BY <1>5, <2>1, StoredAt
  <2> QED BY <2>2, Zenon DEF Takes
<1>14. PICK k \in DOMAIN new :
         /\ new[k] = entry
         /\ \A i \in DOMAIN new : i # k => i \in DOMAIN slots /\ new[i] = slots[i]
         /\ k \in DOMAIN slots \/ \A i \in DOMAIN slots : slots[i].key # entry.key
  BY <1>13
<1>15. /\ \A i, j \in DOMAIN new : new[i].key = new[j].key => i = j
       /\ \A i \in DOMAIN new : new[i].by \in ran /\ key[new[i].by] = new[i].key
  <2>1. ASSUME NEW i \in DOMAIN new, i # k, new[i].key = entry.key PROVE FALSE
    <3>1. i \in DOMAIN slots /\ slots[i].key = entry.key
      BY <1>14, <2>1
    <3>2. k \in DOMAIN slots /\ slots[k].key = entry.key
      BY <1>13, <1>14, <3>1, <2>1
    <3> QED BY <1>12, <2>1, <3>1, <3>2
  <2>2. ASSUME NEW i \in DOMAIN new, NEW j \in DOMAIN new, new[i].key = new[j].key PROVE i = j
    BY <1>12, <1>14, <2>1, <2>2
  <2>3. \A i \in DOMAIN new : new[i].by \in ran /\ key[new[i].by] = new[i].key
    BY <1>1, <1>7, <1>12, <1>14
  <2> QED BY <2>2, <2>3
<1>16. /\ replays' \in [Places -> Seq(Entry)] /\ replays'[p] = new
       /\ \A q \in Places : q # p => replays'[q] = replays[q]
  BY <1>1, <1>6, <1>13 DEF RequestTyped
<1>17. LimiterInv'
  BY <1>1, <1>6, <1>7, LimiterQuiet
<1>18. RequestTyped'
  <2>1. where' \in [Requests -> {"new", "budget", "lookup", "run", "record", "done"}]
    BY <1>1, <1>6 DEF RequestTyped
  <2>2. recorded' \in [Requests -> Nat \cup {None}]
    BY <1>1, <1>6, <1>7 DEF RequestTyped
  <2>3. ASSUME NEW g \in Hosts PROVE Len(replays'[g]) <= Cap
    <3>1. CASE g = p
      <4>1. Len(new) \in Nat /\ Len(new) <= Len(slots) + 1 /\ Len(slots) < Cap
        BY <1>8, <1>13, <3>1, LenProperties
      <4> QED BY <1>7, <1>9, <1>16, <3>1, <4>1
    <3>2. CASE g # p
      BY <1>1, <1>16, <3>2 DEF RequestTyped, Places
    <3> QED BY <3>1, <3>2
  <2> QED BY <1>1, <1>6, <1>16, <2>1, <2>2, <2>3 DEF RequestTyped, limiter
<1>19. Served'
  <2> SUFFICES ASSUME NEW q \in Requests
               PROVE  /\ where'[q] # "new" => host[q] \in Hosts
                      /\ where'[q] = "record" => q \in ran
                      /\ recorded'[q] # None => where'[q] # "new" /\ recorded'[q] <= now
    BY <1>6 DEF Served
  <2>1. CASE q = r
    BY <1>1, <1>6, <1>7, <2>1 DEF Served, RequestTyped
  <2>2. CASE q # r
    <3>1. where'[q] = where[q] /\ (recorded'[q] # None => recorded'[q] = recorded[q])
      BY <1>1, <1>6, <2>2 DEF RequestTyped
    <3> QED BY <1>1, <3>1 DEF Served
  <2> QED BY <2>1, <2>2
<1>20. \A q \in Places : SlotsSound(q)'
  <2> SUFFICES ASSUME NEW q \in Places PROVE SlotsSound(q)'
    OBVIOUS
  <2>1. CASE q = p
    BY <1>6, <1>15, <1>16, <2>1 DEF SlotsSound
  <2>2. CASE q # p
    BY <1>1, <1>6, <1>16, <2>2 DEF StoreInv, SlotsSound
  <2> QED BY <2>1, <2>2
<1>21. \A q \in Requests : OnRecord(q)'
  <2> SUFFICES ASSUME NEW q \in Requests, recorded'[q] # None
               PROVE  \E i \in DOMAIN replays'[Here(q)] :
                        replays'[Here(q)][i].key = key[q] /\ replays'[Here(q)][i].until >= recorded'[q] + TimeToLive
    BY <1>6 DEF OnRecord, Here, Place
  <2>1. CASE q = r
    <3>1. Here(q) = p /\ recorded'[q] = now /\ key[q] = entry.key
      BY <1>2, <1>6, <1>7, <2>1
    <3>2. replays'[p][k].key = key[q] /\ replays'[p][k].until >= now + TimeToLive
      BY <1>7, <1>14, <1>16, <3>1
    <3> QED BY <1>14, <1>16, <3>1, <3>2
  <2>2. CASE q # r
    <3>1. /\ recorded'[q] = recorded[q] /\ recorded[q] # None
          /\ ~(host[q] # None /\ Here(q) = p /\ Slot(slots, key[q]) = 0)
      BY <1>6, <2>2
    <3>2. where[q] # "new" /\ host[q] \in Hosts /\ Here(q) \in Places /\ recorded[q] \in Nat /\ recorded[q] <= now
      BY <1>1, <3>1, Placed DEF Served, RequestTyped
    <3>3. host[q] # None
      BY <3>2, RequestAssumption DEF RequestSettings
    <3>4. PICK j \in DOMAIN replays[Here(q)] :
            replays[Here(q)][j].key = key[q] /\ replays[Here(q)][j].until >= recorded[q] + TimeToLive
      BY <1>1, <3>1 DEF StoreInv, OnRecord
    <3>5. CASE Here(q) = p
      <4>1. PICK i \in DOMAIN slots : slots[i].key = key[q]
        BY <3>1, <3>3, <3>5, SlotOf
      <4>2. i + gone = j
        BY <1>10, <1>11, <3>4, <3>5, <4>1 DEF SlotsSound
      <4>3. slots[i].until >= recorded[q] + TimeToLive
        BY <1>10, <3>4, <3>5, <4>1, <4>2
      <4>4. i \in DOMAIN new /\ new[i].key = key[q] /\ new[i].until >= recorded[q] + TimeToLive
        <5>1. entry.until >= recorded[q] + TimeToLive
          BY <1>7, <3>2
        <5> QED BY <1>13, <4>1, <4>3, <5>1
      <4> QED BY <1>16, <3>1, <3>5, <4>4
    <3>6. CASE Here(q) # p
      <4>1. replays'[Here(q)] = replays[Here(q)]
        BY <1>16, <3>2, <3>6
      <4> QED BY <3>1, <3>4, <4>1
    <3> QED BY <3>5, <3>6
  <2> QED BY <2>1, <2>2
<1>22. RetriesRunOnce'
  BY <1>1, <1>6 DEF StoreInv, RetriesRunOnce
<1> QED BY <1>17, <1>18, <1>19, <1>20, <1>21, <1>22 DEF RequestInv, StoreInv

-----------------------------------------------------------------------------
(* The theorems.                                                             *)

LEMMA RequestInvInit == RequestInit => RequestInv
<1> SUFFICES ASSUME RequestInit PROVE RequestInv
  OBVIOUS
<1>1. /\ now = 0 /\ MaxTime \in Nat /\ MaxFaults \in Nat /\ Limit \in Nat \ {0} /\ Cap \in Nat \ {0}
      /\ KeysOf \subseteq [Requests -> Keys]
  BY RequestAssumption DEF RequestInit, RequestSettings, Requests
<1>2. <<>> \in Seq(Nat) /\ <<>> \in Seq(Int) /\ <<>> \in Seq(Entry) /\ Len(<<>>) = 0
  OBVIOUS
<1>3. /\ bucket = [h \in Hosts |-> <<>>] /\ replays = [p \in Places |-> <<>>]
      /\ admitted = [p \in Places |-> <<>>] /\ recorded = [r \in Requests |-> None]
      /\ missed = [r \in Requests |-> {}] /\ answer = [r \in Requests |-> None]
      /\ where = [r \in Requests |-> "new"]
  BY DEF RequestInit
<1>4. RequestTyped
  <2>1. bucket \in [Hosts -> Seq(Int)] /\ \A h \in Hosts : Len(bucket[h]) <= Limit
    BY <1>1, <1>2, <1>3
  <2>2. replays \in [Places -> Seq(Entry)] /\ \A h \in Hosts : Len(replays[h]) <= Cap
    <3>1. \A h \in Hosts : replays[h] = <<>>
      BY <1>3 DEF Places
    <3> QED BY <1>1, <1>2, <1>3, <3>1
  <2>3. admitted \in [Places -> Seq(Nat)]
    BY <1>2, <1>3
  <2>4. key \in [Requests -> Keys]
    BY <1>1 DEF RequestInit
  <2>5. IsFiniteSet(stamps) /\ stamps \subseteq Int
    BY FS_EmptySet DEF RequestInit
  <2> QED BY <1>1, <2>1, <2>2, <2>3, <2>4, <2>5 DEF RequestInit, RequestTyped
<1>5. Served
  BY <1>3 DEF Served
<1>6. \A p \in Places : InOrder(admitted[p])
  BY <1>3 DEF InOrder
<1>7. \A h \in Hosts : QueueIsEnd(h)
  <2>1. 0 \in Nat /\ Len(<<>>) = 0 + Len(<<>>) /\ 1 .. 0 = {} /\ Len(<<>>) = 0
    OBVIOUS
  <2>2. \A h \in Hosts : EndOf(<<>>, <<>>, Skew[h], now)
    BY <2>1 DEF EndOf
  <2> QED BY <1>3, <2>2 DEF QueueIsEnd, Places
<1>8. SetIsWindow
  BY <1>3 DEF SetIsWindow, Places
<1>9. BudgetHolds
  BY <1>3 DEF BudgetHolds
<1>10. StoreInv
  BY <1>3 DEF StoreInv, SlotsSound, OnRecord, RetriesRunOnce
<1> QED BY <1>4, <1>5, <1>6, <1>7, <1>8, <1>9, <1>10 DEF RequestInv, LimiterInv

LEMMA RequestInvNext == RequestInv /\ [RequestNext]_agentVars => RequestInv'
<1> SUFFICES ASSUME RequestInv, [RequestNext]_agentVars PROVE RequestInv'
  OBVIOUS
<1>1. ASSUME NEW r \in Requests,
             Arrive(r) \/ TryTake(r) \/ RunScript(r) \/ Lookup(r) \/ Run(r) \/ Record(r) \/ RequestDies(r)
      PROVE  RequestInv'
  BY <1>1, QuietKeeps, TryTakeKeeps, RunScriptKeeps, LookupKeeps, RecordKeeps
<1>2. CASE Revoke \/ Tick
  BY <1>2, QuietKeeps
<1>3. CASE UNCHANGED agentVars
  <2>1. RequestTyped' /\ Served'
    BY <1>3 DEF RequestInv, RequestTyped, Served, agentVars, limiter, request
  <2>2. now' \in Nat /\ now <= now' /\ ran \subseteq ran'
    BY <1>3 DEF RequestInv, RequestTyped, agentVars, request
  <2> QED BY <1>3, <2>1, <2>2, QuietStep DEF agentVars, request
<1> QED BY <1>1, <1>2, <1>3, DropBucketKeeps, RestartKeeps DEF RequestNext

\* The requests of agents keep the invariant.
THEOREM RequestInvHolds == RequestSpec => []RequestInv
BY RequestInvInit, RequestInvNext, PTL DEF RequestSpec

\* The state of limiter, store and requests is of its types: no deque is longer
\* than the limit, and no in-process store larger than its cap.
THEOREM RequestTypeCorrect == RequestSpec => []RequestTypeOK
<1>1. RequestInv => RequestTypeOK
  <2> SUFFICES ASSUME RequestTyped PROVE RequestTypeOK
    BY DEF RequestInv
  <2>1. touched \in 0 .. MaxTime
    BY RequestAssumption DEF RequestTyped, RequestSettings
  <2> QED BY <2>1 DEF RequestTyped, RequestTypeOK
<1> QED BY <1>1, RequestInvHolds, PTL

\* A retry that looks after the response of its key was recorded does not run
\* the command again, and is given the response of a request that took effect.
THEOREM RetriesOnce == RequestSpec => []RetriesRunOnce
<1>1. RequestInv => RetriesRunOnce
  BY DEF RequestInv, StoreInv
<1> QED BY <1>1, RequestInvHolds, PTL

\* In no window of 60 seconds does a limiter admit more calls than the limit.
THEOREM BudgetIsHeld == RequestSpec => []BudgetHolds
<1>1. RequestInv => BudgetHolds
  BY DEF RequestInv, LimiterInv
<1> QED BY <1>1, RequestInvHolds, PTL
=============================================================================
