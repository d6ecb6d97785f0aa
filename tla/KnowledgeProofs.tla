--------------------------- MODULE KnowledgeProofs ---------------------------
(***************************************************************************)
(* Proofs about Knowledge, for every set of items, candidates and calls    *)
(* and every bound.  TypeInv is the type invariant with what it needs to   *)
(* be inductive; LogInv says how the calls that write a version stand to   *)
(* the versions stored; CandInv does the same for the candidates, and      *)
(* SuccessionInv for what a version owes the one before it.                *)
(***************************************************************************)
EXTENDS Knowledge, TLAPS

-----------------------------------------------------------------------------
(* Types.                                                                    *)

Places == {"idle", "insert", "add_first", "get_item", "get_version",
           "add_version", "merge_read", "merge_write", "demote", "announce",
           "finalise", "get_target", "transition"}

\* What a call carries at each place.
CallShape == \A k \in Calls :
  /\ pc[k] = "idle" => request[k] = NoRequest
  /\ pc[k] \notin {"idle", "insert"} => request[k].item \in Items
  /\ pc[k] = "insert" => request[k].op = "accept"
  /\ request[k].op = "accept" => request[k].candidate \in Candidates
  /\ pc[k] = "finalise" => request[k].op = "accept"
  /\ pc[k] \in {"idle", "insert", "get_item", "add_first"} => mine[k] = NoItem

TypeInv == TypeOK /\ CallShape

\* The initial state is well typed.
LEMMA TypeInit == Init => TypeInv
BY NoneAssumption DEF Init, TypeInv, TypeOK, CallShape, ItemRow, NoItem, VersionRow,
   CandidateRow, Request, NoRequest, Live

\* The blank row and the blank request are well typed.
LEMMA Blank ==
  /\ NoItem \in ItemRow /\ NoItem.current = 0 /\ NoItem.status = "absent"
  /\ NoRequest \in Request /\ NoRequest.op = "none" /\ NoRequest.item = None
  /\ NoRequest.candidate = None
BY DEF NoItem, ItemRow, NoRequest, Request, Live

\* A row is its four columns.
LEMMA RowColumns ==
  ASSUME TypeOK, NEW k \in Calls, request[k].item \in Items
  PROVE  /\ Merged(k) \in ItemRow
         /\ Merged(k).current = IF NextVersion(k) # seen[k].current
                                  THEN NextVersion(k) ELSE item[request[k].item].current
         /\ Merged(k).status = IF request[k].status # seen[k].status
                                  THEN request[k].status ELSE item[request[k].item].status
<1> DEFINE i == request[k].item
<1>1. mine[k] \in ItemRow /\ seen[k] \in ItemRow /\ item[i] \in ItemRow
      /\ request[k].status \in Live
  BY DEF TypeOK, Request
<1>2. NextVersion(k) \in Nat
  BY <1>1 DEF NextVersion, ItemRow
<1>3. Updated(k) \in ItemRow /\ Updated(k).current = NextVersion(k)
      /\ Updated(k).status = request[k].status
  BY <1>1, <1>2 DEF Updated, ItemRow, Live
<1>4. DOMAIN mine[k] = {"status", "current", "retiredAt", "supersededBy"}
  BY <1>1 DEF ItemRow
<1>5. Merged(k) = [status |-> Merged(k).status, current |-> Merged(k).current,
                   retiredAt |-> Merged(k).retiredAt, supersededBy |-> Merged(k).supersededBy]
  BY <1>4 DEF Merged
<1>6. /\ Merged(k).status = IF Updated(k).status # seen[k].status
                              THEN Updated(k).status ELSE item[i].status
      /\ Merged(k).current = IF Updated(k).current # seen[k].current
                              THEN Updated(k).current ELSE item[i].current
      /\ Merged(k).retiredAt = IF Updated(k).retiredAt # seen[k].retiredAt
                              THEN Updated(k).retiredAt ELSE item[i].retiredAt
      /\ Merged(k).supersededBy = IF Updated(k).supersededBy # seen[k].supersededBy
                              THEN Updated(k).supersededBy ELSE item[i].supersededBy
  BY <1>4 DEF Merged
<1>7. Merged(k) \in ItemRow
  BY <1>1, <1>3, <1>5, <1>6 DEF ItemRow
<1> QED BY <1>3, <1>6, <1>7

\* Storing a version keeps the versions typed and adds exactly one row.
LEMMA StoreTyped ==
  ASSUME TypeInv, NEW k \in Calls, NEW n \in Nat, request[k].item \in Items, StoreVersion(k, n)
  PROVE  /\ DOMAIN version' = DOMAIN version \cup {<<request[k].item, n>>}
         /\ DOMAIN version' \subseteq Items \X Nat
         /\ version'[<<request[k].item, n>>]
              = [status |-> request[k].status, origin |-> request[k].candidate]
         /\ \A p \in DOMAIN version : p # <<request[k].item, n>> => version'[p] = version[p]
         /\ \A p \in DOMAIN version' : version'[p] \in VersionRow
<1> DEFINE p0 == <<request[k].item, n>>
<1>1. DOMAIN version' = DOMAIN version \cup {p0}
  BY DEF StoreVersion
<1>2. version'[p0] = [status |-> request[k].status, origin |-> request[k].candidate]
  BY DEF StoreVersion
<1>3. \A p \in DOMAIN version : p # p0 => version'[p] = version[p]
  BY DEF StoreVersion
<1>4. version'[p0] \in VersionRow
  BY <1>2 DEF TypeInv, TypeOK, Request, VersionRow
<1>5. DOMAIN version' \subseteq Items \X Nat
  BY <1>1 DEF TypeInv, TypeOK
<1>6. \A p \in DOMAIN version' : version'[p] \in VersionRow
  BY <1>1, <1>3, <1>4 DEF TypeInv, TypeOK
<1> QED BY <1>1, <1>2, <1>3, <1>5, <1>6

\* The arrival of a request keeps the types.
LEMMA TypeArrive ==
  ASSUME TypeInv, NEW k \in Calls, Arrive(k)
  PROVE  TypeInv'
<1> USE NoneAssumption, Blank DEF TypeInv, TypeOK, CallShape, tables
<1>1. pc[k] = "idle" /\ arrived' = arrived + 1
  BY DEF Arrive
<1>2. ASSUME NEW s \in Live, NEW i \in Items, Create(k, s, i)
      PROVE  TypeInv'
  <2> DEFINE r == [[NoRequest EXCEPT !.op = "create", !.status = s] EXCEPT !.item = i]
             row == [NoItem EXCEPT !.status = s, !.current = 1]
  <2>1. r \in Request /\ r.item = i /\ r.op = "create"
    BY DEF Request, NoRequest, Live
  <2>2. row \in ItemRow
    BY DEF ItemRow, NoItem, Live
  <2>3. item' = [item EXCEPT ![i] = row] /\ request' = [request EXCEPT ![k] = r]
    BY <1>2 DEF Create, InsertItem, NoRequest
  <2> HIDE DEF r, row
  <2> QED BY <1>1, <1>2, <2>1, <2>2, <2>3 DEF Create, InsertItem
<1>3. ASSUME NEW r \in Request, r.item \in Items, r.op # "accept",
             NEW next \in {"get_version", "get_target", "transition"}, ReadItem(k, r, next)
      PROVE  TypeInv'
  BY <1>1, <1>3 DEF ReadItem
<1>4. ASSUME NEW s \in Live, NEW i \in Items, Update(k, i, s)
      PROVE  TypeInv'
  <2> DEFINE r == [NoRequest EXCEPT !.op = "update", !.item = i, !.status = s]
  <2>1. r \in Request /\ r.item = i /\ r.op = "update"
    BY DEF Request, NoRequest, Live
  <2> QED BY <1>3, <1>4, <2>1 DEF Update
<1>5. ASSUME NEW i \in Items, Retire(k, i)
      PROVE  TypeInv'
  <2> DEFINE r == [NoRequest EXCEPT !.op = "retire", !.item = i]
  <2>1. r \in Request /\ r.item = i /\ r.op = "retire"
    BY DEF Request, NoRequest, Live
  <2> QED BY <1>3, <1>5, <2>1 DEF Retire
<1>6. ASSUME NEW i \in Items, NEW by \in Items, Supersede(k, i, by)
      PROVE  TypeInv'
  <2> DEFINE r == [NoRequest EXCEPT !.op = "supersede", !.item = i, !.by = by]
  <2>1. r \in Request /\ r.item = i /\ r.op = "supersede"
    BY DEF Request, NoRequest, Live
  <2> QED BY <1>3, <1>6, <2>1 DEF Supersede
<1>7. ASSUME NEW c \in Candidates, NEW v \in {"accepted", "rejected"}, Decide(k, c, v)
      PROVE  candidate' \in [Candidates -> CandidateRow]
  BY <1>7 DEF Decide, CandidateRow
<1>8. ASSUME NEW c \in Candidates, Reject(k, c)
      PROVE  TypeInv'
  <2>1. candidate' \in [Candidates -> CandidateRow]
    BY <1>7, <1>8 DEF Reject
  <2>2. UNCHANGED <<item, version, pc, request, mine, seen, announced, faults>>
    BY <1>8 DEF Reject, Decide
  <2> QED BY <1>1, <2>1, <2>2
<1>9. ASSUME NEW c \in Candidates, NEW t \in Items \cup {None}, NEW s \in Live, Accept(k, c, t, s)
      PROVE  TypeInv'
  <2> DEFINE r == [NoRequest EXCEPT !.op = "accept", !.item = t, !.candidate = c, !.status = s]
  <2>1. r \in Request /\ r.item = t /\ r.op = "accept" /\ r.candidate = c
    BY DEF Request, NoRequest, Live
  <2>2. request' = [request EXCEPT ![k] = r]
    BY <1>9 DEF Accept
  <2> HIDE DEF r
  <2>3. candidate' \in [Candidates -> CandidateRow]
    BY <1>7, <1>9 DEF Accept
  <2> QED BY <1>1, <1>9, <2>1, <2>2, <2>3 DEF Accept, Decide
<1> HIDE DEF TypeInv
<1> QED BY <1>2, <1>4, <1>5, <1>6, <1>8, <1>9 DEF Arrive

\* The steps of a call keep the types.
LEMMA TypeServe ==
  ASSUME TypeInv, NEW k \in Calls, Serve(k)
  PROVE  TypeInv'
<1> USE NoneAssumption, Blank DEF TypeInv, TypeOK, CallShape, Goto, Return, tables
<1>0. arrived' = arrived
  BY DEF Serve
<1>1. ASSUME NEW i \in Items, AcceptInserts(k, i)
      PROVE  TypeInv'
  <2> DEFINE r == [request[k] EXCEPT !.item = i]
             row == [NoItem EXCEPT !.status = request[k].status, !.current = 1]
  <2>1. r \in Request /\ r.item = i /\ r.op = request[k].op /\ r.candidate = request[k].candidate
    BY DEF Request, Live
  <2>2. row \in ItemRow
    BY DEF ItemRow, NoItem, Request, Live
  <2>3. item' = [item EXCEPT ![i] = row] /\ request' = [request EXCEPT ![k] = r]
    BY <1>1 DEF AcceptInserts, InsertItem
  <2> HIDE DEF r, row
  <2> QED BY <1>0, <1>1, <2>1, <2>2, <2>3 DEF AcceptInserts, InsertItem
<1>2. CASE AddFirst(k)
  BY <1>0, <1>2, StoreTyped DEF AddFirst
<1>3. CASE AcceptReads(k)
  BY <1>0, <1>3 DEF AcceptReads, ReadItem
<1>4. CASE GetVersion(k)
  BY <1>0, <1>4 DEF GetVersion
<1>5. CASE AddVersion(k)
  <2>1. NextVersion(k) \in Nat
    BY DEF NextVersion, ItemRow
  <2> QED BY <1>0, <1>5, <2>1, StoreTyped DEF AddVersion
<1>6. CASE VersionConflict(k)
  BY <1>0, <1>6 DEF VersionConflict
<1>7. CASE MergeRead(k)
  BY <1>0, <1>7 DEF MergeRead
<1>8. CASE MergeWrite(k)
  BY <1>0, <1>8, RowColumns DEF MergeWrite
<1>9. CASE Demote(k)
  <2>1. DOMAIN version' = DOMAIN version /\ \A p \in DOMAIN version' : version'[p] \in VersionRow
    BY <1>9 DEF Demote, VersionRow
  <2> QED BY <1>0, <1>9, <2>1 DEF Demote
<1>10. CASE Announce(k)
  <2>1. NextVersion(k) \in Nat
    BY DEF NextVersion, ItemRow
  <2> QED BY <1>0, <1>10, <2>1 DEF Announce
<1>11. CASE Finalise(k)
  <2>1. NextVersion(k) \in Nat
    BY DEF NextVersion, ItemRow
  <2>2. candidate' \in [Candidates -> CandidateRow]
    BY <1>11, <2>1 DEF Finalise, CandidateRow
  <2>3. UNCHANGED <<item, version, announced, faults>> /\ Return(k)
    BY <1>11 DEF Finalise
  <2> QED BY <1>0, <1>11, <2>2, <2>3
<1>12. CASE GetTarget(k)
  BY <1>0, <1>12 DEF GetTarget
<1>13. CASE Transition(k)
  <2> DEFINE i == request[k].item
             one == [item[i] EXCEPT !.status = "superseded", !.supersededBy = request[k].by]
             two == [item[i] EXCEPT !.status = "retired", !.retiredAt = TRUE]
  <2>1. item' \in [Items -> ItemRow]
    <3>1. item[i] \in ItemRow /\ request[k].by \in Items \cup {None}
      BY <1>13 DEF Transition, Request
    <3>2. one \in ItemRow /\ two \in ItemRow
      BY <3>1 DEF ItemRow
    <3>3. item' \in {item, [item EXCEPT ![i] = one], [item EXCEPT ![i] = two]}
      BY <1>13 DEF Transition
    <3> HIDE DEF one, two
    <3> QED BY <1>13, <3>2, <3>3
  <2>2. UNCHANGED <<version, candidate, announced, faults>> /\ Return(k)
    BY <1>13 DEF Transition
  <2> QED BY <1>0, <1>13, <2>1, <2>2
<1>14. CASE CallDies(k)
  BY <1>0, <1>14 DEF CallDies
<1> HIDE DEF TypeInv
<1> QED BY <1>1, <1>2, <1>3, <1>4, <1>5, <1>6, <1>7, <1>8, <1>9, <1>10, <1>11, <1>12,
           <1>13, <1>14 DEF Serve, Step

LEMMA TypeStutter == TypeInv /\ UNCHANGED vars => TypeInv'
BY DEF TypeInv, TypeOK, CallShape, vars, tables, calls

\* Every row and every call keeps its type: the merge, which takes each column
\* from one of three rows, always yields a row.
THEOREM TypeCorrect == Spec => []TypeOK
<1>1. TypeInv /\ [Next]_vars => TypeInv'
  BY TypeArrive, TypeServe, TypeStutter DEF Next, Rest
<1>2. TypeInv => TypeOK
  BY DEF TypeInv
<1> QED BY <1>1, <1>2, TypeInit, PTL DEF Spec

-----------------------------------------------------------------------------
(* The versions of an item have one writer at a time.                        *)

\* Exactly the versions 1 .. m of item i are stored.
Full(i, m) == \A n \in Nat : Stored(i, n) <=> n \in 1 .. m

\* What is stored is what the item points at, or one more; an item may still be
\* waiting for its first version.
VersionsFollow == \A i \in Items :
  /\ Exists(i) <=> item[i].current > 0
  /\ \/ item[i].current \in {0, 1} /\ Full(i, 0)
     \/ item[i].current > 0 /\ Full(i, item[i].current)
     \/ item[i].current > 0 /\ Full(i, item[i].current + 1)

\* A call that has read an item holds a version that is stored and not ahead.
ReadersBehind == \A k \in Calls :
  LET i == request[k].item
      n == mine[k].current
  IN  /\ pc[k] \in {"get_version", "add_version"} => 0 < n /\ n <= item[i].current
      /\ pc[k] = "add_version" => Stored(i, n)

\* The call that owes an item its first version, or the pointer to its next one.
Creating(k) == pc[k] = "add_first"
Pointing(k) == pc[k] \in {"merge_read", "merge_write"}

WritersAlone == \A k \in Calls :
  LET i == request[k].item
      n == mine[k].current
  IN  /\ Creating(k) => item[i].current = 1 /\ Full(i, 0)
      /\ Pointing(k) => 0 < n /\ n = item[i].current /\ Full(i, n + 1)
      /\ pc[k] = "merge_write" => seen[k].current = n
      /\ \A other \in Calls :
           other # k /\ request[other].item = i =>
             /\ ~(Creating(k) /\ Creating(other))
             /\ ~(Pointing(k) /\ Pointing(other))

LogInv == VersionsFollow /\ ReadersBehind /\ WritersAlone

LEMMA LogInit == Init => LogInv
<1> SUFFICES ASSUME Init PROVE LogInv
  OBVIOUS
<1> USE DEF Init
<1>1. \A i \in Items : Full(i, 0) /\ item[i].current = 0 /\ ~Exists(i)
  BY DEF Full, Stored, Exists, NoItem
<1>2. \A k \in Calls : pc[k] = "idle"
  OBVIOUS
<1> HIDE DEF Init
<1> QED BY <1>1, <1>2 DEF LogInv, VersionsFollow, ReadersBehind, WritersAlone, Creating, Pointing

\* What most steps leave alone: the calls of others, the versions, the pointers.
OthersKept(k) == \A o \in Calls : o # k =>
  pc'[o] = pc[o] /\ request'[o] = request[o] /\ mine'[o] = mine[o] /\ seen'[o] = seen[o]
ItemsKept == \A i \in Items : item'[i].current = item[i].current /\ (Exists(i)' <=> Exists(i))
Waiting(k) == pc[k] \notin {"get_version", "add_version", "add_first", "merge_read", "merge_write"}

LEMMA LogQuiet ==
  ASSUME TypeInv, LogInv, NEW k \in Calls, OthersKept(k), ItemsKept,
         DOMAIN version' = DOMAIN version, Waiting(k)'
  PROVE  LogInv'
<1> USE DEF TypeInv, CallShape
<1>1. \A i, n : Stored(i, n)' <=> Stored(i, n)
  BY DEF Stored
<1>2. \A i, m : Full(i, m)' <=> Full(i, m)
  BY <1>1 DEF Full
<1>3. VersionsFollow'
  BY <1>2 DEF LogInv, VersionsFollow, ItemsKept
<1>4. ReadersBehind'
  BY <1>1 DEF LogInv, ReadersBehind, ItemsKept, OthersKept, Waiting
<1>5. WritersAlone'
  BY <1>2 DEF LogInv, WritersAlone, ItemsKept, OthersKept, Waiting, Creating, Pointing
<1> QED BY <1>3, <1>4, <1>5 DEF LogInv

\* A new item: nothing of it is stored and nobody works on it.
LEMMA LogInsert ==
  ASSUME TypeInv, TypeInv', LogInv, NEW k \in Calls, NEW r \in Request, NEW i \in Items,
         pc[k] \in {"idle", "insert"}, InsertItem(k, r, i)
  PROVE  LogInv'
<1>1. /\ item'[i].current = 1 /\ Exists(i)' /\ item[i].current = 0
      /\ Full(i, 0)
      /\ \A j \in Items : j # i => item'[j] = item[j]
      /\ pc'[k] = "add_first" /\ request'[k].item = i
      /\ OthersKept(k) /\ version' = version
  <2>1. item[i].current = 0 /\ Full(i, 0)
    BY DEF InsertItem, LogInv, VersionsFollow, TypeInv, TypeOK, ItemRow
  <2>2. item' = [item EXCEPT ![i] = [NoItem EXCEPT !.status = r.status, !.current = 1]]
    BY DEF InsertItem
  <2>3. item'[i].current = 1 /\ item'[i].status = r.status
    BY <2>2 DEF TypeInv, TypeOK, NoItem
  <2>4. Exists(i)'
    BY <2>3 DEF Exists, Request, Live
  <2>5. request' = [request EXCEPT ![k] = [r EXCEPT !.item = i]]
    BY DEF InsertItem
  <2>6. request'[k].item = i
    BY <2>5 DEF TypeInv, TypeOK, Request
  <2>7. OthersKept(k)
    BY <2>5 DEF InsertItem, OthersKept, TypeInv, TypeOK
  <2>8. \A j \in Items : j # i => item'[j] = item[j]
    BY <2>2 DEF TypeInv, TypeOK
  <2> QED BY <2>1, <2>3, <2>4, <2>6, <2>7, <2>8 DEF InsertItem, TypeInv, TypeOK
<1>2. \A j, m : Full(j, m)' <=> Full(j, m)
  BY <1>1 DEF Full, Stored
<1>3. \A j \in Items : j # i => (Exists(j)' <=> Exists(j))
  BY <1>1 DEF Exists
<1>4. VersionsFollow'
  BY <1>1, <1>2, <1>3 DEF LogInv, VersionsFollow
<1>5. ReadersBehind'
  <2>1. ASSUME NEW o \in Calls, pc[o] \in {"get_version", "add_version"}
        PROVE  request[o].item \in Items /\ request[o].item # i
    <3>1. request[o].item \in Items /\ 0 < mine[o].current /\ mine[o].current \in Nat
          /\ mine[o].current <= item[request[o].item].current
      BY <2>1 DEF LogInv, ReadersBehind, TypeInv, TypeOK, CallShape, ItemRow
    <3> QED BY <1>1, <3>1
  <2> QED BY <1>1, <2>1 DEF LogInv, ReadersBehind, OthersKept, Stored
<1>6. \A o \in Calls : o # k /\ (Creating(o) \/ Pointing(o)) => request[o].item # i
  BY <1>1 DEF LogInv, WritersAlone, Creating, Pointing
<1>7. WritersAlone'
  BY <1>1, <1>2, <1>6 DEF LogInv, WritersAlone, Creating, Pointing, OthersKept, TypeInv, CallShape
<1> QED BY <1>4, <1>5, <1>7 DEF LogInv

\* A call reads its item and goes on to update it, or to a transition.
LEMMA LogRead ==
  ASSUME TypeInv, TypeInv', LogInv, NEW k \in Calls, NEW r \in Request, r.item \in Items,
         NEW next \in {"get_version", "get_target", "transition"}, ReadItem(k, r, next)
  PROVE  LogInv'
<1>1. /\ OthersKept(k) /\ item' = item /\ version' = version
      /\ pc'[k] = next /\ request'[k] = r
      /\ next = "get_version" => mine'[k] = item[r.item]
      /\ item[r.item].current > 0
  BY DEF ReadItem, Refused, OthersKept, tables, TypeInv, TypeOK, LogInv, VersionsFollow
<1>2. CASE next # "get_version"
  <2>1. ItemsKept /\ Waiting(k)'
    BY <1>1, <1>2 DEF ItemsKept, Exists, Waiting
  <2> QED BY <1>1, <2>1, LogQuiet
<1>3. CASE next = "get_version"
  <2>1. \A j, m : (Full(j, m)' <=> Full(j, m)) /\ (Stored(j, m)' <=> Stored(j, m))
    BY <1>1 DEF Full, Stored
  <2>2. VersionsFollow'
    BY <1>1, <2>1 DEF LogInv, VersionsFollow, Exists
  <2>3. ReadersBehind'
    BY <1>1, <1>3, <2>1 DEF LogInv, ReadersBehind, OthersKept, TypeInv, TypeOK, ItemRow
  <2>4. WritersAlone'
    BY <1>1, <1>3, <2>1 DEF LogInv, WritersAlone, OthersKept, Creating, Pointing
  <2> QED BY <2>2, <2>3, <2>4 DEF LogInv
<1> QED BY <1>2, <1>3

\* The first version of the item a call has created.
LEMMA LogFirst ==
  ASSUME TypeInv, TypeInv', LogInv, NEW k \in Calls, AddFirst(k)
  PROVE  LogInv'
<1> DEFINE i == request[k].item
<1>1. /\ OthersKept(k) /\ item' = item /\ pc'[k] = "announce" /\ request' = request
      /\ i \in Items /\ item[i].current = 1 /\ Full(i, 0)
      /\ DOMAIN version' = DOMAIN version \cup {<<i, 1>>}
  BY StoreTyped DEF AddFirst, Goto, OthersKept, TypeInv, TypeOK, CallShape, LogInv, WritersAlone,
     Creating
<1>2. \A j \in Items, n \in Nat : Stored(j, n)' <=> Stored(j, n) \/ (j = i /\ n = 1)
  BY <1>1 DEF Stored
<1>3. Full(i, 1)'
  BY <1>1, <1>2 DEF Full
<1>4. \A j \in Items, m \in Nat : j # i => (Full(j, m)' <=> Full(j, m))
  BY <1>2 DEF Full
<1>5. VersionsFollow'
  BY <1>1, <1>3, <1>4 DEF LogInv, VersionsFollow, Exists, TypeInv, TypeOK, ItemRow
<1>6. ReadersBehind'
  BY <1>1, <1>2 DEF LogInv, ReadersBehind, OthersKept, TypeInv, CallShape, TypeOK, ItemRow
<1>7. \A o \in Calls : o # k /\ (Creating(o) \/ Pointing(o)) => request[o].item # i
  <2>1. ASSUME NEW o \in Calls, Pointing(o), request[o].item = i PROVE FALSE
    <3>1. 0 < mine[o].current /\ Full(i, mine[o].current + 1) /\ mine[o].current \in Nat
      BY <2>1 DEF LogInv, WritersAlone, TypeInv, TypeOK, ItemRow
    <3> QED BY <1>1, <3>1 DEF Full
  <2> QED BY <2>1 DEF LogInv, WritersAlone, Creating, AddFirst
<1>8. WritersAlone'
  BY <1>1, <1>4, <1>7 DEF LogInv, WritersAlone, OthersKept, Creating, Pointing, TypeInv, CallShape,
     TypeOK, ItemRow
<1> QED BY <1>5, <1>6, <1>8 DEF LogInv

\* The version after the one a call has read is free only when that one is still
\* current and no other version is on its way: the UNIQUE constraint is a lock.
LEMMA LogAdd ==
  ASSUME TypeInv, TypeInv', LogInv, NEW k \in Calls, AddVersion(k)
  PROVE  /\ LogInv'
         /\ mine[k].current = item[request[k].item].current
         /\ Full(request[k].item, mine[k].current)
<1> DEFINE i == request[k].item
           n == mine[k].current
<1>1. /\ OthersKept(k) /\ item' = item /\ pc'[k] = "merge_read"
      /\ request' = request /\ mine' = mine
      /\ i \in Items /\ n \in Nat /\ item[i].current \in Nat
      /\ 0 < n /\ n <= item[i].current /\ Stored(i, n) /\ ~Stored(i, n + 1)
      /\ DOMAIN version' = DOMAIN version \cup {<<i, n + 1>>}
  <2>1. i \in Items /\ n \in Nat /\ item[i].current \in Nat /\ NextVersion(k) = n + 1
    BY DEF AddVersion, TypeInv, TypeOK, CallShape, ItemRow, NextVersion
  <2>2. PICK m \in Nat : m = n + 1
    BY <2>1
  <2>3. DOMAIN version' = DOMAIN version \cup {<<i, n + 1>>}
    <3>1. StoreVersion(k, m)
      BY <2>1, <2>2 DEF AddVersion
    <3>2. DOMAIN version' = DOMAIN version \cup {<<i, m>>}
      BY <2>1, <3>1, StoreTyped
    <3> QED BY <2>2, <3>2
  <2>4. 0 < n /\ n <= item[i].current /\ Stored(i, n) /\ ~Stored(i, n + 1)
    BY <2>1 DEF AddVersion, LogInv, ReadersBehind, Vacant, Stored
  <2>5. OthersKept(k) /\ item' = item /\ pc'[k] = "merge_read" /\ request' = request /\ mine' = mine
    BY DEF AddVersion, Goto, OthersKept, TypeInv, TypeOK
  <2> QED BY <2>1, <2>3, <2>4, <2>5
<1>2. n = item[i].current /\ Full(i, n)
  <2>1. ~Full(i, 0) /\ ~Full(i, item[i].current + 1)
    BY <1>1 DEF Full
  <2>2. Full(i, item[i].current)
    BY <1>1, <2>1 DEF LogInv, VersionsFollow
  <2>3. n + 1 \notin 1 .. item[i].current
    BY <1>1, <2>2 DEF Full
  <2> QED BY <1>1, <2>2, <2>3
<1>3. \A j \in Items, m \in Nat : Stored(j, m)' <=> Stored(j, m) \/ (j = i /\ m = n + 1)
  BY <1>1 DEF Stored
<1>4. \A m \in Nat : Stored(i, m)' <=> m \in 1 .. n + 1
  BY <1>1, <1>2, <1>3 DEF Full
<1>5. Full(i, n + 1)'
  BY <1>1, <1>4 DEF Full
<1>6. \A j \in Items, m \in Nat : j # i => (Full(j, m)' <=> Full(j, m))
  BY <1>3 DEF Full
<1>7. VersionsFollow'
  BY <1>1, <1>2, <1>5, <1>6 DEF LogInv, VersionsFollow, Exists, TypeInv, TypeOK, ItemRow
<1>8. ReadersBehind'
  BY <1>1, <1>3 DEF LogInv, ReadersBehind, OthersKept, TypeInv, CallShape, TypeOK, ItemRow
<1>9. \A o \in Calls : o # k /\ (Creating(o) \/ Pointing(o)) => request[o].item # i
  <2>1. ASSUME NEW o \in Calls, Pointing(o), request[o].item = i PROVE FALSE
    <3>1. Full(i, item[i].current + 1)
      BY <2>1 DEF LogInv, WritersAlone
    <3> QED BY <1>1, <1>2, <3>1 DEF Full
  <2>2. ASSUME NEW o \in Calls, Creating(o), request[o].item = i PROVE FALSE
    <3>1. Full(i, 0)
      BY <2>2 DEF LogInv, WritersAlone
    <3> QED BY <1>1, <3>1 DEF Full
  <2> QED BY <2>1, <2>2
<1>10. WritersAlone'
  BY <1>1, <1>2, <1>5, <1>6, <1>9 DEF LogInv, WritersAlone, OthersKept, Creating, Pointing,
     TypeInv, CallShape, TypeOK, ItemRow
<1> QED BY <1>2, <1>7, <1>8, <1>10 DEF LogInv

\* The merge writes the bumped pointer: what it read still had the old one.
LEMMA LogMerge ==
  ASSUME TypeInv, TypeInv', LogInv, NEW k \in Calls, MergeWrite(k)
  PROVE  /\ LogInv'
         /\ item'[request[k].item].current = item[request[k].item].current + 1
         /\ Full(request[k].item, item[request[k].item].current + 1)
<1> DEFINE i == request[k].item
           n == mine[k].current
<1>1. /\ OthersKept(k) /\ version' = version /\ pc'[k] = "demote"
      /\ request' = request /\ mine' = mine
      /\ i \in Items /\ n \in Nat /\ 0 < n /\ n = item[i].current /\ Full(i, n + 1)
      /\ seen[k].current = n
  BY DEF MergeWrite, Goto, OthersKept, TypeInv, TypeOK, CallShape, ItemRow, LogInv, WritersAlone,
     Pointing
<1>2. item' = [item EXCEPT ![i] = Merged(k)]
  BY DEF MergeWrite
<1>3. item'[i] = Merged(k) /\ Merged(k).current = n + 1
  BY <1>1, <1>2, RowColumns DEF NextVersion, TypeInv, TypeOK
<1>4. \A j \in Items : j # i => item'[j] = item[j]
  BY <1>2 DEF TypeInv, TypeOK
<1>5. Exists(i)'
  <2>1. item[i].status # "absent"
    BY <1>1 DEF LogInv, VersionsFollow, Exists
  <2>2. request[k].status # "absent"
    BY DEF TypeInv, TypeOK, Request, Live
  <2>3. Merged(k).status # "absent"
    BY <1>1, <2>1, <2>2, RowColumns DEF TypeInv
  <2> QED BY <1>1, <1>3, <2>3 DEF Exists
<1>6. \A j, m : (Full(j, m)' <=> Full(j, m)) /\ (Stored(j, m)' <=> Stored(j, m))
  BY <1>1 DEF Full, Stored
<1>7. VersionsFollow'
  BY <1>1, <1>3, <1>4, <1>5, <1>6 DEF LogInv, VersionsFollow, Exists
<1>8. ReadersBehind'
  <2>1. \A j \in Items : item[j].current \in Nat /\ item'[j].current \in Nat
                        /\ item[j].current <= item'[j].current
    BY <1>1, <1>3, <1>4 DEF TypeInv, TypeOK, ItemRow
  <2>2. ASSUME NEW o \in Calls, pc[o] \in {"get_version", "add_version"}
        PROVE  request[o].item \in Items /\ mine[o].current \in Nat
    BY <2>2 DEF TypeInv, TypeOK, CallShape, ItemRow
  <2> QED BY <1>1, <1>6, <2>1, <2>2 DEF LogInv, ReadersBehind, OthersKept
<1>9. \A o \in Calls : o # k /\ (Creating(o) \/ Pointing(o)) => request[o].item # i
  <2>1. ASSUME NEW o \in Calls, Creating(o), request[o].item = i PROVE FALSE
    <3>1. Full(i, 0)
      BY <2>1 DEF LogInv, WritersAlone
    <3> QED BY <1>1, <3>1 DEF Full
  <2> QED BY <2>1 DEF LogInv, WritersAlone, Pointing, MergeWrite
<1>10. WritersAlone'
  BY <1>1, <1>4, <1>6, <1>9 DEF LogInv, WritersAlone, OthersKept, Creating, Pointing,
     TypeInv, CallShape
<1> QED BY <1>1, <1>3, <1>7, <1>8, <1>10 DEF LogInv

\* supersede and retire move no pointer.
LEMMA TransitionKeeps ==
  ASSUME TypeInv, NEW k \in Calls, Transition(k)
  PROVE  ItemsKept
<1> DEFINE i == request[k].item
           one == [item[i] EXCEPT !.status = "superseded", !.supersededBy = request[k].by]
           two == [item[i] EXCEPT !.status = "retired", !.retiredAt = TRUE]
<1>1. i \in Items
  BY DEF Transition, TypeInv, CallShape
<1>2. item' = item \/ (item[i].status \in From(request[k].op)
                       /\ item' \in {[item EXCEPT ![i] = one], [item EXCEPT ![i] = two]})
  BY DEF Transition
<1>3. /\ one.current = item[i].current /\ one.status = "superseded"
      /\ two.current = item[i].current /\ two.status = "retired"
  BY <1>1 DEF TypeInv, TypeOK, ItemRow
<1>4. item[i].status \in From(request[k].op) => item[i].status # "absent"
  BY DEF From, Live
<1> HIDE DEF one, two
<1> QED BY <1>1, <1>2, <1>3, <1>4 DEF ItemsKept, Exists, TypeInv, TypeOK

\* Every step keeps the writers apart.
LEMMA LogArrive ==
  ASSUME TypeInv, TypeInv', LogInv, NEW k \in Calls, Arrive(k)
  PROVE  LogInv'
<1>1. pc[k] = "idle"
  BY DEF Arrive
<1>2. ASSUME NEW s \in Live, NEW i \in Items, Create(k, s, i)
      PROVE  LogInv'
  <2> DEFINE r == [NoRequest EXCEPT !.op = "create", !.status = s]
  <2>1. r \in Request
    BY DEF Request, NoRequest, Live
  <2> QED BY <1>1, <1>2, <2>1, LogInsert DEF Create
<1>3. ASSUME NEW s \in Live, NEW i \in Items, Update(k, i, s)
      PROVE  LogInv'
  <2> DEFINE r == [NoRequest EXCEPT !.op = "update", !.item = i, !.status = s]
  <2>1. r \in Request /\ r.item = i
    BY DEF Request, NoRequest, Live
  <2> QED BY <1>3, <2>1, LogRead DEF Update
<1>4. ASSUME NEW i \in Items, Retire(k, i)
      PROVE  LogInv'
  <2> DEFINE r == [NoRequest EXCEPT !.op = "retire", !.item = i]
  <2>1. r \in Request /\ r.item = i
    BY DEF Request, NoRequest, Live
  <2> QED BY <1>4, <2>1, LogRead DEF Retire
<1>5. ASSUME NEW i \in Items, NEW by \in Items, Supersede(k, i, by)
      PROVE  LogInv'
  <2> DEFINE r == [NoRequest EXCEPT !.op = "supersede", !.item = i, !.by = by]
  <2>1. r \in Request /\ r.item = i
    BY DEF Request, NoRequest, Live
  <2> QED BY <1>5, <2>1, LogRead DEF Supersede
<1>6. ASSUME NEW c \in Candidates, Reject(k, c)
      PROVE  LogInv'
  <2>1. OthersKept(k) /\ ItemsKept /\ DOMAIN version' = DOMAIN version /\ Waiting(k)'
    BY <1>1, <1>6 DEF Reject, Decide, OthersKept, ItemsKept, Exists, Waiting
  <2> QED BY <2>1, LogQuiet
<1>7. ASSUME NEW c \in Candidates, NEW t \in Items \cup {None}, NEW s \in Live, Accept(k, c, t, s)
      PROVE  LogInv'
  <2>1. pc'[k] \in {"insert", "get_item"} /\ \A o \in Calls : o # k => pc'[o] = pc[o]
    BY <1>7 DEF Accept, TypeInv, TypeOK
  <2>2. \A o \in Calls : o # k => request'[o] = request[o]
    BY <1>7 DEF Accept, TypeInv, TypeOK
  <2>3. item' = item /\ version' = version /\ mine' = mine /\ seen' = seen
    BY <1>7 DEF Accept, Decide
  <2>4. OthersKept(k) /\ ItemsKept /\ DOMAIN version' = DOMAIN version /\ Waiting(k)'
    BY <2>1, <2>2, <2>3 DEF OthersKept, ItemsKept, Exists, Waiting
  <2> QED BY <2>4, LogQuiet
<1> QED BY <1>2, <1>3, <1>4, <1>5, <1>6, <1>7 DEF Arrive

LEMMA LogServe ==
  ASSUME TypeInv, TypeInv', LogInv, NEW k \in Calls, Serve(k)
  PROVE  LogInv'
<1>1. ASSUME NEW i \in Items, AcceptInserts(k, i)
      PROVE  LogInv'
  <2>1. request[k] \in Request
    BY DEF TypeInv, TypeOK
  <2> QED BY <1>1, <2>1, LogInsert DEF AcceptInserts
<1>2. ASSUME item' = item, Return(k) \/ Goto(k, "announce") \/ Goto(k, "finalise")
                          \/ Goto(k, "transition"),
             DOMAIN version' = DOMAIN version
      PROVE  LogInv'
  <2>1. OthersKept(k) /\ ItemsKept /\ Waiting(k)'
    BY <1>2 DEF Return, Goto, OthersKept, ItemsKept, Exists, Waiting, TypeInv, TypeOK
  <2> QED BY <1>2, <2>1, LogQuiet
<1>3. CASE AddFirst(k)
  BY <1>3, LogFirst
<1>4. CASE AcceptReads(k)
  <2>1. request[k] \in Request /\ request[k].item \in Items
    BY <1>4 DEF AcceptReads, TypeInv, TypeOK, CallShape
  <2>2. CASE ReadItem(k, request[k], "get_version")
    BY <2>1, <2>2, LogRead
  <2>3. CASE Return(k) /\ UNCHANGED tables
    BY <1>2, <2>3 DEF tables
  <2> QED BY <1>4, <2>2, <2>3 DEF AcceptReads, tables
<1>5. CASE GetVersion(k)
  <2>1. CASE Return(k)
    BY <1>2, <1>5, <2>1 DEF GetVersion, tables
  <2>2. CASE Goto(k, "add_version") /\ Stored(request[k].item, mine[k].current)
    <3>1. /\ OthersKept(k) /\ item' = item /\ version' = version /\ pc'[k] = "add_version"
          /\ pc[k] = "get_version" /\ request' = request /\ mine' = mine
      BY <1>5, <2>2 DEF GetVersion, Goto, OthersKept, TypeInv, TypeOK, tables
    <3>2. \A j, m : (Full(j, m)' <=> Full(j, m)) /\ (Stored(j, m)' <=> Stored(j, m))
      BY <3>1 DEF Full, Stored
    <3>3. VersionsFollow'
      BY <3>1, <3>2 DEF LogInv, VersionsFollow, Exists
    <3>4. ReadersBehind'
      BY <2>2, <3>1, <3>2 DEF LogInv, ReadersBehind, OthersKept
    <3>5. WritersAlone'
      BY <3>1, <3>2 DEF LogInv, WritersAlone, OthersKept, Creating, Pointing
    <3> QED BY <3>3, <3>4, <3>5 DEF LogInv
  <2> QED BY <1>5, <2>1, <2>2 DEF GetVersion, Stored
<1>6. CASE AddVersion(k)
  BY <1>6, LogAdd
<1>7. CASE VersionConflict(k) \/ CallDies(k)
  BY <1>2, <1>7 DEF VersionConflict, CallDies, tables
<1>8. CASE MergeRead(k)
  <2>1. /\ OthersKept(k) /\ item' = item /\ version' = version
        /\ pc'[k] = "merge_write" /\ pc[k] = "merge_read" /\ request' = request /\ mine' = mine
        /\ seen'[k] = item[request[k].item]
    BY <1>8 DEF MergeRead, OthersKept, tables, TypeInv, TypeOK
  <2>2. \A j, m : (Full(j, m)' <=> Full(j, m)) /\ (Stored(j, m)' <=> Stored(j, m))
    BY <2>1 DEF Full, Stored
  <2>3. VersionsFollow'
    BY <2>1, <2>2 DEF LogInv, VersionsFollow, Exists
  <2>4. ReadersBehind'
    BY <2>1, <2>2 DEF LogInv, ReadersBehind, OthersKept
  <2>5. WritersAlone'
    BY <2>1, <2>2 DEF LogInv, WritersAlone, OthersKept, Creating, Pointing
  <2> QED BY <2>3, <2>4, <2>5 DEF LogInv
<1>9. CASE MergeWrite(k)
  BY <1>9, LogMerge
<1>10. CASE Demote(k)
  BY <1>2, <1>10 DEF Demote
<1>11. CASE Announce(k)
  BY <1>2, <1>11 DEF Announce, tables
<1>12. CASE Finalise(k)
  BY <1>2, <1>12 DEF Finalise
<1>13. CASE GetTarget(k)
  BY <1>2, <1>13 DEF GetTarget, tables
<1>14. CASE Transition(k)
  <2>1. Return(k) /\ version' = version /\ ItemsKept
    BY <1>14, TransitionKeeps DEF Transition
  <2>2. OthersKept(k) /\ Waiting(k)'
    BY <2>1 DEF Return, OthersKept, Waiting, TypeInv, TypeOK
  <2> QED BY <2>1, <2>2, LogQuiet
<1> QED BY <1>1, <1>3, <1>4, <1>5, <1>6, <1>7, <1>8, <1>9, <1>10, <1>11, <1>12, <1>13, <1>14
        DEF Serve, Step

LEMMA LogStutter == TypeInv /\ LogInv /\ UNCHANGED vars => LogInv'
BY DEF LogInv, VersionsFollow, ReadersBehind, WritersAlone, Creating, Pointing, Full, Stored,
   Exists, vars, tables, calls

\* The invariant behind the theorems on versions.
THEOREM LogInvariant == Spec => [](TypeInv /\ LogInv)
<1>1. TypeInv /\ LogInv /\ [Next]_vars => (TypeInv /\ LogInv)'
  BY TypeArrive, TypeServe, TypeStutter, LogArrive, LogServe, LogStutter DEF Next, Rest
<1> QED BY <1>1, TypeInit, LogInit, PTL DEF Spec

-----------------------------------------------------------------------------
(* The single-writer log is implemented.                                     *)

\* The log and the pointers, as the substitution of Log spells them.
LogIn(D, i) == {p[2] : p \in {q \in D : q[1] = i}}
LogOf(i) == LogIn(DOMAIN version, i)
Logs == [i \in Items |-> LogOf(i)]
Pointers == [i \in Items |-> item[i].current]

LEMMA InLog ==
  ASSUME NEW D \in SUBSET (Items \X Nat), NEW i \in Items, NEW n
  PROVE  n \in LogIn(D, i) <=> <<i, n>> \in D
<1>1. ASSUME NEW p \in D, p[1] = i
      PROVE  p = <<i, p[2]>>
  BY <1>1
<1>2. ASSUME n \in LogIn(D, i) PROVE <<i, n>> \in D
  BY <1>1, <1>2 DEF LogIn
<1>3. ASSUME <<i, n>> \in D PROVE n \in LogIn(D, i)
  BY <1>3 DEF LogIn
<1> QED BY <1>2, <1>3

LEMMA FullLog ==
  ASSUME TypeOK, NEW i \in Items, NEW m \in Nat, Full(i, m)
  PROVE  LogOf(i) = 1 .. m
<1>1. \A n : n \in LogOf(i) <=> Stored(i, n)
  BY InLog DEF LogOf, Stored, TypeOK
<1>2. \A n : Stored(i, n) => n \in Nat
  BY DEF Stored, TypeOK
<1>3. \A n : n \in LogOf(i) <=> n \in 1 .. m
  BY <1>1, <1>2 DEF Full
<1> QED BY <1>3

\* A step that stores no version and moves no pointer is no step of the log.
LEMMA LogSame ==
  ASSUME DOMAIN version' = DOMAIN version, \A i \in Items : item'[i].current = item[i].current
  PROVE  UNCHANGED Log!logVars
<1>1. Pointers' = Pointers
  BY DEF Pointers
<1>2. Logs' = Logs
  BY DEF Logs, LogOf
<1> QED BY <1>1, <1>2 DEF Log!logVars, Logs, LogOf, LogIn, Pointers

\* Storing version n of item i adds n to its log alone.
LEMMA LogGrows ==
  ASSUME TypeOK, TypeOK', NEW i \in Items, NEW n \in Nat,
         DOMAIN version' = DOMAIN version \cup {<<i, n>>}
  PROVE  Logs' = [Logs EXCEPT ![i] = @ \cup {n}]
<1>1. \A j \in Items : \A m : m \in LogIn(DOMAIN version, j) <=> <<j, m>> \in DOMAIN version
  BY InLog DEF TypeOK
<1>2. \A j \in Items : \A m : m \in LogIn(DOMAIN version', j) <=> <<j, m>> \in DOMAIN version'
  BY InLog DEF TypeOK
<1>3. \A j \in Items : \A m : m \in LogOf(j)' <=> m \in LogOf(j) \/ (j = i /\ m = n)
  BY <1>1, <1>2 DEF LogOf
<1>4. \A j \in Items : j # i => LogOf(j)' = LogOf(j)
  BY <1>3
<1>5. LogOf(i)' = LogOf(i) \cup {n}
  BY <1>3
<1> QED BY <1>4, <1>5 DEF Logs

\* Every step is one of the log, or none.
LEMMA LogStep ==
  ASSUME TypeInv, TypeInv', LogInv, [Next]_vars
  PROVE  [Log!Next]_(Log!logVars)
<1> USE DEF TypeInv
<1>1. ASSUME NEW k \in Calls, NEW r \in Request, NEW i \in Items, InsertItem(k, r, i)
      PROVE  Log!Next
  <2>1. item[i].current = 0
    BY <1>1 DEF InsertItem, LogInv, VersionsFollow, TypeOK, ItemRow
  <2>2. Pointers' = [Pointers EXCEPT ![i] = 1]
    BY <1>1 DEF InsertItem, Pointers, TypeOK, NoItem
  <2>3. Logs' = Logs
    BY <1>1 DEF InsertItem, Logs, LogOf
  <2>4. Log!Open(i)
    BY <2>1, <2>2, <2>3 DEF Log!Open, Pointers, Logs, LogOf, LogIn
  <2> QED BY <2>4 DEF Log!Next
<1>2. ASSUME NEW k \in Calls, AddFirst(k)
      PROVE  Log!Next
  <2>1. PICK i \in Items : i = request[k].item
    BY <1>2 DEF AddFirst, CallShape
  <2>2. item[i].current = 1 /\ Full(i, 0)
    BY <1>2, <2>1 DEF AddFirst, LogInv, WritersAlone, Creating
  <2>3. DOMAIN version' = DOMAIN version \cup {<<i, 1>>} /\ item' = item
    BY <1>2, <2>1, StoreTyped DEF AddFirst
  <2>4. LogOf(i) = {}
    BY <2>2, FullLog
  <2>5. Logs' = [Logs EXCEPT ![i] = @ \cup {1}]
    BY <2>3, LogGrows
  <2>6. Logs' = [Logs EXCEPT ![i] = {1}]
    BY <2>4, <2>5 DEF Logs
  <2>7. Log!First(i)
    BY <2>2, <2>3, <2>4, <2>6 DEF Log!First, Logs, LogOf, LogIn
  <2> QED BY <2>7 DEF Log!Next
<1>3. ASSUME NEW k \in Calls, AddVersion(k)
      PROVE  Log!Next
  <2>1. PICK i \in Items : i = request[k].item
    BY <1>3 DEF AddVersion, CallShape
  <2>2. PICK n \in Nat : n = mine[k].current
    BY DEF TypeOK, ItemRow
  <2>3. PICK m \in Nat : m = n + 1
    OBVIOUS
  <2>4. n = item[i].current /\ Full(i, n)
    BY <1>3, <2>1, <2>2, LogAdd
  <2>5. 0 < n
    BY <1>3, <2>2 DEF AddVersion, LogInv, ReadersBehind
  <2>6. DOMAIN version' = DOMAIN version \cup {<<i, m>>} /\ item' = item
    BY <1>3, <2>1, <2>2, <2>3, StoreTyped DEF AddVersion, NextVersion
  <2>7. LogOf(i) = 1 .. n
    BY <2>4, FullLog
  <2>8. Logs' = [Logs EXCEPT ![i] = @ \cup {m}]
    BY <2>6, LogGrows
  <2>9. Log!Append(i)
    BY <2>3, <2>4, <2>5, <2>6, <2>7, <2>8 DEF Log!Append, Logs, LogOf, LogIn
  <2> QED BY <2>9 DEF Log!Next
<1>4. ASSUME NEW k \in Calls, MergeWrite(k)
      PROVE  Log!Next
  <2>1. PICK i \in Items : i = request[k].item
    BY <1>4 DEF MergeWrite, CallShape
  <2>2. PICK n \in Nat : n = item[i].current
    BY DEF TypeOK, ItemRow
  <2>3. item'[i].current = n + 1 /\ Full(i, n + 1)
    BY <1>4, <2>1, <2>2, LogMerge
  <2>4. LogOf(i) = 1 .. n + 1
    BY <2>3, FullLog
  <2>5. \A j \in Items : j # i => item'[j] = item[j]
    BY <1>4, <2>1 DEF MergeWrite, TypeOK
  <2>6. Pointers' = [Pointers EXCEPT ![i] = @ + 1]
    BY <2>2, <2>3, <2>5 DEF Pointers
  <2>7. Logs' = Logs
    BY <1>4 DEF MergeWrite, Logs, LogOf
  <2>8. Log!Point(i)
    BY <2>2, <2>4, <2>6, <2>7 DEF Log!Point, Pointers, Logs, LogOf, LogIn
  <2> QED BY <2>8 DEF Log!Next
<1>5. ASSUME NEW k \in Calls,
             \/ AcceptReads(k) \/ GetVersion(k) \/ VersionConflict(k) \/ MergeRead(k)
             \/ Demote(k) \/ Announce(k) \/ Finalise(k) \/ GetTarget(k) \/ CallDies(k)
      PROVE  UNCHANGED Log!logVars
  <2>1. item' = item /\ DOMAIN version' = DOMAIN version
    BY <1>5 DEF AcceptReads, ReadItem, GetVersion, VersionConflict, MergeRead, Demote, Announce,
       Finalise, GetTarget, CallDies, tables
  <2> QED BY <2>1, LogSame
<1>6. ASSUME NEW k \in Calls, Transition(k)
      PROVE  UNCHANGED Log!logVars
  <2>1. ItemsKept /\ version' = version
    BY <1>6, TransitionKeeps DEF Transition
  <2> QED BY <2>1, LogSame DEF ItemsKept
<1>7. ASSUME NEW k \in Calls, Arrive(k)
      PROVE  Log!Next \/ UNCHANGED Log!logVars
  <2>1. ASSUME NEW s \in Live, NEW i \in Items, Create(k, s, i)
        PROVE  Log!Next
    <3> DEFINE r == [NoRequest EXCEPT !.op = "create", !.status = s]
    <3>1. r \in Request
      BY DEF Request, NoRequest, Live
    <3> QED BY <1>1, <2>1, <3>1 DEF Create
  <2>2. CASE item' = item /\ version' = version
    BY <2>2, LogSame
  <2>3. \/ \E s \in Live, i \in Items : Create(k, s, i)
        \/ item' = item /\ version' = version
    BY <1>7 DEF Arrive, Update, Retire, Supersede, ReadItem, Reject, Accept, Decide, tables
  <2> QED BY <2>1, <2>2, <2>3
<1>8. ASSUME Rest \/ UNCHANGED vars
      PROVE  UNCHANGED Log!logVars
  BY <1>8, LogSame DEF Rest, vars, tables
<1>9. ASSUME NEW k \in Calls, NEW i \in Items, AcceptInserts(k, i)
      PROVE  Log!Next
  BY <1>1, <1>9 DEF AcceptInserts, TypeOK
<1> QED BY <1>2, <1>3, <1>4, <1>5, <1>6, <1>7, <1>8, <1>9 DEF Next, Serve, Step

\* The versions of an item have one writer at a time: updates, accepts and
\* creates implement a log that only grows at its end and a pointer that follows.
THEOREM ImplementsLog == Spec => LogSpec
<1>1. Init => Log!Init
  <2> SUFFICES ASSUME Init PROVE Log!Init
    OBVIOUS
  <2>1. Pointers = [i \in Items |-> 0]
    BY DEF Init, Pointers, NoItem
  <2>2. DOMAIN version = {}
    BY DEF Init
  <2>3. Logs = [i \in Items |-> {}]
    BY <2>2 DEF Logs, LogOf, LogIn
  <2> QED BY <2>1, <2>3 DEF Log!Init, Pointers, Logs, LogOf, LogIn
<1> QED BY <1>1, LogStep, LogInvariant, PTL DEF Spec, LogSpec, Log!Spec

-----------------------------------------------------------------------------
(* A candidate is materialised at most once.                                 *)

\* Before a call has stored its version, and after.
Before(k) == pc[k] \in {"insert", "add_first", "get_item", "get_version", "add_version"}
After(k) == pc[k] \in {"merge_read", "merge_write", "demote", "announce", "finalise"}

\* The candidate a call works on is accepted and is nobody else's; no version
\* came of it before the call stored one, and that one is its version afterwards.
CallsOwnCandidates == \A k \in Calls :
  LET c == request[k].candidate
  IN  c # None =>
        /\ candidate[c].status = "accepted" /\ candidate[c].item = None
        /\ \A other \in Calls : other # k => request[other].candidate # c
        /\ Before(k) \/ After(k)
        /\ Before(k) => \A p \in DOMAIN version : version[p].origin # c
        /\ After(k) => /\ Stored(request[k].item, NextVersion(k))
                       /\ version[<<request[k].item, NextVersion(k)>>].origin = c

CandInv == CandidateMaterialisedOnce /\ CallsOwnCandidates

LEMMA CandInit == Init => CandInv
<1> SUFFICES ASSUME Init PROVE CandInv
  OBVIOUS
<1>1. DOMAIN version = {} /\ (\A c \in Candidates : candidate[c].item = None)
      /\ \A k \in Calls : request[k].candidate = None
  BY DEF Init, NoRequest
<1> QED BY <1>1 DEF CandInv, CandidateMaterialisedOnce, CallsOwnCandidates

\* Steps that store no version and decide nothing.
LEMMA CandQuiet ==
  ASSUME TypeInv, CandInv, NEW k \in Calls, OthersKept(k), candidate' = candidate,
         DOMAIN version' = DOMAIN version,
         \A p \in DOMAIN version : version'[p].origin = version[p].origin,
         \/ request'[k].candidate = None
         \/ /\ request'[k].candidate = request[k].candidate
            /\ \/ Before(k) /\ Before(k)'
               \/ /\ After(k) /\ After(k)'
                  /\ request'[k].item = request[k].item /\ mine'[k] = mine[k]
  PROVE  CandInv'
<1>1. CandidateMaterialisedOnce'
  BY DEF CandInv, CandidateMaterialisedOnce, Stored
<1>2. ASSUME NEW o \in Calls, NEW c, c = request'[o].candidate, c # None
      PROVE  /\ candidate'[c].status = "accepted" /\ candidate'[c].item = None
             /\ \A other \in Calls : other # o => request'[other].candidate # c
             /\ Before(o)' \/ After(o)'
             /\ Before(o)' => \A p \in DOMAIN version' : version'[p].origin # c
             /\ After(o)' => /\ Stored(request[o].item, NextVersion(o))'
                             /\ version'[<<request'[o].item, NextVersion(o)'>>].origin = c
  <2>1. c = request[o].candidate
    BY <1>2 DEF OthersKept
  <2>2. /\ candidate[c].status = "accepted" /\ candidate[c].item = None
        /\ \A other \in Calls : other # o => request[other].candidate # c
        /\ Before(o) => \A p \in DOMAIN version : version[p].origin # c
        /\ After(o) => /\ Stored(request[o].item, NextVersion(o))
                       /\ version[<<request[o].item, NextVersion(o)>>].origin = c
        /\ Before(o) \/ After(o)
    BY <1>2, <2>1 DEF CandInv, CallsOwnCandidates
  <2>3. \A other \in Calls : request'[other].candidate = request[other].candidate
                            \/ request'[other].candidate = None
    BY DEF OthersKept
  <2>4. (Before(o)' <=> Before(o)) /\ (After(o)' <=> After(o))
    BY <1>2 DEF OthersKept, Before, After
  <2>5. After(o) => request'[o].item = request[o].item /\ NextVersion(o)' = NextVersion(o)
    BY <1>2, <2>4 DEF OthersKept, Before, After, NextVersion
  <2> QED BY <1>2, <2>2, <2>3, <2>4, <2>5 DEF Stored
<1>3. CallsOwnCandidates'
  BY <1>2 DEF CallsOwnCandidates
<1> QED BY <1>1, <1>3 DEF CandInv

\* A call stores the version of its candidate, if it has one.
LEMMA CandStore ==
  ASSUME TypeInv, CandInv, NEW k \in Calls, OthersKept(k), UNCHANGED <<candidate, request, mine>>,
         request[k].item \in Items, NEW n \in Nat, n = NextVersion(k),
         ~Stored(request[k].item, n), StoreVersion(k, n), Before(k), After(k)'
  PROVE  CandInv'
<1> DEFINE p0 == <<request[k].item, n>>
           c0 == request[k].candidate
<1>1. /\ DOMAIN version' = DOMAIN version \cup {p0} /\ p0 \notin DOMAIN version
      /\ version'[p0].origin = c0
      /\ \A p \in DOMAIN version : version'[p] = version[p]
  <2>1. p0 \notin DOMAIN version
    BY DEF Stored
  <2>2. /\ DOMAIN version' = DOMAIN version \cup {p0}
        /\ version'[p0] = [status |-> request[k].status, origin |-> c0]
        /\ \A p \in DOMAIN version : p # p0 => version'[p] = version[p]
    BY StoreTyped
  <2>3. version'[p0].origin = c0
    BY <2>2
  <2>4. \A p \in DOMAIN version : version'[p] = version[p]
    BY <2>1, <2>2
  <2> QED BY <2>1, <2>2, <2>3, <2>4
<1>2. c0 # None => /\ candidate[c0].status = "accepted" /\ candidate[c0].item = None
                   /\ \A p \in DOMAIN version : version[p].origin # c0
                   /\ \A o \in Calls : o # k => request[o].candidate # c0
  BY DEF CandInv, CallsOwnCandidates
<1>3. CandidateMaterialisedOnce'
  <2>1. \A p, q \in DOMAIN version' :
          version'[p].origin # None /\ version'[p].origin = version'[q].origin => p = q
    BY <1>1, <1>2 DEF CandInv, CandidateMaterialisedOnce
  <2>2. \A p \in DOMAIN version' :
          version'[p].origin # None => candidate'[version'[p].origin].status = "accepted"
    BY <1>1, <1>2 DEF CandInv, CandidateMaterialisedOnce
  <2>3. ASSUME NEW c \in Candidates, candidate'[c].item # None
        PROVE  /\ Stored(candidate[c].item, candidate[c].version)'
               /\ version'[<<candidate'[c].item, candidate'[c].version>>].origin = c
    BY <1>1, <2>3 DEF CandInv, CandidateMaterialisedOnce, Stored
  <2> QED BY <2>1, <2>2, <2>3 DEF CandidateMaterialisedOnce
<1>4. ASSUME NEW o \in Calls, request[o].candidate # None
      PROVE  /\ Before(o)' \/ After(o)'
             /\ Before(o)' => \A p \in DOMAIN version' : version'[p].origin # request[o].candidate
             /\ After(o)' => /\ Stored(request[o].item, NextVersion(o))'
                             /\ version'[<<request[o].item, NextVersion(o)>>].origin
                                  = request[o].candidate
  <2>1. CASE o = k
    BY <1>1, <2>1 DEF Stored, NextVersion, Before, After
  <2>2. CASE o # k
    <3>1. /\ Before(o) \/ After(o)
          /\ Before(o) => \A p \in DOMAIN version : version[p].origin # request[o].candidate
          /\ After(o) => /\ Stored(request[o].item, NextVersion(o))
                         /\ version[<<request[o].item, NextVersion(o)>>].origin
                              = request[o].candidate
          /\ request[o].candidate # c0
      BY <1>4, <2>2 DEF CandInv, CallsOwnCandidates
    <3>2. (Before(o)' <=> Before(o)) /\ (After(o)' <=> After(o))
      BY <2>2 DEF OthersKept, Before, After
    <3> QED BY <1>1, <3>1, <3>2 DEF Stored, NextVersion
  <2> QED BY <2>1, <2>2
<1>5. ASSUME NEW o \in Calls, request[o].candidate # None
      PROVE  /\ candidate'[request[o].candidate].status = "accepted"
             /\ candidate'[request[o].candidate].item = None
             /\ \A other \in Calls : other # o => request'[other].candidate # request[o].candidate
  BY <1>5 DEF CandInv, CallsOwnCandidates
<1>6. request' = request /\ \A o \in Calls : NextVersion(o)' = NextVersion(o)
  BY DEF NextVersion
<1>7. CallsOwnCandidates'
  BY <1>4, <1>5, <1>6 DEF CallsOwnCandidates
<1> QED BY <1>3, <1>7 DEF CandInv

\* A candidate is decided: nothing came of it, and nobody works on it.
LEMMA CandDecide ==
  ASSUME TypeInv, CandInv, NEW k \in Calls, NEW c \in Candidates, pc[k] = "idle",
         NEW v \in {"accepted", "rejected"}, Decide(k, c, v), OthersKept(k),
         \/ request'[k].candidate = None
         \/ v = "accepted" /\ request'[k].candidate = c /\ Before(k)'
  PROVE  CandInv'
<1>1. /\ \A p \in DOMAIN version : version[p].origin # c
      /\ candidate[c].item = None
      /\ \A o \in Calls : request[o].candidate # c
  <2>1. candidate[c].status = "proposed" /\ c # None
    BY NoneAssumption DEF Decide, Undecided
  <2>2. \A p \in DOMAIN version : version[p].origin # c
    BY <2>1 DEF CandInv, CandidateMaterialisedOnce
  <2>3. candidate[c].item = None
    BY <2>2 DEF CandInv, CandidateMaterialisedOnce, Stored
  <2>4. \A o \in Calls : request[o].candidate # c
    BY <2>1 DEF CandInv, CallsOwnCandidates
  <2> QED BY <2>2, <2>3, <2>4
<1>2. /\ candidate'[c].status = v /\ candidate'[c].item = None
      /\ \A d \in Candidates : d # c => candidate'[d] = candidate[d]
      /\ \A d \in Candidates : candidate'[d].item = candidate[d].item
                               /\ candidate'[d].version = candidate[d].version
      /\ version' = version /\ mine' = mine
  BY <1>1 DEF Decide, TypeInv, TypeOK, CandidateRow
<1>3. CandidateMaterialisedOnce'
  BY <1>1, <1>2 DEF CandInv, CandidateMaterialisedOnce, Stored, TypeInv, TypeOK, VersionRow
<1>4. ASSUME NEW o \in Calls, o # k, request[o].candidate # None
      PROVE  /\ request[o].candidate \in Candidates /\ request[o].candidate # c
             /\ request'[o] = request[o] /\ (Before(o)' <=> Before(o)) /\ (After(o)' <=> After(o))
             /\ NextVersion(o)' = NextVersion(o)
  BY <1>1, <1>2, <1>4 DEF OthersKept, Before, After, NextVersion, TypeInv, TypeOK, Request
<1>5. ASSUME NEW o \in Calls, NEW d, d = request'[o].candidate, d # None
      PROVE  /\ candidate'[d].status = "accepted" /\ candidate'[d].item = None
             /\ \A other \in Calls : other # o => request'[other].candidate # d
             /\ Before(o)' \/ After(o)'
             /\ Before(o)' => \A p \in DOMAIN version' : version'[p].origin # d
             /\ After(o)' => /\ Stored(request[o].item, NextVersion(o))'
                             /\ version'[<<request'[o].item, NextVersion(o)'>>].origin = d
  <2>1. \A other \in Calls : other # k => request'[other] = request[other]
    BY DEF OthersKept
  <2>2. CASE o = k
    <3>1. d = c /\ Before(k)' /\ v = "accepted" /\ ~After(k)'
      BY <1>5, <2>2 DEF Before, After
    <3> QED BY <1>1, <1>2, <2>1, <2>2, <3>1
  <2>3. CASE o # k
    <3>1. d = request[o].candidate /\ d \in Candidates /\ d # c
          /\ request'[k].candidate \in {None, c}
      BY <1>4, <1>5, <2>1, <2>3
    <3>2. /\ candidate[d].status = "accepted" /\ candidate[d].item = None
          /\ \A other \in Calls : other # o => request[other].candidate # d
          /\ Before(o) \/ After(o)
          /\ Before(o) => \A p \in DOMAIN version : version[p].origin # d
          /\ After(o) => /\ Stored(request[o].item, NextVersion(o))
                         /\ version[<<request[o].item, NextVersion(o)>>].origin = d
      BY <1>5, <3>1 DEF CandInv, CallsOwnCandidates
    <3>3. request'[o] = request[o] /\ (Before(o)' <=> Before(o)) /\ (After(o)' <=> After(o))
          /\ NextVersion(o)' = NextVersion(o)
      BY <1>4, <1>5, <2>3, <3>1
    <3>4. \A other \in Calls : other # o => request'[other].candidate # d
      BY <1>5, <2>1, <3>1, <3>2
    <3> QED BY <1>2, <3>1, <3>2, <3>3, <3>4 DEF Stored
  <2> QED BY <2>2, <2>3
<1>6. CallsOwnCandidates'
  BY <1>5 DEF CallsOwnCandidates
<1> QED BY <1>3, <1>6 DEF CandInv

\* A request arrives: at most it claims a candidate.
LEMMA CandArrive ==
  ASSUME TypeInv, CandInv, NEW k \in Calls, Arrive(k)
  PROVE  CandInv'
<1> USE Blank DEF TypeInv, TypeOK
<1>1. pc[k] = "idle"
  BY DEF Arrive
<1>2. ASSUME NEW s \in Live, NEW i \in Items, Create(k, s, i)
      PROVE  CandInv'
  <2> DEFINE r == [[NoRequest EXCEPT !.op = "create", !.status = s] EXCEPT !.item = i]
  <2>1. r.candidate = None
    BY DEF NoRequest
  <2>2. request' = [request EXCEPT ![k] = r]
    BY <1>2 DEF Create, InsertItem
  <2> HIDE DEF r
  <2>3. request'[k].candidate = None /\ OthersKept(k) /\ candidate' = candidate /\ version' = version
    BY <1>2, <2>1, <2>2 DEF Create, InsertItem, OthersKept
  <2> HIDE DEF TypeInv
  <2> QED BY <2>3, CandQuiet
<1>3. ASSUME NEW r, r.candidate = None, NEW next, ReadItem(k, r, next)
      PROVE  CandInv'
  <2>1. request'[k].candidate = None /\ OthersKept(k) /\ candidate' = candidate /\ version' = version
    BY <1>3 DEF ReadItem, OthersKept, tables
  <2> HIDE DEF TypeInv
  <2> QED BY <2>1, CandQuiet
<1>4. ASSUME NEW s \in Live, NEW i \in Items, Update(k, i, s)
      PROVE  CandInv'
  <2> DEFINE r == [NoRequest EXCEPT !.op = "update", !.item = i, !.status = s]
  <2>1. r.candidate = None
    BY DEF NoRequest
  <2> QED BY <1>3, <1>4, <2>1 DEF Update
<1>5. ASSUME NEW i \in Items, Retire(k, i)
      PROVE  CandInv'
  <2> DEFINE r == [NoRequest EXCEPT !.op = "retire", !.item = i]
  <2>1. r.candidate = None
    BY DEF NoRequest
  <2> QED BY <1>3, <1>5, <2>1 DEF Retire
<1>6. ASSUME NEW i \in Items, NEW by \in Items, Supersede(k, i, by)
      PROVE  CandInv'
  <2> DEFINE r == [NoRequest EXCEPT !.op = "supersede", !.item = i, !.by = by]
  <2>1. r.candidate = None
    BY DEF NoRequest
  <2> QED BY <1>3, <1>6, <2>1 DEF Supersede
<1>7. ASSUME NEW c \in Candidates, Reject(k, c)
      PROVE  CandInv'
  <2>1. /\ Decide(k, c, "rejected") /\ OthersKept(k)
        /\ request'[k].candidate = None
    BY <1>1, <1>7 DEF Reject, Decide, OthersKept, CallShape
  <2> HIDE DEF TypeInv
  <2> QED BY <1>1, <2>1, CandDecide
<1>8. ASSUME NEW c \in Candidates, NEW t \in Items \cup {None}, NEW s \in Live, Accept(k, c, t, s)
      PROVE  CandInv'
  <2> DEFINE r == [NoRequest EXCEPT !.op = "accept", !.item = t, !.candidate = c, !.status = s]
  <2>1. r.candidate = c
    BY DEF NoRequest
  <2>2. request' = [request EXCEPT ![k] = r]
    BY <1>8 DEF Accept
  <2> HIDE DEF r
  <2>3. Decide(k, c, "accepted") /\ mine' = mine /\ seen' = seen
    BY <1>8 DEF Accept, Decide
  <2>4. request'[k].candidate = c /\ pc'[k] \in {"insert", "get_item"} /\ OthersKept(k)
    BY <1>8, <2>1, <2>2, <2>3 DEF Accept, OthersKept
  <2>5. Before(k)'
    BY <2>4 DEF Before
  <2> HIDE DEF TypeInv
  <2> QED BY <1>1, <2>3, <2>4, <2>5, CandDecide
<1> QED BY <1>2, <1>4, <1>5, <1>6, <1>7, <1>8 DEF Arrive

\* finalise names the version that came of the candidate.
LEMMA CandFinalise ==
  ASSUME TypeInv, CandInv, NEW k \in Calls, Finalise(k)
  PROVE  CandInv'
<1> DEFINE c == request[k].candidate
           i == request[k].item
           n == NextVersion(k)
<1>1. c \in Candidates /\ c # None /\ After(k)
  BY NoneAssumption DEF Finalise, TypeInv, CallShape, After
<1>2. /\ Stored(i, n) /\ version[<<i, n>>].origin = c
      /\ \A o \in Calls : o # k => request[o].candidate # c
  BY <1>1 DEF CandInv, CallsOwnCandidates
<1>3. /\ candidate'[c].item = i /\ candidate'[c].version = n
      /\ candidate'[c].status = candidate[c].status
      /\ \A d \in Candidates : d # c => candidate'[d] = candidate[d]
      /\ \A d \in Candidates : candidate'[d].status = candidate[d].status
  <2> DEFINE row == [candidate[c] EXCEPT !.item = i, !.version = n]
  <2>1. row.item = i /\ row.version = n /\ row.status = candidate[c].status
    BY <1>1 DEF TypeInv, TypeOK, CandidateRow
  <2>2. candidate' = [candidate EXCEPT ![c] = row]
    BY <1>1 DEF Finalise, TypeInv, TypeOK, CandidateRow
  <2> HIDE DEF row
  <2> QED BY <1>1, <2>1, <2>2 DEF TypeInv, TypeOK
<1>4. /\ version' = version /\ OthersKept(k) /\ request'[k].candidate = None
  BY Blank DEF Finalise, Return, OthersKept, TypeInv, TypeOK
<1>5. CandidateMaterialisedOnce'
  <2>1. \A p, q \in DOMAIN version' :
          version'[p].origin # None /\ version'[p].origin = version'[q].origin => p = q
    BY <1>4 DEF CandInv, CandidateMaterialisedOnce
  <2>2. \A p \in DOMAIN version' :
          version'[p].origin # None => candidate'[version'[p].origin].status = "accepted"
    BY <1>3, <1>4 DEF CandInv, CandidateMaterialisedOnce, TypeInv, TypeOK, VersionRow
  <2>3. ASSUME NEW d \in Candidates, candidate'[d].item # None
        PROVE  /\ Stored(candidate[d].item, candidate[d].version)'
               /\ version'[<<candidate'[d].item, candidate'[d].version>>].origin = d
    <3>1. CASE d = c
      BY <1>2, <1>3, <1>4, <3>1 DEF Stored
    <3>2. CASE d # c
      BY <1>3, <1>4, <2>3, <3>2 DEF CandInv, CandidateMaterialisedOnce, Stored
    <3> QED BY <3>1, <3>2
  <2> QED BY <2>1, <2>2, <2>3 DEF CandidateMaterialisedOnce
<1>6. ASSUME NEW o \in Calls, NEW d, d = request'[o].candidate, d # None
      PROVE  /\ candidate'[d].status = "accepted" /\ candidate'[d].item = None
             /\ \A other \in Calls : other # o => request'[other].candidate # d
             /\ Before(o)' \/ After(o)'
             /\ Before(o)' => \A p \in DOMAIN version' : version'[p].origin # d
             /\ After(o)' => /\ Stored(request[o].item, NextVersion(o))'
                             /\ version'[<<request'[o].item, NextVersion(o)'>>].origin = d
  <2>1. o # k /\ d = request[o].candidate /\ d \in Candidates /\ d # c
    BY <1>2, <1>4, <1>6 DEF OthersKept, TypeInv, TypeOK, Request
  <2>2. /\ candidate[d].status = "accepted" /\ candidate[d].item = None
        /\ \A other \in Calls : other # o => request[other].candidate # d
        /\ Before(o) \/ After(o)
        /\ Before(o) => \A p \in DOMAIN version : version[p].origin # d
        /\ After(o) => /\ Stored(request[o].item, NextVersion(o))
                       /\ version[<<request[o].item, NextVersion(o)>>].origin = d
    BY <1>6, <2>1 DEF CandInv, CallsOwnCandidates
  <2>3. /\ request'[o] = request[o] /\ (Before(o)' <=> Before(o)) /\ (After(o)' <=> After(o))
        /\ NextVersion(o)' = NextVersion(o)
    BY <1>4, <2>1 DEF OthersKept, Before, After, NextVersion
  <2>4. \A other \in Calls : other # o => request'[other].candidate # d
    BY <1>4, <1>6, <2>2 DEF OthersKept
  <2> QED BY <1>3, <1>4, <2>1, <2>2, <2>3, <2>4 DEF Stored
<1>7. CallsOwnCandidates'
  BY <1>6 DEF CallsOwnCandidates
<1> QED BY <1>5, <1>7 DEF CandInv

\* The steps of a call.
LEMMA CandServe ==
  ASSUME TypeInv, LogInv, CandInv, NEW k \in Calls, Serve(k)
  PROVE  CandInv'
<1>1. ASSUME Return(k), candidate' = candidate, version' = version
      PROVE  CandInv'
  <2>1. OthersKept(k) /\ request'[k].candidate = None
    BY <1>1, Blank DEF Return, OthersKept, TypeInv, TypeOK
  <2> QED BY <1>1, <2>1, CandQuiet
<1>2. ASSUME NEW place, Goto(k, place), candidate' = candidate, DOMAIN version' = DOMAIN version,
             \A p \in DOMAIN version : version'[p].origin = version[p].origin,
             \/ Before(k) /\ place \in {"add_version"}
             \/ After(k) /\ place \in {"demote", "announce", "finalise"}
             \/ request[k].candidate = None
      PROVE  CandInv'
  <2>1. OthersKept(k) /\ request' = request /\ mine' = mine /\ pc'[k] = place
    BY <1>2 DEF Goto, OthersKept, TypeInv, TypeOK
  <2>2. \/ request'[k].candidate = None
        \/ Before(k) /\ Before(k)'
        \/ After(k) /\ After(k)'
    BY <1>2, <2>1 DEF Before, After
  <2> QED BY <1>2, <2>1, <2>2, CandQuiet
<1>3. ASSUME NEW i \in Items, AcceptInserts(k, i)
      PROVE  CandInv'
  <2> DEFINE r == [request[k] EXCEPT !.item = i]
  <2>1. r.candidate = request[k].candidate
    BY DEF TypeInv, TypeOK, Request
  <2>2. request' = [request EXCEPT ![k] = r]
    BY <1>3 DEF AcceptInserts, InsertItem
  <2> HIDE DEF r
  <2>3. /\ request'[k].candidate = request[k].candidate /\ OthersKept(k)
        /\ candidate' = candidate /\ version' = version
        /\ pc[k] = "insert" /\ pc'[k] = "add_first"
    BY <1>3, <2>1, <2>2 DEF AcceptInserts, InsertItem, OthersKept, TypeInv, TypeOK
  <2>4. Before(k) /\ Before(k)'
    BY <2>3 DEF Before
  <2> QED BY <2>3, <2>4, CandQuiet
<1>4. ASSUME NEW n \in Nat, n = NextVersion(k), StoreVersion(k, n), ~Stored(request[k].item, n),
             UNCHANGED candidate, Before(k), request[k].item \in Items,
             Goto(k, "announce") \/ Goto(k, "merge_read")
      PROVE  CandInv'
  <2>1. OthersKept(k) /\ request' = request /\ mine' = mine /\ After(k)'
    BY <1>4 DEF Goto, OthersKept, After, TypeInv, TypeOK
  <2> QED BY <1>4, <2>1, CandStore
<1>5. CASE AddFirst(k)
  <2>1. mine[k] = NoItem /\ Full(request[k].item, 0) /\ request[k].item \in Items
    BY <1>5 DEF AddFirst, TypeInv, CallShape, LogInv, WritersAlone, Creating
  <2>2. NextVersion(k) = 1
    BY <2>1, Blank DEF NextVersion
  <2>3. ~Stored(request[k].item, 1)
    BY <2>1 DEF Full
  <2>4. Before(k)
    BY <1>5 DEF AddFirst, Before
  <2> QED BY <1>4, <1>5, <2>1, <2>2, <2>3, <2>4 DEF AddFirst
<1>6. CASE AddVersion(k)
  <2>1. PICK n \in Nat : n = NextVersion(k)
    BY DEF NextVersion, TypeInv, TypeOK, ItemRow
  <2>2. /\ StoreVersion(k, n) /\ ~Stored(request[k].item, n) /\ UNCHANGED candidate
        /\ request[k].item \in Items /\ Before(k) /\ Goto(k, "merge_read")
    BY <1>6, <2>1 DEF AddVersion, Vacant, Stored, Before, TypeInv, CallShape
  <2> QED BY <1>4, <2>1, <2>2
<1>7. CASE AcceptReads(k)
  <2>1. CASE ReadItem(k, request[k], "get_version")
    <3>1. /\ OthersKept(k) /\ request'[k] = request[k] /\ candidate' = candidate /\ version' = version
          /\ pc[k] = "get_item" /\ pc'[k] = "get_version"
      BY <1>7, <2>1 DEF AcceptReads, ReadItem, OthersKept, tables, TypeInv, TypeOK
    <3>2. Before(k) /\ Before(k)'
      BY <3>1 DEF Before
    <3> QED BY <3>1, <3>2, CandQuiet
  <2>2. CASE Return(k) /\ UNCHANGED tables
    BY <1>1, <2>2 DEF tables
  <2> QED BY <1>7, <2>1, <2>2 DEF AcceptReads, tables
<1>8. CASE GetVersion(k)
  <2>1. Before(k)
    BY <1>8 DEF GetVersion, Before
  <2> QED BY <1>1, <1>2, <1>8, <2>1 DEF GetVersion, tables
<1>9. CASE VersionConflict(k) \/ CallDies(k) \/ Transition(k)
  BY <1>1, <1>9 DEF VersionConflict, CallDies, Transition, tables
<1>10. CASE MergeRead(k)
  <2>1. /\ OthersKept(k) /\ request' = request /\ mine' = mine /\ candidate' = candidate
        /\ version' = version /\ pc[k] = "merge_read" /\ pc'[k] = "merge_write"
    BY <1>10 DEF MergeRead, OthersKept, tables, TypeInv, TypeOK
  <2>2. After(k) /\ After(k)'
    BY <2>1 DEF After
  <2> QED BY <2>1, <2>2, CandQuiet
<1>11. CASE MergeWrite(k)
  <2>1. After(k)
    BY <1>11 DEF MergeWrite, After
  <2> QED BY <1>2, <1>11, <2>1 DEF MergeWrite
<1>12. CASE Demote(k)
  <2>1. After(k)
    BY <1>12 DEF Demote, After
  <2>2. /\ DOMAIN version' = DOMAIN version
        /\ \A p \in DOMAIN version : version'[p].origin = version[p].origin
    BY <1>12 DEF Demote, TypeInv, TypeOK, VersionRow
  <2> QED BY <1>2, <1>12, <2>1, <2>2 DEF Demote
<1>13. CASE Announce(k)
  <2>1. After(k)
    BY <1>13 DEF Announce, After
  <2> QED BY <1>1, <1>2, <1>13, <2>1 DEF Announce, tables
<1>14. CASE Finalise(k)
  BY <1>14, CandFinalise
<1>15. CASE GetTarget(k)
  <2>1. pc[k] = "get_target" /\ ~Before(k) /\ ~After(k)
    BY <1>15 DEF GetTarget, Before, After
  <2>2. request[k].candidate = None
    BY <2>1 DEF CandInv, CallsOwnCandidates
  <2> QED BY <1>1, <1>2, <1>15, <2>2 DEF GetTarget, tables
<1> QED BY <1>3, <1>5, <1>6, <1>7, <1>8, <1>9, <1>10, <1>11, <1>12, <1>13, <1>14, <1>15
        DEF Serve, Step

LEMMA CandStutter == CandInv /\ UNCHANGED vars => CandInv'
BY DEF CandInv, CandidateMaterialisedOnce, CallsOwnCandidates, Before, After, NextVersion, Stored,
   vars, tables, calls

\* However many reviewers decide it and however often a call dies, a candidate
\* becomes at most one version, and its pointers name that one.
THEOREM MaterialisedOnce == Spec => []CandidateMaterialisedOnce
<1>1. TypeInv /\ LogInv /\ CandInv /\ [Next]_vars => CandInv'
  BY CandArrive, CandServe, CandStutter DEF Next, Rest
<1>2. CandInv => CandidateMaterialisedOnce
  BY DEF CandInv
<1> QED BY <1>1, <1>2, CandInit, LogInvariant, PTL DEF Spec

-----------------------------------------------------------------------------
(* A version takes the place of the one before it.                           *)

\* What a call that writes a version knows until it is done: nobody else makes the
\* item live, the version it stored has the status it was asked for, and what it
\* is about to demote or to announce is behind the pointer.
Knows(k) ==
  LET i == request[k].item
      n == mine[k].current
  IN  /\ Creating(k) /\ item[i].status \in Live => item[i].status = request[k].status
      /\ pc[k] = "merge_write" /\ item[i].status \in Live => item[i].status = seen[k].status
      /\ Pointing(k) => version[<<i, n + 1>>].status = request[k].status
      /\ pc[k] = "demote" => 0 < n /\ n < item[i].current /\ Stored(i, n) /\ Stored(i, n + 1)
      /\ pc[k] = "announce" =>
           /\ Stored(i, n + 1) /\ n < item[i].current
           /\ n > 0 => Stored(i, n) /\ version[<<i, n>>].status = "superseded"

WritersKnow == \A k \in Calls : Knows(k)

\* Nothing at the pointer or past it has been demoted.
NewestLive == \A i \in Items, n \in Nat :
  Stored(i, n) /\ n >= item[i].current => version[<<i, n>>].status \in Live

\* As long as no call has died, whatever is missing is what some call is about to
\* do: store the first version, point at the next one, demote the one before.
Owed(i) ==
  /\ Exists(i) /\ ~Stored(i, item[i].current) =>
       \E k \in Calls : Creating(k) /\ request[k].item = i
  /\ Stored(i, item[i].current + 1) =>
       \E k \in Calls : Pointing(k) /\ request[k].item = i
  /\ \A n \in Nat : Stored(i, n) /\ n < item[i].current /\ version[<<i, n>>].status \in Live =>
       \E k \in Calls : pc[k] = "demote" /\ request[k].item = i /\ mine[k].current = n

WritersOwe == faults = 0 => \A i \in Items : Owed(i)

SuccessionInv ==
  LiveItemMirrorsVersion /\ WritersKnow /\ AnnouncedVersionsStand /\ NewestLive /\ WritersOwe

\* The initial state satisfies it.
LEMMA SuccessionInit == Init => SuccessionInv
<1> SUFFICES ASSUME Init PROVE SuccessionInv
  OBVIOUS
<1>1. /\ \A i, n : ~Stored(i, n)
      /\ \A i \in Items : ~Exists(i)
      /\ \A k \in Calls : pc[k] = "idle"
      /\ announced = {}
  BY DEF Init, Stored, Exists, NoItem
<1>2. LiveItemMirrorsVersion /\ AnnouncedVersionsStand /\ NewestLive /\ WritersOwe
  BY <1>1 DEF LiveItemMirrorsVersion, AnnouncedVersionsStand, NewestLive, WritersOwe, Owed
<1>3. WritersKnow
  BY <1>1 DEF WritersKnow, Knows, Creating, Pointing
<1> QED BY <1>2, <1>3 DEF SuccessionInv

\* A step of call k that takes back nothing the other calls rely on: pointers move
\* forward, versions stay and are at most demoted, but for those another call is
\* about to point at, and no item another call writes becomes live.
Forward(k) ==
  /\ OthersKept(k)
  /\ \A i \in Items : item[i].current <= item'[i].current
  /\ \A p \in DOMAIN version : /\ p \in DOMAIN version'
                               /\ version'[p].status \in {version[p].status, "superseded"}
  /\ \A o \in Calls : o # k /\ Pointing(o) =>
       LET p == <<request[o].item, mine[o].current + 1>> IN version'[p].status = version[p].status
  /\ \A o \in Calls : o # k /\ (Creating(o) \/ Pointing(o)) =>
       LET i == request[o].item
       IN  item'[i].status \in Live => item'[i].status = item[i].status

\* The others go on knowing what they knew, and what was announced stands.
LEMMA SuccessionForward ==
  ASSUME TypeInv, TypeInv', LogInv, SuccessionInv, NEW k \in Calls, Forward(k)
  PROVE  /\ \A o \in Calls : o # k => Knows(o)'
         /\ announced' = announced => AnnouncedVersionsStand'
<1>1. \A i, n : Stored(i, n) => /\ Stored(i, n)'
                                /\ version'[<<i, n>>].status \in {version[<<i, n>>].status, "superseded"}
  BY DEF Forward, Stored
<1>2. \A i \in Items : /\ item[i].current \in Nat /\ item'[i].current \in Nat
                       /\ item[i].current <= item'[i].current
  BY DEF Forward, TypeInv, TypeOK, ItemRow
<1>3. ASSUME NEW o \in Calls, o # k
      PROVE  Knows(o)'
  <2>1. /\ pc'[o] = pc[o] /\ request'[o] = request[o] /\ mine'[o] = mine[o] /\ seen'[o] = seen[o]
        /\ mine[o].current \in Nat
        /\ pc[o] \notin {"idle", "insert"} => request[o].item \in Items
        /\ Knows(o)
    BY <1>3 DEF Forward, OthersKept, TypeInv, TypeOK, CallShape, ItemRow, SuccessionInv, WritersKnow
  <2>2. Creating(o) \/ Pointing(o) =>
          LET i == request[o].item IN item'[i].status \in Live => item'[i].status = item[i].status
    BY <1>3 DEF Forward
  <2>3. Pointing(o) =>
          LET p == <<request[o].item, mine[o].current + 1>> IN version'[p].status = version[p].status
    BY <1>3 DEF Forward
  <2> QED BY <1>1, <1>2, <2>1, <2>2, <2>3 DEF Knows, Creating, Pointing
<1>4. ASSUME NEW a \in announced
      PROVE  /\ Stored(a[1], a[2])' /\ a[2] <= item'[a[1]].current
             /\ a[2] > 1 => version'[<<a[1], a[2] - 1>>].status = "superseded"
  <2>1. /\ a[1] \in Items /\ a[2] \in Nat
        /\ Stored(a[1], a[2]) /\ a[2] <= item[a[1]].current
        /\ a[2] > 1 => version[<<a[1], a[2] - 1>>].status = "superseded"
    BY DEF SuccessionInv, AnnouncedVersionsStand, TypeInv, TypeOK
  <2>2. a[2] > 1 => Stored(a[1], a[2] - 1)
    BY <1>2, <2>1 DEF LogInv, VersionsFollow, Full
  <2>3. Stored(a[1], a[2])'
    BY <1>1, <2>1
  <2>4. a[2] <= item'[a[1]].current
    BY <1>2, <2>1
  <2>5. a[2] > 1 => version'[<<a[1], a[2] - 1>>].status = "superseded"
    BY <1>1, <2>1, <2>2
  <2> QED BY <2>3, <2>4, <2>5
<1>5. announced' = announced => AnnouncedVersionsStand'
  BY <1>4 DEF AnnouncedVersionsStand
<1> QED BY <1>3, <1>5

\* A step that writes no version, makes no item live, and leaves its call at a place
\* where it owes nothing; it owed nothing before, or dies.
Plain(k) ==
  /\ OthersKept(k) /\ ItemsKept /\ UNCHANGED <<version, announced>>
  /\ \A i \in Items : item'[i].status \in Live => item'[i].status = item[i].status
  /\ pc'[k] \notin {"add_first", "merge_read", "merge_write", "demote", "announce"}
  /\ \/ faults' # 0
     \/ faults' = faults /\ pc[k] \notin {"add_first", "merge_read", "merge_write", "demote"}

\* Such a step keeps everything.
LEMMA SuccessionPlain ==
  ASSUME TypeInv, TypeInv', LogInv, SuccessionInv, NEW k \in Calls, Plain(k)
  PROVE  SuccessionInv'
<1> USE DEF Plain, ItemsKept
<1>1. \A i, n : Stored(i, n)' <=> Stored(i, n)
  BY DEF Stored
<1>2. Forward(k)
  <2>1. \A i \in Items : item[i].current <= item'[i].current
    BY DEF TypeInv, TypeOK, ItemRow
  <2>2. \A o \in Calls : Creating(o) \/ Pointing(o) => request[o].item \in Items
    BY DEF Creating, Pointing, TypeInv, CallShape
  <2> QED BY <2>1, <2>2 DEF Forward
<1>3. LiveItemMirrorsVersion' /\ NewestLive'
  BY <1>1 DEF SuccessionInv, LiveItemMirrorsVersion, NewestLive
<1>4. WritersKnow'
  <2>1. Knows(k)'
    BY DEF Knows, Creating, Pointing
  <2> QED BY <1>2, <2>1, SuccessionForward DEF WritersKnow
<1>5. WritersOwe'
  BY <1>1 DEF SuccessionInv, WritersOwe, Owed, OthersKept, Creating, Pointing
<1> QED BY <1>2, <1>3, <1>4, <1>5, SuccessionForward DEF SuccessionInv

\* A new item owes its first version, and has the status that will be stored.
LEMMA SuccessionInsert ==
  ASSUME TypeInv, TypeInv', LogInv, SuccessionInv, NEW k \in Calls, NEW r \in Request,
         NEW i \in Items, pc[k] \in {"idle", "insert"}, InsertItem(k, r, i)
  PROVE  SuccessionInv'
<1>1. /\ item[i].current = 0 /\ item'[i].current = 1 /\ item'[i].status = r.status
      /\ \A j \in Items : j # i => item'[j] = item[j]
      /\ pc'[k] = "add_first" /\ request'[k].item = i /\ request'[k].status = r.status
      /\ OthersKept(k) /\ version' = version /\ announced' = announced /\ faults' = faults
      /\ ~Exists(i)
  <2>1. /\ item' = [item EXCEPT ![i] = [NoItem EXCEPT !.status = r.status, !.current = 1]]
        /\ request' = [request EXCEPT ![k] = [r EXCEPT !.item = i]]
    BY DEF InsertItem
  <2>2. /\ item'[i].current = 1 /\ item'[i].status = r.status
        /\ \A j \in Items : j # i => item'[j] = item[j]
    BY <2>1 DEF TypeInv, TypeOK, NoItem
  <2>3. request'[k].item = i /\ request'[k].status = r.status
    BY <2>1 DEF TypeInv, TypeOK, Request
  <2>4. item[i].current = 0 /\ ~Exists(i)
    BY DEF InsertItem, LogInv, VersionsFollow, TypeInv, TypeOK, ItemRow
  <2>5. OthersKept(k)
    BY <2>1 DEF InsertItem, OthersKept, TypeInv, TypeOK
  <2> QED BY <2>2, <2>3, <2>4, <2>5 DEF InsertItem, TypeInv, TypeOK
<1>2. \A j, n : Stored(j, n)' <=> Stored(j, n)
  BY <1>1 DEF Stored
<1>3. \A n \in Nat : ~Stored(i, n)
  BY <1>1 DEF LogInv, VersionsFollow, Full
<1>4. \A o \in Calls : Creating(o) \/ Pointing(o) => request[o].item \in Items \ {i}
  BY <1>1 DEF LogInv, WritersAlone, Creating, Pointing, TypeInv, CallShape
<1>5. Forward(k)
  BY <1>1, <1>4 DEF Forward, TypeInv, TypeOK, ItemRow
<1>6. LiveItemMirrorsVersion' /\ NewestLive'
  BY <1>1, <1>2, <1>3 DEF SuccessionInv, LiveItemMirrorsVersion, NewestLive
<1>7. WritersKnow'
  <2>1. Knows(k)'
    BY <1>1 DEF Knows, Creating, Pointing
  <2> QED BY <1>5, <2>1, SuccessionForward DEF WritersKnow
<1>8. WritersOwe'
  <2>1. ASSUME faults = 0, NEW j \in Items
        PROVE  Owed(j)'
    <3>1. CASE j = i
      BY <1>1, <1>2, <1>3, <3>1 DEF Owed, Creating
    <3>2. CASE j # i
      <4>1. item'[j] = item[j] /\ (Exists(j)' <=> Exists(j)) /\ Owed(j)
        BY <1>1, <2>1, <3>2 DEF Exists, SuccessionInv, WritersOwe
      <4> QED BY <1>1, <1>2, <4>1 DEF Owed, OthersKept, Creating, Pointing
    <3> QED BY <3>1, <3>2
  <2> QED BY <1>1, <2>1 DEF WritersOwe
<1> QED BY <1>1, <1>5, <1>6, <1>7, <1>8, SuccessionForward DEF SuccessionInv

\* A stored version is new, and nothing else changes but the place of its call.
LEMMA StoreEffect ==
  ASSUME TypeInv, NEW k \in Calls, NEW n \in Nat, request[k].item \in Items,
         StoreVersion(k, n), ~Stored(request[k].item, n)
  PROVE  /\ \A j, m : Stored(j, m)' <=> Stored(j, m) \/ (j = request[k].item /\ m = n)
         /\ version'[<<request[k].item, n>>].status = request[k].status
         /\ \A p \in DOMAIN version : p \in DOMAIN version' /\ version'[p] = version[p]
         /\ request[k].status \in Live
<1> DEFINE p0 == <<request[k].item, n>>
<1>1. /\ DOMAIN version' = DOMAIN version \cup {p0} /\ p0 \notin DOMAIN version
      /\ version'[p0] = [status |-> request[k].status, origin |-> request[k].candidate]
      /\ \A p \in DOMAIN version : p # p0 => version'[p] = version[p]
  BY StoreTyped DEF Stored
<1>2. request[k].status \in Live
  BY DEF TypeInv, TypeOK, Request
<1> QED BY <1>1, <1>2 DEF Stored

\* The first version: it has the status of its item, if that is still live.
LEMMA SuccessionFirst ==
  ASSUME TypeInv, TypeInv', LogInv, SuccessionInv, NEW k \in Calls, AddFirst(k)
  PROVE  SuccessionInv'
<1> DEFINE i == request[k].item
<1>1. /\ OthersKept(k) /\ item' = item /\ announced' = announced /\ faults' = faults
      /\ pc[k] = "add_first" /\ pc'[k] = "announce" /\ request' = request /\ mine' = mine
      /\ i \in Items /\ mine[k].current = 0 /\ item[i].current = 1
  BY DEF AddFirst, Goto, OthersKept, TypeInv, TypeOK, CallShape, LogInv, WritersAlone, Creating,
     NoItem
<1>2. \A n \in Nat : ~Stored(i, n)
  BY <1>1 DEF LogInv, WritersAlone, Creating, Full
<1>3. /\ \A j, m : Stored(j, m)' <=> Stored(j, m) \/ (j = i /\ m = 1)
      /\ version'[<<i, 1>>].status = request[k].status
      /\ \A p \in DOMAIN version : p \in DOMAIN version' /\ version'[p] = version[p]
      /\ request[k].status \in Live
  BY <1>1, <1>2, StoreEffect DEF AddFirst
<1>4. \A j, m : Stored(j, m) => version'[<<j, m>>] = version[<<j, m>>]
  BY <1>3 DEF Stored
<1>5. Forward(k)
  <2>1. ASSUME NEW o \in Calls, Pointing(o)
        PROVE  Stored(request[o].item, mine[o].current + 1)
    BY <2>1 DEF LogInv, WritersAlone, Full, TypeInv, TypeOK, ItemRow
  <2> QED BY <1>1, <1>3, <1>4, <2>1 DEF Forward, TypeInv, TypeOK, ItemRow
<1>6. LiveItemMirrorsVersion'
  <2>1. item[i].status \in Live => item[i].status = request[k].status
    BY <1>1 DEF SuccessionInv, WritersKnow, Knows, Creating
  <2> QED BY <1>1, <1>2, <1>3, <1>4, <2>1 DEF SuccessionInv, LiveItemMirrorsVersion
<1>7. NewestLive'
  BY <1>1, <1>3, <1>4 DEF SuccessionInv, NewestLive
<1>8. WritersKnow'
  <2>1. Knows(k)'
    BY <1>1, <1>3 DEF Knows, Creating, Pointing
  <2> QED BY <1>5, <2>1, SuccessionForward DEF WritersKnow
<1>9. WritersOwe'
  <2>1. ASSUME faults = 0, NEW j \in Items
        PROVE  Owed(j)'
    <3>1. CASE j = i
      BY <1>1, <1>2, <1>3, <3>1 DEF Owed
    <3>2. CASE j # i
      <4>1. item'[j] = item[j] /\ (Exists(j)' <=> Exists(j)) /\ Owed(j)
        BY <1>1, <2>1 DEF Exists, SuccessionInv, WritersOwe
      <4> QED BY <1>1, <1>3, <1>4, <3>2, <4>1 DEF Owed, OthersKept, Creating, Pointing
    <3> QED BY <3>1, <3>2
  <2> QED BY <1>1, <2>1 DEF WritersOwe
<1> QED BY <1>1, <1>5, <1>6, <1>7, <1>8, <1>9, SuccessionForward DEF SuccessionInv

\* The next version waits for its pointer.
LEMMA SuccessionAdd ==
  ASSUME TypeInv, TypeInv', LogInv, SuccessionInv, NEW k \in Calls, AddVersion(k)
  PROVE  SuccessionInv'
<1> DEFINE i == request[k].item
           n == mine[k].current
<1>1. /\ OthersKept(k) /\ item' = item /\ announced' = announced /\ faults' = faults
      /\ pc[k] = "add_version" /\ pc'[k] = "merge_read" /\ request' = request /\ mine' = mine
      /\ i \in Items /\ n \in Nat /\ n = item[i].current /\ Full(i, n) /\ n > 0
  BY LogAdd DEF AddVersion, Goto, OthersKept, TypeInv, TypeOK, CallShape, ItemRow, LogInv,
     ReadersBehind
<1>2. /\ \A j, m : Stored(j, m)' <=> Stored(j, m) \/ (j = i /\ m = n + 1)
      /\ version'[<<i, n + 1>>].status = request[k].status
      /\ \A p \in DOMAIN version : p \in DOMAIN version' /\ version'[p] = version[p]
      /\ request[k].status \in Live
  <2>1. StoreVersion(k, n + 1) /\ ~Stored(i, n + 1) /\ n + 1 \in Nat
    BY <1>1 DEF AddVersion, NextVersion, Vacant, Stored
  <2> QED BY <1>1, <2>1, StoreEffect
<1>3. \A j, m : Stored(j, m) => version'[<<j, m>>] = version[<<j, m>>]
  BY <1>2 DEF Stored
<1>4. Forward(k)
  <2>1. ASSUME NEW o \in Calls, Pointing(o)
        PROVE  Stored(request[o].item, mine[o].current + 1)
    BY <2>1 DEF LogInv, WritersAlone, Full, TypeInv, TypeOK, ItemRow
  <2> QED BY <1>1, <1>2, <1>3, <2>1 DEF Forward, TypeInv, TypeOK, ItemRow
<1>5. LiveItemMirrorsVersion'
  <2>1. \A j \in Items : Stored(j, item[j].current)' => Stored(j, item[j].current)
    BY <1>1, <1>2
  <2> QED BY <1>1, <1>3, <2>1 DEF SuccessionInv, LiveItemMirrorsVersion
<1>6. NewestLive'
  BY <1>1, <1>2, <1>3 DEF SuccessionInv, NewestLive
<1>7. WritersKnow'
  <2>1. Knows(k)'
    BY <1>1, <1>2 DEF Knows, Creating, Pointing
  <2> QED BY <1>4, <2>1, SuccessionForward DEF WritersKnow
<1>8. WritersOwe'
  <2>1. ASSUME faults = 0, NEW j \in Items
        PROVE  Owed(j)'
    <3>1. item'[j] = item[j] /\ (Exists(j)' <=> Exists(j)) /\ Owed(j)
      BY <1>1, <2>1 DEF Exists, SuccessionInv, WritersOwe
    <3>2. Stored(j, item[j].current + 1)' => \E o \in Calls : Pointing(o)' /\ request'[o].item = j
      BY <1>1, <1>2, <3>1 DEF Owed, OthersKept, Pointing
    <3>3. \A m \in Nat : Stored(j, m)' /\ m < item[j].current => Stored(j, m)
      BY <1>1, <1>2
    <3> QED BY <1>1, <1>2, <1>3, <3>1, <3>2, <3>3 DEF Owed, OthersKept, Creating
  <2> QED BY <1>1, <2>1 DEF WritersOwe
<1> QED BY <1>1, <1>4, <1>5, <1>6, <1>7, <1>8, SuccessionForward DEF SuccessionInv

\* The merge has read the row it is going to write.
LEMMA SuccessionRead ==
  ASSUME TypeInv, TypeInv', LogInv, SuccessionInv, NEW k \in Calls, MergeRead(k)
  PROVE  SuccessionInv'
<1>1. /\ OthersKept(k) /\ item' = item /\ version' = version
      /\ announced' = announced /\ faults' = faults
      /\ pc[k] = "merge_read" /\ pc'[k] = "merge_write" /\ request' = request /\ mine' = mine
      /\ seen'[k] = item[request[k].item]
  BY DEF MergeRead, OthersKept, tables, TypeInv, TypeOK
<1>2. \A i, n : Stored(i, n)' <=> Stored(i, n)
  BY <1>1 DEF Stored
<1>3. Forward(k)
  BY <1>1 DEF Forward, TypeInv, TypeOK, ItemRow
<1>4. LiveItemMirrorsVersion' /\ NewestLive'
  BY <1>1, <1>2 DEF SuccessionInv, LiveItemMirrorsVersion, NewestLive
<1>5. WritersKnow'
  <2>1. Knows(k)'
    BY <1>1 DEF SuccessionInv, WritersKnow, Knows, Creating, Pointing
  <2> QED BY <1>3, <2>1, SuccessionForward DEF WritersKnow
<1>6. WritersOwe'
  BY <1>1, <1>2 DEF SuccessionInv, WritersOwe, Owed, OthersKept, Exists, Creating, Pointing
<1> QED BY <1>1, <1>3, <1>4, <1>5, <1>6, SuccessionForward DEF SuccessionInv

\* The pointer moves: the item has the status of the version it now points at, and
\* the one before is left to be demoted.
LEMMA SuccessionMerge ==
  ASSUME TypeInv, TypeInv', LogInv, SuccessionInv, NEW k \in Calls, MergeWrite(k)
  PROVE  SuccessionInv'
<1> DEFINE i == request[k].item
           n == mine[k].current
<1>1. /\ OthersKept(k) /\ version' = version /\ announced' = announced /\ faults' = faults
      /\ pc[k] = "merge_write" /\ pc'[k] = "demote" /\ request' = request /\ mine' = mine
      /\ i \in Items /\ n \in Nat /\ n > 0 /\ n = item[i].current /\ Full(i, n + 1)
  BY DEF MergeWrite, Goto, OthersKept, TypeInv, TypeOK, CallShape, ItemRow, LogInv, WritersAlone,
     Pointing
<1>2. /\ item'[i].current = n + 1
      /\ item'[i].status \in Live => item'[i].status = request[k].status
      /\ \A j \in Items : j # i => item'[j] = item[j]
  <2>1. item' = [item EXCEPT ![i] = Merged(k)]
    BY DEF MergeWrite
  <2>2. Merged(k).status = IF request[k].status # seen[k].status
                             THEN request[k].status ELSE item[i].status
    BY <1>1, RowColumns DEF TypeInv
  <2>3. item[i].status \in Live => item[i].status = seen[k].status
    BY <1>1 DEF SuccessionInv, WritersKnow, Knows
  <2> QED BY <1>1, <2>1, <2>2, <2>3, LogMerge DEF TypeInv, TypeOK
<1>3. \A j, m : Stored(j, m)' <=> Stored(j, m)
  BY <1>1 DEF Stored
<1>4. Stored(i, n) /\ Stored(i, n + 1) /\ \A m \in Nat : m > n + 1 => ~Stored(i, m)
  BY <1>1 DEF Full
<1>5. version[<<i, n + 1>>].status = request[k].status /\ request[k].status \in Live
  BY <1>1 DEF SuccessionInv, WritersKnow, Knows, Pointing, TypeInv, TypeOK, Request
<1>6. \A o \in Calls : o # k /\ (Creating(o) \/ Pointing(o)) => request[o].item \in Items \ {i}
  <2>1. ASSUME NEW o \in Calls, Creating(o), request[o].item = i PROVE FALSE
    <3>1. Full(i, 0)
      BY <2>1 DEF LogInv, WritersAlone
    <3> QED BY <1>1, <3>1 DEF Full
  <2>2. ASSUME NEW o \in Calls, o # k, Pointing(o), request[o].item = i PROVE FALSE
    BY <1>1, <2>2 DEF LogInv, WritersAlone, Pointing
  <2> QED BY <2>1, <2>2 DEF Creating, Pointing, TypeInv, CallShape
<1>7. Forward(k)
  <2>1. \A j \in Items : item[j].current <= item'[j].current
    BY <1>1, <1>2 DEF TypeInv, TypeOK, ItemRow
  <2> QED BY <1>1, <1>2, <1>6, <2>1 DEF Forward
<1>8. LiveItemMirrorsVersion'
  BY <1>1, <1>2, <1>3, <1>5 DEF SuccessionInv, LiveItemMirrorsVersion
<1>9. NewestLive'
  BY <1>1, <1>2, <1>3 DEF SuccessionInv, NewestLive, TypeInv, TypeOK, ItemRow
<1>10. WritersKnow'
  <2>1. Knows(k)'
    BY <1>1, <1>2, <1>3, <1>4 DEF Knows, Creating, Pointing
  <2> QED BY <1>7, <2>1, SuccessionForward DEF WritersKnow
<1>11. WritersOwe'
  <2>1. ASSUME faults = 0, NEW j \in Items
        PROVE  Owed(j)'
    <3>1. Owed(j)
      BY <2>1 DEF SuccessionInv, WritersOwe
    <3>2. CASE j = i
      <4>1. \A m \in Nat : m < n + 1 => m = n \/ m < n
        BY <1>1
      <4>2. ~Stored(i, n + 2)
        BY <1>1, <1>4
      <4>3. \A m \in Nat : Stored(i, m) /\ m < n /\ version[<<i, m>>].status \in Live =>
               \E o \in Calls : pc'[o] = "demote" /\ request'[o].item = i /\ mine'[o].current = m
        BY <1>1, <3>1, <3>2 DEF Owed, OthersKept
      <4> QED BY <1>1, <1>2, <1>3, <1>4, <3>2, <4>1, <4>2, <4>3 DEF Owed
    <3>3. CASE j # i
      <4>1. item'[j] = item[j] /\ (Exists(j)' <=> Exists(j))
        BY <1>2, <3>3 DEF Exists
      <4> QED BY <1>1, <1>3, <3>1, <3>3, <4>1 DEF Owed, OthersKept, Creating, Pointing
    <3> QED BY <3>2, <3>3
  <2> QED BY <1>1, <2>1 DEF WritersOwe
<1> QED BY <1>1, <1>7, <1>8, <1>9, <1>10, <1>11, SuccessionForward DEF SuccessionInv

\* The version before the one just pointed at is demoted.
LEMMA SuccessionDemote ==
  ASSUME TypeInv, TypeInv', LogInv, SuccessionInv, NEW k \in Calls, Demote(k)
  PROVE  SuccessionInv'
<1> DEFINE i == request[k].item
           n == mine[k].current
<1>1. /\ OthersKept(k) /\ item' = item /\ announced' = announced /\ faults' = faults
      /\ pc[k] = "demote" /\ pc'[k] = "announce" /\ request' = request /\ mine' = mine
      /\ i \in Items /\ n \in Nat /\ n > 0 /\ n < item[i].current
      /\ Stored(i, n) /\ Stored(i, n + 1)
  BY DEF Demote, Goto, OthersKept, TypeInv, TypeOK, CallShape, ItemRow, SuccessionInv,
     WritersKnow, Knows
<1>2. /\ DOMAIN version' = DOMAIN version
      /\ version'[<<i, n>>].status = "superseded"
      /\ \A p \in DOMAIN version : p # <<i, n>> => version'[p] = version[p]
  <2>1. version[<<i, n>>] \in VersionRow
    BY <1>1 DEF TypeInv, TypeOK, Stored
  <2>2. version' = [version EXCEPT ![<<i, n>>].status = "superseded"]
    BY DEF Demote
  <2> QED BY <1>1, <2>1, <2>2 DEF Stored, VersionRow
<1>3. /\ \A j, m : Stored(j, m)' <=> Stored(j, m)
      /\ \A j, m : Stored(j, m) /\ ~(j = i /\ m = n) => version'[<<j, m>>] = version[<<j, m>>]
  BY <1>2 DEF Stored
<1>4. Forward(k)
  <2>1. ASSUME NEW o \in Calls, Pointing(o)
        PROVE  /\ Stored(request[o].item, mine[o].current + 1)
               /\ ~(request[o].item = i /\ mine[o].current + 1 = n)
    BY <1>1, <2>1 DEF LogInv, WritersAlone, Full, TypeInv, TypeOK, ItemRow
  <2>2. \A j \in Items : item[j].current <= item'[j].current
    BY <1>1 DEF TypeInv, TypeOK, ItemRow
  <2>3. \A o \in Calls : Pointing(o) =>
          LET p == <<request[o].item, mine[o].current + 1>> IN version'[p] = version[p]
    BY <1>3, <2>1
  <2> QED BY <1>1, <1>2, <2>2, <2>3 DEF Forward
<1>5. LiveItemMirrorsVersion'
  <2>1. \A j \in Items : Stored(j, item[j].current) =>
          version'[<<j, item[j].current>>] = version[<<j, item[j].current>>]
    BY <1>1, <1>3
  <2> QED BY <1>1, <1>3, <2>1 DEF SuccessionInv, LiveItemMirrorsVersion
<1>6. NewestLive'
  <2>1. \A j \in Items, m \in Nat : Stored(j, m) /\ m >= item[j].current =>
          version'[<<j, m>>] = version[<<j, m>>]
    BY <1>1, <1>3 DEF TypeInv, TypeOK, ItemRow
  <2> QED BY <1>1, <1>3, <2>1 DEF SuccessionInv, NewestLive
<1>7. WritersKnow'
  <2>1. Knows(k)'
    BY <1>1, <1>2, <1>3 DEF Knows, Creating, Pointing
  <2> QED BY <1>4, <2>1, SuccessionForward DEF WritersKnow
<1>8. WritersOwe'
  <2>1. ASSUME faults = 0, NEW j \in Items
        PROVE  Owed(j)'
    <3>1. item'[j] = item[j] /\ (Exists(j)' <=> Exists(j)) /\ Owed(j)
      BY <1>1, <2>1 DEF Exists, SuccessionInv, WritersOwe
    <3>2. ASSUME NEW m \in Nat, Stored(j, m), m < item[j].current, version'[<<j, m>>].status \in Live
          PROVE  \E o \in Calls : pc'[o] = "demote" /\ request'[o].item = j /\ mine'[o].current = m
      <4>1. ~(j = i /\ m = n)
        BY <1>2, <3>2 DEF Live
      <4>2. version'[<<j, m>>] = version[<<j, m>>]
        BY <1>3, <3>2, <4>1
      <4>3. PICK o \in Calls : pc[o] = "demote" /\ request[o].item = j /\ mine[o].current = m
        BY <3>1, <3>2, <4>2 DEF Owed
      <4> QED BY <1>1, <4>1, <4>3 DEF OthersKept
    <3> QED BY <1>1, <1>3, <3>1, <3>2 DEF Owed, OthersKept, Creating, Pointing
  <2> QED BY <1>1, <2>1 DEF WritersOwe
<1> QED BY <1>1, <1>4, <1>5, <1>6, <1>7, <1>8, SuccessionForward DEF SuccessionInv

\* What is announced is stored, behind the pointer, and its predecessor demoted.
LEMMA SuccessionAnnounce ==
  ASSUME TypeInv, TypeInv', LogInv, SuccessionInv, NEW k \in Calls, Announce(k)
  PROVE  SuccessionInv'
<1> DEFINE i == request[k].item
           n == mine[k].current
<1>1. /\ OthersKept(k) /\ item' = item /\ version' = version /\ faults' = faults
      /\ announced' = announced \cup {<<i, n + 1>>}
      /\ pc[k] = "announce" /\ pc'[k] \in {"finalise", "idle"}
      /\ i \in Items /\ n \in Nat /\ item[i].current \in Nat
  BY DEF Announce, Goto, Return, NextVersion, OthersKept, tables, TypeInv, TypeOK, CallShape, ItemRow
<1>2. \A j, m : Stored(j, m)' <=> Stored(j, m)
  BY <1>1 DEF Stored
<1>3. Forward(k)
  BY <1>1 DEF Forward, TypeInv, TypeOK, ItemRow
<1>4. LiveItemMirrorsVersion' /\ NewestLive'
  BY <1>1, <1>2 DEF SuccessionInv, LiveItemMirrorsVersion, NewestLive
<1>5. WritersKnow'
  <2>1. Knows(k)'
    BY <1>1 DEF Knows, Creating, Pointing
  <2> QED BY <1>3, <2>1, SuccessionForward DEF WritersKnow
<1>6. WritersOwe'
  BY <1>1, <1>2 DEF SuccessionInv, WritersOwe, Owed, OthersKept, Exists, Creating, Pointing
<1>7. AnnouncedVersionsStand'
  <2>1. /\ Stored(i, n + 1) /\ n + 1 <= item[i].current
        /\ n + 1 > 1 => version[<<i, n>>].status = "superseded"
    <3>1. Knows(k)
      BY DEF SuccessionInv, WritersKnow
    <3>2. Stored(i, n + 1) /\ n < item[i].current /\ (n > 0 => version[<<i, n>>].status = "superseded")
      BY <1>1, <3>1 DEF Knows
    <3> QED BY <1>1, <3>2
  <2>2. ASSUME NEW a \in announced'
        PROVE  /\ Stored(a[1], a[2]) /\ a[2] <= item[a[1]].current
               /\ a[2] > 1 => version[<<a[1], a[2] - 1>>].status = "superseded"
    <3>1. CASE a \in announced
      BY <3>1 DEF SuccessionInv, AnnouncedVersionsStand
    <3>2. CASE a = <<i, n + 1>>
      <4>1. a[1] = i /\ a[2] = n + 1 /\ a[2] - 1 = n
        BY <1>1, <3>2
      <4> QED BY <2>1, <4>1
    <3> QED BY <1>1, <2>2, <3>1, <3>2
  <2> QED BY <1>1, <1>2, <2>2 DEF AnnouncedVersionsStand
<1> QED BY <1>4, <1>5, <1>6, <1>7 DEF SuccessionInv

\* Reading an item owes nothing.
LEMMA SuccessionReadItem ==
  ASSUME TypeInv, TypeInv', LogInv, SuccessionInv, NEW k \in Calls, NEW r \in Request,
         NEW next \in {"get_version", "get_target", "transition"},
         pc[k] \in {"idle", "get_item"}, ReadItem(k, r, next)
  PROVE  SuccessionInv'
<1>1. Plain(k)
  BY DEF ReadItem, Plain, OthersKept, ItemsKept, Exists, tables, TypeInv, TypeOK
<1> QED BY <1>1, SuccessionPlain

\* The arrival of a request owes at most the first version of a new item.
LEMMA SuccessionArrive ==
  ASSUME TypeInv, TypeInv', LogInv, SuccessionInv, NEW k \in Calls, Arrive(k)
  PROVE  SuccessionInv'
<1>1. pc[k] = "idle"
  BY DEF Arrive
<1>2. ASSUME NEW s \in Live, NEW i \in Items, Create(k, s, i)
      PROVE  SuccessionInv'
  <2>1. [NoRequest EXCEPT !.op = "create", !.status = s] \in Request
    BY DEF Request, NoRequest, Live
  <2> QED BY <1>1, <1>2, <2>1, SuccessionInsert DEF Create
<1>3. ASSUME NEW s \in Live, NEW i \in Items, Update(k, i, s)
      PROVE  SuccessionInv'
  <2>1. [NoRequest EXCEPT !.op = "update", !.item = i, !.status = s] \in Request
    BY DEF Request, NoRequest, Live
  <2> QED BY <1>1, <1>3, <2>1, SuccessionReadItem DEF Update
<1>4. ASSUME NEW i \in Items, Retire(k, i)
      PROVE  SuccessionInv'
  <2>1. [NoRequest EXCEPT !.op = "retire", !.item = i] \in Request
    BY DEF Request, NoRequest, Live
  <2> QED BY <1>1, <1>4, <2>1, SuccessionReadItem DEF Retire
<1>5. ASSUME NEW i \in Items, NEW by \in Items, Supersede(k, i, by)
      PROVE  SuccessionInv'
  <2>1. [NoRequest EXCEPT !.op = "supersede", !.item = i, !.by = by] \in Request
    BY DEF Request, NoRequest, Live
  <2> QED BY <1>1, <1>5, <2>1, SuccessionReadItem DEF Supersede
<1>6. ASSUME NEW c \in Candidates, Reject(k, c)
      PROVE  SuccessionInv'
  <2>1. Plain(k)
    BY <1>1, <1>6 DEF Reject, Decide, Plain, OthersKept, ItemsKept, Exists
  <2> QED BY <2>1, SuccessionPlain
<1>7. ASSUME NEW c \in Candidates, NEW t \in Items \cup {None}, NEW s \in Live, Accept(k, c, t, s)
      PROVE  SuccessionInv'
  <2>1. /\ pc'[k] \in {"insert", "get_item"} /\ OthersKept(k)
    BY <1>7 DEF Accept, Decide, OthersKept, TypeInv, TypeOK
  <2>2. Plain(k)
    BY <1>1, <1>7, <2>1 DEF Accept, Decide, Plain, ItemsKept, Exists
  <2> QED BY <2>2, SuccessionPlain
<1> QED BY <1>2, <1>3, <1>4, <1>5, <1>6, <1>7 DEF Arrive

\* supersede and retire make no item live.
LEMMA TransitionEnds ==
  ASSUME TypeInv, NEW k \in Calls, Transition(k), NEW i \in Items, item'[i].status \in Live
  PROVE  item'[i].status = item[i].status
<1> DEFINE j == request[k].item
           one == [item[j] EXCEPT !.status = "superseded", !.supersededBy = request[k].by]
           two == [item[j] EXCEPT !.status = "retired", !.retiredAt = TRUE]
<1>1. j \in Items
  BY DEF Transition, TypeInv, CallShape
<1>2. item' \in {item, [item EXCEPT ![j] = one], [item EXCEPT ![j] = two]}
  BY DEF Transition
<1>3. one.status \notin Live /\ two.status \notin Live
  BY <1>1 DEF TypeInv, TypeOK, ItemRow, Live
<1> HIDE DEF one, two
<1> QED BY <1>1, <1>2, <1>3 DEF TypeInv, TypeOK

\* Every step of a call keeps the succession.
LEMMA SuccessionServe ==
  ASSUME TypeInv, TypeInv', LogInv, SuccessionInv, NEW k \in Calls, Serve(k)
  PROVE  SuccessionInv'
<1>1. ASSUME NEW i \in Items, AcceptInserts(k, i)
      PROVE  SuccessionInv'
  <2>1. request[k] \in Request
    BY DEF TypeInv, TypeOK
  <2> QED BY <1>1, <2>1, SuccessionInsert DEF AcceptInserts
<1>2. CASE AcceptReads(k)
  <2>1. request[k] \in Request /\ pc[k] = "get_item"
    BY <1>2 DEF AcceptReads, TypeInv, TypeOK
  <2>2. CASE ReadItem(k, request[k], "get_version")
    BY <2>1, <2>2, SuccessionReadItem
  <2>3. CASE Return(k) /\ UNCHANGED <<tables, announced, faults>>
    <3>1. Plain(k)
      BY <2>1, <2>3 DEF Return, Plain, OthersKept, ItemsKept, Exists, tables, TypeInv, TypeOK
    <3> QED BY <3>1, SuccessionPlain
  <2> QED BY <1>2, <2>2, <2>3 DEF AcceptReads
<1>3. CASE GetVersion(k) \/ VersionConflict(k) \/ GetTarget(k) \/ Finalise(k)
  <2>1. Plain(k)
    BY <1>3 DEF GetVersion, VersionConflict, GetTarget, Finalise, Goto, Return, Plain, OthersKept,
       ItemsKept, Exists, tables, TypeInv, TypeOK
  <2> QED BY <2>1, SuccessionPlain
<1>4. CASE CallDies(k)
  <2>1. Plain(k)
    BY <1>4 DEF CallDies, Return, Plain, OthersKept, ItemsKept, Exists, tables, TypeInv, TypeOK
  <2> QED BY <2>1, SuccessionPlain
<1>5. CASE Transition(k)
  <2>1. Plain(k)
    BY <1>5, TransitionKeeps, TransitionEnds
       DEF Transition, Return, Plain, OthersKept, TypeInv, TypeOK
  <2> QED BY <2>1, SuccessionPlain
<1> QED BY <1>1, <1>2, <1>3, <1>4, <1>5, SuccessionFirst, SuccessionAdd, SuccessionRead,
           SuccessionMerge, SuccessionDemote, SuccessionAnnounce DEF Serve, Step

\* And so does a step that changes nothing.
LEMMA SuccessionStutter == SuccessionInv /\ UNCHANGED vars => SuccessionInv'
BY DEF SuccessionInv, LiveItemMirrorsVersion, WritersKnow, Knows, AnnouncedVersionsStand,
   NewestLive, WritersOwe, Owed, Creating, Pointing, Stored, Exists, vars, tables, calls

\* The invariant behind the theorems on succession.
THEOREM SuccessionInvariant == Spec => [](TypeInv /\ LogInv /\ SuccessionInv)
<1>1. TypeInv /\ LogInv /\ SuccessionInv /\ [Next]_vars => (TypeInv /\ LogInv /\ SuccessionInv)'
  BY TypeArrive, TypeServe, TypeStutter, LogArrive, LogServe, LogStutter,
     SuccessionArrive, SuccessionServe, SuccessionStutter DEF Next, Rest
<1> QED BY <1>1, TypeInit, LogInit, SuccessionInit, PTL DEF Spec

\* An item that is live has the status its current version was stored with, whatever
\* updates, transitions and crashes came in between the SELECT and the UPDATE of a
\* merge.
THEOREM ItemMirrorsVersion == Spec => []LiveItemMirrorsVersion
<1>1. SuccessionInv => LiveItemMirrorsVersion
  BY DEF SuccessionInv
<1> QED BY <1>1, SuccessionInvariant, PTL

\* Without a death, an item nobody writes has one live version, the current one;
\* and what was announced stays true.
THEOREM VersionSucceeds == Spec => []VersionsSucceed
<1>1. ASSUME TypeInv, LogInv, SuccessionInv, faults = 0, NEW i \in Items, Quiet(i)
      PROVE  {p \in DOMAIN version : p[1] = i /\ version[p].status \in Live}
               = IF Exists(i) THEN {<<i, item[i].current>>} ELSE {}
  <2>1. /\ DOMAIN version \subseteq Items \X Nat /\ item[i].current \in Nat
        /\ Exists(i) <=> item[i].current > 0
        /\ Owed(i)
    BY <1>1 DEF TypeInv, TypeOK, ItemRow, LogInv, VersionsFollow, SuccessionInv, WritersOwe
  <2>2. CASE ~Exists(i)
    <3>1. \A n \in Nat : ~Stored(i, n)
      BY <1>1, <2>1, <2>2 DEF LogInv, VersionsFollow, Full
    <3>2. \A p \in DOMAIN version : p[1] # i
      BY <2>1, <3>1 DEF Stored
    <3> QED BY <2>2, <3>2
  <2>3. CASE Exists(i)
    <3>1. Stored(i, item[i].current) /\ ~Stored(i, item[i].current + 1)
      BY <1>1, <2>1, <2>3 DEF Owed, Quiet, Creating, Pointing
    <3>2. \A n \in Nat : Stored(i, n) => n <= item[i].current
      BY <1>1, <2>1, <3>1 DEF LogInv, VersionsFollow, Full
    <3>3. \A n \in Nat : Stored(i, n) /\ version[<<i, n>>].status \in Live => n = item[i].current
      BY <1>1, <2>1, <3>2 DEF Owed, Quiet
    <3>4. version[<<i, item[i].current>>].status \in Live
      BY <1>1, <2>1, <3>1 DEF SuccessionInv, NewestLive
    <3>5. \A p \in DOMAIN version : p[1] = i /\ version[p].status \in Live
                                      => p = <<i, item[i].current>>
      <4>1. ASSUME NEW p \in DOMAIN version, p[1] = i, version[p].status \in Live
            PROVE  p = <<i, item[i].current>>
        <5>1. p = <<i, p[2]>> /\ p[2] \in Nat
          BY <2>1, <4>1
        <5> QED BY <3>3, <4>1, <5>1 DEF Stored
      <4> QED BY <4>1
    <3> QED BY <2>3, <3>1, <3>4, <3>5 DEF Stored
  <2> QED BY <2>2, <2>3
<1>2. TypeInv /\ LogInv /\ SuccessionInv => VersionsSucceed
  BY <1>1 DEF VersionsSucceed, OneLiveVersion, SuccessionInv
<1> QED BY <1>2, SuccessionInvariant, PTL
=============================================================================
