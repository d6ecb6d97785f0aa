------------------------- MODULE JobProgressProofs -------------------------
(***************************************************************************)
(* Proofs about JobProgress, for any set of deliveries and any bounds: the *)
(* types, what a stopped worker leaves, and what a client that loses its   *)
(* stream and reopens it has received.                                     *)
(***************************************************************************)
EXTENDS JobProgress, WellFoundedInduction, TLAPS

-----------------------------------------------------------------------------
(* The least of a page, and the last of what was received.                   *)

\* m is where the client is: the largest id it has received.
Newest(m) == m \in got /\ \A y \in got : y <= m

\* A page that is not empty has a first event, the one that is sent next.
LEMMA PageHasMin ==
  ASSUME NEW T \in SUBSET Nat, T # {}
  PROVE  Min(T) \in T /\ \A y \in T : Min(T) <= y
<1> DEFINE R == OpToRel(<, Nat)
<1>1. \A x, y \in Nat : <<y, x>> \in R <=> y < x
  BY DEF OpToRel
<1>2. IsWellFoundedOn(R, Nat)
  BY NatLessThanWellFounded
<1> HIDE DEF R
<1>3. PICK x \in T : \A y \in T : <<y, x>> \notin R
  BY <1>2, WFMin
<1>4. ASSUME NEW y \in T PROVE x <= y
  <2>1. x \in Nat /\ y \in Nat
    OBVIOUS
  <2>2. ~(y < x)
    BY <1>1, <1>3, <2>1, Zenon
  <2> QED BY <2>1, <2>2
<1> QED BY <1>4 DEF Min

\* The cursor a client reopens the stream with is the last event it received.
LEMMA MaxIsNewest ==
  ASSUME got \subseteq Nat, NEW m \in got, Newest(m)
  PROVE  Max(got) = m
<1>1. \A y \in got : m >= y
  BY DEF Newest
<1>2. \E x \in got : \A y \in got : x >= y
  BY <1>1
<1>3. Max(got) \in got /\ \A y \in got : Max(got) >= y
  BY <1>2, Zenon DEF Max
<1>4. m \in Nat /\ Max(got) \in Nat /\ m >= Max(got) /\ Max(got) >= m
  BY <1>1, <1>3
<1> QED BY <1>4

-----------------------------------------------------------------------------
(* Types.  An event is committed with the id its flush drew, a handler       *)
(* settles the outcome its intake had, and a page is of committed events.    *)

TypeInv ==
  /\ TypeOK
  /\ \A d \in Deliveries :
       /\ task[d] \in {"commit", "commit_last"} => drawn[d] \in 1 .. (nextId - 1)
       /\ task[d] \in {"flush_last", "commit_last", "settle"} => outcome[d] \in Terminal
  /\ got # {} => \E m \in got : Newest(m)
  /\ stream.page \subseteq events

\* What was received is committed, and ids are natural numbers.
LEMMA EventIds ==
  ASSUME TypeInv
  PROVE  events \subseteq Nat /\ got \subseteq Nat
<1>1. nextId \in Nat /\ events \subseteq 1 .. (nextId - 1) /\ got \subseteq events
  BY DEF TypeInv, TypeOK
<1> QED BY <1>1

\* The initial state is well typed.
LEMMA TypeInit == Init => TypeInv
<1> SUFFICES ASSUME Init PROVE TypeInv
  OBVIOUS
<1>1. stream \in Stream /\ stream.page = {} /\ 1 \in 1 .. (nextId - 1)
  BY DEF Init, Stream
<1>2. /\ task \in [Deliveries -> Handling \cup {"bus", "waiting", "gone"}]
      /\ lease \in [Deliveries -> Nat] /\ drawn \in [Deliveries -> Nat]
      /\ outcome \in [Deliveries -> Terminal \cup {"none"}]
  BY DEF Init
<1>3. expired \in BOOLEAN
  BY DEF Init
<1>4. nextId \in Nat \ {0} /\ events \subseteq 1 .. (nextId - 1)
  <2>1. nextId = 2 /\ events = {1}
    BY DEF Init
  <2> QED BY <2>1
<1>5. /\ pool \in {"running", "stopping", "stopped"} /\ awaited \subseteq Deliveries
      /\ status \in {"queued", "running"} \cup Terminal
      /\ attempts \in Nat /\ overruns \in Nat /\ refusals \in Nat /\ reopens \in Nat
  BY DEF Init
<1>6. got \subseteq events /\ shadowed \subseteq events /\ atEnd \subseteq events
      /\ told \in Terminal \cup {"none"}
  BY DEF Init
<1>7. TypeOK
  BY <1>1, <1>2, <1>3, <1>4, <1>5, <1>6 DEF TypeOK
<1> QED BY <1>1, <1>7 DEF Init, TypeInv

\* The steps of a task of the worker keep the types.
LEMMA TypeTask ==
  ASSUME TypeInv, NEW d \in Deliveries,
         Dispatch(d) \/ Acquire(d) \/ HandlerTimesOut(d)
  PROVE  TypeInv'
<1> USE DEF TypeInv, TypeOK, Handling, Newest, rows, client, bounds, history
<1>1. CASE Dispatch(d)
  BY <1>1 DEF Dispatch, Goto
<1>2. CASE Acquire(d)
  BY <1>2 DEF Acquire, Goto
<1>3. CASE HandlerTimesOut(d)
  BY <1>3 DEF HandlerTimesOut, End, Goto
<1> QED BY <1>1, <1>2, <1>3

\* Stopping and draining the worker keeps the types.
LEMMA TypePool ==
  ASSUME TypeInv, Stop \/ Drained \/ DrainTimesOut
  PROVE  TypeInv'
<1> USE DEF TypeInv, TypeOK, Handling, Newest, rows, client, bounds, history
<1>1. CASE Stop
  BY <1>1 DEF Stop
<1>2. CASE Drained
  BY <1>2 DEF Drained
<1>3. CASE DrainTimesOut
  BY <1>3 DEF DrainTimesOut, Inflight
<1> QED BY <1>1, <1>2, <1>3

\* The steps of a handler keep the types: a flush draws a fresh id, and a
\* commit adds an id that was drawn.
LEMMA TypeHandler ==
  ASSUME TypeInv, NEW d \in Deliveries, Handler(d)
  PROVE  TypeInv'
<1> USE DEF TypeInv, TypeOK, Handling, Newest, client, bounds, history, rows, Goto
<1>1. CASE Claim(d)
  <2>1. CASE status = "queued" \/ (status = "running" /\ expired)
    <3>1. lease' \in [Deliveries -> Nat] /\ attempts' \in Nat
      BY <1>1, <2>1 DEF Claim
    <3>2. task' = [task EXCEPT ![d] = "flush"] /\ status' = "running" /\ expired' = FALSE
      BY <1>1, <2>1 DEF Claim
    <3> QED BY <1>1, <3>1, <3>2 DEF Claim
  <2>2. CASE ~(status = "queued" \/ (status = "running" /\ expired))
    BY <1>1, <2>2 DEF Claim
  <2> QED BY <2>1, <2>2
<1>2. CASE Flush(d)
  <2>1. nextId' \in Nat \ {0} /\ 1 .. (nextId - 1) \subseteq 1 .. (nextId' - 1)
        /\ nextId \in 1 .. (nextId' - 1)
    BY <1>2 DEF Flush
  <2> QED BY <1>2, <2>1 DEF Flush
<1>3. CASE Commit(d)
  BY <1>3 DEF Commit
<1>4. CASE Intake(d)
  BY <1>4 DEF Intake
<1>5. CASE Settle(d)
  BY <1>5 DEF Settle, End
<1> QED BY <1>1, <1>2, <1>3, <1>4, <1>5 DEF Handler

\* The steps of the stream and of the clock, and stuttering, keep the types.
LEMMA TypeClient ==
  ASSUME TypeInv, LeaseExpires \/ Open \/ Poll \/ Disconnect \/ UNCHANGED vars
  PROVE  TypeInv'
<1> USE DEF TypeInv, TypeOK, Handling, worker, rows, client, bounds, history
<1>1. CASE LeaseExpires
  BY <1>1 DEF LeaseExpires, Newest
<1>2. CASE Open
  <2>1. got # {} => Max(got) \in Nat
    BY MaxIsNewest DEF Newest
  <2>2. stream' \in Stream /\ stream'.page = {}
    BY <1>2, <2>1 DEF Open, Stream
  <2> QED BY <1>2, <2>2 DEF Open, Newest
<1>3. CASE ListEvents
  <2>1. events \subseteq Nat
    OBVIOUS
  <2>2. stream' \in Stream /\ stream'.page \subseteq events
    BY <1>3, <2>1 DEF ListEvents, Stream
  <2> QED BY <1>3, <2>2 DEF ListEvents, Newest
<1>4. CASE SendEvent
  <2> DEFINE e == Min(stream.page)
  <2>1. e \in stream.page /\ stream.page \subseteq Nat
    BY <1>4, PageHasMin DEF SendEvent, Stream
  <2>2. \E m \in got' : \A y \in got' : y <= m
    <3>1. CASE got = {}
      BY <1>4, <2>1, <3>1 DEF SendEvent
    <3>2. CASE got # {}
      <4>1. PICK m \in got : \A y \in got : y <= m
        BY <3>2 DEF Newest
      <4>2. CASE e <= m
        BY <1>4, <2>1, <4>1, <4>2 DEF SendEvent
      <4>3. CASE ~(e <= m)
        <5>1. e \in got' /\ \A y \in got' : y <= e
          BY <1>4, <2>1, <4>1, <4>3 DEF SendEvent
        <5> QED BY <5>1
      <4> QED BY <4>2, <4>3
    <3> QED BY <3>1, <3>2
  <2> QED BY <1>4, <2>1, <2>2 DEF SendEvent, Stream, Newest
<1>5. CASE PageSent
  BY <1>5 DEF PageSent, Stream, Newest
<1>6. CASE ReadStatus
  BY <1>6 DEF ReadStatus, Stream, Terminal, Newest
<1>7. CASE Disconnect
  BY <1>7 DEF Disconnect, Stream, Newest
<1>8. CASE UNCHANGED vars
  BY <1>8 DEF vars, Newest
<1> QED BY <1>1, <1>2, <1>3, <1>4, <1>5, <1>6, <1>7, <1>8 DEF Poll

\* Every step keeps the types.
LEMMA TypeStep == TypeInv /\ [Next]_vars => TypeInv'
BY TypeTask, TypePool, TypeHandler, TypeClient DEF Next

\* The rows, the worker and the stream keep their types, in particular every
\* event, received or told the end of, is one a flush drew an id for.
THEOREM TypeCorrect == Spec => []TypeOK
<1>1. TypeInv => TypeOK
  BY DEF TypeInv
<1> QED BY <1>1, TypeInit, TypeStep, PTL DEF Spec

-----------------------------------------------------------------------------
(* The drain.                                                                *)

\* The drain awaits every handler there was when the worker was told to stop,
\* and a delivery that arrives later is dropped.
DrainInv ==
  /\ pool = "stopping" => \A d \in Deliveries : Inflight(d) => d \in awaited
  /\ NothingLeftBehind

\* No step starts a task once the worker is told to stop.
LEMMA DrainStep == TypeInv /\ DrainInv /\ [Next]_vars => DrainInv'
<1> SUFFICES ASSUME TypeInv, DrainInv, [Next]_vars PROVE DrainInv'
  OBVIOUS
<1> USE DEF TypeInv, TypeOK, DrainInv, NothingLeftBehind, Inflight, Handling, Goto
<1>1. ASSUME NEW d \in Deliveries, Dispatch(d) PROVE DrainInv'
  BY <1>1 DEF Dispatch
<1>2. ASSUME NEW d \in Deliveries, Acquire(d) PROVE DrainInv'
  BY <1>2 DEF Acquire
<1>3. ASSUME NEW d \in Deliveries, Handler(d) PROVE DrainInv'
  <2>1. Inflight(d) /\ pool' = pool /\ awaited' = awaited
    BY <1>3 DEF Handler, Claim, Flush, Commit, Intake, Settle
  <2>2. \A e \in Deliveries \ {d} : task'[e] = task[e]
    BY <1>3 DEF Handler, Claim, Flush, Commit, Intake, Settle, End
  <2> QED BY <2>1, <2>2
<1>4. ASSUME NEW d \in Deliveries, HandlerTimesOut(d) PROVE DrainInv'
  BY <1>4 DEF HandlerTimesOut, End
<1>5. CASE Stop
  BY <1>5 DEF Stop
<1>6. CASE Drained
  BY <1>6 DEF Drained
<1>7. CASE DrainTimesOut
  BY <1>7 DEF DrainTimesOut
<1>8. CASE LeaseExpires \/ Open \/ Poll \/ Disconnect
  BY <1>8 DEF LeaseExpires, Open, Poll, ListEvents, SendEvent, PageSent, ReadStatus,
              Disconnect, worker
<1>9. CASE UNCHANGED vars
  BY <1>9 DEF vars, worker
<1> QED BY <1>1, <1>2, <1>3, <1>4, <1>5, <1>6, <1>7, <1>8, <1>9 DEF Next

\* When stop() has returned, no task of the worker runs or waits: the drain
\* awaited or cancelled what was in flight, and nothing was started since.
THEOREM StopLeavesNothing == Spec => []NothingLeftBehind
<1>1. Init => DrainInv
  BY DEF Init, DrainInv, NothingLeftBehind, Inflight, Handling
<1>2. DrainInv => NothingLeftBehind
  BY DEF DrainInv
<1> QED BY <1>1, <1>2, TypeInit, TypeStep, DrainStep, PTL DEF Spec

-----------------------------------------------------------------------------
(* The stream.                                                               *)

\* The page holds events after the cursor, and the cursor is the last event
\* received.  Of the events that were neither received nor are on the page, the
\* ones behind any of that were committed late.
StreamInv ==
  /\ stream.at # "away" => (got = {} /\ stream.cursor = 0) \/ Newest(stream.cursor)
  /\ stream.at # "send" => stream.page = {}
  /\ \A x \in stream.page : stream.cursor < x
  /\ \A e \in events \ (got \cup stream.page) :
       (\E y \in got \cup stream.page : e < y) => e \in shadowed

\* Once the end was told, what a listing that is being sent leaves out of the
\* events there were came late.
EndInv ==
  told # "none" /\ stream.at \in {"send", "status"} =>
    atEnd \ (got \cup stream.page) \subseteq shadowed

\* The initial state satisfies them: nothing was listed.
LEMMA StreamInit == Init => StreamInv /\ EndInv
BY DEF Init, StreamInv, EndInv

\* What commits is either the newest event or is marked late.
LEMMA StreamCommit ==
  ASSUME TypeInv, StreamInv, EndInv, NEW d \in Deliveries, Commit(d)
  PROVE  StreamInv' /\ EndInv'
<1>1. events \subseteq Nat /\ got \subseteq events /\ stream.page \subseteq events
      /\ atEnd \subseteq events /\ drawn[d] \in Nat
  BY DEF TypeInv, TypeOK
<1>2. UNCHANGED <<stream, got, told, atEnd>> /\ events' = events \cup {drawn[d]}
      /\ shadowed \subseteq shadowed'
  BY DEF Commit, client
<1>3. (\E y \in events : drawn[d] < y) => drawn[d] \in shadowed'
  BY <1>1 DEF Commit
<1> QED BY <1>1, <1>2, <1>3 DEF StreamInv, EndInv, Newest

\* A client goes on after the last event it received.
LEMMA StreamOpen ==
  ASSUME TypeInv, StreamInv, EndInv, Open
  PROVE  StreamInv' /\ EndInv'
<1>1. CASE got = {}
  BY <1>1 DEF Open, StreamInv, EndInv, Newest, rows, history
<1>2. CASE got # {}
  <2>1. PICK m \in got : Newest(m)
    BY <1>2 DEF TypeInv
  <2>2. Max(got) = m
    BY <2>1, EventIds, MaxIsNewest
  <2> QED BY <1>2, <2>1, <2>2 DEF Open, StreamInv, EndInv, Newest, rows, history
<1> QED BY <1>1, <1>2

\* A listing holds every event after the cursor: what it leaves out was
\* received, or is behind the cursor and came late.
LEMMA StreamList ==
  ASSUME TypeInv, StreamInv, EndInv, ListEvents
  PROVE  StreamInv' /\ EndInv'
<1>1. events \subseteq Nat /\ got \subseteq events /\ atEnd \subseteq events
      /\ 0 \notin events /\ stream.cursor \in Nat
  BY DEF TypeInv, TypeOK, Stream
<1>2. /\ stream'.at = "send" /\ stream'.cursor = stream.cursor
      /\ stream'.page = {e \in events : e > stream.cursor}
      /\ UNCHANGED <<events, got, shadowed, atEnd, told>>
  BY DEF ListEvents, TypeInv, TypeOK, Stream, rows, history
<1>3. (got = {} /\ stream.cursor = 0) \/ Newest(stream.cursor)
  BY DEF StreamInv, ListEvents
<1>4. ASSUME NEW e \in events \ (got \cup stream'.page) PROVE e \in shadowed
  <2>1. e \in Nat /\ e <= stream.cursor /\ e # 0
    BY <1>1, <1>2, <1>4
  <2>2. stream.cursor \in got /\ e # stream.cursor
    BY <1>1, <1>3, <1>4, <2>1 DEF Newest
  <2>3. e < stream.cursor /\ e \notin stream.page
    BY <1>1, <2>1, <2>2 DEF ListEvents, StreamInv
  <2> QED BY <1>4, <2>2, <2>3 DEF StreamInv
<1> QED BY <1>1, <1>2, <1>3, <1>4 DEF StreamInv, EndInv, Newest

\* The least event of the page becomes the last one received.
LEMMA StreamSend ==
  ASSUME TypeInv, StreamInv, EndInv, SendEvent
  PROVE  StreamInv' /\ EndInv'
<1> DEFINE f == Min(stream.page)
<1>1. events \subseteq Nat /\ got \subseteq events /\ stream.page \in SUBSET Nat
      /\ stream.cursor \in Nat
  BY DEF TypeInv, TypeOK, Stream
<1>2. f \in stream.page /\ \A y \in stream.page : f <= y
  BY <1>1, PageHasMin DEF SendEvent
<1> HIDE DEF f
<1>3. /\ stream'.at = "send" /\ stream'.cursor = f /\ stream'.page = stream.page \ {f}
      /\ got' = got \cup {f} /\ UNCHANGED <<events, shadowed, atEnd, told>>
  BY DEF f, SendEvent, TypeInv, TypeOK, Stream, rows, history
<1>4. got' \cup stream'.page = got \cup stream.page
  BY <1>2, <1>3
<1>5. \A y \in got : y <= f
  BY <1>1, <1>2 DEF StreamInv, SendEvent, Newest
<1>6. f \in Nat /\ \A x \in stream'.page : f < x
  BY <1>1, <1>2, <1>3
<1>7. f \in got' /\ \A y \in got' : y <= f
  BY <1>3, <1>5, <1>6
<1>8. \A e \in events \ (got' \cup stream'.page) :
        (\E y \in got' \cup stream'.page : e < y) => e \in shadowed
  BY <1>4 DEF StreamInv
<1>9. StreamInv'
  BY <1>3, <1>6, <1>7, <1>8 DEF StreamInv, Newest
<1> QED BY <1>3, <1>4, <1>9 DEF EndInv, SendEvent

\* Every step keeps them.
LEMMA StreamStep ==
  TypeInv /\ StreamInv /\ EndInv /\ [Next]_vars => StreamInv' /\ EndInv'
<1> SUFFICES ASSUME TypeInv, StreamInv, EndInv, [Next]_vars
             PROVE  StreamInv' /\ EndInv'
  OBVIOUS
<1>1. ASSUME UNCHANGED <<events, stream, got, told, shadowed, atEnd>>
      PROVE  StreamInv' /\ EndInv'
  BY <1>1 DEF StreamInv, EndInv, Newest
<1>2. ASSUME NEW d \in Deliveries, Dispatch(d) \/ Acquire(d) \/ HandlerTimesOut(d)
      PROVE  StreamInv' /\ EndInv'
  BY <1>1, <1>2 DEF Dispatch, Acquire, HandlerTimesOut, rows, client, history
<1>3. ASSUME NEW d \in Deliveries, Handler(d)
      PROVE  StreamInv' /\ EndInv'
  <2>1. CASE Claim(d) \/ Flush(d) \/ Intake(d) \/ Settle(d)
    BY <1>1, <2>1 DEF Claim, Flush, Intake, Settle, rows, client, history
  <2> QED BY <1>3, <2>1, StreamCommit DEF Handler
<1>4. CASE Stop \/ Drained \/ DrainTimesOut \/ LeaseExpires
  BY <1>1, <1>4 DEF Stop, Drained, DrainTimesOut, LeaseExpires, rows, client, history
<1>5. CASE PageSent
  <2>1. stream'.at = "status" /\ stream'.cursor = stream.cursor
        /\ stream'.page = stream.page /\ stream.at = "send"
    BY <1>5 DEF PageSent, TypeInv, TypeOK, Stream
  <2> QED BY <1>5, <2>1 DEF PageSent, StreamInv, EndInv, Newest, rows, history
<1>6. CASE ReadStatus
  <2>1. stream'.at \in {"ended", "list"} /\ stream'.cursor = stream.cursor
        /\ stream'.page = stream.page /\ stream.at = "status"
    BY <1>6 DEF ReadStatus, TypeInv, TypeOK, Stream
  <2> QED BY <1>6, <2>1 DEF ReadStatus, StreamInv, EndInv, Newest, rows, history
<1>7. CASE Disconnect
  <2>1. stream'.at = "away" /\ stream'.page = {}
    BY <1>7 DEF Disconnect
  <2>2. ASSUME NEW e \in events \ got, NEW y \in got, e < y PROVE e \in shadowed
    <3>1. e \in Nat /\ y \in Nat /\ stream.cursor \in Nat /\ y <= stream.cursor
      BY <1>7 DEF Disconnect, TypeInv, TypeOK, Stream, StreamInv, Newest
    <3>2. e \notin stream.page
      BY <2>2, <3>1 DEF StreamInv
    <3> QED BY <2>2, <3>2 DEF StreamInv
  <2> QED BY <1>7, <2>1, <2>2 DEF Disconnect, StreamInv, EndInv, rows, history
<1>8. CASE UNCHANGED vars
  BY <1>1, <1>8 DEF vars, rows, client, history
<1> QED BY <1>2, <1>3, <1>4, <1>5, <1>6, <1>7, <1>8, StreamOpen, StreamList, StreamSend
        DEF Next, Poll

\* Whatever a client loses and reopens, and however many handlers append to the
\* job, it has every event behind the last one it received, except those that
\* became visible only after an event with a larger id.
THEOREM StreamSkipsNothing == Spec => []NothingSkipped
<1>1. TypeInv /\ StreamInv => NothingSkipped
  <2> SUFFICES ASSUME TypeInv, StreamInv, got # {}, NEW e \in events \ got, e < Max(got)
               PROVE  e \in shadowed
    BY DEF NothingSkipped
  <2>1. PICK m \in got : Newest(m)
    BY DEF TypeInv
  <2>2. Max(got) = m
    BY <2>1, EventIds, MaxIsNewest
  <2>3. e \notin stream.page
    <3>1. CASE stream.at # "send"
      BY <3>1 DEF StreamInv
    <3>2. CASE stream.at = "send"
      <4>1. e \in Nat /\ m \in Nat /\ stream.cursor \in Nat /\ m <= stream.cursor
        BY <2>1, <3>2 DEF TypeInv, TypeOK, Stream, StreamInv, Newest
      <4> QED BY <2>2, <4>1 DEF StreamInv
    <3> QED BY <3>1, <3>2
  <2> QED BY <2>1, <2>2, <2>3 DEF StreamInv
<1> QED BY <1>1, TypeInit, TypeStep, StreamInit, StreamStep, PTL DEF Spec

\* A client that was told the end of the job and opens the stream once more has,
\* with the first listing of it, everything that was there when it was first
\* told, but for what committed after an event with a larger id.
THEOREM ReopenedIsComplete == Spec => []ReopenCompletes
<1>1. StreamInv /\ EndInv => ReopenCompletes
  BY DEF StreamInv, EndInv, ReopenCompletes
<1> QED BY <1>1, TypeInit, TypeStep, StreamInit, StreamStep, PTL DEF Spec
=============================================================================
