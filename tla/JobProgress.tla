----------------------------- MODULE JobProgress -----------------------------
(***************************************************************************)
(* One ingest job as its client sees it: the worker process that handles   *)
(* the deliveries of the job (IngestWorker: a task per delivery, a         *)
(* semaphore, a timeout per handler, stop and drain), the rows the         *)
(* handlers write (canon_ingest_jobs, canon_ingest_job_events), and the    *)
(* SSE stream a client polls, loses and reopens.                           *)
(*                                                                         *)
(* IngestJobs models a handler in full and the sweep; here a handler is    *)
(* its claim, its progress events and its guarded settlement.  An event's  *)
(* id is drawn when the row is flushed and becomes visible at the commit,  *)
(* two steps.  A definition whose name ends in Mutant is the one that      *)
(* follows it with a plausible bug.                                        *)
(***************************************************************************)
EXTENDS Integers, FiniteSets, FiniteSetsExt

CONSTANTS
  Deliveries,   \* what the bus delivers for the job: the request and duplicates
  Concurrency,  \* worker_max_concurrency
  MaxOverruns,  \* bound: times the lease of the running job runs out
  MaxRefusals,  \* bound: handlers that are refused while a lease is live
  MaxReopens    \* bound: connections after the first

ASSUME ConcurrencyAssumption == Concurrency \in Nat \ {0}

VARIABLES
  task,     \* where each delivery is in the worker
  lease,    \* the attempts number a handler claimed with
  outcome,  \* what a handler is about to settle
  drawn,    \* the id of the event a handler has flushed, 0 if none
  pool,     \* the worker: running, stopping, stopped
  awaited,  \* the tasks the drain gathers
  status, attempts, expired,  \* the job's row, and whether its lease has run out
  nextId,   \* the sequence of event ids
  events,   \* the committed events
  stream,   \* the server side of the connection
  got,      \* the events the client has received
  told,     \* the final status the client was sent
  overruns, refusals, reopens, \* counts for the bounds
  shadowed, \* history: events that committed after an event with a larger id
  atEnd     \* history: the events committed when the client was first told the end

worker  == <<task, lease, outcome, drawn, pool, awaited>>
rows    == <<status, attempts, expired, nextId, events>>
client  == <<stream, got, told>>
bounds  == <<overruns, refusals, reopens>>
history == <<shadowed, atEnd>>
vars    == <<worker, rows, client, bounds, history>>

Terminal == {"succeeded", "failed"}
Handling == {"claim", "flush", "commit", "intake", "flush_last", "commit_last", "settle"}
Inflight(d) == task[d] \in Handling \cup {"waiting"}

Stream == [at: {"away", "list", "send", "status", "ended"}, cursor: Nat, page: SUBSET Nat]

TypeOK ==
  /\ task \in [Deliveries -> Handling \cup {"bus", "waiting", "gone"}]
  /\ lease \in [Deliveries -> Nat] /\ drawn \in [Deliveries -> Nat]
  /\ outcome \in [Deliveries -> Terminal \cup {"none"}]
  /\ pool \in {"running", "stopping", "stopped"} /\ awaited \subseteq Deliveries
  /\ status \in {"queued", "running"} \cup Terminal
  /\ attempts \in Nat /\ expired \in BOOLEAN
  /\ nextId \in Nat \ {0} /\ events \subseteq 1 .. (nextId - 1)
  /\ stream \in Stream /\ got \subseteq events /\ told \in Terminal \cup {"none"}
  /\ overruns \in Nat /\ refusals \in Nat /\ reopens \in Nat
  /\ shadowed \subseteq events /\ atEnd \subseteq events

\* submit_async has queued the job and appended its first event.
Init ==
  /\ task = [d \in Deliveries |-> "bus"]
  /\ lease = [d \in Deliveries |-> 0] /\ drawn = [d \in Deliveries |-> 0]
  /\ outcome = [d \in Deliveries |-> "none"]
  /\ pool = "running" /\ awaited = {}
  /\ status = "queued" /\ attempts = 0 /\ expired = FALSE
  /\ nextId = 2 /\ events = {1}
  /\ stream = [at |-> "away", cursor |-> 0, page |-> {}]
  /\ got = {} /\ told = "none"
  /\ overruns = 0 /\ refusals = 0 /\ reopens = 0
  /\ shadowed = {} /\ atEnd = {}

-----------------------------------------------------------------------------
(* The worker process.                                                       *)

Goto(d, place) == task' = [task EXCEPT ![d] = place]

\* A task per delivery, at once; a worker that stops drops the delivery.
DispatchMutant(d) ==
  /\ task[d] = "bus" /\ pool # "stopped"
  /\ Goto(d, "waiting")
  /\ UNCHANGED <<lease, outcome, drawn, pool, awaited, rows, client, bounds, history>>
Dispatch(d) ==
  /\ task[d] = "bus"
  /\ Goto(d, IF pool = "running" THEN "waiting" ELSE "gone")
  /\ UNCHANGED <<lease, outcome, drawn, pool, awaited, rows, client, bounds, history>>

Acquire(d) ==
  /\ task[d] = "waiting"
  /\ Cardinality({e \in Deliveries : task[e] \in Handling}) < Concurrency
  /\ Goto(d, "claim")
  /\ UNCHANGED <<lease, outcome, drawn, pool, awaited, rows, client, bounds, history>>

\* A task ends: its slot is free, what it had not committed is rolled back.
End(d) ==
  /\ Goto(d, "gone")
  /\ drawn' = [drawn EXCEPT ![d] = 0]
  /\ outcome' = [outcome EXCEPT ![d] = "none"]

\* wait_for cancels a handler that has run for worker_handler_timeout_s.
HandlerTimesOutMutant(d) ==
  /\ task[d] \in {"flush", "commit", "flush_last", "commit_last", "settle"}
  /\ End(d)
  /\ UNCHANGED <<lease, pool, awaited, rows, client, bounds, history>>
HandlerTimesOut(d) ==
  /\ task[d] \in Handling
  /\ End(d)
  /\ UNCHANGED <<lease, pool, awaited, rows, client, bounds, history>>

Stop ==
  /\ pool = "running"
  /\ pool' = "stopping"
  /\ awaited' = {d \in Deliveries : Inflight(d)}
  /\ UNCHANGED <<task, lease, outcome, drawn, rows, client, bounds, history>>

\* The drain is over when the gathered tasks are done.
Drained ==
  /\ pool = "stopping" /\ \A d \in awaited : ~Inflight(d)
  /\ pool' = "stopped"
  /\ UNCHANGED <<task, lease, outcome, drawn, awaited, rows, client, bounds, history>>

\* The grace period is over: what is in flight is cancelled, and waited for.
DrainTimesOut ==
  /\ pool = "stopping" /\ \E d \in awaited : Inflight(d)
  /\ task' = [d \in Deliveries |-> IF Inflight(d) THEN "gone" ELSE task[d]]
  /\ drawn' = [d \in Deliveries |-> 0]
  /\ outcome' = [d \in Deliveries |-> "none"]
  /\ pool' = "stopped"
  /\ UNCHANGED <<lease, awaited, rows, client, bounds, history>>

-----------------------------------------------------------------------------
(* The handler: process of the ingest service.                               *)

\* mark_running.  What is refused is gone; the bus may deliver it again.
Claim(d) ==
  /\ task[d] = "claim"
  /\ IF status = "queued" \/ (status = "running" /\ expired)
       THEN /\ status' = "running" /\ attempts' = attempts + 1 /\ expired' = FALSE
            /\ lease' = [lease EXCEPT ![d] = attempts + 1]
            /\ Goto(d, "flush")
            /\ UNCHANGED refusals
       ELSE /\ Goto(d, IF status = "running" /\ refusals < MaxRefusals THEN "bus" ELSE "gone")
            /\ refusals' = IF status = "running" /\ refusals < MaxRefusals THEN refusals + 1 ELSE refusals
            /\ UNCHANGED <<lease, status, attempts, expired>>
  /\ UNCHANGED <<outcome, drawn, pool, awaited, nextId, events, client, overruns, reopens, history>>

\* append_event: the flush draws the id ...
FlushMutant(d) ==
  /\ task[d] \in {"flush", "flush_last"}
  /\ drawn' = [drawn EXCEPT ![d] = nextId]
  /\ Goto(d, IF task[d] = "flush" THEN "commit" ELSE "commit_last")
  /\ UNCHANGED <<lease, outcome, pool, awaited, rows, client, bounds, history>>
Flush(d) ==
  /\ task[d] \in {"flush", "flush_last"}
  /\ drawn' = [drawn EXCEPT ![d] = nextId]
  /\ nextId' = nextId + 1
  /\ Goto(d, IF task[d] = "flush" THEN "commit" ELSE "commit_last")
  /\ UNCHANGED <<lease, outcome, pool, awaited, status, attempts, expired, events, client, bounds, history>>

\* ... and the commit makes the event visible.
Commit(d) ==
  /\ task[d] \in {"commit", "commit_last"}
  /\ events' = events \cup {drawn[d]}
  /\ shadowed' = IF \E e \in events : e > drawn[d] THEN shadowed \cup {drawn[d]} ELSE shadowed
  /\ drawn' = [drawn EXCEPT ![d] = 0]
  /\ Goto(d, IF task[d] = "commit" THEN "intake" ELSE "settle")
  /\ UNCHANGED <<lease, outcome, pool, awaited, status, attempts, expired, nextId, client, bounds, atEnd>>

\* The intake returns or raises; both ways an event goes before the settlement.
Intake(d) ==
  /\ task[d] = "intake"
  /\ \E result \in Terminal : outcome' = [outcome EXCEPT ![d] = result]
  /\ Goto(d, "flush_last")
  /\ UNCHANGED <<lease, drawn, pool, awaited, rows, client, bounds, history>>

\* mark_succeeded, mark_failed: only for the lease the row still has.
HoldsLease(d) == status = "running" /\ attempts = lease[d]
Settle(d) ==
  /\ task[d] = "settle"
  /\ status' = IF HoldsLease(d) THEN outcome[d] ELSE status
  /\ End(d)
  /\ UNCHANGED <<lease, pool, awaited, attempts, expired, nextId, events, client, bounds, history>>

\* started_at gets older than the lease.
LeaseExpires ==
  /\ status = "running" /\ ~expired /\ overruns < MaxOverruns
  /\ expired' = TRUE /\ overruns' = overruns + 1
  /\ UNCHANGED <<worker, status, attempts, nextId, events, client, refusals, reopens, history>>

-----------------------------------------------------------------------------
(* The stream: list the events after the cursor, send them, read the status. *)
(* The status frame that opens a stream is left out.                         *)

\* A client opens the stream with the id of the last event it received.
Open ==
  /\ stream.at \in {"away", "ended"} /\ reopens <= MaxReopens
  /\ reopens' = reopens + 1
  /\ stream' = [at |-> "list", cursor |-> IF got = {} THEN 0 ELSE Max(got), page |-> {}]
  /\ UNCHANGED <<worker, rows, got, told, overruns, refusals, history>>

\* The limit of 200 events is left out: no job has that many, so that one
\* listing takes all there are.
ListEventsMutant ==
  /\ stream.at = "list"
  /\ stream' = [stream EXCEPT !.at = "send", !.page = {e \in events : e > stream.cursor + 1}]
  /\ UNCHANGED <<worker, rows, got, told, bounds, history>>
ListEvents ==
  /\ stream.at = "list"
  /\ stream' = [stream EXCEPT !.at = "send", !.page = {e \in events : e > stream.cursor}]
  /\ UNCHANGED <<worker, rows, got, told, bounds, history>>

\* One frame per event, in the order of the ids.
SendEvent ==
  /\ stream.at = "send" /\ stream.page # {}
  /\ LET e == Min(stream.page)
     IN  /\ stream' = [stream EXCEPT !.cursor = e, !.page = @ \ {e}]
         /\ got' = got \cup {e}
  /\ UNCHANGED <<worker, rows, told, bounds, history>>

PageSent ==
  /\ stream.at = "send" /\ stream.page = {}
  /\ stream' = [stream EXCEPT !.at = "status"]
  /\ UNCHANGED <<worker, rows, got, told, bounds, history>>

\* A terminal status is the last frame; otherwise the poll sleeps and goes on.
ReadStatus ==
  /\ stream.at = "status"
  /\ IF status \in Terminal
       THEN /\ stream' = [stream EXCEPT !.at = "ended"]
            /\ told' = status
            /\ atEnd' = IF told = "none" THEN events ELSE atEnd
       ELSE /\ stream' = [stream EXCEPT !.at = "list"]
            /\ UNCHANGED <<told, atEnd>>
  /\ UNCHANGED <<worker, rows, got, bounds, shadowed>>

Disconnect ==
  /\ stream.at \in {"list", "send", "status"} /\ reopens <= MaxReopens
  /\ stream' = [at |-> "away", cursor |-> 0, page |-> {}]
  /\ UNCHANGED <<worker, rows, got, told, bounds, history>>

-----------------------------------------------------------------------------
Handler(d) ==
  Claim(d) \/ Flush(d) \/ Commit(d) \/ Intake(d) \/ Settle(d)

Poll == ListEvents \/ SendEvent \/ PageSent \/ ReadStatus

Next ==
  \/ \E d \in Deliveries : Dispatch(d) \/ Acquire(d) \/ Handler(d) \/ HandlerTimesOut(d)
  \/ Stop \/ Drained \/ DrainTimesOut
  \/ LeaseExpires
  \/ Open \/ Poll \/ Disconnect

\* The event loop gives a free slot to a waiting task, the timers of a handler
\* and of the drain fire, and the poll loop goes on while it is connected.
\* Nothing makes an intake return.
Fairness ==
  /\ \A d \in Deliveries : WF_vars(Acquire(d)) /\ WF_vars(HandlerTimesOut(d))
  /\ WF_vars(Drained) /\ WF_vars(DrainTimesOut)
  /\ WF_vars(Poll)

Spec == Init /\ [][Next]_vars /\ Fairness

-----------------------------------------------------------------------------
(* Safety and liveness.                                                      *)

\* Whatever the client has lost and reopened, an event behind its cursor that
\* it never received committed after a later one: two handlers at work on the
\* job at once, one past its lease.
NothingSkipped ==
  got # {} => \A e \in events \ got : e < Max(got) => e \in shadowed

\* What commits between the last listing and the status is not sent before the
\* end is told; a client that was told the end and opens the stream once more
\* has, with that stream's first listing, everything that was there when it was
\* first told, unless it committed after an event with a larger id.
ReopenCompletes ==
  told # "none" /\ stream.at = "status" => atEnd \ got \subseteq shadowed

\* When the worker has stopped, no handler of it runs or waits.
NothingLeftBehind == pool = "stopped" => \A d \in Deliveries : ~Inflight(d)

\* Nothing hangs: a delivery that became a task ends, even if its own intake or
\* that of the delivery whose slot it waits for never returns, and a client that
\* stays connected is told the end of a job that ends.
NothingHangs ==
  /\ \A d \in Deliveries : task[d] = "waiting" ~> task[d] \notin Handling \cup {"waiting"}
  /\ status \in Terminal /\ stream.at # "away" ~> told # "none" \/ stream.at = "away"
=============================================================================
