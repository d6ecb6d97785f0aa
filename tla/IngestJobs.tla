----------------------------- MODULE IngestJobs -----------------------------
(***************************************************************************)
(* Asynchronous ingest: the canon_ingest_jobs row, the request that writes *)
(* it (AsyncIngestService.submit_async), the event bus, the worker tasks   *)
(* that run AsyncIngestService.process, and the stuck-job sweep.  Every    *)
(* await of the code on the database, the bus or the intake pipeline is a  *)
(* step of its own, so the steps of all the actors interleave as they do   *)
(* across replicas.                                                        *)
(*                                                                         *)
(* The clock is abstracted: expired[j] says that started_at is more than   *)
(* the lease ago.  The intake pipeline is one step with two outcomes here. *)
(*                                                                         *)
(* A definition whose name ends in Mutant is the one that follows it with  *)
(* a plausible bug; no action uses it.                                     *)
(***************************************************************************)
EXTENDS Integers, FiniteSets

CONSTANTS
  Jobs,          \* the submissions
  Workers,       \* the slots that run handlers (worker_max_concurrency, all replicas)
  None,          \* no job, no worker
  Callbacks,     \* the jobs submitted with a callback_url
  MaxAttempts,   \* settings.ingest_max_attempts
  SweepLimit,    \* the limit of reclaim_stuck
  Overrun,       \* may a handler outlive its lease (slow loop, long handler timeout)?
  MaxCrashes,    \* bound: handlers that die after their claim, calls that raise
  MaxLosses,     \* bound: publishes, deliveries and unclaimed handlers that vanish
  MaxDuplicates, \* bound: deliveries the bus repeats
  ClaimBound     \* bound: leases run out only below this number of claims

ASSUME JobsAssumption == None \notin Jobs /\ Callbacks \subseteq Jobs
ASSUME LimitAssumption == MaxAttempts \in Nat /\ SweepLimit \in Nat \ {0}
ASSUME BoundAssumption ==
  /\ Overrun \in BOOLEAN
  /\ MaxCrashes \in Nat /\ MaxLosses \in Nat /\ MaxDuplicates \in Nat
  /\ ClaimBound \in Nat

VARIABLES
  \* The canon_ingest_jobs row and its canon_ingest_job_events.
  status, attempts, expired, errorCode, trail,
  \* Where submit_async is with the job; the deliveries the bus still owes.
  submitPc, requested,
  \* One handler per slot: its place in process(), its job, its lease_attempts
  \* and the outcome it has settled.
  pc, handling, lease, settled,
  \* The sweep: the ids its SELECT returned, the ids it still has to republish.
  selected, owed,
  \* History: claims settled, what went out, pipeline runs, and who claimed last.
  ledger, announced, runs, owner,
  \* The faults spent so far.
  faults

rowVars     == <<status, attempts, expired, errorCode>>
busVars     == <<submitPc, requested>>
workerVars  == <<pc, handling, lease, settled>>
sweepVars   == <<selected, owed>>
historyVars == <<ledger, announced, runs, owner>>
vars == <<rowVars, trail, busVars, workerVars, sweepVars, historyVars, faults>>

Terminal == {"succeeded", "failed"}
Stages   == {"queued", "normalising", "finished", "failed"}
Channels == {"audit", "event", "webhook"}

\* The places where process() waits; the first three come before the claim.
Unclaimed == {"idle", "lookup", "claim"}
Claimed == {"giveup", "normalising", "intake", "finished", "mark_succeeded",
            "failed", "mark_failed", "audit", "publish", "webhook"}

TypeOK ==
  /\ status \in [Jobs -> {"absent", "queued", "running"} \cup Terminal]
  /\ attempts \in [Jobs -> Nat]
  /\ expired \in [Jobs -> BOOLEAN]
  /\ errorCode \in [Jobs -> {"none", "error", "attempts_exhausted"}]
  /\ trail \in [Jobs -> SUBSET Stages]
  /\ submitPc \in [Jobs -> {"new", "event", "audit", "publish", "done"}]
  /\ requested \subseteq Jobs
  /\ pc \in [Workers -> Unclaimed \cup Claimed]
  /\ handling \in [Workers -> Jobs \cup {None}]
  /\ lease \in [Workers -> Nat]
  /\ settled \in [Workers -> Terminal \cup {"none"}]
  /\ selected \subseteq Jobs
  /\ owed \subseteq Jobs
  /\ ledger \subseteq [job: Jobs, claim: Nat, outcome: Terminal]
  /\ announced \subseteq [job: Jobs, claim: Nat, outcome: Terminal, channel: Channels]
  /\ runs \in [Jobs -> Nat]
  /\ owner \in [Jobs -> Workers \cup {None}]
  /\ faults \in [crash: Nat, loss: Nat, duplicate: Nat]

Init ==
  /\ status = [j \in Jobs |-> "absent"]
  /\ attempts = [j \in Jobs |-> 0]
  /\ expired = [j \in Jobs |-> FALSE]
  /\ errorCode = [j \in Jobs |-> "none"]
  /\ trail = [j \in Jobs |-> {}]
  /\ submitPc = [j \in Jobs |-> "new"]
  /\ requested = {}
  /\ pc = [w \in Workers |-> "idle"]
  /\ handling = [w \in Workers |-> None]
  /\ lease = [w \in Workers |-> 0]
  /\ settled = [w \in Workers |-> "none"]
  /\ selected = {}
  /\ owed = {}
  /\ ledger = {}
  /\ announced = {}
  /\ runs = [j \in Jobs |-> 0]
  /\ owner = [j \in Jobs |-> None]
  /\ faults = [crash |-> 0, loss |-> 0, duplicate |-> 0]

-----------------------------------------------------------------------------
(* Faults, and the bus.                                                      *)

Crash == faults.crash < MaxCrashes /\ faults' = [faults EXCEPT !.crash = @ + 1]
Lose  == faults.loss < MaxLosses /\ faults' = [faults EXCEPT !.loss = @ + 1]

\* _publish_requested swallows what publish raises: the event goes out, or it
\* does not and nobody is told.
PublishRequested(j) ==
  \/ requested' = requested \cup {j} /\ UNCHANGED faults
  \/ Lose /\ UNCHANGED requested

\* The bus hands the event to a free slot; an at-least-once bus may do so again.
Deliver(w, j) ==
  /\ pc[w] = "idle" /\ j \in requested
  /\ \/ requested' = requested \ {j} /\ UNCHANGED faults
     \/ /\ faults.duplicate < MaxDuplicates
        /\ faults' = [faults EXCEPT !.duplicate = @ + 1]
        /\ UNCHANGED requested
  /\ pc' = [pc EXCEPT ![w] = "lookup"]
  /\ handling' = [handling EXCEPT ![w] = j]
  /\ UNCHANGED <<rowVars, trail, submitPc, lease, settled, sweepVars, historyVars>>

\* The event is dropped: by the bus, or by a worker that is stopping.
LoseRequest(j) ==
  /\ j \in requested /\ Lose
  /\ requested' = requested \ {j}
  /\ UNCHANGED <<rowVars, trail, submitPc, workerVars, sweepVars, historyVars>>

-----------------------------------------------------------------------------
(* submit_async: row, event, audit row, publish.                             *)

SubmitRow(j) ==
  /\ submitPc[j] = "new"
  /\ status' = [status EXCEPT ![j] = "queued"]
  /\ submitPc' = [submitPc EXCEPT ![j] = "event"]
  /\ UNCHANGED <<attempts, expired, errorCode, trail, requested, workerVars,
                 sweepVars, historyVars, faults>>

SubmitEvent(j) ==
  /\ submitPc[j] = "event"
  /\ trail' = [trail EXCEPT ![j] = @ \cup {"queued"}]
  /\ submitPc' = [submitPc EXCEPT ![j] = "audit"]
  /\ UNCHANGED <<rowVars, requested, workerVars, sweepVars, historyVars, faults>>

SubmitAudit(j) ==
  /\ submitPc[j] = "audit"
  /\ submitPc' = [submitPc EXCEPT ![j] = "publish"]
  /\ UNCHANGED <<rowVars, trail, requested, workerVars, sweepVars, historyVars, faults>>

SubmitPublish(j) ==
  /\ submitPc[j] = "publish"
  /\ PublishRequested(j)
  /\ submitPc' = [submitPc EXCEPT ![j] = "done"]
  /\ UNCHANGED <<rowVars, trail, workerVars, sweepVars, historyVars>>

\* The API process dies, or a call raises, after the row was committed.
SubmitDies(j) ==
  /\ submitPc[j] \in {"event", "audit", "publish"} /\ Lose
  /\ submitPc' = [submitPc EXCEPT ![j] = "done"]
  /\ UNCHANGED <<rowVars, trail, requested, workerVars, sweepVars, historyVars>>

-----------------------------------------------------------------------------
(* process(): one handler, in slot w.                                        *)

Goto(w, p) == pc' = [pc EXCEPT ![w] = p] /\ UNCHANGED handling

Return(w) ==
  /\ pc' = [pc EXCEPT ![w] = "idle"]
  /\ handling' = [handling EXCEPT ![w] = None]

\* get_across_workspaces: unknown and terminal jobs are skipped.
Lookup(w) ==
  /\ pc[w] = "lookup"
  /\ IF status[handling[w]] \in Terminal \cup {"absent"}
       THEN Return(w)
       ELSE Goto(w, "claim")
  /\ UNCHANGED <<rowVars, trail, busVars, lease, settled, sweepVars, historyVars, faults>>

\* The WHERE clause of mark_running.
Claimable(j) == status[j] = "queued" \/ (status[j] = "running" /\ expired[j])

\* The number a claim takes: every UPDATE of mark_running increments attempts.
NextAttemptMutant(j) == IF status[j] = "running" THEN attempts[j] ELSE attempts[j] + 1
NextAttempt(j) == attempts[j] + 1

\* The poison-job guard on the count the claim returned.
ExhaustedMutant(n) == n > MaxAttempts + 1
Exhausted(n) == n > MaxAttempts

\* mark_running: one UPDATE.
Claim(w) ==
  LET j == handling[w]
  IN  /\ pc[w] = "claim" /\ Claimable(j)
      /\ status' = [status EXCEPT ![j] = "running"]
      /\ attempts' = [attempts EXCEPT ![j] = NextAttempt(j)]
      /\ expired' = [expired EXCEPT ![j] = FALSE]
      /\ errorCode' = [errorCode EXCEPT ![j] = "none"]
      /\ lease' = [lease EXCEPT ![w] = NextAttempt(j)]
      /\ settled' = [settled EXCEPT ![w] = "none"]
      /\ owner' = [owner EXCEPT ![j] = w]
      /\ Goto(w, IF Exhausted(NextAttempt(j)) THEN "giveup" ELSE "normalising")
      /\ UNCHANGED <<trail, busVars, sweepVars, ledger, announced, runs, faults>>

\* The claim returned no row: a live lease, or a terminal job.
SkipDuplicate(w) ==
  /\ pc[w] = "claim" /\ ~Claimable(handling[w])
  /\ Return(w)
  /\ UNCHANGED <<rowVars, trail, busVars, lease, settled, sweepVars, historyVars, faults>>

\* The WHERE clause of mark_succeeded and mark_failed.
HoldsLeaseMutant1(w) == status[handling[w]] = "running"
HoldsLeaseMutant2(w) == attempts[handling[w]] = lease[w]
HoldsLease(w) ==
  status[handling[w]] = "running" /\ attempts[handling[w]] = lease[w]

\* What both UPDATEs write; the ledger keeps the claim the row was on.
Settle(w, outcome) ==
  LET j == handling[w]
  IN  /\ HoldsLease(w)
      /\ status' = [status EXCEPT ![j] = outcome]
      /\ settled' = [settled EXCEPT ![w] = outcome]
      /\ ledger' = ledger \cup {[job |-> j, claim |-> attempts[j], outcome |-> outcome]}
      /\ UNCHANGED <<attempts, expired>>

\* The terminal UPDATE matched no row: the handler bows out.
BowOutMutant(w) ==
  /\ pc[w] \in {"giveup", "mark_succeeded", "mark_failed"} /\ ~HoldsLease(w)
  /\ Goto(w, "audit")
  /\ UNCHANGED <<rowVars, trail, busVars, lease, settled, sweepVars, historyVars, faults>>
BowOut(w) ==
  /\ pc[w] \in {"giveup", "mark_succeeded", "mark_failed"} /\ ~HoldsLease(w)
  /\ Return(w)
  /\ UNCHANGED <<rowVars, trail, busVars, lease, settled, sweepVars, historyVars, faults>>

\* Past the attempts ceiling: mark_failed, and the handler returns at once.
GiveUp(w) ==
  /\ pc[w] = "giveup"
  /\ Settle(w, "failed")
  /\ errorCode' = [errorCode EXCEPT ![handling[w]] = "attempts_exhausted"]
  /\ Return(w)
  /\ UNCHANGED <<trail, busVars, lease, sweepVars, announced, runs, owner, faults>>

\* The stored payload does not decode to a valid request: the except branch runs.
RejectPayload(w) ==
  /\ pc[w] = "normalising"
  /\ Goto(w, "failed")
  /\ UNCHANGED <<rowVars, trail, busVars, lease, settled, sweepVars, historyVars, faults>>

\* The "normalising" event; the call of the intake pipeline follows.
AppendNormalising(w) ==
  /\ pc[w] = "normalising"
  /\ trail' = [trail EXCEPT ![handling[w]] = @ \cup {"normalising"}]
  /\ runs' = [runs EXCEPT ![handling[w]] = @ + 1]
  /\ Goto(w, "intake")
  /\ UNCHANGED <<rowVars, busVars, lease, settled, sweepVars, ledger, announced, owner, faults>>

\* intake.submit returns a source, or raises.
RunIntakeMutant(w) ==
  /\ pc[w] = "intake"
  /\ Goto(w, "mark_succeeded") \/ Goto(w, "failed")
  /\ UNCHANGED <<rowVars, trail, busVars, lease, settled, sweepVars, historyVars, faults>>
RunIntake(w) ==
  /\ pc[w] = "intake"
  /\ Goto(w, "finished") \/ Goto(w, "failed")
  /\ UNCHANGED <<rowVars, trail, busVars, lease, settled, sweepVars, historyVars, faults>>

AppendFinished(w) ==
  /\ pc[w] = "finished"
  /\ trail' = [trail EXCEPT ![handling[w]] = @ \cup {"finished"}]
  /\ Goto(w, "mark_succeeded")
  /\ UNCHANGED <<rowVars, busVars, lease, settled, sweepVars, historyVars, faults>>

MarkSucceeded(w) ==
  /\ pc[w] = "mark_succeeded"
  /\ Settle(w, "succeeded")
  /\ Goto(w, "audit")
  /\ UNCHANGED <<errorCode, trail, busVars, lease, sweepVars, announced, runs, owner, faults>>

\* The except branch: the "failed" event first, then mark_failed.
AppendFailed(w) ==
  /\ pc[w] = "failed"
  /\ trail' = [trail EXCEPT ![handling[w]] = @ \cup {"failed"}]
  /\ Goto(w, "mark_failed")
  /\ UNCHANGED <<rowVars, busVars, lease, settled, sweepVars, historyVars, faults>>

MarkFailed(w) ==
  /\ pc[w] = "mark_failed"
  /\ Settle(w, "failed")
  /\ errorCode' = [errorCode EXCEPT ![handling[w]] = "error"]
  /\ Goto(w, "audit")
  /\ UNCHANGED <<trail, busVars, lease, sweepVars, announced, runs, owner, faults>>

\* What handler w tells the outside about the outcome it settled.
Notice(w, channel) ==
  [job |-> handling[w], claim |-> lease[w], outcome |-> settled[w], channel |-> channel]

\* The publish and the webhook are single shots whose failure is swallowed.
Send(w, channel) ==
  \/ announced' = announced \cup {Notice(w, channel)} /\ UNCHANGED faults
  \/ Lose /\ UNCHANGED announced

RecordAudit(w) ==
  /\ pc[w] = "audit"
  /\ announced' = announced \cup {Notice(w, "audit")}
  /\ Goto(w, "publish")
  /\ UNCHANGED <<rowVars, trail, busVars, lease, settled, sweepVars, ledger, runs, owner, faults>>

PublishFinish(w) ==
  /\ pc[w] = "publish"
  /\ Send(w, "event")
  /\ IF handling[w] \in Callbacks THEN Goto(w, "webhook") ELSE Return(w)
  /\ UNCHANGED <<rowVars, trail, busVars, lease, settled, sweepVars, ledger, runs, owner>>

FireWebhook(w) ==
  /\ pc[w] = "webhook"
  /\ Send(w, "webhook")
  /\ Return(w)
  /\ UNCHANGED <<rowVars, trail, busVars, lease, settled, sweepVars, ledger, runs, owner>>

\* An await inside the try block raises: the except branch runs, also when the
\* success is already committed and it is the audit row that cannot be written.
StepRaises(w) ==
  /\ pc[w] \in {"normalising", "finished", "mark_succeeded"}
       \/ (pc[w] = "audit" /\ settled[w] = "succeeded")
  /\ Crash
  /\ Goto(w, "failed")
  /\ UNCHANGED <<rowVars, trail, busVars, lease, settled, sweepVars, historyVars>>

\* The handler ends here and now: killed with its process, cancelled by the
\* handler timeout or by the drain, or by an exception the dispatcher swallows.
HandlerDies(w) ==
  /\ \/ pc[w] \in {"lookup", "claim"} /\ Lose
     \/ pc[w] \in Claimed /\ Crash
  /\ Return(w)
  /\ UNCHANGED <<rowVars, trail, busVars, lease, settled, sweepVars, historyVars>>

-----------------------------------------------------------------------------
(* Leases and the sweep.                                                     *)

\* The handler whose claim is the row's current one is still at work.
Live(j) == \E w \in Workers :
  pc[w] \in Claimed /\ handling[w] = j /\ lease[w] = attempts[j]

ExpireLease(j) ==
  /\ status[j] = "running" /\ ~expired[j] /\ attempts[j] < ClaimBound
  /\ Overrun \/ ~Live(j)
  /\ expired' = [expired EXCEPT ![j] = TRUE]
  /\ UNCHANGED <<status, attempts, errorCode, trail, busVars, workerVars,
                 sweepVars, historyVars, faults>>

Stale == {j \in Jobs : status[j] = "running" /\ expired[j]}

\* The SELECT of reclaim_stuck: at most SweepLimit ids, in no particular order.
SweepSelect ==
  /\ selected = {} /\ owed = {} /\ Stale # {}
  /\ \E S \in SUBSET Stale :
       /\ Cardinality(S) <= SweepLimit
       /\ S = Stale \/ Cardinality(S) = SweepLimit
       /\ selected' = S
  /\ UNCHANGED <<rowVars, trail, busVars, workerVars, owed, historyVars, faults>>

\* Its UPDATE goes by id alone, and the transaction commits.
SweepUpdate ==
  /\ selected # {}
  /\ status' = [j \in Jobs |-> IF j \in selected THEN "queued" ELSE status[j]]
  /\ errorCode' = [j \in Jobs |-> IF j \in selected THEN "none" ELSE errorCode[j]]
  /\ owed' = selected
  /\ selected' = {}
  /\ UNCHANGED <<attempts, expired, trail, busVars, workerVars, historyVars, faults>>

SweepRepublishMutant(j) ==
  /\ j \in owed
  /\ owed' = owed \ {j}
  /\ UNCHANGED <<rowVars, trail, busVars, workerVars, selected, historyVars, faults>>
SweepRepublish(j) ==
  /\ j \in owed
  /\ PublishRequested(j)
  /\ owed' = owed \ {j}
  /\ UNCHANGED <<rowVars, trail, submitPc, workerVars, selected, historyVars>>

\* The process that runs the sweep dies; an uncommitted SELECT leaves no trace.
SweepDies ==
  /\ selected # {} \/ owed # {}
  /\ Lose
  /\ selected' = {} /\ owed' = {}
  /\ UNCHANGED <<rowVars, trail, busVars, workerVars, historyVars>>

-----------------------------------------------------------------------------
Submit(j) == SubmitEvent(j) \/ SubmitAudit(j) \/ SubmitPublish(j)

Handle(w) ==
  \/ Lookup(w) \/ Claim(w) \/ SkipDuplicate(w) \/ BowOut(w) \/ GiveUp(w)
  \/ RejectPayload(w) \/ AppendNormalising(w) \/ RunIntake(w) \/ AppendFinished(w) \/ MarkSucceeded(w)
  \/ AppendFailed(w) \/ MarkFailed(w)
  \/ RecordAudit(w) \/ PublishFinish(w) \/ FireWebhook(w)

Next ==
  \/ \E j \in Jobs :
       SubmitRow(j) \/ Submit(j) \/ SubmitDies(j) \/ LoseRequest(j)
       \/ ExpireLease(j) \/ SweepRepublish(j)
  \/ \E w \in Workers, j \in Jobs : Deliver(w, j)
  \/ \E w \in Workers : Handle(w) \/ StepRaises(w) \/ HandlerDies(w)
  \/ SweepSelect \/ SweepUpdate \/ SweepDies

Spec == Init /\ [][Next]_vars

\* The event loop runs every handler and every request to its end, the bus
\* delivers what it still holds while a slot is free, the scheduler calls the
\* sweep every minute, and time passes.
Fairness ==
  /\ \A w \in Workers : WF_vars(Handle(w))
  /\ \A j \in Jobs :
       /\ WF_vars(Submit(j))
       /\ WF_vars(\E w \in Workers : Deliver(w, j))
       /\ WF_vars(ExpireLease(j))
       /\ WF_vars(SweepRepublish(j))
  /\ WF_vars(SweepSelect)
  /\ WF_vars(SweepUpdate)

FairSpec == Spec /\ Fairness

-----------------------------------------------------------------------------
(* Properties.                                                               *)

\* No claim of a job settles two outcomes, whoever crashed, overran its lease
\* or had its audit row refused after the commit (the expected_attempts guard
\* of mark_succeeded and mark_failed, and the except branch of process()).
SettledOncePerClaim ==
  \A e, f \in ledger : e.job = f.job /\ e.claim = f.claim => e = f

\* What the outside hears is what the row was set to under the very claim that
\* says it: a handler that lost its lease announces nothing.
AnnouncedWasSettled ==
  \A a \in announced : [job |-> a.job, claim |-> a.claim, outcome |-> a.outcome] \in ledger

\* "The durable record is the audit row": no event and no webhook goes out for
\* an outcome whose audit row was not written.
BroadcastIsAudited ==
  \A a \in announced : [a EXCEPT !.channel = "audit"] \in announced

\* A payload that keeps killing its worker enters the intake pipeline at most
\* ingest_max_attempts times, across crashes, redeliveries, lost leases and
\* sweeps (the poison-job guard).
PipelineRunsBounded == \A j \in Jobs : runs[j] <= MaxAttempts

\* The progress feed never lags behind the header: a row that reads succeeded
\* has its "finished" event, and one that failed with the pipeline's error has
\* its "failed" event.
TrailBacksOutcome ==
  \A j \in Jobs :
    /\ status[j] = "succeeded" => {"normalising", "finished"} \subseteq trail[j]
    /\ status[j] = "failed" /\ errorCode[j] = "error" => "failed" \in trail[j]

\* Only the handler that made the job's last claim ever takes the row from
\* running to a terminal status.
SettledByLastClaimant ==
  [][\A j \in Jobs :
       status[j] = "running" /\ status'[j] \in Terminal =>
         \E w \in Workers : /\ owner[j] = w /\ handling[w] = j
                            /\ pc[w] \in Claimed /\ pc'[w] # pc[w]]_vars

\* The claim ledger is implemented: attempts are the tokens, and a claim is open
\* while the row is running.
Ledger == INSTANCE ClaimLedger
            WITH token <- attempts, open <- [j \in Jobs |-> status[j] = "running"],
                 Outcomes <- Terminal
LedgerSpec == Ledger!Spec

\* While no request is lost, crashes, handler timeouts, raising calls and repeated
\* deliveries notwithstanding, an accepted job reaches a terminal status (the
\* lease, the in-band re-claim and the sweep).
EventuallySettled ==
  \A j \in Jobs : (status[j] \in {"queued", "running"}) ~> (status[j] \in Terminal)
=============================================================================
