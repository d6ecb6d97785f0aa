------------------------------ MODULE MCLiveness ------------------------------
(***************************************************************************)
(* What has to happen in the end, in two services that share no state: the *)
(* ingest of two jobs and the requests on one knowledge item.  "service"   *)
(* says whose behaviour it is; the variables of the other keep their       *)
(* initial values.                                                         *)
(***************************************************************************)
EXTENDS Integers

CONSTANTS j1, j2, w1, w2, i1, c1, k1, k2, None

VARIABLES
  service,
  status, attempts, expired, errorCode, trail, submitPc, requested, pc, handling, lease,
  settled, selected, owed, ledger, announced, runs, owner, faults,
  item, version, candidate, call, request, mine, seen, published, arrived, died

\* Two jobs compete for two slots and for the sweep's limit of one.  One handler
\* dies and one delivery is repeated; no request is lost, no handler outlives
\* its lease.
J == INSTANCE IngestJobs WITH
       Jobs <- {j1, j2}, Workers <- {w1, w2}, Callbacks <- {j1}, MaxAttempts <- 1,
       SweepLimit <- 1, Overrun <- FALSE, MaxCrashes <- 1, MaxLosses <- 0,
       MaxDuplicates <- 1, ClaimBound <- 6

\* One item, one candidate, four requests, two in flight, of which one may die.
K == INSTANCE Knowledge WITH
       Items <- {i1}, Candidates <- {c1}, Calls <- {k1, k2}, MaxRequests <- 4, MaxFaults <- 1,
       pc <- call, announced <- published, faults <- died

jobVars == <<status, attempts, expired, errorCode, trail, submitPc, requested, pc, handling, lease,
             settled, selected, owed, ledger, announced, runs, owner, faults>>
itemVars == <<item, version, candidate, call, request, mine, seen, published, arrived, died>>
vars == <<service, jobVars, itemVars>>

Init == service \in {"jobs", "items"} /\ J!Init /\ K!Init

JobStep(Action) == service = "jobs" /\ Action /\ UNCHANGED <<service, itemVars>>
ItemStep(Action) == service = "items" /\ Action /\ UNCHANGED <<service, jobVars>>

Next == JobStep(J!Next) \/ ItemStep(K!Next)

\* The fairness of the two specifications.
Fairness ==
  /\ \A w \in {w1, w2} : WF_vars(JobStep(J!Handle(w)))
  /\ \A j \in {j1, j2} :
       /\ WF_vars(JobStep(J!Submit(j)))
       /\ WF_vars(JobStep(\E w \in {w1, w2} : J!Deliver(w, j)))
       /\ WF_vars(JobStep(J!ExpireLease(j)))
       /\ WF_vars(JobStep(J!SweepRepublish(j)))
  /\ WF_vars(JobStep(J!SweepSelect))
  /\ WF_vars(JobStep(J!SweepUpdate))
  /\ \A k \in {k1, k2} : WF_vars(ItemStep(K!Step(k) /\ UNCHANGED arrived))

Spec == Init /\ [][Next]_vars /\ Fairness

-----------------------------------------------------------------------------
\* Every job that was accepted ends.
EventuallySettled == J!EventuallySettled

\* Every version that was stored becomes the current one, unless a call died.
StoredVersionBecomesCurrent == K!StoredVersionBecomesCurrent
=============================================================================
