-------------------------- MODULE IngestJobsProofs --------------------------
(***************************************************************************)
(* Proofs about IngestJobs, for every set of jobs and workers and every    *)
(* bound.  TypeInv is the type invariant with the one fact it needs to be  *)
(* inductive; IInv adds what makes the leases fence the terminal UPDATEs.  *)
(***************************************************************************)
EXTENDS IngestJobs, FiniteSetTheorems, TLAPS

-----------------------------------------------------------------------------
(* Types.                                                                    *)

\* A slot that is not idle is handling a job, and one that announces has settled.
BusyHandles == \A w \in Workers :
  /\ pc[w] # "idle" => handling[w] \in Jobs
  /\ pc[w] \in {"audit", "publish", "webhook"} => settled[w] \in Terminal

TypeInv == TypeOK /\ BusyHandles

\* The initial state is well typed.
LEMMA TypeInit == Init => TypeInv
BY DEF Init, TypeInv, TypeOK, BusyHandles, Terminal, Unclaimed, Claimed

\* The steps of a request, of the bus and of the clock keep the types.
LEMMA TypeSubmit ==
  ASSUME TypeInv, NEW j \in Jobs,
         SubmitRow(j) \/ Submit(j) \/ SubmitDies(j) \/ LoseRequest(j)
         \/ ExpireLease(j) \/ SweepRepublish(j) \/ \E w \in Workers : Deliver(w, j)
  PROVE  TypeInv'
<1> USE DEF TypeInv, TypeOK, BusyHandles, Terminal, Unclaimed, Claimed,
            rowVars, workerVars, sweepVars, historyVars, busVars, Lose
<1>1. CASE SubmitRow(j)
  BY <1>1 DEF SubmitRow
<1>2. CASE Submit(j)
  <2>1. CASE SubmitEvent(j)
    BY <2>1 DEF SubmitEvent, Stages
  <2>2. CASE SubmitAudit(j)
    BY <2>2 DEF SubmitAudit
  <2>3. CASE SubmitPublish(j)
    BY <2>3 DEF SubmitPublish, PublishRequested
  <2> QED BY <1>2, <2>1, <2>2, <2>3 DEF Submit
<1>3. CASE SubmitDies(j)
  BY <1>3 DEF SubmitDies
<1>4. CASE LoseRequest(j)
  BY <1>4 DEF LoseRequest
<1>5. CASE ExpireLease(j)
  BY <1>5 DEF ExpireLease
<1>6. CASE SweepRepublish(j)
  BY <1>6 DEF SweepRepublish, PublishRequested
<1>7. CASE \E w \in Workers : Deliver(w, j)
  BY <1>7 DEF Deliver
<1> QED BY <1>1, <1>2, <1>3, <1>4, <1>5, <1>6, <1>7

\* The steps of a handler keep the types.
LEMMA TypeHandle ==
  ASSUME TypeInv, NEW w \in Workers, Handle(w) \/ StepRaises(w) \/ HandlerDies(w)
  PROVE  TypeInv'
<1> USE DEF TypeInv, TypeOK, BusyHandles, Terminal, Unclaimed, Claimed, Goto, Return,
            rowVars, sweepVars, historyVars, busVars
<1>1. CASE Lookup(w)
  BY <1>1 DEF Lookup
<1>2. CASE Claim(w)
  BY <1>2 DEF Claim, NextAttempt
<1>3. CASE SkipDuplicate(w)
  BY <1>3 DEF SkipDuplicate
<1>4. CASE BowOut(w)
  BY <1>4 DEF BowOut
<1>5. CASE GiveUp(w)
  BY <1>5 DEF GiveUp, Settle
<1>6. CASE AppendNormalising(w)
  BY <1>6 DEF AppendNormalising, Stages
<1>7. CASE RunIntake(w)
  BY <1>7 DEF RunIntake
<1>8. CASE AppendFinished(w)
  BY <1>8 DEF AppendFinished, Stages
<1>9. CASE MarkSucceeded(w)
  BY <1>9 DEF MarkSucceeded, Settle
<1>10. CASE AppendFailed(w)
  BY <1>10 DEF AppendFailed, Stages
<1>11. CASE MarkFailed(w)
  BY <1>11 DEF MarkFailed, Settle
<1>12. CASE RecordAudit(w)
  BY <1>12 DEF RecordAudit, Notice, Channels
<1>13. CASE PublishFinish(w)
  BY <1>13 DEF PublishFinish, Send, Notice, Channels, Lose
<1>14. CASE FireWebhook(w)
  BY <1>14 DEF FireWebhook, Send, Notice, Channels, Lose
<1>15. CASE StepRaises(w)
  BY <1>15 DEF StepRaises, Crash
<1>16. CASE HandlerDies(w)
  BY <1>16 DEF HandlerDies, Crash, Lose
<1>17. CASE RejectPayload(w)
  BY <1>17 DEF RejectPayload
<1> QED BY <1>1, <1>2, <1>3, <1>4, <1>5, <1>6, <1>7, <1>8, <1>9, <1>10, <1>11,
           <1>12, <1>13, <1>14, <1>15, <1>16, <1>17 DEF Handle

\* The steps of the sweep, and stuttering, keep the types.
LEMMA TypeSweep ==
  ASSUME TypeInv, SweepSelect \/ SweepUpdate \/ SweepDies \/ UNCHANGED vars
  PROVE  TypeInv'
<1> USE DEF TypeInv, TypeOK, BusyHandles, Terminal, Unclaimed, Claimed,
            rowVars, workerVars, sweepVars, historyVars, busVars
<1>1. CASE SweepSelect
  BY <1>1 DEF SweepSelect, Stale
<1>2. CASE SweepUpdate
  BY <1>2 DEF SweepUpdate
<1>3. CASE SweepDies
  BY <1>3 DEF SweepDies, Lose
<1>4. CASE UNCHANGED vars
  BY <1>4 DEF vars
<1> QED BY <1>1, <1>2, <1>3, <1>4

\* Every variable keeps its type in every reachable state: in particular a
\* handler never acts on a job it was not handed.
THEOREM TypeCorrect == Spec => []TypeOK
<1>1. TypeInv /\ [Next]_vars => TypeInv'
  BY TypeSubmit, TypeHandle, TypeSweep DEF Next
<1>2. TypeInv => TypeOK
  BY DEF TypeInv
<1> QED BY <1>1, <1>2, TypeInit, PTL DEF Spec

-----------------------------------------------------------------------------
(* Leases fence the terminal UPDATEs.                                        *)

\* A handler past its claim holds a number that was given out for its job, no
\* other handler of the job holds the same one, and the holder of the row's own
\* number is the job's last claimant.
LeasesDistinct ==
  \A w \in Workers : pc[w] \in Claimed =>
    /\ lease[w] <= attempts[handling[w]]
    /\ lease[w] = attempts[handling[w]] => owner[handling[w]] = w
    /\ \A v \in Workers : v # w /\ pc[v] \in Claimed /\ handling[v] = handling[w]
                            => lease[v] # lease[w]

\* Nothing has been settled under the number of a claim that is still running.
CurrentUnsettled ==
  \A e \in ledger : /\ e.claim <= attempts[e.job]
                    /\ status[e.job] = "running" => e.claim < attempts[e.job]

\* A handler that is announcing settled its outcome under its own number.
AnnouncerSettled ==
  \A w \in Workers : pc[w] \in {"audit", "publish", "webhook"} =>
    [job |-> handling[w], claim |-> lease[w], outcome |-> settled[w]] \in ledger

\* What was announced under the number of a handler still at work is what that
\* handler has already sent, in the order audit, event, webhook.
AnnouncedSoFar ==
  \A w \in Workers, a \in announced :
    pc[w] \in Claimed /\ a.job = handling[w] /\ a.claim = lease[w] =>
      /\ a.channel = "audit" => pc[w] \in {"publish", "webhook"}
      /\ a.channel = "event" => pc[w] = "webhook"
      /\ a.channel # "webhook"

\* A handler that publishes or calls back has written its audit row.
PublisherAudited ==
  \A w \in Workers : pc[w] \in {"publish", "webhook"} => Notice(w, "audit") \in announced

IInv ==
  /\ TypeInv
  /\ LeasesDistinct
  /\ CurrentUnsettled
  /\ SettledOncePerClaim
  /\ AnnouncerSettled
  /\ AnnouncedWasSettled
  /\ AnnouncedSoFar
  /\ PublisherAudited
  /\ BroadcastIsAudited

\* The initial state satisfies the inductive invariant.
LEMMA FenceInit == Init => IInv
<1> SUFFICES ASSUME Init PROVE IInv
  OBVIOUS
<1>1. TypeInv
  BY TypeInit
<1> QED
  BY <1>1 DEF Init, IInv, LeasesDistinct, CurrentUnsettled, SettledOncePerClaim,
     AnnouncerSettled, AnnouncedWasSettled, AnnouncedSoFar, PublisherAudited,
     BroadcastIsAudited, Claimed

\* A step that leaves the row's claims, the ledger and the announcements alone,
\* puts no row at running, and moves slots only within the same phase or out of
\* the claimed phase, preserves the inductive invariant.
LEMMA FenceQuiet ==
  ASSUME IInv, TypeInv',
         UNCHANGED <<attempts, lease, settled, ledger, announced, owner>>,
         \A j \in Jobs : status'[j] = "running" => status[j] = "running",
         \A w \in Workers : pc'[w] \in Claimed =>
            /\ pc[w] \in Claimed /\ handling'[w] = handling[w]
            /\ \/ pc'[w] = pc[w]
               \/ /\ pc'[w] \notin {"audit", "publish", "webhook"}
                  /\ pc[w] \notin {"publish", "webhook"}
  PROVE  IInv'
<1>1. LeasesDistinct'
  BY DEF IInv, LeasesDistinct
<1>2. CurrentUnsettled'
  BY DEF IInv, CurrentUnsettled, TypeInv, TypeOK
<1>3. SettledOncePerClaim' /\ AnnouncedWasSettled' /\ BroadcastIsAudited'
  BY DEF IInv, SettledOncePerClaim, AnnouncedWasSettled, BroadcastIsAudited
<1>4. AnnouncerSettled'
  BY DEF IInv, AnnouncerSettled, Claimed
<1>5. AnnouncedSoFar'
  BY DEF IInv, AnnouncedSoFar, Claimed
<1>6. PublisherAudited'
  BY DEF IInv, PublisherAudited, Notice, Claimed
<1> QED BY <1>1, <1>2, <1>3, <1>4, <1>5, <1>6 DEF IInv

\* What is announced was announced under a number that is not above the row's, and
\* is below it while the row is running.
LEMMA AnnouncedBelow ==
  ASSUME IInv, NEW a \in announced
  PROVE  /\ a.claim \in Nat
         /\ a.claim <= attempts[a.job]
         /\ status[a.job] = "running" => a.claim < attempts[a.job]
<1> DEFINE e == [job |-> a.job, claim |-> a.claim, outcome |-> a.outcome]
<1>1. e \in ledger
  BY DEF IInv, AnnouncedWasSettled
<1>2. e.claim <= attempts[e.job] /\ (status[e.job] = "running" => e.claim < attempts[e.job])
  BY <1>1 DEF IInv, CurrentUnsettled
<1>3. a.claim \in Nat
  BY DEF IInv, TypeInv, TypeOK
<1>4. e.job = a.job /\ e.claim = a.claim
  OBVIOUS
<1> HIDE DEF e
<1> QED BY <1>2, <1>3, <1>4

\* The claim: the new number is above every number held, settled or announced.
LEMMA FenceClaim ==
  ASSUME IInv, TypeInv', NEW w \in Workers, Claim(w)
  PROVE  IInv'
<1> DEFINE j == handling[w]
<1> USE DEF Claim, NextAttempt, Goto, TypeInv, TypeOK, BusyHandles
<1>1. j \in Jobs /\ attempts[j] \in Nat
  BY DEF IInv
<1>2. LeasesDistinct'
  BY <1>1 DEF IInv, LeasesDistinct, Claimed
<1>3. CurrentUnsettled'
  BY <1>1 DEF IInv, CurrentUnsettled
<1>4. SettledOncePerClaim' /\ AnnouncedWasSettled' /\ BroadcastIsAudited'
  BY DEF IInv, SettledOncePerClaim, AnnouncedWasSettled, BroadcastIsAudited
<1>5. AnnouncerSettled'
  BY <1>1 DEF IInv, AnnouncerSettled
<1>6. \A a \in announced : a.job = j => a.claim < attempts[j] + 1
  BY <1>1, AnnouncedBelow
<1>7. AnnouncedSoFar'
  BY <1>1, <1>6 DEF IInv, AnnouncedSoFar, Claimed
<1>8. PublisherAudited'
  BY <1>1 DEF IInv, PublisherAudited, Notice
<1> QED BY <1>2, <1>3, <1>4, <1>5, <1>7, <1>8 DEF IInv

\* The terminal UPDATE: it goes through only for the holder of the row's number,
\* under which nothing was settled before.
LEMMA FenceSettle ==
  ASSUME IInv, TypeInv', NEW w \in Workers, NEW o \in Terminal, Settle(w, o),
         pc[w] \in {"giveup", "mark_succeeded", "mark_failed"},
         UNCHANGED <<lease, announced, owner>>,
         Goto(w, "audit") \/ Return(w)
  PROVE  IInv'
<1> DEFINE j == handling[w]
<1> USE DEF Settle, HoldsLease, Goto, Return, TypeInv, TypeOK, BusyHandles
<1>1. j \in Jobs /\ attempts[j] \in Nat /\ lease[w] = attempts[j] /\ status[j] = "running"
  BY DEF IInv
<1>2. LeasesDistinct'
  BY <1>1 DEF IInv, LeasesDistinct, Claimed
<1>3. CurrentUnsettled'
  BY <1>1 DEF IInv, CurrentUnsettled, Terminal
<1>4. SettledOncePerClaim'
  BY <1>1 DEF IInv, SettledOncePerClaim, CurrentUnsettled
<1>5. AnnouncedWasSettled' /\ BroadcastIsAudited'
  BY DEF IInv, AnnouncedWasSettled, BroadcastIsAudited
<1>6. AnnouncerSettled'
  BY <1>1 DEF IInv, AnnouncerSettled
<1>7. \A a \in announced : a.job = j => a.claim < attempts[j]
  BY <1>1, AnnouncedBelow
<1>8. AnnouncedSoFar'
  BY <1>1, <1>7 DEF IInv, AnnouncedSoFar, Claimed
<1>9. PublisherAudited'
  BY <1>1 DEF IInv, PublisherAudited, Notice
<1> QED BY <1>2, <1>3, <1>4, <1>5, <1>6, <1>8, <1>9 DEF IInv

\* An announcement: only the holder of a number announces under it, and each
\* channel is used when no later one has been.
LEMMA FenceAnnounce ==
  ASSUME IInv, TypeInv', NEW w \in Workers,
         RecordAudit(w) \/ PublishFinish(w) \/ FireWebhook(w)
  PROVE  IInv'
<1> USE DEF Goto, Return, TypeInv, TypeOK, BusyHandles
<1>1. PICK c \in Channels :
        /\ announced' = announced \cup {Notice(w, c)} \/ announced' = announced
        /\ c = "audit" => /\ pc[w] = "audit" /\ pc'[w] = "publish"
                          /\ announced' = announced \cup {Notice(w, c)}
        /\ c = "event" => pc[w] = "publish" /\ pc'[w] \in {"webhook", "idle"}
        /\ c = "webhook" => pc[w] = "webhook" /\ pc'[w] = "idle"
  <2>1. CASE RecordAudit(w)
    BY <2>1 DEF RecordAudit, Channels, IInv
  <2>2. CASE PublishFinish(w)
    BY <2>2 DEF PublishFinish, Send, Channels, IInv
  <2>3. CASE FireWebhook(w)
    BY <2>3 DEF FireWebhook, Send, Channels, IInv
  <2> QED BY <2>1, <2>2, <2>3
<1>2. /\ UNCHANGED <<status, attempts, lease, settled, ledger, owner>>
      /\ \A v \in Workers : v # w => pc'[v] = pc[v] /\ handling'[v] = handling[v]
      /\ pc'[w] # "idle" => handling'[w] = handling[w]
      /\ pc[w] \in {"audit", "publish", "webhook"}
      /\ handling[w] \in Jobs
  BY DEF RecordAudit, PublishFinish, FireWebhook, Send, rowVars, IInv
<1>3. LeasesDistinct'
  BY <1>1, <1>2 DEF IInv, LeasesDistinct, Claimed, Channels
<1>4. CurrentUnsettled' /\ SettledOncePerClaim'
  BY <1>2 DEF IInv, CurrentUnsettled, SettledOncePerClaim
<1>5. AnnouncerSettled'
  BY <1>1, <1>2 DEF IInv, AnnouncerSettled, Channels
<1>6. AnnouncedWasSettled'
  <2>1. \A a \in announced' : a \in announced \/ a = Notice(w, c)
    BY <1>1
  <2>2. [job |-> handling[w], claim |-> lease[w], outcome |-> settled[w]] \in ledger
    BY <1>2 DEF IInv, AnnouncerSettled
  <2>3. LET a == Notice(w, c)
        IN  [job |-> a.job, claim |-> a.claim, outcome |-> a.outcome] \in ledger
    BY <2>2 DEF Notice
  <2> QED BY <1>2, <2>1, <2>3 DEF IInv, AnnouncedWasSettled
<1>7. BroadcastIsAudited'
  <2>1. [Notice(w, c) EXCEPT !.channel = "audit"] = Notice(w, "audit")
    BY DEF Notice
  <2>2. announced \subseteq announced' /\ \A a \in announced' : a \in announced \/ a = Notice(w, c)
    BY <1>1
  <2>3. Notice(w, c) \in announced' => Notice(w, "audit") \in announced'
    BY <1>1, <1>2 DEF IInv, PublisherAudited, Channels
  <2> QED BY <2>1, <2>2, <2>3 DEF IInv, BroadcastIsAudited
<1>8. AnnouncedSoFar'
  BY <1>1, <1>2 DEF IInv, AnnouncedSoFar, LeasesDistinct, Notice, Channels, Claimed
<1>9. PublisherAudited'
  BY <1>1, <1>2 DEF IInv, PublisherAudited, Notice, Channels
<1> QED BY <1>3, <1>4, <1>5, <1>6, <1>7, <1>8, <1>9 DEF IInv

\* Every step of the specification preserves the inductive invariant.
LEMMA FenceStep == IInv /\ [Next]_vars => IInv'
<1> SUFFICES ASSUME IInv, [Next]_vars PROVE IInv'
  OBVIOUS
<1>1. TypeInv'
  BY TypeSubmit, TypeHandle, TypeSweep DEF Next, IInv
<1>2. ASSUME NEW j \in Jobs,
             SubmitRow(j) \/ Submit(j) \/ SubmitDies(j) \/ LoseRequest(j)
             \/ ExpireLease(j) \/ SweepRepublish(j)
      PROVE  IInv'
  <2>1. /\ UNCHANGED <<attempts, lease, settled, ledger, announced, owner, pc, handling>>
        /\ \A k \in Jobs : status'[k] = "running" => status[k] = "running"
    BY <1>2 DEF SubmitRow, Submit, SubmitEvent, SubmitAudit, SubmitPublish, SubmitDies,
       LoseRequest, ExpireLease, SweepRepublish, rowVars, workerVars, historyVars,
       IInv, TypeInv, TypeOK
  <2> QED BY <1>1, <2>1, FenceQuiet
<1>3. ASSUME NEW w \in Workers, NEW j \in Jobs, Deliver(w, j)
      PROVE  IInv'
  <2>1. /\ UNCHANGED <<attempts, lease, settled, ledger, announced, owner, status>>
        /\ \A v \in Workers : pc'[v] \in Claimed =>
             pc[v] \in Claimed /\ handling'[v] = handling[v] /\ pc'[v] = pc[v]
    BY <1>3 DEF Deliver, rowVars, historyVars, Claimed, IInv, TypeInv, TypeOK
  <2> QED BY <1>1, <2>1, FenceQuiet
<1>4. ASSUME NEW w \in Workers,
             \/ Lookup(w) \/ SkipDuplicate(w) \/ BowOut(w)
             \/ RejectPayload(w) \/ AppendNormalising(w) \/ RunIntake(w) \/ AppendFinished(w)
             \/ AppendFailed(w) \/ StepRaises(w) \/ HandlerDies(w)
      PROVE  IInv'
  <2>1. /\ UNCHANGED <<attempts, lease, settled, ledger, announced, owner, status>>
        /\ \A v \in Workers : v # w => pc'[v] = pc[v] /\ handling'[v] = handling[v]
        /\ pc'[w] \in Claimed =>
             /\ pc[w] \in Claimed /\ handling'[w] = handling[w]
             /\ pc'[w] \notin {"audit", "publish", "webhook"}
             /\ pc[w] \notin {"publish", "webhook"}
    BY <1>4 DEF Lookup, SkipDuplicate, BowOut, RejectPayload, AppendNormalising, RunIntake,
       AppendFinished, AppendFailed, StepRaises, HandlerDies, Goto, Return,
       rowVars, historyVars, Claimed, IInv, TypeInv, TypeOK
  <2> QED BY <1>1, <2>1, FenceQuiet
<1>5. ASSUME NEW w \in Workers, GiveUp(w) \/ MarkSucceeded(w) \/ MarkFailed(w)
      PROVE  IInv'
  <2>1. PICK o \in Terminal :
          /\ Settle(w, o)
          /\ pc[w] \in {"giveup", "mark_succeeded", "mark_failed"}
          /\ UNCHANGED <<lease, announced, owner>>
          /\ Goto(w, "audit") \/ Return(w)
    BY <1>5 DEF GiveUp, MarkSucceeded, MarkFailed, Terminal
  <2> QED BY <1>1, <2>1, FenceSettle
<1>6. ASSUME SweepSelect \/ SweepUpdate \/ SweepDies \/ UNCHANGED vars
      PROVE  IInv'
  <2>1. /\ UNCHANGED <<attempts, lease, settled, ledger, announced, owner, pc, handling>>
        /\ \A k \in Jobs : status'[k] = "running" => status[k] = "running"
    BY <1>6 DEF SweepSelect, SweepUpdate, SweepDies, vars, rowVars, workerVars, historyVars
  <2> QED BY <1>1, <2>1, FenceQuiet
<1> QED BY <1>1, <1>2, <1>3, <1>4, <1>5, <1>6, FenceClaim, FenceAnnounce DEF Next, Handle

\* Every reachable state satisfies the inductive invariant.
THEOREM FenceInvariant == Spec => []IInv
BY FenceInit, FenceStep, PTL DEF Spec

\* No claim ever settles two outcomes.
THEOREM SettledOnce == Spec => []SettledOncePerClaim
<1>1. IInv => SettledOncePerClaim
  BY DEF IInv
<1> QED BY <1>1, FenceInvariant, PTL

\* A handler that lost its lease announces nothing.
THEOREM AnnouncedSettled == Spec => []AnnouncedWasSettled
<1>1. IInv => AnnouncedWasSettled
  BY DEF IInv
<1> QED BY <1>1, FenceInvariant, PTL

\* Nothing is broadcast without its audit row.
THEOREM BroadcastAudited == Spec => []BroadcastIsAudited
<1>1. IInv => BroadcastIsAudited
  BY DEF IInv
<1> QED BY <1>1, FenceInvariant, PTL

\* Only the last claimant takes a row from running to a terminal status: the
\* expected_attempts guard does what a lock on the row would do.
THEOREM LastClaimantSettles == Spec => SettledByLastClaimant
<1> DEFINE Fenced ==
      \A j \in Jobs : status[j] = "running" /\ status'[j] \in Terminal =>
         \E w \in Workers : /\ owner[j] = w /\ handling[w] = j
                            /\ pc[w] \in Claimed /\ pc'[w] # pc[w]
<1>1. ASSUME IInv, [Next]_vars, NEW j \in Jobs,
             status[j] = "running", status'[j] \in Terminal
      PROVE  \E w \in Workers : GiveUp(w) \/ MarkSucceeded(w) \/ MarkFailed(w)
  <2> USE DEF IInv, TypeInv, TypeOK, Terminal, rowVars, vars
  <2>1. CASE \E k \in Jobs :
               SubmitRow(k) \/ Submit(k) \/ SubmitDies(k) \/ LoseRequest(k)
               \/ ExpireLease(k) \/ SweepRepublish(k) \/ \E w \in Workers : Deliver(w, k)
    BY <1>1, <2>1 DEF SubmitRow, Submit, SubmitEvent, SubmitAudit, SubmitPublish,
       SubmitDies, LoseRequest, ExpireLease, SweepRepublish, Deliver
  <2>2. CASE \E w \in Workers : Handle(w) \/ StepRaises(w) \/ HandlerDies(w)
    BY <1>1, <2>2 DEF Handle, Lookup, SkipDuplicate, BowOut, Claim, RejectPayload, AppendNormalising,
       RunIntake, AppendFinished, AppendFailed, RecordAudit, PublishFinish, FireWebhook,
       StepRaises, HandlerDies
  <2>3. CASE SweepSelect \/ SweepUpdate \/ SweepDies \/ UNCHANGED vars
    BY <1>1, <2>3 DEF SweepSelect, SweepUpdate, SweepDies
  <2> QED BY <1>1, <2>1, <2>2, <2>3 DEF Next
<1>2. ASSUME IInv, [Next]_vars, NEW j \in Jobs,
             status[j] = "running", status'[j] \in Terminal
      PROVE  \E w \in Workers : /\ owner[j] = w /\ handling[w] = j
                                /\ pc[w] \in Claimed /\ pc'[w] # pc[w]
  <2>1. PICK w \in Workers : GiveUp(w) \/ MarkSucceeded(w) \/ MarkFailed(w)
    BY <1>1, <1>2
  <2>2. /\ pc[w] \in {"giveup", "mark_succeeded", "mark_failed"} /\ pc'[w] \in {"idle", "audit"}
        /\ HoldsLease(w) /\ \E o \in Terminal : status' = [status EXCEPT ![handling[w]] = o]
    BY <1>2, <2>1 DEF GiveUp, MarkSucceeded, MarkFailed, Settle, Goto, Return, IInv, TypeInv,
       TypeOK, Terminal
  <2>3. handling[w] = j
    BY <1>2, <2>2 DEF IInv, TypeInv, TypeOK, BusyHandles, Terminal
  <2>4. owner[j] = w
    BY <1>2, <2>2, <2>3 DEF HoldsLease, IInv, LeasesDistinct, Claimed
  <2> QED BY <2>2, <2>3, <2>4 DEF Claimed
<1>3. IInv /\ [Next]_vars => [Fenced]_vars
  BY <1>2
<1> QED BY <1>3, FenceInvariant, PTL DEF Spec, SettledByLastClaimant

-----------------------------------------------------------------------------
(* The poison-job guard bounds the pipeline runs of a job.                   *)

\* The handlers whose claim passed the guard and that have not yet entered the
\* pipeline.
Waiting(j) == {w \in Workers : pc[w] = "normalising" /\ handling[w] = j}

\* Each claim within the ceiling is worth one pipeline run, which a waiting
\* handler still has and any other has used or forgone.
RunsCounted ==
  \A j \in Jobs :
    /\ IsFiniteSet(Waiting(j))
    /\ runs[j] + Cardinality(Waiting(j)) <= attempts[j]
    /\ runs[j] + Cardinality(Waiting(j)) <= MaxAttempts

\* A step in which slots at most leave the waiting ones keeps the account.
LEMMA RunsQuiet ==
  ASSUME TypeInv, TypeInv', RunsCounted, UNCHANGED <<runs, attempts>>,
         \A w \in Workers : pc'[w] = "normalising" =>
            pc[w] = "normalising" /\ handling'[w] = handling[w]
  PROVE  RunsCounted'
<1> SUFFICES ASSUME NEW j \in Jobs
             PROVE  /\ IsFiniteSet(Waiting(j)')
                    /\ runs'[j] + Cardinality(Waiting(j)') <= attempts'[j]
                    /\ runs'[j] + Cardinality(Waiting(j)') <= MaxAttempts
  BY DEF RunsCounted, Waiting
<1>1. Waiting(j)' \in SUBSET Waiting(j) /\ IsFiniteSet(Waiting(j))
  BY DEF Waiting, RunsCounted
<1>2. /\ IsFiniteSet(Waiting(j)') /\ Cardinality(Waiting(j)') <= Cardinality(Waiting(j))
      /\ Cardinality(Waiting(j)') \in Nat /\ Cardinality(Waiting(j)) \in Nat
  BY <1>1, FS_Subset, FS_CardinalityType
<1> QED BY <1>2, LimitAssumption DEF RunsCounted, TypeInv, TypeOK

\* A claim within the ceiling is one attempt more, and one waiting handler more.
LEMMA RunsClaim ==
  ASSUME TypeInv, TypeInv', RunsCounted, NEW w \in Workers, Claim(w)
  PROVE  RunsCounted'
<1> SUFFICES ASSUME NEW j \in Jobs
             PROVE  /\ IsFiniteSet(Waiting(j)')
                    /\ runs'[j] + Cardinality(Waiting(j)') <= attempts'[j]
                    /\ runs'[j] + Cardinality(Waiting(j)') <= MaxAttempts
  BY DEF RunsCounted, Waiting
<1> USE DEF TypeInv, TypeOK, Claim, NextAttempt, Exhausted, Goto
<1>1. /\ IsFiniteSet(Waiting(j)) /\ Cardinality(Waiting(j)) \in Nat
      /\ runs[j] \in Nat /\ attempts[j] \in Nat /\ runs' = runs /\ MaxAttempts \in Nat
      /\ runs[j] + Cardinality(Waiting(j)) <= attempts[j]
      /\ runs[j] + Cardinality(Waiting(j)) <= MaxAttempts
  BY FS_CardinalityType, LimitAssumption DEF RunsCounted
<1>2. w \notin Waiting(j)
  BY DEF Waiting
<1>3. CASE handling[w] = j /\ pc'[w] = "normalising"
  <2>1. Waiting(j)' = Waiting(j) \cup {w}
    BY <1>3 DEF Waiting
  <2>2. IsFiniteSet(Waiting(j)') /\ Cardinality(Waiting(j)') = Cardinality(Waiting(j)) + 1
    BY <1>1, <1>2, <2>1, FS_AddElement
  <2>3. attempts'[j] = attempts[j] + 1 /\ attempts[j] + 1 <= MaxAttempts
    BY <1>1, <1>3
  <2> QED BY <1>1, <2>2, <2>3
<1>4. CASE ~(handling[w] = j /\ pc'[w] = "normalising")
  <2>1. Waiting(j)' = Waiting(j)
    BY <1>4 DEF Waiting
  <2>2. attempts[j] <= attempts'[j]
    BY <1>1
  <2> QED BY <1>1, <2>1, <2>2
<1> QED BY <1>3, <1>4

\* To enter the pipeline is one run more, and one waiting handler less.
LEMMA RunsEnter ==
  ASSUME TypeInv, TypeInv', RunsCounted, NEW w \in Workers, AppendNormalising(w)
  PROVE  RunsCounted'
<1> SUFFICES ASSUME NEW j \in Jobs
             PROVE  /\ IsFiniteSet(Waiting(j)')
                    /\ runs'[j] + Cardinality(Waiting(j)') <= attempts'[j]
                    /\ runs'[j] + Cardinality(Waiting(j)') <= MaxAttempts
  BY DEF RunsCounted, Waiting
<1> USE DEF TypeInv, TypeOK, AppendNormalising, Goto, rowVars
<1>1. /\ IsFiniteSet(Waiting(j)) /\ Cardinality(Waiting(j)) \in Nat
      /\ runs[j] \in Nat /\ attempts' = attempts
      /\ runs[j] + Cardinality(Waiting(j)) <= attempts[j]
      /\ runs[j] + Cardinality(Waiting(j)) <= MaxAttempts
  BY FS_CardinalityType DEF RunsCounted
<1>2. CASE handling[w] = j
  <2>1. w \in Waiting(j) /\ Waiting(j)' = Waiting(j) \ {w} /\ runs'[j] = runs[j] + 1
    BY <1>2 DEF Waiting
  <2>2. IsFiniteSet(Waiting(j)') /\ Cardinality(Waiting(j)') = Cardinality(Waiting(j)) - 1
    BY <1>1, <2>1, FS_RemoveElement
  <2> QED BY <1>1, <2>1, <2>2
<1>3. CASE handling[w] # j
  <2>1. Waiting(j)' = Waiting(j) /\ runs'[j] = runs[j]
    BY <1>3 DEF Waiting
  <2> QED BY <1>1, <2>1
<1> QED BY <1>2, <1>3

\* No step runs the pipeline more often than the claims within the ceiling allow.
LEMMA RunsStep == TypeInv /\ TypeInv' /\ RunsCounted /\ [Next]_vars => RunsCounted'
<1> SUFFICES ASSUME TypeInv, TypeInv', RunsCounted, [Next]_vars PROVE RunsCounted'
  OBVIOUS
<1>1. ASSUME NEW j \in Jobs,
             SubmitRow(j) \/ Submit(j) \/ SubmitDies(j) \/ LoseRequest(j)
             \/ ExpireLease(j) \/ SweepRepublish(j)
      PROVE  RunsCounted'
  <2>1. UNCHANGED <<runs, attempts, pc, handling>>
    BY <1>1 DEF SubmitRow, Submit, SubmitEvent, SubmitAudit, SubmitPublish, SubmitDies,
       LoseRequest, ExpireLease, SweepRepublish, rowVars, workerVars, historyVars
  <2> QED BY <2>1, RunsQuiet
<1>2. ASSUME NEW w \in Workers,
             \/ \E j \in Jobs : Deliver(w, j)
             \/ Lookup(w) \/ SkipDuplicate(w) \/ BowOut(w) \/ GiveUp(w)
             \/ RejectPayload(w) \/ RunIntake(w) \/ AppendFinished(w) \/ MarkSucceeded(w)
             \/ AppendFailed(w) \/ MarkFailed(w) \/ RecordAudit(w) \/ PublishFinish(w)
             \/ FireWebhook(w) \/ StepRaises(w) \/ HandlerDies(w)
      PROVE  RunsCounted'
  <2>1. /\ UNCHANGED <<runs, attempts>>
        /\ \A v \in Workers : pc'[v] = "normalising" =>
             pc[v] = "normalising" /\ handling'[v] = handling[v]
    BY <1>2 DEF Deliver, Lookup, SkipDuplicate, BowOut, GiveUp, RejectPayload, RunIntake,
       AppendFinished, MarkSucceeded, AppendFailed, MarkFailed, RecordAudit, PublishFinish,
       FireWebhook, StepRaises, HandlerDies, Settle, Goto, Return, rowVars, historyVars,
       TypeInv, TypeOK
  <2> QED BY <2>1, RunsQuiet
<1>3. ASSUME SweepSelect \/ SweepUpdate \/ SweepDies \/ UNCHANGED vars
      PROVE  RunsCounted'
  <2>1. UNCHANGED <<runs, attempts, pc, handling>>
    BY <1>3 DEF SweepSelect, SweepUpdate, SweepDies, vars, rowVars, workerVars, historyVars
  <2> QED BY <2>1, RunsQuiet
<1> QED BY <1>1, <1>2, <1>3, RunsClaim, RunsEnter DEF Next, Handle

\* A payload that keeps killing its worker enters the pipeline at most MaxAttempts
\* times, however many handlers, redeliveries and lost leases there are.
THEOREM RunsBounded == Spec => []PipelineRunsBounded
<1>1. Init => RunsCounted
  <2> SUFFICES ASSUME Init, NEW j \in Jobs
               PROVE  /\ IsFiniteSet(Waiting(j))
                      /\ runs[j] + Cardinality(Waiting(j)) <= attempts[j]
                      /\ runs[j] + Cardinality(Waiting(j)) <= MaxAttempts
    BY DEF RunsCounted
  <2>1. Waiting(j) = {} /\ runs[j] = 0 /\ attempts[j] = 0
    BY DEF Waiting, Init
  <2> QED BY <2>1, FS_EmptySet, LimitAssumption
<1>2. TypeInv /\ RunsCounted => PipelineRunsBounded
  BY FS_CardinalityType, LimitAssumption DEF RunsCounted, PipelineRunsBounded, TypeInv, TypeOK
<1>3. TypeInv /\ [Next]_vars => TypeInv'
  BY TypeSubmit, TypeHandle, TypeSweep DEF Next
<1> QED BY <1>1, <1>2, <1>3, RunsStep, TypeInit, PTL DEF Spec

-----------------------------------------------------------------------------
(* The progress feed backs the header.                                       *)

\* A handler on its way to an outcome has written the events that go before it.
StageReached ==
  \A w \in Workers :
    /\ pc[w] \in {"intake", "finished", "mark_succeeded"} => "normalising" \in trail[handling[w]]
    /\ pc[w] = "mark_succeeded" => "finished" \in trail[handling[w]]
    /\ pc[w] = "mark_failed" => "failed" \in trail[handling[w]]

\* A step that at most adds events, that sends no slot to a later stage unless its
\* events are there, and that leaves each row alone or not settled by it without
\* its events, keeps both facts.
LEMMA TrailQuiet ==
  ASSUME TypeInv, TypeInv', StageReached, TrailBacksOutcome,
         \A j \in Jobs : trail[j] \subseteq trail'[j],
         \A w \in Workers :
           \/ pc'[w] = pc[w] /\ handling'[w] = handling[w]
           \/ pc'[w] \notin {"intake", "finished", "mark_succeeded", "mark_failed"},
         \A j \in Jobs :
           \/ status'[j] = status[j] /\ errorCode'[j] = errorCode[j]
           \/ status'[j] \notin Terminal
           \/ status'[j] = "failed" /\ errorCode'[j] # "error"
  PROVE  StageReached' /\ TrailBacksOutcome'
<1>1. StageReached'
  BY DEF StageReached, TypeInv, BusyHandles
<1>2. TrailBacksOutcome'
  BY DEF TrailBacksOutcome, Terminal
<1> QED BY <1>1, <1>2

\* The step of a handler that goes on, or settles, finds its events there.
LEMMA TrailHandler ==
  ASSUME TypeInv, TypeInv', StageReached, TrailBacksOutcome, NEW w \in Workers,
         AppendNormalising(w) \/ RunIntake(w) \/ AppendFinished(w) \/ AppendFailed(w)
         \/ MarkSucceeded(w) \/ MarkFailed(w)
  PROVE  StageReached' /\ TrailBacksOutcome'
<1> USE DEF TypeInv, TypeOK, BusyHandles, StageReached, TrailBacksOutcome, Goto, rowVars, workerVars
<1>1. CASE AppendNormalising(w)
  BY <1>1 DEF AppendNormalising
<1>2. CASE RunIntake(w)
  BY <1>2 DEF RunIntake
<1>3. CASE AppendFinished(w)
  BY <1>3 DEF AppendFinished
<1>4. CASE AppendFailed(w)
  BY <1>4 DEF AppendFailed
<1>5. CASE MarkSucceeded(w)
  BY <1>5 DEF MarkSucceeded, Settle
<1>6. CASE MarkFailed(w)
  BY <1>6 DEF MarkFailed, Settle
<1> QED BY <1>1, <1>2, <1>3, <1>4, <1>5, <1>6

\* Every step keeps the events ahead of the outcome.
LEMMA TrailStep ==
  TypeInv /\ TypeInv' /\ StageReached /\ TrailBacksOutcome /\ [Next]_vars
    => StageReached' /\ TrailBacksOutcome'
<1> SUFFICES ASSUME TypeInv, TypeInv', StageReached, TrailBacksOutcome, [Next]_vars
             PROVE  StageReached' /\ TrailBacksOutcome'
  OBVIOUS
<1> USE DEF TypeInv, TypeOK, Terminal, rowVars, workerVars
<1>1. ASSUME NEW j \in Jobs,
             SubmitRow(j) \/ Submit(j) \/ SubmitDies(j) \/ LoseRequest(j)
             \/ ExpireLease(j) \/ SweepRepublish(j)
      PROVE  StageReached' /\ TrailBacksOutcome'
  <2>1. /\ UNCHANGED <<pc, handling, errorCode>> /\ \A k \in Jobs : trail[k] \subseteq trail'[k]
        /\ \A k \in Jobs : status'[k] = status[k] \/ status'[k] = "queued"
    BY <1>1 DEF SubmitRow, Submit, SubmitEvent, SubmitAudit, SubmitPublish, SubmitDies,
       LoseRequest, ExpireLease, SweepRepublish
  <2> QED BY <2>1, TrailQuiet
<1>2. ASSUME NEW w \in Workers,
             \/ \E j \in Jobs : Deliver(w, j)
             \/ Lookup(w) \/ SkipDuplicate(w) \/ BowOut(w) \/ RejectPayload(w)
             \/ RecordAudit(w) \/ PublishFinish(w) \/ FireWebhook(w)
             \/ StepRaises(w) \/ HandlerDies(w)
      PROVE  StageReached' /\ TrailBacksOutcome'
  <2>1. /\ UNCHANGED <<status, errorCode, trail>>
        /\ \A v \in Workers : \/ pc'[v] = pc[v] /\ handling'[v] = handling[v]
                              \/ pc'[v] \notin {"intake", "finished", "mark_succeeded", "mark_failed"}
    BY <1>2 DEF Deliver, Lookup, SkipDuplicate, BowOut, RejectPayload, RecordAudit, PublishFinish,
       FireWebhook, StepRaises, HandlerDies, Goto, Return
  <2> QED BY <2>1, TrailQuiet
<1>3. ASSUME NEW w \in Workers, Claim(w) \/ GiveUp(w)
      PROVE  StageReached' /\ TrailBacksOutcome'
  <2>1. /\ UNCHANGED trail
        /\ \A v \in Workers : \/ pc'[v] = pc[v] /\ handling'[v] = handling[v]
                              \/ pc'[v] \notin {"intake", "finished", "mark_succeeded", "mark_failed"}
        /\ \A k \in Jobs : \/ status'[k] = status[k] /\ errorCode'[k] = errorCode[k]
                           \/ status'[k] = "running"
                           \/ status'[k] = "failed" /\ errorCode'[k] # "error"
    BY <1>3 DEF Claim, GiveUp, Settle, Goto, Return
  <2> QED BY <2>1, TrailQuiet
<1>4. ASSUME SweepSelect \/ SweepUpdate \/ SweepDies \/ UNCHANGED vars
      PROVE  StageReached' /\ TrailBacksOutcome'
  <2>1. /\ UNCHANGED <<pc, handling, trail>>
        /\ \A k \in Jobs : \/ status'[k] = status[k] /\ errorCode'[k] = errorCode[k]
                           \/ status'[k] = "queued"
    BY <1>4 DEF SweepSelect, SweepUpdate, SweepDies, vars
  <2> QED BY <2>1, TrailQuiet
<1> QED BY <1>1, <1>2, <1>3, <1>4, TrailHandler DEF Next, Handle

\* A row that reads succeeded, or failed with the error of the pipeline, has the
\* events a client of the feed waits for, whichever of several handlers settled it.
\* A failure by exhausted attempts has none.
THEOREM TrailAhead == Spec => []TrailBacksOutcome
<1>1. Init => StageReached /\ TrailBacksOutcome
  BY DEF Init, StageReached, TrailBacksOutcome
<1>2. TypeInv /\ [Next]_vars => TypeInv'
  BY TypeSubmit, TypeHandle, TypeSweep DEF Next
<1> QED BY <1>1, <1>2, TrailStep, TypeInit, PTL DEF Spec

-----------------------------------------------------------------------------
(* The claim ledger is implemented.                                          *)

\* A step that gives out no number, settles nothing and announces nothing can only
\* call claims back.
LEMMA LedgerQuiet ==
  ASSUME UNCHANGED <<attempts, ledger, announced>>,
         \A j \in Jobs : status'[j] = "running" => status[j] = "running"
  PROVE  Ledger!Next
<1>1. PICK S \in SUBSET Jobs : S = {j \in Jobs : status'[j] # "running"}
  OBVIOUS
<1>2. [j \in Jobs |-> status'[j] = "running"]
        = [j \in Jobs |-> [i \in Jobs |-> status[i] = "running"][j] /\ j \notin S]
  BY <1>1
<1>3. Ledger!Withdraw(S)
  BY <1>2 DEF Ledger!Withdraw
<1> QED BY <1>3 DEF Ledger!Next

\* Every step of the ingest service is a step of the claim ledger, or none.
LEMMA LedgerStep == IInv /\ IInv' /\ [Next]_vars => [Ledger!Next]_(Ledger!ledgerVars)
<1> SUFFICES ASSUME IInv, IInv', [Next]_vars PROVE [Ledger!Next]_(Ledger!ledgerVars)
  OBVIOUS
<1> USE DEF IInv, TypeInv, TypeOK
<1>1. ASSUME NEW j \in Jobs,
             SubmitRow(j) \/ Submit(j) \/ SubmitDies(j) \/ LoseRequest(j)
             \/ ExpireLease(j) \/ SweepRepublish(j) \/ \E w \in Workers : Deliver(w, j)
      PROVE  Ledger!Next
  <2>1. UNCHANGED <<attempts, ledger, announced>>
        /\ \A k \in Jobs : status'[k] = "running" => status[k] = "running"
    BY <1>1 DEF SubmitRow, Submit, SubmitEvent, SubmitAudit, SubmitPublish, SubmitDies,
       LoseRequest, ExpireLease, SweepRepublish, Deliver, rowVars, historyVars
  <2> QED BY <2>1, LedgerQuiet
<1>2. ASSUME NEW w \in Workers,
             \/ Lookup(w) \/ SkipDuplicate(w) \/ BowOut(w)
             \/ RejectPayload(w) \/ AppendNormalising(w) \/ RunIntake(w) \/ AppendFinished(w)
             \/ AppendFailed(w) \/ StepRaises(w) \/ HandlerDies(w)
      PROVE  Ledger!Next
  <2>1. UNCHANGED <<attempts, ledger, announced, status>>
    BY <1>2 DEF Lookup, SkipDuplicate, BowOut, RejectPayload, AppendNormalising, RunIntake,
       AppendFinished, AppendFailed, StepRaises, HandlerDies, rowVars, historyVars
  <2> QED BY <2>1, LedgerQuiet
<1>3. ASSUME SweepSelect \/ SweepUpdate \/ SweepDies \/ UNCHANGED vars
      PROVE  Ledger!Next
  <2>1. UNCHANGED <<attempts, ledger, announced>>
        /\ \A k \in Jobs : status'[k] = "running" => status[k] = "running"
    BY <1>3 DEF SweepSelect, SweepUpdate, SweepDies, vars, rowVars, historyVars
  <2> QED BY <2>1, LedgerQuiet
<1>4. ASSUME NEW w \in Workers, Claim(w)
      PROVE  Ledger!Next
  <2>1. PICK j \in Jobs : j = handling[w]
    BY <1>4 DEF Claim, BusyHandles
  <2>2. [i \in Jobs |-> status'[i] = "running"]
          = [[i \in Jobs |-> status[i] = "running"] EXCEPT ![j] = TRUE]
    BY <1>4, <2>1 DEF Claim
  <2>3. Ledger!Issue(j)
    BY <1>4, <2>1, <2>2 DEF Claim, NextAttempt, Ledger!Issue
  <2> QED BY <2>3 DEF Ledger!Next
<1>5. ASSUME NEW w \in Workers, GiveUp(w) \/ MarkSucceeded(w) \/ MarkFailed(w)
      PROVE  Ledger!Next
  <2>1. PICK j \in Jobs : j = handling[w]
    BY <1>5 DEF GiveUp, MarkSucceeded, MarkFailed, BusyHandles
  <2>2. PICK o \in Terminal : Settle(w, o) /\ UNCHANGED announced
    BY <1>5 DEF GiveUp, MarkSucceeded, MarkFailed, Terminal
  <2>3. [i \in Jobs |-> status'[i] = "running"]
          = [[i \in Jobs |-> status[i] = "running"] EXCEPT ![j] = FALSE]
    BY <2>1, <2>2 DEF Settle, Terminal
  <2>4. Ledger!Settle(j, o)
    BY <2>1, <2>2, <2>3 DEF Settle, HoldsLease, Ledger!Settle
  <2> QED BY <2>4 DEF Ledger!Next
<1>6. ASSUME NEW w \in Workers, RecordAudit(w) \/ PublishFinish(w) \/ FireWebhook(w)
      PROVE  [Ledger!Next]_(Ledger!ledgerVars)
  <2>1. UNCHANGED <<attempts, ledger, status>> /\ pc[w] \in {"audit", "publish", "webhook"}
    BY <1>6 DEF RecordAudit, PublishFinish, FireWebhook, rowVars
  <2>2. CASE announced' = announced
    BY <2>1, <2>2 DEF Ledger!ledgerVars
  <2>3. ASSUME NEW c \in Channels, announced' = announced \cup {Notice(w, c)},
               Notice(w, c) \notin announced
        PROVE  Ledger!Next
    <3> DEFINE e == [job |-> handling[w], claim |-> lease[w], outcome |-> settled[w]]
    <3>1. e \in ledger
      BY <2>1 DEF AnnouncerSettled
    <3>2. Ledger!Announce(e, c)
      BY <2>1, <2>3 DEF Ledger!Announce, Notice
    <3> QED BY <3>1, <3>2 DEF Ledger!Next
  <2>4. announced' = announced
        \/ \E c \in Channels : announced' = announced \cup {Notice(w, c)}
                               /\ Notice(w, c) \notin announced
    BY <1>6 DEF RecordAudit, PublishFinish, FireWebhook, Send, Channels, AnnouncedSoFar,
       Notice, Claimed
  <2> QED BY <2>2, <2>3, <2>4
<1> QED BY <1>1, <1>2, <1>3, <1>4, <1>5, <1>6 DEF Next, Handle

\* The ingest service implements the claim ledger: fresh numbers, one outcome per
\* number while it is current, each outcome announced at most once per channel.
THEOREM ImplementsLedger == Spec => LedgerSpec
<1>1. Init => Ledger!Init
  BY DEF Init, Ledger!Init
<1> QED BY <1>1, LedgerStep, FenceInvariant, PTL DEF Spec, LedgerSpec, Ledger!Spec
=============================================================================
