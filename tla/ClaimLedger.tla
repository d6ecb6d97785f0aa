----------------------------- MODULE ClaimLedger -----------------------------
(***************************************************************************)
(* What the claim / lease machinery of flycanon's asynchronous ingest      *)
(* promises, without a worker, a bus or a sweep in sight: every claim of a *)
(* job carries a fresh number, at most one outcome is ever settled under a *)
(* number, it is settled only while that claim is the current one, and an  *)
(* outcome is announced only after it was settled and at most once on each *)
(* channel.  IngestJobs implements it (the substitution is there).         *)
(***************************************************************************)
EXTENDS Naturals

CONSTANTS Jobs, Outcomes, Channels

VARIABLES
  token,      \* token[j]: the number of the last claim of job j (0: never claimed)
  open,       \* open[j]: the current claim may still settle the job
  ledger,     \* the outcomes settled so far, each with the claim that settled it
  announced   \* what was told to the outside, with the channel it went through

ledgerVars == <<token, open, ledger, announced>>

Init ==
  /\ token = [j \in Jobs |-> 0]
  /\ open = [j \in Jobs |-> FALSE]
  /\ ledger = {}
  /\ announced = {}

\* A worker obtains the job under a number nobody held before.
Issue(j) ==
  /\ token' = [token EXCEPT ![j] = @ + 1]
  /\ open' = [open EXCEPT ![j] = TRUE]
  /\ UNCHANGED <<ledger, announced>>

\* Claims are called back without an outcome (the stuck-job sweep).
Withdraw(S) ==
  /\ open' = [j \in Jobs |-> open[j] /\ j \notin S]
  /\ UNCHANGED <<token, ledger, announced>>

\* The current claim settles the job, and can settle nothing after that.
Settle(j, o) ==
  /\ open[j]
  /\ open' = [open EXCEPT ![j] = FALSE]
  /\ ledger' = ledger \cup {[job |-> j, claim |-> token[j], outcome |-> o]}
  /\ UNCHANGED <<token, announced>>

\* A settled outcome goes out through a channel it has not gone through yet.
Announce(e, c) ==
  LET a == [job |-> e.job, claim |-> e.claim, outcome |-> e.outcome, channel |-> c]
  IN  /\ a \notin announced
      /\ announced' = announced \cup {a}
      /\ UNCHANGED <<token, open, ledger>>

Next ==
  \/ \E j \in Jobs : Issue(j)
  \/ \E S \in SUBSET Jobs : Withdraw(S)
  \/ \E j \in Jobs, o \in Outcomes : Settle(j, o)
  \/ \E e \in ledger, c \in Channels : Announce(e, c)

Spec == Init /\ [][Next]_ledgerVars
=============================================================================
