----------------------------- MODULE ConflictScan -----------------------------
(***************************************************************************)
(* ConflictDetector.detect: the published items of a workspace are paired  *)
(* in the order they are listed, a model judges each pair that is similar  *)
(* enough, and a pair it calls a conflict becomes a candidate for the      *)
(* reviewers and a relation between its items.                             *)
(*                                                                         *)
(* All items here are similar enough.  The schema declares the candidate's *)
(* source_id a reference to a source; PostgreSQL enforces that, SQLite, as *)
(* the repository opens it, does not.                                      *)
(***************************************************************************)
EXTENDS Naturals, Sequences, SequencesExt, FiniteSets

CONSTANTS
  Items,      \* the published knowledge items
  Scans,      \* the calls of detect
  MaxUpdates  \* bound: updates of items

VARIABLES
  database,   \* postgres or sqlite
  listing,    \* the published items, the last updated first
  updates,    \* count for the bound
  stage,      \* of each scan: new, judge, find, record, link, done, failed
  pairs,      \* the pairs it has yet to see, the one at hand first
  proposals,  \* the candidates of kind conflict_detection: pair, scan, status
  relations,  \* the conflicts_with relations
  confirmed   \* history: per scan, the pairs the model called a conflict

scan == <<stage, pairs>>
vars == <<database, listing, updates, scan, proposals, relations, confirmed>>

Pairs == {p \in Items \X Items : p[1] # p[2]}
Proposal == [pair : Pairs, by : Scans, status : {"proposed", "reviewed"}]

TypeOK ==
  /\ database \in {"postgres", "sqlite"}
  /\ listing \in Seq(Items) /\ IsInjective(listing)
  /\ updates \in 0 .. MaxUpdates
  /\ stage \in [Scans -> {"new", "judge", "find", "record", "link", "done", "failed"}]
  /\ \A s \in Scans : pairs[s] \in Seq(Pairs)
  /\ proposals \subseteq Proposal /\ relations \subseteq Pairs
  /\ confirmed \in [Scans -> SUBSET Pairs]

Init ==
  /\ database \in {"postgres", "sqlite"}
  /\ listing \in SetToSeqs(Items) /\ updates = 0
  /\ stage = [s \in Scans |-> "new"] /\ pairs = [s \in Scans |-> <<>>]
  /\ proposals = {} /\ relations = {}
  /\ confirmed = [s \in Scans |-> {}]

Goto(s, place) == stage' = [stage EXCEPT ![s] = place]
Pair(s) == Head(pairs[s])

\* The next pair is judged, or the scan is audited and answered.
NextPair(s) ==
  /\ pairs' = [pairs EXCEPT ![s] = Tail(@)]
  /\ Goto(s, IF Len(pairs[s]) > 1 THEN "judge" ELSE "done")

\* Each item with each that is listed after it.
PairsOf(items) ==
  SetToSortSeq({p \in (1 .. Len(items)) \X (1 .. Len(items)) : p[1] < p[2]},
               LAMBDA p, q : p[1] < q[1] \/ (p[1] = q[1] /\ p[2] < q[2]))

Detect(s) ==
  /\ stage[s] = "new"
  /\ LET order == PairsOf(listing)
     IN  pairs' = [pairs EXCEPT ![s] =
                     [i \in DOMAIN order |-> <<listing[order[i][1]], listing[order[i][2]]>>]]
  /\ Goto(s, IF Len(listing) < 2 THEN "done" ELSE "judge")
  /\ UNCHANGED <<database, listing, updates, proposals, relations, confirmed>>

\* A model that fails has not called the pair a conflict.
Judge(s) ==
  /\ stage[s] = "judge"
  /\ \/ NextPair(s) /\ UNCHANGED confirmed
     \/ /\ confirmed' = [confirmed EXCEPT ![s] = @ \cup {Pair(s)}]
        /\ Goto(s, "find") /\ UNCHANGED pairs
  /\ UNCHANGED <<database, listing, updates, proposals, relations>>

\* find_conflict_candidate: a proposal of this pair, in this order, not reviewed yet.
Find(s) ==
  /\ stage[s] = "find"
  /\ IF \E c \in proposals : c.pair = Pair(s) /\ c.status = "proposed"
       THEN NextPair(s)
       ELSE Goto(s, "record") /\ UNCHANGED pairs
  /\ UNCHANGED <<database, listing, updates, proposals, relations, confirmed>>

\* The candidate's source_id is the id of its first item, which is no source's.
RecordCandidate(s) ==
  /\ stage[s] = "record"
  /\ IF database = "postgres"
       THEN Goto(s, "failed") /\ UNCHANGED proposals
       ELSE /\ proposals' = proposals \cup {[pair |-> Pair(s), by |-> s, status |-> "proposed"]}
            /\ Goto(s, "link")
  /\ UNCHANGED <<database, listing, updates, pairs, relations, confirmed>>

\* Whatever add raises (the relation exists, an item is gone) is logged.
LinkRelation(s) ==
  /\ stage[s] = "link"
  /\ relations' \in {relations, relations \cup {Pair(s)}}
  /\ NextPair(s)
  /\ UNCHANGED <<database, listing, updates, proposals, confirmed>>

-----------------------------------------------------------------------------
(* The workspace goes on.                                                    *)

UpdateItem ==
  /\ updates < MaxUpdates /\ updates' = updates + 1
  /\ \E i \in ToSet(listing) : listing' = <<i>> \o Remove(listing, i)
  /\ UNCHANGED <<database, scan, proposals, relations, confirmed>>

ReviewProposal ==
  /\ \E c \in proposals :
       /\ c.status = "proposed"
       /\ proposals' = (proposals \ {c}) \cup {[c EXCEPT !.status = "reviewed"]}
  /\ UNCHANGED <<database, listing, updates, scan, relations, confirmed>>

Step(s) == Detect(s) \/ Judge(s) \/ Find(s) \/ RecordCandidate(s) \/ LinkRelation(s)

Next == (\E s \in Scans : Step(s)) \/ UpdateItem \/ ReviewProposal

Spec == Init /\ [][Next]_vars

-----------------------------------------------------------------------------
(* What the documents say and the code does not do; a run refutes it.        *)

\* "Confirmed conflicts land as CandidateRow rows ... so the inbox UI queues
\* them": a scan that is over has left a proposal for each pair it confirmed.
ConfirmedIsQueued ==
  \A s \in Scans : stage[s] \in {"done", "failed"} =>
    \A p \in confirmed[s] : \E c \in proposals : ToSet(c.pair) = ToSet(p)
=============================================================================
