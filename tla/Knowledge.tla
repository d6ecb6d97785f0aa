------------------------------ MODULE Knowledge ------------------------------
(***************************************************************************)
(* Canonical knowledge: KnowledgeService (create, update, supersede,       *)
(* retire) and the decisions of CandidateService (accept, reject) over     *)
(* canon_knowledge_items, canon_knowledge_versions and canon_candidates.   *)
(* Each repository call is a transaction of its own, so the calls of       *)
(* several clients interleave between any two of them; upsert_item is two  *)
(* statements (session.merge reads the row, the flush writes the columns   *)
(* that differ), so it is two steps.                                       *)
(*                                                                         *)
(* Bodies, tags, citations and actors are left out.  A definition whose    *)
(* name ends in Mutant is the one that follows it with a plausible bug.    *)
(***************************************************************************)
EXTENDS Integers, FiniteSets

CONSTANTS
  Items,        \* the ids uuid4 hands out (a bound: there are always more)
  Candidates,   \* the candidates the consolidator has proposed
  Calls,        \* the requests in flight at any time
  None,         \* no item, no candidate
  MaxRequests,  \* bound: requests that arrive
  MaxFaults     \* bound: calls that die half-way (a crash, a lost connection)

ASSUME NoneAssumption == None \notin Items /\ None \notin Candidates
ASSUME BoundAssumption == MaxRequests \in Nat /\ MaxFaults \in Nat

VARIABLES
  item,        \* canon_knowledge_items
  version,     \* canon_knowledge_versions, keyed by its UNIQUE constraint
  candidate,   \* canon_candidates
  pc, request, \* where each call is, and what it was asked
  mine,        \* the item row a call read at its start
  seen,        \* the item row its merge read
  announced,   \* history: the versions audited and published
  arrived,     \* requests that have arrived so far
  faults       \* calls that have died so far

tables == <<item, version, candidate>>
calls  == <<pc, request, mine, seen>>
vars   == <<tables, calls, announced, arrived, faults>>

Live == {"draft", "published"}

ItemRow ==
  [status: {"absent", "superseded", "retired"} \cup Live, current: Nat,
   retiredAt: BOOLEAN, supersededBy: Items \cup {None}]
NoItem == [status |-> "absent", current |-> 0, retiredAt |-> FALSE, supersededBy |-> None]

VersionRow == [status: {"superseded"} \cup Live, origin: Candidates \cup {None}]

CandidateRow ==
  [status: {"proposed", "accepted", "rejected"}, item: Items \cup {None}, version: Nat]

Request ==
  [op: {"none", "create", "update", "supersede", "retire", "accept", "reject"},
   item: Items \cup {None}, by: Items \cup {None}, candidate: Candidates \cup {None},
   status: Live]
NoRequest ==
  [op |-> "none", item |-> None, by |-> None, candidate |-> None, status |-> "draft"]

TypeOK ==
  /\ item \in [Items -> ItemRow]
  /\ DOMAIN version \subseteq Items \X Nat
  /\ \A p \in DOMAIN version : version[p] \in VersionRow
  /\ candidate \in [Candidates -> CandidateRow]
  /\ pc \in [Calls -> {"idle", "insert", "add_first", "get_item", "get_version",
                       "add_version", "merge_read", "merge_write", "demote", "announce",
                       "finalise", "get_target", "transition"}]
  /\ request \in [Calls -> Request]
  /\ mine \in [Calls -> ItemRow]
  /\ seen \in [Calls -> ItemRow]
  /\ announced \subseteq Items \X Nat
  /\ arrived \in Nat /\ faults \in Nat

Init ==
  /\ item = [i \in Items |-> NoItem]
  /\ version = [p \in {} |-> [status |-> "draft", origin |-> None]]
  /\ candidate = [c \in Candidates |-> [status |-> "proposed", item |-> None, version |-> 0]]
  /\ pc = [k \in Calls |-> "idle"]
  /\ request = [k \in Calls |-> NoRequest]
  /\ mine = [k \in Calls |-> NoItem]
  /\ seen = [k \in Calls |-> NoItem]
  /\ announced = {}
  /\ arrived = 0 /\ faults = 0

-----------------------------------------------------------------------------
(* The steps of a call; the first one is its arrival.                        *)

Exists(i) == item[i].status # "absent"

\* What the merge read is of no use after its flush.
Goto(k, p) ==
  /\ pc' = [pc EXCEPT ![k] = p]
  /\ seen' = [seen EXCEPT ![k] = NoItem]
  /\ UNCHANGED <<request, mine>>

\* The answer goes back, be it the row or the typed error.
Return(k) ==
  /\ pc' = [pc EXCEPT ![k] = "idle"]
  /\ request' = [request EXCEPT ![k] = NoRequest]
  /\ mine' = [mine EXCEPT ![k] = NoItem]
  /\ seen' = [seen EXCEPT ![k] = NoItem]

\* claim_decision: one UPDATE WHERE status = 'proposed'.
UndecidedMutant(c) == candidate[c].status # "rejected"
Undecided(c) == candidate[c].status = "proposed"

\* Bound: a new item is asked for only while there is an id for it.
IdLeft == Cardinality({k \in Calls : pc[k] = "insert"}) < Cardinality({i \in Items : ~Exists(i)})

\* The claim; reject is done with it, accept goes on to create or update.  A
\* candidate somebody has decided already (CandidateAlreadyDecided) stays as it is.
Decide(k, c, verdict) ==
  /\ Undecided(c)
  /\ candidate' = [candidate EXCEPT ![c].status = verdict]
  /\ UNCHANGED <<item, version, mine, seen, announced, faults>>

Reject(k, c) == Decide(k, c, "rejected") /\ UNCHANGED <<pc, request>>

\* accept names a target item, or none to create one.
Accept(k, c, target, s) ==
  /\ Decide(k, c, "accepted") /\ (target = None => IdLeft)
  /\ pc' = [pc EXCEPT ![k] = IF target = None THEN "insert" ELSE "get_item"]
  /\ request' = [request EXCEPT ![k] =
       [NoRequest EXCEPT !.op = "accept", !.item = target, !.candidate = c, !.status = s]]

\* create: the item row first, pointing at a version that comes second.
InsertItem(k, r, i) ==
  /\ ~Exists(i)
  /\ item' = [item EXCEPT ![i] = [NoItem EXCEPT !.status = r.status, !.current = 1]]
  /\ request' = [request EXCEPT ![k] = [r EXCEPT !.item = i]]
  /\ pc' = [pc EXCEPT ![k] = "add_first"]
  /\ UNCHANGED <<version, candidate, mine, seen, announced, faults>>

Create(k, s, i) ==
  IdLeft /\ InsertItem(k, [NoRequest EXCEPT !.op = "create", !.status = s], i)
AcceptInserts(k, i) ==
  pc[k] = "insert" /\ InsertItem(k, request[k], i)

\* INSERT into canon_knowledge_versions.
StoreVersion(k, n) ==
  version' = [p \in DOMAIN version \cup {<<request[k].item, n>>} |->
                IF p = <<request[k].item, n>>
                  THEN [status |-> request[k].status, origin |-> request[k].candidate]
                  ELSE version[p]]

AddFirst(k) ==
  /\ pc[k] = "add_first"
  /\ StoreVersion(k, 1)
  /\ Goto(k, "announce")
  /\ UNCHANGED <<item, candidate, announced, faults>>

\* The early returns on what get_item found.
Refused(r) ==
  \/ ~Exists(r.item)
  \/ r.op # "supersede" /\ item[r.item].status = "retired"
  \/ r.by = r.item

\* get_item; update goes on with the row it read.  A request refused here ends
\* as it came, so only the ones that proceed are steps.
ReadItem(k, r, next) ==
  /\ ~Refused(r)
  /\ request' = [request EXCEPT ![k] = r]
  /\ pc' = [pc EXCEPT ![k] = next]
  /\ mine' = [mine EXCEPT ![k] = IF next = "get_version" THEN item[r.item] ELSE NoItem]
  /\ UNCHANGED <<tables, seen, announced, faults>>

Update(k, i, s) ==
  ReadItem(k, [NoRequest EXCEPT !.op = "update", !.item = i, !.status = s], "get_version")

Supersede(k, i, by) ==
  ReadItem(k, [NoRequest EXCEPT !.op = "supersede", !.item = i, !.by = by], "get_target")

Retire(k, i) ==
  ReadItem(k, [NoRequest EXCEPT !.op = "retire", !.item = i], "transition")

\* The update inside accept: what it raises is the end of accept too.
AcceptReads(k) ==
  /\ pc[k] = "get_item"
  /\ \/ ReadItem(k, request[k], "get_version")
     \/ /\ Refused(request[k])
        /\ Return(k)
        /\ UNCHANGED <<tables, announced, faults>>

\* update reads the version the item points at.
GetVersion(k) ==
  /\ pc[k] = "get_version"
  /\ IF <<request[k].item, mine[k].current>> \in DOMAIN version
       THEN Goto(k, "add_version")
       ELSE Return(k)
  /\ UNCHANGED <<tables, announced, faults>>

NextVersionMutant(k) == mine[k].current - 1
NextVersion(k) == mine[k].current + 1

\* The UNIQUE constraint on (knowledge_item_id, version).
VacantMutant(k) == TRUE
Vacant(k) == <<request[k].item, NextVersion(k)>> \notin DOMAIN version

\* Citations follow the version; they are not modelled.
AddVersion(k) ==
  /\ pc[k] = "add_version" /\ Vacant(k)
  /\ StoreVersion(k, NextVersion(k))
  /\ Goto(k, "merge_read")
  /\ UNCHANGED <<item, candidate, announced, faults>>

\* KnowledgeVersionConflict.
VersionConflict(k) ==
  /\ pc[k] = "add_version" /\ ~Vacant(k)
  /\ Return(k)
  /\ UNCHANGED <<tables, announced, faults>>

\* The SELECT of session.merge.
MergeRead(k) ==
  /\ pc[k] = "merge_read"
  /\ seen' = [seen EXCEPT ![k] = item[request[k].item]]
  /\ pc' = [pc EXCEPT ![k] = "merge_write"]
  /\ UNCHANGED <<tables, request, mine, announced, faults>>

\* The row as update leaves it in memory.
Updated(k) == [mine[k] EXCEPT !.current = NextVersion(k), !.status = request[k].status]

\* The flush: an UPDATE of the columns that differ from what the SELECT returned.
MergedMutant(k) ==
  [column \in DOMAIN mine[k] |->
     IF column # "status" /\ Updated(k)[column] # seen[k][column]
       THEN Updated(k)[column]
       ELSE item[request[k].item][column]]
Merged(k) ==
  [column \in DOMAIN mine[k] |->
     IF Updated(k)[column] # seen[k][column]
       THEN Updated(k)[column]
       ELSE item[request[k].item][column]]

MergeWriteMutant(k) ==
  /\ pc[k] = "merge_write"
  /\ item' = [item EXCEPT ![request[k].item].status = request[k].status]
  /\ Goto(k, "demote")
  /\ UNCHANGED <<version, candidate, announced, faults>>
MergeWrite(k) ==
  /\ pc[k] = "merge_write"
  /\ item' = [item EXCEPT ![request[k].item] = Merged(k)]
  /\ Goto(k, "demote")
  /\ UNCHANGED <<version, candidate, announced, faults>>

\* upsert_version_status on the version update started from.
DemoteMutant(k) ==
  /\ pc[k] = "demote"
  /\ version' = [version EXCEPT ![<<request[k].item, NextVersion(k)>>].status = "superseded"]
  /\ Goto(k, "announce")
  /\ UNCHANGED <<item, candidate, announced, faults>>
Demote(k) ==
  /\ pc[k] = "demote"
  /\ version' = [version EXCEPT ![<<request[k].item, mine[k].current>>].status = "superseded"]
  /\ Goto(k, "announce")
  /\ UNCHANGED <<item, candidate, announced, faults>>

\* The audit row and the lifecycle event; accept goes on to finalise.  (A call
\* that created its item read none: NextVersion is 1.)
Announce(k) ==
  /\ pc[k] = "announce"
  /\ announced' = announced \cup {<<request[k].item, NextVersion(k)>>}
  /\ IF request[k].op = "accept" THEN Goto(k, "finalise") ELSE Return(k)
  /\ UNCHANGED <<tables, faults>>

\* finalise: the materialised pointers.
Finalise(k) ==
  /\ pc[k] = "finalise"
  /\ candidate' = [candidate EXCEPT ![request[k].candidate].item = request[k].item,
                                    ![request[k].candidate].version = NextVersion(k)]
  /\ Return(k)
  /\ UNCHANGED <<item, version, announced, faults>>

\* supersede checks its replacement.
GetTarget(k) ==
  /\ pc[k] = "get_target"
  /\ IF item[request[k].by].status \in {"absent", "retired"}
       THEN Return(k)
       ELSE Goto(k, "transition")
  /\ UNCHANGED <<tables, announced, faults>>

\* The statuses claim_status_transition moves an item from.
From(op) == IF op = "supersede" THEN Live ELSE Live \cup {"superseded"}

\* claim_status_transition: one UPDATE; its loser gets the typed error.
Transition(k) ==
  LET i == request[k].item
  IN  /\ pc[k] = "transition"
      /\ item' =
           IF item[i].status \notin From(request[k].op) THEN item
           ELSE IF request[k].op = "supersede"
           THEN [item EXCEPT ![i].status = "superseded", ![i].supersededBy = request[k].by]
           ELSE [item EXCEPT ![i].status = "retired", ![i].retiredAt = TRUE]
      /\ Return(k)
      /\ UNCHANGED <<version, candidate, announced, faults>>

\* A call dies where it stands: the process crashes, or a repository call raises.
CallDies(k) ==
  /\ pc[k] # "idle" /\ faults < MaxFaults
  /\ faults' = faults + 1
  /\ Return(k)
  /\ UNCHANGED <<tables, announced>>

-----------------------------------------------------------------------------
Arrive(k) ==
  /\ pc[k] = "idle" /\ arrived < MaxRequests
  /\ arrived' = arrived + 1
  /\ \/ \E s \in Live, i \in Items : Create(k, s, i) \/ Update(k, i, s)
     \/ \E i \in Items : Retire(k, i) \/ \E by \in Items : Supersede(k, i, by)
     \/ \E c \in Candidates :
          Reject(k, c) \/ \E t \in Items \cup {None}, s \in Live : Accept(k, c, t, s)

Step(k) ==
  \/ (\E i \in Items : AcceptInserts(k, i)) \/ AddFirst(k) \/ AcceptReads(k)
  \/ GetVersion(k) \/ AddVersion(k) \/ VersionConflict(k)
  \/ MergeRead(k) \/ MergeWrite(k) \/ Demote(k) \/ Announce(k) \/ Finalise(k)
  \/ GetTarget(k) \/ Transition(k)

Serve(k) == (Step(k) \/ CallDies(k)) /\ UNCHANGED arrived

\* Everything is answered and nobody asks for more.
Rest == (\A k \in Calls : pc[k] = "idle") /\ UNCHANGED vars

Next == (\E k \in Calls : Arrive(k) \/ Serve(k)) \/ Rest

Spec == Init /\ [][Next]_vars

\* A request that is being served goes on: its coroutine is scheduled again
\* when the database answers.  Nobody has to send another request.
FairSpec == Spec /\ \A k \in Calls : WF_vars(Step(k) /\ UNCHANGED arrived)
-----------------------------------------------------------------------------
(* Safety.                                                                   *)

Stored(i, n) == <<i, n>> \in DOMAIN version

\* Each candidate becomes at most one version, only by being accepted, and the
\* pointers finalise writes name exactly the version that came of it: the
\* decision is claimed before the knowledge write, whoever else clicks.
CandidateMaterialisedOnce ==
  /\ \A p, q \in DOMAIN version :
       version[p].origin # None /\ version[p].origin = version[q].origin => p = q
  /\ \A p \in DOMAIN version :
       version[p].origin # None => candidate[version[p].origin].status = "accepted"
  /\ \A c \in Candidates :
       candidate[c].item # None =>
         /\ Stored(candidate[c].item, candidate[c].version)
         /\ version[<<candidate[c].item, candidate[c].version>>].origin = c

\* "The status on the item mirrors the status on the current version": an item
\* that is live has the status its current version was stored with.
LiveItemMirrorsVersion ==
  \A i \in Items :
    item[i].status \in Live /\ Stored(i, item[i].current) =>
      version[<<i, item[i].current>>].status = item[i].status

\* What was audited and published about a version is true of the tables, and
\* stays true: the item points at it or past it and its predecessor is demoted.
AnnouncedVersionsStand ==
  \A a \in announced :
    /\ Stored(a[1], a[2]) /\ a[2] <= item[a[1]].current
    /\ a[2] > 1 => version[<<a[1], a[2] - 1>>].status = "superseded"

\* No version is written for item i at the moment.
Quiet(i) ==
  \A k \in Calls :
    pc[k] \in {"add_first", "merge_read", "merge_write", "demote"} => request[k].item # i

\* As long as no call has died, an item nobody is writing has exactly one live
\* version, the current one: search never cites two versions of one item.
OneLiveVersion ==
  faults = 0 =>
    \A i \in Items : Quiet(i) =>
      {p \in DOMAIN version : p[1] = i /\ version[p].status \in Live}
        = IF Exists(i) THEN {<<i, item[i].current>>} ELSE {}

\* A version takes the place of the one before it, for those who search and for
\* those who were told.
VersionsSucceed == OneLiveVersion /\ AnnouncedVersionsStand

\* The versions of an item implement the single-writer log of VersionLog: no
\* number is skipped, stored twice or taken back, and the pointer follows.
Log == INSTANCE VersionLog WITH
  log <- [i \in Items |-> {p[2] : p \in {q \in DOMAIN version : q[1] = i}}],
  pointer <- [i \in Items |-> item[i].current]
LogSpec == Log!Spec

(* Liveness.                                                                 *)

\* A stored version becomes current unless some call died half-way: whoever
\* was told of a conflict finds the bumped current_version in the end.
StoredVersionBecomesCurrent ==
  \A i \in Items, n \in 1 .. MaxRequests :
    Stored(i, n) ~> (item[i].current >= n \/ faults > 0)

(* What the documents say and the code does not do; a run refutes each.      *)

\* knowledge_status.py: "retired -- the entire item (every version) is
\* withdrawn"; the lifecycle transitions are atomic (concurrency.md).  The
\* merge of an update that started earlier puts the item back.
RetiredIsFinal ==
  [][\A i \in Items : item[i].status = "retired" => item'[i].status = "retired"]_vars

\* concurrency.md, on the 409: "Callers re-read the item, observe the bumped
\* current_version, and re-submit".  Whoever is told of a conflict lost to a
\* version that is current already or that its writer is about to point at.  A
\* call that dies after add_version leaves a version nobody will ever point at,
\* and every later update of the item conflicts with it.
ConflictIsTransient ==
  \A k \in Calls :
    pc[k] = "add_version" /\ ~Vacant(k) =>
      \/ item[request[k].item].current >= NextVersion(k)
      \/ \E other \in Calls :
           /\ pc[other] \in {"merge_read", "merge_write"}
           /\ request[other].item = request[k].item
=============================================================================
