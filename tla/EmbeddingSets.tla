---------------------------- MODULE EmbeddingSets ----------------------------
(***************************************************************************)
(* The embedding sets of one workspace: canon_embedding_sets, the pointer  *)
(* canon_workspaces.active_embedding_set_id, the vectors a set holds, and  *)
(* the model stamp of each chunk.  Ingests write into the set the pointer  *)
(* names and mint the first one; an operator's commands build another set  *)
(* (flycanon reindex, killed and resumed), switch the pointer to it, roll  *)
(* back and drop.  Each database call is a step of its own.                *)
(*                                                                         *)
(* Dimensions, endpoints and prices are left out; a chunk's id is a number *)
(* because reindex walks the chunks in the order of their ids, and a new   *)
(* id (uuid4) may sort anywhere.  A definition whose name ends in Mutant   *)
(* is the one that follows it with a plausible bug.                        *)
(***************************************************************************)
EXTENDS Integers, FiniteSets, FiniteSetsExt

CONSTANTS
  Sets,         \* the ids new_embedding_set_id hands out
  Models,       \* provider:model
  DefaultModel, \* the model of the process, for the first set
  Chunks,       \* the chunk ids, positive numbers
  Ingests,      \* requests that ingest or remove, in flight at any time
  Operators,    \* sessions of the flycanon command line
  BatchSize,    \* chunks a reindex embeds at a time
  None,         \* no set, no model
  MaxIds,       \* bound: sets made and chunks ingested, together
  MaxCommands,  \* bound: commands the operators give
  MaxFaults     \* bound: processes killed, embedders that throttle

ASSUME SetsAssumption == IsFiniteSet(Sets)
ASSUME NoneAssumption == None \notin Sets /\ None \notin Models
ASSUME ModelAssumption == DefaultModel \in Models
ASSUME ChunkAssumption == Chunks \subseteq Nat \ {0} /\ IsFiniteSet(Chunks)
ASSUME BatchAssumption == BatchSize \in Nat \ {0}

VARIABLES
  sets,     \* canon_embedding_sets
  pointer,  \* canon_workspaces.active_embedding_set_id
  stamp,    \* canon_chunks.embedding_model; None when there is no such chunk
  vectors,  \* canon_chunk_vectors: <<set, chunk>>
  cursor,   \* the reindex job of a set: the last chunk embedded, 0 at the start
  ingest,   \* what each ingest or removal is doing
  command,  \* what each operator's command is doing
  given,    \* commands given so far
  faults,   \* faults so far
  due,      \* history: the chunks there when the last catch-up of a set began
  left,     \* history: when the pointer last left a set, 0 if it never did
  reopened, \* history: sets resumed and not activated since, but by a run that
            \* had another run of the set under way
  condemned, \* history: sets a drop has begun on
  into,     \* history: the set each chunk was ingested into
  doomed,   \* history: chunks a removal has begun on
  raced     \* history: two operations that act on the pointer or on a set it may
            \* name were in flight at once

tables  == <<sets, pointer, stamp, vectors, cursor>>
history == <<due, left, reopened, condemned, into, doomed, raced>>
vars    == <<tables, ingest, command, given, faults, history>>

SetRow == [status: {"absent", "building", "ready", "active", "retired"},
           model: Models \cup {None}, retired_at: Nat]
NoSet == [status |-> "absent", model |-> None, retired_at |-> 0]

Ingest == [at: {"idle", "mint", "point", "insert", "upsert", "unindex", "delete"},
           set: Sets \cup {None}, chunk: Chunks \cup {0}]
NoIngest == [at |-> "idle", set |-> None, chunk |-> 0]

\* What a command holds in memory: the set, the set it replaces, how far its
\* scan is, the chunks it embeds, whether the scan is the catch-up, what the
\* catch-up found, and whether the plan counted chunks and none was read.
Command == [at: {"idle", "job", "read", "embed", "stamp", "advance", "ready", "check",
                 "look", "point", "promote", "retire", "clear", "remove"},
            set: Sets \cup {None}, previous: Sets \cup {None}, last: Chunks \cup {0},
            batch: SUBSET Chunks, catchup: BOOLEAN, found: SUBSET Chunks, owed: BOOLEAN]
NoCommand == [at |-> "idle", set |-> None, previous |-> None, last |-> 0,
              batch |-> {}, catchup |-> FALSE, found |-> {}, owed |-> FALSE]

TypeOK ==
  /\ sets \in [Sets -> SetRow] /\ pointer \in Sets \cup {None}
  /\ stamp \in [Chunks -> Models \cup {None}] /\ vectors \subseteq Sets \X Chunks
  /\ cursor \in [Sets -> Chunks \cup {0, -1}]
  /\ ingest \in [Ingests -> Ingest] /\ command \in [Operators -> Command]
  /\ given \in Nat /\ faults \in Nat
  /\ due \in [Sets -> SUBSET Chunks] /\ left \in [Sets -> Nat]
  /\ reopened \subseteq Sets /\ condemned \subseteq Sets
  /\ into \in [Chunks -> Sets \cup {None}]
  /\ doomed \subseteq Chunks /\ raced \in BOOLEAN

\* A cursor of -1: the set has no reindex job.
Init ==
  /\ sets = [s \in Sets |-> NoSet] /\ pointer = None
  /\ stamp = [c \in Chunks |-> None] /\ vectors = {}
  /\ cursor = [s \in Sets |-> -1]
  /\ ingest = [i \in Ingests |-> NoIngest]
  /\ command = [o \in Operators |-> NoCommand]
  /\ given = 0 /\ faults = 0
  /\ due = [s \in Sets |-> {}] /\ left = [s \in Sets |-> 0]
  /\ reopened = {} /\ condemned = {}
  /\ into = [c \in Chunks |-> None] /\ doomed = {} /\ raced = FALSE

-----------------------------------------------------------------------------
(* What the steps have in common.                                            *)

Present == {c \in Chunks : stamp[c] # None}
Exists(s) == sets[s].status # "absent"

\* An id nobody has had, within the bound.
IdsLeft ==
  Cardinality({s \in Sets : sets[s] # NoSet})
    + Cardinality({c \in Chunks : into[c] # None \/ \E i \in Ingests : ingest[i].chunk = c}) < MaxIds
Unused(s) == sets[s] = NoSet /\ IdsLeft

\* set_status: an UPDATE, so nothing happens to a set that is gone.
SetStatus(s, status) ==
  IF Exists(s) THEN [sets EXCEPT ![s].status = status] ELSE sets

\* The clock of retired_at.
Now == 1 + Max({sets[s].retired_at : s \in Sets} \cup {left[s] : s \in Sets})

Building == {"job", "read", "embed", "stamp", "advance", "ready"}
BuiltByAnother(o) ==
  \E p \in Operators \ {o} : command[p].at \in Building /\ command[p].set = command[o].set

Switching == {"mint", "check", "look", "point", "promote", "retire"}
Dropping == {"clear", "remove"}
Movers ==
  {i \in Ingests : ingest[i].at \in Switching}
    \cup {o \in Operators : command[o].at \in Switching \cup Dropping}

\* An operation that will act on the pointer, or on a set it may name, begins.
MoverBegins == raced' = (raced \/ Movers # {})

\* point_workspace_at
PointAt(s) ==
  /\ pointer' = s
  /\ left' = IF pointer \notin {None, s} THEN [left EXCEPT ![pointer] = Now] ELSE left

IngestAt(i, at) == ingest' = [ingest EXCEPT ![i].at = at]
CommandAt(o, at) == command' = [command EXCEPT ![o].at = at]
CommandEnds(o) == command' = [command EXCEPT ![o] = NoCommand]

-----------------------------------------------------------------------------
(* Ingesting and removing a chunk.                                           *)

\* ensure_active: the set the pointer names, or a set to mint.  A pointer to a
\* set that is gone raises.  The pointer is read before its set, and a set that
\* exists at the second read did so at the first.
Bind(i) ==
  /\ ingest[i].at = "idle"
  /\ IdsLeft
  /\ \E c \in Chunks :
       /\ into[c] = None /\ \A other \in Ingests : ingest[other].chunk # c
       /\ \/ /\ pointer = None
             /\ ingest' = [ingest EXCEPT ![i] = [at |-> "mint", set |-> None, chunk |-> c]]
             /\ MoverBegins
          \/ /\ pointer # None /\ Exists(pointer)
             /\ ingest' = [ingest EXCEPT ![i] = [at |-> "insert", set |-> pointer, chunk |-> c]]
             /\ UNCHANGED raced
  /\ UNCHANGED <<tables, command, given, faults, due, left, reopened, condemned, into, doomed>>

\* create(status="active")
Mint(i) ==
  /\ ingest[i].at = "mint"
  /\ \E s \in Sets :
       /\ Unused(s)
       /\ sets' = [sets EXCEPT ![s] = [NoSet EXCEPT !.status = "active", !.model = DefaultModel]]
       /\ ingest' = [ingest EXCEPT ![i].at = "point", ![i].set = s]
  /\ UNCHANGED <<pointer, stamp, vectors, cursor, command, given, faults, history>>

PointAtMinted(i) ==
  /\ ingest[i].at = "point"
  /\ PointAt(ingest[i].set)
  /\ IngestAt(i, "insert")
  /\ UNCHANGED <<sets, stamp, vectors, cursor, command, given, faults,
                 due, reopened, condemned, into, doomed, raced>>

\* The chunk's row carries the model of the set the request is bound to.
InsertChunk(i) ==
  /\ ingest[i].at = "insert"
  /\ stamp' = [stamp EXCEPT ![ingest[i].chunk] = sets[ingest[i].set].model]
  /\ into' = [into EXCEPT ![ingest[i].chunk] = ingest[i].set]
  /\ IngestAt(i, "upsert")
  /\ UNCHANGED <<sets, pointer, vectors, cursor, command, given, faults,
                 due, left, reopened, condemned, doomed, raced>>

UpsertVector(i) ==
  /\ ingest[i].at = "upsert"
  /\ vectors' = vectors \cup {<<ingest[i].set, ingest[i].chunk>>}
  /\ ingest' = [ingest EXCEPT ![i] = NoIngest]
  /\ UNCHANGED <<sets, pointer, stamp, cursor, command, given, faults, history>>

\* A removal deletes the vectors of the chunk from every set, then its row.
RemoveChunk(i) ==
  /\ ingest[i].at = "idle"
  /\ \E c \in Present \ doomed :
       /\ ingest' = [ingest EXCEPT ![i] = [at |-> "unindex", set |-> None, chunk |-> c]]
       /\ doomed' = doomed \cup {c}
  /\ UNCHANGED <<tables, command, given, faults, due, left, reopened, condemned, into, raced>>

Unindex(i) ==
  /\ ingest[i].at = "unindex"
  /\ vectors' = {v \in vectors : v[2] # ingest[i].chunk}
  /\ IngestAt(i, "delete")
  /\ UNCHANGED <<sets, pointer, stamp, cursor, command, given, faults, history>>

DeleteChunk(i) ==
  /\ ingest[i].at = "delete"
  /\ stamp' = [stamp EXCEPT ![ingest[i].chunk] = None]
  /\ ingest' = [ingest EXCEPT ![i] = NoIngest]
  /\ UNCHANGED <<sets, pointer, vectors, cursor, command, given, faults, history>>

-----------------------------------------------------------------------------
(* flycanon reindex: open a set, walk the chunks, catch up, declare ready.   *)

Give(o) ==
  /\ command[o].at = "idle" /\ given < MaxCommands
  /\ given' = given + 1

\* plan reads the current binding, which raises when the pointer's set is gone.
Planned(o) == Give(o) /\ (pointer # None => Exists(pointer))

\* A fresh run: the set first, then the job that can resume it.
CreateSet(o, s, m) ==
  /\ Planned(o) /\ Unused(s)
  /\ sets' = [sets EXCEPT ![s] = [NoSet EXCEPT !.status = "building", !.model = m]]
  /\ command' = [command EXCEPT ![o] = [NoCommand EXCEPT !.at = "job", !.set = s, !.owed = Present # {}]]
  /\ UNCHANGED <<pointer, stamp, vectors, cursor, ingest, faults, history>>

AddJob(o) ==
  /\ command[o].at = "job"
  /\ cursor' = [cursor EXCEPT ![command[o].set] = 0]
  /\ CommandAt(o, "read")
  /\ UNCHANGED <<sets, pointer, stamp, vectors, ingest, given, faults, history>>

\* --resume: from the cursor of the set's job, whatever status the set has.
ResumeMutant(o, s) ==
  /\ Planned(o) /\ Exists(s)
  /\ command' = [command EXCEPT ![o] = [NoCommand EXCEPT !.at = "read", !.set = s, !.last = cursor[s],
                                          !.owed = cursor[s] = 0 /\ Present # {}]]
  /\ reopened' = reopened \cup {s}
  /\ UNCHANGED <<tables, ingest, faults, due, left, condemned, into, doomed, raced>>
Resume(o, s) ==
  /\ Planned(o) /\ Exists(s) /\ cursor[s] # -1
  /\ command' = [command EXCEPT ![o] = [NoCommand EXCEPT !.at = "read", !.set = s, !.last = cursor[s],
                                          !.owed = cursor[s] = 0 /\ Present # {}]]
  /\ reopened' = reopened \cup {s}
  /\ UNCHANGED <<tables, ingest, faults, due, left, condemned, into, doomed, raced>>

\* list_for_workspace: the next chunks by id.
NextBatch(last) ==
  LET after == {c \in Present : c > last}
  IN  {c \in after : Cardinality({d \in after : d < c}) < BatchSize}

\* The catch-up embeds what carries another model's stamp.
StaleMutant(batch, s) == {}
Stale(batch, s) == {c \in batch : stamp[c] # sets[s].model}

\* One page.  At the end of the walk the catch-up starts from the beginning; a
\* run that read nothing where the plan counted chunks raises instead.
ReadBatch(o) ==
  LET k == command[o]
      page == NextBatch(k.last)
      wanted == IF k.catchup THEN Stale(page, k.set) ELSE page
  IN  /\ k.at = "read"
      /\ command' = [command EXCEPT ![o] =
           IF page # {}
             THEN [k EXCEPT !.last = Max(page), !.batch = wanted, !.owed = FALSE,
                            !.at = IF wanted = {} THEN "read" ELSE "embed"]
           ELSE IF k.catchup THEN [k EXCEPT !.at = "ready"]
           ELSE IF k.owed THEN NoCommand
           ELSE [k EXCEPT !.catchup = TRUE, !.last = 0, !.found = Present]]
      /\ UNCHANGED <<tables, ingest, given, faults, history>>

\* The vectors of a batch, under the set's binding.
EmbedBatch(o) ==
  /\ command[o].at = "embed"
  /\ vectors' = vectors \cup ({command[o].set} \X command[o].batch)
  /\ CommandAt(o, "stamp")
  /\ UNCHANGED <<sets, pointer, stamp, cursor, ingest, given, faults, history>>

\* The walk is throttled: the set is building, and the run can be resumed.
Throttled(o) ==
  /\ command[o].at = "embed" /\ ~command[o].catchup /\ faults < MaxFaults
  /\ faults' = faults + 1
  /\ sets' = SetStatus(command[o].set, "building")
  /\ CommandEnds(o)
  /\ UNCHANGED <<pointer, stamp, vectors, cursor, ingest, given, history>>

StampBatch(o) ==
  LET k == command[o]
  IN  /\ k.at = "stamp"
      /\ stamp' = [c \in Chunks |->
                     IF c \in k.batch \cap Present THEN sets[k.set].model ELSE stamp[c]]
      /\ command' = [command EXCEPT ![o].at = IF k.catchup THEN "read" ELSE "advance", ![o].batch = {}]
      /\ UNCHANGED <<sets, pointer, vectors, cursor, ingest, given, faults, history>>

Advance(o) ==
  /\ command[o].at = "advance"
  /\ cursor' = [cursor EXCEPT ![command[o].set] = command[o].last]
  /\ CommandAt(o, "read")
  /\ UNCHANGED <<sets, pointer, stamp, vectors, ingest, given, faults, history>>

\* The run then activates the set, or ends: --no-activate, or the role may not
\* create the index.
MarkReady(o) ==
  LET s == command[o].set
  IN  /\ command[o].at = "ready"
      /\ sets' = SetStatus(s, "ready")
      /\ due' = [due EXCEPT ![s] = command[o].found]
      /\ \/ command' = [command EXCEPT ![o] = [NoCommand EXCEPT !.at = "check", !.set = s]] /\ MoverBegins
         \/ CommandEnds(o) /\ UNCHANGED raced
      /\ UNCHANGED <<pointer, stamp, vectors, cursor, ingest, given, faults,
                     left, reopened, condemned, into, doomed>>

-----------------------------------------------------------------------------
(* activate, rollback, drop.                                                 *)

Servable(s) == sets[s].status \in {"ready", "active", "retired"}

\* A set that cannot be served is refused.
Activate(o, s) ==
  /\ Give(o) /\ Servable(s)
  /\ command' = [command EXCEPT ![o] = [NoCommand EXCEPT !.at = "look", !.set = s]]
  /\ MoverBegins
  /\ UNCHANGED <<tables, ingest, faults, due, left, reopened, condemned, into, doomed>>

\* previous_active: the set retired last, except the one that is served.
Retired == {s \in Sets \ {pointer} : sets[s].status = "retired"}
RetiredLastMutant == {s \in Retired : \A t \in Retired : sets[t].retired_at >= sets[s].retired_at}
RetiredLast == {s \in Retired : \A t \in Retired : sets[t].retired_at <= sets[s].retired_at}

Rollback(o) ==
  /\ Give(o) /\ pointer # None
  /\ \E s \in RetiredLast :
       command' = [command EXCEPT ![o] = [NoCommand EXCEPT !.at = "check", !.set = s]]
  /\ MoverBegins
  /\ UNCHANGED <<tables, ingest, faults, due, left, reopened, condemned, into, doomed>>

CheckServable(o) ==
  /\ command[o].at = "check"
  /\ IF Servable(command[o].set)
       THEN CommandAt(o, "look") ELSE CommandEnds(o)
  /\ UNCHANGED <<tables, ingest, given, faults, history>>

LookAtPrevious(o) ==
  /\ command[o].at = "look"
  /\ command' = [command EXCEPT ![o].at = "point", ![o].previous = pointer]
  /\ UNCHANGED <<tables, ingest, given, faults, history>>

PointAtTarget(o) ==
  /\ command[o].at = "point"
  /\ PointAt(command[o].set)
  /\ CommandAt(o, "promote")
  /\ UNCHANGED <<sets, stamp, vectors, cursor, ingest, given, faults,
                 due, reopened, condemned, into, doomed, raced>>

\* The target becomes active; with no other set to retire the command is done.
PromoteMutant(o) ==
  LET k == command[o]
  IN  /\ k.at = "promote"
      /\ IF k.previous \notin {None, k.set}
           THEN CommandAt(o, "retire") ELSE CommandEnds(o)
      /\ reopened' = IF BuiltByAnother(o) THEN reopened ELSE reopened \ {k.set}
      /\ UNCHANGED <<tables, ingest, given, faults, due, left, condemned, into, doomed, raced>>
Promote(o) ==
  LET k == command[o]
  IN  /\ k.at = "promote"
      /\ sets' = SetStatus(k.set, "active")
      /\ IF k.previous \notin {None, k.set}
           THEN CommandAt(o, "retire") ELSE CommandEnds(o)
      /\ reopened' = IF BuiltByAnother(o) THEN reopened ELSE reopened \ {k.set}
      /\ UNCHANGED <<pointer, stamp, vectors, cursor, ingest, given, faults,
                     due, left, condemned, into, doomed, raced>>

RetirePrevious(o) ==
  LET s == command[o].previous
  IN  /\ command[o].at = "retire"
      /\ sets' = IF Exists(s) THEN [sets EXCEPT ![s].status = "retired", ![s].retired_at = Now] ELSE sets
      /\ CommandEnds(o)
      /\ UNCHANGED <<pointer, stamp, vectors, cursor, ingest, given, faults, history>>

\* drop_set refuses the set whose status is active.
DropSetMutant(o, s) ==
  /\ Give(o) /\ Exists(s)
  /\ condemned' = condemned \cup {s}
  /\ command' = [command EXCEPT ![o] = [NoCommand EXCEPT !.at = "clear", !.set = s]]
  /\ MoverBegins
  /\ UNCHANGED <<tables, ingest, faults, due, left, reopened, into, doomed>>
DropSet(o, s) ==
  /\ Give(o) /\ Exists(s) /\ sets[s].status # "active"
  /\ condemned' = condemned \cup {s}
  /\ command' = [command EXCEPT ![o] = [NoCommand EXCEPT !.at = "clear", !.set = s]]
  /\ MoverBegins
  /\ UNCHANGED <<tables, ingest, faults, due, left, reopened, into, doomed>>

ClearVectors(o) ==
  /\ command[o].at = "clear"
  /\ vectors' = {v \in vectors : v[1] # command[o].set}
  /\ CommandAt(o, "remove")
  /\ UNCHANGED <<sets, pointer, stamp, cursor, ingest, given, faults, history>>

\* The model of a set that is gone is kept here for the properties.
RemoveSet(o) ==
  /\ command[o].at = "remove"
  /\ sets' = [sets EXCEPT ![command[o].set].status = "absent"]
  /\ CommandEnds(o)
  /\ UNCHANGED <<pointer, stamp, vectors, cursor, ingest, given, faults, history>>

-----------------------------------------------------------------------------
\* A process is killed, or a call of it raises.
IngestDies(i) ==
  /\ ingest[i].at # "idle" /\ faults < MaxFaults
  /\ faults' = faults + 1
  /\ ingest' = [ingest EXCEPT ![i] = NoIngest]
  /\ UNCHANGED <<tables, command, given, history>>

CommandDies(o) ==
  /\ command[o].at # "idle" /\ faults < MaxFaults
  /\ faults' = faults + 1
  /\ CommandEnds(o)
  /\ UNCHANGED <<tables, ingest, given, history>>

IngestStep(i) ==
  \/ Bind(i) \/ Mint(i) \/ PointAtMinted(i) \/ InsertChunk(i) \/ UpsertVector(i)
  \/ RemoveChunk(i) \/ Unindex(i) \/ DeleteChunk(i)

Commanded(o) ==
  \/ \E s \in Sets : \/ \E m \in Models : CreateSet(o, s, m)
                     \/ Resume(o, s) \/ Activate(o, s) \/ DropSet(o, s)
  \/ Rollback(o)

CommandStep(o) ==
  \/ AddJob(o) \/ ReadBatch(o) \/ EmbedBatch(o) \/ Throttled(o) \/ StampBatch(o) \/ Advance(o)
  \/ MarkReady(o)
  \/ CheckServable(o) \/ LookAtPrevious(o) \/ PointAtTarget(o) \/ Promote(o) \/ RetirePrevious(o)
  \/ ClearVectors(o) \/ RemoveSet(o)

\* Nobody asks for more, or the ids of this instance are used up.
Rest ==
  /\ \A i \in Ingests : ingest[i].at = "idle" \/ (ingest[i].at = "mint" /\ \A s \in Sets : ~Unused(s))
  /\ \A o \in Operators : command[o].at = "idle"
  /\ UNCHANGED vars

Next ==
  \/ \E i \in Ingests : IngestStep(i) \/ IngestDies(i)
  \/ \E o \in Operators : Commanded(o) \/ CommandStep(o) \/ CommandDies(o)
  \/ Rest

Spec == Init /\ [][Next]_vars

-----------------------------------------------------------------------------
(* Safety.                                                                   *)

\* The stamp names a model, not a set: it tells the sets apart as long as no
\* two of them were ever made with the same model.
OnlyOfItsModel(s) == \A t \in Sets \ {s} : sets[t].model # sets[s].model

\* A set that can be served has a vector for every chunk there when its last
\* catch-up began, however often its run was throttled, killed and resumed,
\* and whatever was ingested before and behind its cursor; except what was
\* removed since, and what an ingest into the set itself has yet to write.
ReadyIsComplete ==
  \A s \in Sets \ condemned :
    sets[s].status \in {"ready", "active", "retired"} /\ OnlyOfItsModel(s) =>
      \A c \in due[s] \ doomed : <<s, c>> \in vectors \/ into[c] = s

Moving == \E o \in Operators : command[o].at \in Switching \cup Dropping

\* Between commands that all ran to their end, one at a time, exactly one set
\* is active and it is the one the workspace points at, unless the served set
\* itself was resumed.
ActiveIsServed ==
  faults = 0 /\ ~raced /\ ~Moving /\ pointer \notin {None} \cup reopened =>
    {s \in Sets : sets[s].status = "active"} \ reopened
      = {pointer} \cup {ingest[i].set : i \in {j \in Ingests : ingest[j].at = "point"}}

\* Then a rollback offers the set that was served before this one, if it is
\* still there and was not resumed.
Before == {s \in Sets \ (condemned \cup {pointer}) : left[s] > 0}
RollbackOffersPrevious ==
  faults = 0 /\ ~raced /\ ~Moving /\ reopened = {} /\ pointer # None =>
    RetiredLast \ condemned = {s \in Before : \A t \in Before : left[t] <= left[s]}

\* The set searches read is never dropped, unless that set was resumed.
ServedIsKept ==
  faults = 0 /\ ~raced => pointer \notin condemned \ reopened
=============================================================================
