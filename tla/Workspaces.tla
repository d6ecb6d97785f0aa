------------------------------ MODULE Workspaces ------------------------------
(***************************************************************************)
(* One workspace: its row (WorkspacesController) and the purge that erases *)
(* what it holds (WorkspacePurgeService): its sources, page by page and    *)
(* one at a time through IntakeService.remove, then every other row of the *)
(* scope in one transaction, then the row is closed and that announced.    *)
(* Meanwhile sources are submitted and replaced, a store at a time.        *)
(*                                                                         *)
(* The chunks one write emits are one element, as in SourceIntake, which   *)
(* has what is left out here: equal bytes, bytes that are refused, a put   *)
(* that fails, and writes that race each other.  What hangs off the scope  *)
(* and not off a source (knowledge, candidates, conversations, jobs,       *)
(* costs) is a set of records.  A definition whose name ends in Mutant is  *)
(* the one that follows it with a plausible bug.                           *)
(***************************************************************************)
EXTENDS Naturals, FiniteSets

CONSTANTS
  Records,     \* the other rows that may be written
  Admins,      \* the callers of purge
  Page,        \* _SOURCE_PAGE
  MaxSources,  \* bound: sources that are ever submitted
  MaxEvents    \* bound: what is asked of the workspace, and calls that die

\* A page is not empty.
WorkspaceSettings == Page \in Nat \ {0} /\ MaxSources \in Nat /\ MaxEvents \in Nat
ASSUME WorkspaceAssumption == WorkspaceSettings

VARIABLES
  status,     \* of the workspace's row: none, open (draft, active, handed_off) or closed
  sources,    \* the source rows; a larger number was created later
  originals,  \* the object store, by the source the key is made of
  chunks, vectors, \* canon_chunks and canon_chunk_vectors, by emission
  records,    \* the other rows of the scope
  write,      \* the submit or replace at work
  step,       \* where each caller of purge is
  page,       \* the rows it has read and not come to
  current,    \* the row it removes, 0 for none
  listed,     \* the chunks it has listed for their vectors
  events,     \* what was asked and who died, counted for the bound; it also names emissions
  arrived,    \* history: the sources that were ever submitted
  owed,       \* history: per caller, what there was and could be found when its purge began
  late,       \* history: the sources written to while a purge ran, since the last time none did
  shared,     \* history: the sources whose row two purges were about to delete at once
  miscounted, \* history: the sources whose removal was counted by a purge that deleted no row
  opened, told  \* history: how often the row was opened, and a purge announced its end

stored   == <<sources, originals, chunks, vectors, records>>
progress == <<step, page, current, listed>>
ends     == <<shared, miscounted, opened, told>>
workspaceVars == <<status, stored, write, progress, events, arrived, owed, late, ends>>

Documents == 1 .. MaxSources
Emissions == [source : Documents, by : 1 .. MaxEvents]
Of(d, emissions) == {e \in emissions : e.source = d}

Write == [op : {"none", "submit", "replace"}, at : {"none", "store", "insert", "merge", "update", "fill", "index"},
          source : Documents \cup {0}, by : 0 .. MaxEvents, found : BOOLEAN]
NoWrite == [op |-> "none", at |-> "none", source |-> 0, by |-> 0, found |-> FALSE]

Holding == [sources : SUBSET Documents, originals : SUBSET Documents, chunks : SUBSET Emissions,
            vectors : SUBSET Emissions, records : SUBSET Records]
Nothing == [sources |-> {}, originals |-> {}, chunks |-> {}, vectors |-> {}, records |-> {}]

WorkspaceTypeOK ==
  /\ status \in {"none", "open", "closed"}
  /\ sources \subseteq Documents /\ originals \subseteq Documents
  /\ chunks \subseteq Emissions /\ vectors \subseteq Emissions /\ records \subseteq Records
  /\ write \in Write
  /\ step \in [Admins -> {"idle", "list", "get", "chunks", "unindex", "unchunk", "erase", "find",
                          "delete", "sweep", "close", "announce"}]
  /\ page \in [Admins -> SUBSET Documents] /\ current \in [Admins -> Documents \cup {0}]
  /\ listed \in [Admins -> SUBSET Emissions]
  /\ events \in 0 .. MaxEvents
  /\ arrived \subseteq Documents /\ owed \in [Admins -> Holding]
  /\ late \subseteq Documents /\ shared \subseteq Documents /\ miscounted \subseteq Documents
  /\ opened \in Nat /\ told \in Nat

WorkspaceInit ==
  /\ status = "none"
  /\ sources = {} /\ originals = {} /\ chunks = {} /\ vectors = {} /\ records = {}
  /\ write = NoWrite
  /\ step = [a \in Admins |-> "idle"] /\ page = [a \in Admins |-> {}]
  /\ current = [a \in Admins |-> 0] /\ listed = [a \in Admins |-> {}]
  /\ events = 0
  /\ arrived = {} /\ owed = [a \in Admins |-> Nothing] /\ late = {}
  /\ shared = {} /\ miscounted = {} /\ opened = 0 /\ told = 0

PurgeAt(a, place) == step' = [step EXCEPT ![a] = place]
Purging == \E a \in Admins : step[a] # "idle"
Event == events < MaxEvents /\ events' = events + 1

-----------------------------------------------------------------------------
(* submit and replace, whatever the status of the workspace.                 *)

Begin(op, d) ==
  /\ write = NoWrite /\ Event
  /\ write' = [op |-> op, at |-> "store", source |-> d, by |-> events', found |-> FALSE]
  /\ late' = IF Purging THEN late \cup {d} ELSE late
  /\ UNCHANGED <<status, stored, progress, owed, ends>>

\* A new id, never one that was used before.
Submit ==
  \E d \in Documents \ arrived :
    /\ \A e \in Documents \ arrived : d <= e
    /\ Begin("submit", d) /\ arrived' = arrived \cup {d}

\* get finds the row.
Replace == \E d \in sources : Begin("replace", d) /\ UNCHANGED arrived

Go(place) == write' = [write EXCEPT !.at = place]
Emitted == [source |-> write.source, by |-> write.by]
RowThere == write.source \in sources

\* The original goes before the row: store_originals is on.
StoreOriginal ==
  /\ write.at = "store"
  /\ originals' = originals \cup {write.source}
  /\ Go(IF write.op = "submit" THEN "insert" ELSE "merge")
  /\ UNCHANGED <<status, sources, chunks, vectors, records, progress, events, arrived, owed, late, ends>>

InsertRow ==
  /\ write.at = "insert"
  /\ sources' = sources \cup {write.source}
  /\ Go("fill")
  /\ UNCHANGED <<status, originals, chunks, vectors, records, progress, events, arrived, owed, late, ends>>

\* session.merge: the SELECT ...
MergeRow ==
  /\ write.at = "merge"
  /\ write' = [write EXCEPT !.at = "update", !.found = RowThere]
  /\ UNCHANGED <<status, stored, progress, events, arrived, owed, late, ends>>

\* ... and the flush: an UPDATE of the row, or an INSERT when the SELECT found
\* none, under its old created_at.  An UPDATE that meets no row raises.
UpdateRow ==
  /\ write.at = "update"
  /\ IF write.found = RowThere
       THEN sources' = sources \cup {write.source} /\ Go("fill")
       ELSE write' = NoWrite /\ UNCHANGED sources
  /\ UNCHANGED <<status, originals, chunks, vectors, records, progress, events, arrived, owed, late, ends>>

\* ChunkRepository.replace_for_source; without their source, the INSERT raises.
ReplaceChunks ==
  /\ write.at = "fill"
  /\ IF RowThere
       THEN chunks' = (chunks \ Of(write.source, chunks)) \cup {Emitted} /\ Go("index")
       ELSE write' = NoWrite /\ UNCHANGED chunks
  /\ UNCHANGED <<status, sources, originals, vectors, records, progress, events, arrived, owed, late, ends>>

\* IndexService.replace_for_source: the vectors of earlier chunks stay.
IndexChunks ==
  /\ write.at = "index"
  /\ vectors' = vectors \cup {Emitted}
  /\ write' = NoWrite
  /\ UNCHANGED <<status, sources, originals, chunks, records, progress, events, arrived, owed, late, ends>>

WriteDies ==
  /\ write # NoWrite /\ Event
  /\ write' = NoWrite
  /\ UNCHANGED <<status, stored, progress, arrived, owed, late, ends>>

\* A new row is none that a purge still has to erase.
AddRecord ==
  /\ Event
  /\ \E r \in Records \ records : records' = records \cup {r} /\ \A a \in Admins : r \notin owed[a].records
  /\ UNCHANGED <<status, sources, originals, chunks, vectors, write, progress, arrived, owed, late, ends>>

-----------------------------------------------------------------------------
(* create, update, close: what they write.                                   *)

\* A second INSERT of the id raises.
Create ==
  /\ status = "none" /\ Event
  /\ status' = "open" /\ opened' = opened + 1
  /\ UNCHANGED <<stored, write, progress, arrived, owed, late, shared, miscounted, told>>

\* PATCH writes the status it is given, also over a closed one.
Update ==
  /\ status = "closed" /\ Event
  /\ status' = "open" /\ opened' = opened + 1
  /\ UNCHANGED <<stored, write, progress, arrived, owed, late, shared, miscounted, told>>

\* close stamps the row, closed or not, and so does PATCH.
CloseRow ==
  /\ status # "none" /\ Event
  /\ status' = "closed"
  /\ UNCHANGED <<stored, write, progress, arrived, owed, late, ends>>

-----------------------------------------------------------------------------
(* purge                                                                     *)

\* The call ends, with its answer or with an error.
End(a) ==
  /\ PurgeAt(a, "idle")
  /\ page' = [page EXCEPT ![a] = {}] /\ current' = [current EXCEPT ![a] = 0]
  /\ listed' = [listed EXCEPT ![a] = {}] /\ owed' = [owed EXCEPT ![a] = Nothing]

\* A purge finds originals through the rows, and vectors through the chunks.
Reach == [sources |-> sources, originals |-> originals \cap sources, chunks |-> chunks,
          vectors |-> vectors \cap chunks, records |-> records]

Purge(a) ==
  /\ step[a] = "idle" /\ Event
  /\ owed' = [owed EXCEPT ![a] = Reach]
  /\ late' = IF Purging THEN late ELSE IF write = NoWrite THEN {} ELSE {write.source}
  /\ PurgeAt(a, "list")
  /\ UNCHANGED <<status, stored, write, page, current, listed, arrived, ends>>

\* The newest rows, until there are none; always from offset 0.
List(a) ==
  /\ step[a] = "list"
  /\ page' = [page EXCEPT ![a] = {d \in sources : Cardinality({e \in sources : e > d}) < Page}]
  /\ PurgeAt(a, IF sources = {} THEN "sweep" ELSE "get")
  /\ UNCHANGED <<status, stored, write, current, listed, events, arrived, owed, late, ends>>

\* remove reads the row; when it is gone, that raises.
Get(a) ==
  /\ step[a] = "get"
  /\ \E d \in page[a] :
       /\ \A e \in page[a] : e <= d
       /\ IF d \in sources
            THEN /\ PurgeAt(a, "chunks")
                 /\ current' = [current EXCEPT ![a] = d] /\ page' = [page EXCEPT ![a] = @ \ {d}]
                 /\ UNCHANGED <<listed, owed>>
            ELSE End(a)
  /\ UNCHANGED <<status, stored, write, events, arrived, late, ends>>

\* IndexService.remove_for_source finds the vectors through the chunk rows.
ListChunks(a) ==
  /\ step[a] = "chunks"
  /\ listed' = [listed EXCEPT ![a] = Of(current[a], chunks)]
  /\ PurgeAt(a, "unindex")
  /\ UNCHANGED <<status, stored, write, page, current, events, arrived, owed, late, ends>>

Unindex(a) ==
  /\ step[a] = "unindex"
  /\ vectors' = vectors \ listed[a]
  /\ listed' = [listed EXCEPT ![a] = {}]
  /\ PurgeAt(a, "unchunk")
  /\ UNCHANGED <<status, sources, originals, chunks, records, write, page, current, events,
                 arrived, owed, late, ends>>

Unchunk(a) ==
  /\ step[a] = "unchunk"
  /\ chunks' = chunks \ Of(current[a], chunks)
  /\ PurgeAt(a, "erase")
  /\ UNCHANGED <<status, sources, originals, vectors, records, write, page, current, listed, events,
                 arrived, owed, late, ends>>

EraseOriginal(a) ==
  /\ step[a] = "erase"
  /\ originals' = originals \ {current[a]}
  /\ PurgeAt(a, "find")
  /\ UNCHANGED <<status, sources, chunks, vectors, records, write, page, current, listed, events,
                 arrived, owed, late, ends>>

\* delete of the repository: merge's SELECT.  What it does not find is a new
\* object to the session, and that cannot be deleted: it raises.
FindRowMutant(a) ==
  /\ step[a] = "find"
  /\ PurgeAt(a, "delete")
  /\ UNCHANGED <<status, stored, write, page, current, listed, events, arrived, owed, late, ends>>
FindRow(a) ==
  /\ step[a] = "find"
  /\ IF current[a] \in sources
       THEN PurgeAt(a, "delete") /\ UNCHANGED <<page, current, listed, owed>>
       ELSE End(a)
  /\ UNCHANGED <<status, stored, write, events, arrived, late, ends>>

\* The DELETE.  One that meets no row only warns, and the removal is counted.
DeleteRowMutant(a) ==
  LET d == current[a]
  IN  /\ step[a] = "delete"
      /\ sources' = sources \ {d} /\ chunks' = chunks \ Of(d, chunks)
      /\ shared' = IF \E b \in Admins \ {a} : step[b] = "delete" /\ current[b] = d THEN shared \cup {d} ELSE shared
      /\ miscounted' = IF d \in sources THEN miscounted ELSE miscounted \cup {d}
      /\ PurgeAt(a, IF page[a] = {} THEN "sweep" ELSE "get")
      /\ current' = [current EXCEPT ![a] = 0]
      /\ UNCHANGED <<status, originals, vectors, records, write, page, listed, events,
                     arrived, owed, late, opened, told>>
DeleteRow(a) ==
  LET d == current[a]
  IN  /\ step[a] = "delete"
      /\ sources' = sources \ {d} /\ chunks' = chunks \ Of(d, chunks)
      /\ shared' = IF \E b \in Admins \ {a} : step[b] = "delete" /\ current[b] = d THEN shared \cup {d} ELSE shared
      /\ miscounted' = IF d \in sources THEN miscounted ELSE miscounted \cup {d}
      /\ PurgeAt(a, IF page[a] = {} THEN "list" ELSE "get")
      /\ current' = [current EXCEPT ![a] = 0]
      /\ UNCHANGED <<status, originals, vectors, records, write, page, listed, events,
                     arrived, owed, late, opened, told>>

\* purge_scope: one transaction, and any chunk left behind goes with it.
Sweep(a) ==
  /\ step[a] = "sweep"
  /\ records' = {} /\ chunks' = {}
  /\ PurgeAt(a, "close")
  /\ UNCHANGED <<status, sources, originals, vectors, write, page, current, listed, events,
                 arrived, owed, late, ends>>

\* close_if_open: the call that closes the row is the one that announces it.
CloseIfOpen(a) ==
  /\ step[a] = "close"
  /\ status' = IF status = "open" THEN "closed" ELSE status
  /\ IF status = "open" THEN PurgeAt(a, "announce") /\ UNCHANGED <<page, current, listed, owed>> ELSE End(a)
  /\ UNCHANGED <<stored, write, events, arrived, late, ends>>

Announce(a) ==
  /\ step[a] = "announce"
  /\ told' = told + 1
  /\ End(a)
  /\ UNCHANGED <<status, stored, write, events, arrived, late, shared, miscounted, opened>>

\* A call dies where it stands: the process crashes, or a store raises.
PurgeDies(a) ==
  /\ step[a] # "idle" /\ Event
  /\ End(a)
  /\ UNCHANGED <<status, stored, write, arrived, late, ends>>

-----------------------------------------------------------------------------
WriteStep ==
  StoreOriginal \/ InsertRow \/ MergeRow \/ UpdateRow \/ ReplaceChunks \/ IndexChunks \/ WriteDies

PurgeStep(a) ==
  \/ List(a) \/ Get(a) \/ ListChunks(a) \/ Unindex(a) \/ Unchunk(a) \/ EraseOriginal(a)
  \/ FindRow(a) \/ DeleteRow(a) \/ Sweep(a) \/ CloseIfOpen(a) \/ Announce(a)

WorkspaceNext ==
  \/ Submit \/ Replace \/ WriteStep \/ AddRecord
  \/ Create \/ Update \/ CloseRow
  \/ \E a \in Admins : Purge(a) \/ PurgeStep(a) \/ PurgeDies(a)

WorkspaceSpec == WorkspaceInit /\ [][WorkspaceNext]_workspaceVars

-----------------------------------------------------------------------------
(* Safety.                                                                   *)

\* A purge that got to the end has erased what there was when it began, whatever
\* writes and purges ran or died before and meanwhile, but for
\* - the row, original and vectors of a source that was written to while it, or a
\*   purge it met, ran;
\* - what nothing leads to any more when it begins: the vectors of chunks that a
\*   replace or a sweep has dropped, and the original of a submit that died
\*   before its row.
PurgeErases ==
  \A a \in Admins : step[a] \in {"close", "announce"} =>
    /\ owed[a].chunks \cap chunks = {} /\ owed[a].records \cap records = {}
    /\ (owed[a].sources \cap sources) \cup (owed[a].originals \cap originals) \subseteq late
    /\ \A v \in owed[a].vectors \cap vectors : v.source \in late

\* What a purge reports is its own work: no removal is counted by a purge that
\* deleted no row, unless another purge was at the same DELETE; and no two purges
\* announce the same end of the workspace.
ReportsOwnWork == miscounted \subseteq shared /\ told <= opened
=============================================================================
