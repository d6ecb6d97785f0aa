---------------------------- MODULE ServicesProofs ----------------------------
(***************************************************************************)
(* Proofs about Workspaces, for any number of administrators, sources,     *)
(* writes and purges and any size of the page: the types, that a purge     *)
(* that got to the end has erased what it could find when it began and     *)
(* nothing wrote to meanwhile, and that what it reports is its own work    *)
(* but for rows that two purges delete at once.                            *)
(* About Chunking, for every text, budget and overlap: the types, and that *)
(* nothing is passed that is not cut.  And about the instance that checks  *)
(* the six services in one run: what is proved of each holds of it.        *)
(***************************************************************************)
EXTENDS MCServices, AgentRequestsProofs, QueryProofs

-----------------------------------------------------------------------------
(* Workspaces.  The invariant.                                               *)

Removing == {"chunks", "unindex", "unchunk", "erase", "find", "delete"}
Announcing == {a \in Admins : step[a] = "announce"}
IsOpen == IF status = "open" THEN 1 ELSE 0

\* A write has a source of its own and a name that nothing has before its chunks;
\* chunks have their row; and a write that a purge meets is late.
WriteInv ==
  /\ write.at = "none" => write = NoWrite
  /\ write.at # "none" => write.source \in Documents /\ write.by \in 1 .. events
  /\ write.at # "none" /\ Purging => write.source \in late
  /\ write.at \notin {"none", "index"} => Emitted \notin chunks /\ \A a \in Admins : Emitted \notin owed[a].chunks
  /\ \A e \in chunks : e.source \in sources /\ e.by <= events

\* What a purge owes and nothing leads to any more is late.
Owing(a) ==
  /\ step[a] = "idle" => owed[a] = Nothing
  /\ \A e \in owed[a].chunks : e.by <= events
  /\ \A v \in owed[a].vectors \cap vectors : v \in chunks \/ v.source \in late
  /\ \A d \in owed[a].originals \cap originals : d \in sources \/ d \in late

\* How far a purge has got with the row it removes ...
RowErased(a) ==
  /\ step[a] \in Removing => current[a] \in Documents
  /\ step[a] = "unindex" => \A e \in Of(current[a], chunks) : e \in listed[a] \/ e.source \in late
  /\ step[a] \in {"unchunk", "erase", "find", "delete"} =>
       \A v \in vectors \cap chunks : v.source = current[a] => v.source \in late
  /\ step[a] \in {"find", "delete"} /\ current[a] \in originals => current[a] \in late
  /\ step[a] = "delete" => current[a] \in sources \cup shared

\* ... and with the scope.
ScopeErased(a) ==
  /\ step[a] \in {"sweep", "close", "announce"} => sources \subseteq late
  /\ step[a] \in {"close", "announce"} => owed[a].chunks \cap chunks = {} /\ owed[a].records \cap records = {}

Erased(a) == Owing(a) /\ RowErased(a) /\ ScopeErased(a)

\* Every end of the workspace that is or will be announced was an opening before.
ToldOnce ==
  /\ IsFiniteSet(Announcing) /\ told + Cardinality(Announcing) + IsOpen <= opened
  /\ status = "none" => opened = 0

PurgeInv ==
  /\ WorkspaceTypeOK /\ WriteInv /\ ToldOnce /\ miscounted \subseteq shared
  /\ \A a \in Admins : Erased(a)

-----------------------------------------------------------------------------
(* What a step leaves to a purge it is not a step of.                        *)

Untouched(a) == step'[a] = step[a] /\ current'[a] = current[a] /\ listed'[a] = listed[a] /\ owed'[a] = owed[a]

\* What is new is late; what is dropped takes along what it led to, unless that
\* is late; and who deletes the row that a is to delete shares it.
Allows(a) ==
  /\ late \subseteq late' /\ shared \subseteq shared' /\ events' \in Nat /\ events <= events'
  /\ sources' \ sources \subseteq late' /\ originals' \ originals \subseteq late'
  /\ \A v \in vectors' \ vectors : v.source \in late'
  /\ \A e \in chunks' \ chunks : e.source \in late' /\ e \notin owed[a].chunks
  /\ owed[a].records \cap records' \subseteq records
  /\ \A e \in chunks \ chunks' : e \in vectors' => e.source \in late'
  /\ \A d \in sources \ sources' : /\ d \in originals' => d \in late'
                                   /\ step[a] = "delete" /\ current[a] = d => d \in shared'

LEMMA StaysErased ==
  ASSUME NEW a \in Admins, WorkspaceTypeOK, Erased(a), Untouched(a), Allows(a)
  PROVE  Erased(a)'
<1>1. Owing(a)'
  <2>1. \A e \in owed[a].chunks : e.by \in Nat
    BY WorkspaceAssumption DEF WorkspaceTypeOK, Holding, Emissions
  <2>2. events \in Nat
    BY DEF WorkspaceTypeOK
  <2> QED BY <2>1, <2>2 DEF Erased, Owing, Untouched, Allows
<1>2. RowErased(a)'
  BY DEF Erased, RowErased, Untouched, Allows, Of
<1>3. ScopeErased(a)'
  BY DEF Erased, ScopeErased, Untouched, Allows
<1> QED BY <1>1, <1>2, <1>3 DEF Erased

\* Nothing is owed by a call that does not run.
LEMMA IdleIsErased ==
  ASSUME NEW a \in Admins, step'[a] = "idle", owed'[a] = Nothing
  PROVE  Erased(a)'
BY DEF Erased, Owing, RowErased, ScopeErased, Nothing, Removing

\* The announcements that are due, from step to step.
LEMMA AnnouncingChanges ==
  ASSUME WorkspaceTypeOK, IsFiniteSet(Announcing), NEW a \in Admins, NEW place, step' = [step EXCEPT ![a] = place]
  PROVE  /\ IsFiniteSet(Announcing') /\ Cardinality(Announcing) \in Nat
         /\ Cardinality(Announcing') = Cardinality(Announcing) + (IF place = "announce" THEN 1 ELSE 0)
                                                               - (IF step[a] = "announce" THEN 1 ELSE 0)
<1>1. Announcing' = IF place = "announce" THEN Announcing \cup {a} ELSE Announcing \ {a}
  BY DEF Announcing, WorkspaceTypeOK
<1>2. a \in Announcing <=> step[a] = "announce"
  BY DEF Announcing
<1>3. Cardinality(Announcing) \in Nat
  BY FS_CardinalityType
<1>4. CASE place = "announce"
  <2>1. IsFiniteSet(Announcing')
        /\ Cardinality(Announcing') = IF a \in Announcing THEN Cardinality(Announcing) ELSE Cardinality(Announcing) + 1
    BY <1>1, <1>4, FS_AddElement
  <2> QED BY <1>2, <1>3, <1>4, <2>1
<1>5. CASE place # "announce"
  <2>1. IsFiniteSet(Announcing')
        /\ Cardinality(Announcing') = IF a \in Announcing THEN Cardinality(Announcing) - 1 ELSE Cardinality(Announcing)
    BY <1>1, <1>5, FS_RemoveElement
  <2> QED BY <1>2, <1>3, <1>5, <2>1
<1> QED BY <1>4, <1>5

\* A call that goes on, or ends, without a word.
LEMMA SilentStep ==
  ASSUME WorkspaceTypeOK, ToldOnce, NEW a \in Admins, NEW place, step' = [step EXCEPT ![a] = place],
         place # "announce", UNCHANGED <<told, opened, status>>
  PROVE  ToldOnce'
<1>1. told \in Nat /\ opened \in Nat /\ IsOpen \in {0, 1} /\ IsOpen' = IsOpen
  BY DEF WorkspaceTypeOK, IsOpen
<1>2. IsFiniteSet(Announcing) /\ told + Cardinality(Announcing) + IsOpen <= opened
  BY DEF ToldOnce
<1>3. IsFiniteSet(Announcing') /\ Cardinality(Announcing) \in Nat
      /\ Cardinality(Announcing') = Cardinality(Announcing) + (IF place = "announce" THEN 1 ELSE 0)
                                                            - (IF step[a] = "announce" THEN 1 ELSE 0)
  BY <1>2, AnnouncingChanges
<1> QED BY <1>1, <1>2, <1>3 DEF ToldOnce

-----------------------------------------------------------------------------
(* Types.                                                                    *)

LEMMA Stays ==
  ASSUME WorkspaceTypeOK, NEW a \in Admins, End(a)
  PROVE  /\ step' = [step EXCEPT ![a] = "idle"] /\ page' \in [Admins -> SUBSET Documents]
         /\ current' \in [Admins -> Documents \cup {0}] /\ listed' \in [Admins -> SUBSET Emissions]
         /\ owed' \in [Admins -> Holding] /\ owed'[a] = Nothing
         /\ \A b \in Admins \ {a} : Untouched(b)
<1>1. Nothing \in Holding
  BY DEF Nothing, Holding
<1> QED BY <1>1 DEF WorkspaceTypeOK, End, PurgeAt, Untouched

LEMMA EventTyped ==
  ASSUME WorkspaceTypeOK, Event
  PROVE  events \in Nat /\ events' \in 1 .. MaxEvents /\ events' = events + 1
BY WorkspaceAssumption DEF Event, WorkspaceTypeOK, WorkspaceSettings

LEMMA WriteStepTyped ==
  ASSUME PurgeInv, Submit \/ Replace \/ WriteStep
  PROVE  WorkspaceTypeOK'
<1> USE DEF PurgeInv, WorkspaceTypeOK
<1>1. CASE Submit \/ Replace
  <2>1. events \in Nat /\ events' \in 1 .. MaxEvents /\ events' = events + 1
    BY <1>1, EventTyped DEF Submit, Replace, Begin
  <2>2. PICK d \in Documents, op \in {"submit", "replace"} : Begin(op, d) /\ arrived' \subseteq arrived \cup {d}
    BY <1>1 DEF Submit, Replace
  <2>3. write' \in Write /\ late' \subseteq Documents
    BY <2>1, <2>2 DEF Begin, Write
  <2>4. events' \in 0 .. MaxEvents
    BY <2>1
  <2> QED BY <2>2, <2>3, <2>4 DEF Begin, stored, progress, ends
<1>2. CASE WriteStep
  <2>1. NoWrite \in Write
    BY WorkspaceAssumption DEF NoWrite, Write, WorkspaceSettings
  <2>2. write.at # "none" => write.source \in Documents /\ Emitted \in Emissions
    <3>1. 1 .. events \subseteq 1 .. MaxEvents
      BY WorkspaceAssumption DEF WorkspaceSettings
    <3> QED BY <3>1 DEF WriteInv, Emitted, Emissions
  <2>3. CASE StoreOriginal
    BY <2>2, <2>3 DEF StoreOriginal, Go, Write, progress, ends
  <2>4. CASE InsertRow
    BY <2>2, <2>4 DEF InsertRow, Go, Write, progress, ends
  <2>5. CASE MergeRow
    <3>1. RowThere \in BOOLEAN
      BY DEF RowThere
    <3> QED BY <2>2, <2>5, <3>1 DEF MergeRow, Write, stored, progress, ends
  <2>6. CASE UpdateRow
    BY <2>1, <2>2, <2>6 DEF UpdateRow, Go, Write, progress, ends
  <2>7. CASE ReplaceChunks
    BY <2>1, <2>2, <2>7 DEF ReplaceChunks, Go, Write, Of, progress, ends
  <2>8. CASE IndexChunks
    BY <2>1, <2>2, <2>8 DEF IndexChunks, progress, ends
  <2>9. CASE WriteDies
    <3>1. events' \in 0 .. MaxEvents
      BY <2>9, EventTyped DEF WriteDies
    <3> QED BY <2>1, <2>9, <3>1 DEF WriteDies, stored, progress, ends
  <2> QED BY <1>2, <2>3, <2>4, <2>5, <2>6, <2>7, <2>8, <2>9 DEF WriteStep
<1> QED BY <1>1, <1>2

-----------------------------------------------------------------------------
(* The workspace is written to.                                              *)

\* A step that no purge takes and that says nothing.
LEMMA Unnoticed ==
  ASSUME PurgeInv, WorkspaceTypeOK', WriteInv', UNCHANGED <<progress, owed, status, ends>>,
         \A a \in Admins : step[a] # "idle" => Allows(a)
  PROVE  PurgeInv'
<1>1. ToldOnce' /\ miscounted' \subseteq shared'
  <2>1. UNCHANGED <<Announcing, IsOpen, told, opened, status, miscounted, shared>>
    BY DEF progress, ends, Announcing, IsOpen
  <2> QED BY <2>1 DEF PurgeInv, ToldOnce
<1>2. ASSUME NEW a \in Admins PROVE Erased(a)'
  <2>1. Untouched(a)
    BY DEF progress, Untouched
  <2>2. CASE step[a] = "idle"
    BY <2>1, <2>2, IdleIsErased DEF PurgeInv, Erased, Owing, Untouched
  <2>3. CASE step[a] # "idle"
    BY <1>2, <2>1, <2>3, StaysErased DEF PurgeInv
  <2> QED BY <2>2, <2>3
<1> QED BY <1>1, <1>2 DEF PurgeInv

\* A write that begins is late when a purge runs, and its name is new.
LEMMA BeginKeeps ==
  ASSUME PurgeInv, Submit \/ Replace
  PROVE  PurgeInv'
<1>1. events \in Nat /\ events' \in 1 .. MaxEvents /\ events' = events + 1
  BY EventTyped DEF Submit, Replace, Begin, PurgeInv
<1>2. PICK d \in Documents, op \in {"submit", "replace"} : Begin(op, d)
  BY DEF Submit, Replace, PurgeInv, WorkspaceTypeOK
<1>3. /\ write' = [op |-> op, at |-> "store", source |-> d, by |-> events', found |-> FALSE]
      /\ UNCHANGED <<status, stored, progress, owed, ends>> /\ late' = IF Purging THEN late \cup {d} ELSE late
  BY <1>2 DEF Begin
<1>4. WorkspaceTypeOK'
  BY WriteStepTyped
<1>5. ASSUME NEW a \in Admins PROVE step[a] # "idle" => Allows(a)
  BY <1>1, <1>3 DEF Allows, stored, ends
<1>6. WriteInv'
  <2>1. write'.at = "store" /\ write'.source \in Documents /\ write'.by \in 1 .. events'
    BY <1>1, <1>3
  <2>2. Purging' => write'.source \in late'
    BY <1>3 DEF Purging, progress
  <2>3. \A e \in chunks : e.by \in Nat /\ e.by <= events
    BY WorkspaceAssumption DEF PurgeInv, WriteInv, WorkspaceTypeOK, Emissions, WorkspaceSettings
  <2>4. \A a \in Admins : \A e \in owed[a].chunks : e.by \in Nat /\ e.by <= events
    BY WorkspaceAssumption DEF PurgeInv, Erased, Owing, WorkspaceTypeOK, Holding, Emissions, WorkspaceSettings
  <2>5. Emitted'.by = events + 1
    BY <1>1, <1>3 DEF Emitted
  <2>6. Emitted' \notin chunks' /\ \A a \in Admins : Emitted' \notin owed'[a].chunks
    BY <1>1, <1>3, <2>3, <2>4, <2>5 DEF stored
  <2>7. \A e \in chunks' : e.source \in sources' /\ e.by <= events'
    BY <1>1, <1>3, <2>3 DEF stored, PurgeInv, WriteInv
  <2> QED BY <2>1, <2>2, <2>6, <2>7 DEF WriteInv
<1> QED BY <1>3, <1>4, <1>5, <1>6, Unnoticed

LEMMA WriteKeeps ==
  ASSUME PurgeInv, WriteStep
  PROVE  PurgeInv'
<1>1. WorkspaceTypeOK' /\ events \in Nat
  BY WriteStepTyped DEF PurgeInv, WorkspaceTypeOK
<1>2. UNCHANGED <<progress, owed, status, ends, late, Purging>>
  BY DEF WriteStep, StoreOriginal, InsertRow, MergeRow, UpdateRow, ReplaceChunks, IndexChunks, WriteDies, progress, Purging
<1>3. NoWrite.at = "none"
  BY DEF NoWrite
<1>4. write.at # "none" /\ write.source \in Documents /\ (Purging => write.source \in late)
  BY <1>3 DEF WriteStep, StoreOriginal, InsertRow, MergeRow, UpdateRow, ReplaceChunks, IndexChunks, WriteDies,
              PurgeInv, WriteInv, WorkspaceTypeOK, Write, NoWrite
<1>5. ASSUME NEW a \in Admins, step[a] # "idle" PROVE write.source \in late
  BY <1>4, <1>5 DEF Purging
<1> USE DEF PurgeInv, WriteInv, stored
<1>6. CASE StoreOriginal
  <2>1. write' = [write EXCEPT !.at = IF write.op = "submit" THEN "insert" ELSE "merge"]
        /\ originals' = originals \cup {write.source} /\ UNCHANGED <<sources, chunks, vectors, records, events, shared>>
    BY <1>6 DEF StoreOriginal, Go, ends
  <2>2. WriteInv'
    BY <1>1, <1>2, <1>4, <1>6, <2>1 DEF Emitted, StoreOriginal, WorkspaceTypeOK, Write
  <2>3. ASSUME NEW a \in Admins, step[a] # "idle" PROVE Allows(a)
    BY <1>1, <1>2, <1>5, <2>1, <2>3 DEF Allows
  <2> QED BY <1>1, <1>2, <2>2, <2>3, Unnoticed
<1>7. CASE InsertRow
  <2>1. write' = [write EXCEPT !.at = "fill"]
        /\ sources' = sources \cup {write.source} /\ UNCHANGED <<originals, chunks, vectors, records, events, shared>>
    BY <1>7 DEF InsertRow, Go, ends
  <2>2. WriteInv'
    BY <1>1, <1>2, <1>4, <1>7, <2>1 DEF Emitted, InsertRow, WorkspaceTypeOK, Write
  <2>3. ASSUME NEW a \in Admins, step[a] # "idle" PROVE Allows(a)
    BY <1>1, <1>2, <1>5, <2>1, <2>3 DEF Allows
  <2> QED BY <1>1, <1>2, <2>2, <2>3, Unnoticed
<1>8. CASE MergeRow
  <2>1. write' = [write EXCEPT !.at = "update", !.found = RowThere]
        /\ UNCHANGED <<sources, originals, chunks, vectors, records, events, shared>>
    BY <1>8 DEF MergeRow, ends
  <2>2. WriteInv'
    BY <1>1, <1>2, <1>4, <1>8, <2>1 DEF Emitted, MergeRow, WorkspaceTypeOK, Write
  <2>3. ASSUME NEW a \in Admins, step[a] # "idle" PROVE Allows(a)
    BY <1>1, <1>2, <1>5, <2>1, <2>3 DEF Allows
  <2> QED BY <1>1, <1>2, <2>2, <2>3, Unnoticed
<1>9. CASE UpdateRow
  <2>1. write' \in {NoWrite, [write EXCEPT !.at = "fill"]} /\ sources \subseteq sources'
        /\ sources' \subseteq sources \cup {write.source} /\ UNCHANGED <<originals, chunks, vectors, records, events, shared>>
    BY <1>9 DEF UpdateRow, Go, ends
  <2>2. WriteInv'
    BY <1>1, <1>2, <1>3, <1>4, <1>9, <2>1 DEF Emitted, UpdateRow, WorkspaceTypeOK, Write
  <2>3. ASSUME NEW a \in Admins, step[a] # "idle" PROVE Allows(a)
    BY <1>1, <1>2, <1>5, <2>1, <2>3 DEF Allows
  <2> QED BY <1>1, <1>2, <2>2, <2>3, Unnoticed
<1>10. CASE ReplaceChunks
  <2>1. CASE RowThere
    <3>1. /\ write' = [write EXCEPT !.at = "index"]
          /\ chunks' = (chunks \ Of(write.source, chunks)) \cup {Emitted}
          /\ UNCHANGED <<sources, originals, vectors, records, events, shared>>
      BY <1>10, <2>1 DEF ReplaceChunks, Go, ends
    <3>2. Emitted.source = write.source /\ Emitted.by = write.by /\ write.by <= events
          /\ \A a \in Admins : Emitted \notin owed[a].chunks
      BY <1>1, <1>10 DEF Emitted, ReplaceChunks
    <3>3. WriteInv'
      BY <1>1, <1>2, <1>4, <2>1, <3>1, <3>2 DEF Of, RowThere, WorkspaceTypeOK, Write
    <3>4. ASSUME NEW a \in Admins, step[a] # "idle" PROVE Allows(a)
      BY <1>1, <1>2, <1>5, <3>1, <3>2, <3>4 DEF Allows, Of
    <3> QED BY <1>1, <1>2, <3>3, <3>4, Unnoticed
  <2>2. CASE ~RowThere
    <3>1. write' = NoWrite /\ UNCHANGED <<sources, originals, chunks, vectors, records, events, shared>>
      BY <1>10, <2>2 DEF ReplaceChunks, ends
    <3>2. WriteInv' /\ \A a \in Admins : step[a] # "idle" => Allows(a)
      BY <1>1, <1>2, <1>3, <3>1 DEF Allows
    <3> QED BY <1>1, <1>2, <3>2, Unnoticed
  <2> QED BY <2>1, <2>2
<1>11. CASE IndexChunks
  <2>1. write' = NoWrite /\ vectors' = vectors \cup {Emitted} /\ Emitted.source = write.source
        /\ UNCHANGED <<sources, originals, chunks, records, events, shared>>
    BY <1>11 DEF IndexChunks, Emitted, ends
  <2>2. WriteInv'
    BY <1>1, <1>2, <1>3, <2>1
  <2>3. ASSUME NEW a \in Admins, step[a] # "idle" PROVE Allows(a)
    BY <1>1, <1>2, <1>5, <2>1, <2>3 DEF Allows
  <2> QED BY <1>1, <1>2, <2>2, <2>3, Unnoticed
<1>12. CASE WriteDies
  <2>1. write' = NoWrite /\ events' = events + 1 /\ UNCHANGED <<sources, originals, chunks, vectors, records, shared>>
    BY <1>12 DEF WriteDies, Event, ends
  <2>2. \A e \in chunks : e.by <= events'
    BY <1>1, <2>1, WorkspaceAssumption DEF WorkspaceTypeOK, Emissions, WorkspaceSettings
  <2>3. WriteInv' /\ \A a \in Admins : step[a] # "idle" => Allows(a)
    BY <1>1, <1>2, <1>3, <2>1, <2>2 DEF Allows
  <2> QED BY <1>1, <1>2, <2>3, Unnoticed
<1> QED BY <1>6, <1>7, <1>8, <1>9, <1>10, <1>11, <1>12 DEF WriteStep

LEMMA AddRecordKeeps ==
  ASSUME PurgeInv, AddRecord
  PROVE  PurgeInv'
<1>1. events \in Nat /\ events' \in 1 .. MaxEvents /\ events' = events + 1
  BY EventTyped DEF AddRecord, PurgeInv
<1>2. PICK r \in Records : records' = records \cup {r} /\ \A a \in Admins : r \notin owed[a].records
  BY DEF AddRecord
<1>3. UNCHANGED <<status, sources, originals, chunks, vectors, write, progress, arrived, owed, late, ends>>
  BY DEF AddRecord
<1>4. WorkspaceTypeOK'
  BY <1>1, <1>2, <1>3 DEF PurgeInv, WorkspaceTypeOK, progress, ends
<1>5. WriteInv'
  <2>1. \A e \in chunks : e.by <= events'
    BY <1>1, WorkspaceAssumption DEF PurgeInv, WriteInv, WorkspaceTypeOK, Emissions, WorkspaceSettings
  <2>2. write.at # "none" => write.by \in 1 .. events'
    BY <1>1 DEF PurgeInv, WriteInv
  <2> QED BY <1>3, <2>1, <2>2 DEF PurgeInv, WriteInv, Emitted, Purging, progress
<1>6. ASSUME NEW a \in Admins PROVE Allows(a)
  BY <1>1, <1>2, <1>3 DEF Allows, ends
<1> QED BY <1>3, <1>4, <1>5, <1>6, Unnoticed

\* The row opens and closes; one more opening is one more end that may be told.
LEMMA RowKeeps ==
  ASSUME PurgeInv, Create \/ Update \/ CloseRow
  PROVE  PurgeInv'
<1>1. events \in Nat /\ events' \in 1 .. MaxEvents /\ events' = events + 1
  BY EventTyped DEF Create, Update, CloseRow, PurgeInv
<1>2. UNCHANGED <<stored, write, progress, arrived, owed, late, shared, miscounted, told>>
  BY DEF Create, Update, CloseRow, ends
<1>3. /\ told \in Nat /\ opened \in Nat /\ Cardinality(Announcing) \in Nat /\ UNCHANGED Announcing
      /\ IsFiniteSet(Announcing) /\ told + Cardinality(Announcing) + IsOpen <= opened
  BY <1>2, FS_CardinalityType DEF PurgeInv, WorkspaceTypeOK, ToldOnce, Announcing, progress
<1>4. status' \in {"open", "closed"} /\ opened' \in Nat /\ told + Cardinality(Announcing) + IsOpen' <= opened'
  <2>1. CASE Create \/ Update
    <3>1. status # "open" /\ status' = "open" /\ opened' = opened + 1
      BY <2>1 DEF Create, Update
    <3> QED BY <1>3, <3>1 DEF IsOpen
  <2>2. CASE CloseRow
    <3>1. status' = "closed" /\ opened' = opened
      BY <2>2 DEF CloseRow, ends
    <3> QED BY <1>3, <3>1 DEF IsOpen
  <2> QED BY <2>1, <2>2
<1>5. WorkspaceTypeOK'
  BY <1>1, <1>2, <1>4 DEF PurgeInv, WorkspaceTypeOK, stored, progress
<1>6. WriteInv'
  <2>1. \A e \in chunks : e.by <= events'
    BY <1>1, WorkspaceAssumption DEF PurgeInv, WriteInv, WorkspaceTypeOK, Emissions, WorkspaceSettings
  <2>2. write.at # "none" => write.by \in 1 .. events'
    BY <1>1 DEF PurgeInv, WriteInv
  <2> QED BY <1>2, <2>1, <2>2 DEF PurgeInv, WriteInv, Emitted, Purging, progress, stored
<1>7. ToldOnce' /\ miscounted' \subseteq shared'
  BY <1>2, <1>3, <1>4 DEF ToldOnce, PurgeInv
<1>8. ASSUME NEW a \in Admins PROVE Erased(a)'
  <2>1. Untouched(a) /\ Allows(a)
    BY <1>1, <1>2 DEF Untouched, Allows, progress, stored
  <2> QED BY <1>8, <2>1, StaysErased DEF PurgeInv
<1> QED BY <1>5, <1>6, <1>7, <1>8 DEF PurgeInv

-----------------------------------------------------------------------------
(* purge.                                                                    *)

\* A call that is at work takes nothing it owes away from the others.
LEMMA CallKeeps ==
  ASSUME PurgeInv, NEW a \in Admins, step[a] # "idle", WorkspaceTypeOK', UNCHANGED <<write, late>>,
         events' \in Nat, events <= events', chunks' \subseteq chunks, \A e \in chunks' : e.source \in sources',
         owed'[a] \in {owed[a], Nothing}, \A b \in Admins \ {a} : Untouched(b) /\ Allows(b),
         Erased(a)', ToldOnce', miscounted' \subseteq shared'
  PROVE  PurgeInv'
<1>1. WriteInv'
  <2>1. \A e \in chunks : e.by \in Nat /\ e.by <= events
    BY WorkspaceAssumption DEF PurgeInv, WriteInv, WorkspaceTypeOK, Emissions, WorkspaceSettings
  <2>2. \A e \in chunks' : e.source \in sources' /\ e.by <= events'
    BY <2>1 DEF PurgeInv, WorkspaceTypeOK
  <2>3. write.at # "none" => write.by \in 1 .. events'
    BY DEF PurgeInv, WriteInv, WorkspaceTypeOK
  <2>4. \A b \in Admins : Emitted \notin owed[b].chunks => Emitted \notin owed'[b].chunks
    BY DEF Untouched, Nothing
  <2>5. UNCHANGED Emitted /\ Purging
    BY DEF Emitted, Purging
  <2> QED BY <2>2, <2>3, <2>4, <2>5 DEF PurgeInv, WriteInv
<1>2. ASSUME NEW b \in Admins PROVE Erased(b)'
  BY <1>2, StaysErased DEF PurgeInv
<1> QED BY <1>1, <1>2 DEF PurgeInv

\* ... nor does one that ends.
LEMMA EndKeeps ==
  ASSUME PurgeInv, NEW a \in Admins, step[a] # "idle", End(a), UNCHANGED <<status, stored, write, arrived, late, ends>>,
         events' \in 0 .. MaxEvents, events <= events'
  PROVE  PurgeInv'
<1>1. /\ step' = [step EXCEPT ![a] = "idle"] /\ page' \in [Admins -> SUBSET Documents]
      /\ current' \in [Admins -> Documents \cup {0}] /\ listed' \in [Admins -> SUBSET Emissions]
      /\ owed' \in [Admins -> Holding] /\ owed'[a] = Nothing /\ \A b \in Admins \ {a} : Untouched(b)
  BY Stays DEF PurgeInv
<1>2. WorkspaceTypeOK'
  BY <1>1 DEF PurgeInv, WorkspaceTypeOK, stored, ends
<1>3. ToldOnce' /\ miscounted' \subseteq shared'
  BY <1>1, SilentStep DEF PurgeInv, ends
<1>4. Erased(a)'
  <2>1. step'[a] = "idle"
    BY <1>1 DEF PurgeInv, WorkspaceTypeOK
  <2> QED BY <1>1, <2>1, IdleIsErased
<1>5. \A b \in Admins : Allows(b)
  BY DEF Allows, stored, ends
<1>6. chunks' \subseteq chunks /\ \A e \in chunks' : e.source \in sources'
  BY DEF PurgeInv, WriteInv, stored
<1> QED BY <1>1, <1>2, <1>3, <1>4, <1>5, <1>6, CallKeeps

\* What can be found is owed, and what is being written may be left.
LEMMA PurgeKeeps ==
  ASSUME PurgeInv, NEW a \in Admins, Purge(a)
  PROVE  PurgeInv'
<1>1. events \in Nat /\ events' \in 1 .. MaxEvents /\ events' = events + 1
  BY EventTyped DEF Purge, PurgeInv
<1>2. /\ step[a] = "idle" /\ step' = [step EXCEPT ![a] = "list"] /\ owed' = [owed EXCEPT ![a] = Reach]
      /\ late' = IF Purging THEN late ELSE IF write = NoWrite THEN {} ELSE {write.source}
      /\ UNCHANGED <<status, stored, write, page, current, listed, arrived, ends>>
  BY DEF Purge, PurgeAt
<1>3. WorkspaceTypeOK'
  <2>1. Reach \in Holding
    BY DEF PurgeInv, WorkspaceTypeOK, Reach, Holding
  <2>2. late' \subseteq Documents
    BY <1>2 DEF PurgeInv, WriteInv, WorkspaceTypeOK
  <2>3. events' \in 0 .. MaxEvents
    BY <1>1
  <2> QED BY <1>2, <2>1, <2>2, <2>3 DEF PurgeInv, WorkspaceTypeOK, stored, ends
<1>4. step'[a] = "list" /\ owed'[a] = Reach /\ \A b \in Admins \ {a} : Untouched(b)
  BY <1>2 DEF PurgeInv, WorkspaceTypeOK, Untouched
<1>5. \A e \in chunks : e.by \in Nat /\ e.by <= events
  BY WorkspaceAssumption DEF PurgeInv, WriteInv, WorkspaceTypeOK, Emissions, WorkspaceSettings
<1>6. WriteInv'
  <2>1. write.at # "none" => write # NoWrite
    BY DEF NoWrite
  <2>2. write.at # "none" => write.by \in 1 .. events' /\ write.source \in late'
    BY <1>1, <1>2, <2>1 DEF PurgeInv, WriteInv
  <2>3. \A b \in Admins : Emitted \notin chunks /\ Emitted \notin owed[b].chunks => Emitted \notin owed'[b].chunks
    BY <1>4 DEF Untouched, Reach
  <2>4. \A e \in chunks' : e.source \in sources' /\ e.by <= events'
    BY <1>1, <1>2, <1>5 DEF PurgeInv, WriteInv, stored
  <2>5. UNCHANGED <<Emitted, chunks, write>>
    BY <1>2 DEF Emitted, stored
  <2> QED BY <2>2, <2>3, <2>4, <2>5 DEF PurgeInv, WriteInv
<1>7. ToldOnce' /\ miscounted' \subseteq shared'
  BY <1>2, SilentStep DEF PurgeInv, ends
<1>8. ASSUME NEW b \in Admins PROVE Erased(b)'
  <2>1. CASE b = a
    BY <1>1, <1>2, <1>4, <1>5, <2>1 DEF Erased, Owing, RowErased, ScopeErased, Removing, Reach, stored
  <2>2. CASE b # a /\ step[b] = "idle"
    BY <1>4, <1>8, <2>2, IdleIsErased DEF PurgeInv, Erased, Owing, Untouched
  <2>3. CASE b # a /\ step[b] # "idle"
    <3>1. Purging
      BY <2>3 DEF Purging
    <3>2. Allows(b)
      BY <1>1, <1>2, <3>1 DEF Allows, stored, ends
    <3> QED BY <1>4, <1>8, <2>3, <3>2, StaysErased DEF PurgeInv
  <2> QED BY <2>1, <2>2, <2>3
<1> QED BY <1>3, <1>6, <1>7, <1>8 DEF PurgeInv

LEMMA ListKeeps ==
  ASSUME PurgeInv, NEW a \in Admins, List(a)
  PROVE  PurgeInv'
<1> DEFINE place == IF sources = {} THEN "sweep" ELSE "get"
<1>1. /\ step[a] = "list" /\ step' = [step EXCEPT ![a] = place]
      /\ page' = [page EXCEPT ![a] = {d \in sources : Cardinality({e \in sources : e > d}) < Page}]
      /\ UNCHANGED <<status, stored, write, current, listed, events, arrived, owed, late, ends>>
  BY DEF List, PurgeAt
<1>2. WorkspaceTypeOK'
  BY <1>1 DEF PurgeInv, WorkspaceTypeOK, stored, ends
<1>3. ToldOnce' /\ miscounted' \subseteq shared'
  BY <1>1, SilentStep DEF PurgeInv, ends
<1>4. step'[a] = place /\ owed'[a] = owed[a] /\ \A b \in Admins \ {a} : Untouched(b)
  BY <1>1 DEF PurgeInv, WorkspaceTypeOK, Untouched
<1>5. Erased(a)'
  BY <1>1, <1>4 DEF PurgeInv, Erased, Owing, RowErased, ScopeErased, Removing, stored
<1>6. events \in Nat /\ \A b \in Admins : Allows(b)
  BY <1>1 DEF Allows, stored, ends, PurgeInv, WorkspaceTypeOK
<1>7. chunks' \subseteq chunks /\ \A e \in chunks' : e.source \in sources'
  BY <1>1 DEF PurgeInv, WriteInv, stored
<1> HIDE DEF place
<1> QED BY <1>1, <1>2, <1>3, <1>4, <1>5, <1>6, <1>7, CallKeeps

LEMMA GetKeeps ==
  ASSUME PurgeInv, NEW a \in Admins, Get(a)
  PROVE  PurgeInv'
<1>1. PICK d \in page[a] : IF d \in sources
                            THEN /\ PurgeAt(a, "chunks") /\ current' = [current EXCEPT ![a] = d]
                                 /\ page' = [page EXCEPT ![a] = @ \ {d}] /\ UNCHANGED <<listed, owed>>
                            ELSE End(a)
  BY DEF Get
<1>2. step[a] = "get" /\ UNCHANGED <<status, stored, write, events, arrived, late, ends>> /\ events \in Nat
      /\ events \in 0 .. MaxEvents
  BY DEF Get, PurgeInv, WorkspaceTypeOK
<1>3. CASE d \in sources
  <2>1. /\ step' = [step EXCEPT ![a] = "chunks"] /\ current' = [current EXCEPT ![a] = d]
        /\ page' = [page EXCEPT ![a] = @ \ {d}] /\ UNCHANGED <<listed, owed>>
    BY <1>1, <1>3 DEF PurgeAt
  <2>2. d \in Documents
    BY DEF PurgeInv, WorkspaceTypeOK
  <2>3. WorkspaceTypeOK'
    BY <1>2, <2>1, <2>2 DEF PurgeInv, WorkspaceTypeOK, stored, ends
  <2>4. ToldOnce' /\ miscounted' \subseteq shared'
    BY <1>2, <2>1, SilentStep DEF PurgeInv, ends
  <2>5. step'[a] = "chunks" /\ current'[a] = d /\ owed'[a] = owed[a] /\ \A b \in Admins \ {a} : Untouched(b)
    BY <2>1 DEF PurgeInv, WorkspaceTypeOK, Untouched
  <2>6. Erased(a)'
    BY <1>2, <2>2, <2>5 DEF PurgeInv, Erased, Owing, RowErased, ScopeErased, Removing, stored
  <2>7. \A b \in Admins : Allows(b)
    BY <1>2 DEF Allows, stored, ends
  <2>8. chunks' \subseteq chunks /\ \A e \in chunks' : e.source \in sources'
    BY <1>2 DEF PurgeInv, WriteInv, stored
  <2> QED BY <1>2, <2>3, <2>4, <2>5, <2>6, <2>7, <2>8, CallKeeps
<1>4. CASE d \notin sources
  BY <1>1, <1>2, <1>4, EndKeeps
<1> QED BY <1>3, <1>4

\* A step on the row a call removes: it takes away and says nothing.
LEMMA RowStepKeeps ==
  ASSUME PurgeInv, NEW a \in Admins, step[a] \in Removing, NEW place \in {"unindex", "unchunk", "erase", "find", "delete"},
         PurgeAt(a, place), WorkspaceTypeOK',
         UNCHANGED <<status, sources, records, write, page, current, events, owed, late, ends>>,
         vectors' \subseteq vectors, originals' \subseteq originals, chunks' \subseteq chunks,
         \A e \in chunks \ chunks' : e \in vectors => e.source \in late,
         \A b \in Admins \ {a} : listed'[b] = listed[b],
         RowErased(a)'
  PROVE  PurgeInv'
<1>1. step' = [step EXCEPT ![a] = place] /\ step'[a] = place /\ owed'[a] = owed[a] /\ \A b \in Admins \ {a} : Untouched(b)
  BY DEF PurgeInv, WorkspaceTypeOK, PurgeAt, Untouched
<1>2. ToldOnce' /\ miscounted' \subseteq shared'
  BY <1>1, SilentStep DEF PurgeInv, ends
<1>3. events \in Nat /\ \A b \in Admins : Allows(b)
  BY DEF Allows, ends, PurgeInv, WorkspaceTypeOK
<1>4. Erased(a)'
  <2>1. Owing(a)'
    BY <1>1 DEF PurgeInv, Erased, Owing
  <2>2. ScopeErased(a)'
    BY <1>1 DEF ScopeErased
  <2> QED BY <2>1, <2>2 DEF Erased
<1>5. \A e \in chunks' : e.source \in sources'
  BY DEF PurgeInv, WriteInv
<1>6. step[a] # "idle"
  BY DEF Removing
<1> QED BY <1>1, <1>2, <1>3, <1>4, <1>5, <1>6, CallKeeps

LEMMA RowStepsKeep ==
  ASSUME PurgeInv, NEW a \in Admins, ListChunks(a) \/ Unindex(a) \/ Unchunk(a) \/ EraseOriginal(a)
  PROVE  PurgeInv'
<1>1. step[a] \in Removing /\ current[a] \in Documents
  BY DEF ListChunks, Unindex, Unchunk, EraseOriginal, Removing, PurgeInv, Erased, RowErased
<1>2. UNCHANGED <<status, sources, records, write, page, current, events, arrived, owed, late, ends>>
  BY DEF ListChunks, Unindex, Unchunk, EraseOriginal, stored
<1>3. CASE ListChunks(a)
  <2>1. /\ PurgeAt(a, "unindex") /\ listed' = [listed EXCEPT ![a] = Of(current[a], chunks)]
        /\ UNCHANGED <<chunks, vectors, originals>>
    BY <1>3 DEF ListChunks, stored
  <2>2. WorkspaceTypeOK'
    BY <1>2, <2>1 DEF PurgeInv, WorkspaceTypeOK, PurgeAt, Of, ends
  <2>3. RowErased(a)' /\ \A b \in Admins \ {a} : listed'[b] = listed[b]
    BY <1>1, <1>2, <2>1 DEF PurgeInv, WorkspaceTypeOK, PurgeAt, RowErased, Of
  <2> QED BY <1>1, <1>2, <2>1, <2>2, <2>3, RowStepKeeps
<1>4. CASE Unindex(a)
  <2>1. /\ step[a] = "unindex" /\ PurgeAt(a, "unchunk") /\ listed' = [listed EXCEPT ![a] = {}]
        /\ vectors' = vectors \ listed[a] /\ UNCHANGED <<chunks, originals>>
    BY <1>4 DEF Unindex
  <2>2. WorkspaceTypeOK'
    BY <1>2, <2>1 DEF PurgeInv, WorkspaceTypeOK, PurgeAt, ends
  <2>3. RowErased(a)' /\ \A b \in Admins \ {a} : listed'[b] = listed[b]
    BY <1>1, <1>2, <2>1 DEF PurgeInv, WorkspaceTypeOK, PurgeAt, Erased, RowErased, Of
  <2> QED BY <1>1, <1>2, <2>1, <2>2, <2>3, RowStepKeeps
<1>5. CASE Unchunk(a)
  <2>1. /\ step[a] = "unchunk" /\ PurgeAt(a, "erase") /\ chunks' = chunks \ Of(current[a], chunks)
        /\ UNCHANGED <<vectors, originals, listed>>
    BY <1>5 DEF Unchunk
  <2>2. WorkspaceTypeOK'
    BY <1>2, <2>1 DEF PurgeInv, WorkspaceTypeOK, PurgeAt, ends
  <2>3. RowErased(a)' /\ \A e \in chunks \ chunks' : e \in vectors => e.source \in late
    BY <1>1, <1>2, <2>1 DEF PurgeInv, WorkspaceTypeOK, PurgeAt, Erased, RowErased, Of
  <2> QED BY <1>1, <1>2, <2>1, <2>2, <2>3, RowStepKeeps
<1>6. CASE EraseOriginal(a)
  <2>1. /\ step[a] = "erase" /\ PurgeAt(a, "find") /\ originals' = originals \ {current[a]}
        /\ UNCHANGED <<vectors, chunks, listed>>
    BY <1>6 DEF EraseOriginal
  <2>2. WorkspaceTypeOK'
    BY <1>2, <2>1 DEF PurgeInv, WorkspaceTypeOK, PurgeAt, ends
  <2>3. RowErased(a)'
    BY <1>1, <1>2, <2>1 DEF PurgeInv, WorkspaceTypeOK, PurgeAt, Erased, RowErased
  <2> QED BY <1>1, <1>2, <2>1, <2>2, <2>3, RowStepKeeps
<1> QED BY <1>3, <1>4, <1>5, <1>6

LEMMA FindRowKeeps ==
  ASSUME PurgeInv, NEW a \in Admins, FindRow(a)
  PROVE  PurgeInv'
<1>1. step[a] = "find" /\ UNCHANGED <<status, stored, write, events, arrived, late, ends>> /\ events \in 0 .. MaxEvents
  BY DEF FindRow, PurgeInv, WorkspaceTypeOK
<1>2. CASE current[a] \in sources
  <2>1. PurgeAt(a, "delete") /\ UNCHANGED <<page, current, listed, owed>>
    BY <1>2 DEF FindRow
  <2>2. WorkspaceTypeOK'
    BY <1>1, <2>1 DEF PurgeInv, WorkspaceTypeOK, PurgeAt, stored, ends
  <2>3. RowErased(a)' /\ step[a] \in Removing
    BY <1>1, <1>2, <2>1 DEF PurgeInv, WorkspaceTypeOK, PurgeAt, Erased, RowErased, Removing, stored
  <2> QED BY <1>1, <2>1, <2>2, <2>3, RowStepKeeps DEF stored
<1>3. CASE current[a] \notin sources
  <2>1. End(a) /\ events <= events'
    BY <1>1, <1>3 DEF FindRow
  <2> QED BY <1>1, <2>1, EndKeeps
<1> QED BY <1>2, <1>3

\* Of two that are at the DELETE of one row the second counts what it has not
\* removed, and that row is known to be shared.
LEMMA DeleteKeeps ==
  ASSUME PurgeInv, NEW a \in Admins, DeleteRow(a)
  PROVE  PurgeInv'
<1> DEFINE d == current[a]
           place == IF page[a] = {} THEN "list" ELSE "get"
<1>1. /\ step[a] = "delete" /\ sources' = sources \ {d} /\ chunks' = chunks \ Of(d, chunks)
      /\ shared' = IF \E b \in Admins \ {a} : step[b] = "delete" /\ current[b] = d THEN shared \cup {d} ELSE shared
      /\ miscounted' = IF d \in sources THEN miscounted ELSE miscounted \cup {d}
      /\ step' = [step EXCEPT ![a] = place] /\ current' = [current EXCEPT ![a] = 0]
      /\ UNCHANGED <<status, originals, vectors, records, write, page, listed, events, arrived, owed, late, opened, told>>
  BY DEF DeleteRow, PurgeAt
<1>2. d \in Documents /\ (d \in originals => d \in late) /\ d \in sources \cup shared
      /\ \A v \in vectors \cap chunks : v.source = d => v.source \in late
  BY <1>1 DEF PurgeInv, Erased, RowErased, Removing
<1> HIDE DEF d
<1>3. WorkspaceTypeOK'
  BY <1>1, <1>2 DEF PurgeInv, WorkspaceTypeOK
<1>4. /\ step'[a] = place /\ owed'[a] = owed[a] /\ \A b \in Admins \ {a} : Untouched(b)
  BY <1>1 DEF PurgeInv, WorkspaceTypeOK, Untouched
<1>5. ToldOnce'
  BY <1>1, SilentStep DEF PurgeInv
<1>6. miscounted' \subseteq shared' /\ shared \subseteq shared'
  BY <1>1, <1>2 DEF PurgeInv
<1>7. events \in Nat /\ \A b \in Admins \ {a} : Allows(b)
  BY <1>1, <1>2, <1>6 DEF Allows, Of, PurgeInv, WorkspaceTypeOK
<1>8. Erased(a)'
  <2>1. Owing(a)'
    BY <1>1, <1>2, <1>4 DEF PurgeInv, Erased, Owing, Of
  <2>2. RowErased(a)' /\ ScopeErased(a)'
    BY <1>4 DEF RowErased, ScopeErased, Removing
  <2> QED BY <2>1, <2>2 DEF Erased
<1>9. chunks' \subseteq chunks /\ \A e \in chunks' : e.source \in sources'
  BY <1>1 DEF PurgeInv, WriteInv, Of
<1> QED BY <1>1, <1>3, <1>4, <1>5, <1>6, <1>7, <1>8, <1>9, CallKeeps

LEMMA SweepKeeps ==
  ASSUME PurgeInv, NEW a \in Admins, Sweep(a)
  PROVE  PurgeInv'
<1>1. /\ step[a] = "sweep" /\ step' = [step EXCEPT ![a] = "close"] /\ records' = {} /\ chunks' = {}
      /\ UNCHANGED <<status, sources, originals, vectors, write, page, current, listed, events, arrived, owed, late, ends>>
  BY DEF Sweep, PurgeAt
<1>2. WorkspaceTypeOK'
  BY <1>1 DEF PurgeInv, WorkspaceTypeOK, ends
<1>3. /\ step'[a] = "close" /\ owed'[a] = owed[a] /\ \A b \in Admins \ {a} : Untouched(b)
  BY <1>1 DEF PurgeInv, WorkspaceTypeOK, Untouched
<1>4. ToldOnce' /\ miscounted' \subseteq shared'
  BY <1>1, SilentStep DEF PurgeInv, ends
<1>5. \A e \in chunks : e.source \in late
  BY <1>1 DEF PurgeInv, WriteInv, Erased, ScopeErased
<1>6. events \in Nat /\ \A b \in Admins : Allows(b)
  BY <1>1, <1>5 DEF Allows, ends, PurgeInv, WorkspaceTypeOK
<1>7. Erased(a)'
  BY <1>1, <1>3, <1>5 DEF PurgeInv, Erased, Owing, RowErased, ScopeErased, Removing
<1> QED BY <1>1, <1>2, <1>3, <1>4, <1>6, <1>7, CallKeeps

\* The call that closes the row is to announce it.
LEMMA CloseKeeps ==
  ASSUME PurgeInv, NEW a \in Admins, CloseIfOpen(a)
  PROVE  PurgeInv'
<1>1. step[a] = "close" /\ UNCHANGED <<stored, write, events, arrived, late, ends>> /\ events \in 0 .. MaxEvents
  BY DEF CloseIfOpen, PurgeInv, WorkspaceTypeOK
<1>2. CASE status # "open"
  <2>1. End(a) /\ UNCHANGED status /\ events <= events'
    BY <1>1, <1>2 DEF CloseIfOpen
  <2> QED BY <1>1, <2>1, EndKeeps
<1>3. CASE status = "open"
  <2>1. status' = "closed" /\ step' = [step EXCEPT ![a] = "announce"] /\ UNCHANGED <<page, current, listed, owed>>
    BY <1>3 DEF CloseIfOpen, PurgeAt
  <2>2. WorkspaceTypeOK'
    BY <1>1, <2>1 DEF PurgeInv, WorkspaceTypeOK, stored, ends
  <2>3. /\ step'[a] = "announce" /\ owed'[a] = owed[a] /\ \A b \in Admins \ {a} : Untouched(b)
    BY <2>1 DEF PurgeInv, WorkspaceTypeOK, Untouched
  <2>4. ToldOnce'
    <3>1. told \in Nat /\ opened \in Nat /\ IsOpen = 1 /\ IsOpen' = 0 /\ told' = told /\ opened' = opened
      BY <1>1, <1>3, <2>1 DEF PurgeInv, WorkspaceTypeOK, IsOpen, ends
    <3>2. IsFiniteSet(Announcing) /\ told + Cardinality(Announcing) + IsOpen <= opened
      BY DEF PurgeInv, ToldOnce
    <3>3. IsFiniteSet(Announcing') /\ Cardinality(Announcing) \in Nat
          /\ Cardinality(Announcing') = Cardinality(Announcing) + (IF "announce" = "announce" THEN 1 ELSE 0)
                                                                - (IF step[a] = "announce" THEN 1 ELSE 0)
      BY <2>1, <3>2, AnnouncingChanges DEF PurgeInv
    <3> QED BY <1>1, <2>1, <3>1, <3>2, <3>3 DEF ToldOnce
  <2>5. Erased(a)'
    BY <1>1, <2>1, <2>3 DEF PurgeInv, Erased, Owing, RowErased, ScopeErased, Removing, stored
  <2>6. \A b \in Admins : Allows(b)
    BY <1>1 DEF Allows, stored, ends
  <2>7. /\ chunks' \subseteq chunks /\ (\A e \in chunks' : e.source \in sources')
        /\ miscounted' \subseteq shared' /\ events' \in Nat /\ events <= events'
    BY <1>1 DEF PurgeInv, WriteInv, stored, ends
  <2> QED BY <1>1, <2>2, <2>3, <2>4, <2>5, <2>6, <2>7, CallKeeps
<1> QED BY <1>2, <1>3

LEMMA AnnounceKeeps ==
  ASSUME PurgeInv, NEW a \in Admins, Announce(a)
  PROVE  PurgeInv'
<1>1. /\ step[a] = "announce" /\ told' = told + 1 /\ End(a)
      /\ UNCHANGED <<status, stored, write, events, arrived, late, shared, miscounted, opened>>
  BY DEF Announce
<1>2. /\ step' = [step EXCEPT ![a] = "idle"] /\ page' \in [Admins -> SUBSET Documents]
      /\ current' \in [Admins -> Documents \cup {0}] /\ listed' \in [Admins -> SUBSET Emissions]
      /\ owed' \in [Admins -> Holding] /\ owed'[a] = Nothing /\ \A b \in Admins \ {a} : Untouched(b)
  BY <1>1, Stays DEF PurgeInv
<1>3. told \in Nat /\ opened \in Nat /\ events \in Nat /\ step'[a] = "idle"
  BY <1>2 DEF PurgeInv, WorkspaceTypeOK
<1>4. WorkspaceTypeOK'
  BY <1>1, <1>2, <1>3 DEF PurgeInv, WorkspaceTypeOK, stored
<1>5. ToldOnce'
  <2>1. IsFiniteSet(Announcing) /\ told + Cardinality(Announcing) + IsOpen <= opened
    BY DEF PurgeInv, ToldOnce
  <2>2. IsFiniteSet(Announcing') /\ Cardinality(Announcing) \in Nat
        /\ Cardinality(Announcing') = Cardinality(Announcing) + (IF "idle" = "announce" THEN 1 ELSE 0)
                                                              - (IF step[a] = "announce" THEN 1 ELSE 0)
    BY <1>2, <2>1, AnnouncingChanges DEF PurgeInv
  <2>3. IsOpen' = IsOpen /\ IsOpen \in Nat
    BY <1>1 DEF IsOpen
  <2>4. told' + Cardinality(Announcing') + IsOpen' = told + Cardinality(Announcing) + IsOpen
    BY <1>1, <1>3, <2>2, <2>3
  <2> QED BY <1>1, <2>1, <2>2, <2>4 DEF PurgeInv, ToldOnce
<1>6. Erased(a)' /\ \A b \in Admins : Allows(b)
  BY <1>1, <1>2, <1>3, IdleIsErased DEF Allows, stored
<1>7. chunks' \subseteq chunks /\ (\A e \in chunks' : e.source \in sources') /\ miscounted' \subseteq shared'
  BY <1>1 DEF PurgeInv, WriteInv, stored
<1> QED BY <1>1, <1>2, <1>3, <1>4, <1>5, <1>6, <1>7, CallKeeps

LEMMA DeathKeeps ==
  ASSUME PurgeInv, NEW a \in Admins, PurgeDies(a)
  PROVE  PurgeInv'
<1>1. events' \in 0 .. MaxEvents /\ events <= events'
  BY EventTyped DEF PurgeDies, PurgeInv
<1> QED BY <1>1, EndKeeps DEF PurgeDies

-----------------------------------------------------------------------------
(* What it is for.                                                           *)

LEMMA PurgeInvInit == ASSUME WorkspaceInit PROVE PurgeInv
<1>1. WorkspaceTypeOK
  BY WorkspaceAssumption DEF WorkspaceInit, WorkspaceTypeOK, WorkspaceSettings, NoWrite, Write, Nothing, Holding
<1>2. WriteInv
  BY DEF WorkspaceInit, WriteInv, NoWrite
<1>3. ToldOnce
  <2>1. Announcing = {} /\ IsOpen = 0 /\ told = 0 /\ opened = 0
    BY DEF WorkspaceInit, Announcing, IsOpen
  <2>2. Cardinality({}) = 0 /\ IsFiniteSet({})
    BY FS_EmptySet
  <2> QED BY <2>1, <2>2 DEF ToldOnce
<1>4. \A a \in Admins : Erased(a)
  BY DEF WorkspaceInit, Erased, Owing, RowErased, ScopeErased, Nothing, Removing
<1> QED BY <1>1, <1>2, <1>3, <1>4 DEF PurgeInv, WorkspaceInit

\* The invariant holds in every reachable state.
LEMMA PurgeInvHolds == WorkspaceSpec => []PurgeInv
<1>1. WorkspaceInit => PurgeInv
  BY PurgeInvInit
<1>2. PurgeInv /\ [WorkspaceNext]_workspaceVars => PurgeInv'
  <2> SUFFICES ASSUME PurgeInv, [WorkspaceNext]_workspaceVars PROVE PurgeInv'
    OBVIOUS
  <2>1. CASE UNCHANGED workspaceVars
    <3>1. UNCHANGED <<status, sources, originals, chunks, vectors, records, write, step, page, current, listed, events,
                      arrived, owed, late, shared, miscounted, opened, told>>
      BY <2>1 DEF workspaceVars, stored, progress, ends
    <3>2. UNCHANGED <<Announcing, IsOpen, Purging, Emitted>>
      BY <3>1 DEF Announcing, IsOpen, Purging, Emitted
    <3>3. WorkspaceTypeOK' /\ WriteInv' /\ ToldOnce' /\ miscounted' \subseteq shared'
      BY <3>1, <3>2 DEF PurgeInv, WorkspaceTypeOK, WriteInv, ToldOnce
    <3>4. \A a \in Admins : Erased(a)'
      BY <3>1 DEF PurgeInv, Erased, Owing, RowErased, ScopeErased
    <3> QED BY <3>3, <3>4 DEF PurgeInv
  <2>2. CASE Submit \/ Replace \/ WriteStep \/ AddRecord \/ Create \/ Update \/ CloseRow
    BY <2>2, BeginKeeps, WriteKeeps, AddRecordKeeps, RowKeeps
  <2>3. ASSUME NEW a \in Admins, Purge(a) \/ PurgeStep(a) \/ PurgeDies(a) PROVE PurgeInv'
    BY <2>3, PurgeKeeps, ListKeeps, GetKeeps, RowStepsKeep, FindRowKeeps, DeleteKeeps, SweepKeeps, CloseKeeps,
       AnnounceKeeps, DeathKeeps
       DEF PurgeStep
  <2> QED BY <2>1, <2>2, <2>3 DEF WorkspaceNext
<1> QED BY <1>1, <1>2, PTL DEF WorkspaceSpec

\* Rows, writes, pages and what is owed keep their types.
THEOREM WorkspaceTypeCorrect == WorkspaceSpec => []WorkspaceTypeOK
<1>1. PurgeInv => WorkspaceTypeOK
  BY DEF PurgeInv
<1> QED BY <1>1, PurgeInvHolds, PTL

\* A purge that got to the end has erased what it could find when it began,
\* whoever else was purging, writing or crashing, but for sources that were
\* written to meanwhile.
THEOREM PurgeIsComplete == WorkspaceSpec => []PurgeErases
<1>1. PurgeInv => PurgeErases
  BY DEF PurgeInv, WriteInv, Erased, Owing, ScopeErased, PurgeErases
<1> QED BY <1>1, PurgeInvHolds, PTL

\* However many purges run at once and wherever they die, a purge counts a row it
\* did not delete only when another was at the same DELETE, and no end of the
\* workspace is announced twice.
THEOREM PurgeReports == WorkspaceSpec => []ReportsOwnWork
<1>1. PurgeInv => ReportsOwnWork
  <2> SUFFICES ASSUME PurgeInv PROVE ReportsOwnWork
    OBVIOUS
  <2>1. told <= opened
    <3>1. Cardinality(Announcing) \in Nat /\ told \in Nat /\ opened \in Nat /\ IsOpen \in {0, 1}
          /\ told + Cardinality(Announcing) + IsOpen <= opened
      BY FS_CardinalityType DEF PurgeInv, WorkspaceTypeOK, ToldOnce, IsOpen
    <3> QED BY <3>1
  <2> QED BY <2>1 DEF PurgeInv, ReportsOwnWork
<1> QED BY <1>1, PurgeInvHolds, PTL

-----------------------------------------------------------------------------
(* Chunking.  The invariant.                                                 *)

\* Where the loops stand, and where the next piece begins.
NextStart == Cut(IF cursor = NoSplit THEN 0 ELSE cursor, 0)
NextHead == IF buffer = <<>> THEN NextStart ELSE buffer[1]

Ordered(ps) == \A i \in 2 .. Len(ps) : Before(Head(ps[i - 1]), Head(ps[i]))
Follows(ps, x) == Len(ps) > 0 => Before(Head(Last(ps)), x)
InTextOrder == setting.overlap < setting.budget => Ordered(pieces) /\ Follows(pieces, NextHead)

\* A paragraph is split when it is larger than a piece, and nothing waits.
Splitting ==
  cursor # NoSplit =>
    /\ buffer = <<>> /\ InSection /\ paragraph <= Len(document[section])
    /\ cursor < Size

\* What waits comes from one section, a span of each paragraph.
Waiting ==
  /\ \A i \in 1 .. Len(buffer) : buffer[i].section = section /\ buffer[i].paragraph < paragraph
  /\ \A i, j \in 1 .. Len(buffer) : i < j => buffer[i].paragraph < buffer[j].paragraph

\* A span is not empty; what waits is as long as it is taken to be.
Largest == setting.budget + setting.overlap + Separator
Measured ==
  /\ \A i \in 1 .. Len(buffer) : buffer[i].from < buffer[i].to
  /\ bufLen = LengthOf(buffer) /\ bufLen <= Largest

Sound(piece) ==
  /\ piece # <<>> /\ LengthOf(piece) <= Largest
  /\ \A i, j \in 1 .. Len(piece) : piece[i].section = piece[j].section
PiecesSound == \A k \in 1 .. Len(pieces) : Sound(pieces[k])

PassedBy(s, p) ==
  IF s < section \/ p < paragraph THEN document[s][p]
  ELSE IF p = paragraph /\ cursor # NoSplit THEN cursor ELSE 0
Coverage ==
  \A s \in 1 .. Smaller(section, Len(document)) : \A p \in 1 .. Len(document[s]) :
    0 .. PassedBy(s, p) - 1 \subseteq Covered(s, p)

ChunkInv ==
  ChunkTypeOK /\ InTextOrder /\ Splitting /\ Waiting /\ Measured /\ PiecesSound /\ Coverage

-----------------------------------------------------------------------------
(* Lemmas about sequences of spans and of pieces.                            *)

LEMMA HeadIsFirst ==
  ASSUME NEW S, NEW s \in Seq(S), s # <<>> PROVE Head(s) = s[1] /\ s[1] \in S /\ 1 \in 1 .. Len(s)
<1>1. Len(s) \in Nat /\ Len(s) # 0
  BY LenProperties, EmptySeq
<1>2. 1 \in 1 .. Len(s)
  BY <1>1
<1>3. Head(s) = s[1]
  BY HeadTailProperties
<1> QED BY <1>2, <1>3, ElementOfSeq

OneMore(s, x, t) ==
  /\ Len(t) = Len(s) + 1 /\ t # <<>> /\ Len(s) \in Nat
  /\ \A i \in 1 .. Len(s) : t[i] = s[i]
  /\ t[Len(s) + 1] = x /\ Last(t) = x
  /\ ToSet(t) = ToSet(s) \cup {x}

LEMMA Longer ==
  ASSUME NEW S, NEW s \in Seq(S), NEW x \in S
  PROVE  Append(s, x) \in Seq(S) /\ OneMore(s, x, Append(s, x))
<1>0. PICK t : t = Append(s, x)
  OBVIOUS
<1>1. Len(s) \in Nat /\ DOMAIN s = 1 .. Len(s)
  BY LenProperties
<1>2. /\ t \in Seq(S) /\ Len(t) = Len(s) + 1 /\ \A i \in 1 .. Len(s) : t[i] = s[i]
      /\ t[Len(s) + 1] = x
  BY <1>0, AppendProperties
<1>3. Last(t) = x
  BY <1>2 DEF Last
<1>4. DOMAIN t = 1 .. Len(s) + 1
  BY <1>2, LenProperties
<1>5. t # <<>>
  BY <1>1, <1>2, EmptySeq
<1>6. ToSet(t) \subseteq ToSet(s) \cup {x}
  <2> SUFFICES ASSUME NEW i \in 1 .. Len(s) + 1 PROVE t[i] \in ToSet(s) \cup {x}
    BY <1>4 DEF ToSet
  <2>1. i \in 1 .. Len(s) \/ i = Len(s) + 1
    BY <1>1
  <2> QED BY <1>1, <1>2, <2>1 DEF ToSet
<1>7. ToSet(s) \cup {x} \subseteq ToSet(t)
  <2>1. \A i \in 1 .. Len(s) : i \in 1 .. Len(s) + 1
    BY <1>1
  <2>2. Len(s) + 1 \in 1 .. Len(s) + 1
    BY <1>1
  <2> QED BY <1>1, <1>2, <1>4, <2>1, <2>2 DEF ToSet
<1>8. OneMore(s, x, t)
  BY <1>1, <1>2, <1>3, <1>5, <1>6, <1>7 DEF OneMore
<1> QED BY <1>0, <1>2, <1>8

\* A piece that begins after the last one goes behind it.
LEMMA NextPiece ==
  ASSUME NEW S, NEW ps \in Seq(S), NEW piece \in S, NEW qs, qs = Append(ps, piece)
  PROVE  /\ Ordered(ps) /\ Follows(ps, Head(piece)) => Ordered(qs)
         /\ \A x : Before(Head(piece), x) => Follows(qs, x)
<1>1. /\ Len(ps) \in Nat /\ Len(qs) = Len(ps) + 1 /\ \A i \in 1 .. Len(ps) : qs[i] = ps[i]
      /\ qs[Len(ps) + 1] = piece /\ Last(qs) = piece
  <2>1. OneMore(ps, piece, qs)
    BY Longer, Zenon
  <2> QED BY <2>1 DEF OneMore
<1>2. ASSUME Ordered(ps), Follows(ps, Head(piece)), NEW i \in 2 .. Len(ps) + 1
      PROVE  Before(Head(qs[i - 1]), Head(qs[i]))
  <2>1. CASE i = Len(ps) + 1
    <3>1. i - 1 = Len(ps) /\ Len(ps) \in 1 .. Len(ps) /\ Len(ps) > 0
      BY <1>1, <2>1
    <3>2. qs[i - 1] = Last(ps) /\ qs[i] = piece
      BY <1>1, <2>1, <3>1 DEF Last
    <3> QED BY <1>2, <3>1, <3>2 DEF Follows
  <2>2. CASE i # Len(ps) + 1
    <3>1. i - 1 \in 1 .. Len(ps) /\ i \in 1 .. Len(ps) /\ i \in 2 .. Len(ps)
      BY <1>1, <2>2
    <3>2. qs[i - 1] = ps[i - 1] /\ qs[i] = ps[i]
      BY <1>1, <3>1
    <3> QED BY <1>2, <3>1, <3>2 DEF Ordered
  <2> QED BY <2>1, <2>2
<1> QED BY <1>1, <1>2 DEF Ordered, Follows

\* Spans that wait, one more of them.
LEMMA JoinedIs ==
  ASSUME NEW s \in Seq(Span), NEW x \in Span, x.at = 0, LengthOf(s) \in Nat, NEW t, t = Joined(s, x)
  PROVE  /\ t \in Seq(Span) /\ Len(t) = Len(s) + 1 /\ t # <<>> /\ Len(s) \in Nat
         /\ \A i \in 1 .. Len(s) : t[i] = s[i]
         /\ LengthOf(t) = (IF s = <<>> THEN 0 ELSE LengthOf(s) + Separator) + Extent(x)
         /\ \E y \in Span :
              /\ t = Append(s, y) /\ t[Len(s) + 1] = y
              /\ y.section = x.section /\ y.paragraph = x.paragraph
              /\ y.from = x.from /\ y.to = x.to
<1>1. PICK y : y = IF s = <<>> THEN x ELSE [x EXCEPT !.at = LengthOf(s) + Separator]
  OBVIOUS
<1>2. t = Append(s, y)
  BY <1>1 DEF Joined
<1>3. /\ y \in Span /\ y.section = x.section /\ y.paragraph = x.paragraph /\ y.from = x.from /\ y.to = x.to
      /\ y.at = IF s = <<>> THEN 0 ELSE LengthOf(s) + Separator
  <2>1. CASE s = <<>>
    BY <1>1, <2>1
  <2>2. CASE s # <<>>
    <3>1. LengthOf(s) + Separator \in Nat
      BY DEF Separator
    <3>2. PICK n \in Nat : n = LengthOf(s) + Separator
      BY <3>1
    <3>3. y = [x EXCEPT !.at = n]
      BY <1>1, <2>2, <3>2
    <3> QED BY <2>2, <3>2, <3>3 DEF Span
  <2> QED BY <2>1, <2>2
<1>4. /\ t \in Seq(Span) /\ Len(t) = Len(s) + 1 /\ t # <<>> /\ Len(s) \in Nat
      /\ \A i \in 1 .. Len(s) : t[i] = s[i]
      /\ t[Len(s) + 1] = y /\ Last(t) = y
  <2>1. y \in Span
    BY <1>3
  <2>2. t \in Seq(Span) /\ OneMore(s, y, t)
    BY <1>2, <2>1, Longer, Zenon
  <2> QED BY <2>2 DEF OneMore
<1>5. LengthOf(t) = y.at + Extent(y)
  BY <1>4 DEF LengthOf
<1>6. Extent(y) = Extent(x)
  BY <1>3 DEF Extent
<1> QED BY <1>2, <1>3, <1>4, <1>5, <1>6

-----------------------------------------------------------------------------
(* Lemmas about the state.                                                   *)

LEMMA ChunkSizes ==
  ASSUME ChunkTypeOK
  PROVE  /\ setting.budget \in Nat \ {0} /\ setting.overlap \in Nat /\ Largest \in Nat
         /\ Len(document) \in Nat /\ section \in Nat \ {0} /\ paragraph \in Nat \ {0}
         /\ \A s \in 1 .. Len(document) :
              /\ Len(document[s]) \in Nat
              /\ \A p \in 1 .. Len(document[s]) : document[s][p] \in Nat \ {0}
<1>1. setting.budget \in Nat \ {0} /\ setting.overlap \in Nat
  BY ChunkingAssumption DEF ChunkTypeOK
<1>2. document \in Seq(Seq(Nat \ {0}))
  BY ChunkingAssumption DEF ChunkTypeOK
<1>3. Len(document) \in Nat
  BY <1>2, LenProperties
<1>4. section \in Nat \ {0} /\ paragraph \in Nat \ {0}
  BY <1>3 DEF ChunkTypeOK
<1>5. \A s \in 1 .. Len(document) : document[s] \in Seq(Nat \ {0})
  BY <1>2, ElementOfSeq
<1>6. ASSUME NEW s \in 1 .. Len(document)
      PROVE  /\ Len(document[s]) \in Nat
             /\ \A p \in 1 .. Len(document[s]) : document[s][p] \in Nat \ {0}
  <2>1. PICK d \in Seq(Nat \ {0}) : d = document[s]
    BY <1>5
  <2>2. Len(d) \in Nat /\ \A p \in 1 .. Len(d) : d[p] \in Nat \ {0}
    BY LenProperties, ElementOfSeq
  <2> QED BY <2>1, <2>2
<1>7. Largest \in Nat
  BY <1>1 DEF Largest, Separator
<1> QED BY <1>1, <1>3, <1>4, <1>6, <1>7

LEMMA CutIs ==
  ASSUME ChunkTypeOK, NEW from \in Nat, NEW to \in Nat
  PROVE  /\ Cut(from, to) \in Span /\ Cut(from, to).at = 0
         /\ Cut(from, to).section = section /\ Cut(from, to).paragraph = paragraph
         /\ Cut(from, to).from = from /\ Cut(from, to).to = to
BY ChunkSizes DEF Cut, Span

LEMMA SizeIs ==
  ASSUME ChunkTypeOK, InSection, paragraph <= Len(document[section])
  PROVE  Size \in Nat \ {0}
<1>1. section \in 1 .. Len(document)
  BY ChunkSizes DEF InSection
<1>2. paragraph \in 1 .. Len(document[section])
  BY <1>1, ChunkSizes
<1> QED BY <1>1, <1>2, ChunkSizes DEF Size

AllSpans == UNION {ToSet(piece) : piece \in ToSet(pieces) \cup {buffer}}

\* No span is lost as long as each piece, and what waits, is part of another.
LEMMA SpansStay ==
  ASSUME \A piece \in ToSet(pieces) \cup {buffer} :
           \E q \in ToSet(pieces') \cup {buffer'} : ToSet(piece) \subseteq ToSet(q)
  PROVE  AllSpans \subseteq AllSpans'
<1> SUFFICES ASSUME NEW x \in AllSpans PROVE x \in AllSpans'
  OBVIOUS
<1>1. PICK piece \in ToSet(pieces) \cup {buffer} : x \in ToSet(piece)
  BY DEF AllSpans
<1>2. PICK q \in ToSet(pieces') \cup {buffer'} : ToSet(piece) \subseteq ToSet(q)
  BY <1>1
<1> QED BY <1>1, <1>2 DEF AllSpans

LEMMA CoveredGrows ==
  ASSUME AllSpans \subseteq AllSpans', NEW s, NEW p
  PROVE  /\ Covered(s, p) \subseteq Covered(s, p)'
         /\ \A span \in AllSpans' : span.section = s /\ span.paragraph = p =>
              span.from .. span.to - 1 \subseteq Covered(s, p)'
<1>1. Covered(s, p) = UNION {span.from .. span.to - 1 :
                             span \in {t \in AllSpans : t.section = s /\ t.paragraph = p}}
  BY DEF Covered, AllSpans
<1>2. Covered(s, p)' = UNION {span.from .. span.to - 1 :
                              span \in {t \in AllSpans' : t.section = s /\ t.paragraph = p}}
  BY DEF Covered, AllSpans
<1>3. ASSUME NEW span \in AllSpans', span.section = s, span.paragraph = p
      PROVE  span.from .. span.to - 1 \subseteq Covered(s, p)'
  BY <1>2, <1>3
<1>4. ASSUME NEW x \in Covered(s, p) PROVE x \in Covered(s, p)'
  <2>1. PICK span \in AllSpans : span.section = s /\ span.paragraph = p /\ x \in span.from .. span.to - 1
    BY <1>1
  <2> QED BY <1>3, <2>1
<1> QED BY <1>3, <1>4

\* What has been passed stays covered when the step has cut what it passes.
Passes(s, p) ==
  \/ PassedBy(s, p)' = 0
  \/ /\ s \in 1 .. Smaller(section, Len(document))
     /\ \/ PassedBy(s, p)' = PassedBy(s, p)
        \/ \E span \in AllSpans' :
             /\ span.section = s /\ span.paragraph = p
             /\ span.from \in Nat /\ span.to \in Nat /\ PassedBy(s, p) \in Nat
             /\ span.from <= PassedBy(s, p) /\ PassedBy(s, p)' <= span.to

LEMMA CoverageKeeps ==
  ASSUME Coverage, AllSpans \subseteq AllSpans', document' = document,
         \A s \in 1 .. Smaller(section', Len(document)) : \A p \in 1 .. Len(document[s]) :
           PassedBy(s, p)' \in Nat /\ Passes(s, p)
  PROVE  Coverage'
<1> SUFFICES ASSUME NEW s \in 1 .. Smaller(section', Len(document)), NEW p \in 1 .. Len(document[s]),
                    NEW x \in 0 .. PassedBy(s, p)' - 1
             PROVE  x \in Covered(s, p)'
  BY DEF Coverage, Smaller
<1>1. PassedBy(s, p)' \in Nat /\ Passes(s, p)
  OBVIOUS
<1>2. s \in 1 .. Smaller(section, Len(document)) /\ PassedBy(s, p)' # 0
  BY <1>1 DEF Passes
<1>3. \A y \in 0 .. PassedBy(s, p) - 1 : y \in Covered(s, p)
  BY <1>2 DEF Coverage
<1>4. CASE PassedBy(s, p)' = PassedBy(s, p)
  <2>1. x \in Covered(s, p)
    BY <1>3, <1>4
  <2> QED BY <2>1, CoveredGrows
<1>5. CASE \E span \in AllSpans' :
             /\ span.section = s /\ span.paragraph = p
             /\ span.from \in Nat /\ span.to \in Nat /\ PassedBy(s, p) \in Nat
             /\ span.from <= PassedBy(s, p) /\ PassedBy(s, p)' <= span.to
  <2>1. PICK span \in AllSpans' :
             /\ span.section = s /\ span.paragraph = p
             /\ span.from \in Nat /\ span.to \in Nat /\ PassedBy(s, p) \in Nat
             /\ span.from <= PassedBy(s, p) /\ PassedBy(s, p)' <= span.to
    BY <1>5
  <2>2. span.from .. span.to - 1 \subseteq Covered(s, p)' /\ Covered(s, p) \subseteq Covered(s, p)'
    BY <2>1, CoveredGrows
  <2>3. x \in 0 .. PassedBy(s, p) - 1 \/ x \in span.from .. span.to - 1
    BY <1>1, <2>1
  <2> QED BY <1>3, <2>2, <2>3
<1> QED BY <1>1, <1>2, <1>4, <1>5 DEF Passes

-----------------------------------------------------------------------------
(* Lemmas about the pieces.                                                  *)

\* One more piece.
LEMMA CutKeeps ==
  ASSUME pieces \in Seq(Seq(Span)), PiecesSound, NEW piece \in Seq(Span), Sound(piece),
         pieces' = Append(pieces, piece), setting' = setting
  PROVE  /\ pieces' \in Seq(Seq(Span)) /\ PiecesSound'
         /\ ToSet(pieces') = ToSet(pieces) \cup {piece}
         /\ Ordered(pieces) /\ Follows(pieces, Head(piece)) => Ordered(pieces')
         /\ \A x : Before(Head(piece), x) => Follows(pieces', x)
<1>1. PICK qs : qs = Append(pieces, piece)
  OBVIOUS
<1>2. qs \in Seq(Seq(Span)) /\ OneMore(pieces, piece, qs)
  BY <1>1, Longer, Zenon
<1>3. /\ Ordered(pieces) /\ Follows(pieces, Head(piece)) => Ordered(qs)
      /\ \A x : Before(Head(piece), x) => Follows(qs, x)
  BY <1>1, NextPiece, Zenon
<1>4. \A k \in 1 .. Len(qs) : Sound(qs[k])
  <2> TAKE k \in 1 .. Len(qs)
  <2>1. k \in 1 .. Len(pieces) \/ k = Len(pieces) + 1
    BY <1>2 DEF OneMore
  <2> QED BY <1>2, <2>1 DEF OneMore, PiecesSound
<1>5. \A q : Sound(q)' <=> Sound(q)
  BY DEF Sound, Largest
<1>6. PiecesSound'
  BY <1>1, <1>4, <1>5 DEF PiecesSound
<1> QED BY <1>1, <1>2, <1>3, <1>6 DEF OneMore

\* What waits is fit to be a piece.
LEMMA BufferIsSound == ASSUME ChunkInv, buffer # <<>> PROVE Sound(buffer)
BY DEF ChunkInv, Sound, Waiting, Measured

\* "if buf: yield"
LEMMA Flushing ==
  ASSUME ChunkInv, pieces' = Flushed, buffer' = <<>>, setting' = setting
  PROVE  /\ pieces' \in Seq(Seq(Span)) /\ PiecesSound' /\ AllSpans \subseteq AllSpans'
         /\ setting.overlap < setting.budget => Ordered(pieces')
         /\ \A x : setting.overlap < setting.budget
                   /\ (buffer = <<>> => \A h \in Span : Before(h, NextStart) => Before(h, x))
                   /\ (buffer # <<>> => Before(buffer[1], x))
                   => Follows(pieces', x)
<1>0. pieces \in Seq(Seq(Span)) /\ buffer \in Seq(Span) /\ PiecesSound /\ InTextOrder
  BY DEF ChunkInv, ChunkTypeOK
<1>1. CASE buffer = <<>>
  <2>1. pieces' = pieces /\ buffer' = buffer
    BY <1>1 DEF Flushed
  <2>2. PiecesSound' /\ AllSpans' = AllSpans
    <3>1. setting' = setting
      OBVIOUS
    <3>2. AllSpans' = AllSpans
      BY <2>1 DEF AllSpans
    <3>3. PiecesSound'
      BY <1>0, <2>1, <3>1 DEF PiecesSound, Sound, Largest
    <3> QED BY <3>2, <3>3
  <2>3. Len(pieces) > 0 => Head(Last(pieces)) \in Span
    <3> SUFFICES ASSUME Len(pieces) > 0 PROVE Head(Last(pieces)) \in Span
      OBVIOUS
    <3>1. Len(pieces) \in 1 .. Len(pieces)
      BY <1>0, LenProperties
    <3>2. PICK l \in Seq(Span) : l = pieces[Len(pieces)] /\ l # <<>>
      BY <1>0, <3>1, ElementOfSeq DEF PiecesSound, Sound
    <3>3. Head(l) \in Span
      BY <3>2, HeadIsFirst
    <3> QED BY <3>2, <3>3 DEF Last
  <2>4. ASSUME NEW x, setting.overlap < setting.budget, \A h \in Span : Before(h, NextStart) => Before(h, x)
        PROVE  Follows(pieces', x)
    BY <1>0, <1>1, <2>1, <2>3, <2>4 DEF InTextOrder, Follows, NextHead
  <2> QED BY <1>0, <1>1, <2>1, <2>2, <2>4 DEF InTextOrder
<1>2. CASE buffer # <<>>
  <2>1. pieces' = Append(pieces, buffer)
    BY <1>2 DEF Flushed
  <2>2. /\ pieces' \in Seq(Seq(Span)) /\ PiecesSound'
        /\ ToSet(pieces') = ToSet(pieces) \cup {buffer}
        /\ Ordered(pieces) /\ Follows(pieces, Head(buffer)) => Ordered(pieces')
        /\ \A x : Before(Head(buffer), x) => Follows(pieces', x)
    BY <1>0, <1>2, <2>1, BufferIsSound, CutKeeps
  <2>3. Head(buffer) = buffer[1]
    BY <1>0, <1>2, HeadIsFirst
  <2>4. AllSpans \subseteq AllSpans'
    BY <2>2, SpansStay
  <2>5. setting.overlap < setting.budget => Ordered(pieces')
    BY <1>0, <1>2, <2>2, <2>3 DEF InTextOrder, NextHead
  <2> QED BY <1>2, <2>2, <2>3, <2>4, <2>5
<1> QED BY <1>1, <1>2

-----------------------------------------------------------------------------
(* The steps.                                                                *)

LEMMA ChunkingStarts == ChunkInit => ChunkInv
<1> SUFFICES ASSUME ChunkInit PROVE ChunkInv
  OBVIOUS
<1>1. document \in Seq(Seq(Nat \ {0})) /\ setting.overlap \in Nat /\ setting.budget \in Nat
  BY ChunkingAssumption DEF ChunkInit
<1>2. Len(document) \in Nat
  BY <1>1, LenProperties
<1>3. /\ section = 1 /\ paragraph = 1 /\ cursor = NoSplit /\ bufLen = 0
      /\ buffer = <<>> /\ pieces = <<>> /\ Len(buffer) = 0 /\ Len(pieces) = 0
  BY DEF ChunkInit
<1>4. buffer \in Seq(Span) /\ pieces \in Seq(Seq(Span))
  BY <1>3
<1>5. ChunkTypeOK
  BY <1>2, <1>3, <1>4 DEF ChunkInit, ChunkTypeOK
<1>6. InTextOrder /\ Splitting /\ Waiting /\ PiecesSound
  BY <1>3 DEF InTextOrder, Ordered, Follows, Splitting, Waiting, PiecesSound
<1>7. Measured
  BY <1>1, <1>3 DEF Measured, LengthOf, Largest, Separator
<1>8. Coverage
  <2> SUFFICES ASSUME NEW s \in 1 .. Smaller(section, Len(document)), NEW p \in 1 .. Len(document[s])
               PROVE  PassedBy(s, p) = 0
    BY DEF Coverage
  <2>1. s = 1
    BY <1>2, <1>3 DEF Smaller
  <2>2. Len(document[s]) \in Nat
    BY <1>5, <1>2, <1>3, ChunkSizes DEF Smaller
  <2> QED BY <1>3, <2>1, <2>2 DEF PassedBy
<1> QED BY <1>5, <1>6, <1>7, <1>8 DEF ChunkInv

LEMMA BeginSplitKeeps == ChunkInv /\ BeginSplit => ChunkInv'
<1> SUFFICES ASSUME ChunkInv, BeginSplit PROVE ChunkInv'
  OBVIOUS
<1>0. ChunkTypeOK /\ InTextOrder /\ Splitting /\ Waiting /\ Measured /\ PiecesSound /\ Coverage
  BY DEF ChunkInv
<1>1. /\ InSection /\ cursor = NoSplit /\ paragraph <= Len(document[section])
      /\ pieces' = Flushed /\ buffer' = <<>> /\ bufLen' = 0 /\ cursor' = 0
      /\ setting' = setting /\ document' = document /\ section' = section /\ paragraph' = paragraph
  BY DEF BeginSplit, InParagraph
<1>2. /\ setting.overlap \in Nat /\ setting.budget \in Nat \ {0} /\ Largest \in Nat
      /\ Size \in Nat \ {0} /\ Len(document) \in Nat /\ section \in Nat \ {0} /\ paragraph \in Nat \ {0}
  BY <1>0, <1>1, ChunkSizes, SizeIs
<1>3. /\ pieces' \in Seq(Seq(Span)) /\ PiecesSound' /\ AllSpans \subseteq AllSpans'
      /\ setting.overlap < setting.budget => Ordered(pieces')
      /\ \A x : setting.overlap < setting.budget
                /\ (buffer = <<>> => \A h \in Span : Before(h, NextStart) => Before(h, x))
                /\ (buffer # <<>> => Before(buffer[1], x))
                => Follows(pieces', x)
  BY <1>1, Flushing
<1>4. Len(buffer') = 0 /\ buffer' \in Seq(Span)
  BY <1>1
<1>5. ChunkTypeOK'
  BY <1>0, <1>1, <1>3, <1>4 DEF ChunkTypeOK, NoSplit
<1>6. NextHead' = NextStart' /\ NextStart' = Cut(0, 0)
  BY <1>1 DEF NextHead, NextStart, Cut, NoSplit
<1>7. NextStart = Cut(0, 0)
  BY <1>1 DEF NextStart
<1>8. buffer # <<>> => Before(buffer[1], Cut(0, 0))
  <2> SUFFICES ASSUME buffer # <<>> PROVE Before(buffer[1], Cut(0, 0))
    OBVIOUS
  <2>1. 1 \in 1 .. Len(buffer)
    BY <1>0, HeadIsFirst DEF ChunkTypeOK
  <2>2. buffer[1].section = section /\ buffer[1].paragraph < paragraph
    BY <1>0, <2>1 DEF Waiting
  <2> QED BY <2>2 DEF Before, Cut
<1>9. InTextOrder'
  BY <1>1, <1>3, <1>6, <1>7, <1>8 DEF InTextOrder
<1>10. Splitting'
  BY <1>1, <1>2 DEF Splitting, InSection, Size
<1>11. Waiting' /\ Measured'
  BY <1>1, <1>2, <1>4 DEF Waiting, Measured, LengthOf, Largest
<1>12. Coverage'
  <2> SUFFICES ASSUME NEW s \in 1 .. Smaller(section', Len(document)), NEW p \in 1 .. Len(document[s])
               PROVE  PassedBy(s, p)' \in Nat /\ Passes(s, p)
    BY <1>0, <1>1, <1>3, CoverageKeeps
  <2>1. s \in 1 .. Smaller(section, Len(document)) /\ s \in 1 .. Len(document)
    BY <1>1, <1>2 DEF Smaller
  <2>2. document[s][p] \in Nat /\ p \in Int
    BY <1>0, <2>1, ChunkSizes
  <2>3. PassedBy(s, p)' = 0 \/ PassedBy(s, p)' = PassedBy(s, p)
    BY <1>1 DEF PassedBy, NoSplit
  <2>4. PassedBy(s, p)' \in Nat
    BY <1>1, <2>2 DEF PassedBy, NoSplit
  <2> QED BY <2>1, <2>3, <2>4 DEF Passes
<1> QED BY <1>3, <1>5, <1>9, <1>10, <1>11, <1>12 DEF ChunkInv

LEMMA EndSectionKeeps == ChunkInv /\ EndSection => ChunkInv'
<1> SUFFICES ASSUME ChunkInv, EndSection PROVE ChunkInv'
  OBVIOUS
<1>0. ChunkTypeOK /\ InTextOrder /\ Splitting /\ Waiting /\ Measured /\ PiecesSound /\ Coverage
  BY DEF ChunkInv
<1>1. /\ InSection /\ cursor = NoSplit /\ cursor' = cursor /\ paragraph > Len(document[section])
      /\ pieces' = Flushed /\ buffer' = <<>> /\ bufLen' = 0
      /\ setting' = setting /\ document' = document /\ section' = section + 1 /\ paragraph' = 1
  BY DEF EndSection
<1>2. /\ setting.overlap \in Nat /\ setting.budget \in Nat \ {0} /\ Largest \in Nat
      /\ Len(document) \in Nat /\ section \in Nat \ {0} /\ paragraph \in Nat \ {0}
      /\ section <= Len(document)
  BY <1>0, <1>1, ChunkSizes DEF InSection
<1>3. /\ pieces' \in Seq(Seq(Span)) /\ PiecesSound' /\ AllSpans \subseteq AllSpans'
      /\ setting.overlap < setting.budget => Ordered(pieces')
      /\ \A x : setting.overlap < setting.budget
                /\ (buffer = <<>> => \A h \in Span : Before(h, NextStart) => Before(h, x))
                /\ (buffer # <<>> => Before(buffer[1], x))
                => Follows(pieces', x)
  BY <1>1, Flushing
<1>4. Len(buffer') = 0 /\ buffer' \in Seq(Span)
  BY <1>1
<1>5. ChunkTypeOK'
  BY <1>0, <1>1, <1>2, <1>3, <1>4 DEF ChunkTypeOK
<1>6. PICK x : x = NextStart' /\ x.section = section + 1
  <2>1. NextStart' = [section |-> section + 1, paragraph |-> 1, from |-> 0, to |-> 0, at |-> 0]
    BY <1>1 DEF NextStart, Cut
  <2>2. NextStart'.section = section + 1
    BY <2>1
  <2> QED BY <2>2
<1>7. NextHead' = x
  BY <1>1, <1>6 DEF NextHead
<1>8. ASSUME NEW h \in Span, Before(h, NextStart) PROVE Before(h, x)
  <2>1. h.section \in Nat /\ NextStart.section = section
    BY DEF Span, NextStart, Cut
  <2>2. h.section <= section
    BY <1>2, <1>8, <2>1 DEF Before
  <2> QED BY <1>2, <1>6, <2>1, <2>2 DEF Before
<1>9. buffer # <<>> => Before(buffer[1], x)
  <2> SUFFICES ASSUME buffer # <<>> PROVE Before(buffer[1], x)
    OBVIOUS
  <2>1. 1 \in 1 .. Len(buffer)
    BY <1>0, HeadIsFirst DEF ChunkTypeOK
  <2>2. buffer[1].section = section
    BY <1>0, <2>1 DEF Waiting
  <2> QED BY <1>2, <1>6, <2>2 DEF Before
<1>10. InTextOrder'
  BY <1>1, <1>3, <1>7, <1>8, <1>9 DEF InTextOrder
<1>11. Splitting' /\ Waiting' /\ Measured'
  BY <1>1, <1>2, <1>4 DEF Splitting, Waiting, Measured, LengthOf, Largest
<1>12. Coverage'
  <2> SUFFICES ASSUME NEW s \in 1 .. Smaller(section', Len(document)), NEW p \in 1 .. Len(document[s])
               PROVE  PassedBy(s, p)' \in Nat /\ Passes(s, p)
    BY <1>0, <1>1, <1>3, CoverageKeeps
  <2>1. s \in 1 .. Len(document) /\ s <= section + 1
    BY <1>1, <1>2 DEF Smaller
  <2>2. document[s][p] \in Nat /\ p \in Int /\ Len(document[s]) \in Nat
    BY <1>0, <2>1, ChunkSizes
  <2>3. PassedBy(s, p)' \in Nat
    BY <1>1, <2>2 DEF PassedBy
  <2>4. CASE s = section + 1
    <3>1. ~(s < section + 1) /\ ~(p < 1)
      BY <1>2, <2>2, <2>4
    <3>2. PassedBy(s, p)' = 0
      BY <1>1, <3>1 DEF PassedBy
    <3> QED BY <2>3, <3>2 DEF Passes
  <2>5. CASE s <= section
    <3>1. s \in 1 .. Smaller(section, Len(document)) /\ s < section + 1
      BY <1>2, <2>1, <2>5 DEF Smaller
    <3>2. s < section \/ p < paragraph
      BY <1>1, <1>2, <2>1, <2>2, <2>5
    <3>3. PassedBy(s, p)' = PassedBy(s, p)
      BY <1>1, <3>1, <3>2 DEF PassedBy
    <3> QED BY <2>3, <3>1, <3>3 DEF Passes
  <2> QED BY <1>2, <2>1, <2>4, <2>5
<1> QED BY <1>3, <1>5, <1>10, <1>11, <1>12 DEF ChunkInv

\* The paragraph goes behind what waits.
LEMMA PackKeeps == ChunkInv /\ Pack => ChunkInv'
<1> SUFFICES ASSUME ChunkInv, Pack PROVE ChunkInv'
  OBVIOUS
<1>0. ChunkTypeOK /\ InTextOrder /\ Splitting /\ Waiting /\ Measured /\ PiecesSound /\ Coverage
  BY DEF ChunkInv
<1>1. /\ InSection /\ cursor = NoSplit /\ cursor' = cursor /\ paragraph <= Len(document[section])
      /\ Size <= setting.budget /\ Fits
      /\ bufLen' = bufLen + Size + IF bufLen > 0 THEN Separator ELSE 0
      /\ setting' = setting /\ document' = document /\ section' = section
      /\ paragraph' = paragraph + 1 /\ pieces' = pieces
  BY DEF Pack, InParagraph
<1>2. /\ setting.overlap \in Nat /\ setting.budget \in Nat \ {0} /\ Largest \in Nat
      /\ Size \in Nat \ {0} /\ Len(document) \in Nat /\ section \in Nat \ {0} /\ paragraph \in Nat \ {0}
      /\ section <= Len(document) /\ buffer \in Seq(Span) /\ bufLen \in Nat
      /\ pieces \in Seq(Seq(Span))
  BY <1>0, <1>1, ChunkSizes, SizeIs DEF InSection, ChunkTypeOK
<1>3. /\ Whole \in Span /\ Whole.at = 0 /\ Whole.section = section /\ Whole.paragraph = paragraph
      /\ Whole.from = 0 /\ Whole.to = Size
  BY <1>0, <1>2, CutIs DEF Whole
<1>4. LengthOf(buffer) \in Nat /\ LengthOf(buffer) = bufLen
  BY <1>0, <1>2 DEF Measured
<1>5. PICK t : t = buffer' /\ t = Joined(buffer, Whole)
  BY DEF Pack
<1>6. /\ t \in Seq(Span) /\ Len(t) = Len(buffer) + 1 /\ t # <<>> /\ Len(buffer) \in Nat
      /\ \A i \in 1 .. Len(buffer) : t[i] = buffer[i]
      /\ LengthOf(t) = (IF buffer = <<>> THEN 0 ELSE LengthOf(buffer) + Separator) + Extent(Whole)
      /\ \E y \in Span :
           /\ t = Append(buffer, y) /\ t[Len(buffer) + 1] = y
           /\ y.section = Whole.section /\ y.paragraph = Whole.paragraph
           /\ y.from = Whole.from /\ y.to = Whole.to
  BY <1>2, <1>3, <1>4, <1>5, JoinedIs
<1>7. PICK y \in Span :
        /\ t = Append(buffer, y) /\ t[Len(buffer) + 1] = y
        /\ y.section = section /\ y.paragraph = paragraph /\ y.from = 0 /\ y.to = Size
  BY <1>3, <1>6
<1>8. ToSet(t) = ToSet(buffer) \cup {y}
  <2>1. OneMore(buffer, y, t)
    BY <1>2, <1>7, Longer
  <2> QED BY <2>1 DEF OneMore
<1>9. AllSpans \subseteq AllSpans' /\ y \in AllSpans'
  <2>1. \A piece \in ToSet(pieces) \cup {buffer} :
           \E q \in ToSet(pieces') \cup {buffer'} : ToSet(piece) \subseteq ToSet(q)
    BY <1>1, <1>5, <1>8
  <2>2. AllSpans \subseteq AllSpans'
    BY <2>1, SpansStay
  <2> QED BY <1>5, <1>8, <2>2 DEF AllSpans
<1>10. bufLen' = LengthOf(t) /\ bufLen' \in Nat /\ bufLen' <= Largest
  <2>1. Extent(Whole) = Size
    BY <1>2, <1>3 DEF Extent
  <2>2. CASE buffer = <<>>
    <3>1. bufLen = 0
      BY <1>4, <2>2 DEF LengthOf
    <3> QED BY <1>1, <1>2, <1>6, <2>1, <2>2, <3>1 DEF Largest, Separator
  <2>3. CASE buffer # <<>>
    <3>1. bufLen > 0
      <4>1. Len(buffer) \in 1 .. Len(buffer)
        BY <1>2, <2>3, EmptySeq
      <4>2. PICK l \in Span : l = buffer[Len(buffer)] /\ l.from < l.to
        BY <1>0, <1>2, <4>1, ElementOfSeq DEF Measured
      <4>3. LengthOf(buffer) = l.at + (l.to - l.from)
        BY <2>3, <4>2 DEF LengthOf, Last, Extent
      <4> QED BY <1>4, <4>2, <4>3 DEF Span
    <3>2. bufLen + Size + Separator <= setting.budget
      BY <1>1, <2>3 DEF Fits
    <3> QED BY <1>1, <1>2, <1>4, <1>6, <2>1, <2>3, <3>1, <3>2 DEF Largest, Separator
  <2> QED BY <2>2, <2>3
<1>11. ChunkTypeOK'
  BY <1>0, <1>1, <1>2, <1>5, <1>6, <1>10 DEF ChunkTypeOK
<1>12. \A i \in 1 .. Len(t) : i \in 1 .. Len(buffer) \/ (i = Len(buffer) + 1 /\ t[i] = y)
  BY <1>6, <1>7
<1>13. Waiting'
  <2>1. ASSUME NEW i \in 1 .. Len(t)
        PROVE  t[i].section = section /\ t[i].paragraph < paragraph + 1
    <3>1. CASE i \in 1 .. Len(buffer)
      <4>1. t[i] = buffer[i] /\ buffer[i] \in Span
        BY <1>2, <1>6, <3>1, ElementOfSeq
      <4>2. buffer[i].section = section /\ buffer[i].paragraph < paragraph
        BY <1>0, <3>1 DEF Waiting
      <4> QED BY <1>2, <4>1, <4>2 DEF Span
    <3>2. CASE i = Len(buffer) + 1 /\ t[i] = y
      BY <1>2, <1>7, <3>2
    <3> QED BY <1>12, <3>1, <3>2
  <2>2. ASSUME NEW i \in 1 .. Len(t), NEW j \in 1 .. Len(t), i < j
        PROVE  t[i].paragraph < t[j].paragraph
    <3>1. i \in 1 .. Len(buffer) /\ t[i] = buffer[i]
      BY <1>6, <2>2
    <3>2. CASE j \in 1 .. Len(buffer)
      BY <1>0, <1>6, <2>2, <3>1, <3>2 DEF Waiting
    <3>3. CASE j = Len(buffer) + 1 /\ t[j] = y
      BY <1>0, <1>7, <3>1, <3>3 DEF Waiting
    <3> QED BY <1>12, <3>2, <3>3
  <2> QED BY <1>1, <1>5, <2>1, <2>2 DEF Waiting
<1>14. Measured'
  <2>1. ASSUME NEW i \in 1 .. Len(t) PROVE t[i].from < t[i].to
    BY <1>0, <1>2, <1>6, <1>7, <1>12 DEF Measured
  <2> QED BY <1>1, <1>5, <1>10, <2>1 DEF Measured, Largest
<1>15. PiecesSound' /\ Splitting'
  BY <1>0, <1>1 DEF PiecesSound, Sound, Largest, Splitting
<1>16. InTextOrder'
  <2>1. \A h : Before(h, NextHead) => Before(h, t[1])
    <3>1. CASE buffer = <<>>
      <4>1. Len(buffer) = 0
        BY <3>1
      <4>2. t[1] = y
        BY <1>7, <4>1
      <4>3. NextHead.section = section /\ NextHead.paragraph = paragraph /\ NextHead.from = 0
        BY <1>1, <3>1 DEF NextHead, NextStart, Cut
      <4> QED BY <1>7, <4>2, <4>3 DEF Before
    <3>2. CASE buffer # <<>>
      BY <1>2, <1>6, <3>2, HeadIsFirst DEF NextHead
    <3> QED BY <3>1, <3>2
  <2>2. NextHead' = t[1]
    BY <1>5, <1>6 DEF NextHead
  <2> QED BY <1>0, <1>1, <2>1, <2>2 DEF InTextOrder, Follows
<1>17. Coverage'
  <2> SUFFICES ASSUME NEW s \in 1 .. Smaller(section', Len(document)), NEW p \in 1 .. Len(document[s])
               PROVE  PassedBy(s, p)' \in Nat /\ Passes(s, p)
    BY <1>0, <1>1, <1>9, CoverageKeeps
  <2>1. /\ s \in 1 .. Smaller(section, Len(document)) /\ s \in 1 .. Len(document) /\ s <= section
    BY <1>1, <1>2 DEF Smaller
  <2>2. document[s][p] \in Nat /\ p \in Int /\ Len(document[s]) \in Nat
    BY <1>0, <2>1, ChunkSizes
  <2>3. PassedBy(s, p)' \in Nat
    BY <1>1, <2>2 DEF PassedBy
  <2>4. CASE s = section /\ p = paragraph
    <3>1. PassedBy(s, p) = 0
      BY <1>1, <1>2, <2>4 DEF PassedBy
    <3>2. PassedBy(s, p)' = Size
      BY <1>1, <1>2, <2>4 DEF PassedBy, Size
    <3> QED BY <1>2, <1>7, <1>9, <2>1, <2>3, <2>4, <3>1, <3>2 DEF Passes
  <2>5. CASE s = section /\ p > paragraph
    <3>1. ~(s < section) /\ ~(p < paragraph + 1)
      BY <1>2, <2>2, <2>5
    <3>2. PassedBy(s, p)' = 0
      BY <1>1, <3>1 DEF PassedBy
    <3> QED BY <2>3, <3>2 DEF Passes
  <2>6. CASE s < section \/ p < paragraph
    <3>1. s < section \/ p < paragraph + 1
      BY <1>2, <2>2, <2>6
    <3>2. PassedBy(s, p)' = PassedBy(s, p)
      BY <1>1, <2>6, <3>1 DEF PassedBy
    <3> QED BY <2>1, <2>3, <3>2 DEF Passes
  <2> QED BY <1>2, <2>1, <2>2, <2>4, <2>5, <2>6
<1> QED BY <1>1, <1>11, <1>13, <1>14, <1>15, <1>16, <1>17 DEF ChunkInv

\* The end of what was just cut, or nothing.
LEMMA SeedIs ==
  ASSUME ChunkInv, buffer # <<>>
  PROVE  \/ Seed = <<>>
         \/ \E l, x \in Span :
              /\ Seed = <<x>> /\ l = buffer[Len(buffer)] /\ setting.overlap > 0
              /\ x.section = section /\ x.paragraph = l.paragraph /\ x.paragraph < paragraph
              /\ x.at = 0 /\ x.from > l.from /\ x.to = l.to /\ x.to - x.from = setting.overlap
<1>0. ChunkTypeOK /\ Waiting /\ buffer \in Seq(Span)
  BY DEF ChunkInv, ChunkTypeOK
<1>1. setting.overlap \in Nat
  BY <1>0, ChunkSizes
<1>2. Len(buffer) \in 1 .. Len(buffer)
  BY <1>0, EmptySeq
<1>3. PICK l \in Span : l = buffer[Len(buffer)] /\ l.section = section /\ l.paragraph < paragraph
  BY <1>0, <1>2, ElementOfSeq DEF Waiting
<1>4. Last(buffer) = l
  BY <1>3 DEF Last
<1>5. SUFFICES ASSUME Seed # <<>>
      PROVE \E x \in Span :
              /\ Seed = <<x>> /\ setting.overlap > 0
              /\ x.section = section /\ x.paragraph = l.paragraph /\ x.paragraph < paragraph
              /\ x.at = 0 /\ x.from > l.from /\ x.to = l.to /\ x.to - x.from = setting.overlap
  BY <1>3
<1>6. setting.overlap > 0 /\ Extent(l) > setting.overlap
  BY <1>4, <1>5 DEF Seed
<1>7. PICK f : f = l.to - setting.overlap
  OBVIOUS
<1>8. l.from \in Nat /\ l.to \in Nat
  BY DEF Span
<1>9. f \in Nat /\ f > l.from /\ l.to - f = setting.overlap
  BY <1>1, <1>6, <1>7, <1>8 DEF Extent
<1>10. PICK x : x = [l EXCEPT !.from = f, !.at = 0]
  OBVIOUS
<1>11. /\ x \in Span /\ x.section = l.section /\ x.paragraph = l.paragraph /\ x.at = 0
       /\ x.from = f /\ x.to = l.to
  BY <1>9, <1>10 DEF Span
<1>12. Seed = <<x>>
  BY <1>4, <1>6, <1>7, <1>10 DEF Seed
<1> QED BY <1>3, <1>6, <1>9, <1>11, <1>12

\* What waits is cut, and the paragraph begins another piece behind its seed.
LEMMA OverflowKeeps == ChunkInv /\ Overflow => ChunkInv'
<1> SUFFICES ASSUME ChunkInv, Overflow PROVE ChunkInv'
  OBVIOUS
<1>0. ChunkTypeOK /\ InTextOrder /\ Splitting /\ Waiting /\ Measured /\ PiecesSound /\ Coverage
  BY DEF ChunkInv
<1>1. /\ InSection /\ cursor = NoSplit /\ cursor' = cursor /\ paragraph <= Len(document[section])
      /\ Size <= setting.budget /\ buffer # <<>>
      /\ bufLen' = IF Seed = <<>> THEN Size ELSE setting.overlap + Size + Separator
      /\ setting' = setting /\ document' = document /\ section' = section
      /\ paragraph' = paragraph + 1 /\ pieces' = Append(pieces, buffer)
  BY DEF Overflow, InParagraph, Fits
<1>2. /\ setting.overlap \in Nat /\ setting.budget \in Nat \ {0} /\ Largest \in Nat
      /\ Size \in Nat \ {0} /\ Len(document) \in Nat /\ section \in Nat \ {0} /\ paragraph \in Nat \ {0}
      /\ section <= Len(document) /\ buffer \in Seq(Span) /\ bufLen \in Nat
      /\ pieces \in Seq(Seq(Span))
  BY <1>0, <1>1, ChunkSizes, SizeIs DEF InSection, ChunkTypeOK
<1>3. /\ Whole \in Span /\ Whole.at = 0 /\ Whole.section = section /\ Whole.paragraph = paragraph
      /\ Whole.from = 0 /\ Whole.to = Size
  BY <1>0, <1>2, CutIs DEF Whole
<1>4. PICK s : s = Seed
  OBVIOUS
<1>5. \/ s = <<>>
      \/ \E l, x \in Span :
           /\ s = <<x>> /\ l = buffer[Len(buffer)] /\ setting.overlap > 0
           /\ x.section = section /\ x.paragraph = l.paragraph /\ x.paragraph < paragraph
           /\ x.at = 0 /\ x.from > l.from /\ x.to = l.to /\ x.to - x.from = setting.overlap
  BY <1>1, <1>4, SeedIs
<1>6. /\ s \in Seq(Span) /\ LengthOf(s) = (IF s = <<>> THEN 0 ELSE setting.overlap)
      /\ \A i \in 1 .. Len(s) : /\ i = 1 /\ s[i].section = section /\ s[i].paragraph < paragraph
                                /\ s[i].from < s[i].to
  <2>1. CASE s = <<>>
    <3>1. s \in Seq(Span) /\ Len(s) = 0
      BY <2>1
    <3> QED BY <2>1, <3>1 DEF LengthOf
  <2>2. CASE s # <<>>
    <3>1. PICK x \in Span :
           /\ s = <<x>> /\ setting.overlap > 0
           /\ x.section = section /\ x.paragraph < paragraph
           /\ x.at = 0 /\ x.to - x.from = setting.overlap
      BY <1>5, <2>2
    <3>2. s \in Seq(Span) /\ Len(s) = 1 /\ s[1] = x
      BY <3>1
    <3>3. x.from < x.to
      BY <1>2, <3>1 DEF Span
    <3>4. Last(s) = x
      BY <3>2 DEF Last
    <3>5. LengthOf(s) = setting.overlap
      BY <1>2, <2>2, <3>1, <3>4 DEF LengthOf, Extent, Span
    <3>6. \A i \in 1 .. Len(s) : i = 1
      BY <3>2
    <3> QED BY <2>2, <3>1, <3>2, <3>3, <3>5, <3>6
  <2> QED BY <2>1, <2>2
<1>7. PICK t : t = buffer' /\ t = Joined(s, Whole)
  BY <1>4 DEF Overflow
<1>8. LengthOf(s) \in Nat
  BY <1>2, <1>6
<1>9. /\ t \in Seq(Span) /\ Len(t) = Len(s) + 1 /\ t # <<>> /\ Len(s) \in Nat
      /\ \A i \in 1 .. Len(s) : t[i] = s[i]
      /\ LengthOf(t) = (IF s = <<>> THEN 0 ELSE LengthOf(s) + Separator) + Extent(Whole)
      /\ \E y \in Span :
           /\ t = Append(s, y) /\ t[Len(s) + 1] = y
           /\ y.section = Whole.section /\ y.paragraph = Whole.paragraph
           /\ y.from = Whole.from /\ y.to = Whole.to
  BY <1>3, <1>6, <1>7, <1>8, JoinedIs
<1>10. PICK y \in Span :
        /\ t = Append(s, y) /\ t[Len(s) + 1] = y
        /\ y.section = section /\ y.paragraph = paragraph /\ y.from = 0 /\ y.to = Size
  BY <1>3, <1>9
<1>11. ToSet(t) = ToSet(s) \cup {y}
  <2>1. OneMore(s, y, t)
    BY <1>6, <1>10, Longer
  <2> QED BY <2>1 DEF OneMore
<1>12. /\ pieces' \in Seq(Seq(Span)) /\ PiecesSound'
       /\ ToSet(pieces') = ToSet(pieces) \cup {buffer}
       /\ Ordered(pieces) /\ Follows(pieces, Head(buffer)) => Ordered(pieces')
       /\ \A x : Before(Head(buffer), x) => Follows(pieces', x)
  BY <1>0, <1>1, <1>2, BufferIsSound, CutKeeps
<1>13. AllSpans \subseteq AllSpans' /\ y \in AllSpans'
  <2>1. \A piece \in ToSet(pieces) \cup {buffer} :
           \E q \in ToSet(pieces') \cup {buffer'} : ToSet(piece) \subseteq ToSet(q)
    BY <1>12
  <2>2. AllSpans \subseteq AllSpans'
    BY <2>1, SpansStay
  <2> QED BY <1>7, <1>11, <2>2 DEF AllSpans
<1>14. bufLen' = LengthOf(t) /\ bufLen' \in Nat /\ bufLen' <= Largest
  <2>1. Extent(Whole) = Size
    BY <1>2, <1>3 DEF Extent
  <2>2. CASE s = <<>>
    <3>1. bufLen' = Size /\ LengthOf(t) = Size
      BY <1>1, <1>2, <1>4, <1>9, <2>1, <2>2
    <3> QED BY <1>1, <1>2, <3>1 DEF Largest, Separator
  <2>3. CASE s # <<>>
    <3>1. bufLen' = setting.overlap + Size + Separator
      BY <1>1, <1>4, <2>3
    <3>2. LengthOf(t) = setting.overlap + Separator + Size
      BY <1>6, <1>9, <2>1, <2>3
    <3>3. setting.overlap \in Nat /\ setting.budget \in Nat /\ Size \in Nat /\ Size <= setting.budget
      BY <1>1, <1>2
    <3>4. bufLen' = LengthOf(t)
      BY <3>1, <3>2, <3>3 DEF Separator
    <3>5. bufLen' \in Nat
      BY <3>1, <3>3 DEF Separator
    <3>6. bufLen' <= Largest
      BY <3>1, <3>3 DEF Largest, Separator
    <3> QED BY <3>4, <3>5, <3>6
  <2> QED BY <2>2, <2>3
<1>15. ChunkTypeOK'
  BY <1>0, <1>1, <1>2, <1>7, <1>9, <1>12, <1>14 DEF ChunkTypeOK
<1>16. \A i \in 1 .. Len(t) : (i \in 1 .. Len(s) /\ t[i] = s[i]) \/ (i = Len(s) + 1 /\ t[i] = y)
  BY <1>9, <1>10
<1>17. ASSUME NEW i \in 1 .. Len(t)
       PROVE  t[i].section = section /\ t[i].paragraph < paragraph + 1 /\ t[i].from < t[i].to
  <2>1. CASE i \in 1 .. Len(s) /\ t[i] = s[i]
    <3>1. s[i].section = section /\ s[i].paragraph < paragraph /\ s[i].from < s[i].to /\ s[i] \in Span
      BY <1>6, <2>1, ElementOfSeq
    <3> QED BY <1>2, <2>1, <3>1 DEF Span
  <2>2. CASE i = Len(s) + 1 /\ t[i] = y
    BY <1>2, <1>10, <2>2
  <2> QED BY <1>16, <2>1, <2>2
<1>18. ASSUME NEW i \in 1 .. Len(t), NEW j \in 1 .. Len(t), i < j
       PROVE  t[i].paragraph < t[j].paragraph
  <2>1. i \in 1 .. Len(s) /\ t[i] = s[i]
    BY <1>9, <1>18
  <2>2. i = 1 /\ s[i].paragraph < paragraph
    BY <1>6, <2>1
  <2>3. ~(j \in 1 .. Len(s))
    BY <1>6, <1>18, <2>2
  <2> QED BY <1>10, <1>16, <2>1, <2>2, <2>3
<1>19. Waiting' /\ Measured'
  BY <1>1, <1>7, <1>14, <1>17, <1>18 DEF Waiting, Measured, Largest
<1>20. Splitting'
  BY <1>1 DEF Splitting
<1>21. InTextOrder'
  <2>1. Head(buffer) = buffer[1] /\ 1 \in 1 .. Len(buffer) /\ buffer[1] \in Span /\ Len(buffer) \in Nat
    BY <1>1, <1>2, HeadIsFirst, LenProperties
  <2>2. buffer[1].section = section /\ buffer[1].paragraph < paragraph
    BY <1>0, <2>1 DEF Waiting
  <2>3. Before(Head(buffer), t[1])
    <3>1. CASE s = <<>>
      <4>1. t[1] = y
        BY <1>10, <3>1
      <4> QED BY <1>10, <2>1, <2>2, <4>1 DEF Before
    <3>2. CASE s # <<>>
      <4>1. PICK l, x \in Span :
           /\ s = <<x>> /\ l = buffer[Len(buffer)]
           /\ x.section = section /\ x.paragraph = l.paragraph /\ x.from > l.from
        BY <1>5, <3>2
      <4>2. s[1] = x /\ 1 \in 1 .. Len(s)
        BY <4>1
      <4>3. t[1] = x
        BY <1>9, <4>2
      <4>4. CASE Len(buffer) = 1
        <5>1. l = buffer[1]
          BY <4>1, <4>4
        <5> QED BY <2>1, <2>2, <4>1, <4>3, <5>1 DEF Before, Span
      <4>5. CASE Len(buffer) # 1
        <5>1. 1 < Len(buffer) /\ Len(buffer) \in 1 .. Len(buffer)
          BY <2>1, <4>5
        <5>2. buffer[1].paragraph < l.paragraph
          BY <1>0, <2>1, <4>1, <5>1 DEF Waiting
        <5> QED BY <2>1, <2>2, <4>1, <4>3, <5>2 DEF Before
      <4> QED BY <4>4, <4>5
    <3> QED BY <3>1, <3>2
  <2>4. NextHead' = t[1]
    BY <1>7, <1>9 DEF NextHead
  <2>5. NextHead = Head(buffer)
    BY <1>1, <2>1 DEF NextHead
  <2> QED BY <1>0, <1>1, <1>12, <2>3, <2>4, <2>5 DEF InTextOrder
<1>22. Coverage'
  <2> SUFFICES ASSUME NEW q \in 1 .. Smaller(section', Len(document)), NEW p \in 1 .. Len(document[q])
               PROVE  PassedBy(q, p)' \in Nat /\ Passes(q, p)
    BY <1>0, <1>1, <1>13, CoverageKeeps
  <2>1. /\ q \in 1 .. Smaller(section, Len(document)) /\ q \in 1 .. Len(document) /\ q <= section
    BY <1>1, <1>2 DEF Smaller
  <2>2. document[q][p] \in Nat /\ p \in Int /\ Len(document[q]) \in Nat
    BY <1>0, <2>1, ChunkSizes
  <2>3. PassedBy(q, p)' \in Nat
    BY <1>1, <2>2 DEF PassedBy
  <2>4. CASE q = section /\ p = paragraph
    <3>1. PassedBy(q, p) = 0
      BY <1>1, <1>2, <2>4 DEF PassedBy
    <3>2. PassedBy(q, p)' = Size
      BY <1>1, <1>2, <2>4 DEF PassedBy, Size
    <3>3. /\ y.section = q /\ y.paragraph = p /\ y.from \in Nat /\ y.to \in Nat /\ PassedBy(q, p) \in Nat
          /\ y.from <= PassedBy(q, p) /\ PassedBy(q, p)' <= y.to
      BY <1>2, <1>10, <2>4, <3>1, <3>2
    <3>4. \E span \in AllSpans' :
             /\ span.section = q /\ span.paragraph = p
             /\ span.from \in Nat /\ span.to \in Nat /\ PassedBy(q, p) \in Nat
             /\ span.from <= PassedBy(q, p) /\ PassedBy(q, p)' <= span.to
      BY <1>13, <3>3, Zenon
    <3>5. Passes(q, p)
      BY <2>1, <3>4, Zenon DEF Passes
    <3> QED BY <2>3, <3>5
  <2>5. CASE q = section /\ p > paragraph
    <3>1. ~(q < section) /\ ~(p < paragraph + 1)
      BY <1>2, <2>2, <2>5
    <3>2. PassedBy(q, p)' = 0
      BY <1>1, <3>1 DEF PassedBy
    <3> QED BY <2>3, <3>2 DEF Passes
  <2>6. CASE q < section \/ p < paragraph
    <3>1. q < section \/ p < paragraph + 1
      BY <1>2, <2>2, <2>6
    <3>2. PassedBy(q, p)' = PassedBy(q, p)
      BY <1>1, <2>6, <3>1 DEF PassedBy
    <3> QED BY <2>1, <2>3, <3>2 DEF Passes
  <2> QED BY <1>2, <2>1, <2>2, <2>4, <2>5, <2>6
<1> QED BY <1>12, <1>15, <1>19, <1>20, <1>21, <1>22 DEF ChunkInv

\* A turn of the loop cuts what begins at the cursor.
LEMMA SplitKeeps == ChunkInv /\ SplitByChars => ChunkInv'
<1> SUFFICES ASSUME ChunkInv, SplitByChars PROVE ChunkInv'
  OBVIOUS
<1>0. ChunkTypeOK /\ InTextOrder /\ Splitting /\ Waiting /\ Measured /\ PiecesSound /\ Coverage
  BY DEF ChunkInv
<1>1. PICK end : /\ end = Smaller(Size, cursor + setting.budget)
                 /\ pieces' = Append(pieces, <<Cut(cursor, end)>>)
                 /\ IF end = Size
                      THEN cursor' = NoSplit /\ paragraph' = paragraph + 1
                      ELSE cursor' = NextCursor(end) /\ paragraph' = paragraph
  BY DEF SplitByChars
<1>2. /\ cursor # NoSplit /\ buffer = <<>> /\ InSection /\ paragraph <= Len(document[section])
      /\ cursor < Size
      /\ setting' = setting /\ document' = document /\ section' = section
      /\ buffer' = buffer /\ bufLen' = bufLen
  BY <1>0 DEF SplitByChars, Splitting
<1>3. /\ setting.overlap \in Nat /\ setting.budget \in Nat \ {0} /\ Largest \in Nat
      /\ Size \in Nat \ {0} /\ Len(document) \in Nat /\ section \in Nat \ {0} /\ paragraph \in Nat \ {0}
      /\ section <= Len(document) /\ cursor \in Nat /\ pieces \in Seq(Seq(Span))
  BY <1>0, <1>2, ChunkSizes, SizeIs DEF InSection, ChunkTypeOK
<1>4. end \in Nat /\ cursor < end /\ end <= Size /\ end - cursor <= setting.budget
      /\ (end # Size => end = cursor + setting.budget /\ end < Size)
  BY <1>1, <1>2, <1>3 DEF Smaller
<1>5. PICK y \in Span : /\ y = Cut(cursor, end) /\ y.at = 0 /\ y.section = section
                        /\ y.paragraph = paragraph /\ y.from = cursor /\ y.to = end
  BY <1>0, <1>3, <1>4, CutIs
<1>6. PICK piece : piece = <<y>>
  OBVIOUS
<1>7. piece \in Seq(Span) /\ Len(piece) = 1 /\ piece[1] = y /\ piece # <<>> /\ pieces' = Append(pieces, piece)
  BY <1>1, <1>5, <1>6
<1>8. Last(piece) = y /\ Head(piece) = y
  BY <1>7, HeadIsFirst DEF Last
<1>9. Sound(piece)
  <2>1. LengthOf(piece) = end - cursor
    BY <1>3, <1>4, <1>5, <1>7, <1>8 DEF LengthOf, Extent
  <2>2. LengthOf(piece) <= Largest
    BY <1>3, <1>4, <2>1 DEF Largest, Separator
  <2>3. \A i, j \in 1 .. Len(piece) : i = j
    BY <1>7
  <2> QED BY <1>7, <2>2, <2>3 DEF Sound
<1>10. /\ pieces' \in Seq(Seq(Span)) /\ PiecesSound'
       /\ ToSet(pieces') = ToSet(pieces) \cup {piece}
       /\ Ordered(pieces) /\ Follows(pieces, Head(piece)) => Ordered(pieces')
       /\ \A x : Before(Head(piece), x) => Follows(pieces', x)
  BY <1>0, <1>2, <1>3, <1>7, <1>9, CutKeeps
<1>11. AllSpans \subseteq AllSpans' /\ y \in AllSpans'
  <2>1. \A q \in ToSet(pieces) \cup {buffer} :
           \E r \in ToSet(pieces') \cup {buffer'} : ToSet(q) \subseteq ToSet(r)
    BY <1>2, <1>10
  <2>2. AllSpans \subseteq AllSpans'
    BY <2>1, SpansStay
  <2>3. y \in ToSet(piece)
    BY <1>6 DEF ToSet
  <2> QED BY <1>10, <2>2, <2>3 DEF AllSpans
<1>12. end # Size =>
         /\ cursor' \in Nat /\ cursor' <= end /\ cursor' # NoSplit
         /\ (setting.overlap < setting.budget => cursor < cursor')
  BY <1>1, <1>3, <1>4 DEF NextCursor, NoSplit
<1>13. ChunkTypeOK'
  BY <1>0, <1>1, <1>2, <1>3, <1>10, <1>12 DEF ChunkTypeOK
<1>14. Splitting'
  BY <1>1, <1>2, <1>3, <1>4, <1>12 DEF Splitting, InSection, Size
<1>15. Waiting' /\ Measured'
  <2>1. Len(buffer) = 0
    BY <1>2
  <2> QED BY <1>0, <1>2, <2>1 DEF Waiting, Measured, Largest
<1>16. InTextOrder'
  <2>1. NextHead.section = y.section /\ NextHead.paragraph = y.paragraph /\ NextHead.from = y.from
    BY <1>2, <1>5 DEF NextHead, NextStart, Cut
  <2>2. \A h : Before(h, NextHead) => Before(h, Head(piece))
    BY <1>8, <2>1 DEF Before
  <2>3. ASSUME setting.overlap < setting.budget PROVE Before(Head(piece), NextHead')
    <3>1. NextHead' = [section |-> section, paragraph |-> paragraph',
                    from |-> IF cursor' = NoSplit THEN 0 ELSE cursor', to |-> 0, at |-> 0]
      BY <1>2 DEF NextHead, NextStart, Cut
    <3>2. /\ NextHead'.section = section /\ NextHead'.paragraph = paragraph'
          /\ NextHead'.from = IF cursor' = NoSplit THEN 0 ELSE cursor'
      BY <3>1
    <3> QED BY <1>1, <1>3, <1>5, <1>8, <1>12, <2>3, <3>2 DEF Before
  <2> QED BY <1>0, <1>2, <1>10, <2>2, <2>3 DEF InTextOrder, Follows
<1>17. Coverage'
  <2> SUFFICES ASSUME NEW q \in 1 .. Smaller(section', Len(document)), NEW p \in 1 .. Len(document[q])
               PROVE  PassedBy(q, p)' \in Nat /\ Passes(q, p)
    BY <1>0, <1>2, <1>11, CoverageKeeps
  <2>1. /\ q \in 1 .. Smaller(section, Len(document)) /\ q \in 1 .. Len(document) /\ q <= section
    BY <1>2, <1>3 DEF Smaller
  <2>2. document[q][p] \in Nat /\ p \in Int /\ Len(document[q]) \in Nat
    BY <1>0, <2>1, ChunkSizes
  <2>3. PassedBy(q, p)' \in Nat
    BY <1>1, <1>2, <1>12, <2>2 DEF PassedBy
  <2>4. CASE q = section /\ p = paragraph
    <3>1. PassedBy(q, p) = cursor
      BY <1>2, <1>3, <2>4 DEF PassedBy
    <3>2. PassedBy(q, p)' <= end
      BY <1>1, <1>2, <1>3, <1>4, <1>12, <2>4 DEF PassedBy, Size
    <3>3. /\ y.section = q /\ y.paragraph = p /\ y.from \in Nat /\ y.to \in Nat /\ PassedBy(q, p) \in Nat
          /\ y.from <= PassedBy(q, p) /\ PassedBy(q, p)' <= y.to
      BY <1>3, <1>4, <1>5, <2>4, <3>1, <3>2
    <3>4. \E span \in AllSpans' :
             /\ span.section = q /\ span.paragraph = p
             /\ span.from \in Nat /\ span.to \in Nat /\ PassedBy(q, p) \in Nat
             /\ span.from <= PassedBy(q, p) /\ PassedBy(q, p)' <= span.to
      BY <1>11, <3>3, Zenon
    <3>5. Passes(q, p)
      BY <2>1, <3>4, Zenon DEF Passes
    <3> QED BY <2>3, <3>5
  <2>5. CASE q = section /\ p > paragraph
    <3>1. ~(q < section) /\ ~(p < paragraph + 1) /\ ~(p < paragraph) /\ p # paragraph
      BY <1>3, <2>2, <2>5
    <3>2. PassedBy(q, p)' = 0
      BY <1>1, <1>2, <3>1 DEF PassedBy
    <3> QED BY <2>3, <3>2 DEF Passes
  <2>6. CASE q < section \/ p < paragraph
    <3>1. q < section \/ (p < paragraph + 1 /\ p < paragraph)
      BY <1>3, <2>2, <2>6
    <3>2. PassedBy(q, p)' = PassedBy(q, p)
      BY <1>1, <1>2, <2>6, <3>1 DEF PassedBy
    <3> QED BY <2>1, <2>3, <3>2 DEF Passes
  <2> QED BY <1>3, <2>1, <2>2, <2>4, <2>5, <2>6
<1> QED BY <1>10, <1>13, <1>14, <1>15, <1>16, <1>17 DEF ChunkInv

-----------------------------------------------------------------------------
(* The theorems.                                                             *)

\* The invariant, for every text and every budget and overlap.
THEOREM ChunkInvHolds == ChunkSpec => []ChunkInv
<1>1. ChunkInv /\ [ChunkNext]_chunkVars => ChunkInv'
  <2> SUFFICES ASSUME ChunkInv, [ChunkNext]_chunkVars PROVE ChunkInv'
    OBVIOUS
  <2>1. CASE UNCHANGED chunkVars
    <3>1. /\ UNCHANGED <<setting, document, section, paragraph, cursor, buffer, bufLen, pieces>>
          /\ ChunkTypeOK /\ InTextOrder /\ Splitting /\ Waiting /\ Measured /\ PiecesSound /\ Coverage
      BY <2>1 DEF chunkVars, ChunkInv
    <3>2. ChunkTypeOK' /\ Splitting'
      BY <3>1 DEF ChunkTypeOK, Splitting, InSection, Size
    <3>3. InTextOrder'
      BY <3>1 DEF InTextOrder, Follows, NextHead, NextStart, Cut
    <3>4. Waiting' /\ Measured' /\ PiecesSound'
      BY <3>1 DEF Waiting, Measured, PiecesSound, Sound, Largest
    <3>5. \A s, p : PassedBy(s, p)' = PassedBy(s, p) /\ Covered(s, p)' = Covered(s, p)
      BY <3>1 DEF PassedBy, Covered
    <3>6. Coverage'
      BY <3>1, <3>5 DEF Coverage
    <3> QED BY <3>2, <3>3, <3>4, <3>6 DEF ChunkInv
  <2> QED BY <2>1, BeginSplitKeeps, OverflowKeeps, PackKeeps, EndSectionKeeps, SplitKeeps DEF ChunkNext
<1> QED BY ChunkingStarts, <1>1, PTL DEF ChunkSpec

\* Each variable of the chunker has its type.
THEOREM ChunkTypeCorrect == ChunkSpec => []ChunkTypeOK
<1>1. ChunkInv => ChunkTypeOK
  BY DEF ChunkInv
<1> QED BY <1>1, ChunkInvHolds, PTL

\* ParagraphChunker passes no character that it has not cut, in order, and cuts
\* no piece above the budget, an overlap and a blank line.
THEOREM TextCovered == ChunkSpec => []TextIsCovered
<1>1. ChunkInv => TextIsCovered
  <2> SUFFICES ASSUME ChunkInv, setting.overlap < setting.budget
               PROVE  /\ Ordered(pieces) /\ Coverage
                      /\ \A piece \in ToSet(pieces) :
                           /\ LengthOf(piece) <= Largest
                           /\ \A a, b \in ToSet(piece) : a.section = b.section
    BY DEF TextIsCovered, Ordered, Coverage, PassedBy, Largest
  <2>1. Ordered(pieces) /\ Coverage /\ PiecesSound /\ pieces \in Seq(Seq(Span))
    BY DEF ChunkInv, InTextOrder, ChunkTypeOK
  <2>2. ASSUME NEW piece \in ToSet(pieces)
        PROVE  /\ LengthOf(piece) <= Largest
               /\ \A a, b \in ToSet(piece) : a.section = b.section
    <3>1. PICK k \in 1 .. Len(pieces) : piece = pieces[k]
      BY <2>1, LenProperties DEF ToSet
    <3>2. Sound(piece) /\ piece \in Seq(Span)
      BY <2>1, <3>1, ElementOfSeq DEF PiecesSound
    <3>3. DOMAIN piece = 1 .. Len(piece)
      BY <3>2, LenProperties
    <3> QED BY <3>2, <3>3 DEF Sound, ToSet
  <2> QED BY <2>1, <2>2
<1> QED BY <1>1, ChunkInvHolds, PTL

-----------------------------------------------------------------------------
(* The six services in one run.                                              *)

\* A step of one service leaves the variables of the others as they are, so a
\* behaviour of the instance is one of each service.
THEOREM BehavesAsEach ==
  SpecOfAll => /\ Init /\ [][Next]_rlmVars
               /\ RequestSpec /\ WorkspaceSpec /\ SearchSpec /\ TalkSpec /\ ChunkSpec
<1>1. InitAll => Init /\ RequestInit /\ WorkspaceInit /\ SearchInit /\ TalkInit /\ ChunkInit
  BY DEF InitAll
<1>2. [NextAll]_vars => /\ [Next]_rlmVars /\ [RequestNext]_agentVars /\ [WorkspaceNext]_workspaceVars
                        /\ [SearchNext]_searchVars /\ [TalkNext]_talkVars /\ [ChunkNext]_chunkVars
  BY DEF NextAll, vars
<1> QED BY <1>1, <1>2, PTL DEF SpecOfAll, RequestSpec, WorkspaceSpec, SearchSpec, TalkSpec, ChunkSpec

\* Each variable of each service has its type in the instance.
THEOREM TypesCorrect == SpecOfAll => []TypesOfAll
<1>1. TypeOK /\ RequestTypeOK /\ WorkspaceTypeOK /\ SearchTypeOK /\ TalkTypeOK /\ ChunkTypeOK => TypesOfAll
  BY DEF TypesOfAll
<1> QED BY <1>1, BehavesAsEach, InvHolds, InvTypes, RequestTypeCorrect, WorkspaceTypeCorrect,
      SearchTypeCorrect, TalkTypeCorrect, ChunkTypeCorrect, PTL
===============================================================================
