---------------------------- MODULE SourceIntake ----------------------------
(***************************************************************************)
(* Source intake: IntakeService.submit, replace and remove over            *)
(* canon_sources, the object store, canon_chunks and the vector table.     *)
(* These are four stores without a common transaction, so a request is one *)
(* step per store, and the steps of concurrent requests interleave.        *)
(*                                                                         *)
(* The chunks one request emits are one element, an emission: they are     *)
(* inserted, indexed and deleted together, and their ids are never used    *)
(* again.  Normalising, PII policy, metadata, embedding and the events     *)
(* that go out change no state here; when one of them raises, the call     *)
(* dies.  A replacement is taken to keep the extension of the file name,   *)
(* which is a part of the original's key.  A definition whose name ends in *)
(* Mutant is the one that follows it with a plausible bug.                 *)
(***************************************************************************)
EXTENDS Integers, FiniteSets

CONSTANTS
  Sources,      \* the ids uuid4 hands out (a bound: there are always more)
  Contents,     \* what can be submitted; equal contents have equal SHA-256
  Calls,        \* the requests in flight at any time
  None,         \* no source, no content
  MaxRequests,  \* bound: requests that arrive
  MaxFaults     \* bound: calls that die half-way, object stores that refuse

ASSUME NoneAssumption == None \notin Sources /\ None \notin Contents
ASSUME BoundAssumption == MaxRequests \in Nat /\ MaxFaults \in Nat

VARIABLES
  row,        \* canon_sources
  object,     \* the object store, by the source the key is made of
  chunks,     \* canon_chunks, by emission
  vectors,    \* canon_chunk_vectors, by emission
  pc, request, \* where each call is, and what it was asked
  mine,       \* the row a call holds in memory
  seen,       \* the row its merge read
  doomed,     \* the chunks its DELETE or its listing found
  used,       \* the ids handed out
  answers,    \* history: the sources that submits were answered with
  removed,    \* history: the sources whose row was deleted
  entangled,  \* history: sources replaced, or worked on by two calls at once
  arrived,    \* requests that have arrived so far
  faults      \* faults so far

stores  == <<row, object, chunks, vectors>>
calls   == <<pc, request, mine, seen, doomed>>
history == <<used, answers, removed, entangled, arrived>>
vars    == <<stores, calls, history, faults>>

Row == [status: {"absent", "ingested", "failed"}, content: Contents \cup {None}, key: BOOLEAN]
NoRow == [status |-> "absent", content |-> None, key |-> FALSE]

Emission == [source: Sources, content: Contents, by: Nat]

Request ==
  [op: {"none", "submit", "replace", "remove"}, source: Sources \cup {None},
   content: Contents \cup {None}, by: Nat]
NoRequest == [op |-> "none", source |-> None, content |-> None, by |-> 0]

Places ==
  {"idle", "lookup", "add_failed", "store", "insert", "relookup", "merge_read", "merge_write",
   "clear", "fill", "index", "answer", "list", "unindex", "drop", "erase", "delete_read",
   "delete"}

TypeOK ==
  /\ row \in [Sources -> Row]
  /\ object \in [Sources -> Contents \cup {None}]
  /\ chunks \subseteq Emission /\ vectors \subseteq Emission
  /\ pc \in [Calls -> Places]
  /\ request \in [Calls -> Request]
  /\ mine \in [Calls -> Row] /\ seen \in [Calls -> Row]
  /\ doomed \in [Calls -> SUBSET Emission]
  /\ used \subseteq Sources /\ removed \subseteq Sources /\ entangled \subseteq Sources
  /\ answers \subseteq [content: Contents, source: Sources]
  /\ arrived \in Nat /\ faults \in Nat

Init ==
  /\ row = [s \in Sources |-> NoRow]
  /\ object = [s \in Sources |-> None]
  /\ chunks = {} /\ vectors = {}
  /\ pc = [k \in Calls |-> "idle"]
  /\ request = [k \in Calls |-> NoRequest]
  /\ mine = [k \in Calls |-> NoRow]
  /\ seen = [k \in Calls |-> NoRow]
  /\ doomed = [k \in Calls |-> {}]
  /\ used = {} /\ answers = {} /\ removed = {} /\ entangled = {}
  /\ arrived = 0 /\ faults = 0

-----------------------------------------------------------------------------
(* What the steps have in common.                                            *)

Exists(s) == row[s].status # "absent"
Of(s, emissions) == {e \in emissions : e.source = s}
Emitted(k) ==
  [source |-> request[k].source, content |-> request[k].content, by |-> request[k].by]

\* The UNIQUE index on (tenant_id, workspace_id, content_sha256), as an INSERT
\* or UPDATE of source s meets it.
TakenMutant(c, s) == FALSE
Taken(c, s) == \E other \in Sources \ {s} : row[other].content = c

Goto(k, place) == pc' = [pc EXCEPT ![k] = place]

Return(k) ==
  /\ Goto(k, "idle")
  /\ request' = [request EXCEPT ![k] = NoRequest]
  /\ mine' = [mine EXCEPT ![k] = NoRow]
  /\ seen' = [seen EXCEPT ![k] = NoRow]
  /\ doomed' = [doomed EXCEPT ![k] = {}]

\* Some call works on the source.
Busy(s) == \E k \in Calls : request[k].source = s

\* A request arrives with the row it holds in memory.
Enter(k, op, s, c, held, place) ==
  /\ pc[k] = "idle" /\ arrived < MaxRequests
  /\ arrived' = arrived + 1
  /\ request' = [request EXCEPT ![k] = [op |-> op, source |-> s, content |-> c, by |-> arrived']]
  /\ mine' = [mine EXCEPT ![k] = held]
  /\ Goto(k, place)
  /\ UNCHANGED <<stores, seen, doomed, answers, removed, faults>>

-----------------------------------------------------------------------------
(* submit                                                                    *)

\* The new row exists in memory only.  When the loader refuses the bytes (they
\* may be fine under another kind), the SHA-256 is on it already.
Submit(k, s, c) ==
  /\ s \notin used
  /\ used' = used \cup {s}
  /\ \/ Enter(k, "submit", s, c, [status |-> "ingested", content |-> c, key |-> FALSE], "lookup")
     \/ Enter(k, "submit", s, c, [status |-> "failed", content |-> c, key |-> FALSE], "add_failed")
  /\ UNCHANGED entangled

\* The row that has the same bytes, whatever its status, is the answer.
Holder(c) == CHOOSE s \in Sources : row[s].content = c
AnswerWith(k, s) ==
  /\ answers' = answers \cup {[content |-> request[k].content, source |-> s]}
  /\ Return(k)

\* get_by_content_sha256, before the INSERT.
Lookup(k) ==
  /\ pc[k] = "lookup"
  /\ IF Taken(request[k].content, request[k].source)
       THEN AnswerWith(k, Holder(request[k].content))
       ELSE Goto(k, "store") /\ UNCHANGED <<request, mine, seen, doomed, answers>>
  /\ UNCHANGED <<stores, used, removed, entangled, arrived, faults>>

\* The failed row is recorded and the loader's error goes back; when the bytes
\* are known already, the INSERT raises instead.
AddFailed(k) ==
  /\ pc[k] = "add_failed"
  /\ row' = IF Taken(request[k].content, request[k].source) THEN row
            ELSE [row EXCEPT ![request[k].source] = mine[k]]
  /\ Return(k)
  /\ UNCHANGED <<object, chunks, vectors, history, faults>>

\* put of the original; what it raises is logged and the row has no new key.
Store(k) ==
  /\ pc[k] = "store"
  /\ \/ /\ object' = [object EXCEPT ![request[k].source] = request[k].content]
        /\ mine' = [mine EXCEPT ![k].key = TRUE]
        /\ UNCHANGED faults
     \/ /\ faults < MaxFaults /\ faults' = faults + 1
        /\ UNCHANGED <<object, mine>>
  /\ Goto(k, IF request[k].op = "submit" THEN "insert" ELSE "merge_read")
  /\ UNCHANGED <<row, chunks, vectors, request, seen, doomed, history>>

InsertRow(k) ==
  /\ pc[k] = "insert"
  /\ IF Taken(request[k].content, request[k].source)
       THEN Goto(k, "relookup") /\ UNCHANGED row
       ELSE /\ row' = [row EXCEPT ![request[k].source] = mine[k]]
            /\ Goto(k, "clear")
  /\ UNCHANGED <<object, chunks, vectors, request, mine, seen, doomed, history, faults>>

\* The INSERT lost the race; the winner may be gone again, then it raises.
Relookup(k) ==
  /\ pc[k] = "relookup"
  /\ IF Taken(request[k].content, request[k].source)
       THEN AnswerWith(k, Holder(request[k].content))
       ELSE Return(k) /\ UNCHANGED answers
  /\ UNCHANGED <<stores, used, removed, entangled, arrived, faults>>

-----------------------------------------------------------------------------
(* replace                                                                   *)

\* get, then the new bytes are parsed; what that raises changes nothing.
Replace(k, s, c) ==
  /\ Exists(s)
  /\ Enter(k, "replace", s, c, [row[s] EXCEPT !.status = "ingested", !.content = c], "store")
  /\ entangled' = entangled \cup {s}
  /\ UNCHANGED used

\* session.merge: the SELECT.
MergeRead(k) ==
  /\ pc[k] = "merge_read"
  /\ seen' = [seen EXCEPT ![k] = row[request[k].source]]
  /\ Goto(k, "merge_write")
  /\ UNCHANGED <<stores, request, mine, doomed, history, faults>>

\* session.merge: the flush inserts the row if the SELECT found none, else it
\* updates the columns that differ from what the SELECT found.
Merged(k) ==
  [column \in DOMAIN mine[k] |->
     IF seen[k] = NoRow \/ mine[k][column] # seen[k][column]
       THEN mine[k][column]
       ELSE row[request[k].source][column]]

\* It raises when the row came or went in between, or another has the bytes.
MergeWrite(k) ==
  LET s == request[k].source
  IN  /\ pc[k] = "merge_write"
      /\ IF Exists(s) = (seen[k] # NoRow) /\ ~Taken(Merged(k).content, s)
           THEN /\ row' = [row EXCEPT ![s] = Merged(k)]
                /\ Goto(k, "clear")
                /\ UNCHANGED <<request, mine, seen, doomed>>
           ELSE Return(k) /\ UNCHANGED row
      /\ UNCHANGED <<object, chunks, vectors, history, faults>>

-----------------------------------------------------------------------------
(* The chunks and the index, for submit and replace.                         *)

\* ChunkRepository.replace_for_source is one transaction at read committed: the
\* DELETE sees the chunks that are committed by then, and its effect and the new
\* chunks appear together at the commit.
Clear(k) ==
  /\ pc[k] = "clear"
  /\ doomed' = [doomed EXCEPT ![k] = Of(request[k].source, chunks)]
  /\ Goto(k, "fill")
  /\ UNCHANGED <<stores, request, mine, seen, history, faults>>

\* The chunks reference their source: without it the INSERT raises.
Fill(k) ==
  /\ pc[k] = "fill"
  /\ IF Exists(request[k].source)
       THEN /\ chunks' = (chunks \ doomed[k]) \cup {Emitted(k)}
            /\ Goto(k, "index")
            /\ UNCHANGED <<request, mine, seen, doomed>>
       ELSE Return(k) /\ UNCHANGED chunks
  /\ UNCHANGED <<row, object, vectors, history, faults>>

\* IndexService.replace_for_source: delete_by_doc_id deletes nothing, and the
\* upsert is by chunk id, so the vectors of earlier chunks stay.
IndexMutant(k) ==
  /\ pc[k] = "index"
  /\ Goto(k, "answer")
  /\ UNCHANGED <<stores, request, mine, seen, doomed, history, faults>>
Index(k) ==
  /\ pc[k] = "index"
  /\ vectors' = vectors \cup {Emitted(k)}
  /\ Goto(k, "answer")
  /\ UNCHANGED <<row, object, chunks, request, mine, seen, doomed, history, faults>>

\* The audit row, the event and the answer.
AnswerMutant(k) ==
  /\ pc[k] = "answer"
  /\ AnswerWith(k, request[k].source)
  /\ UNCHANGED <<stores, used, removed, entangled, arrived, faults>>
Answer(k) ==
  /\ pc[k] = "answer"
  /\ IF request[k].op = "submit"
       THEN AnswerWith(k, request[k].source)
       ELSE Return(k) /\ UNCHANGED answers
  /\ UNCHANGED <<stores, used, removed, entangled, arrived, faults>>

-----------------------------------------------------------------------------
(* remove                                                                    *)

Remove(k, s) ==
  /\ Exists(s)
  /\ Enter(k, "remove", s, None, row[s], "list")
  /\ entangled' = IF Busy(s) THEN entangled \cup {s} ELSE entangled
  /\ UNCHANGED used

\* IndexService.remove_for_source finds the vectors through the chunk rows.
ListChunksMutant(k) ==
  /\ pc[k] = "list"
  /\ Goto(k, "unindex")
  /\ UNCHANGED <<stores, request, mine, seen, doomed, history, faults>>
ListChunks(k) ==
  /\ pc[k] = "list"
  /\ doomed' = [doomed EXCEPT ![k] = Of(request[k].source, chunks)]
  /\ Goto(k, "unindex")
  /\ UNCHANGED <<stores, request, mine, seen, history, faults>>

Unindex(k) ==
  /\ pc[k] = "unindex"
  /\ vectors' = vectors \ doomed[k]
  /\ Goto(k, "drop")
  /\ UNCHANGED <<row, object, chunks, request, mine, seen, doomed, history, faults>>

DropChunks(k) ==
  /\ pc[k] = "drop"
  /\ chunks' = chunks \ Of(request[k].source, chunks)
  /\ Goto(k, "erase")
  /\ UNCHANGED <<row, object, vectors, request, mine, seen, doomed, history, faults>>

\* _delete_original: the object the row pointed to when it was read.
EraseOriginal(k) ==
  /\ pc[k] = "erase"
  /\ object' = IF mine[k].key THEN [object EXCEPT ![request[k].source] = None] ELSE object
  /\ Goto(k, "delete_read")
  /\ UNCHANGED <<row, chunks, vectors, request, mine, seen, doomed, history, faults>>

\* delete of the repository: merge's SELECT.  What it does not find is a new
\* object to the session, and that cannot be deleted: it raises.
DeleteRead(k) ==
  /\ pc[k] = "delete_read"
  /\ IF Exists(request[k].source)
       THEN Goto(k, "delete") /\ UNCHANGED <<request, mine, seen, doomed>>
       ELSE Return(k)
  /\ UNCHANGED <<stores, history, faults>>

\* The row goes last, and its chunks with it (ON DELETE CASCADE).  A DELETE that
\* meets no row only warns.
DeleteRow(k) ==
  LET s == request[k].source
  IN  /\ pc[k] = "delete"
      /\ row' = [row EXCEPT ![s] = NoRow]
      /\ chunks' = chunks \ Of(s, chunks)
      /\ removed' = removed \cup {s}
      /\ Goto(k, "answer")
      /\ UNCHANGED <<object, vectors, request, mine, seen, doomed, used, answers, entangled,
                     arrived, faults>>

\* A call dies where it stands: the process crashes, or a store raises.
CallDies(k) ==
  /\ pc[k] # "idle" /\ faults < MaxFaults
  /\ faults' = faults + 1
  /\ Return(k)
  /\ UNCHANGED <<stores, history>>

-----------------------------------------------------------------------------
Arrive(k) ==
  \E s \in Sources :
    \/ \E c \in Contents : Submit(k, s, c) \/ Replace(k, s, c)
    \/ Remove(k, s)

Step(k) ==
  \/ Lookup(k) \/ AddFailed(k) \/ Store(k) \/ InsertRow(k) \/ Relookup(k)
  \/ MergeRead(k) \/ MergeWrite(k) \/ Clear(k) \/ Fill(k) \/ Index(k) \/ Answer(k)
  \/ ListChunks(k) \/ Unindex(k) \/ DropChunks(k) \/ EraseOriginal(k)
  \/ DeleteRead(k) \/ DeleteRow(k)

\* Everything is answered and nobody asks for more.
Rest == (\A k \in Calls : pc[k] = "idle") /\ UNCHANGED vars

Next == (\E k \in Calls : Arrive(k) \/ Step(k) \/ CallDies(k)) \/ Rest

Spec == Init /\ [][Next]_vars

-----------------------------------------------------------------------------
(* Safety.                                                                   *)

Quiet(s) == ~Busy(s)

\* "The same bytes resolve to the same row, no matter how many parallel callers
\* submit them": two submits of the same bytes were answered with different
\* sources only if one of these was removed or replaced.
SameBytesSameSource ==
  \A a, b \in answers :
    a.content = b.content /\ a.source # b.source =>
      {a.source, b.source} \cap (removed \cup entangled) # {}

\* As long as nothing has failed, an ingested source nobody works on is
\* searchable, however its submit, replaces and removes interleaved: it has
\* chunks, and every one of them has its vector.
IngestedIsIndexed ==
  faults = 0 =>
    \A s \in Sources : Quiet(s) /\ row[s].status = "ingested" =>
      Of(s, chunks) # {} /\ Of(s, chunks) \subseteq vectors

\* A source that was never replaced and that one call removed leaves nothing
\* behind in any of the four stores.
RemovedLeavesNothing ==
  faults = 0 =>
    \A s \in removed \ entangled : Quiet(s) =>
      ~Exists(s) /\ object[s] = None /\ Of(s, chunks \cup vectors) = {}

(* What the documents say and the code does not do; a run refutes it.        *)

\* remove: "Remove a source and every indexed projection for it".  The vectors
\* of the chunks a replace dropped are still there, text included.
RemovedIsUnindexed ==
  faults = 0 => \A s \in removed : Quiet(s) /\ ~Exists(s) => Of(s, vectors) = {}
=============================================================================
