-------------------------- MODULE SourceIntakeProofs --------------------------
(***************************************************************************)
(* Proofs about SourceIntake, for any set of sources, contents and calls,  *)
(* and any number of requests and faults: the types, that equal bytes      *)
(* resolve to one source, and that the four stores agree again when the    *)
(* calls on a source are done.                                             *)
(***************************************************************************)
EXTENDS SourceIntake, TLAPS

-----------------------------------------------------------------------------
(* The invariants.                                                           *)

\* Where the calls of an operation can be.
Submitting == {"lookup", "add_failed", "store", "insert", "relookup"}
Filling == {"clear", "fill", "index", "answer"}
PlacesOf(op) ==
  CASE op = "none"    -> {"idle"}
    [] op = "submit"  -> Submitting \cup Filling
    [] op = "replace" -> {"store", "merge_read", "merge_write"} \cup Filling
    [] op = "remove"  -> {"list", "unindex", "drop", "erase", "delete_read", "delete", "answer"}

\* A call is about a source that was handed out, and only a submit or a replace
\* about contents.  The chunks it is to delete are of its source.
CallOK(k) ==
  /\ pc[k] \in PlacesOf(request[k].op)
  /\ request[k].op = "none" => request[k] = NoRequest
  /\ request[k].op # "none" => request[k].source \in used
  /\ request[k].op \in {"submit", "replace"} =>
       request[k].content \in Contents /\ mine[k].content = request[k].content
  /\ request[k].op = "replace" => request[k].source \in entangled
  /\ pc[k] = "add_failed" => mine[k].status = "failed"
  /\ \A e \in doomed[k] : e.source = request[k].source

\* Rows are of sources that were handed out.
UsedInv == \A s \in Sources : row[s] # NoRow => s \in used

TypeInv == TypeOK /\ UsedInv /\ \A k \in Calls : CallOK(k)

\* The UNIQUE index holds: no two rows have the same contents.
Distinct == \A s, t \in Sources : s # t /\ row[s].content = row[t].content => row[s].content = None

\* Until its row is inserted, a submit is alone with its source; from then on the
\* row has the bytes, unless another call came.
SubmitInv == \A k \in Calls : request[k].op = "submit" =>
  /\ pc[k] \in Submitting =>
       /\ row[request[k].source] = NoRow
       /\ \A j \in Calls : request[j].source = request[k].source => j = k
  /\ pc[k] \in Filling =>
       \/ request[k].source \in removed \cup entangled
       \/ row[request[k].source].content = request[k].content

\* A source that submits were answered with has their bytes, unless another call came.
AnswerInv == \A a \in answers :
  a.source \in removed \cup entangled \/ row[a.source].content = a.content

BytesInv == Distinct /\ SubmitInv /\ AnswerInv

\* An ingested source without chunks is about to get some or to go; a chunk
\* without its vector is about to get it or to go.
Rechunks(k) == pc[k] \in {"clear", "fill", "erase", "delete_read", "delete"}
Covers(k, e) ==
  \/ pc[k] = "index" /\ Emitted(k) = e
  \/ pc[k] = "drop" /\ request[k].source = e.source
IndexInv == faults = 0 =>
  /\ \A s \in Sources : row[s].status = "ingested" /\ Of(s, chunks) = {} =>
       \E k \in Calls : request[k].source = s /\ Rechunks(k)
  /\ \A e \in chunks \ vectors : \E k \in Calls : Covers(k, e)

\* A source that no two calls shared, as its submit and its removal leave it.
Alone(s) == \A j, k \in Calls : request[j].source = s /\ request[k].source = s => j = k
Stored(s) ==
  /\ Of(s, vectors) \subseteq chunks
  /\ s \notin used => Of(s, chunks) = {} /\ object[s] = None
  /\ s \notin removed /\ Exists(s) /\ object[s] # None => row[s].key
  /\ s \in removed =>
       s \in used /\ ~Exists(s) /\ object[s] = None /\ Of(s, chunks) = {} /\ Of(s, vectors) = {}

\* What the call on such a source has left in the stores where it stands.
Handled(k) ==
  LET s == request[k].source
  IN  /\ s \in removed => pc[k] = "answer"
      /\ pc[k] \in Submitting \cup {"clear", "fill"} => Of(s, chunks) = {}
      /\ pc[k] \in Submitting \cup {"list", "unindex", "drop", "erase"} =>
           (object[s] # None => mine[k].key)
      /\ pc[k] = "index" => Emitted(k) \in chunks
      /\ pc[k] = "unindex" => Of(s, vectors) \subseteq doomed[k]
      /\ pc[k] \in {"drop", "erase", "delete_read", "delete"} => Of(s, vectors) = {}
      /\ pc[k] \in {"erase", "delete_read", "delete"} => Of(s, chunks) = {}
      /\ pc[k] \in {"delete_read", "delete"} => object[s] = None
RemovalInv == faults = 0 => \A s \in Sources \ entangled :
  Alone(s) /\ Stored(s) /\ \A k \in Calls : request[k].source = s => Handled(k)

-----------------------------------------------------------------------------
(* What every step has in common.                                            *)

\* A step of a call leaves the other calls alone and the ids that were handed
\* out; a source is only ever added to the histories.
Same(j) ==
  /\ pc'[j] = pc[j] /\ request'[j] = request[j] /\ mine'[j] = mine[j]
  /\ seen'[j] = seen[j] /\ doomed'[j] = doomed[j]

LEMMA OthersStay ==
  ASSUME TypeInv, NEW k \in Calls, Arrive(k) \/ Step(k) \/ CallDies(k)
  PROVE  /\ \A j \in Calls \ {k} : Same(j)
         /\ used \subseteq used' /\ entangled \subseteq entangled' /\ removed \subseteq removed'
<1> USE DEF TypeInv, TypeOK, Same, Goto, Return, AnswerWith, stores, history, calls
<1>1. CASE Arrive(k)
  BY <1>1 DEF Arrive, Submit, Replace, Remove, Enter
<1>2. CASE Lookup(k) \/ AddFailed(k) \/ Store(k) \/ InsertRow(k) \/ Relookup(k)
  BY <1>2 DEF Lookup, AddFailed, Store, InsertRow, Relookup
<1>3. CASE MergeRead(k) \/ MergeWrite(k) \/ Clear(k) \/ Fill(k) \/ Index(k) \/ Answer(k)
  BY <1>3 DEF MergeRead, MergeWrite, Clear, Fill, Index, Answer
<1>4. CASE ListChunks(k) \/ Unindex(k) \/ DropChunks(k) \/ EraseOriginal(k)
              \/ DeleteRead(k) \/ DeleteRow(k)
  BY <1>4 DEF ListChunks, Unindex, DropChunks, EraseOriginal, DeleteRead, DeleteRow
<1>5. CASE CallDies(k)
  BY <1>5 DEF CallDies
<1> QED BY <1>1, <1>2, <1>3, <1>4, <1>5 DEF Step

\* A step of a call changes the stores of no source but its own.
LEMMA OwnSource ==
  ASSUME TypeInv, NEW k \in Calls, Arrive(k) \/ Step(k) \/ CallDies(k),
         NEW s \in Sources, s # request[k].source
  PROVE  /\ row'[s] = row[s] /\ object'[s] = object[s]
         /\ Of(s, chunks') = Of(s, chunks) /\ Of(s, vectors') = Of(s, vectors)
         /\ s \in removed' => s \in removed
<1> USE DEF TypeInv, TypeOK, CallOK, Of, Emitted, stores, history, calls
<1>1. CASE Arrive(k)
  BY <1>1 DEF Arrive, Submit, Replace, Remove, Enter
<1>2. CASE Lookup(k) \/ AddFailed(k) \/ Store(k) \/ InsertRow(k) \/ Relookup(k)
  BY <1>2 DEF Lookup, AddFailed, Store, InsertRow, Relookup
<1>3. CASE MergeRead(k) \/ MergeWrite(k) \/ Clear(k) \/ Answer(k)
  BY <1>3 DEF MergeRead, MergeWrite, Clear, Answer
<1>4. CASE Fill(k)
  BY <1>4 DEF Fill
<1>5. CASE Index(k)
  BY <1>5 DEF Index
<1>6. CASE ListChunks(k) \/ EraseOriginal(k)
  BY <1>6 DEF ListChunks, EraseOriginal
<1>7. CASE Unindex(k)
  BY <1>7 DEF Unindex
<1>8. CASE DropChunks(k)
  BY <1>8 DEF DropChunks
<1>9. CASE DeleteRead(k) \/ DeleteRow(k)
  BY <1>9 DEF DeleteRead, DeleteRow
<1>10. CASE CallDies(k)
  BY <1>10 DEF CallDies
<1> QED BY <1>1, <1>2, <1>3, <1>4, <1>5, <1>6, <1>7, <1>8, <1>9, <1>10 DEF Step

-----------------------------------------------------------------------------
(* Types.                                                                    *)

\* The initial state is well typed.
LEMMA TypeInit == Init => TypeInv
BY DEF Init, TypeInv, TypeOK, UsedInv, CallOK, PlacesOf, Places, NoRow, Row, NoRequest, Request

\* Where the operation of a call is known from.
LEMMA PlaceTells ==
  ASSUME TypeInv, NEW k \in Calls
  PROVE  /\ request[k].op \in {"none", "submit", "replace", "remove"}
         /\ request[k].op # "none" => request[k].source \in Sources
         /\ pc[k] = "idle" <=> request[k].op = "none"
         /\ pc[k] \in {"lookup", "add_failed", "insert", "relookup"} => request[k].op = "submit"
         /\ pc[k] \in {"merge_read", "merge_write"} => request[k].op = "replace"
         /\ pc[k] \in {"store", "clear", "fill", "index"} => request[k].op \in {"submit", "replace"}
         /\ pc[k] \in {"list", "unindex", "drop", "erase", "delete_read", "delete"} => request[k].op = "remove"
<1>1. request[k].op \in {"none", "submit", "replace", "remove"} /\ CallOK(k)
  BY DEF TypeInv, TypeOK, Request
<1>2. request[k].op # "none" => request[k].source \in Sources
  BY <1>1 DEF TypeInv, TypeOK, CallOK
<1> QED BY <1>1, <1>2 DEF CallOK, PlacesOf, Submitting, Filling

\* What a call that returned holds.
LEMMA ReturnTyped ==
  ASSUME TypeInv, NEW k \in Calls, Return(k)
  PROVE  /\ pc' \in [Calls -> Places] /\ request' \in [Calls -> Request]
         /\ mine' \in [Calls -> Row] /\ seen' \in [Calls -> Row]
         /\ doomed' \in [Calls -> SUBSET Emission]
         /\ CallOK(k)'
<1>1. NoRequest \in Request /\ NoRow \in Row /\ "idle" \in Places
  BY DEF NoRequest, Request, NoRow, Row, Places
<1>2. pc'[k] = "idle" /\ request'[k] = NoRequest /\ mine'[k] = NoRow /\ doomed'[k] = {}
  BY DEF Return, Goto, TypeInv, TypeOK
<1>3. CallOK(k)'
  BY <1>2 DEF CallOK, NoRequest, PlacesOf
<1> QED BY <1>1, <1>3 DEF Return, Goto, TypeInv, TypeOK

\* A step keeps the types when it keeps those of the stores and its own call.
LEMMA CallKept ==
  ASSUME TypeInv, NEW k \in Calls, Arrive(k) \/ Step(k) \/ CallDies(k), TypeOK', CallOK(k)'
  PROVE  TypeInv'
<1>1. ASSUME NEW s \in Sources, row'[s] # NoRow PROVE s \in used'
  <2>1. CASE s = request[k].source
    BY <2>1, NoneAssumption, PlaceTells, OthersStay DEF TypeInv, CallOK, NoRequest
  <2>2. CASE s # request[k].source
    BY <1>1, <2>2, OthersStay, OwnSource DEF TypeInv, UsedInv
  <2> QED BY <2>1, <2>2
<1> SUFFICES ASSUME NEW j \in Calls, j # k PROVE CallOK(j)'
  BY <1>1 DEF TypeInv, UsedInv
<1>2. CallOK(j) /\ Same(j) /\ used \subseteq used' /\ entangled \subseteq entangled'
  BY OthersStay DEF TypeInv
<1> QED BY <1>2 DEF CallOK, Same

\* What a call that goes on, and a call that arrives, hold.
LEMMA GotoTyped ==
  ASSUME TypeInv, NEW k \in Calls, NEW place \in Places, Goto(k, place)
  PROVE  pc' \in [Calls -> Places] /\ pc'[k] = place
BY DEF TypeInv, TypeOK, Goto

LEMMA EnterTyped ==
  ASSUME TypeInv, NEW k \in Calls, NEW op \in {"submit", "replace", "remove"}, NEW s \in Sources,
         NEW c \in Contents \cup {None}, NEW held \in Row, NEW place \in Places,
         Enter(k, op, s, c, held, place)
  PROVE  /\ pc' \in [Calls -> Places] /\ request' \in [Calls -> Request]
         /\ mine' \in [Calls -> Row] /\ seen' = seen /\ doomed' = doomed
         /\ pc'[k] = place /\ mine'[k] = held /\ doomed[k] = {}
         /\ request'[k].op = op /\ request'[k].source = s /\ request'[k].content = c
         /\ arrived' \in Nat /\ UNCHANGED <<row, object, chunks, vectors, answers, removed, faults>>
<1> DEFINE r == [op |-> op, source |-> s, content |-> c, by |-> arrived']
<1>1. arrived' \in Nat
  BY DEF Enter, TypeInv, TypeOK
<1>2. r \in Request
  BY <1>1 DEF Request
<1>3. request' = [request EXCEPT ![k] = r] /\ mine' = [mine EXCEPT ![k] = held] /\ Goto(k, place)
  BY DEF Enter
<1>4. doomed[k] = {}
  <2>1. request[k].op = "none" /\ CallOK(k)
    BY PlaceTells DEF Enter, TypeInv
  <2>2. request[k].source = None
    BY <2>1 DEF CallOK, NoRequest
  <2> QED BY <2>1, <2>2, NoneAssumption DEF TypeInv, TypeOK, Emission, CallOK
<1> HIDE DEF r
<1>5. request' \in [Calls -> Request] /\ mine' \in [Calls -> Row] /\ request'[k] = r /\ mine'[k] = held
  BY <1>2, <1>3 DEF TypeInv, TypeOK
<1> QED BY <1>1, <1>3, <1>4, <1>5, GotoTyped DEF Enter, stores, r

\* A request that arrives is well typed.
LEMMA TypeArrive ==
  ASSUME TypeInv, NEW k \in Calls, Arrive(k)
  PROVE  TypeInv'
<1> SUFFICES TypeOK' /\ CallOK(k)'
  BY CallKept
<1>1. PICK s \in Sources : (\E c \in Contents : Submit(k, s, c) \/ Replace(k, s, c)) \/ Remove(k, s)
  BY DEF Arrive
<1>2. ASSUME NEW c \in Contents, Submit(k, s, c) PROVE TypeOK' /\ CallOK(k)'
  <2>1. PICK st \in {"ingested", "failed"}, place \in {"lookup", "add_failed"} :
          /\ Enter(k, "submit", s, c, [status |-> st, content |-> c, key |-> FALSE], place)
          /\ place = "add_failed" => st = "failed"
    BY <1>2 DEF Submit
  <2> DEFINE held == [status |-> st, content |-> c, key |-> FALSE]
  <2>2. held \in Row /\ held.content = c /\ held.status = st /\ place \in Places
    BY DEF Row, Places
  <2> HIDE DEF held
  <2>3. Enter(k, "submit", s, c, held, place)
    BY <2>1 DEF held
  <2>4. used' = used \cup {s} /\ entangled' = entangled
    BY <1>2 DEF Submit
  <2>5. TypeOK'
    BY <2>2, <2>3, <2>4, EnterTyped DEF TypeInv, TypeOK
  <2>6. CallOK(k)'
    BY <2>1, <2>2, <2>3, <2>4, EnterTyped DEF CallOK, PlacesOf, Submitting
  <2> QED BY <2>5, <2>6
<1>3. ASSUME NEW c \in Contents, Replace(k, s, c) PROVE TypeOK' /\ CallOK(k)'
  <2> DEFINE held == [row[s] EXCEPT !.status = "ingested", !.content = c]
  <2>1. held \in Row /\ held.content = c /\ "store" \in Places
    BY DEF Row, Places, TypeInv, TypeOK
  <2> HIDE DEF held
  <2>2. Enter(k, "replace", s, c, held, "store")
    BY <1>3 DEF Replace, held
  <2>3. used' = used /\ entangled' = entangled \cup {s} /\ s \in used
    BY <1>3 DEF Replace, Exists, TypeInv, UsedInv, NoRow
  <2>4. TypeOK'
    BY <2>1, <2>2, <2>3, EnterTyped DEF TypeInv, TypeOK
  <2>5. CallOK(k)'
    BY <2>1, <2>2, <2>3, EnterTyped DEF CallOK, PlacesOf
  <2> QED BY <2>4, <2>5
<1>4. CASE Remove(k, s)
  <2>1. row[s] \in Row /\ "list" \in Places
    BY DEF Places, TypeInv, TypeOK
  <2>2. Enter(k, "remove", s, None, row[s], "list")
    BY <1>4 DEF Remove
  <2>3. used' = used /\ entangled' \subseteq entangled \cup {s} /\ s \in used
    BY <1>4 DEF Remove, Exists, TypeInv, UsedInv, NoRow
  <2>4. TypeOK'
    BY <2>1, <2>2, <2>3, EnterTyped DEF TypeInv, TypeOK
  <2>5. CallOK(k)'
    BY <2>1, <2>2, <2>3, EnterTyped DEF CallOK, PlacesOf
  <2> QED BY <2>4, <2>5
<1> QED BY <1>1, <1>2, <1>3, <1>4

\* What a call that works on contents emits.
LEMMA EmittedTyped ==
  ASSUME TypeInv, NEW k \in Calls, request[k].op \in {"submit", "replace"}
  PROVE  Emitted(k) \in Emission /\ Emitted(k).source = request[k].source
BY DEF TypeInv, TypeOK, CallOK, Emitted, Emission, Request

\* The row a merge flushes is typed, and has the contents of the request or of
\* the row as it is now.
LEMMA MergedTyped ==
  ASSUME TypeInv, NEW k \in Calls, request[k].op = "replace"
  PROVE  /\ Merged(k) \in Row
         /\ Merged(k).content \in {request[k].content, row[request[k].source].content}
<1> DEFINE s == request[k].source
<1>1. mine[k] \in Row /\ seen[k] \in Row /\ row[s] \in Row /\ mine[k].content = request[k].content
  BY DEF TypeInv, TypeOK, CallOK
<1>2. DOMAIN mine[k] = {"status", "content", "key"}
  BY <1>1 DEF Row
<1>3. Merged(k) = [status |-> Merged(k).status, content |-> Merged(k).content, key |-> Merged(k).key]
  BY <1>2 DEF Merged
<1>4. /\ Merged(k).status \in {mine[k].status, row[s].status}
      /\ Merged(k).content \in {mine[k].content, row[s].content}
      /\ Merged(k).key \in {mine[k].key, row[s].key}
  BY <1>2 DEF Merged
<1>5. Merged(k) \in Row
  BY <1>1, <1>3, <1>4 DEF Row
<1> QED BY <1>1, <1>4, <1>5

\* The steps of a submit until its row is there keep the types.
LEMMA TypeSubmit ==
  ASSUME TypeInv, NEW k \in Calls,
         Lookup(k) \/ AddFailed(k) \/ Store(k) \/ InsertRow(k) \/ Relookup(k)
  PROVE  TypeInv'
<1> DEFINE s == request[k].source
           c == request[k].content
<1>1. s \in Sources /\ c \in Contents /\ mine[k] \in Row /\ mine[k].content = c /\ CallOK(k)
      /\ request[k].op \in {"submit", "replace"}
  BY PlaceTells DEF TypeInv, TypeOK, CallOK, Lookup, AddFailed, Store, InsertRow, Relookup
<1>2. Taken(c, s) => [content |-> c, source |-> Holder(c)] \in [content : Contents, source : Sources]
  BY <1>1 DEF Taken, Holder
<1>3. CASE Lookup(k)
  <2>1. TypeOK' /\ CallOK(k)'
    <3>1. CASE Taken(c, s)
      BY <1>2, <1>3, <3>1, ReturnTyped DEF Lookup, AnswerWith, TypeInv, TypeOK, stores
    <3>2. CASE ~Taken(c, s)
      <4>1. Goto(k, "store") /\ UNCHANGED <<stores, request, mine, seen, doomed, history, faults>>
        BY <1>3, <3>2 DEF Lookup, history
      <4>2. TypeOK'
        BY <4>1, GotoTyped DEF TypeInv, TypeOK, stores, history, Places
      <4> QED BY <1>1, <4>1, <4>2, GotoTyped DEF CallOK, PlacesOf, Submitting, Places, history
    <3> QED BY <3>1, <3>2
  <2> QED BY <1>3, <2>1, CallKept DEF Step
<1>4. CASE AddFailed(k)
  <2>1. TypeOK' /\ CallOK(k)'
    BY <1>1, <1>4, ReturnTyped DEF AddFailed, TypeInv, TypeOK, history
  <2> QED BY <1>4, <2>1, CallKept DEF Step
<1>5. CASE Store(k)
  <2>1. mine' \in [Calls -> Row] /\ mine'[k].content = mine[k].content
    <3> DEFINE keyed == [mine[k] EXCEPT !.key = TRUE]
    <3>1. keyed \in Row /\ keyed.content = mine[k].content
      BY <1>1 DEF Row
    <3>2. mine' = [mine EXCEPT ![k] = keyed] \/ mine' = mine
      BY <1>5 DEF Store
    <3> HIDE DEF keyed
    <3> QED BY <3>1, <3>2 DEF TypeInv, TypeOK
  <2>2. object' \in [Sources -> Contents \cup {None}] /\ faults' \in Nat
    BY <1>1, <1>5 DEF Store, TypeInv, TypeOK
  <2>3. PICK place \in {"insert", "merge_read"} :
          Goto(k, place) /\ (place = "insert" <=> request[k].op = "submit")
    BY <1>5 DEF Store
  <2>4. UNCHANGED <<row, chunks, vectors, request, seen, doomed, history>>
    BY <1>5 DEF Store
  <2>5. TypeOK'
    BY <2>1, <2>2, <2>3, <2>4, GotoTyped DEF TypeInv, TypeOK, history, Places
  <2>6. CallOK(k)'
    BY <1>1, <2>1, <2>3, <2>4, GotoTyped DEF CallOK, PlacesOf, Submitting, Places, history
  <2> QED BY <1>5, <2>5, <2>6, CallKept DEF Step
<1>6. CASE InsertRow(k)
  <2>1. row' \in [Sources -> Row]
    BY <1>1, <1>6 DEF InsertRow, TypeInv, TypeOK
  <2>2. PICK place \in {"relookup", "clear"} : Goto(k, place)
    BY <1>6 DEF InsertRow
  <2>3. UNCHANGED <<object, chunks, vectors, request, mine, seen, doomed, history, faults>>
    BY <1>6 DEF InsertRow
  <2>4. TypeOK'
    BY <2>1, <2>2, <2>3, GotoTyped DEF TypeInv, TypeOK, history, Places
  <2>5. request[k].op = "submit"
    BY <1>6, PlaceTells DEF InsertRow
  <2>6. CallOK(k)'
    BY <1>1, <2>2, <2>3, <2>5, GotoTyped
       DEF CallOK, PlacesOf, Submitting, Filling, Places, history
  <2> QED BY <1>6, <2>4, <2>6, CallKept DEF Step
<1>7. CASE Relookup(k)
  <2>1. TypeOK' /\ CallOK(k)'
    BY <1>2, <1>7, ReturnTyped DEF Relookup, AnswerWith, TypeInv, TypeOK, stores
  <2> QED BY <1>7, <2>1, CallKept DEF Step
<1> QED BY <1>3, <1>4, <1>5, <1>6, <1>7

\* The steps of a replace, until its row is merged, keep the types.
LEMMA TypeMerge ==
  ASSUME TypeInv, NEW k \in Calls, MergeRead(k) \/ MergeWrite(k)
  PROVE  TypeInv'
<1> DEFINE s == request[k].source
<1>1. s \in Sources /\ request[k].op = "replace" /\ CallOK(k)
  BY PlaceTells DEF TypeInv, MergeRead, MergeWrite
<1>2. CASE MergeRead(k)
  <2>1. seen' \in [Calls -> Row] /\ Goto(k, "merge_write")
        /\ UNCHANGED <<stores, request, mine, doomed, history, faults>>
    BY <1>1, <1>2 DEF MergeRead, TypeInv, TypeOK
  <2>2. TypeOK'
    BY <2>1, GotoTyped DEF TypeInv, TypeOK, stores, history, Places
  <2>3. CallOK(k)'
    BY <1>1, <2>1, GotoTyped DEF CallOK, PlacesOf, Places, history
  <2> QED BY <1>2, <2>2, <2>3, CallKept DEF Step
<1>3. CASE MergeWrite(k)
  <2>1. UNCHANGED <<object, chunks, vectors, history, faults>>
    BY <1>3 DEF MergeWrite
  <2>2. CASE Return(k) /\ UNCHANGED row
    <3>1. TypeOK' /\ CallOK(k)'
      BY <2>1, <2>2, ReturnTyped DEF TypeInv, TypeOK, history
    <3> QED BY <1>3, <3>1, CallKept DEF Step
  <2>3. CASE Goto(k, "clear") /\ row' = [row EXCEPT ![s] = Merged(k)]
             /\ UNCHANGED <<request, mine, seen, doomed>>
    <3>1. row' \in [Sources -> Row]
      BY <1>1, <2>3, MergedTyped DEF TypeInv, TypeOK
    <3>2. TypeOK'
      BY <2>1, <2>3, <3>1, GotoTyped DEF TypeInv, TypeOK, history, Places
    <3>3. CallOK(k)'
      BY <1>1, <2>1, <2>3, GotoTyped DEF CallOK, PlacesOf, Filling, Places, history
    <3> QED BY <1>3, <3>2, <3>3, CallKept DEF Step
  <2> QED BY <1>3, <2>2, <2>3 DEF MergeWrite
<1> QED BY <1>2, <1>3

\* Storing chunks and indexing them keeps the types.
LEMMA TypeFill ==
  ASSUME TypeInv, NEW k \in Calls, Clear(k) \/ Fill(k) \/ Index(k) \/ Answer(k)
  PROVE  TypeInv'
<1>1. CallOK(k)
  BY DEF TypeInv
<1>2. CASE Clear(k)
  <2>1. request[k].op \in {"submit", "replace"}
    BY <1>2, PlaceTells DEF Clear
  <2>2. Goto(k, "fill") /\ UNCHANGED <<stores, request, mine, seen, history, faults>>
    BY <1>2 DEF Clear
  <2>3. doomed' \in [Calls -> SUBSET Emission] /\ \A e \in doomed'[k] : e.source = request[k].source
    BY <1>2 DEF Clear, Of, TypeInv, TypeOK
  <2>4. TypeOK'
    BY <2>2, <2>3, GotoTyped DEF TypeInv, TypeOK, stores, history, Places
  <2>5. CallOK(k)'
    BY <1>1, <2>1, <2>2, <2>3, GotoTyped DEF CallOK, PlacesOf, Filling, Places, history
  <2> QED BY <1>2, <2>4, <2>5, CallKept DEF Step
<1>3. CASE Fill(k)
  <2>1. request[k].op \in {"submit", "replace"}
    BY <1>3, PlaceTells DEF Fill
  <2>2. UNCHANGED <<row, object, vectors, history, faults>>
    BY <1>3 DEF Fill
  <2>3. CASE Return(k) /\ UNCHANGED chunks
    <3>1. TypeOK' /\ CallOK(k)'
      BY <2>2, <2>3, ReturnTyped DEF TypeInv, TypeOK, history
    <3> QED BY <1>3, <3>1, CallKept DEF Step
  <2>4. CASE /\ chunks' = (chunks \ doomed[k]) \cup {Emitted(k)}
             /\ Goto(k, "index") /\ UNCHANGED <<request, mine, seen, doomed>>
    <3>1. chunks' \subseteq Emission
      BY <2>1, <2>4, EmittedTyped DEF TypeInv, TypeOK
    <3>2. TypeOK'
      BY <2>2, <2>4, <3>1, GotoTyped DEF TypeInv, TypeOK, history, Places
    <3>3. CallOK(k)'
      BY <1>1, <2>1, <2>2, <2>4, GotoTyped DEF CallOK, PlacesOf, Filling, Places, history
    <3> QED BY <1>3, <3>2, <3>3, CallKept DEF Step
  <2> QED BY <1>3, <2>3, <2>4 DEF Fill
<1>4. CASE Index(k)
  <2>1. request[k].op \in {"submit", "replace"}
    BY <1>4, PlaceTells DEF Index
  <2>2. vectors' \subseteq Emission
    BY <1>4, <2>1, EmittedTyped DEF Index, TypeInv, TypeOK
  <2>3. Goto(k, "answer") /\ UNCHANGED <<row, object, chunks, request, mine, seen, doomed, history, faults>>
    BY <1>4 DEF Index
  <2>4. TypeOK'
    BY <2>2, <2>3, GotoTyped DEF TypeInv, TypeOK, history, Places
  <2>5. CallOK(k)'
    BY <1>1, <2>1, <2>3, GotoTyped DEF CallOK, PlacesOf, Filling, Places, history
  <2> QED BY <1>4, <2>4, <2>5, CallKept DEF Step
<1>5. CASE Answer(k)
  <2>1. Return(k) /\ UNCHANGED <<stores, used, removed, entangled, arrived, faults>>
    BY <1>5 DEF Answer, AnswerWith
  <2>2. request[k].op = "submit" =>
          [content |-> request[k].content, source |-> request[k].source]
            \in [content : Contents, source : Sources]
    BY <1>1, PlaceTells DEF CallOK
  <2>3. answers' \subseteq [content : Contents, source : Sources]
    BY <1>5, <2>2 DEF Answer, AnswerWith, TypeInv, TypeOK
  <2>4. TypeOK' /\ CallOK(k)'
    BY <2>1, <2>3, ReturnTyped DEF TypeInv, TypeOK, stores
  <2> QED BY <1>5, <2>4, CallKept DEF Step
<1> QED BY <1>2, <1>3, <1>4, <1>5

\* The steps of a removal keep the types.
LEMMA TypeRemove ==
  ASSUME TypeInv, NEW k \in Calls,
         ListChunks(k) \/ Unindex(k) \/ DropChunks(k) \/ EraseOriginal(k)
              \/ DeleteRead(k) \/ DeleteRow(k)
  PROVE  TypeInv'
<1> DEFINE s == request[k].source
<1>1. s \in Sources /\ request[k].op = "remove" /\ CallOK(k)
  BY PlaceTells DEF TypeInv, ListChunks, Unindex, DropChunks, EraseOriginal, DeleteRead, DeleteRow
<1>2. NoRow \in Row
  BY DEF NoRow, Row
<1>3. CASE Return(k) /\ UNCHANGED <<stores, history, faults>>
  <2>1. TypeOK' /\ CallOK(k)'
    BY <1>3, ReturnTyped DEF TypeInv, TypeOK, stores, history
  <2> QED BY <2>1, CallKept DEF Step
<1>4. CASE ~(Return(k) /\ UNCHANGED <<stores, history, faults>>)
  <2>1. PICK place \in {"unindex", "drop", "erase", "delete_read", "delete", "answer"} : Goto(k, place)
    BY <1>4 DEF ListChunks, Unindex, DropChunks, EraseOriginal, DeleteRead, DeleteRow, stores, history
  <2>2. /\ chunks' \subseteq chunks /\ vectors' \subseteq vectors
        /\ removed \subseteq removed' /\ removed' \subseteq removed \cup {s}
        /\ UNCHANGED <<request, mine, seen, used, answers, entangled, arrived, faults>>
    BY <1>4 DEF ListChunks, Unindex, DropChunks, EraseOriginal, DeleteRead, DeleteRow, stores, history
  <2>3. row' \in [Sources -> Row] /\ object' \in [Sources -> Contents \cup {None}]
    BY <1>2 DEF ListChunks, Unindex, DropChunks, EraseOriginal, DeleteRead, DeleteRow, stores, history,
       TypeInv, TypeOK
  <2>4. doomed' \in [Calls -> SUBSET Emission]
    BY DEF ListChunks, Unindex, DropChunks, EraseOriginal, DeleteRead, DeleteRow, Return, Of, TypeInv, TypeOK
  <2>5. \A e \in doomed'[k] : e.source = s
    BY <1>1 DEF ListChunks, Unindex, DropChunks, EraseOriginal, DeleteRead, DeleteRow, Return, Of, TypeInv,
       TypeOK, CallOK
  <2>6. TypeOK'
    BY <1>1, <2>1, <2>2, <2>3, <2>4, GotoTyped DEF TypeInv, TypeOK, Places
  <2>7. CallOK(k)'
    BY <1>1, <2>1, <2>2, <2>5, GotoTyped DEF CallOK, PlacesOf, Places
  <2> QED BY <2>6, <2>7, CallKept DEF Step
<1> QED BY <1>3, <1>4

\* Every step keeps the types.
LEMMA TypeStep == TypeInv /\ [Next]_vars => TypeInv'
<1> SUFFICES ASSUME TypeInv, [Next]_vars PROVE TypeInv'
  OBVIOUS
<1>1. ASSUME NEW k \in Calls, CallDies(k) PROVE TypeInv'
  <2>1. faults' \in Nat
    BY <1>1 DEF CallDies, TypeInv, TypeOK
  <2>2. TypeOK' /\ CallOK(k)'
    BY <1>1, <2>1, ReturnTyped DEF CallDies, TypeInv, TypeOK, stores, history
  <2> QED BY <1>1, <2>2, CallKept
<1>2. CASE UNCHANGED vars
  BY <1>2 DEF TypeInv, TypeOK, UsedInv, CallOK, vars, stores, calls, history
<1>3. ASSUME NEW k \in Calls, Step(k) PROVE TypeInv'
  BY <1>3, TypeSubmit, TypeMerge, TypeFill, TypeRemove DEF Step
<1> QED BY <1>1, <1>2, <1>3, TypeArrive DEF Next, Rest

\* The four stores, the requests in flight and the histories keep their types.
THEOREM TypeCorrect == Spec => []TypeOK
<1>1. TypeInv => TypeOK
  BY DEF TypeInv
<1> QED BY <1>1, TypeInit, TypeStep, PTL DEF Spec

-----------------------------------------------------------------------------
(* Equal bytes, equal source.                                                *)

\* The steps that write rows: a row takes contents that no other row has.
LEMMA RowWrites ==
  ASSUME TypeInv, NEW k \in Calls, Step(k)
  PROVE  LET s == request[k].source
         IN  \/ row' = row
             \/ /\ row' = [row EXCEPT ![s] = row'[s]] /\ s \in Sources
                /\ row'[s].content # None => ~Taken(row'[s].content, s)
                /\ \/ AddFailed(k) /\ row'[s] = mine[k] /\ pc'[k] = "idle"
                   \/ InsertRow(k) /\ row'[s] = mine[k] /\ pc'[k] = "clear"
                   \/ MergeWrite(k) /\ row'[s] = Merged(k) /\ pc'[k] = "clear"
                   \/ DeleteRow(k) /\ row'[s] = NoRow /\ s \in removed' /\ pc'[k] = "answer"
<1> DEFINE s == request[k].source
<1>1. CallOK(k) /\ row \in [Sources -> Row]
  BY DEF TypeInv, TypeOK
<1> USE DEF TypeInv, TypeOK, Return, Goto, stores
<1>2. CASE AddFailed(k)
  <2>1. s \in Sources /\ mine[k].content = request[k].content
    BY <1>1, <1>2, PlaceTells DEF CallOK, AddFailed
  <2> QED BY <1>2, <2>1 DEF AddFailed
<1>3. CASE InsertRow(k)
  <2>1. s \in Sources /\ mine[k].content = request[k].content
    BY <1>1, <1>3, PlaceTells DEF CallOK, InsertRow
  <2> QED BY <1>3, <2>1 DEF InsertRow
<1>4. CASE MergeWrite(k)
  <2>1. s \in Sources
    BY <1>4, PlaceTells DEF MergeWrite
  <2> QED BY <1>4, <2>1 DEF MergeWrite
<1>5. CASE DeleteRow(k)
  <2>1. s \in Sources
    BY <1>5, PlaceTells DEF DeleteRow
  <2> QED BY <1>5, <2>1 DEF DeleteRow, NoRow
<1>6. CASE Lookup(k) \/ Store(k) \/ Relookup(k) \/ MergeRead(k) \/ Clear(k) \/ Fill(k) \/ Index(k)
           \/ Answer(k) \/ ListChunks(k) \/ Unindex(k) \/ DropChunks(k) \/ EraseOriginal(k)
           \/ DeleteRead(k)
  BY <1>6 DEF Lookup, Store, Relookup, MergeRead, Clear, Fill, Index, Answer, ListChunks, Unindex,
     DropChunks, EraseOriginal, DeleteRead
<1> QED BY <1>2, <1>3, <1>4, <1>5, <1>6 DEF Step

\* Every source a call is about was handed out.
LEMMA CallsHold ==
  ASSUME TypeInv, NEW k \in Calls, request[k].source # None
  PROVE  request[k].op # "none" /\ request[k].source \in used /\ request[k].source \in Sources
<1>1. CallOK(k)
  BY DEF TypeInv
<1>2. request[k].op # "none"
  BY <1>1 DEF CallOK, NoRequest
<1> QED BY <1>1, <1>2, PlaceTells DEF CallOK

\* What arrives: a submit with a source that is new, a replace of a source that
\* exists, or a removal of one, which finds nobody at work or entangles it.
LEMMA ArriveShape ==
  ASSUME TypeInv, NEW k \in Calls, Arrive(k)
  PROVE  \E s \in Sources :
           /\ request'[k].source = s /\ pc[k] = "idle" /\ used' \subseteq used \cup {s}
           /\ UNCHANGED <<row, object, chunks, vectors, answers, removed, faults>>
           /\ \/ /\ request'[k].op = "submit" /\ s \notin used
                 /\ pc'[k] \in {"lookup", "add_failed"}
              \/ request'[k].op = "replace" /\ Exists(s) /\ s \in entangled'
              \/ /\ request'[k].op = "remove" /\ Exists(s) /\ pc'[k] = "list"
                 /\ mine'[k] = row[s] /\ (Busy(s) => s \in entangled')
<1> USE DEF TypeInv, TypeOK, Enter, Goto, stores
<1>1. PICK s \in Sources : (\E c \in Contents : Submit(k, s, c) \/ Replace(k, s, c)) \/ Remove(k, s)
  BY DEF Arrive
<1>2. CASE \E c \in Contents : Submit(k, s, c)
  BY <1>2 DEF Submit
<1>3. CASE \E c \in Contents : Replace(k, s, c)
  BY <1>3 DEF Replace
<1>4. CASE Remove(k, s)
  BY <1>4 DEF Remove
<1> QED BY <1>1, <1>2, <1>3, <1>4

\* A call goes on with its request or returns, and a submit that fills its
\* source has its row.
LEMMA StepFlow ==
  ASSUME TypeInv, NEW k \in Calls, Step(k) \/ CallDies(k)
  PROVE  /\ request'[k] = request[k] \/ (request'[k] = NoRequest /\ pc'[k] = "idle")
         /\ pc'[k] \in Submitting /\ request[k].op = "submit" => pc[k] \in Submitting /\ row' = row
         /\ pc'[k] \in Filling /\ request[k].op = "submit" =>
              \/ row' = row /\ pc[k] \in Filling
              \/ row'[request[k].source].content = request[k].content
<1> USE DEF TypeInv, TypeOK, Return, Goto, AnswerWith, stores, Submitting, Filling
<1>1. CASE InsertRow(k)
  <2>1. request[k].op = "submit" /\ request[k].source \in Sources /\ CallOK(k)
    BY <1>1, PlaceTells DEF InsertRow
  <2> QED BY <1>1, <2>1 DEF InsertRow, CallOK
<1>2. CASE Lookup(k) \/ AddFailed(k) \/ Store(k) \/ Relookup(k)
  BY <1>2 DEF Lookup, AddFailed, Store, Relookup
<1>3. CASE Clear(k) \/ Fill(k) \/ Index(k) \/ Answer(k)
  BY <1>3 DEF Clear, Fill, Index, Answer
<1>4. CASE MergeRead(k) \/ MergeWrite(k)
  <2>1. request[k].op = "replace"
    BY <1>4, PlaceTells DEF MergeRead, MergeWrite
  <2> QED BY <1>4, <2>1 DEF MergeRead, MergeWrite
<1>5. CASE ListChunks(k) \/ Unindex(k) \/ DropChunks(k) \/ EraseOriginal(k)
              \/ DeleteRead(k) \/ DeleteRow(k)
  <2>1. request[k].op = "remove"
    BY <1>5, PlaceTells DEF ListChunks, Unindex, DropChunks, EraseOriginal, DeleteRead, DeleteRow
  <2> QED BY <1>5, <2>1 DEF ListChunks, Unindex, DropChunks, EraseOriginal, DeleteRead, DeleteRow
<1>6. CASE CallDies(k)
  BY <1>6 DEF CallDies
<1> QED BY <1>1, <1>2, <1>3, <1>4, <1>5, <1>6 DEF Step

\* No step gives two rows the same bytes.
LEMMA DistinctStep ==
  ASSUME TypeInv, Distinct, NEW k \in Calls, Arrive(k) \/ Step(k) \/ CallDies(k)
  PROVE  Distinct'
<1>1. CASE row' = row
  BY <1>1 DEF Distinct
<1>2. CASE Arrive(k) \/ CallDies(k)
  BY <1>1, <1>2 DEF Arrive, Submit, Replace, Remove, Enter, CallDies, stores
<1>3. CASE Step(k) /\ row' # row
  <2> DEFINE s == request[k].source
  <2>1. /\ s \in Sources /\ row' = [row EXCEPT ![s] = row'[s]]
        /\ row'[s].content # None => ~Taken(row'[s].content, s)
    BY <1>3, RowWrites
  <2>2. \A t \in Sources \ {s} : row'[t] = row[t]
    BY <2>1 DEF TypeInv, TypeOK
  <2> QED BY <2>1, <2>2 DEF Distinct, Taken
<1> QED BY <1>1, <1>2, <1>3

\* A submit keeps its source to itself until its row is there, and the row keeps
\* the bytes until another call comes.
LEMMA SubmitStep ==
  ASSUME TypeInv, SubmitInv, NEW k \in Calls, Arrive(k) \/ Step(k) \/ CallDies(k)
  PROVE  SubmitInv'
<1> DEFINE Held(j) ==
      /\ pc'[j] \in Submitting =>
           /\ row'[request'[j].source] = NoRow
           /\ \A i \in Calls : request'[i].source = request'[j].source => i = j
      /\ pc'[j] \in Filling =>
           \/ request'[j].source \in removed' \cup entangled'
           \/ row'[request'[j].source].content = request'[j].content
<1> SUFFICES ASSUME NEW j \in Calls, request'[j].op = "submit" PROVE Held(j)
  BY DEF SubmitInv
<1>1. /\ \A i \in Calls \ {k} : Same(i)
      /\ removed \cup entangled \subseteq removed' \cup entangled'
  BY OthersStay
<1>2. \A i \in Calls : request[i].source # None => request[i].source \in used
  BY CallsHold
<1>3. CASE Arrive(k)
  <2>1. PICK s \in Sources :
          /\ request'[k].source = s /\ row' = row
          /\ \/ s \notin used /\ pc'[k] \in {"lookup", "add_failed"}
             \/ Exists(s) /\ request'[k].op # "submit"
    BY <1>3, ArriveShape
  <2>2. row' = row /\ request'[k].source = s
    BY <2>1
  <2>3. CASE j = k
    <3>1. s \notin used /\ pc'[k] \in Submitting \ Filling
      BY <2>1, <2>3 DEF Submitting, Filling
    <3>2. row[s] = NoRow
      BY <3>1 DEF TypeInv, UsedInv
    <3>3. \A i \in Calls \ {k} : request'[i].source # s
      BY <1>1, <1>2, <3>1, NoneAssumption DEF Same
    <3> QED BY <2>2, <2>3, <3>1, <3>2, <3>3
  <2>4. CASE j # k
    <3>1. Same(j) /\ request[j].op = "submit"
      BY <1>1, <2>4 DEF Same
    <3>2. request[j].source \in used
      BY <3>1 DEF TypeInv, CallOK
    <3>3. s \notin used \/ row[s] # NoRow
      BY <2>1 DEF Exists, NoRow
    <3>4. pc[j] \in Submitting => s # request[j].source
      BY <3>1, <3>2, <3>3 DEF SubmitInv
    <3> QED BY <1>1, <2>2, <2>4, <3>1, <3>4 DEF SubmitInv, Same
  <2> QED BY <2>3, <2>4
<1>4. CASE Step(k) \/ CallDies(k)
  <2>1. request'[k] = request[k] \/ request'[k] = NoRequest
    BY <1>4, StepFlow
  <2>2. request'[j] = request[j] /\ request[j].source \in Sources
    <3>1. request'[j] = request[j]
      BY <1>1, <2>1 DEF Same, NoRequest
    <3> QED BY <3>1, PlaceTells
  <2>3. \A i \in Calls : request'[i].source = request'[j].source => request[i].source = request[j].source
    BY <1>1, <2>1, <2>2, NoneAssumption DEF Same, NoRequest
  <2>4. CASE j = k
    <3>1. CASE pc'[k] \in Submitting
      <4>1. pc[k] \in Submitting /\ row' = row
        BY <1>4, <2>2, <2>4, <3>1, StepFlow
      <4>2. pc'[k] \notin Filling
        BY <3>1 DEF Submitting, Filling
      <4> QED BY <2>2, <2>3, <2>4, <4>1, <4>2 DEF SubmitInv
    <3>2. CASE pc'[k] \in Filling
      <4>1. pc'[k] \notin Submitting
        BY <3>2 DEF Submitting, Filling
      <4>2. \/ row' = row /\ pc[k] \in Filling
            \/ row'[request[k].source].content = request[k].content
        BY <1>4, <2>2, <2>4, <3>2, StepFlow
      <4> QED BY <1>1, <2>2, <2>4, <4>1, <4>2 DEF SubmitInv
    <3> QED BY <2>4, <3>1, <3>2
  <2>5. CASE j # k
    <3>1. Same(j) /\ request[j].op = "submit"
      BY <1>1, <2>5 DEF Same
    <3>2. pc[j] \in Submitting => request[k].source # request[j].source
      BY <2>5, <3>1 DEF SubmitInv
    <3>3. request[k].source # request[j].source => row'[request[j].source] = row[request[j].source]
      BY <1>4, <2>2, OwnSource
    <3>4. CASE request[k].source # request[j].source
      BY <1>1, <2>2, <2>3, <3>1, <3>3, <3>4 DEF SubmitInv, Same
    <3>5. CASE request[k].source = request[j].source
      <4>1. row' = row \/ request[k].source \in removed' \cup entangled'
        <5>1. CASE AddFailed(k) \/ InsertRow(k)
          <6>1. request[k].op = "submit" /\ pc[k] \in Submitting
            BY <5>1, PlaceTells DEF AddFailed, InsertRow, Submitting
          <6> QED BY <2>5, <3>5, <6>1 DEF SubmitInv
        <5>2. CASE MergeWrite(k)
          <6>1. request[k].op = "replace" /\ CallOK(k)
            BY <5>2, PlaceTells DEF MergeWrite, TypeInv
          <6> QED BY <1>1, <6>1 DEF CallOK
        <5>3. CASE CallDies(k)
          BY <5>3 DEF CallDies, stores
        <5> QED BY <1>4, <5>1, <5>2, <5>3, RowWrites
      <4> QED BY <1>1, <2>2, <3>1, <3>2, <3>5, <4>1 DEF SubmitInv, Same
    <3> QED BY <3>4, <3>5
  <2> QED BY <2>4, <2>5
<1> QED BY <1>3, <1>4

\* A submit is answered with a source that has its bytes.
LEMMA AnswerStep ==
  ASSUME TypeInv, BytesInv, NEW k \in Calls, Arrive(k) \/ Step(k) \/ CallDies(k)
  PROVE  AnswerInv'
<1> DEFINE s == request[k].source
           Good(a) == a.source \in removed' \cup entangled' \/ row'[a.source].content = a.content
<1>1. removed \cup entangled \subseteq removed' \cup entangled'
  BY OthersStay
<1>2. ASSUME NEW a \in answers PROVE Good(a)
  <2>1. a.source \in Sources /\ a.content \in Contents
    BY DEF TypeInv, TypeOK
  <2>2. a.source \in removed \cup entangled \/ row[a.source].content = a.content
    BY DEF BytesInv, AnswerInv
  <2>3. CASE row'[a.source] = row[a.source] \/ a.source \in removed \cup entangled
    BY <1>1, <2>2, <2>3
  <2>4. CASE row'[a.source] # row[a.source] /\ row[a.source].content = a.content
    <3>1. a.source = s /\ row' # row
      BY <2>1, <2>4, OwnSource
    <3>2. CASE AddFailed(k) \/ InsertRow(k)
      <4>1. request[k].op = "submit" /\ pc[k] \in Submitting
        BY <3>2, PlaceTells DEF AddFailed, InsertRow, Submitting
      <4>2. row[s] = NoRow
        BY <4>1 DEF BytesInv, SubmitInv
      <4> QED BY <2>1, <2>4, <3>1, <4>2, NoneAssumption DEF NoRow
    <3>3. CASE MergeWrite(k)
      <4>1. request[k].op = "replace" /\ CallOK(k)
        BY <3>3, PlaceTells DEF MergeWrite, TypeInv
      <4> QED BY <1>1, <3>1, <4>1 DEF CallOK
    <3>4. CASE Arrive(k) \/ CallDies(k)
      BY <3>1, <3>4 DEF Arrive, Submit, Replace, Remove, Enter, CallDies, stores
    <3> QED BY <3>1, <3>2, <3>3, <3>4, RowWrites
  <2> QED BY <2>2, <2>3, <2>4
<1>3. ASSUME NEW t \in Sources, answers' = answers \cup {[content |-> request[k].content, source |-> t]},
             row' = row, row[t].content = request[k].content \/ t \in removed' \cup entangled'
      PROVE  AnswerInv'
  <2>1. Good([content |-> request[k].content, source |-> t])
    BY <1>3
  <2> HIDE DEF Good
  <2>2. \A a \in answers' : Good(a)
    BY <1>2, <1>3, <2>1
  <2> QED BY <2>2 DEF AnswerInv, Good
<1>4. CASE answers' = answers
  BY <1>2, <1>4 DEF AnswerInv
<1>5. CASE Lookup(k) \/ Relookup(k)
  <2>1. Taken(request[k].content, s) =>
          Holder(request[k].content) \in Sources
          /\ row[Holder(request[k].content)].content = request[k].content
    BY DEF Taken, Holder
  <2> QED BY <1>3, <1>4, <1>5, <2>1 DEF Lookup, Relookup, AnswerWith, stores
<1>6. CASE Answer(k)
  <2>1. pc[k] \in Filling /\ row' = row
    BY <1>6 DEF Answer, Filling, stores
  <2>2. request[k].op = "submit" => s \in Sources
    BY PlaceTells
  <2>3. request[k].op = "submit" =>
          row[s].content = request[k].content \/ s \in removed' \cup entangled'
    BY <1>1, <2>1 DEF BytesInv, SubmitInv
  <2> QED BY <1>3, <1>4, <1>6, <2>1, <2>2, <2>3 DEF Answer, AnswerWith
<1>7. CASE ~(Lookup(k) \/ Relookup(k) \/ Answer(k))
  <2>1. CASE Arrive(k) \/ CallDies(k)
    BY <1>4, <2>1 DEF Arrive, Submit, Replace, Remove, Enter, CallDies, history
  <2>2. CASE AddFailed(k) \/ Store(k) \/ InsertRow(k) \/ MergeRead(k) \/ MergeWrite(k) \/ Clear(k)
    BY <1>4, <2>2 DEF AddFailed, Store, InsertRow, MergeRead, MergeWrite, Clear, history
  <2>3. CASE \/ Fill(k) \/ Index(k) \/ ListChunks(k) \/ Unindex(k) \/ DropChunks(k)
             \/ EraseOriginal(k) \/ DeleteRead(k) \/ DeleteRow(k)
    BY <1>4, <2>3 DEF Fill, Index, ListChunks, Unindex, DropChunks, EraseOriginal, DeleteRead, DeleteRow, history
  <2> QED BY <1>7, <2>1, <2>2, <2>3 DEF Step
<1> QED BY <1>5, <1>6, <1>7

\* Every step keeps the three.
LEMMA BytesStep == TypeInv /\ BytesInv /\ [Next]_vars => BytesInv'
<1> SUFFICES ASSUME TypeInv, BytesInv, [Next]_vars PROVE BytesInv'
  OBVIOUS
<1>1. ASSUME NEW k \in Calls, Arrive(k) \/ Step(k) \/ CallDies(k) PROVE BytesInv'
  BY <1>1, DistinctStep, SubmitStep, AnswerStep DEF BytesInv
<1>2. CASE UNCHANGED vars
  BY <1>2 DEF BytesInv, Distinct, SubmitInv, AnswerInv, vars, stores, calls, history
<1> QED BY <1>1, <1>2 DEF Next, Rest

\* There is nothing at first.
LEMMA BytesInit == Init => BytesInv
BY DEF Init, BytesInv, Distinct, SubmitInv, AnswerInv, NoRow, NoRequest

\* Two submits of the same bytes, however many run at once, are answered with
\* one source, unless one of the two was removed or replaced: the rows the two
\* answers name have the same bytes, and the UNIQUE index has only one such.
THEOREM SameBytes == Spec => []SameBytesSameSource
<1>1. TypeInv /\ BytesInv => SameBytesSameSource
  <2> SUFFICES ASSUME TypeInv, BytesInv, NEW a \in answers, NEW b \in answers,
                      a.content = b.content, a.source # b.source
               PROVE  {a.source, b.source} \cap (removed \cup entangled) # {}
    BY DEF SameBytesSameSource
  <2>1. a.content \in Contents /\ a.source \in Sources /\ b.source \in Sources
    BY DEF TypeInv, TypeOK
  <2> QED BY <2>1, NoneAssumption DEF BytesInv, Distinct, AnswerInv
<1> QED BY <1>1, BytesInit, BytesStep, TypeInit, TypeStep, PTL DEF Spec

-----------------------------------------------------------------------------
(* Ingested is indexed.                                                      *)

\* A call that leaves its source without chunks is about to store some or to
\* delete the row, and goes on to do it.
LEMMA RechunksOn ==
  ASSUME TypeInv, NEW k \in Calls, Step(k), NEW s \in Sources, request[k].source = s,
         row'[s].status = "ingested", Of(s, chunks') = {},
         Rechunks(k) \/ Of(s, chunks) # {} \/ row'[s] # row[s]
  PROVE  request'[k] = request[k] /\ Rechunks(k)'
<1> USE DEF TypeInv, TypeOK, Rechunks, Of, Goto, stores
<1>1. CASE Lookup(k) \/ Store(k) \/ Relookup(k) \/ MergeRead(k) \/ Index(k) \/ Answer(k)
           \/ ListChunks(k) \/ Unindex(k)
  BY <1>1 DEF Lookup, Store, Relookup, MergeRead, Index, Answer, ListChunks, Unindex
<1>2. CASE AddFailed(k)
  BY <1>2 DEF AddFailed, CallOK
<1>3. CASE InsertRow(k)
  BY <1>3 DEF InsertRow
<1>4. CASE MergeWrite(k)
  BY <1>4 DEF MergeWrite
<1>5. CASE Clear(k)
  BY <1>5 DEF Clear
<1>6. CASE Fill(k)
  <2>1. row' = row /\ pc[k] = "fill"
    BY <1>6 DEF Fill
  <2>2. Emitted(k) \in chunks'
    BY <1>6, <2>1 DEF Fill, Exists
  <2>3. Emitted(k).source = s
    BY DEF Emitted
  <2> QED BY <2>2, <2>3
<1>7. CASE DropChunks(k)
  BY <1>7 DEF DropChunks
<1>8. CASE EraseOriginal(k)
  BY <1>8 DEF EraseOriginal
<1>9. CASE DeleteRead(k) \/ DeleteRow(k)
  BY <1>9 DEF DeleteRead, DeleteRow, Exists, NoRow
<1> QED BY <1>1, <1>2, <1>3, <1>4, <1>5, <1>6, <1>7, <1>8, <1>9 DEF Step

\* A call that leaves a chunk without its vector is about to store the vector
\* or to drop the chunk, and does so.
LEMMA CoversOn ==
  ASSUME TypeInv, NEW k \in Calls, Step(k), NEW e \in chunks' \ vectors',
         Covers(k, e) \/ e \notin chunks \/ e \in vectors
  PROVE  Covers(k, e)'
<1> USE DEF TypeInv, TypeOK, Covers, Emitted, Goto, stores
<1>1. CASE Lookup(k) \/ AddFailed(k) \/ Store(k) \/ InsertRow(k) \/ Relookup(k) \/ MergeRead(k)
           \/ MergeWrite(k) \/ Clear(k) \/ Answer(k) \/ ListChunks(k) \/ EraseOriginal(k)
  BY <1>1 DEF Lookup, AddFailed, Store, InsertRow, Relookup, MergeRead, MergeWrite, Clear, Answer,
     ListChunks, EraseOriginal
<1>2. CASE Fill(k)
  BY <1>2 DEF Fill
<1>3. CASE Index(k)
  BY <1>3 DEF Index
<1>4. CASE Unindex(k)
  BY <1>4 DEF Unindex, CallOK
<1>5. CASE DropChunks(k)
  BY <1>5 DEF DropChunks, Of
<1>6. CASE DeleteRead(k) \/ DeleteRow(k)
  BY <1>6 DEF DeleteRead, DeleteRow, Of
<1> QED BY <1>1, <1>2, <1>3, <1>4, <1>5, <1>6 DEF Step

\* Faults are only ever counted up.
LEMMA FaultsGrow ==
  ASSUME TypeInv, NEW k \in Calls, Arrive(k) \/ Step(k) \/ CallDies(k), faults' = 0
  PROVE  faults = 0 /\ ~CallDies(k)
<1>1. faults \in Nat
  BY DEF TypeInv, TypeOK
<1>2. CASE CallDies(k)
  BY <1>1, <1>2 DEF CallDies
<1>3. CASE Store(k)
  BY <1>1, <1>3 DEF Store, CallDies
<1>4. CASE Arrive(k)
  BY <1>1, <1>4, ArriveShape DEF CallDies
<1>5. CASE Lookup(k) \/ AddFailed(k) \/ InsertRow(k) \/ Relookup(k) \/ MergeRead(k) \/ MergeWrite(k)
           \/ Clear(k) \/ Fill(k)
  BY <1>1, <1>5 DEF Lookup, AddFailed, InsertRow, Relookup, MergeRead, MergeWrite, Clear, Fill,
     CallDies
<1>6. CASE \/ Index(k) \/ Answer(k) \/ ListChunks(k) \/ Unindex(k) \/ DropChunks(k)
           \/ EraseOriginal(k) \/ DeleteRead(k) \/ DeleteRow(k)
  BY <1>1, <1>6 DEF Index, Answer, ListChunks, Unindex, DropChunks, EraseOriginal, DeleteRead, DeleteRow, CallDies
<1> QED BY <1>2, <1>3, <1>4, <1>5, <1>6 DEF Step

\* Every step of a call keeps both.
LEMMA IndexStep ==
  ASSUME TypeInv, IndexInv, NEW k \in Calls, Arrive(k) \/ Step(k) \/ CallDies(k), faults' = 0
  PROVE  IndexInv'
<1>1. faults = 0 /\ ~CallDies(k)
  BY FaultsGrow
<1>2. \A i \in Calls \ {k} : Same(i)
  BY OthersStay
<1>3. ASSUME NEW s \in Sources, row'[s].status = "ingested", Of(s, chunks') = {}
      PROVE  \E i \in Calls : request'[i].source = s /\ Rechunks(i)'
  <2>1. row[s].status = "ingested" /\ Of(s, chunks) = {} =>
          \E i \in Calls : request[i].source = s /\ Rechunks(i)
    BY <1>1 DEF IndexInv
  <2>2. ASSUME NEW i \in Calls \ {k}, request[i].source = s, Rechunks(i)
        PROVE  request'[i].source = s /\ Rechunks(i)'
    BY <1>2, <2>2 DEF Same, Rechunks
  <2>3. CASE s # request[k].source
    BY <1>3, <2>1, <2>2, <2>3, OwnSource
  <2>4. CASE s = request[k].source
    <3>1. Step(k)
      BY <1>1, <2>4, ArriveShape, PlaceTells, NoneAssumption DEF TypeInv, CallOK, NoRequest
    <3>2. CASE Rechunks(k) \/ Of(s, chunks) # {} \/ row'[s] # row[s]
      BY <1>3, <2>4, <3>1, <3>2, RechunksOn
    <3>3. CASE ~(Rechunks(k) \/ Of(s, chunks) # {} \/ row'[s] # row[s])
      BY <1>3, <2>1, <2>2, <3>3
    <3> QED BY <3>2, <3>3
  <2> QED BY <2>3, <2>4
<1>4. ASSUME NEW e \in chunks' \ vectors' PROVE \E i \in Calls : Covers(i, e)'
  <2>1. ASSUME NEW i \in Calls \ {k}, Covers(i, e) PROVE Covers(i, e)'
    BY <1>2, <2>1 DEF Same, Covers, Emitted
  <2>2. CASE Arrive(k)
    <3>1. e \in chunks \ vectors /\ pc[k] = "idle"
      BY <2>2, ArriveShape
    <3>2. PICK i \in Calls : Covers(i, e)
      BY <1>1, <3>1 DEF IndexInv
    <3>3. i # k
      BY <3>1, <3>2 DEF Covers
    <3> QED BY <2>1, <3>2, <3>3
  <2>3. CASE Step(k) /\ (Covers(k, e) \/ e \notin chunks \/ e \in vectors)
    BY <2>3, CoversOn
  <2>4. CASE ~Covers(k, e) /\ e \in chunks \ vectors
    BY <1>1, <2>1, <2>4 DEF IndexInv
  <2> QED BY <1>1, <2>2, <2>3, <2>4
<1> QED BY <1>3, <1>4 DEF IndexInv

\* As long as no call died and no store refused, a source that is ingested and
\* that nobody works on is searchable: it has chunks, and each has its vector.
THEOREM Indexed == Spec => []IngestedIsIndexed
<1>1. Init => IndexInv
  BY DEF Init, IndexInv, NoRow
<1>2. TypeInv /\ IndexInv /\ [Next]_vars => IndexInv'
  <2> SUFFICES ASSUME TypeInv, IndexInv, [Next]_vars, faults' = 0 PROVE IndexInv'
    BY DEF IndexInv
  <2>1. CASE UNCHANGED vars
    BY <2>1 DEF IndexInv, Rechunks, Covers, Emitted, Of, vars, stores, calls, history
  <2> QED BY <2>1, IndexStep DEF Next, Rest
<1>3. TypeInv /\ IndexInv => IngestedIsIndexed
  <2> SUFFICES ASSUME TypeInv, IndexInv, faults = 0,
                      NEW s \in Sources, Quiet(s), row[s].status = "ingested"
               PROVE  Of(s, chunks) # {} /\ Of(s, chunks) \subseteq vectors
    BY DEF IngestedIsIndexed
  <2>1. Of(s, chunks) # {}
    BY DEF IndexInv, Quiet, Busy
  <2>2. ASSUME NEW e \in Of(s, chunks), e \notin vectors PROVE FALSE
    <3>1. PICK k \in Calls : Covers(k, e)
      BY <2>2 DEF IndexInv, Of
    <3> QED BY <2>2, <3>1 DEF Covers, Emitted, Quiet, Busy, Of
  <2> QED BY <2>1, <2>2
<1> QED BY <1>1, <1>2, <1>3, TypeInit, TypeStep, PTL DEF Spec

-----------------------------------------------------------------------------
(* Removed leaves nothing.                                                   *)

\* A call that returned works on nothing.
LEMMA ReturnEnds ==
  ASSUME TypeInv, NEW k \in Calls, NEW s \in Sources, Return(k)
  PROVE  request'[k].source # s
BY NoneAssumption DEF TypeInv, TypeOK, Return, NoRequest

\* What its call does to a source that no replace and no second call touched:
\* first a submit, until its row is there,
LEMMA HandledSubmit ==
  ASSUME TypeInv, SubmitInv, NEW k \in Calls, NEW s \in Sources, request[k].source = s,
         Stored(s), Handled(k), request[k].op = "submit", faults' = faults,
         Lookup(k) \/ AddFailed(k) \/ Store(k) \/ InsertRow(k) \/ Relookup(k)
  PROVE  Stored(s)' /\ (request'[k].source = s => Handled(k)')
<1>1. s \in used /\ pc[k] \in Submitting /\ s \notin removed
  BY DEF Submitting, TypeInv, CallOK, Handled, Lookup, AddFailed, Store, InsertRow, Relookup
<1>2. /\ Of(s, chunks) = {} /\ (object[s] # None => mine[k].key)
     /\ row[s] = NoRow
  BY <1>1 DEF Handled, SubmitInv
<1>3. UNCHANGED <<chunks, vectors, used, removed, entangled>>
  BY DEF Lookup, AddFailed, Store, InsertRow, Relookup, stores, history
<1> USE DEF TypeInv, TypeOK, Stored, Handled, Exists, Submitting, Goto
<1>4. CASE Lookup(k)
  BY <1>1, <1>2, <1>3, <1>4, ReturnEnds DEF Lookup, AnswerWith, stores
<1>5. CASE AddFailed(k)
  BY <1>1, <1>2, <1>3, <1>5, ReturnEnds DEF AddFailed
<1>6. CASE Store(k)
  <2>1. object' = [object EXCEPT ![s] = request[k].content] /\ mine' = [mine EXCEPT ![k].key = TRUE]
    BY <1>6 DEF Store
  <2>2. mine'[k].key /\ pc'[k] = "insert" /\ request' = request /\ row' = row
    BY <1>6, <2>1 DEF Store, Row
  <2> QED BY <1>1, <1>2, <1>3, <2>2 DEF NoRow
<1>7. CASE InsertRow(k)
  <2>1. request' = request /\ mine' = mine /\ object' = object
    BY <1>7 DEF InsertRow
  <2>2. CASE row' = row /\ pc'[k] = "relookup"
    BY <1>1, <1>2, <1>3, <2>1, <2>2
  <2>3. CASE row'[s] = mine[k] /\ pc'[k] = "clear"
    BY <1>1, <1>2, <1>3, <2>1, <2>3
  <2> QED BY <1>7, <2>2, <2>3 DEF InsertRow
<1>8. CASE Relookup(k)
  BY <1>1, <1>2, <1>3, <1>8, ReturnEnds DEF Relookup, AnswerWith, stores
<1> QED BY <1>4, <1>5, <1>6, <1>7, <1>8

\* then the submit as it fills its source,
LEMMA HandledFill ==
  ASSUME TypeInv, NEW k \in Calls, NEW s \in Sources, request[k].source = s,
         Stored(s), Handled(k), request[k].op \in {"submit", "remove"},
         Clear(k) \/ Fill(k) \/ Index(k) \/ Answer(k)
  PROVE  Stored(s)' /\ (request'[k].source = s => Handled(k)')
<1>1. s \in used /\ UNCHANGED <<row, object, used, removed>>
  BY DEF TypeInv, CallOK, Clear, Fill, Index, Answer, stores, history
<1> USE DEF TypeInv, TypeOK, Stored, Exists, Of, Goto
<1>2. CASE Clear(k)
  <2>1. UNCHANGED <<stores, request>> /\ pc'[k] = "fill" /\ s \notin removed /\ Of(s, chunks) = {}
    BY <1>2 DEF Clear, Handled
  <2> QED BY <1>1, <2>1 DEF Handled, Submitting, stores
<1>3. CASE Fill(k)
  <2>1. s \notin removed /\ Of(s, chunks) = {} /\ Of(s, vectors) = {} /\ vectors' = vectors
    BY <1>3 DEF Fill, Handled
  <2>2. CASE Return(k) /\ UNCHANGED chunks
    BY <1>1, <2>1, <2>2, ReturnEnds
  <2>3. CASE /\ chunks' = (chunks \ doomed[k]) \cup {Emitted(k)}
             /\ pc'[k] = "index" /\ request' = request
    <3>1. Emitted(k)' = Emitted(k)
      BY <2>3 DEF Emitted
    <3> QED BY <1>1, <2>1, <2>3, <3>1 DEF Handled, Submitting
  <2> QED BY <1>3, <2>2, <2>3 DEF Fill
<1>4. CASE Index(k)
  <2>1. /\ s \notin removed /\ Emitted(k) \in chunks
        /\ vectors' = vectors \cup {Emitted(k)} /\ chunks' = chunks
        /\ pc'[k] = "answer" /\ request' = request
    BY <1>4 DEF Index, Handled
  <2> QED BY <1>1, <2>1 DEF Handled, Submitting
<1>5. CASE Answer(k)
  <2>1. Return(k) /\ UNCHANGED <<chunks, vectors>>
    BY <1>5 DEF Answer, AnswerWith, stores
  <2> QED BY <1>1, <2>1, ReturnEnds
<1> QED BY <1>2, <1>3, <1>4, <1>5

\* and the removal.
LEMMA HandledRemove ==
  ASSUME TypeInv, NEW k \in Calls, NEW s \in Sources, request[k].source = s,
         Stored(s), Handled(k), request[k].op = "remove",
         ListChunks(k) \/ Unindex(k) \/ DropChunks(k) \/ EraseOriginal(k)
              \/ DeleteRead(k) \/ DeleteRow(k)
  PROVE  Stored(s)' /\ (request'[k].source = s => Handled(k)')
<1>1. s \in used /\ s \notin removed /\ used' = used
  BY DEF TypeInv, CallOK, Handled, ListChunks, Unindex, DropChunks, EraseOriginal, DeleteRead, DeleteRow, history
<1> USE DEF TypeInv, TypeOK, Stored, Exists, Of, Goto
<1>2. CASE ListChunks(k)
  <2>1. /\ doomed'[k] = Of(s, chunks) /\ UNCHANGED <<row, object, chunks, vectors, request, mine, removed>>
        /\ pc'[k] = "unindex" /\ (object[s] # None => mine[k].key)
    BY <1>2 DEF ListChunks, Handled, stores, history
  <2> QED BY <1>1, <2>1 DEF Handled, Submitting
<1>3. CASE Unindex(k)
  <2>1. /\ vectors' = vectors \ doomed[k] /\ Of(s, vectors) \subseteq doomed[k]
        /\ UNCHANGED <<row, object, chunks, request, mine, removed>>
        /\ pc'[k] = "drop" /\ (object[s] # None => mine[k].key)
    BY <1>3 DEF Unindex, Handled, history
  <2> QED BY <1>1, <2>1 DEF Handled, Submitting
<1>4. CASE DropChunks(k)
  <2>1. /\ chunks' = chunks \ Of(s, chunks) /\ Of(s, vectors) = {}
        /\ UNCHANGED <<row, object, vectors, request, mine, removed>>
        /\ pc'[k] = "erase" /\ (object[s] # None => mine[k].key)
    BY <1>4 DEF DropChunks, Handled, history
  <2> QED BY <1>1, <2>1 DEF Handled, Submitting
<1>5. CASE EraseOriginal(k)
  <2>1. /\ Of(s, chunks) = {} /\ Of(s, vectors) = {} /\ object'[s] = None
        /\ UNCHANGED <<row, chunks, vectors, request, mine, removed>> /\ pc'[k] = "delete_read"
    BY <1>5 DEF EraseOriginal, Handled, history
  <2> QED BY <1>1, <2>1 DEF Handled, Submitting
<1>6. CASE DeleteRead(k)
  <2>1. Of(s, chunks) = {} /\ Of(s, vectors) = {} /\ object[s] = None /\ UNCHANGED <<stores, removed>>
    BY <1>6 DEF DeleteRead, Handled, history
  <2>2. CASE Return(k)
    BY <1>1, <2>1, <2>2, ReturnEnds DEF stores
  <2>3. CASE pc'[k] = "delete" /\ UNCHANGED <<request, mine, doomed>>
    BY <1>1, <2>1, <2>3 DEF Handled, Submitting, stores
  <2> QED BY <1>6, <2>2, <2>3 DEF DeleteRead
<1>7. CASE DeleteRow(k)
  <2>1. Of(s, chunks) = {} /\ Of(s, vectors) = {} /\ object[s] = None /\ UNCHANGED <<object, vectors>>
    BY <1>7 DEF DeleteRow, Handled
  <2>2. /\ row'[s] = NoRow /\ chunks' = chunks \ Of(s, chunks) /\ removed' = removed \cup {s}
        /\ pc'[k] = "answer"
    BY <1>7 DEF DeleteRow
  <2> QED BY <1>1, <2>1, <2>2 DEF Handled, Submitting, NoRow
<1> QED BY <1>2, <1>3, <1>4, <1>5, <1>6, <1>7

\* Every step of a call keeps the stores of such sources in order: another call
\* works elsewhere, and an arriving one finds a new source, or entangles it, or
\* is the only one.
LEMMA RemovalStep ==
  ASSUME TypeInv, SubmitInv, RemovalInv, NEW k \in Calls, Arrive(k) \/ Step(k) \/ CallDies(k),
         faults' = 0
  PROVE  RemovalInv'
<1> DEFINE InOrder(s) ==
      Alone(s) /\ Stored(s) /\ \A i \in Calls : request[i].source = s => Handled(i)
<1> SUFFICES ASSUME NEW s \in Sources \ entangled' PROVE InOrder(s)'
  BY DEF RemovalInv
<1>1. faults = 0 /\ ~CallDies(k) /\ faults' = faults
  BY FaultsGrow
<1>2. /\ \A i \in Calls \ {k} : Same(i)
      /\ used \subseteq used' /\ removed \subseteq removed' /\ s \notin entangled
  BY OthersStay
<1>3. InOrder(s)
  BY <1>1, <1>2 DEF RemovalInv
<1>4. ASSUME s # request[k].source, s \in used' => s \in used
      PROVE  Stored(s)' /\ \A i \in Calls \ {k} : request'[i].source = s => Handled(i)'
  <2>1. /\ row'[s] = row[s] /\ object'[s] = object[s]
        /\ Of(s, chunks') = Of(s, chunks) /\ Of(s, vectors') = Of(s, vectors)
        /\ s \in removed' <=> s \in removed
    BY <1>2, <1>4, OwnSource
  <2>2. Stored(s)'
    BY <1>2, <1>3, <1>4, <2>1 DEF Stored, Exists, Of
  <2>3. ASSUME NEW i \in Calls \ {k}, request'[i].source = s PROVE Handled(i)'
    <3>1. Same(i) /\ request[i].source = s /\ Handled(i) /\ Emitted(i)' = Emitted(i)
          /\ Emitted(i).source = s
      BY <1>2, <1>3, <2>3 DEF Same, Emitted
    <3> QED BY <2>1, <3>1 DEF Handled, Same, Of
  <2> QED BY <2>2, <2>3
<1>5. CASE Arrive(k)
  <2>1. PICK t \in Sources :
          /\ request'[k].source = t /\ pc[k] = "idle" /\ used' \subseteq used \cup {t}
          /\ UNCHANGED <<row, object, chunks, vectors, answers, removed, faults>>
          /\ \/ /\ request'[k].op = "submit" /\ t \notin used
                /\ pc'[k] \in {"lookup", "add_failed"}
             \/ request'[k].op = "replace" /\ Exists(t) /\ t \in entangled'
             \/ /\ request'[k].op = "remove" /\ Exists(t) /\ pc'[k] = "list"
                /\ mine'[k] = row[t] /\ (Busy(t) => t \in entangled')
    BY <1>5, ArriveShape
  <2>2. request[k].source = None
    BY <2>1, PlaceTells DEF TypeInv, CallOK, NoRequest
  <2>3. \A i \in Calls \ {k} : request'[i].source = request[i].source
    BY <1>2 DEF Same
  <2>4. CASE t # s
    <3>1. s # request[k].source /\ (s \in used' => s \in used)
      BY <2>1, <2>2, <2>4, NoneAssumption
    <3>2. Alone(s)'
      BY <1>3, <2>1, <2>3, <2>4 DEF Alone
    <3> QED BY <1>4, <2>1, <2>4, <3>1, <3>2
  <2>5. CASE t = s /\ s \notin used
    <3>1. \A i \in Calls \ {k} : request'[i].source # s
      BY <2>3, <2>5, CallsHold, NoneAssumption
    <3>2. s \notin removed /\ Of(s, chunks) = {} /\ object[s] = None /\ Of(s, vectors) \subseteq chunks
      BY <1>3, <2>5 DEF Stored
    <3>3. Alone(s)'
      BY <3>1 DEF Alone
    <3>4. Stored(s)'
      BY <2>1, <3>2 DEF Stored, Of
    <3>5. pc'[k] \in {"lookup", "add_failed"}
      BY <1>3, <2>1, <2>5 DEF Stored, Exists, TypeInv, UsedInv, NoRow
    <3>6. Handled(k)'
      BY <2>1, <2>5, <3>2, <3>5 DEF Handled, Submitting
    <3> QED BY <3>1, <3>3, <3>4, <3>6
  <2>6. CASE t = s /\ s \in used
    <3>1. Exists(s) /\ pc'[k] = "list" /\ mine'[k] = row[s] /\ ~Busy(s)
      BY <2>1, <2>6
    <3>2. \A i \in Calls \ {k} : request'[i].source # s
      BY <2>3, <3>1 DEF Busy
    <3>3. s \notin removed
      BY <1>3, <3>1 DEF Stored
    <3>4. Alone(s)'
      BY <3>2 DEF Alone
    <3>5. Stored(s)'
      BY <1>2, <1>3, <2>1, <2>6, <3>3 DEF Stored, Exists, Of
    <3>6. Handled(k)'
      BY <1>3, <2>1, <2>6, <3>1, <3>3 DEF Handled, Submitting, Stored, Exists
    <3> QED BY <3>2, <3>4, <3>5, <3>6
  <2> QED BY <2>4, <2>5, <2>6
<1>6. CASE Step(k)
  <2>1. request'[k] = request[k] \/ request'[k] = NoRequest
    BY <1>6, StepFlow
  <2>2. \A i \in Calls : request'[i].source = s => request[i].source = s
    BY <1>2, <2>1, NoneAssumption DEF Same, NoRequest
  <2>3. Alone(s)'
    BY <1>3, <2>2 DEF Alone
  <2>4. CASE request[k].source # s
    <3>1. used' = used
      BY <1>6 DEF Step, Lookup, AddFailed, Store, InsertRow, Relookup, MergeRead, MergeWrite, Clear,
         Fill, Index, Answer, ListChunks, Unindex, DropChunks, EraseOriginal, DeleteRead, DeleteRow, history
    <3> QED BY <1>4, <2>2, <2>3, <2>4, <3>1
  <2>5. CASE request[k].source = s
    <3>1. request[k].op \in {"submit", "remove"}
      BY <1>2, <2>5, PlaceTells, CallsHold, NoneAssumption DEF TypeInv, CallOK
    <3>2. Stored(s)' /\ (request'[k].source = s => Handled(k)')
      <4>1. CASE Lookup(k) \/ AddFailed(k) \/ Store(k) \/ InsertRow(k) \/ Relookup(k)
        <5>1. request[k].op = "submit"
          BY <3>1, <4>1, PlaceTells DEF Lookup, AddFailed, Store, InsertRow, Relookup
        <5> QED BY <1>1, <1>3, <2>5, <4>1, <5>1, HandledSubmit
      <4>2. CASE Clear(k) \/ Fill(k) \/ Index(k) \/ Answer(k)
        BY <1>3, <2>5, <3>1, <4>2, HandledFill
      <4>3. CASE ListChunks(k) \/ Unindex(k) \/ DropChunks(k) \/ EraseOriginal(k)
              \/ DeleteRead(k) \/ DeleteRow(k)
        <5>1. request[k].op = "remove"
          BY <4>3, PlaceTells DEF ListChunks, Unindex, DropChunks, EraseOriginal, DeleteRead, DeleteRow
        <5> QED BY <1>3, <2>5, <4>3, <5>1, HandledRemove
      <4>4. ~(MergeRead(k) \/ MergeWrite(k))
        BY <3>1, PlaceTells DEF MergeRead, MergeWrite
      <4> QED BY <1>6, <4>1, <4>2, <4>3, <4>4 DEF Step
    <3>3. \A i \in Calls : request'[i].source = s => i = k
      BY <1>3, <2>2, <2>5 DEF Alone
    <3> QED BY <2>3, <3>2, <3>3
  <2> QED BY <2>4, <2>5
<1> QED BY <1>1, <1>5, <1>6

\* As long as no call died and no store refused, a source that was never
\* replaced and that one call at a time worked on leaves nothing behind when it
\* is removed, in any of the four stores.
THEOREM RemovedGone == Spec => []RemovedLeavesNothing
<1>1. Init => RemovalInv
  BY NoneAssumption DEF Init, RemovalInv, Alone, Stored, Exists, Of, NoRow, NoRequest
<1>2. TypeInv /\ BytesInv /\ RemovalInv /\ [Next]_vars => RemovalInv'
  <2> SUFFICES ASSUME TypeInv, BytesInv, RemovalInv, [Next]_vars, faults' = 0 PROVE RemovalInv'
    BY DEF RemovalInv
  <2>1. CASE UNCHANGED vars
    BY <2>1 DEF RemovalInv, Alone, Stored, Handled, Exists, Of, Emitted, vars, stores, calls, history
  <2> QED BY <2>1, RemovalStep DEF Next, Rest, BytesInv
<1>3. TypeInv /\ RemovalInv => RemovedLeavesNothing
  <2> SUFFICES ASSUME TypeInv, RemovalInv, faults = 0, NEW s \in removed \ entangled
               PROVE  ~Exists(s) /\ object[s] = None /\ Of(s, chunks \cup vectors) = {}
    BY DEF RemovedLeavesNothing
  <2> QED BY DEF TypeInv, TypeOK, RemovalInv, Stored, Of
<1> QED BY <1>1, <1>2, <1>3, TypeInit, TypeStep, BytesInit, BytesStep, PTL DEF Spec
===============================================================================
