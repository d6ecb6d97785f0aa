------------------------- MODULE EmbeddingSetsProofs -------------------------
(***************************************************************************)
(* Proofs about EmbeddingSets, for any finite sets of ids and chunks, any  *)
(* number of ingests and operators, and any bounds: the types; that the    *)
(* set a workspace points at is kept and is the active one; which set a    *)
(* rollback offers; and that a set that can be served is complete.         *)
(***************************************************************************)
EXTENDS EmbeddingSets, FiniteSetTheorems, TLAPS

-----------------------------------------------------------------------------
(* The largest of finitely many numbers.                                     *)

LEMMA FiniteHasMax ==
  ASSUME NEW S \in SUBSET Nat, IsFiniteSet(S), S # {}
  PROVE  Max(S) \in S /\ \A y \in S : Max(S) >= y
<1> DEFINE Top(U) == \E x \in U : \A y \in U : x >= y
           Bad == {U \in SUBSET S : U # {} /\ ~Top(U)}
<1>1. ASSUME Bad # {} PROVE FALSE
  <2> DEFINE R == StrictSubsetOrdering(S)
  <2>1. IsWellFoundedOn(R, SUBSET S)
    BY FS_StrictSubsetOrderingWellFounded, FS_FiniteSubsetsOfFinite
  <2> HIDE DEF R
  <2>2. PICK U \in Bad : \A V \in Bad : <<V, U>> \notin R
    BY <1>1, <2>1, WFMin
  <2>3. PICK x \in U : TRUE
    BY <2>2
  <2> DEFINE V == U \ {x}
  <2>4. V \in SUBSET S /\ U \in SUBSET S /\ V # U /\ V \subseteq U
    BY <2>2, <2>3
  <2>5. <<V, U>> \in R
    BY <2>4 DEF R, StrictSubsetOrdering
  <2>6. V = {} \/ Top(V)
    BY <2>2, <2>4, <2>5
  <2>7. CASE V = {}
    BY <2>2, <2>3, <2>7
  <2>8. CASE Top(V)
    <3>1. PICK m \in V : \A y \in V : m >= y
      BY <2>8
    <3>2. m \in Nat /\ x \in Nat /\ m \in U
      BY <2>3, <2>4, <3>1
    <3>3. CASE m >= x
      <4>1. \A y \in U : m >= y
        BY <3>1, <3>3
      <4> QED BY <2>2, <3>2, <4>1
    <3>4. CASE ~(m >= x)
      <4>1. \A y \in U : x >= y
        <5> SUFFICES ASSUME NEW y \in U PROVE x >= y
          OBVIOUS
        <5>1. y \in Nat
          BY <2>4
        <5> QED BY <3>1, <3>2, <3>4, <5>1
      <4> QED BY <2>2, <2>3, <4>1
    <3> QED BY <3>3, <3>4
  <2> QED BY <2>6, <2>7, <2>8
<1>2. Top(S)
  BY <1>1
<1> QED BY <1>2 DEF Max

\* The clock is later than every time there is.
LEMMA NowIsLater ==
  ASSUME TypeOK, Sets # {}
  PROVE  Now \in Nat /\ \A s \in Sets : sets[s].retired_at < Now /\ left[s] < Now
<1> DEFINE f == [s \in Sets |-> sets[s].retired_at]
           A == {sets[s].retired_at : s \in Sets}
           B == {left[s] : s \in Sets}
           m == Max(A \cup B)
<1>1. A \in SUBSET Nat /\ B \in SUBSET Nat
  BY DEF TypeOK, SetRow
<1>2. IsFiniteSet(A)
  <2>1. f \in Surjection(Sets, A)
    BY DEF Surjection
  <2> QED BY <2>1, FS_Surjection, SetsAssumption
<1>3. IsFiniteSet(B)
  <2>1. left \in Surjection(Sets, B)
    BY DEF Surjection, TypeOK
  <2> QED BY <2>1, FS_Surjection, SetsAssumption
<1>4. Now = 1 + m
  BY DEF Now
<1>5. \A s \in Sets : sets[s].retired_at \in A /\ left[s] \in B
  OBVIOUS
<1>6. A # {}
  BY TypeOK
<1> HIDE DEF A, B
<1>7. IsFiniteSet(A \cup B) /\ A \cup B \in SUBSET Nat /\ A \cup B # {}
  BY <1>1, <1>2, <1>3, <1>6, FS_Union
<1>8. m \in Nat /\ \A y \in A \cup B : m >= y
  BY <1>7, FiniteHasMax
<1> HIDE DEF m
<1>9. ASSUME NEW s \in Sets PROVE sets[s].retired_at < Now /\ left[s] < Now
  <2>1. sets[s].retired_at \in Nat /\ left[s] \in Nat
    BY <1>1, <1>5
  <2>2. m >= sets[s].retired_at /\ m >= left[s]
    BY <1>5, <1>8
  <2> QED BY <1>4, <1>8, <2>1, <2>2
<1> QED BY <1>4, <1>8, <1>9

-----------------------------------------------------------------------------
(* The invariants.                                                           *)

\* A set that has been made has a model, which never changes.
Made(s) == sets[s].model # None

MadeInv ==
  /\ \A s \in Sets : ~Made(s) =>
       sets[s] = NoSet /\ due[s] = {} /\ left[s] = 0 /\ s \notin reopened \cup condemned
  /\ \A s \in Sets : Made(s) /\ ~Exists(s) => s \in condemned
  /\ pointer # None => Made(pointer)

IngestOK(i) ==
  /\ ingest[i].at # "idle" => ingest[i].chunk \in Chunks
  /\ ingest[i].at \in {"point", "insert", "upsert"} => ingest[i].set \in Sets /\ Made(ingest[i].set)
  /\ ingest[i].at \in {"unindex", "delete"} => ingest[i].chunk \in doomed

CommandOK(o) ==
  /\ command[o].at # "idle" => command[o].set \in Sets /\ Made(command[o].set)
  /\ command[o].previous # None => Made(command[o].previous)
  /\ command[o].at = "retire" => command[o].previous \notin {None, command[o].set}
  /\ command[o].at \in Dropping => command[o].set \in condemned

TypeInv ==
  /\ TypeOK /\ MadeInv
  /\ \A i \in Ingests : IngestOK(i)
  /\ \A o \in Operators : CommandOK(o)

\* A set has, or an ingest into it is about to write, the vector of a chunk;
\* the sets and chunks of which the stamps say nothing are left out.
Covers(s, c) ==
  s \notin condemned /\ OnlyOfItsModel(s) /\ c \notin doomed =>
    <<s, c>> \in vectors \/ into[c] = s

\* What a run has embedded: the batch it is about to stamp, and, in the
\* catch-up, every chunk it found there that its scan has passed.
WalkOK(o) ==
  LET k == command[o]
  IN  /\ k.at = "stamp" => \A c \in k.batch : Covers(k.set, c)
      /\ k.at \in Building /\ k.catchup =>
           /\ \A c \in k.found : stamp[c] # None \/ c \in doomed
           /\ \A c \in k.found : c <= k.last /\ (k.at = "embed" => c \notin k.batch) => Covers(k.set, c)
      /\ k.at = "ready" => \A c \in k.found : Covers(k.set, c)

Entering == {"mint", "point", "insert"}
StampInv ==
  /\ \A c \in Chunks : stamp[c] # None => into[c] # None /\ \E s \in Sets : sets[s].model = stamp[c]
  /\ \A i \in Ingests : ingest[i].at \in Entering => into[ingest[i].chunk] = None
  /\ \A i, j \in Ingests :
       i # j /\ ingest[i].at \in Entering /\ ingest[j].at \in Entering => ingest[i].chunk # ingest[j].chunk
  /\ \A s \in Sets, c \in Chunks : Made(s) /\ stamp[c] = sets[s].model => Covers(s, c)

CompleteInv ==
  /\ StampInv
  /\ \A o \in Operators : WalkOK(o)
  /\ \A s \in Sets : \A c \in due[s] : Covers(s, c)

\* Nothing failed, and no two operations on the pointer overlapped.
Calm == faults = 0 /\ ~raced

Moves(o) == command[o].at \in Switching \cup Dropping
MovesIn(i) == ingest[i].at \in Switching
Solo ==
  /\ \A o, p \in Operators : Moves(o) /\ Moves(p) => o = p
  /\ \A i, j \in Ingests : MovesIn(i) /\ MovesIn(j) => i = j
  /\ \A i \in Ingests, o \in Operators : ~(MovesIn(i) /\ Moves(o))

Builds(o) == command[o].at \in Building
Switched(o) == command[o].at \in {"promote", "retire"}

\* A set that is being built, and was not resumed, is known to its run alone.
Private(o) ==
  LET s == command[o].set
  IN  Builds(o) /\ s \notin reopened =>
        /\ sets[s].status \in {"building", "absent"} /\ pointer # s
        /\ \A p \in Operators \ {o} :
             /\ Builds(p) \/ command[p].at \in Switching => command[p].set # s
             /\ command[p].at \in Switching => command[p].previous # s
        /\ \A i \in Ingests : ingest[i].at = "point" => ingest[i].set # s

\* What a command that switches relies on.
SwitchOK(o) ==
  LET k == command[o]
  IN  /\ k.at = "point" => k.previous = pointer
      /\ Switched(o) => pointer = k.set
      /\ k.at \in {"look", "point"} => Servable(k.set)
      /\ k.at = "promote" => Exists(k.set)

\* What the ingest that mints the first set relies on.
FirstOK(i) ==
  /\ ingest[i].at \in {"mint", "point"} => pointer = None
  /\ ingest[i].at = "point" => /\ ingest[i].set \notin condemned
                               /\ ingest[i].set \notin reopened => sets[ingest[i].set].status = "active"

\* The served set is active, an active set is served, and a set a drop has
\* begun on is being dropped or gone; the sets in flight aside.
PointerOK ==
  pointer \notin {None} \cup reopened =>
    sets[pointer].status = "active" \/ \E o \in Operators : command[o].at = "promote" /\ command[o].set = pointer
ActiveOK ==
  \A s \in Sets \ reopened : sets[s].status = "active" =>
    \/ s = pointer
    \/ \E i \in Ingests : ingest[i].at = "point" /\ ingest[i].set = s
    \/ \E o \in Operators : Switched(o) /\ command[o].previous = s
DropOK ==
  /\ \A s \in condemned : Exists(s) => \E o \in Operators : command[o].at \in Dropping /\ command[o].set = s
  /\ pointer \notin condemned \ reopened

Served ==
  /\ \A o \in Operators : Private(o) /\ SwitchOK(o)
  /\ \A i \in Ingests : FirstOK(i)
  /\ PointerOK /\ ActiveOK /\ DropOK

ServedInv ==
  /\ ~raced => Solo
  /\ Calm => Served

\* The sets whose status the switches alone have decided.
Settled(s) ==
  /\ s \notin condemned \cup reopened \cup {pointer}
  /\ \A o \in Operators : Switched(o) => command[o].previous # s

LeftLast(s) == left[s] > 0 /\ \A t \in Sets \ {s} : left[t] < left[s]

Ranked ==
  /\ \A s \in Sets : Settled(s) => (sets[s].status = "retired" <=> left[s] > 0)
  /\ \A s, t \in Sets :
       Settled(s) /\ Settled(t) /\ left[s] > 0 /\ left[t] > 0 =>
         (left[t] <= left[s] <=> sets[t].retired_at <= sets[s].retired_at)
  /\ \A o \in Operators :
       Switched(o) /\ command[o].previous \notin {None, command[o].set} => LeftLast(command[o].previous)

RollbackInv == Calm => Ranked

-----------------------------------------------------------------------------
(* Types.                                                                    *)

\* The facts a step of somebody else leaves alone.
ModelsStay == \A s \in Sets : Made(s) => sets'[s].model = sets[s].model
Grows == condemned \subseteq condemned' /\ doomed \subseteq doomed'

LEMMA OthersTyped ==
  ASSUME TypeInv, ModelsStay, Grows, sets' \in [Sets -> SetRow], ingest' \in [Ingests -> Ingest]
  PROVE  /\ \A i \in Ingests : ingest'[i] = ingest[i] => IngestOK(i)'
         /\ \A o \in Operators : command'[o] = command[o] => CommandOK(o)'
<1>1. ASSUME NEW s \in Sets, Made(s) PROVE Made(s)'
  BY <1>1 DEF ModelsStay, Made
<1>2. ASSUME NEW i \in Ingests, ingest'[i] = ingest[i] PROVE IngestOK(i)'
  BY <1>1, <1>2 DEF TypeInv, IngestOK, Grows
<1>3. ASSUME NEW o \in Operators, command'[o] = command[o] PROVE CommandOK(o)'
  <2>1. command[o].previous # None => command[o].previous \in Sets
    BY DEF TypeInv, TypeOK, Command
  <2> QED BY <1>1, <1>3, <2>1 DEF TypeInv, CommandOK, Grows
<1> QED BY <1>2, <1>3

\* A set with a status has a model.
LEMMA ExistingIsMade ==
  ASSUME TypeInv, NEW s \in Sets, Exists(s)
  PROVE  Made(s) /\ sets[s].model \in Models
BY DEF TypeInv, TypeOK, MadeInv, Made, Exists, NoSet, SetRow

\* What set_status leaves: the model, and a set that is gone.
LEMMA StatusSet ==
  ASSUME TypeInv, NEW s \in Sets, NEW status \in {"building", "ready", "active", "retired"},
         sets' = SetStatus(s, status)
  PROVE  /\ sets' \in [Sets -> SetRow]
         /\ \A t \in Sets : t # s => sets'[t] = sets[t]
         /\ \A t \in Sets : sets'[t].model = sets[t].model /\ sets'[t].retired_at = sets[t].retired_at
         /\ sets'[s].status = IF Exists(s) THEN status ELSE "absent"
BY DEF TypeInv, TypeOK, SetStatus, Exists, SetRow

LEMMA PointAtTyped ==
  ASSUME TypeInv, NEW s \in Sets, PointAt(s)
  PROVE  /\ pointer' = s /\ left' \in [Sets -> Nat]
         /\ pointer \notin {None, s} => pointer \in Sets /\ left' = [left EXCEPT ![pointer] = Now] /\ Now \in Nat
         /\ pointer \in {None, s} => left' = left
<1>1. pointer \notin {None, s} => pointer \in Sets
  BY DEF TypeInv, TypeOK
<1>2. Now \in Nat
  BY NowIsLater DEF TypeInv
<1> QED BY <1>1, <1>2 DEF PointAt, TypeInv, TypeOK

LEMMA RacedTyped ==
  ASSUME TypeInv, MoverBegins \/ UNCHANGED raced
  PROVE  raced' \in BOOLEAN
BY DEF TypeInv, TypeOK, MoverBegins

\* Only the step of i changes its record, and nothing else changes a command.
LEMMA IngestTyped ==
  ASSUME TypeInv, NEW i \in Ingests, IngestStep(i) \/ IngestDies(i)
  PROVE  TypeInv'
<1> USE DEF TypeInv, TypeOK
<1>1. ASSUME TypeOK', MadeInv', ModelsStay, Grows, IngestOK(i)', UNCHANGED command,
             \A j \in Ingests \ {i} : ingest'[j] = ingest[j]
      PROVE  TypeInv'
  <2>1. /\ \A j \in Ingests : ingest'[j] = ingest[j] => IngestOK(j)'
        /\ \A o \in Operators : command'[o] = command[o] => CommandOK(o)'
    BY <1>1, OthersTyped
  <2> QED BY <1>1, <2>1
<1>2. ASSUME UNCHANGED <<sets, due, left, reopened, condemned, pointer>>
      PROVE  ModelsStay /\ MadeInv'
  BY <1>2 DEF ModelsStay, MadeInv, Made, Exists
<1>3. CASE Bind(i)
  <2> USE <1>3 DEF Bind, tables
  <2>1. raced' \in BOOLEAN
    BY RacedTyped
  <2>2. ingest' \in [Ingests -> Ingest]
    BY DEF Ingest
  <2>3. TypeOK'
    BY <2>1, <2>2
  <2>4. IngestOK(i)'
    BY ExistingIsMade DEF IngestOK, Made
  <2> QED BY <1>1, <1>2, <2>3, <2>4 DEF Grows
<1>4. CASE Mint(i)
  <2>1. PICK s \in Sets :
          /\ Unused(s)
          /\ sets' = [sets EXCEPT ![s] = [NoSet EXCEPT !.status = "active", !.model = DefaultModel]]
          /\ ingest' = [ingest EXCEPT ![i].at = "point", ![i].set = s]
    BY <1>4 DEF Mint
  <2>7. sets' \in [Sets -> SetRow]
    BY <2>1, ModelAssumption DEF SetRow, NoSet
  <2>8. ingest' \in [Ingests -> Ingest]
    <3>1. [ingest[i] EXCEPT !.at = "point", !.set = s] \in Ingest
      BY DEF Ingest
    <3>2. ingest' = [ingest EXCEPT ![i] = [ingest[i] EXCEPT !.at = "point", !.set = s]]
      BY <2>1
    <3> QED BY <3>1, <3>2
  <2> USE <1>4 DEF Mint, history
  <2>2. TypeOK'
    BY <2>7, <2>8
  <2>3. ~Made(s) /\ DefaultModel # None
    BY <2>1, ModelAssumption, NoneAssumption DEF Unused, NoSet, Made
  <2>4. ModelsStay
    BY <2>1, <2>3 DEF ModelsStay, Made
  <2>5. MadeInv'
    BY <2>1, <2>3 DEF MadeInv, Made, NoSet, Exists
  <2>6. IngestOK(i)'
    BY <2>1, <2>3 DEF IngestOK, Made, NoSet, Ingest
  <2> QED BY <1>1, <2>1, <2>2, <2>4, <2>5, <2>6 DEF Grows
<1>5. CASE PointAtMinted(i)
  <2> DEFINE s == ingest[i].set
  <2>1. s \in Sets /\ Made(s) /\ PointAt(s)
    BY <1>5 DEF PointAtMinted, IngestOK
  <2>2. /\ pointer' = s /\ left' \in [Sets -> Nat]
        /\ pointer \notin {None, s} => pointer \in Sets /\ left' = [left EXCEPT ![pointer] = Now] /\ Now \in Nat
        /\ pointer \in {None, s} => left' = left
    BY <2>1, PointAtTyped
  <2> USE <1>5 DEF PointAtMinted, IngestAt
  <2>3. TypeOK'
    BY <2>1, <2>2 DEF Ingest
  <2>4. MadeInv' /\ ModelsStay
    <3>1. \A t \in Sets : ~Made(t) => left'[t] = left[t]
      BY <2>2 DEF MadeInv
    <3> HIDE DEF s
    <3> QED BY <2>1, <2>2, <3>1 DEF MadeInv, Made, Exists, ModelsStay
  <2>5. IngestOK(i)'
    BY <2>1 DEF IngestOK, Ingest, Made
  <2> QED BY <1>1, <2>3, <2>4, <2>5 DEF Grows
<1>6. CASE InsertChunk(i)
  <2> USE <1>6 DEF InsertChunk, IngestAt
  <2>1. ingest[i].set \in Sets /\ ingest[i].chunk \in Chunks
    BY DEF IngestOK
  <2>2. TypeOK'
    BY <2>1 DEF Ingest, SetRow
  <2>3. IngestOK(i)'
    BY DEF IngestOK, Ingest, Made
  <2> QED BY <1>1, <1>2, <2>2, <2>3 DEF Grows
<1>7. CASE UpsertVector(i)
  <2> USE <1>7 DEF UpsertVector, history
  <2>1. ingest[i].set \in Sets /\ ingest[i].chunk \in Chunks
    BY DEF IngestOK
  <2>2. TypeOK'
    BY <2>1 DEF Ingest, NoIngest
  <2>3. IngestOK(i)'
    BY DEF IngestOK, NoIngest
  <2> QED BY <1>1, <1>2, <2>2, <2>3 DEF Grows
<1>8. CASE RemoveChunk(i)
  <2> USE <1>8 DEF RemoveChunk, tables, Present
  <2>1. TypeOK'
    BY DEF Ingest
  <2>2. IngestOK(i)'
    BY DEF IngestOK
  <2> QED BY <1>1, <1>2, <2>1, <2>2 DEF Grows
<1>9. CASE Unindex(i)
  <2> USE <1>9 DEF Unindex, IngestAt, history
  <2>1. TypeOK'
    BY DEF Ingest
  <2>2. IngestOK(i)'
    BY DEF IngestOK, Ingest
  <2> QED BY <1>1, <1>2, <2>1, <2>2 DEF Grows
<1>10. CASE DeleteChunk(i)
  <2> USE <1>10 DEF DeleteChunk, history
  <2>1. TypeOK'
    BY DEF Ingest, NoIngest
  <2>2. IngestOK(i)'
    BY DEF IngestOK, NoIngest
  <2> QED BY <1>1, <1>2, <2>1, <2>2 DEF Grows
<1>11. CASE IngestDies(i)
  <2> USE <1>11 DEF IngestDies, tables, history
  <2>1. TypeOK'
    BY DEF Ingest, NoIngest
  <2>2. IngestOK(i)'
    BY DEF IngestOK, NoIngest
  <2> QED BY <1>1, <1>2, <2>1, <2>2 DEF Grows
<1> QED BY <1>3, <1>4, <1>5, <1>6, <1>7, <1>8, <1>9, <1>10, <1>11 DEF IngestStep

\* A page of the walk: the next chunks, up to its largest and without a gap;
\* an empty page says that there is no chunk further on.
LEMMA PageTells ==
  ASSUME TypeOK, NEW last \in Chunks \cup {0}
  PROVE  LET page == NextBatch(last) IN
         /\ page \subseteq Present /\ Present \subseteq Chunks
         /\ page # {} => /\ Max(page) \in page
                         /\ \A c \in Present : last < c /\ c <= Max(page) => c \in page
         /\ page = {} => \A c \in Present : c <= last
<1> DEFINE page == NextBatch(last)
           after == {c \in Present : c > last}
           Below(c) == {d \in after : d < c}
           Few(c) == Cardinality(Below(c)) < BatchSize
<1>1. /\ Present \subseteq Chunks /\ Present \subseteq Nat /\ last \in Nat
      /\ after \subseteq Present /\ page \subseteq after
      /\ \A c \in after : c \in page <=> Few(c)
  <2>1. page = {c \in after : Few(c)}
    BY DEF NextBatch
  <2>2. Present \subseteq Chunks
    BY DEF Present
  <2>4. Present \subseteq Nat /\ last \in Nat
    BY <2>2, ChunkAssumption
  <2>5. after \subseteq Present
    OBVIOUS
  <2> HIDE DEF Few, page, after
  <2>3. page \subseteq after /\ \A c \in after : c \in page <=> Few(c)
    BY <2>1
  <2> QED BY <2>2, <2>3, <2>4, <2>5
<1> HIDE DEF page, Few
<1>2. IsFiniteSet(after) /\ IsFiniteSet(page)
  BY <1>1, ChunkAssumption, FS_Subset
<1>3. ASSUME page # {}
      PROVE  Max(page) \in page /\ \A c \in Present : last < c /\ c <= Max(page) => c \in page
  <2>1. Max(page) \in page
    BY <1>1, <1>2, <1>3, FiniteHasMax
  <2> DEFINE m == Max(page)
  <2>2. m \in page /\ m \in after /\ m \in Nat /\ Few(m)
    BY <1>1, <2>1
  <2> HIDE DEF m
  <2>3. ASSUME NEW c \in Present, last < c, c <= m PROVE c \in page
    <3>1. c \in after /\ c \in Nat
      BY <1>1, <2>3
    <3>2. Below(c) \subseteq Below(m)
      <4> SUFFICES ASSUME NEW d \in after, d < c PROVE d < m
        OBVIOUS
      <4>1. d \in Nat
        BY <1>1
      <4> QED BY <2>2, <2>3, <3>1, <4>1
    <3>3. IsFiniteSet(Below(m))
      BY <1>2, FS_Subset
    <3>4. Cardinality(Below(c)) <= Cardinality(Below(m))
      BY <3>2, <3>3, FS_Subset
    <3>5. Cardinality(Below(c)) \in Nat /\ Cardinality(Below(m)) \in Nat
      BY <3>2, <3>3, FS_Subset, FS_CardinalityType
    <3>6. Few(c)
      BY <2>2, <3>4, <3>5, BatchAssumption DEF Few
    <3> QED BY <1>1, <3>1, <3>6
  <2> QED BY <2>1, <2>3 DEF m
<1>4. ASSUME page = {}, NEW c \in Present PROVE c <= last
  <2> SUFFICES ASSUME after # {} PROVE FALSE
    BY <1>1, <1>4
  <2>1. PICK x \in after : \A y \in after : <<y, x>> \notin OpToRel(<, Nat)
    BY <1>1, NatLessThanWellFounded, WFMin
  <2>2. Below(x) = {}
    BY <1>1, <2>1 DEF OpToRel
  <2>3. Few(x)
    BY <2>2, FS_EmptySet, BatchAssumption DEF Few
  <2> QED BY <1>1, <1>4, <2>1, <2>3
<1> QED BY <1>1, <1>3, <1>4 DEF page

\* Only the step of o changes its record, and nothing else changes an ingest.
LEMMA CommandTyped ==
  ASSUME TypeInv, NEW o \in Operators, Commanded(o) \/ CommandStep(o) \/ CommandDies(o)
  PROVE  TypeInv'
<1> USE DEF TypeInv, TypeOK
<1> DEFINE k == command[o]
<1>k. k \in Command
  OBVIOUS
<1>1. ASSUME TypeOK', MadeInv', ModelsStay, Grows, CommandOK(o)', UNCHANGED ingest,
             \A p \in Operators \ {o} : command'[p] = command[p]
      PROVE  TypeInv'
  <2>1. /\ \A j \in Ingests : ingest'[j] = ingest[j] => IngestOK(j)'
        /\ \A p \in Operators : command'[p] = command[p] => CommandOK(p)'
    BY <1>1, OthersTyped
  <2> QED BY <1>1, <2>1
<1>2. ASSUME UNCHANGED <<sets, due, left, pointer>>, condemned \subseteq condemned', reopened \subseteq reopened',
             \A s \in (reopened' \cup condemned') \ (reopened \cup condemned) : s \in Sets => Made(s)
      PROVE  ModelsStay /\ MadeInv'
  BY <1>2 DEF ModelsStay, MadeInv, Made, Exists
<1>3. ASSUME UNCHANGED <<sets, due, left, pointer>>, condemned' = condemned, reopened' \subseteq reopened
      PROVE  ModelsStay /\ MadeInv'
  BY <1>3 DEF ModelsStay, MadeInv, Made, Exists
\* A step that starts a command with a set that is made.
<1>4. ASSUME NEW s \in Sets, Made(s)', NEW r \in Command, command' = [command EXCEPT ![o] = r], r.set = s,
             r.previous = None, r.at # "retire", r.at \in Dropping => s \in condemned'
      PROVE  command' \in [Operators -> Command] /\ CommandOK(o)' /\ \A p \in Operators \ {o} : command'[p] = command[p]
  BY <1>4 DEF CommandOK
<1>5. ASSUME CommandEnds(o)
      PROVE  command' \in [Operators -> Command] /\ CommandOK(o)' /\ \A p \in Operators \ {o} : command'[p] = command[p]
  <2>1. NoCommand \in Command
    BY DEF Command, NoCommand
  <2> QED BY <1>5, <2>1 DEF CommandEnds, NoCommand, CommandOK, Dropping
<1>6. ASSUME NEW at \in {"read", "embed", "stamp", "advance", "look", "promote", "retire", "remove"}, CommandAt(o, at),
             k.at # "idle", ModelsStay, Grows,
             at = "retire" => k.previous \notin {None, k.set},
             at = "remove" => k.at = "clear"
      PROVE  command' \in [Operators -> Command] /\ CommandOK(o)' /\ \A p \in Operators \ {o} : command'[p] = command[p]
  <2>1. command'[o] = [k EXCEPT !.at = at] /\ [k EXCEPT !.at = at] \in Command
    BY <1>6, <1>k DEF CommandAt, Command
  <2>2. command' \in [Operators -> Command] /\ \A p \in Operators \ {o} : command'[p] = command[p]
    BY <1>6, <2>1 DEF CommandAt
  <2>3. command'[o].at = at /\ command'[o].set = k.set /\ command'[o].previous = k.previous
    BY <1>k, <2>1 DEF Command
  <2>4. k.set \in Sets /\ Made(k.set) /\ (k.previous # None => k.previous \in Sets /\ Made(k.previous))
    BY <1>6, <1>k DEF CommandOK, Command
  <2>5. \A s \in Sets : Made(s) => Made(s)'
    BY <1>6 DEF ModelsStay, Made
  <2> QED BY <1>6, <2>2, <2>3, <2>4, <2>5 DEF CommandOK, Dropping, Grows
<1>7. ASSUME NEW s \in Sets, NEW m \in Models, CreateSet(o, s, m) PROVE TypeInv'
  <2> DEFINE r == [NoCommand EXCEPT !.at = "job", !.set = s, !.owed = Present # {}]
  <2>1. r \in Command /\ r.set = s /\ r.previous = None /\ r.at = "job"
    BY DEF Command, NoCommand
  <2>2. ~Made(s) /\ m # None
    BY <1>7, NoneAssumption DEF CreateSet, Unused, NoSet, Made
  <2> USE <1>7 DEF CreateSet, Planned, Give, history
  <2>3. sets' \in [Sets -> SetRow] /\ sets'[s].model = m /\ sets'[s].status = "building"
    BY DEF SetRow, NoSet
  <2>4. ModelsStay
    BY <2>2 DEF ModelsStay, Made
  <2>5. MadeInv'
    BY <2>2, <2>3 DEF MadeInv, Made, NoSet, Exists
  <2>6. command' \in [Operators -> Command] /\ CommandOK(o)' /\ \A p \in Operators \ {o} : command'[p] = command[p]
    <3>1. command' = [command EXCEPT ![o] = r] /\ Made(s)'
      BY <2>1, <2>2, <2>3 DEF Made
    <3> HIDE DEF r
    <3> QED BY <1>4, <2>1, <3>1 DEF Dropping
  <2>7. TypeOK'
    BY <2>3, <2>6
  <2> QED BY <1>1, <2>4, <2>5, <2>6, <2>7 DEF Grows
<1>8. ASSUME NEW s \in Sets, Resume(o, s) PROVE TypeInv'
  <2> DEFINE r == [NoCommand EXCEPT !.at = "read", !.set = s, !.last = cursor[s], !.owed = cursor[s] = 0 /\ Present # {}]
  <2>1. r \in Command /\ r.set = s /\ r.previous = None /\ r.at = "read"
    BY <1>8 DEF Command, NoCommand, Resume
  <2>2. Made(s)
    BY <1>8, ExistingIsMade DEF Resume
  <2> USE <1>8 DEF Resume, Planned, Give, tables
  <2>3. ModelsStay /\ MadeInv'
    BY <1>2, <2>2
  <2>4. command' \in [Operators -> Command] /\ CommandOK(o)' /\ \A p \in Operators \ {o} : command'[p] = command[p]
    <3>1. command' = [command EXCEPT ![o] = r] /\ Made(s)'
      BY <2>1, <2>2 DEF Made
    <3> HIDE DEF r
    <3> QED BY <1>4, <2>1, <3>1 DEF Dropping
  <2>5. TypeOK'
    BY <2>4
  <2> QED BY <1>1, <2>3, <2>4, <2>5 DEF Grows
<1>9. ASSUME NEW s \in Sets, Activate(o, s) \/ DropSet(o, s) \/ (Rollback(o) /\ s \in RetiredLast
             /\ command' = [command EXCEPT ![o] = [NoCommand EXCEPT !.at = "check", !.set = s]]) PROVE TypeInv'
  <2>1. PICK at \in {"look", "clear", "check"} :
          /\ command' = [command EXCEPT ![o] = [NoCommand EXCEPT !.at = at, !.set = s]]
          /\ at = "clear" => condemned' = condemned \cup {s}
          /\ at # "clear" => condemned' = condemned
    BY <1>9 DEF Activate, DropSet, Rollback
  <2> DEFINE r == [NoCommand EXCEPT !.at = at, !.set = s]
  <2>2. r \in Command /\ r.set = s /\ r.previous = None /\ r.at = at
    BY DEF Command, NoCommand
  <2>3. Made(s)
    BY <1>9, ExistingIsMade DEF Activate, DropSet, Exists, Servable, RetiredLast, Retired
  <2>4. UNCHANGED <<tables, ingest, faults, due, left, reopened, into, doomed>> /\ Give(o) /\ MoverBegins
    BY <1>9 DEF Activate, DropSet, Rollback
  <2> USE <2>4 DEF Give, tables
  <2>5. ModelsStay /\ MadeInv'
    BY <1>2, <2>1, <2>3
  <2>6. command' \in [Operators -> Command] /\ CommandOK(o)' /\ \A p \in Operators \ {o} : command'[p] = command[p]
    <3>1. command' = [command EXCEPT ![o] = r] /\ Made(s)'
      BY <2>1, <2>2, <2>3 DEF Made
    <3>2. r.at \in Dropping => s \in condemned'
      BY <2>1, <2>2 DEF Dropping
    <3> HIDE DEF r
    <3> QED BY <1>4, <2>2, <3>1, <3>2
  <2>7. TypeOK'
    BY <2>1, <2>6, RacedTyped
  <2> QED BY <1>1, <2>1, <2>5, <2>6, <2>7 DEF Grows
<1>10. ASSUME k.at # "idle" PROVE k.set \in Sets /\ Made(k.set)
  BY <1>10 DEF CommandOK
<1>11. CASE AddJob(o)
  <2> USE <1>11 DEF AddJob, history
  <2>1. ModelsStay /\ MadeInv' /\ Grows
    BY <1>2 DEF Grows
  <2>2. command' \in [Operators -> Command] /\ CommandOK(o)' /\ \A p \in Operators \ {o} : command'[p] = command[p]
    BY <1>6, <2>1
  <2>3. TypeOK'
    BY <1>10, <2>2
  <2> QED BY <1>1, <2>1, <2>2, <2>3
<1>12. CASE ReadBatch(o)
  <2> DEFINE page == NextBatch(k.last)
             wanted == IF k.catchup THEN Stale(page, k.set) ELSE page
             r == IF page # {}
                    THEN [k EXCEPT !.last = Max(page), !.batch = wanted, !.owed = FALSE,
                                   !.at = IF wanted = {} THEN "read" ELSE "embed"]
                  ELSE IF k.catchup THEN [k EXCEPT !.at = "ready"]
                  ELSE IF k.owed THEN NoCommand
                  ELSE [k EXCEPT !.catchup = TRUE, !.last = 0, !.found = Present]
  <2>1. k.at = "read" /\ command' = [command EXCEPT ![o] = r] /\ UNCHANGED <<tables, ingest, given, faults, history>>
    BY <1>12 DEF ReadBatch
  <2>2. k.last \in Chunks \cup {0}
    BY <1>k DEF Command
  <2>3. page \subseteq Chunks /\ Present \subseteq Chunks /\ (page # {} => Max(page) \in Chunks)
    BY <2>2, PageTells
  <2>4. wanted \subseteq Chunks
    BY <2>3 DEF Stale
  <2>5. r \in Command
    <3> HIDE DEF page, wanted
    <3>1. CASE page # {}
      <4>1. [k EXCEPT !.last = Max(page), !.batch = wanted, !.owed = FALSE,
                      !.at = IF wanted = {} THEN "read" ELSE "embed"] \in Command
        BY <1>k, <2>3, <2>4, <3>1 DEF Command
      <4> QED BY <3>1, <4>1
    <3>2. CASE page = {}
      BY <1>k, <2>3, <3>2 DEF Command, NoCommand
    <3> QED BY <3>1, <3>2
  <2>6. r.at \in {"idle", "read", "embed", "ready"} /\ (r.at # "idle" => r.set = k.set) /\ r.previous \in {None, k.previous}
    <3> HIDE DEF page, wanted
    <3> QED BY <1>k, <2>1 DEF Command, NoCommand
  <2> HIDE DEF r
  <2> USE <2>1 DEF tables, history
  <2>7. ModelsStay /\ MadeInv' /\ Grows
    BY <1>2 DEF Grows
  <2>8. command' \in [Operators -> Command] /\ \A p \in Operators \ {o} : command'[p] = command[p]
    BY <2>5
  <2>9. CommandOK(o)'
    <3>1. command'[o] = r
      OBVIOUS
    <3>2. \A s \in Sets : Made(s) => Made(s)'
      BY DEF Made
    <3>3. k.previous # None => k.previous \in Sets /\ Made(k.previous)
      BY <1>k DEF Command, CommandOK
    <3> QED BY <1>10, <2>6, <3>1, <3>2, <3>3 DEF CommandOK, Dropping
  <2>10. TypeOK'
    BY <2>8
  <2> QED BY <1>1, <2>7, <2>8, <2>9, <2>10
<1>13. CASE EmbedBatch(o)
  <2> USE <1>13 DEF EmbedBatch, history
  <2>1. ModelsStay /\ MadeInv' /\ Grows
    BY <1>2 DEF Grows
  <2>2. command' \in [Operators -> Command] /\ CommandOK(o)' /\ \A p \in Operators \ {o} : command'[p] = command[p]
    BY <1>6, <2>1
  <2>3. vectors' \subseteq Sets \X Chunks
    BY <1>k, <1>10 DEF Command
  <2>4. TypeOK'
    BY <2>2, <2>3
  <2> QED BY <1>1, <2>1, <2>2, <2>4
\* What set_status changes keeps the sets that are made.
<1>14. ASSUME NEW s \in Sets, NEW status \in {"building", "ready", "active", "retired"}, sets' = SetStatus(s, status),
              UNCHANGED <<left, pointer, condemned>>, reopened' \subseteq reopened,
              Made(s), \A t \in Sets \ {s} : due'[t] = due[t]
       PROVE  ModelsStay /\ MadeInv' /\ sets' \in [Sets -> SetRow]
  <2>1. /\ sets' \in [Sets -> SetRow]
        /\ \A t \in Sets : t # s => sets'[t] = sets[t]
        /\ \A t \in Sets : sets'[t].model = sets[t].model /\ sets'[t].retired_at = sets[t].retired_at
        /\ sets'[s].status = IF Exists(s) THEN status ELSE "absent"
    BY <1>14, StatusSet
  <2> QED BY <1>14, <2>1 DEF MadeInv, ModelsStay, Made, Exists
<1>15. CASE Throttled(o)
  <2> USE <1>15 DEF Throttled, history
  <2>1. ModelsStay /\ MadeInv' /\ sets' \in [Sets -> SetRow]
    BY <1>10, <1>14
  <2> HIDE DEF SetRow
  <2>2. command' \in [Operators -> Command] /\ CommandOK(o)' /\ \A p \in Operators \ {o} : command'[p] = command[p]
    BY <1>5
  <2>3. TypeOK'
    BY <2>1, <2>2
  <2> QED BY <1>1, <2>1, <2>2, <2>3 DEF Grows
<1>16. CASE StampBatch(o)
  <2> DEFINE r == [k EXCEPT !.at = IF k.catchup THEN "read" ELSE "advance", !.batch = {}]
  <2> USE <1>16 DEF StampBatch, history
  <2>1. ModelsStay /\ MadeInv' /\ Grows
    BY <1>2 DEF Grows
  <2>2. command' = [command EXCEPT ![o] = r] /\ r \in Command
    BY <1>k DEF Command
  <2>3. r.at \in {"read", "advance"} /\ r.set = k.set /\ r.previous = k.previous
    BY <1>k DEF Command
  <2> HIDE DEF r
  <2>4. CommandOK(o)'
    <3>1. command'[o] = r
      BY <2>2
    <3>2. \A s \in Sets : Made(s) => Made(s)'
      BY DEF Made
    <3>3. k.previous # None => k.previous \in Sets /\ Made(k.previous)
      BY <1>k DEF Command, CommandOK
    <3> QED BY <1>10, <2>3, <3>1, <3>2, <3>3 DEF CommandOK, Dropping
  <2>5. stamp' \in [Chunks -> Models \cup {None}]
    BY <1>10 DEF SetRow
  <2>6. TypeOK'
    BY <2>2, <2>5
  <2>7. \A p \in Operators \ {o} : command'[p] = command[p]
    BY <2>2
  <2> QED BY <1>1, <2>1, <2>4, <2>6, <2>7
<1>17. CASE Advance(o)
  <2> USE <1>17 DEF Advance, history
  <2>1. ModelsStay /\ MadeInv' /\ Grows
    BY <1>2 DEF Grows
  <2>2. command' \in [Operators -> Command] /\ CommandOK(o)' /\ \A p \in Operators \ {o} : command'[p] = command[p]
    BY <1>6, <2>1
  <2>3. k.last \in Chunks \cup {0}
    BY <1>k DEF Command
  <2>4. TypeOK'
    BY <1>10, <2>2, <2>3
  <2> QED BY <1>1, <2>1, <2>2, <2>4
<1>18. CASE MarkReady(o)
  <2> DEFINE s == k.set
             r == [NoCommand EXCEPT !.at = "check", !.set = s]
  <2>1. s \in Sets /\ Made(s) /\ k.found \in SUBSET Chunks
    BY <1>k, <1>10, <1>18 DEF MarkReady, Command
  <2>2. ModelsStay /\ MadeInv' /\ sets' \in [Sets -> SetRow]
    BY <1>14, <1>18, <2>1 DEF MarkReady
  <2>3. command' \in [Operators -> Command] /\ CommandOK(o)' /\ \A p \in Operators \ {o} : command'[p] = command[p]
    <3>1. CASE CommandEnds(o)
      BY <1>5, <3>1
    <3>2. CASE command' = [command EXCEPT ![o] = r]
      <4>1. PICK t \in Sets : t = s
        BY <2>1
      <4>2. PICK q : q = [NoCommand EXCEPT !.at = "check", !.set = t]
        OBVIOUS
      <4>4. q \in Command /\ q = r /\ q.set = t /\ q.previous = None /\ q.at = "check"
        BY <4>1, <4>2 DEF Command, NoCommand
      <4>3. Made(t)'
        BY <2>1, <2>2, <4>1 DEF ModelsStay, Made
      <4> HIDE DEF r, s
      <4> QED BY <1>4, <3>2, <4>3, <4>4 DEF Dropping
    <3> QED BY <1>18, <3>1, <3>2 DEF MarkReady
  <2>4. raced' \in BOOLEAN
    BY <1>18, RacedTyped DEF MarkReady
  <2>5. TypeOK'
    BY <1>18, <2>1, <2>2, <2>3, <2>4 DEF MarkReady
  <2> QED BY <1>1, <1>18, <2>2, <2>3, <2>5 DEF MarkReady, Grows
<1>19. CASE CheckServable(o)
  <2> USE <1>19 DEF CheckServable, tables, history
  <2>1. ModelsStay /\ MadeInv' /\ Grows
    BY <1>2 DEF Grows
  <2>2. command' \in [Operators -> Command] /\ CommandOK(o)' /\ \A p \in Operators \ {o} : command'[p] = command[p]
    BY <1>5, <1>6, <2>1
  <2>3. TypeOK'
    BY <2>2
  <2> QED BY <1>1, <2>1, <2>2, <2>3
<1>20. CASE LookAtPrevious(o)
  <2> DEFINE r == [k EXCEPT !.at = "point", !.previous = pointer]
  <2> USE <1>20 DEF LookAtPrevious, tables, history
  <2>1. ModelsStay /\ MadeInv' /\ Grows
    BY <1>2 DEF Grows
  <2>2. command' = [command EXCEPT ![o] = r] /\ r \in Command
    BY <1>k DEF Command
  <2>3. r.at = "point" /\ r.set = k.set /\ r.previous = pointer
    BY <1>k DEF Command
  <2> HIDE DEF r
  <2>4. CommandOK(o)'
    <3>1. command'[o] = r
      BY <2>2
    <3>2. \A s \in Sets : Made(s) => Made(s)'
      BY DEF Made
    <3> QED BY <1>10, <2>3, <3>1, <3>2 DEF CommandOK, Dropping, MadeInv
  <2>5. TypeOK'
    BY <2>2
  <2>6. \A p \in Operators \ {o} : command'[p] = command[p]
    BY <2>2
  <2> QED BY <1>1, <2>1, <2>4, <2>5, <2>6
<1>21. CASE PointAtTarget(o)
  <2> DEFINE s == k.set
  <2>1. s \in Sets /\ Made(s) /\ PointAt(s)
    BY <1>10, <1>21 DEF PointAtTarget
  <2>2. /\ pointer' = s /\ left' \in [Sets -> Nat]
        /\ pointer \notin {None, s} => pointer \in Sets /\ left' = [left EXCEPT ![pointer] = Now] /\ Now \in Nat
        /\ pointer \in {None, s} => left' = left
    BY <2>1, PointAtTyped
  <2> USE <1>21 DEF PointAtTarget
  <2>3. MadeInv' /\ ModelsStay
    <3>1. \A t \in Sets : ~Made(t) => left'[t] = left[t]
      BY <2>2 DEF MadeInv
    <3> HIDE DEF s
    <3> QED BY <2>1, <2>2, <3>1 DEF MadeInv, Made, Exists, ModelsStay
  <2>4. command' \in [Operators -> Command] /\ CommandOK(o)' /\ \A p \in Operators \ {o} : command'[p] = command[p]
    BY <1>6, <2>3 DEF Grows
  <2>5. TypeOK'
    BY <2>1, <2>2, <2>4
  <2> QED BY <1>1, <2>3, <2>4, <2>5 DEF Grows
<1>22. CASE Promote(o)
  <2> DEFINE s == k.set
  <2> USE <1>22 DEF Promote
  <2>1. reopened' \subseteq reopened
    OBVIOUS
  <2>2. ModelsStay /\ MadeInv' /\ sets' \in [Sets -> SetRow]
    BY <1>10, <1>14, <2>1
  <2>3. command' \in [Operators -> Command] /\ CommandOK(o)' /\ \A p \in Operators \ {o} : command'[p] = command[p]
    BY <1>5, <1>6, <2>2 DEF Grows
  <2>4. TypeOK'
    BY <2>1, <2>2, <2>3
  <2> QED BY <1>1, <2>2, <2>3, <2>4 DEF Grows
<1>23. CASE RetirePrevious(o)
  <2> DEFINE s == k.previous
  <2> USE <1>23 DEF RetirePrevious, history
  <2>1. s \in Sets /\ Made(s)
    BY <1>k DEF CommandOK, Command
  <2>2. Now \in Nat
    BY <2>1, NowIsLater
  <2>3. sets' \in [Sets -> SetRow]
    BY <2>1, <2>2 DEF SetRow
  <2>4. ModelsStay /\ MadeInv'
    <3>1. \A t \in Sets : sets'[t].model = sets[t].model /\ (t # s => sets'[t] = sets[t])
                           /\ (~Exists(t) => sets'[t] = sets[t]) /\ (Exists(t) => Exists(t)')
      BY <2>1, <2>3 DEF SetRow, Exists
    <3> HIDE DEF s
    <3> QED BY <2>1, <3>1 DEF MadeInv, ModelsStay, Made
  <2>5. command' \in [Operators -> Command] /\ CommandOK(o)' /\ \A p \in Operators \ {o} : command'[p] = command[p]
    BY <1>5
  <2>6. TypeOK'
    BY <2>3, <2>5
  <2> QED BY <1>1, <2>4, <2>5, <2>6 DEF Grows
<1>24. CASE ClearVectors(o)
  <2> USE <1>24 DEF ClearVectors, history
  <2>1. ModelsStay /\ MadeInv' /\ Grows
    BY <1>2 DEF Grows
  <2>2. command' \in [Operators -> Command] /\ CommandOK(o)' /\ \A p \in Operators \ {o} : command'[p] = command[p]
    BY <1>6, <2>1
  <2>3. TypeOK'
    BY <2>2
  <2> QED BY <1>1, <2>1, <2>2, <2>3
<1>25. CASE RemoveSet(o)
  <2> DEFINE s == k.set
  <2> USE <1>25 DEF RemoveSet, history
  <2>1. s \in Sets /\ Made(s) /\ s \in condemned
    BY <1>10 DEF CommandOK, Dropping
  <2>2. sets' \in [Sets -> SetRow]
    BY <2>1 DEF SetRow
  <2>3. \A t \in Sets : sets'[t].model = sets[t].model /\ (t # s => sets'[t] = sets[t])
    BY <2>1 DEF SetRow
  <2>4. ModelsStay /\ MadeInv'
    <3> HIDE DEF s
    <3> QED BY <2>1, <2>3 DEF MadeInv, ModelsStay, Made, Exists
  <2>5. command' \in [Operators -> Command] /\ CommandOK(o)' /\ \A p \in Operators \ {o} : command'[p] = command[p]
    BY <1>5
  <2>6. TypeOK'
    BY <2>2, <2>5
  <2> QED BY <1>1, <2>4, <2>5, <2>6 DEF Grows
<1>26. CASE CommandDies(o)
  <2> USE <1>26 DEF CommandDies, tables, history
  <2>1. ModelsStay /\ MadeInv'
    BY <1>2
  <2>2. command' \in [Operators -> Command] /\ CommandOK(o)' /\ \A p \in Operators \ {o} : command'[p] = command[p]
    BY <1>5
  <2>3. TypeOK'
    BY <2>2
  <2> QED BY <1>1, <2>1, <2>2, <2>3 DEF Grows
<1>27. CASE Commanded(o)
  <2>1. CASE Rollback(o)
    <3>1. PICK s \in RetiredLast : command' = [command EXCEPT ![o] = [NoCommand EXCEPT !.at = "check", !.set = s]]
      BY <2>1 DEF Rollback
    <3>2. s \in Sets
      BY <3>1 DEF RetiredLast, Retired
    <3> QED BY <1>9, <2>1, <3>1, <3>2
  <2> QED BY <1>7, <1>8, <1>9, <1>27, <2>1 DEF Commanded
<1> QED BY <1>11, <1>12, <1>13, <1>15, <1>16, <1>17, <1>18, <1>19, <1>20, <1>21, <1>22, <1>23, <1>24, <1>25, <1>26,
           <1>27 DEF CommandStep

-----------------------------------------------------------------------------
(* How the steps change a command.                                           *)

LEMMA Begins ==
  ASSUME TypeInv, NEW o \in Operators, NEW s \in Sets, NEW at \in {"look", "check", "clear"},
         command' = [command EXCEPT ![o] = [NoCommand EXCEPT !.at = at, !.set = s]]
  PROVE  /\ command'[o].at = at /\ command'[o].set = s /\ command'[o].previous = None /\ command'[o].catchup = FALSE
         /\ \A p \in Operators \ {o} : command'[p] = command[p]
BY DEF TypeInv, TypeOK, NoCommand

LEMMA Builder ==
  ASSUME TypeInv, NEW o \in Operators, NEW s \in Sets,
         Resume(o, s) \/ \E m \in Models : CreateSet(o, s, m)
  PROVE  /\ command'[o].at \in {"job", "read"} /\ command'[o].set = s /\ command'[o].previous = None
         /\ command'[o].catchup = FALSE
         /\ \A p \in Operators \ {o} : command'[p] = command[p]
<1>1. ASSUME NEW m \in Models, CreateSet(o, s, m)
      PROVE  command'[o].at = "job" /\ command'[o].set = s /\ command'[o].previous = None /\ command'[o].catchup = FALSE
  BY <1>1 DEF TypeInv, TypeOK, NoCommand, CreateSet
<1>2. CASE Resume(o, s)
  BY <1>2 DEF TypeInv, TypeOK, NoCommand, Resume
<1>3. \A p \in Operators \ {o} : command'[p] = command[p]
  BY DEF TypeInv, TypeOK, CreateSet, Resume
<1> QED BY <1>1, <1>2, <1>3

LEMMA Goes ==
  ASSUME TypeInv, NEW o \in Operators, NEW at, CommandAt(o, at)
  PROVE  /\ command'[o] = [command[o] EXCEPT !.at = at]
         /\ command'[o].at = at /\ command'[o].set = command[o].set /\ command'[o].previous = command[o].previous
         /\ command'[o].last = command[o].last /\ command'[o].batch = command[o].batch
         /\ command'[o].catchup = command[o].catchup /\ command'[o].found = command[o].found
         /\ \A p \in Operators \ {o} : command'[p] = command[p]
<1>1. command'[o] = [command[o] EXCEPT !.at = at] /\ \A p \in Operators \ {o} : command'[p] = command[p]
  BY DEF CommandAt, TypeInv, TypeOK
<1>2. command[o] \in Command
  BY DEF TypeInv, TypeOK
<1> QED BY <1>1, <1>2 DEF Command

LEMMA Ends ==
  ASSUME TypeInv, NEW o \in Operators, CommandEnds(o)
  PROVE  /\ command'[o] = NoCommand /\ command'[o].at = "idle" /\ command'[o].previous = None
         /\ \A p \in Operators \ {o} : command'[p] = command[p]
BY DEF CommandEnds, TypeInv, TypeOK, NoCommand

LEMMA RestChanges == Rest => UNCHANGED vars
BY DEF Rest

LEMMA TypesHold == Spec => []TypeInv
<1>1. Init => TypeInv
  <2> SUFFICES ASSUME Init PROVE TypeInv
    OBVIOUS
  <2>1. NoSet \in SetRow /\ NoIngest \in Ingest /\ NoCommand \in Command
    BY DEF SetRow, NoSet, Ingest, NoIngest, Command, NoCommand
  <2>2. TypeOK
    <3> HIDE DEF NoSet, NoIngest, NoCommand
    <3> QED BY <2>1 DEF Init, TypeOK
  <2>3. MadeInv
    BY DEF Init, MadeInv, Made, NoSet
  <2>4. ASSUME NEW i \in Ingests PROVE IngestOK(i)
    BY DEF Init, IngestOK, NoIngest
  <2>5. ASSUME NEW o \in Operators PROVE CommandOK(o)
    BY DEF Init, CommandOK, NoCommand, Dropping
  <2> QED BY <2>2, <2>3, <2>4, <2>5 DEF TypeInv
<1>2. TypeInv /\ [Next]_vars => TypeInv'
  <2> SUFFICES ASSUME TypeInv, [Next]_vars PROVE TypeInv'
    OBVIOUS
  <2>1. CASE UNCHANGED vars
    BY <2>1 DEF vars, tables, history, TypeInv, TypeOK, MadeInv, IngestOK, CommandOK, Made, Exists
  <2>2. ASSUME NEW i \in Ingests, IngestStep(i) \/ IngestDies(i) PROVE TypeInv'
    BY <2>2, IngestTyped
  <2>3. ASSUME NEW o \in Operators, Commanded(o) \/ CommandStep(o) \/ CommandDies(o) PROVE TypeInv'
    BY <2>3, CommandTyped
  <2> QED BY <2>1, <2>2, <2>3, RestChanges DEF Next
<1> QED BY <1>1, <1>2, PTL DEF Spec

\* Every variable keeps its type, whatever the sets of ids, ingests, operators
\* and bounds are: the records of the ingests and commands, and with them the
\* pages a reindex reads and the clock of retired_at.
THEOREM TypeCorrect == Spec => []TypeOK
<1>1. TypeInv => TypeOK
  BY DEF TypeInv
<1> QED BY <1>1, TypesHold, PTL

-----------------------------------------------------------------------------
(* A set that can be served is complete.                                     *)

\* What no step undoes: a vector goes with its set or its chunk only, the set
\* a chunk was ingested into is written once, a chunk goes by a removal.
VectorsStay ==
  \A s \in Sets, c \in Chunks : <<s, c>> \in vectors => <<s, c>> \in vectors' \/ s \in condemned' \/ c \in doomed'
IntoStays == \A c \in Chunks : into[c] # None => into'[c] = into[c]
ChunksStay == \A c \in Chunks : stamp[c] # None => stamp'[c] # None \/ c \in doomed'
Frame == ModelsStay /\ Grows /\ VectorsStay /\ IntoStays /\ ChunksStay

LEMMA IngestFrame ==
  ASSUME TypeInv, StampInv, NEW i \in Ingests, IngestStep(i) \/ IngestDies(i)
  PROVE  Frame
<1> USE DEF TypeInv, TypeOK, Frame, Grows, VectorsStay, IntoStays, ChunksStay, tables, history
<1>1. CASE Mint(i)
  BY <1>1 DEF Mint, Unused, NoSet, Made, ModelsStay
<1>2. CASE InsertChunk(i)
  <2>1. ingest[i].set \in Sets /\ sets[ingest[i].set].model # None /\ ingest[i].chunk \in Chunks
    BY <1>2 DEF InsertChunk, IngestOK, Made
  <2>2. into[ingest[i].chunk] = None
    BY <1>2 DEF InsertChunk, StampInv, Entering
  <2> QED BY <1>2, <2>1, <2>2 DEF InsertChunk, Made, ModelsStay
<1>3. CASE Unindex(i) \/ DeleteChunk(i)
  <2>1. ingest[i].chunk \in doomed
    BY <1>3 DEF Unindex, DeleteChunk, IngestOK
  <2> QED BY <1>3, <2>1 DEF Unindex, DeleteChunk, Made, ModelsStay
<1>4. CASE Bind(i) \/ PointAtMinted(i) \/ UpsertVector(i) \/ RemoveChunk(i) \/ IngestDies(i)
  BY <1>4 DEF Bind, PointAtMinted, UpsertVector, RemoveChunk, IngestDies, Made, ModelsStay
<1> QED BY <1>1, <1>2, <1>3, <1>4 DEF IngestStep

\* What no command touches, and the one step that touches each of the others.
LEMMA CommandKeeps ==
  ASSUME NEW o \in Operators, Commanded(o) \/ CommandStep(o) \/ CommandDies(o)
  PROVE  /\ UNCHANGED <<ingest, into>>
         /\ ~StampBatch(o) => UNCHANGED stamp
         /\ ~MarkReady(o) => UNCHANGED due
         /\ MoverBegins \/ raced' = raced
<1> DEFINE Keeps == /\ UNCHANGED <<ingest, into>>
                    /\ ~StampBatch(o) => UNCHANGED stamp
                    /\ ~MarkReady(o) => UNCHANGED due
                    /\ MoverBegins \/ raced' = raced
<1> SUFFICES Keeps
  OBVIOUS
<1>1. ASSUME NEW s \in Sets, NEW m \in Models, CreateSet(o, s, m) PROVE Keeps
  BY <1>1 DEF CreateSet, history
<1>2. ASSUME NEW s \in Sets, Resume(o, s) \/ Activate(o, s) \/ DropSet(o, s) PROVE Keeps
  BY <1>2 DEF Resume, Activate, DropSet, tables
<1>3. CASE Rollback(o) \/ CommandDies(o)
  BY <1>3 DEF Rollback, CommandDies, tables, history
<1>4. CASE CommandStep(o)
  <2>1. CASE AddJob(o) \/ ReadBatch(o) \/ EmbedBatch(o) \/ Throttled(o) \/ StampBatch(o) \/ Advance(o)
    BY <2>1 DEF AddJob, ReadBatch, EmbedBatch, Throttled, StampBatch, Advance, tables, history
  <2>2. CASE MarkReady(o) \/ CheckServable(o) \/ LookAtPrevious(o) \/ PointAtTarget(o)
    BY <2>2 DEF MarkReady, CheckServable, LookAtPrevious, PointAtTarget, tables, history
  <2>3. CASE Promote(o) \/ RetirePrevious(o) \/ ClearVectors(o) \/ RemoveSet(o)
    BY <2>3 DEF Promote, RetirePrevious, ClearVectors, RemoveSet, history
  <2> HIDE DEF Keeps
  <2> QED BY <1>4, <2>1, <2>2, <2>3 DEF CommandStep
<1> HIDE DEF Keeps
<1>5. CASE Commanded(o)
  BY <1>1, <1>2, <1>3, <1>5, Zenon DEF Commanded
<1> QED BY <1>3, <1>4, <1>5

LEMMA CommandFrame ==
  ASSUME TypeInv, StampInv, NEW o \in Operators, Commanded(o) \/ CommandStep(o) \/ CommandDies(o)
  PROVE  Frame
<1> USE DEF TypeInv, TypeOK, Frame, Grows, VectorsStay, IntoStays, ChunksStay, tables, history
<1>1. ASSUME UNCHANGED sets PROVE ModelsStay
  BY <1>1 DEF ModelsStay
<1>2. ASSUME NEW s \in Sets, NEW status \in {"building", "ready", "active", "retired"}, sets' = SetStatus(s, status)
      PROVE  ModelsStay
  BY <1>2, StatusSet DEF ModelsStay
<1>3. command[o].at # "idle" => command[o].set \in Sets /\ Made(command[o].set)
  BY DEF CommandOK
<1>4. CASE \E s \in Sets, m \in Models : CreateSet(o, s, m)
  BY <1>4 DEF CreateSet, Unused, NoSet, Made, ModelsStay
<1>5. CASE Rollback(o) \/ \E s \in Sets : Resume(o, s) \/ Activate(o, s) \/ DropSet(o, s)
  BY <1>1, <1>5 DEF Rollback, Resume, Activate, DropSet
<1>6. CASE AddJob(o) \/ ReadBatch(o) \/ EmbedBatch(o) \/ Advance(o) \/ CheckServable(o) \/ LookAtPrevious(o)
           \/ PointAtTarget(o) \/ CommandDies(o)
  BY <1>1, <1>6 DEF AddJob, ReadBatch, EmbedBatch, Advance, CheckServable, LookAtPrevious, PointAtTarget, CommandDies
<1>7. CASE Throttled(o) \/ MarkReady(o) \/ Promote(o)
  <2>1. ModelsStay
    BY <1>2, <1>3, <1>7 DEF Throttled, MarkReady, Promote
  <2> QED BY <1>7, <2>1 DEF Throttled, MarkReady, Promote
<1>8. CASE StampBatch(o)
  <2>1. sets[command[o].set].model # None
    BY <1>3, <1>8 DEF StampBatch, Made
  <2> QED BY <1>1, <1>8, <2>1 DEF StampBatch
<1>9. CASE RetirePrevious(o)
  <2>1. ModelsStay
    BY <1>9 DEF RetirePrevious, ModelsStay, SetRow
  <2> QED BY <1>9, <2>1 DEF RetirePrevious
<1>10. CASE ClearVectors(o)
  <2>1. command[o].set \in condemned
    BY <1>10 DEF ClearVectors, CommandOK, Dropping
  <2> QED BY <1>1, <1>10, <2>1 DEF ClearVectors
<1>11. CASE RemoveSet(o)
  <2>1. ModelsStay
    BY <1>11 DEF RemoveSet, ModelsStay, SetRow
  <2> QED BY <1>11, <2>1 DEF RemoveSet
<1> QED BY <1>4, <1>5, <1>6, <1>7, <1>8, <1>9, <1>10, <1>11 DEF Commanded, CommandStep

LEMMA CoversKept ==
  ASSUME TypeInv, Frame, NEW s \in Sets, NEW c \in Chunks, Made(s), Covers(s, c)
  PROVE  Covers(s, c)'
<1>1. OnlyOfItsModel(s)' => OnlyOfItsModel(s)
  BY DEF OnlyOfItsModel, Frame, ModelsStay, Made
<1>2. into[c] = s => into'[c] = s
  BY NoneAssumption DEF Frame, IntoStays
<1> QED BY <1>1, <1>2 DEF Covers, Frame, Grows, VectorsStay

LEMMA WalkKept ==
  ASSUME TypeInv, Frame, NEW o \in Operators, WalkOK(o), command'[o] = command[o]
  PROVE  WalkOK(o)'
<1> DEFINE k == command[o]
<1>1. k.found \subseteq Chunks /\ k.batch \subseteq Chunks
  BY DEF TypeInv, TypeOK, Command
<1>2. k.at # "idle" => k.set \in Sets /\ Made(k.set)
  BY DEF TypeInv, CommandOK
<1>3. ASSUME k.at # "idle" PROVE \A c \in Chunks : Covers(k.set, c) => Covers(k.set, c)'
  BY <1>2, <1>3, CoversKept
<1>4. stamp \in [Chunks -> Models \cup {None}]
  BY DEF TypeInv, TypeOK
<1> QED BY <1>1, <1>3, <1>4 DEF WalkOK, Frame, Grows, ChunksStay, Building

\* The step of o itself.
LEMMA WalkSteps ==
  ASSUME TypeInv, TypeInv', Frame, StampInv, NEW o \in Operators, WalkOK(o),
         Commanded(o) \/ CommandStep(o) \/ CommandDies(o)
  PROVE  WalkOK(o)'
<1> DEFINE k == command[o]
           K == command'[o]
<1>k. k \in Command /\ K \in Command /\ k.found \subseteq Chunks /\ k.batch \subseteq Chunks
  BY DEF TypeInv, TypeOK, Command
<1>s. k.at # "idle" => k.set \in Sets /\ Made(k.set)
  BY DEF TypeInv, CommandOK
<1>c. ASSUME k.at # "idle" PROVE \A c \in Chunks : Covers(k.set, c) => \A s \in Sets : s = k.set => Covers(s, c)'
  BY <1>s, <1>c, CoversKept
<1>1. ASSUME K.at \notin {"stamp", "ready"}, K.at \notin Building \/ ~K.catchup PROVE WalkOK(o)'
  BY <1>1 DEF WalkOK
<1>2. CASE CommandEnds(o)
  <2>1. K = NoCommand
    BY <1>2, Ends
  <2> QED BY <1>1, <2>1 DEF NoCommand, Building
<1>3. ASSUME NEW s \in Sets, Resume(o, s) \/ \E m \in Models : CreateSet(o, s, m) PROVE WalkOK(o)'
  <2>1. K.at \in {"job", "read"} /\ K.catchup = FALSE
    BY <1>3, Builder
  <2> QED BY <1>1, <2>1
<1>4. ASSUME NEW s \in Sets, NEW at \in {"look", "check", "clear"},
             command' = [command EXCEPT ![o] = [NoCommand EXCEPT !.at = at, !.set = s]]
      PROVE  WalkOK(o)'
  <2>1. K.at = at /\ K.catchup = FALSE
    BY <1>4, Begins
  <2> QED BY <1>1, <2>1
<1>5. ASSUME NEW at \in {"look", "promote", "retire", "remove"}, CommandAt(o, at) PROVE WalkOK(o)'
  <2>1. K.at = at
    BY <1>5, Goes
  <2> QED BY <1>1, <2>1 DEF Building
<1>6. CASE Commanded(o)
  <2>1. ASSUME NEW s \in Sets, Activate(o, s) \/ DropSet(o, s) PROVE WalkOK(o)'
    BY <1>4, <2>1 DEF Activate, DropSet
  <2>2. CASE Rollback(o)
    BY <1>4, <2>2 DEF Rollback, RetiredLast, Retired
  <2> QED BY <1>3, <1>6, <2>1, <2>2 DEF Commanded
<1>7. CASE CommandDies(o) \/ Throttled(o) \/ RetirePrevious(o) \/ RemoveSet(o)
  BY <1>2, <1>7 DEF CommandDies, Throttled, RetirePrevious, RemoveSet
<1>8. CASE CheckServable(o) \/ PointAtTarget(o) \/ Promote(o) \/ ClearVectors(o)
  BY <1>2, <1>5, <1>8 DEF CheckServable, PointAtTarget, Promote, ClearVectors
<1>9. CASE LookAtPrevious(o)
  <2>1. K.at = "point"
    BY <1>9, SMTT(20) DEF LookAtPrevious, TypeInv, TypeOK, Command
  <2> QED BY <1>1, <2>1 DEF Building
<1>10. CASE MarkReady(o)
  <2>1. PICK s \in Sets : s = k.set
    BY <1>s, <1>10 DEF MarkReady
  <2> QED BY <1>2, <1>4, <1>10, <2>1 DEF MarkReady
<1>11. CASE AddJob(o) \/ Advance(o)
  <2>1. /\ k.at \in {"job", "advance"} /\ K.at = "read" /\ K.set = k.set /\ K.catchup = k.catchup
        /\ K.found = k.found /\ K.last = k.last
    BY <1>11, Goes DEF AddJob, Advance
  <2>2. UNCHANGED stamp
    BY <1>11 DEF AddJob, Advance
  <2> QED BY <1>k, <1>s, <1>c, <2>1, <2>2 DEF WalkOK, Building, Frame, Grows
<1>12. CASE EmbedBatch(o)
  <2>1. /\ k.at = "embed" /\ K.at = "stamp" /\ K.set = k.set /\ K.catchup = k.catchup
        /\ K.found = k.found /\ K.last = k.last /\ K.batch = k.batch
    BY <1>12, Goes DEF EmbedBatch
  <2>2. UNCHANGED stamp /\ vectors' = vectors \cup ({k.set} \X k.batch)
    BY <1>12 DEF EmbedBatch
  <2>3. PICK s \in Sets : s = k.set
    BY <1>s, <2>1
  <2>4. \A c \in k.batch : Covers(s, c)'
    BY <2>2, <2>3 DEF Covers
  <2>5. k.catchup => \A c \in k.found : (stamp[c] # None \/ c \in doomed) /\ (c <= k.last => Covers(s, c)')
    BY <1>k, <1>c, <2>1, <2>3, <2>4 DEF WalkOK, Building
  <2> QED BY <1>k, <2>1, <2>2, <2>3, <2>4, <2>5 DEF WalkOK, Building, Frame, Grows
<1>13. CASE StampBatch(o)
  <2>1. /\ k.at = "stamp" /\ K.at \in {"read", "advance"} /\ K.set = k.set /\ K.catchup = k.catchup
        /\ K.found = k.found /\ K.last = k.last
    BY <1>k, <1>13 DEF StampBatch, TypeInv, TypeOK, Command
  <2> QED BY <1>k, <1>s, <1>c, <2>1 DEF WalkOK, Building, Frame, Grows, ChunksStay
<1>14. CASE ReadBatch(o)
  <2> DEFINE page == NextBatch(k.last)
             wanted == IF k.catchup THEN Stale(page, k.set) ELSE page
  <2>1. k.at = "read" /\ UNCHANGED <<stamp, condemned, doomed, vectors, into, sets>>
    BY <1>14 DEF ReadBatch, tables, history
  <2>2. PICK s \in Sets : s = k.set /\ Made(s)
    BY <1>s, <2>1
  <2>12. Chunks \subseteq Nat /\ \A c \in Chunks : c > 0
    BY ChunkAssumption
  <2>13. k.last \in Chunks \cup {0}
    BY <1>k DEF Command
  <2>3. k.last \in Nat
    <3>1. Chunks \cup {0} \subseteq Nat
      BY <2>12
    <3> QED BY <2>13, <3>1
  <2>4. /\ page \subseteq Present /\ Present \subseteq Chunks
        /\ page # {} => Max(page) \in page /\ \A c \in Present : k.last < c /\ c <= Max(page) => c \in page
        /\ page = {} => \A c \in Present : c <= k.last
    BY <2>13, PageTells DEF TypeInv
  <2>5. k.catchup => \A c \in k.found : (stamp[c] # None \/ c \in doomed) /\ (c <= k.last => Covers(s, c))
    BY <2>1, <2>2 DEF WalkOK, Building
  <2>6. \A c \in Chunks : Covers(s, c) => Covers(s, c)'
    BY <2>2, CoversKept
  <2>7. \A c \in Chunks : c \in doomed => Covers(s, c)
    BY DEF Covers
  <2> HIDE DEF page
  <2>8. CASE page # {}
    <3>1. /\ K.last = Max(page) /\ K.batch = wanted /\ K.at = IF wanted = {} THEN "read" ELSE "embed"
          /\ K.set = k.set /\ K.catchup = k.catchup /\ K.found = k.found
      <4> HIDE DEF wanted
      <4>1. K = [k EXCEPT !.last = Max(page), !.batch = wanted, !.owed = FALSE,
                          !.at = IF wanted = {} THEN "read" ELSE "embed"]
        BY <1>14, <2>8 DEF ReadBatch, TypeInv, TypeOK, page, wanted
      <4> QED BY <1>k, <4>1 DEF Command
    <3>2. ASSUME k.catchup, NEW c \in k.found, c <= Max(page), c \notin wanted PROVE Covers(s, c)
      <4>1. CASE c \in doomed \/ c <= k.last
        BY <1>k, <2>5, <2>7, <3>2, <4>1
      <4>2. CASE c \notin doomed /\ ~(c <= k.last)
        <5>1. c \in Present /\ k.last < c
          <6>1. c \in Chunks /\ stamp[c] # None
            BY <1>k, <2>5, <3>2, <4>2
          <6>2. c \in Nat
            BY <2>12, <6>1
          <6> QED BY <2>3, <4>2, <6>1, <6>2 DEF Present
        <5>2. c \in page
          BY <2>4, <2>8, <3>2, <5>1
        <5>3. stamp[c] = sets[s].model
          BY <2>2, <3>2, <5>2 DEF Stale
        <5> QED BY <1>k, <2>2, <3>2, <5>3 DEF StampInv
      <4> QED BY <4>1, <4>2
    <3> HIDE DEF wanted
    <3> QED BY <1>k, <2>1, <2>2, <2>5, <2>6, <3>1, <3>2 DEF WalkOK, Building
  <2>9. CASE page = {} /\ k.catchup
    <3>1. /\ K.last = k.last /\ K.at = "ready" /\ K.set = k.set /\ K.catchup = k.catchup /\ K.found = k.found
      <4>1. K = [k EXCEPT !.at = "ready"]
        BY <1>14, <2>9 DEF ReadBatch, TypeInv, TypeOK, page
      <4> QED BY <1>k, <4>1 DEF Command
    <3>2. \A c \in k.found : Covers(s, c)
      <4> SUFFICES ASSUME NEW c \in k.found PROVE Covers(s, c)
        OBVIOUS
      <4>1. CASE c \in doomed
        BY <1>k, <2>7, <4>1
      <4>2. CASE c \notin doomed
        <5>1. c \in Present
          BY <1>k, <2>5, <2>9, <4>2 DEF Present
        <5> QED BY <2>4, <2>5, <2>9, <5>1
      <4> QED BY <4>1, <4>2
    <3> QED BY <1>k, <2>1, <2>2, <2>5, <2>6, <3>1, <3>2 DEF WalkOK, Building
  <2>10. CASE page = {} /\ ~k.catchup /\ k.owed
    <3>1. CommandEnds(o)
      BY <1>14, <2>10 DEF ReadBatch, CommandEnds, page
    <3> QED BY <1>2, <3>1
  <2>11. CASE page = {} /\ ~k.catchup /\ ~k.owed
    <3>1. K.last = 0 /\ K.at = "read" /\ K.set = k.set /\ K.catchup /\ K.found = Present
      <4>1. K = [k EXCEPT !.catchup = TRUE, !.last = 0, !.found = Present]
        BY <1>14, <2>11 DEF ReadBatch, TypeInv, TypeOK, page
      <4> QED BY <1>k, <2>1, <4>1 DEF Command
    <3>2. ASSUME NEW c \in K.found PROVE stamp'[c] # None /\ ~(c <= K.last)
      <4>1. c \in Chunks /\ stamp[c] # None /\ K.last = 0
        BY <3>1, <3>2 DEF Present
      <4>2. c \in Nat /\ c > 0
        BY <2>12, <4>1
      <4> QED BY <2>1, <4>1, <4>2
    <3> QED BY <3>1, <3>2 DEF WalkOK, Building
  <2> QED BY <2>8, <2>9, <2>10, <2>11
<1> QED BY <1>6, <1>7, <1>8, <1>9, <1>10, <1>11, <1>12, <1>13, <1>14 DEF CommandStep

\* A stamp is kept, cleared, or the model of a set that covers the chunk.
Stamped(c) ==
  \/ stamp'[c] \in {stamp[c], None}
  \/ \E s \in Sets : Made(s) /\ stamp'[c] = sets[s].model /\ into'[c] # None /\ Covers(s, c)'

EntersOnce ==
  /\ \A i \in Ingests : ingest[i].at \in Entering => into[ingest[i].chunk] = None
  /\ \A i, j \in Ingests :
       i # j /\ ingest[i].at \in Entering /\ ingest[j].at \in Entering => ingest[i].chunk # ingest[j].chunk

LEMMA StampKept ==
  ASSUME TypeInv, TypeInv', Frame, StampInv, \A c \in Chunks : Stamped(c), EntersOnce'
  PROVE  StampInv'
<1>1. ASSUME NEW s \in Sets, Made(s) PROVE sets'[s].model = sets[s].model /\ Made(s)'
  BY <1>1 DEF Frame, ModelsStay, Made
<1>2. ASSUME NEW s \in Sets, NEW t \in Sets, s # t, Made(t), sets'[s].model = sets[t].model, NEW c \in Chunks
      PROVE  Covers(s, c)'
  BY <1>1, <1>2 DEF Covers, OnlyOfItsModel
<1> DEFINE Sound(c) ==
             /\ into'[c] # None /\ \E s \in Sets : sets'[s].model = stamp'[c]
             /\ \A s \in Sets : stamp'[c] = sets'[s].model => Covers(s, c)'
<1>3. ASSUME NEW c \in Chunks, stamp'[c] # None PROVE Sound(c)
  <2>1. CASE stamp'[c] = stamp[c]
    <3>1. PICK t \in Sets : sets[t].model = stamp[c] /\ into[c] # None
      BY <1>3, <2>1 DEF StampInv
    <3>2. Made(t) /\ sets'[t].model = stamp'[c] /\ into'[c] # None /\ Covers(t, c)
      BY <1>1, <1>3, <2>1, <3>1 DEF Made, Frame, IntoStays, StampInv
    <3> QED BY <1>2, <2>1, <3>1, <3>2, CoversKept
  <2>2. ASSUME NEW t \in Sets, Made(t), stamp'[c] = sets[t].model, into'[c] # None, Covers(t, c)'
        PROVE  Sound(c)
    BY <1>1, <1>2, <2>2
  <2> QED BY <1>3, <2>1, <2>2 DEF Stamped
<1>4. ASSUME NEW s \in Sets, NEW c \in Chunks, Made(s)', stamp'[c] = sets'[s].model PROVE Covers(s, c)'
  BY <1>3, <1>4 DEF Made
<1> QED BY <1>3, <1>4 DEF StampInv, EntersOnce

LEMMA IngestStamps ==
  ASSUME TypeInv, TypeInv', Frame, StampInv, NEW i \in Ingests, IngestStep(i) \/ IngestDies(i)
  PROVE  StampInv'
<1> USE DEF TypeInv, TypeOK
<1>1. ASSUME UNCHANGED stamp PROVE \A c \in Chunks : Stamped(c)
  BY <1>1 DEF Stamped
<1>2. ASSUME UNCHANGED into, \A j \in Ingests \ {i} : ingest'[j] = ingest[j],
             ingest'[i].at \in Entering => ingest[i].at \in Entering /\ ingest'[i].chunk = ingest[i].chunk
      PROVE  EntersOnce'
  BY <1>2 DEF EntersOnce, StampInv
<1>3. CASE Bind(i)
  <2>1. UNCHANGED <<into, stamp>> /\ \A j \in Ingests \ {i} : ingest'[j] = ingest[j]
    BY <1>3 DEF Bind, tables
  <2>2. into[ingest'[i].chunk] = None /\ \A j \in Ingests : ingest[j].chunk # ingest'[i].chunk
    BY <1>3 DEF Bind
  <2>4. \A j \in Ingests : ingest'[j].at \in Entering => into'[ingest'[j].chunk] = None
    BY <2>1, <2>2 DEF StampInv
  <2>5. ASSUME NEW j \in Ingests, NEW l \in Ingests, j # l, ingest'[j].at \in Entering, ingest'[l].at \in Entering
        PROVE  ingest'[j].chunk # ingest'[l].chunk
    <3>1. CASE j = i
      BY <2>1, <2>2, <2>5, <3>1
    <3>2. CASE l = i
      BY <2>1, <2>2, <2>5, <3>2
    <3>3. CASE j # i /\ l # i
      BY <2>1, <2>5, <3>3 DEF StampInv
    <3> QED BY <3>1, <3>2, <3>3
  <2>3. EntersOnce'
    <3> HIDE DEF Entering
    <3> QED BY <2>4, <2>5 DEF EntersOnce
  <2> QED BY <1>1, <2>1, <2>3, StampKept
<1>4. CASE Mint(i) \/ PointAtMinted(i)
  <2>1. UNCHANGED <<into, stamp>> /\ (\A j \in Ingests \ {i} : ingest'[j] = ingest[j])
        /\ ingest[i].at \in Entering /\ ingest'[i].chunk = ingest[i].chunk
    <3>1. CASE Mint(i)
      BY <3>1 DEF Mint, history, Entering, Ingest
    <3>2. CASE PointAtMinted(i)
      BY <3>2 DEF PointAtMinted, IngestAt, Entering, Ingest
    <3> QED BY <1>4, <3>1, <3>2
  <2> QED BY <1>1, <1>2, <2>1, StampKept
<1>5. CASE InsertChunk(i)
  <2> DEFINE s == ingest[i].set
             x == ingest[i].chunk
  <2>1. /\ s \in Sets /\ Made(s) /\ x \in Chunks /\ ingest[i].at = "insert"
        /\ stamp' = [stamp EXCEPT ![x] = sets[s].model] /\ into' = [into EXCEPT ![x] = s]
    BY <1>5 DEF InsertChunk, IngestOK
  <2>2. ingest'[i].at = "upsert" /\ \A j \in Ingests \ {i} : ingest'[j] = ingest[j]
    BY <1>5 DEF InsertChunk, IngestAt, Ingest
  <2> HIDE DEF s, x
  <2>3. \A j \in Ingests \ {i} : ingest[j].at \in Entering => ingest[j].chunk # x /\ ingest[j].chunk \in Chunks
    BY <2>1 DEF StampInv, Entering, x, IngestOK
  <2>4. EntersOnce'
    BY <2>1, <2>2, <2>3, SMTT(20) DEF EntersOnce, StampInv, Entering
  <2>5. \A c \in Chunks : Stamped(c)
    <3>1. PICK t \in Sets : t = s
      BY <2>1
    <3>2. \A c \in Chunks : c = x => Covers(t, c)'
      BY <2>1, <3>1 DEF Covers
    <3> QED BY <2>1, <3>1, <3>2, NoneAssumption DEF Stamped
  <2> QED BY <2>4, <2>5, StampKept
<1>6. CASE UpsertVector(i) \/ RemoveChunk(i) \/ Unindex(i) \/ IngestDies(i)
  <2>1. UNCHANGED <<into, stamp>> /\ \A j \in Ingests \ {i} : ingest'[j] = ingest[j]
    BY <1>6 DEF UpsertVector, RemoveChunk, Unindex, IngestDies, tables, history, IngestAt
  <2>2. ingest'[i].at \in {"idle", "unindex", "delete"}
    <3>1. CASE UpsertVector(i) \/ IngestDies(i)
      BY <3>1 DEF UpsertVector, IngestDies, NoIngest
    <3>2. CASE RemoveChunk(i) \/ Unindex(i)
      BY <3>2 DEF RemoveChunk, Unindex, IngestAt, Ingest
    <3> QED BY <1>6, <3>1, <3>2
  <2> QED BY <1>1, <1>2, <2>1, <2>2, StampKept DEF Entering
<1>7. CASE DeleteChunk(i)
  <2>1. UNCHANGED into /\ (\A j \in Ingests \ {i} : ingest'[j] = ingest[j]) /\ ingest'[i].at = "idle"
    BY <1>7 DEF DeleteChunk, NoIngest, history
  <2>2. \A c \in Chunks : Stamped(c)
    BY <1>7 DEF DeleteChunk, Stamped, IngestOK
  <2> QED BY <1>2, <2>1, <2>2, StampKept DEF Entering
<1> QED BY <1>3, <1>4, <1>5, <1>6, <1>7 DEF IngestStep

LEMMA CommandStamps ==
  ASSUME TypeInv, TypeInv', Frame, StampInv, NEW o \in Operators, WalkOK(o), Commanded(o) \/ CommandStep(o) \/ CommandDies(o)
  PROVE  StampInv'
<1> DEFINE k == command[o]
<1>1. UNCHANGED <<ingest, into>>
  BY CommandKeeps
<1>2. EntersOnce'
  BY <1>1 DEF EntersOnce, StampInv, Entering
<1>3. CASE StampBatch(o)
  <2>1. k.at = "stamp" /\ k.set \in Sets /\ Made(k.set) /\ \A c \in k.batch : Covers(k.set, c)
    BY <1>3 DEF StampBatch, TypeInv, CommandOK, WalkOK
  <2>2. PICK s \in Sets : s = k.set
    BY <2>1
  <2>3. ASSUME NEW c \in Chunks PROVE Stamped(c)
    <3>1. CASE c \in k.batch \cap Present
      <4>1. Covers(s, c)'
        BY <2>1, <2>2, <3>1, CoversKept
      <4>2. stamp'[c] = sets[s].model /\ into'[c] # None
        BY <1>1, <1>3, <2>2, <3>1 DEF StampBatch, StampInv, Present
      <4> QED BY <2>1, <2>2, <4>1, <4>2 DEF Stamped
    <3>2. CASE c \notin k.batch \cap Present
      BY <1>3, <3>2 DEF StampBatch, Stamped
    <3> QED BY <3>1, <3>2
  <2> QED BY <1>2, <2>3, StampKept
<1>4. CASE ~StampBatch(o)
  <2>1. UNCHANGED stamp
    BY <1>4, CommandKeeps
  <2> QED BY <1>2, <2>1, StampKept DEF Stamped
<1> QED BY <1>3, <1>4

LEMMA CompleteNext ==
  ASSUME TypeInv, TypeInv', CompleteInv, [Next]_vars
  PROVE  CompleteInv'
<1> DEFINE DueInv == \A s \in Sets : \A c \in due[s] : Covers(s, c)
<1>1. ASSUME Frame, NEW s \in Sets, due'[s] = due[s], NEW c \in due'[s] PROVE Covers(s, c)'
  <2>1. Made(s) /\ c \in Chunks
    BY <1>1 DEF TypeInv, TypeOK, MadeInv
  <2> QED BY <1>1, <2>1, CoversKept DEF CompleteInv
<1>2. CASE UNCHANGED vars
  <2>1. Frame
    BY <1>2 DEF vars, tables, history, Frame, ModelsStay, Grows, VectorsStay, IntoStays, ChunksStay
  <2>2. \A o \in Operators : WalkOK(o)'
    BY <1>2, <2>1, WalkKept DEF CompleteInv, vars
  <2>3. StampInv'
    <3>1. EntersOnce'
      BY <1>2 DEF vars, tables, history, EntersOnce, CompleteInv, StampInv, Entering
    <3>2. \A c \in Chunks : Stamped(c)
      BY <1>2 DEF vars, tables, Stamped
    <3> QED BY <2>1, <3>1, <3>2, StampKept DEF CompleteInv
  <2>4. DueInv'
    BY <1>1, <1>2, <2>1 DEF vars, history
  <2> QED BY <2>2, <2>3, <2>4 DEF CompleteInv
<1>3. ASSUME NEW i \in Ingests, IngestStep(i) \/ IngestDies(i) PROVE CompleteInv'
  <2>1. Frame /\ StampInv'
    BY <1>3, IngestFrame, IngestStamps DEF CompleteInv
  <2>2. UNCHANGED <<command, due>>
    BY <1>3 DEF IngestStep, Bind, Mint, PointAtMinted, InsertChunk, UpsertVector, RemoveChunk, Unindex, DeleteChunk,
                IngestDies, history
  <2>3. \A o \in Operators : WalkOK(o)'
    BY <2>1, <2>2, WalkKept DEF CompleteInv
  <2>4. DueInv'
    BY <1>1, <2>1, <2>2
  <2> QED BY <2>1, <2>3, <2>4 DEF CompleteInv
<1>4. ASSUME NEW o \in Operators, Commanded(o) \/ CommandStep(o) \/ CommandDies(o) PROVE CompleteInv'
  <2>1. Frame /\ StampInv'
    BY <1>4, CommandFrame, CommandStamps DEF CompleteInv
  <2>2. \A p \in Operators \ {o} : command'[p] = command[p]
    <3> SUFFICES ASSUME NEW p \in Operators \ {o} PROVE command'[p] = command[p]
      OBVIOUS
    <3>1. ASSUME NEW s \in Sets, Resume(o, s) \/ \E m \in Models : CreateSet(o, s, m) PROVE command'[p] = command[p]
      BY <3>1, Builder
    <3> QED BY <1>4, <3>1, Zenon DEF Commanded, Activate, DropSet, Rollback, CommandStep, AddJob, ReadBatch, EmbedBatch, Throttled,
          StampBatch, Advance, MarkReady, CheckServable, LookAtPrevious, PointAtTarget, Promote, RetirePrevious,
          ClearVectors, RemoveSet, CommandDies, CommandAt, CommandEnds, TypeInv, TypeOK
  <2>3. \A p \in Operators : WalkOK(p)'
    BY <1>4, <2>1, <2>2, WalkKept, WalkSteps DEF CompleteInv
  <2>4. DueInv'
    <3>1. CASE MarkReady(o)
      <4>1. PICK s \in Sets : s = command[o].set
        BY <3>1 DEF MarkReady, TypeInv, CommandOK
      <4>2. command[o].found \subseteq Chunks /\ Made(s) /\ \A c \in command[o].found : Covers(s, c)
        BY <3>1, <4>1 DEF MarkReady, TypeInv, TypeOK, Command, CommandOK, CompleteInv, WalkOK
      <4>3. due' = [due EXCEPT ![s] = command[o].found] /\ due \in [Sets -> SUBSET Chunks]
        BY <3>1, <4>1 DEF MarkReady, TypeInv, TypeOK
      <4>4. \A c \in due'[s] : Covers(s, c)'
        BY <2>1, <4>2, <4>3, CoversKept
      <4> QED BY <1>1, <2>1, <4>3, <4>4
    <3>2. CASE ~MarkReady(o)
      <4>1. UNCHANGED due
        BY <1>4, <3>2, CommandKeeps
      <4> QED BY <1>1, <2>1, <4>1
    <3> QED BY <3>1, <3>2
  <2> QED BY <2>1, <2>3, <2>4 DEF CompleteInv
<1> QED BY <1>2, <1>3, <1>4, RestChanges DEF Next

LEMMA CompleteHolds == Spec => []CompleteInv
<1>1. Init => CompleteInv
  BY DEF Init, CompleteInv, StampInv, WalkOK, NoCommand, NoIngest, Entering, Building, NoSet, Made
<1> QED BY <1>1, CompleteNext, TypesHold, PTL DEF Spec

\* A set that can be served has a vector for every chunk there when its last
\* catch-up began: for any number of chunks and of runs of it, at any page
\* size, however they are throttled, killed and resumed, whatever is ingested
\* and removed meanwhile, and whichever operations race.
THEOREM CompleteWhenServed == Spec => []ReadyIsComplete
<1>1. CompleteInv => ReadyIsComplete
  BY DEF CompleteInv, Covers, ReadyIsComplete
<1> QED BY <1>1, CompleteHolds, PTL

-----------------------------------------------------------------------------
(* One operation on the pointer at a time.                                   *)

LEMMA MoverIsFirst ==
  ASSUME MoverBegins, ~raced'
  PROVE  ~raced /\ (\A i \in Ingests : ~MovesIn(i)) /\ \A o \in Operators : ~Moves(o)
BY DEF MoverBegins, Movers, MovesIn, Moves

LEMMA SoloIngest ==
  ASSUME TypeInv, ~raced => Solo, NEW i \in Ingests, IngestStep(i) \/ IngestDies(i), ~raced'
  PROVE  ~raced /\ Solo'
<1> USE DEF TypeInv, TypeOK
<1>1. UNCHANGED command /\ \A j \in Ingests \ {i} : ingest'[j] = ingest[j]
  BY DEF IngestStep, Bind, Mint, PointAtMinted, InsertChunk, UpsertVector, RemoveChunk, Unindex, DeleteChunk, IngestDies,
         IngestAt, tables, history
<1>2. MoverBegins \/ raced' = raced
  BY DEF IngestStep, Bind, Mint, PointAtMinted, InsertChunk, UpsertVector, RemoveChunk, Unindex, DeleteChunk, IngestDies,
         tables, history
<1>3. MovesIn(i)' => MovesIn(i) \/ MoverBegins
  <2>1. CASE Bind(i)
    BY <2>1 DEF Bind, MovesIn, Switching
  <2>2. CASE Mint(i) \/ PointAtMinted(i)
    BY <2>2 DEF Mint, PointAtMinted, MovesIn, Switching
  <2>3. CASE InsertChunk(i) \/ Unindex(i)
    BY <2>3 DEF InsertChunk, Unindex, MovesIn, Switching, IngestAt, Ingest
  <2>4. CASE UpsertVector(i) \/ DeleteChunk(i) \/ IngestDies(i)
    BY <2>4 DEF UpsertVector, DeleteChunk, IngestDies, MovesIn, Switching, NoIngest
  <2>5. CASE RemoveChunk(i)
    BY <2>5 DEF RemoveChunk, MovesIn, Switching
  <2> QED BY <2>1, <2>2, <2>3, <2>4, <2>5 DEF IngestStep
<1>4. CASE MoverBegins
  <2>1. ~raced /\ (\A j \in Ingests : ~MovesIn(j)) /\ \A o \in Operators : ~Moves(o)
    BY <1>4, MoverIsFirst
  <2> QED BY <1>1, <2>1 DEF Solo, MovesIn, Moves
<1>5. CASE ~MoverBegins
  <2>1. ~raced /\ Solo
    BY <1>2, <1>5
  <2> QED BY <1>1, <1>3, <1>5, <2>1 DEF Solo, MovesIn, Moves
<1> QED BY <1>4, <1>5

\* Whoever is about to act on the pointer was, or has just begun.
LEMMA MovesStart ==
  ASSUME TypeInv, NEW o \in Operators, Commanded(o) \/ CommandStep(o) \/ CommandDies(o)
  PROVE  /\ UNCHANGED ingest /\ \A p \in Operators \ {o} : command'[p] = command[p]
         /\ MoverBegins \/ raced' = raced
         /\ Moves(o)' => Moves(o) \/ MoverBegins
<1> DEFINE k == command[o]
           K == command'[o]
           Same == \A p \in Operators \ {o} : command'[p] = command[p]
<1> USE DEF Moves, Switching, Dropping
<1>k. k \in Command
  BY DEF TypeInv, TypeOK
<1>0. UNCHANGED ingest /\ (MoverBegins \/ raced' = raced)
  BY CommandKeeps
<1>1. ASSUME NEW s \in Sets, Resume(o, s) \/ \E m \in Models : CreateSet(o, s, m) PROVE Same /\ ~Moves(o)'
  BY <1>1, Builder, Zenon
<1>2. ASSUME NEW s \in Sets, Activate(o, s) \/ DropSet(o, s) PROVE Same /\ MoverBegins
  BY <1>2, Begins, Zenon DEF Activate, DropSet
<1>3. CASE Rollback(o)
  BY <1>3, Begins DEF Rollback, RetiredLast, Retired
<1>4. ASSUME NEW at, CommandAt(o, at), at \in Switching \cup Dropping => Moves(o) PROVE Same /\ (Moves(o)' => Moves(o))
  <2>1. Same /\ K.at = at
    BY <1>4, Goes
  <2> QED BY <1>4, <2>1
<1>5. ASSUME CommandEnds(o) PROVE Same /\ ~Moves(o)'
  <2>1. Same /\ K.at = "idle"
    BY <1>5, Ends
  <2> QED BY <2>1
<1>6. CASE AddJob(o) \/ EmbedBatch(o) \/ Advance(o) \/ PointAtTarget(o) \/ ClearVectors(o) \/ CheckServable(o) \/ Promote(o)
           \/ Throttled(o) \/ RetirePrevious(o) \/ RemoveSet(o) \/ CommandDies(o)
  <2>1. CommandEnds(o) \/ \E at : CommandAt(o, at) /\ (at \in Switching \cup Dropping => Moves(o))
    BY <1>6 DEF AddJob, EmbedBatch, Advance, PointAtTarget, ClearVectors, CheckServable, Promote, Throttled, RetirePrevious,
                RemoveSet, CommandDies
  <2> QED BY <1>0, <1>4, <1>5, <2>1
<1>8. CASE MarkReady(o)
  <2>1. k.set \in Sets
    BY <1>8 DEF MarkReady, TypeInv, CommandOK
  <2> QED BY <1>0, <1>5, <1>8, <2>1, Begins, Zenon DEF MarkReady
<1>9. CASE LookAtPrevious(o)
  <2>1. Same /\ Moves(o)
    BY <1>9 DEF LookAtPrevious, TypeInv, TypeOK
  <2> QED BY <1>0, <2>1
<1>10. CASE ReadBatch(o) \/ StampBatch(o)
  <2>1. Same
    BY <1>10 DEF ReadBatch, StampBatch, TypeInv, TypeOK
  <2>2. CASE ReadBatch(o)
    <3>1. K.at \in {"idle", "read", "embed", "ready"}
      BY <1>k, <2>2 DEF ReadBatch, TypeInv, TypeOK, Command, NoCommand
    <3> QED BY <1>0, <2>1, <3>1
  <2>3. CASE StampBatch(o)
    <3>1. K.at \in {"read", "advance"}
      BY <1>k, <2>3 DEF StampBatch, TypeInv, TypeOK, Command
    <3> QED BY <1>0, <2>1, <3>1
  <2> QED BY <1>10, <2>2, <2>3
<1> QED BY <1>0, <1>1, <1>2, <1>3, <1>6, <1>8, <1>9, <1>10 DEF Commanded, CommandStep

LEMMA SoloCommand ==
  ASSUME TypeInv, ~raced => Solo, NEW o \in Operators, Commanded(o) \/ CommandStep(o) \/ CommandDies(o), ~raced'
  PROVE  ~raced /\ Solo'
<1>1. /\ UNCHANGED ingest /\ \A p \in Operators \ {o} : command'[p] = command[p]
      /\ MoverBegins \/ raced' = raced
      /\ Moves(o)' => Moves(o) \/ MoverBegins
  BY MovesStart
<1>2. CASE MoverBegins
  <2>1. ~raced /\ (\A j \in Ingests : ~MovesIn(j)) /\ \A p \in Operators : ~Moves(p)
    BY <1>2, MoverIsFirst
  <2> QED BY <1>1, <2>1 DEF Solo, MovesIn, Moves
<1>3. CASE ~MoverBegins
  <2>1. ~raced /\ Solo
    BY <1>1, <1>3
  <2> QED BY <1>1, <1>3, <2>1 DEF Solo, MovesIn, Moves
<1> QED BY <1>2, <1>3

-----------------------------------------------------------------------------
(* The served set.                                                           *)

\* A step of o that leaves the tables alone.
LEMMA QuietCommand ==
  ASSUME TypeInv, Served, NEW o \in Operators, UNCHANGED <<sets, pointer, reopened, condemned, ingest>>,
         \A p \in Operators \ {o} : command'[p] = command[p],
         Builds(o)' => Builds(o) /\ command'[o].set = command[o].set,
         command'[o].at \in Switching =>
           /\ \/ command[o].at \in Switching /\ command'[o].set = command[o].set
              \/ sets[command'[o].set].status \notin {"building", "absent"}
           /\ command'[o].previous \in {None, pointer, command[o].previous}
           /\ command'[o].previous = command[o].previous => command[o].at \in Switching \/ command[o].previous = None,
         command[o].at \in Dropping => command'[o].at \in Dropping /\ command'[o].set = command[o].set,
         ~Switched(o), SwitchOK(o)'
  PROVE  Served'
<1>1. ASSUME NEW p \in Operators PROVE Private(p)'
  <2> SUFFICES ASSUME Builds(p)', command'[p].set \notin reopened PROVE Private(p)'
    BY DEF Private, Builds
  <2> DEFINE s == command[p].set
  <2>1. Builds(p) /\ command'[p].set = s /\ s \in Sets /\ s # None
    BY NoneAssumption DEF TypeInv, CommandOK, Builds, Building
  <2>2. /\ sets[s].status \in {"building", "absent"} /\ pointer # s
        /\ \A q \in Operators \ {p} :
             /\ Builds(q) \/ command[q].at \in Switching => command[q].set # s
             /\ command[q].at \in Switching => command[q].previous # s
        /\ \A i \in Ingests : ingest[i].at = "point" => ingest[i].set # s
    BY <2>1 DEF Served, Private
  <2>3. ASSUME NEW q \in Operators \ {p}
        PROVE  /\ Builds(q)' \/ command'[q].at \in Switching => command'[q].set # s
               /\ command'[q].at \in Switching => command'[q].previous # s
    <3>1. CASE q = o
      BY <2>1, <2>2, <3>1
    <3>2. CASE q # o
      BY <2>2, <3>2 DEF Builds
    <3> QED BY <3>1, <3>2
  <2> HIDE DEF s
  <2> QED BY <2>1, <2>2, <2>3 DEF Private
<1>2. ASSUME NEW p \in Operators PROVE SwitchOK(p)'
  BY <1>2 DEF Served, SwitchOK, Switched, Servable, Exists
<1>3. ASSUME NEW i \in Ingests PROVE FirstOK(i)'
  BY DEF Served, FirstOK
<1>4. PointerOK' /\ ActiveOK'
  BY DEF Served, PointerOK, ActiveOK, Switched
<1>5. DropOK'
  BY DEF Served, DropOK, Exists
<1> QED BY <1>1, <1>2, <1>3, <1>4, <1>5 DEF Served

\* A step of an ingest that leaves the tables alone.
LEMMA QuietIngest ==
  ASSUME TypeInv, Served, NEW i \in Ingests, UNCHANGED <<sets, pointer, reopened, condemned, command>>,
         \A j \in Ingests \ {i} : ingest'[j] = ingest[j],
         ingest[i].at # "point", ingest'[i].at # "point", ingest'[i].at = "mint" => pointer = None
  PROVE  Served'
<1>1. ASSUME NEW p \in Operators PROVE Private(p)' /\ SwitchOK(p)'
  BY <1>1 DEF Served, Private, Builds, SwitchOK, Switched, Servable, Exists
<1>2. ASSUME NEW j \in Ingests PROVE FirstOK(j)'
  BY DEF Served, FirstOK
<1>3. PointerOK' /\ ActiveOK' /\ DropOK'
  BY DEF Served, PointerOK, ActiveOK, DropOK, Switched, Exists
<1> QED BY <1>1, <1>2, <1>3 DEF Served

LEMMA ServedMint ==
  ASSUME TypeInv, Served, Solo, NEW i \in Ingests, Mint(i)
  PROVE  Served'
<1>1. PICK s \in Sets :
        /\ Unused(s)
        /\ sets' = [sets EXCEPT ![s] = [NoSet EXCEPT !.status = "active", !.model = DefaultModel]]
        /\ ingest' = [ingest EXCEPT ![i].at = "point", ![i].set = s]
  BY DEF Mint
<1>2. /\ UNCHANGED <<pointer, reopened, condemned, command>> /\ ingest[i].at = "mint"
      /\ \A t \in Sets \ {s} : sets'[t] = sets[t]
      /\ sets'[s].status = "active"
      /\ ingest'[i].at = "point" /\ ingest'[i].set = s
      /\ \A j \in Ingests \ {i} : ingest'[j] = ingest[j]
  BY <1>1 DEF Mint, history, TypeInv, TypeOK, NoSet, Ingest
<1>3. /\ ~Made(s) /\ s \notin reopened \cup condemned /\ pointer = None
      /\ \A o \in Operators : (command[o].at # "idle" => command[o].set # s) /\ command[o].previous # s
  BY <1>1, <1>2, NoneAssumption DEF Unused, NoSet, Made, TypeInv, MadeInv, CommandOK, Served, FirstOK
<1>4. /\ \A o \in Operators : ~Moves(o)
      /\ \A j \in Ingests \ {i} : ingest[j].at \notin {"mint", "point"}
  BY <1>2 DEF Solo, MovesIn, Switching
<1>5. \A o \in Operators : command[o].at # "idle" => command[o].set \in Sets
  BY DEF TypeInv, CommandOK
<1>6. ASSUME NEW p \in Operators PROVE Private(p)' /\ SwitchOK(p)'
  <2>1. SwitchOK(p)'
    BY <1>2, <1>4 DEF SwitchOK, Moves, Switched, Switching
  <2>2. Private(p)'
    BY <1>2, <1>3, <1>5 DEF Served, Private, Builds, Building
  <2> QED BY <2>1, <2>2
<1>7. ASSUME NEW j \in Ingests PROVE FirstOK(j)'
  BY <1>2, <1>3, <1>4 DEF FirstOK
<1>8. PointerOK' /\ ActiveOK'
  BY <1>2, <1>3 DEF Served, PointerOK, ActiveOK, Switched
<1>9. DropOK'
  BY <1>2, <1>3 DEF Served, DropOK, Exists, TypeInv, TypeOK
<1> QED BY <1>6, <1>7, <1>8, <1>9 DEF Served

LEMMA ServedFirst ==
  ASSUME TypeInv, Served, Solo, NEW i \in Ingests, PointAtMinted(i)
  PROVE  Served'
<1> DEFINE s == ingest[i].set
<1>1. /\ UNCHANGED <<sets, reopened, condemned, command>> /\ ingest[i].at = "point" /\ pointer' = s /\ s \in Sets
      /\ ingest'[i].at = "insert" /\ pointer = None
      /\ \A j \in Ingests \ {i} : ingest'[j] = ingest[j]
  BY DEF PointAtMinted, PointAt, IngestAt, TypeInv, TypeOK, Ingest, IngestOK, Served, FirstOK
<1>2. /\ \A o \in Operators : ~Moves(o)
      /\ \A j \in Ingests \ {i} : ingest[j].at \notin {"mint", "point"}
  BY <1>1 DEF Solo, MovesIn, Switching
<1>3. s \notin condemned /\ (s \notin reopened => sets[s].status = "active")
  BY <1>1 DEF Served, FirstOK
<1>4. ASSUME NEW p \in Operators PROVE Private(p)'
  <2>1. Builds(p) /\ command[p].set \notin reopened => command[p].set # s
    BY <1>1 DEF Served, Private
  <2> HIDE DEF s
  <2> QED BY <1>1, <2>1 DEF Served, Private, Builds
<1>5. ASSUME NEW p \in Operators PROVE SwitchOK(p)'
  BY <1>1, <1>2 DEF SwitchOK, Moves, Switched, Switching
<1>6. ASSUME NEW j \in Ingests PROVE FirstOK(j)'
  BY <1>1, <1>2 DEF Served, FirstOK
<1>7. PointerOK'
  BY <1>1, <1>3 DEF PointerOK
<1>8. ActiveOK' /\ DropOK'
  <2>1. \A j \in Ingests : ingest[j].at = "point" => ingest[j].set = s
    BY <1>2
  <2>2. ActiveOK'
    BY <1>1, <2>1, NoneAssumption DEF Served, ActiveOK, Switched
  <2>3. DropOK'
    BY <1>1, <1>3 DEF Served, DropOK, Exists
  <2> QED BY <2>2, <2>3
<1> QED BY <1>4, <1>5, <1>6, <1>7, <1>8 DEF Served

\* A step of o that starts to build a set: a new one, or one it resumes.
LEMMA ServedBuilds ==
  ASSUME TypeInv, Served, NEW o \in Operators, NEW s \in Sets, Resume(o, s) \/ \E m \in Models : CreateSet(o, s, m)
  PROVE  Served'
<1>1. /\ command'[o].at \in {"job", "read"} /\ command'[o].set = s /\ command[o].at = "idle"
      /\ \A p \in Operators \ {o} : command'[p] = command[p]
      /\ UNCHANGED <<pointer, condemned, ingest>>
  BY Builder DEF Resume, CreateSet, Planned, Give, tables, history
<1>2. CASE Resume(o, s)
  <2>1. UNCHANGED sets /\ reopened' = reopened \cup {s}
    BY <1>2 DEF Resume, tables
  <2>2. ASSUME NEW p \in Operators PROVE Private(p)'
    BY <1>1, <2>1 DEF Served, Private, Builds, Building, Switching
  <2>3. ASSUME NEW p \in Operators PROVE SwitchOK(p)'
    BY <1>1, <2>1 DEF Served, SwitchOK, Switched, Servable, Exists
  <2>4. ASSUME NEW i \in Ingests PROVE FirstOK(i)'
    BY <1>1, <2>1 DEF Served, FirstOK
  <2>5. PointerOK' /\ ActiveOK'
    BY <1>1, <2>1 DEF Served, PointerOK, ActiveOK, Switched
  <2>6. DropOK'
    BY <1>1, <2>1 DEF Served, DropOK, Exists, Dropping
  <2> QED BY <2>2, <2>3, <2>4, <2>5, <2>6 DEF Served
<1>3. ASSUME NEW m \in Models, CreateSet(o, s, m) PROVE Served'
  <2>1. /\ sets[s] = NoSet /\ UNCHANGED reopened /\ \A t \in Sets \ {s} : sets'[t] = sets[t]
        /\ sets'[s].status = "building"
    BY <1>3 DEF CreateSet, Unused, history, NoSet, TypeInv, TypeOK
  <2>2. /\ ~Made(s) /\ s \notin reopened \cup condemned /\ pointer # s
        /\ \A p \in Operators : (command[p].at # "idle" => command[p].set # s) /\ command[p].previous # s
        /\ \A i \in Ingests : ingest[i].at = "point" => ingest[i].set # s
    BY <2>1, NoneAssumption DEF NoSet, Made, TypeInv, MadeInv, CommandOK, IngestOK
  <2>3. \A p \in Operators : command[p].at # "idle" => command[p].set \in Sets
    BY DEF TypeInv, CommandOK
  <2>4. ASSUME NEW p \in Operators PROVE Private(p)'
    <3>1. CASE p = o
      BY <1>1, <2>1, <2>2, <3>1 DEF Private, Builds, Building, Switching
    <3>2. CASE p # o
      BY <1>1, <2>1, <2>2, <2>3, <3>2 DEF Served, Private, Builds, Building, Switching
    <3> QED BY <3>1, <3>2
  <2>5. ASSUME NEW p \in Operators PROVE SwitchOK(p)'
    BY <1>1, <2>1, <2>2, <2>3 DEF Served, SwitchOK, Switched, Servable, Exists
  <2>6. ASSUME NEW i \in Ingests PROVE FirstOK(i)'
    BY <1>1, <2>1, <2>2 DEF Served, FirstOK, TypeInv, IngestOK
  <2>7. PointerOK' /\ ActiveOK'
    BY <1>1, <2>1, <2>2 DEF Served, PointerOK, ActiveOK, Switched, TypeInv, TypeOK
  <2>8. DropOK'
    BY <1>1, <2>1, <2>2 DEF Served, DropOK, Exists, Dropping, TypeInv, TypeOK
  <2> QED BY <2>4, <2>5, <2>6, <2>7, <2>8 DEF Served
<1> QED BY <1>2, <1>3, Zenon

\* Nobody else acts on the pointer.
LEMMA Alone ==
  ASSUME Solo, NEW o \in Operators, Moves(o)
  PROVE  /\ \A p \in Operators \ {o} : command[p].at \notin Switching \cup Dropping
         /\ \A i \in Ingests : ingest[i].at \notin Switching
BY DEF Solo, Moves, MovesIn

LEMMA ServedDrops ==
  ASSUME TypeInv, Served, NEW o \in Operators, NEW s \in Sets, DropSet(o, s),
         \A p \in Operators : ~Moves(p), \A i \in Ingests : ~MovesIn(i)
  PROVE  Served'
<1>1. /\ command'[o].at = "clear" /\ command'[o].set = s /\ command[o].at = "idle"
      /\ \A p \in Operators \ {o} : command'[p] = command[p]
      /\ UNCHANGED <<sets, pointer, reopened, ingest>> /\ condemned' = condemned \cup {s}
      /\ sets[s].status # "active"
  BY Begins DEF DropSet, Give, tables
<1>2. \A p \in Operators : command[p].at \notin Switching \cup Dropping
  BY DEF Moves
<1>3. \A i \in Ingests : ingest[i].at \notin {"mint", "point"}
  BY DEF MovesIn, Switching
<1>4. ASSUME NEW p \in Operators PROVE Private(p)'
  BY <1>1 DEF Served, Private, Builds, Building, Switching
<1>5. ASSUME NEW p \in Operators PROVE SwitchOK(p)'
  BY <1>1 DEF Served, SwitchOK, Switched, Servable, Exists
<1>6. ASSUME NEW i \in Ingests PROVE FirstOK(i)'
  BY <1>1, <1>3 DEF FirstOK
<1>7. PointerOK' /\ ActiveOK'
  BY <1>1, <1>2 DEF Served, PointerOK, ActiveOK, Switched, Switching
<1>8. DropOK'
  <2>1. pointer = s => s \in reopened
    BY <1>1, <1>2, NoneAssumption DEF Served, PointerOK, Switching
  <2> QED BY <1>1, <1>2, <2>1 DEF Served, DropOK, Exists, Dropping
<1> QED BY <1>4, <1>5, <1>6, <1>7, <1>8 DEF Served

LEMMA ServedReady ==
  ASSUME TypeInv, Served, NEW o \in Operators, MarkReady(o), command'[o].at = "check" => \A p \in Operators : ~Moves(p)
  PROVE  Served'
<1> DEFINE s == command[o].set
<1>1. /\ command[o].at = "ready" /\ s \in Sets /\ sets' = SetStatus(s, "ready")
      /\ UNCHANGED <<pointer, reopened, condemned, ingest>>
  BY DEF MarkReady, TypeInv, CommandOK
<1>2. /\ \A t \in Sets : t # s => sets'[t] = sets[t]
      /\ sets'[s].status = IF Exists(s) THEN "ready" ELSE "absent"
  BY <1>1, StatusSet
<1>3. /\ \A p \in Operators \ {o} : command'[p] = command[p]
      /\ command'[o].at \in {"idle", "check"} /\ command'[o].previous = None
      /\ command'[o].at = "check" => command'[o].set = s
  BY <1>1, Begins, Ends, Zenon DEF MarkReady
<1>4. s \notin reopened => /\ sets[s].status \in {"building", "absent"} /\ pointer # s
        /\ \A q \in Operators \ {o} :
             /\ Builds(q) \/ command[q].at \in Switching => command[q].set # s
             /\ command[q].at \in Switching => command[q].previous # s
        /\ \A i \in Ingests : ingest[i].at = "point" => ingest[i].set # s
  BY <1>1 DEF Served, Private, Builds, Building
<1>5. \A p \in Operators : command[p].at # "idle" => command[p].set \in Sets
  BY DEF TypeInv, CommandOK
<1> HIDE DEF s
<1>6. ASSUME NEW p \in Operators PROVE Private(p)'
  <2> SUFFICES ASSUME Builds(p)', command'[p].set \notin reopened PROVE Private(p)'
    BY <1>1 DEF Private, Builds
  <2> DEFINE t == command[p].set
  <2>1. p # o /\ command'[p] = command[p] /\ Builds(p) /\ t \notin reopened /\ t \in Sets /\ t # None
    BY <1>3, <1>5, NoneAssumption DEF Builds, Building
  <2>2. t # s
    BY <1>1, <2>1 DEF Served, Private, Builds, Building, s
  <2> HIDE DEF t
  <2>3. /\ sets[t].status \in {"building", "absent"} /\ pointer # t
        /\ \A q \in Operators \ {p} :
             /\ Builds(q) \/ command[q].at \in Switching => command[q].set # t
             /\ command[q].at \in Switching => command[q].previous # t
        /\ \A i \in Ingests : ingest[i].at = "point" => ingest[i].set # t
    BY <2>1 DEF Served, Private, t
  <2>4. ASSUME NEW q \in Operators \ {p}
        PROVE  /\ Builds(q)' \/ command'[q].at \in Switching => command'[q].set # t
               /\ command'[q].at \in Switching => command'[q].previous # t
    <3>1. CASE q = o
      BY <1>3, <2>1, <2>2, <3>1 DEF Builds, Building, Switching
    <3>2. CASE q # o
      BY <1>3, <2>3, <3>2 DEF Builds
    <3> QED BY <3>1, <3>2
  <2>5. command'[p].set = t
    BY <2>1 DEF t
  <2>6. sets'[t] = sets[t]
    BY <1>2, <2>1, <2>2
  <2> QED BY <1>1, <2>3, <2>4, <2>5, <2>6 DEF Private
<1>7. ASSUME NEW p \in Operators PROVE SwitchOK(p)'
  BY <1>1, <1>2, <1>3, <1>5 DEF Served, SwitchOK, Switched, Servable, Exists
<1>8. ASSUME NEW i \in Ingests PROVE FirstOK(i)'
  BY <1>1, <1>2, <1>4 DEF Served, FirstOK, TypeInv, IngestOK
<1>9. PointerOK' /\ ActiveOK'
  BY <1>1, <1>2, <1>3, <1>4 DEF Served, PointerOK, ActiveOK, Switched, TypeInv, TypeOK
<1>10. DropOK'
  BY <1>1, <1>2, <1>3 DEF Served, DropOK, Exists, Dropping, TypeInv, TypeOK
<1> QED BY <1>6, <1>7, <1>8, <1>9, <1>10 DEF Served

LEMMA ServedSwitches ==
  ASSUME TypeInv, Served, Solo, NEW o \in Operators, PointAtTarget(o)
  PROVE  Served'
<1> DEFINE s == command[o].set
           b == command[o].previous
<1>1. /\ command[o].at = "point" /\ s \in Sets /\ pointer' = s
      /\ UNCHANGED <<sets, reopened, condemned, ingest>>
  BY DEF PointAtTarget, PointAt, TypeInv, CommandOK
<1>2. /\ \A p \in Operators \ {o} : command'[p] = command[p]
      /\ command'[o].at = "promote" /\ command'[o].set = s /\ command'[o].previous = b
  BY Goes DEF PointAtTarget
<1>3. /\ \A p \in Operators \ {o} : command[p].at \notin Switching \cup Dropping
      /\ \A i \in Ingests : ingest[i].at \notin Switching
  BY <1>1, Alone DEF Moves, Switching
<1>4. b = pointer /\ Servable(s)
  BY <1>1 DEF Served, SwitchOK
<1>5. s \notin condemned
  BY <1>1, <1>3, <1>4 DEF Served, DropOK, Servable, Exists, Dropping
<1>6. ASSUME NEW p \in Operators PROVE Private(p)'
  <2>1. Builds(p) /\ command[p].set \notin reopened => command[p].set # s /\ p # o
    BY <1>1 DEF Served, Private, Switching, Builds, Building
  <2> HIDE DEF s, b
  <2> QED BY <1>1, <1>2, <1>3, <1>4, <2>1 DEF Served, Private, Builds, Building, Switching
<1> HIDE DEF s, b
<1>7. ASSUME NEW p \in Operators PROVE SwitchOK(p)'
  <2>1. CASE p = o
    BY <1>1, <1>2, <1>4, <2>1 DEF SwitchOK, Switched, Servable, Exists
  <2>2. CASE p # o
    BY <1>1, <1>2, <1>3, <2>2 DEF SwitchOK, Switched, Switching
  <2> QED BY <2>1, <2>2
<1>8. ASSUME NEW i \in Ingests PROVE FirstOK(i)'
  BY <1>1, <1>3 DEF FirstOK, Switching
<1>9. PointerOK'
  BY <1>1, <1>2 DEF PointerOK
<1>10. ActiveOK'
  <2>1. \A t \in Sets \ reopened : sets[t].status = "active" => t = pointer
    BY <1>1, <1>3 DEF Served, ActiveOK, Switched, Switching
  <2> QED BY <1>1, <1>2, <1>4, <2>1 DEF ActiveOK, Switched
<1>11. DropOK'
  <2>1. \A t \in condemned : ~Exists(t)
    BY <1>1, <1>3 DEF Served, DropOK, Dropping
  <2> QED BY <1>1, <1>5, <2>1 DEF DropOK, Exists
<1> QED BY <1>6, <1>7, <1>8, <1>9, <1>10, <1>11 DEF Served

LEMMA ServedPromotes ==
  ASSUME TypeInv, Served, Solo, NEW o \in Operators, Promote(o)
  PROVE  Served'
<1> DEFINE s == command[o].set
           b == command[o].previous
<1>1. /\ command[o].at = "promote" /\ s \in Sets /\ sets' = SetStatus(s, "active")
      /\ UNCHANGED <<pointer, condemned, ingest>>
      /\ reopened' = IF BuiltByAnother(o) THEN reopened ELSE reopened \ {s}
  BY DEF Promote, TypeInv, CommandOK
<1>2. pointer = s /\ Exists(s)
  BY <1>1 DEF Served, SwitchOK, Switched
<1>3. sets'[s].status = "active" /\ \A t \in Sets : t # s => sets'[t] = sets[t]
  BY <1>1, <1>2, StatusSet
<1>4. /\ \A p \in Operators \ {o} : command[p].at \notin Switching \cup Dropping
      /\ \A i \in Ingests : ingest[i].at \notin Switching
  BY <1>1, Alone DEF Moves, Switching
<1>5. /\ \A p \in Operators \ {o} : command'[p] = command[p]
      /\ \/ b \notin {None, s} /\ command'[o].at = "retire" /\ command'[o].set = s /\ command'[o].previous = b
         \/ b \in {None, s} /\ command'[o].at = "idle" /\ command'[o].previous = None
  BY Goes, Ends DEF Promote
<1>6. s \notin condemned
  BY <1>2, <1>4, <1>1 DEF Served, DropOK, Dropping
<1>7. \A p \in Operators : command[p].at # "idle" => command[p].set \in Sets
  BY DEF TypeInv, CommandOK
<1> HIDE DEF s, b
<1>8. ASSUME NEW p \in Operators PROVE Private(p)'
  <2> SUFFICES ASSUME Builds(p)', command'[p].set \notin reopened' PROVE Private(p)'
    BY DEF Private, Builds
  <2>1. p # o /\ command'[p] = command[p] /\ Builds(p) /\ command[p].set \in Sets
    BY <1>5, <1>7 DEF Builds, Building
  <2>2. command[p].set # s
    <3>1. command[p].set = s => BuiltByAnother(o)
      BY <2>1 DEF BuiltByAnother, Builds, s
    <3>2. command[p].set = s => s \in reopened
      BY <1>2, <2>1 DEF Served, Private
    <3> QED BY <1>1, <2>1, <3>1, <3>2
  <2>3. command[p].set \notin reopened
    BY <1>1, <2>1, <2>2
  <2>4. /\ sets[command[p].set].status \in {"building", "absent"} /\ pointer # command[p].set
        /\ \A q \in Operators \ {p} :
             /\ Builds(q) \/ command[q].at \in Switching => command[q].set # command[p].set
             /\ command[q].at \in Switching => command[q].previous # command[p].set
    BY <2>1, <2>3 DEF Served, Private
  <2>5. ASSUME NEW q \in Operators \ {p}
        PROVE  /\ Builds(q)' \/ command'[q].at \in Switching => command'[q].set # command[p].set
               /\ command'[q].at \in Switching => command'[q].previous # command[p].set
    <3>1. CASE q = o
      <4>1. command[o].at \in Switching
        BY <1>1 DEF Switching
      <4> QED BY <1>5, <2>2, <2>4, <3>1, <4>1 DEF Builds, Building, Switching, b
    <3>2. CASE q # o
      BY <1>5, <2>4, <3>2 DEF Builds
    <3> QED BY <3>1, <3>2
  <2>6. sets'[command[p].set] = sets[command[p].set]
    BY <1>3, <2>1, <2>2
  <2>7. \A i \in Ingests : ingest'[i].at # "point"
    BY <1>1, <1>4 DEF Switching
  <2> QED BY <1>1, <2>1, <2>4, <2>5, <2>6, <2>7 DEF Private
<1>9. ASSUME NEW p \in Operators PROVE SwitchOK(p)'
  <2>1. CASE p = o
    BY <1>1, <1>2, <1>5, <2>1 DEF SwitchOK, Switched
  <2>2. CASE p # o
    BY <1>1, <1>4, <1>5, <2>2 DEF SwitchOK, Switched, Switching
  <2> QED BY <2>1, <2>2
<1>10. ASSUME NEW i \in Ingests PROVE FirstOK(i)'
  BY <1>1, <1>4 DEF FirstOK, Switching
<1>11. PointerOK'
  BY <1>1, <1>2, <1>3 DEF PointerOK
<1>12. ActiveOK'
  <2>1. ASSUME NEW t \in Sets \ reopened, t # s, sets[t].status = "active" PROVE t = b
    BY <1>1, <1>2, <1>4, <2>1 DEF Served, ActiveOK, Switched, Switching, b
  <2>2. ASSUME NEW t \in Sets \ reopened', sets'[t].status = "active", t # s PROVE Switched(o)' /\ command'[o].previous = t
    <3>1. t = b
      BY <1>1, <1>3, <2>1, <2>2
    <3> QED BY <1>5, <2>2, <3>1, NoneAssumption DEF Switched
  <2> QED BY <1>1, <1>2, <2>2 DEF ActiveOK
<1>13. DropOK'
  BY <1>1, <1>2, <1>3, <1>4, <1>5, <1>6 DEF Served, DropOK, Exists, Dropping, TypeInv, TypeOK
<1> QED BY <1>8, <1>9, <1>10, <1>11, <1>12, <1>13 DEF Served

LEMMA ServedRetires ==
  ASSUME TypeInv, Served, Solo, NEW o \in Operators, RetirePrevious(o)
  PROVE  Served'
<1> DEFINE b == command[o].previous
<1>1. /\ command[o].at = "retire" /\ b \in Sets /\ b # pointer /\ pointer = command[o].set
      /\ UNCHANGED <<pointer, condemned, reopened, ingest>>
  BY DEF RetirePrevious, TypeInv, TypeOK, CommandOK, Command, Served, SwitchOK, Switched, history
<1>2. /\ \A t \in Sets : t # b => sets'[t] = sets[t]
      /\ sets'[b].status = IF Exists(b) THEN "retired" ELSE "absent"
  BY <1>1 DEF RetirePrevious, Exists, TypeInv, TypeOK, SetRow
<1>3. /\ \A p \in Operators \ {o} : command'[p] = command[p]
      /\ command'[o].at = "idle" /\ command'[o].previous = None
  BY Ends DEF RetirePrevious
<1>4. /\ \A p \in Operators \ {o} : command[p].at \notin Switching \cup Dropping
      /\ \A i \in Ingests : ingest[i].at \notin Switching
  BY <1>1, Alone DEF Moves, Switching
<1>5. \A p \in Operators : command[p].at # "idle" => command[p].set \in Sets
  BY DEF TypeInv, CommandOK
<1>6. ASSUME NEW p \in Operators PROVE Private(p)'
  <2>1. Builds(p) /\ command[p].set \notin reopened => command[p].set # b /\ p # o
    BY <1>1 DEF Served, Private, Switching, Builds, Building
  <2> HIDE DEF b
  <2> QED BY <1>1, <1>2, <1>3, <1>5, <2>1 DEF Served, Private, Builds, Building, Switching
<1> HIDE DEF b
<1>7. ASSUME NEW p \in Operators PROVE SwitchOK(p)'
  BY <1>3, <1>4 DEF SwitchOK, Switched, Switching
<1>8. ASSUME NEW i \in Ingests PROVE FirstOK(i)'
  BY <1>1, <1>4 DEF FirstOK, Switching
<1>9. PointerOK'
  BY <1>1, <1>2, <1>3 DEF Served, PointerOK, TypeInv, TypeOK
<1>10. ActiveOK'
  <2>1. \A t \in Sets \ reopened : sets[t].status = "active" => t = pointer \/ t = b
    BY <1>1, <1>4 DEF Served, ActiveOK, Switched, Switching, b
  <2> QED BY <1>1, <1>2, <2>1 DEF ActiveOK
<1>11. DropOK'
  BY <1>1, <1>2, <1>3 DEF Served, DropOK, Exists, Dropping, TypeInv, TypeOK
<1> QED BY <1>6, <1>7, <1>8, <1>9, <1>10, <1>11 DEF Served

LEMMA ServedRemoves ==
  ASSUME TypeInv, Served, Solo, NEW o \in Operators, RemoveSet(o)
  PROVE  Served'
<1> DEFINE s == command[o].set
<1>1. /\ command[o].at = "remove" /\ s \in Sets /\ s \in condemned
      /\ UNCHANGED <<pointer, condemned, reopened, ingest>>
  BY DEF RemoveSet, TypeInv, CommandOK, Dropping, history
<1>2. sets'[s].status = "absent" /\ \A t \in Sets : t # s => sets'[t] = sets[t]
  BY <1>1 DEF RemoveSet, TypeInv, TypeOK, SetRow
<1>3. /\ \A p \in Operators \ {o} : command'[p] = command[p]
      /\ command'[o].at = "idle" /\ command'[o].previous = None
  BY Ends DEF RemoveSet
<1>4. /\ \A p \in Operators \ {o} : command[p].at \notin Switching \cup Dropping
      /\ \A i \in Ingests : ingest[i].at \notin Switching
  BY <1>1, Alone DEF Moves, Dropping
<1>5. \A p \in Operators : command[p].at # "idle" => command[p].set \in Sets
  BY DEF TypeInv, CommandOK
<1>6. pointer = s => s \in reopened
  BY <1>1 DEF Served, DropOK
<1>7. \A t \in Sets : Exists(t)' => t # s /\ Exists(t)
  BY <1>2 DEF Exists
<1> HIDE DEF s
<1>8. ASSUME NEW p \in Operators PROVE Private(p)'
  BY <1>1, <1>2, <1>3, <1>5 DEF Served, Private, Builds, Building, Switching
<1>9. ASSUME NEW p \in Operators PROVE SwitchOK(p)'
  BY <1>3, <1>4 DEF SwitchOK, Switched, Switching
<1>10. ASSUME NEW i \in Ingests PROVE FirstOK(i)'
  BY <1>1, <1>4 DEF FirstOK, Switching
<1>11. PointerOK'
  BY <1>1, <1>2, <1>3, <1>6 DEF Served, PointerOK, TypeInv, TypeOK
<1>12. ActiveOK'
  BY <1>1, <1>2, <1>3 DEF Served, ActiveOK, Switched
<1>13. DropOK'
  <2>1. ASSUME NEW t \in condemned, Exists(t)' PROVE FALSE
    <3>1. t \in Sets /\ t # s /\ Exists(t)
      BY <1>7, <2>1 DEF TypeInv, TypeOK
    <3> QED BY <1>1, <1>4, <3>1 DEF Served, DropOK, s
  <2> QED BY <1>1, <2>1 DEF Served, DropOK
<1> QED BY <1>8, <1>9, <1>10, <1>11, <1>12, <1>13 DEF Served

\* The steps of an ingest, with nothing failing.
LEMMA ServedIngest ==
  ASSUME TypeInv, ServedInv, NEW i \in Ingests, IngestStep(i) \/ IngestDies(i), Calm'
  PROVE  Calm /\ Served'
<1>1. ~raced /\ Solo'
  BY SoloIngest DEF ServedInv, Calm
<1>2. ~IngestDies(i) /\ faults' = faults
  BY DEF Calm, IngestDies, IngestStep, Bind, Mint, PointAtMinted, InsertChunk, UpsertVector, RemoveChunk, Unindex,
         DeleteChunk, TypeInv, TypeOK
<1>3. Calm /\ Solo /\ Served
  BY <1>1, <1>2 DEF Calm, ServedInv
<1>4. CASE Mint(i) \/ PointAtMinted(i)
  BY <1>3, <1>4, ServedMint, ServedFirst
<1>5. CASE Bind(i) \/ InsertChunk(i) \/ UpsertVector(i) \/ RemoveChunk(i) \/ Unindex(i) \/ DeleteChunk(i)
  <2>1. /\ UNCHANGED <<sets, pointer, reopened, condemned, command>>
        /\ \A j \in Ingests \ {i} : ingest'[j] = ingest[j]
        /\ ingest[i].at # "point"
    BY <1>5 DEF Bind, InsertChunk, UpsertVector, RemoveChunk, Unindex, DeleteChunk, IngestAt, tables, history,
                TypeInv, TypeOK
  <2>2. ingest'[i].at # "point" /\ (ingest'[i].at = "mint" => pointer = None)
    <3>1. CASE Bind(i)
      BY <3>1 DEF Bind, TypeInv, TypeOK
    <3>2. CASE RemoveChunk(i)
      BY <3>2 DEF RemoveChunk, TypeInv, TypeOK
    <3>3. CASE InsertChunk(i) \/ Unindex(i)
      BY <3>3 DEF InsertChunk, Unindex, IngestAt, TypeInv, TypeOK, Ingest
    <3>4. CASE UpsertVector(i) \/ DeleteChunk(i)
      BY <3>4 DEF UpsertVector, DeleteChunk, NoIngest, TypeInv, TypeOK
    <3> QED BY <1>5, <3>1, <3>2, <3>3, <3>4
  <2> QED BY <1>3, <2>1, <2>2, QuietIngest
<1> QED BY <1>2, <1>3, <1>4, <1>5 DEF IngestStep

\* The steps of a command, with nothing failing.
LEMMA ServedCommand ==
  ASSUME TypeInv, ServedInv, NEW o \in Operators, Commanded(o) \/ CommandStep(o) \/ CommandDies(o), Calm'
  PROVE  Calm /\ Served'
<1> DEFINE k == command[o]
           K == command'[o]
           Still == sets' = sets /\ pointer' = pointer /\ reopened' = reopened /\ condemned' = condemned
<1>1. ~raced /\ Solo'
  BY SoloCommand DEF ServedInv, Calm
<1>2. ~CommandDies(o) /\ ~Throttled(o) /\ faults' = faults
  <2>1. ~CommandDies(o) /\ ~Throttled(o)
    BY DEF Calm, CommandDies, Throttled, TypeInv, TypeOK
  <2> QED BY <2>1, Zenon DEF tables, history, Commanded, CreateSet, Resume, Activate, DropSet, Rollback, CommandStep, AddJob,
         ReadBatch, EmbedBatch, StampBatch, Advance, MarkReady, CheckServable, LookAtPrevious, PointAtTarget, Promote,
         RetirePrevious, ClearVectors, RemoveSet, Planned, Give
<1>3. Calm /\ Solo /\ Served
  BY <1>1, <1>2 DEF Calm, ServedInv
<1> SUFFICES Served'
  BY <1>3
<1>4. /\ UNCHANGED ingest /\ \A p \in Operators \ {o} : command'[p] = command[p]
      /\ MoverBegins \/ raced' = raced
  BY MovesStart
<1>5. ASSUME MoverBegins PROVE (\A i \in Ingests : ~MovesIn(i)) /\ \A p \in Operators : ~Moves(p)
  BY <1>5, MoverIsFirst DEF Calm
\* Activate and Rollback.
<1>6. ASSUME NEW s \in Sets, K.at \in {"look", "check"}, K.set = s, K.previous = None, Servable(s), k.at = "idle",
             Still
      PROVE  Served'
  <2>1. SwitchOK(o)'
    BY <1>6 DEF SwitchOK, Switched, Servable
  <2>2. sets[K.set].status \notin {"building", "absent"}
    BY <1>6 DEF Servable
  <2> QED BY <1>3, <1>4, <1>6, <2>1, <2>2, QuietCommand DEF Builds, Building, Switching, Dropping, Switched
<1>7. CASE Commanded(o)
  <2>1. ASSUME NEW s \in Sets, DropSet(o, s) PROVE Served'
    <3>1. MoverBegins
      BY <2>1 DEF DropSet
    <3> QED BY <1>3, <1>5, <2>1, <3>1, ServedDrops
  <2>2. ASSUME NEW s \in Sets, Activate(o, s) PROVE Served'
    <3>1. K.at = "look" /\ K.set = s /\ K.previous = None
      BY <2>2, Begins DEF Activate
    <3> QED BY <1>6, <2>2, <3>1 DEF Activate, Give, tables
  <2>3. CASE Rollback(o)
    <3>1. PICK s \in RetiredLast : command' = [command EXCEPT ![o] = [NoCommand EXCEPT !.at = "check", !.set = s]]
      BY <2>3 DEF Rollback
    <3>2. s \in Sets /\ Servable(s)
      BY DEF RetiredLast, Retired, Servable
    <3>4. K.at = "check" /\ K.set = s /\ K.previous = None
      BY <3>1, <3>2, Begins
    <3>3. k.at = "idle" /\ Still
      BY <2>3 DEF Rollback, Give, tables
    <3> QED BY <1>6, <3>2, <3>3, <3>4
  <2> QED BY <1>3, <1>7, <2>1, <2>2, <2>3, ServedBuilds DEF Commanded
<1>8. CASE MarkReady(o)
  <2>1. K.at = "check" => MoverBegins
    BY <1>8, Ends DEF MarkReady
  <2> QED BY <1>3, <1>5, <1>8, <2>1, ServedReady
<1>9. CASE PointAtTarget(o) \/ Promote(o) \/ RetirePrevious(o) \/ RemoveSet(o)
  BY <1>3, <1>9, ServedSwitches, ServedPromotes, ServedRetires, ServedRemoves
\* The steps of a run, and of a drop, that leave the sets alone.
<1>10. ASSUME Still, k.at \in Building, K.at = "idle" \/ K.at \in Building,
              K.at # "idle" => K.set = k.set
       PROVE  Served'
  <2>1. SwitchOK(o)'
    BY <1>10 DEF SwitchOK, Switched, Building
  <2> QED BY <1>3, <1>4, <1>10, <2>1, QuietCommand DEF Builds, Building, Switching, Dropping, Switched
<1>11. CASE AddJob(o) \/ EmbedBatch(o) \/ Advance(o)
  <2>1. Still /\ k.at \in Building
        /\ \E at \in {"read", "stamp"} : CommandAt(o, at)
    BY <1>11 DEF AddJob, EmbedBatch, Advance, history, Building
  <2>2. K.at \in {"read", "stamp"} /\ K.set = k.set
    BY <2>1, Goes
  <2>3. K.at \in Building
    BY <2>2 DEF Building
  <2> QED BY <1>10, <2>1, <2>2, <2>3
<1>12. CASE StampBatch(o)
  <2>1. K.at \in {"read", "advance"} /\ K.set = k.set
    BY <1>12 DEF StampBatch, TypeInv, TypeOK, Command
  <2>2. K.at \in Building /\ k.at \in Building /\ Still
    BY <1>12, <2>1 DEF StampBatch, history, Building
  <2> QED BY <1>10, <2>1, <2>2
<1>13. CASE ReadBatch(o)
  <2>1. K.at \in {"idle", "read", "embed", "ready"} /\ (K.at # "idle" => K.set = k.set)
    BY <1>13 DEF ReadBatch, TypeInv, TypeOK, Command, NoCommand
  <2>2. (K.at = "idle" \/ K.at \in Building) /\ k.at \in Building /\ Still
    BY <1>13, <2>1 DEF ReadBatch, tables, history, Building
  <2> QED BY <1>10, <2>1, <2>2
<1>14. CASE CheckServable(o)
  <2>1. Still /\ k.at = "check"
    BY <1>14 DEF CheckServable, tables, history
  <2>2. \/ K.at = "look" /\ K.set = k.set /\ K.previous = k.previous /\ Servable(k.set)
        \/ K.at = "idle"
    BY <1>14, Goes, Ends DEF CheckServable
  <2>3. SwitchOK(o)'
    BY <2>1, <2>2 DEF SwitchOK, Switched, Servable
  <2> QED BY <1>3, <1>4, <2>1, <2>2, <2>3, QuietCommand DEF Builds, Building, Switching, Dropping, Switched
<1>15. CASE LookAtPrevious(o)
  <2>1. Still /\ k.at = "look"
    BY <1>15 DEF LookAtPrevious, tables, history
  <2>2. K.at = "point" /\ K.set = k.set /\ K.previous = pointer
    BY <1>15 DEF LookAtPrevious, TypeInv, TypeOK, Command
  <2>3. SwitchOK(o)'
    BY <1>3, <2>1, <2>2 DEF Served, SwitchOK, Switched, Servable
  <2> QED BY <1>3, <1>4, <2>1, <2>2, <2>3, QuietCommand DEF Builds, Building, Switching, Dropping, Switched
<1>16. CASE ClearVectors(o)
  <2>1. Still /\ k.at = "clear"
    BY <1>16 DEF ClearVectors, history
  <2>2. K.at = "remove" /\ K.set = k.set
    BY <1>16, Goes DEF ClearVectors
  <2>3. SwitchOK(o)'
    BY <2>1, <2>2 DEF SwitchOK, Switched
  <2> QED BY <1>3, <1>4, <2>1, <2>2, <2>3, QuietCommand DEF Builds, Building, Switching, Dropping, Switched
<1> QED BY <1>2, <1>3, <1>7, <1>8, <1>9, <1>11, <1>12, <1>13, <1>14, <1>15, <1>16 DEF CommandStep

LEMMA ServedNext ==
  ASSUME TypeInv, TypeInv', ServedInv, [Next]_vars
  PROVE  ServedInv'
<1>1. CASE UNCHANGED vars
  <2>1. ASSUME Served, Calm PROVE Served'
    <3>1. \A o \in Operators : Private(o)' /\ SwitchOK(o)'
      BY <1>1, <2>1 DEF vars, tables, history, Served, Private, SwitchOK, Builds, Switched, Servable, Exists
    <3>2. (\A i \in Ingests : FirstOK(i)') /\ PointerOK' /\ ActiveOK' /\ DropOK'
      BY <1>1, <2>1 DEF vars, tables, history, Served, FirstOK, PointerOK, ActiveOK, DropOK, Switched, Exists
    <3> QED BY <3>1, <3>2 DEF Served
  <2>2. Solo => Solo'
    BY <1>1 DEF vars, tables, history, Solo, Moves, MovesIn
  <2> QED BY <1>1, <2>1, <2>2 DEF ServedInv, Calm, vars, history
<1>2. ASSUME NEW i \in Ingests, IngestStep(i) \/ IngestDies(i) PROVE ServedInv'
  BY <1>2, SoloIngest, ServedIngest DEF ServedInv
<1>3. ASSUME NEW o \in Operators, Commanded(o) \/ CommandStep(o) \/ CommandDies(o) PROVE ServedInv'
  BY <1>3, SoloCommand, ServedCommand DEF ServedInv
<1> QED BY <1>1, <1>2, <1>3, RestChanges DEF Next

LEMMA ServedHolds == Spec => []ServedInv
<1>1. Init => ServedInv
  <2> SUFFICES ASSUME Init PROVE ServedInv
    OBVIOUS
  <2>1. Solo
    BY DEF Init, Solo, Moves, MovesIn, NoIngest, NoCommand, Switching, Dropping
  <2>2. \A o \in Operators : Private(o) /\ SwitchOK(o)
    BY DEF Init, Private, SwitchOK, Builds, Building, Switched, NoCommand
  <2>3. (\A i \in Ingests : FirstOK(i)) /\ PointerOK /\ ActiveOK /\ DropOK
    BY DEF Init, FirstOK, PointerOK, ActiveOK, DropOK, NoIngest, NoSet
  <2> QED BY <2>1, <2>2, <2>3 DEF ServedInv, Served
<1> QED BY <1>1, ServedNext, TypesHold, PTL DEF Spec

\* The set the workspace points at, and every search reads, is not one a drop
\* has begun on, unless a run was resumed on it; for any sets and operators,
\* as long as nothing failed and no two operations on the pointer overlapped.
THEOREM ServedSetIsKept == Spec => []ServedIsKept
<1>1. ServedInv => ServedIsKept
  BY DEF ServedInv, Calm, Served, DropOK, ServedIsKept
<1> QED BY <1>1, ServedHolds, PTL

\* In the same histories, and while no operation on the pointer is under way, it
\* is the active set and the only one, but for sets a run was resumed on and a
\* first set that its ingest is about to point at.
THEOREM OneActiveSet == Spec => []ActiveIsServed
<1>1. TypeInv /\ ServedInv => ActiveIsServed
  <2> SUFFICES ASSUME TypeInv, ServedInv, Calm, ~Moving, pointer \notin {None} \cup reopened
               PROVE  {s \in Sets : sets[s].status = "active"} \ reopened
                        = {pointer} \cup {ingest[i].set : i \in {j \in Ingests : ingest[j].at = "point"}}
    BY DEF ActiveIsServed, Calm
  <2>1. \A o \in Operators : command[o].at # "promote" /\ ~Switched(o)
    BY DEF Moving, Switched, Switching
  <2>2. pointer \in Sets /\ sets[pointer].status = "active"
    BY <2>1 DEF ServedInv, Served, PointerOK, TypeInv, TypeOK
  <2>3. {j \in Ingests : ingest[j].at = "point"} = {}
    BY DEF ServedInv, Served, FirstOK
  <2>4. \A s \in Sets \ reopened : sets[s].status = "active" => s = pointer
    BY <2>1, <2>3 DEF ServedInv, Served, ActiveOK
  <2> QED BY <2>2, <2>3, <2>4
<1> QED BY <1>1, TypesHold, ServedHolds, PTL

-----------------------------------------------------------------------------
(* What a rollback offers.                                                   *)

\* A step that unsettles sets at most, and retires none.
LEMMA RankedQuiet ==
  ASSUME Ranked, left' = left,
         \A s \in Sets : Settled(s)' =>
           /\ Settled(s) /\ sets'[s].retired_at = sets[s].retired_at
           /\ sets'[s].status = "retired" <=> sets[s].status = "retired",
         \A o \in Operators : Switched(o)' =>
           Switched(o) /\ command'[o].set = command[o].set /\ command'[o].previous = command[o].previous
  PROVE  Ranked'
<1>1. \A s \in Sets : Settled(s)' => (sets'[s].status = "retired" <=> left'[s] > 0)
  BY DEF Ranked
<1>2. \A s, t \in Sets :
        Settled(s)' /\ Settled(t)' /\ left'[s] > 0 /\ left'[t] > 0 =>
          (left'[t] <= left'[s] <=> sets'[t].retired_at <= sets'[s].retired_at)
  BY DEF Ranked
<1>3. \A o \in Operators :
        Switched(o)' /\ command'[o].previous \notin {None, command'[o].set} => LeftLast(command[o].previous)'
  BY DEF Ranked, LeftLast
<1> QED BY <1>1, <1>2, <1>3 DEF Ranked

LEMMA RankedIngest ==
  ASSUME TypeInv, Served, Ranked, NEW i \in Ingests, IngestStep(i)
  PROVE  Ranked'
<1>1. UNCHANGED <<command, condemned, reopened>>
  BY DEF IngestStep, Bind, Mint, PointAtMinted, InsertChunk, UpsertVector, RemoveChunk, Unindex, DeleteChunk, history
<1>2. CASE Mint(i)
  <2>1. PICK s \in Sets : Unused(s) /\ sets' = [sets EXCEPT ![s] = [NoSet EXCEPT !.status = "active", !.model = DefaultModel]]
    BY <1>2 DEF Mint
  <2>2. UNCHANGED <<pointer, left>>
    BY <1>2 DEF Mint, history
  <2>3. \A t \in Sets : sets'[t].retired_at = sets[t].retired_at /\ (sets'[t].status = "retired" <=> sets[t].status = "retired")
    BY <2>1 DEF Unused, NoSet, TypeInv, TypeOK
  <2> QED BY <1>1, <2>2, <2>3, RankedQuiet DEF Settled, Switched
<1>3. CASE PointAtMinted(i)
  <2>1. pointer = None /\ UNCHANGED <<sets, left>>
    BY <1>3 DEF PointAtMinted, PointAt, Served, FirstOK
  <2>2. \A s \in Sets : Settled(s)' => Settled(s)
    BY <1>1, <2>1, NoneAssumption DEF Settled, Switched
  <2> QED BY <1>1, <2>1, <2>2, RankedQuiet DEF Switched
<1>4. CASE ~Mint(i) /\ ~PointAtMinted(i)
  <2>1. UNCHANGED <<sets, pointer, left>>
    BY <1>4 DEF IngestStep, Bind, InsertChunk, UpsertVector, RemoveChunk, Unindex, DeleteChunk, tables, history
  <2> QED BY <1>1, <2>1, RankedQuiet DEF Settled, Switched
<1> QED BY <1>2, <1>3, <1>4

LEMMA RankedSwitches ==
  ASSUME TypeInv, TypeInv', Served, Solo, Ranked, NEW o \in Operators, PointAtTarget(o)
  PROVE  Ranked'
<1> DEFINE s == command[o].set
           b == command[o].previous
<1>1. /\ command[o].at = "point" /\ s \in Sets /\ pointer' = s /\ b = pointer
      /\ UNCHANGED <<sets, reopened, condemned>>
      /\ left' = IF pointer \notin {None, s} THEN [left EXCEPT ![pointer] = Now] ELSE left
  BY DEF PointAtTarget, PointAt, TypeInv, CommandOK, Served, SwitchOK
<1>2. /\ \A p \in Operators \ {o} : command'[p] = command[p]
      /\ command'[o].at = "promote" /\ command'[o].set = s /\ command'[o].previous = b
  BY Goes DEF PointAtTarget
<1>3. \A p \in Operators \ {o} : command[p].at \notin Switching
  BY <1>1, Alone DEF Moves, Switching
<1>4. Now \in Nat /\ left \in [Sets -> Nat] /\ \A t \in Sets : left[t] < Now
  BY <1>1, NowIsLater DEF TypeInv, TypeOK
<1>5. \A p \in Operators : ~Switched(p) /\ (Switched(p)' => p = o)
  BY <1>1, <1>2, <1>3 DEF Switched, Switching
<1>6. b # None => b \in Sets
  BY <1>1 DEF TypeInv, TypeOK
<1> HIDE DEF s, b
<1>7. \A t \in Sets : Settled(t)' => Settled(t) /\ left'[t] = left[t]
  BY <1>1, <1>2, <1>4, <1>5 DEF Settled, Switched
<1>8. \A t \in Sets : Settled(t)' => (sets'[t].status = "retired" <=> left'[t] > 0)
  BY <1>1, <1>7 DEF Ranked
<1>9. \A t, u \in Sets :
        Settled(t)' /\ Settled(u)' /\ left'[t] > 0 /\ left'[u] > 0 =>
          (left'[u] <= left'[t] <=> sets'[u].retired_at <= sets'[t].retired_at)
  BY <1>1, <1>7 DEF Ranked
<1>10. ASSUME NEW x \in Sets, x = b, x # s PROVE LeftLast(x)'
  <2>1. left' = [left EXCEPT ![x] = Now]
    BY <1>1, <1>10, NoneAssumption
  <2> QED BY <1>4, <2>1 DEF LeftLast
<1>11. ASSUME NEW p \in Operators, Switched(p)', command'[p].previous \notin {None, command'[p].set}
       PROVE  LeftLast(command[p].previous)'
  <2>1. p = o /\ b \in Sets /\ b # s
    BY <1>2, <1>5, <1>6, <1>11
  <2> QED BY <1>2, <1>10, <2>1
<1> QED BY <1>8, <1>9, <1>11 DEF Ranked

LEMMA RankedRetires ==
  ASSUME TypeInv, Served, Solo, Ranked, NEW o \in Operators, RetirePrevious(o)
  PROVE  Ranked'
<1>0. PICK b \in Sets : b = command[o].previous
  BY NoneAssumption DEF RetirePrevious, TypeInv, TypeOK, CommandOK, Command
<1>1. /\ command[o].at = "retire" /\ b \in Sets /\ Made(b) /\ b \notin {None, command[o].set}
      /\ UNCHANGED <<pointer, condemned, reopened, left>>
  BY <1>0, NoneAssumption DEF RetirePrevious, TypeInv, CommandOK, history
<1>2. /\ \A t \in Sets : t # b => sets'[t] = sets[t]
      /\ IF Exists(b) THEN sets'[b].status = "retired" /\ sets'[b].retired_at = Now ELSE b \in condemned
  BY <1>0, <1>1 DEF RetirePrevious, Exists, TypeInv, TypeOK, SetRow, MadeInv
<1>3. /\ \A p \in Operators \ {o} : command'[p] = command[p]
      /\ command'[o].at = "idle" /\ command'[o].previous = None
  BY Ends DEF RetirePrevious
<1>4. \A p \in Operators \ {o} : command[p].at \notin Switching
  BY <1>1, Alone DEF Moves, Switching
<1>5. Now \in Nat /\ left \in [Sets -> Nat] /\ \A t \in Sets : sets[t].retired_at < Now /\ sets[t].retired_at \in Nat
  BY <1>1, NowIsLater DEF TypeInv, TypeOK, SetRow
<1>6. left[b] > 0 /\ \A t \in Sets : t # b => left[t] < left[b]
  BY <1>0, <1>1 DEF Ranked, Switched, LeftLast
<1>7. \A p \in Operators : ~Switched(p)'
  BY <1>3, <1>4 DEF Switched, Switching
<1>8. ASSUME NEW t \in Sets, Settled(t)', t # b PROVE Settled(t) /\ sets'[t] = sets[t]
  BY <1>0, <1>1, <1>2, <1>3, <1>4, <1>8 DEF Settled, Switched, Switching
<1>9. Settled(b)' => Exists(b)
  BY <1>1, <1>2 DEF Settled
<1>10. \A t \in Sets : Settled(t)' => (sets'[t].status = "retired" <=> left'[t] > 0)
  <2> SUFFICES ASSUME NEW t \in Sets, Settled(t)' PROVE sets'[t].status = "retired" <=> left'[t] > 0
    OBVIOUS
  <2>1. CASE t = b
    BY <1>1, <1>2, <1>6, <1>9, <2>1
  <2>2. CASE t # b
    BY <1>1, <1>8, <2>2 DEF Ranked
  <2> QED BY <2>1, <2>2
<1>11. ASSUME NEW t \in Sets, NEW u \in Sets, Settled(t)', Settled(u)', left'[t] > 0, left'[u] > 0
       PROVE  left'[u] <= left'[t] <=> sets'[u].retired_at <= sets'[t].retired_at
  <2>1. /\ left' = left /\ left[t] \in Nat /\ left[u] \in Nat /\ left[b] \in Nat
        /\ sets[t].retired_at \in Nat /\ sets[u].retired_at \in Nat
        /\ sets[t].retired_at < Now /\ sets[u].retired_at < Now
    BY <1>1, <1>5
  <2>2. CASE t = b /\ u = b
    BY <1>2, <1>5, <1>9, <1>11, <2>1, <2>2
  <2>3. CASE t = b /\ u # b
    <3>1. sets'[t].retired_at = Now /\ sets'[u] = sets[u] /\ left[u] < left[t]
      BY <1>2, <1>6, <1>8, <1>9, <1>11, <2>3
    <3> QED BY <1>5, <2>1, <3>1
  <2>4. CASE t # b /\ u = b
    <3>1. sets'[u].retired_at = Now /\ sets'[t] = sets[t] /\ left[t] < left[u]
      BY <1>2, <1>6, <1>8, <1>9, <1>11, <2>4
    <3> QED BY <1>5, <2>1, <3>1
  <2>5. CASE t # b /\ u # b
    <3>1. sets'[u] = sets[u] /\ sets'[t] = sets[t] /\ Settled(t) /\ Settled(u)
      BY <1>8, <1>11, <2>5
    <3> QED BY <1>11, <2>1, <3>1 DEF Ranked
  <2> QED BY <2>2, <2>3, <2>4, <2>5
<1> QED BY <1>7, <1>10, <1>11 DEF Ranked

LEMMA RankedCommand ==
  ASSUME TypeInv, TypeInv', Served, Solo, Ranked, NEW o \in Operators, Commanded(o) \/ CommandStep(o), Calm'
  PROVE  Ranked'
<1> DEFINE k == command[o]
           K == command'[o]
           AsRetired(s) == /\ sets'[s].retired_at = sets[s].retired_at
                           /\ sets'[s].status = "retired" <=> sets[s].status = "retired"
<1>1. \A p \in Operators \ {o} : command'[p] = command[p]
  BY MovesStart
\* A step that is not a switch, and changes no set but s, which is not settled
\* or not retired.
<1>2. ASSUME ~Switched(o), ~Switched(o)', pointer' = pointer, left' = left, condemned \subseteq condemned',
             reopened \subseteq reopened', \A s \in Sets : Settled(s)' => AsRetired(s)
      PROVE  Ranked'
  <2>1. \A s \in Sets : Settled(s)' => Settled(s)
    BY <1>1, <1>2 DEF Settled, Switched
  <2> QED BY <1>1, <1>2, <2>1, RankedQuiet DEF Switched
<1>3. CASE Commanded(o)
  <2>1. ~Switched(o)
    <3>1. Give(o)
      BY <1>3, Zenon DEF Commanded, CreateSet, Planned, Resume, Activate, DropSet, Rollback
    <3> QED BY <3>1 DEF Give, Switched
  <2>2. ~Switched(o)'
    <3>1. ASSUME NEW s \in Sets, Resume(o, s) \/ \E m \in Models : CreateSet(o, s, m) PROVE ~Switched(o)'
      BY <3>1, Builder, Zenon DEF Switched
    <3>2. ASSUME NEW s \in Sets, NEW at \in {"look", "check", "clear"},
                 command' = [command EXCEPT ![o] = [NoCommand EXCEPT !.at = at, !.set = s]]
          PROVE  ~Switched(o)'
      BY <3>2, Begins DEF Switched
    <3>3. CASE Rollback(o)
      BY <3>2, <3>3 DEF Rollback, RetiredLast, Retired
    <3> QED BY <1>3, <3>1, <3>2, <3>3, Zenon DEF Commanded, Activate, DropSet
  <2>3. /\ pointer' = pointer /\ left' = left /\ condemned \subseteq condemned' /\ reopened \subseteq reopened'
    <3> DEFINE Stays == pointer' = pointer /\ left' = left /\ condemned \subseteq condemned' /\ reopened \subseteq reopened'
    <3>1. ASSUME NEW s \in Sets, NEW m \in Models, CreateSet(o, s, m) PROVE Stays
      BY <3>1 DEF CreateSet, history
    <3>2. ASSUME NEW s \in Sets, Resume(o, s) \/ Activate(o, s) \/ DropSet(o, s) PROVE Stays
      BY <3>2 DEF Resume, Activate, DropSet, tables
    <3>3. ASSUME Rollback(o) PROVE Stays
      BY <3>3 DEF Rollback, tables
    <3> SUFFICES Stays
      OBVIOUS
    <3> HIDE DEF Stays
    <3> QED BY <1>3, <3>1, <3>2, <3>3, Zenon DEF Commanded
  <2>4. \A s \in Sets : AsRetired(s)
    <3>1. ASSUME NEW s \in Sets, NEW m \in Models, CreateSet(o, s, m), NEW t \in Sets PROVE AsRetired(t)
      BY <3>1 DEF CreateSet, Unused, NoSet, TypeInv, TypeOK
    <3>2. CASE UNCHANGED sets
      BY <3>2
    <3> HIDE DEF AsRetired
    <3> QED BY <1>3, <3>1, <3>2, Zenon DEF Commanded, Resume, Activate, DropSet, Rollback, tables
  <2> QED BY <1>2, <2>1, <2>2, <2>3, <2>4
\* The steps that leave every set and the pointer alone.
<1>4. CASE AddJob(o) \/ EmbedBatch(o) \/ Advance(o) \/ CheckServable(o) \/ ClearVectors(o)
  <2>1. /\ ~Switched(o) /\ UNCHANGED <<sets, pointer, left, condemned, reopened>>
        /\ CommandEnds(o) \/ \E at \in {"read", "stamp", "look", "remove"} : CommandAt(o, at)
    BY <1>4 DEF AddJob, EmbedBatch, Advance, CheckServable, ClearVectors, Switched, tables, history
  <2>2. ~Switched(o)'
    BY <2>1, Goes, Ends DEF Switched
  <2> QED BY <1>2, <2>1, <2>2
<1>5. CASE ReadBatch(o) \/ StampBatch(o) \/ LookAtPrevious(o)
  <2>1. ~Switched(o) /\ UNCHANGED <<sets, pointer, left, condemned, reopened>>
    BY <1>5 DEF ReadBatch, StampBatch, LookAtPrevious, Switched, tables, history
  <2>2. K.at \in {"idle", "read", "embed", "ready", "advance", "point"}
    <3>1. CASE ReadBatch(o)
      <4>1. k \in Command
        BY DEF TypeInv, TypeOK
      <4>2. K.at \in {"idle", "read", "embed", "ready"}
        BY <3>1, <4>1 DEF ReadBatch, TypeInv, TypeOK, Command, NoCommand
      <4> QED BY <4>2
    <3>2. CASE StampBatch(o) \/ LookAtPrevious(o)
      BY <3>2 DEF StampBatch, LookAtPrevious, TypeInv, TypeOK, Command
    <3> QED BY <1>5, <3>1, <3>2
  <2>3. ~Switched(o)'
    BY <2>2 DEF Switched
  <2> QED BY <1>2, <2>1, <2>3
<1>6. CASE MarkReady(o)
  <2>1. PICK s \in Sets : s = k.set
    BY <1>6 DEF MarkReady, TypeInv, CommandOK
  <2>2. /\ k.at = "ready" /\ UNCHANGED <<pointer, left, condemned, reopened>> /\ sets' = SetStatus(s, "ready")
    BY <1>6, <2>1 DEF MarkReady
  <2>3. /\ \A t \in Sets : t # s => sets'[t] = sets[t]
        /\ \A t \in Sets : sets'[t].retired_at = sets[t].retired_at
        /\ sets'[s].status \in {"ready", "absent"}
    BY <2>2, StatusSet
  <2>4. Settled(s)' => sets[s].status \in {"building", "absent"}
    BY <2>1, <2>2 DEF Settled, Served, Private, Builds, Building
  <2>5. ~Switched(o) /\ ~Switched(o)'
    BY <1>6, <2>1, <2>2, Begins, Ends, Zenon DEF MarkReady, Switched
  <2>6. \A t \in Sets : Settled(t)' => AsRetired(t)
    BY <2>3, <2>4
  <2> QED BY <1>2, <2>2, <2>5, <2>6
<1>7. CASE RemoveSet(o)
  <2>1. PICK s \in Sets : s = k.set /\ s \in condemned
    BY <1>7 DEF RemoveSet, TypeInv, CommandOK, Dropping
  <2>2. /\ k.at = "remove" /\ UNCHANGED <<pointer, left, condemned, reopened>>
        /\ \A t \in Sets : t # s => sets'[t] = sets[t]
    BY <1>7, <2>1 DEF RemoveSet, history, TypeInv, TypeOK
  <2>3. ~Switched(o) /\ ~Switched(o)'
    BY <1>7, <2>2, Ends DEF RemoveSet, Switched
  <2>4. \A t \in Sets : Settled(t)' => AsRetired(t)
    BY <2>1, <2>2 DEF Settled
  <2> QED BY <1>2, <2>2, <2>3, <2>4
<1>8. CASE Promote(o)
  <2>1. PICK s \in Sets : s = k.set
    BY <1>8 DEF Promote, TypeInv, CommandOK
  <2>2. /\ k.at = "promote" /\ UNCHANGED <<pointer, left, condemned>> /\ sets' = SetStatus(s, "active")
        /\ reopened \ {s} \subseteq reopened' /\ pointer = s
    BY <1>8, <2>1 DEF Promote, Served, SwitchOK, Switched
  <2>3. \A t \in Sets : t # s => sets'[t] = sets[t]
    BY <2>2, StatusSet
  <2>4. \/ K.at = "retire" /\ K.set = s /\ K.previous = k.previous
        \/ K.at = "idle" /\ k.previous \in {None, s}
    BY <1>8, <2>1, Goes, Ends DEF Promote
  <2>5. ASSUME NEW t \in Sets, Settled(t)' PROVE Settled(t) /\ t # s
    <3>1. t # s /\ t \notin condemned \cup reopened \cup {pointer}
      BY <2>2, <2>5 DEF Settled
    <3>2. ASSUME NEW p \in Operators, Switched(p) PROVE command[p].previous # t
      <4>1. CASE p = o
        BY <2>4, <2>5, <3>1, <4>1, NoneAssumption DEF Settled, Switched
      <4>2. CASE p # o
        BY <1>1, <2>5, <3>2, <4>2 DEF Settled, Switched
      <4> QED BY <4>1, <4>2
    <3> QED BY <3>1, <3>2 DEF Settled
  <2>6. \A p \in Operators : Switched(p)' =>
          Switched(p) /\ command'[p].set = command[p].set /\ command'[p].previous = command[p].previous
    BY <1>1, <2>1, <2>2, <2>4 DEF Switched
  <2> QED BY <2>2, <2>3, <2>5, <2>6, RankedQuiet
<1>9. CASE Throttled(o)
  BY <1>9 DEF Throttled, Calm, TypeInv, TypeOK
<1> QED BY <1>3, <1>4, <1>5, <1>6, <1>7, <1>8, <1>9, RankedSwitches, RankedRetires DEF CommandStep

LEMMA RankedNext ==
  ASSUME TypeInv, TypeInv', ServedInv, RollbackInv, [Next]_vars
  PROVE  RollbackInv'
<1> SUFFICES ASSUME Calm' PROVE Ranked'
  BY DEF RollbackInv
<1>1. CASE UNCHANGED vars
  <2>1. Calm /\ Ranked
    BY <1>1 DEF RollbackInv, Calm, vars, history
  <2> QED BY <1>1, <2>1, RankedQuiet DEF vars, tables, history, Settled, Switched
<1>2. ASSUME NEW i \in Ingests, IngestStep(i) \/ IngestDies(i) PROVE Ranked'
  <2>1. Calm
    BY <1>2, ServedIngest
  <2>2. ~IngestDies(i)
    BY DEF Calm, IngestDies, TypeInv, TypeOK
  <2> QED BY <1>2, <2>1, <2>2, RankedIngest DEF RollbackInv, ServedInv
<1>3. ASSUME NEW o \in Operators, Commanded(o) \/ CommandStep(o) \/ CommandDies(o) PROVE Ranked'
  <2>1. Calm
    BY <1>3, ServedCommand
  <2>2. ~CommandDies(o)
    BY DEF Calm, CommandDies, TypeInv, TypeOK
  <2> QED BY <1>3, <2>1, <2>2, RankedCommand DEF RollbackInv, ServedInv, Calm
<1> QED BY <1>1, <1>2, <1>3, RestChanges DEF Next

LEMMA RollbackHolds == Spec => []RollbackInv
<1>1. Init => RollbackInv
  BY DEF Init, RollbackInv, Ranked, Switched, NoSet, NoCommand
<1> QED BY <1>1, RankedNext, TypesHold, ServedHolds, PTL DEF Spec

\* What previous_active offers a rollback is the set the pointer left last,
\* if it is still there: the clock of retired_at, which a retirement reads
\* after the switch it belongs to, orders the retired sets as the switches
\* did; as long as nothing failed, overlapped or was resumed.
THEOREM RollbackIsToThePrevious == Spec => []RollbackOffersPrevious
<1>1. TypeInv /\ ServedInv /\ RollbackInv => RollbackOffersPrevious
  <2> SUFFICES ASSUME TypeInv, ServedInv, RollbackInv, Calm, ~Moving, reopened = {}, pointer # None
               PROVE  RetiredLast \ condemned = {s \in Before : \A t \in Before : left[t] <= left[s]}
    BY DEF RollbackOffersPrevious, Calm
  <2>1. \A o \in Operators : ~Switched(o) /\ command[o].at \notin Dropping
    BY DEF Moving, Switched, Switching
  <2>2. \A s \in condemned : sets[s].status = "absent"
    BY <2>1 DEF ServedInv, Served, DropOK, Exists
  <2>3. \A s \in Sets : s \notin condemned /\ s # pointer => Settled(s)
    BY <2>1 DEF Settled
  <2>4. Retired = Before
    <3>1. ASSUME NEW s \in Retired PROVE s \in Before
      BY <2>2, <2>3 DEF Retired, Before, RollbackInv, Ranked
    <3>2. ASSUME NEW s \in Before PROVE s \in Retired
      BY <2>3 DEF Retired, Before, RollbackInv, Ranked
    <3> QED BY <3>1, <3>2
  <2>5. \A s, t \in Before : left[t] <= left[s] <=> sets[t].retired_at <= sets[s].retired_at
    BY <2>3 DEF Before, RollbackInv, Ranked
  <2>6. \A s \in Before : s \notin condemned
    BY DEF Before
  <2> QED BY <2>4, <2>5, <2>6 DEF RetiredLast
<1> QED BY <1>1, TypesHold, ServedHolds, RollbackHolds, PTL
===============================================================================
