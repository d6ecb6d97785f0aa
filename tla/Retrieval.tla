------------------------------- MODULE Retrieval -------------------------------
(***************************************************************************)
(* One search (RetrievalService.search): the question is expanded, each    *)
(* query ranks chunks by text and by vector (HybridRetriever), the         *)
(* rankings are fused by reciprocal rank, the best are fetched, hydrated,  *)
(* filtered, reranked and cut.  Between these reads chunks come and go and *)
(* what the filters look at changes.                                       *)
(*                                                                         *)
(* What a ranking depends on is not modelled: an index may return any of   *)
(* its chunks in any order.  Scores are exact here, floats in the code.    *)
(* The fusion runs in one go in the code, and a ranking at a time here.  A *)
(* definition whose name ends in Mutant is the one that follows it with a  *)
(* plausible bug.                                                          *)
(***************************************************************************)
EXTENDS Integers, Sequences, SequencesExt, FiniteSets

CONSTANTS
  Chunks,
  MaxQueries,  \* query_expansion_n
  PerQueryK,   \* per_query_k
  TopK,        \* top_k
  OverFetch,   \* 3, how many times top_k are fetched to have enough after the filters
  RrfK,        \* rrf_k
  Unit,        \* the score 1: a multiple of all RrfK + rank
  RerankN,     \* reranker_top_n
  MaxChanges   \* bound: changes of the corpus during the search

SearchSettings ==
  /\ IsFiniteSet(Chunks)
  /\ MaxQueries \in Nat \ {0} /\ PerQueryK \in Nat /\ TopK \in Nat /\ OverFetch \in Nat
  /\ RrfK \in Nat /\ RerankN \in Nat /\ MaxChanges \in Nat
  /\ Unit \in Nat /\ \A rank \in 1 .. PerQueryK : Unit % (RrfK + rank) = 0
ASSUME SearchAssumption == SearchSettings

VARIABLES
  rows,      \* the chunks of the scope in the table
  indexed,   \* those with a vector; a replaced source leaves some behind
  fits,      \* those that pass the filters, by their source and their knowledge item
  options,   \* whether the search has filters, and a reranker
  changes,   \* count for the bound
  stage,     \* expand, text, vector, fuse, fetch, hydrate, filter, rerank, done
  left,      \* queries that have not been asked yet
  rankings,  \* what the legs have returned, a failed one nothing
  fused,     \* how many of them have been added up
  score,     \* of each chunk, what they gave it
  hits,      \* the chunks the search has come to, best first
  always,    \* history: the chunks that were there and fitted since it began
  ever       \* history: the chunks that were there, and those that fitted, at some time since

corpus  == <<rows, indexed, fits, changes, always, ever>>
searchVars == <<corpus, options, stage, left, rankings, fused, score, hits>>

\* What a leg may return: some of the chunks, each once, in some order.
Rankings(chunks) == {s \in SeqOf(chunks, PerQueryK) : IsInjective(s)}
RankIn(c, ranking) == CHOOSE i \in DOMAIN ranking : ranking[i] = c
Orders(chunks) == Bijection(1 .. Cardinality(chunks), chunks)
\* The one sequence of the chunks of s that are in the set, in the order of s.
Kept(s, chunks) ==
  {t \in Orders(ToSet(s) \cap chunks) :
     \A i, j \in DOMAIN t : i < j => RankIn(t[i], s) < RankIn(t[j], s)}
AtMost(n, s) == SubSeq(s, 1, IF Len(s) < n THEN Len(s) ELSE n)

SearchTypeOK ==
  /\ rows \subseteq Chunks /\ indexed \subseteq Chunks /\ fits \subseteq Chunks
  /\ options \in [filtered : BOOLEAN, reranked : BOOLEAN]
  /\ changes \in 0 .. MaxChanges
  /\ stage \in {"expand", "text", "vector", "fuse", "fetch", "hydrate", "filter", "rerank", "done"}
  /\ left \in 0 .. MaxQueries
  /\ rankings \in Seq(Rankings(Chunks)) /\ Len(rankings) <= 2 * MaxQueries
  /\ fused \in 0 .. Len(rankings) /\ score \in [Chunks -> Nat]
  /\ hits \in Seq(Chunks)
  /\ always \subseteq Chunks /\ ever \in [there : SUBSET Chunks, fit : SUBSET Chunks]

SearchInit ==
  /\ rows \in {Chunks} \cup {Chunks \ {c} : c \in Chunks} /\ indexed = Chunks /\ fits = Chunks
  /\ options \in [filtered : BOOLEAN, reranked : BOOLEAN]
  /\ changes = 0
  /\ stage = "expand" /\ left = 0
  /\ rankings = <<>> /\ hits = <<>> /\ fused = 0 /\ score = [c \in Chunks |-> 0]
  /\ always = rows \cap fits /\ ever = [there |-> rows, fit |-> fits]

-----------------------------------------------------------------------------
(* The search.                                                               *)

\* The question itself comes first; an expander that fails adds nothing.
Expand ==
  /\ stage = "expand"
  /\ left' \in 1 .. MaxQueries
  /\ stage' = "text"
  /\ UNCHANGED <<corpus, options, rankings, fused, score, hits>>

\* bm25_search reads the rows.  A leg that fails is logged, the others go on.
TextLeg ==
  /\ stage = "text"
  /\ \E ranking \in Rankings(rows) : rankings' = Append(rankings, ranking)
  /\ stage' = "vector"
  /\ UNCHANGED <<corpus, options, left, fused, score, hits>>

\* The vectors of chunks that are gone rank as well.
VectorLeg ==
  /\ stage = "vector"
  /\ \E ranking \in Rankings(indexed) : rankings' = Append(rankings, ranking)
  /\ left' = left - 1
  /\ stage' = IF left = 1 THEN "fuse" ELSE "text"
  /\ UNCHANGED <<corpus, options, fused, score, hits>>

Ranked == UNION {ToSet(rankings[i]) : i \in DOMAIN rankings}

\* A ranking gives a chunk 1 / (RrfK + rank).
Weight(rank) == Unit \div (RrfK + rank)
FuseRanking ==
  /\ stage = "fuse" /\ fused < Len(rankings)
  /\ fused' = fused + 1
  /\ LET ranking == rankings[fused']
     IN  score' = [c \in Chunks |->
           score[c] + IF c \in ToSet(ranking) THEN Weight(RankIn(c, ranking)) ELSE 0]
  /\ UNCHANGED <<corpus, options, stage, left, rankings, hits>>

\* sorted() is stable, and the scores are in the order in which chunks came up.
CameUpBefore(a, b) ==
  \E i \in DOMAIN rankings :
    /\ a \in ToSet(rankings[i])
    /\ \A j \in 1 .. i : b \in ToSet(rankings[j]) =>
         j = i /\ RankIn(a, rankings[i]) < RankIn(b, rankings[i])
Precedes(a, b) == score[a] > score[b] \/ (score[a] = score[b] /\ CameUpBefore(a, b))

Fuse ==
  /\ stage = "fuse" /\ fused = Len(rankings)
  /\ \E order \in Orders(Ranked) :
       /\ \A i, j \in DOMAIN order : i < j => Precedes(order[i], order[j])
       /\ hits' = AtMost(OverFetch * TopK, order)
  /\ stage' = "fetch"
  /\ UNCHANGED <<corpus, options, left, rankings, fused, score>>

\* A chunk that is not in the table is no hit: twice, in get_chunks and in _hydrate.
FetchMutant ==
  /\ stage = "fetch"
  /\ hits' \in Orders(ToSet(hits) \cap rows)
  /\ stage' = "hydrate"
  /\ UNCHANGED <<corpus, options, left, rankings, fused, score>>
Fetch ==
  /\ stage = "fetch"
  /\ hits' \in Kept(hits, rows)
  /\ stage' = "hydrate"
  /\ UNCHANGED <<corpus, options, left, rankings, fused, score>>

Hydrate ==
  /\ stage = "hydrate"
  /\ hits' \in Kept(hits, rows)
  /\ stage' = "filter"
  /\ UNCHANGED <<corpus, options, left, rankings, fused, score>>

\* The sources and the published citations are read after the chunks.
Filter ==
  /\ stage = "filter"
  /\ hits' \in IF options.filtered THEN Kept(hits, fits) ELSE {hits}
  /\ stage' = "rerank"
  /\ UNCHANGED <<corpus, options, left, rankings, fused, score>>

\* The provider returns the best of its window, as many as are asked for, or
\* the window as it is: without a key, when it fails, or when there is none.
Reorderings(window) ==
  {window} \cup
  (IF options.reranked
     THEN {s \in SeqOf(ToSet(window), TopK) :
             IsInjective(s) /\ (Len(s) = TopK \/ Len(s) = Len(window))}
     ELSE {})
RerankMutant ==
  /\ stage = "rerank"
  /\ \E ranked \in Reorderings(AtMost(RerankN, hits)) : hits' = AtMost(TopK, ranked \o hits)
  /\ stage' = "done"
  /\ UNCHANGED <<corpus, options, left, rankings, fused, score>>
Rerank ==
  /\ stage = "rerank"
  /\ \E ranked \in Reorderings(AtMost(RerankN, hits)) :
       hits' = AtMost(TopK, ranked \o SubSeq(hits, Len(ranked) + 1, Len(hits)))
  /\ stage' = "done"
  /\ UNCHANGED <<corpus, options, left, rankings, fused, score>>

-----------------------------------------------------------------------------
(* The corpus changes meanwhile.                                             *)

Changed ==
  /\ changes < MaxChanges /\ changes' = changes + 1
  /\ stage \notin {"expand", "done"}
  /\ always' = always \cap rows' \cap fits'
  /\ ever' = [there |-> ever.there \cup rows', fit |-> ever.fit \cup fits']
  /\ UNCHANGED <<options, stage, left, rankings, fused, score, hits>>

\* A source is removed or replaced, or ingested.
ChangeRows ==
  /\ \E c \in Chunks :
       \/ rows' = rows \ {c} /\ indexed' \in {indexed, indexed \ {c}}
       \/ rows' = rows \cup {c} /\ indexed' = indexed \cup {c}
  /\ UNCHANGED fits
  /\ Changed

\* The knowledge item of a chunk is published, retired, moved.
ChangeFit ==
  /\ options.filtered
  /\ \E c \in Chunks : fits' \in {fits \ {c}, fits \cup {c}}
  /\ UNCHANGED <<rows, indexed>>
  /\ Changed

SearchNext ==
  \/ Expand \/ TextLeg \/ VectorLeg \/ FuseRanking \/ Fuse \/ Fetch \/ Hydrate \/ Filter \/ Rerank
  \/ ChangeRows \/ ChangeFit

SearchSpec == SearchInit /\ [][SearchNext]_searchVars

-----------------------------------------------------------------------------
(* Safety.                                                                   *)

\* What a search returns are chunks that were in the table while it ran, and
\* that fitted its filters, each of them once: no vector of a removed source,
\* no copy from the reranker's window.
HitsAreLive ==
  stage = "done" =>
    /\ IsInjective(hits) /\ Len(hits) <= TopK
    /\ \A c \in ToSet(hits) : c \in ever.there /\ (options.filtered => c \in ever.fit)

\* A chunk that is ranked before another wherever that one is ranked.
Beats(a, b) ==
  \A i \in DOMAIN rankings : b \in ToSet(rankings[i]) =>
    a \in ToSet(rankings[i]) /\ RankIn(a, rankings[i]) < RankIn(b, rankings[i])

\* Without a reranker such a chunk, if it was there and fitted all along, is
\* returned before the other, whatever came and went, failed or was cut off.
BetterStaysAhead ==
  stage = "done" /\ ~options.reranked =>
    \A b \in ToSet(hits) : \A a \in always \ {b} :
      Beats(a, b) => a \in ToSet(hits) /\ RankIn(a, hits) < RankIn(b, hits)
=============================================================================
