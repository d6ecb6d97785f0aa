------------------------------- MODULE Chunking -------------------------------
(***************************************************************************)
(* ParagraphChunker.chunk: the sections of a document are cut into the     *)
(* pieces that become its chunks.  Paragraphs are packed up to a budget of *)
(* characters, a paragraph above it is split, and a new piece repeats the  *)
(* end of the one before.                                                  *)
(*                                                                         *)
(* Of a text there is its length: a piece is the sequence of the spans it  *)
(* joins by blank lines, each with its place in the piece.  Section paths, *)
(* pages and the offsets of a chunk are left out.  A definition whose name *)
(* ends in Mutant is the one that follows it with a plausible bug.         *)
(***************************************************************************)
EXTENDS Integers, Sequences, SequencesExt

CONSTANTS
  ChunkSettings,   \* of char_budget and overlap_chars: records [budget, overlap]
  Texts   \* sequences of sections; a section is the lengths of its paragraphs

\* max(1, ...) and max(0, ...); an empty paragraph is dropped.
ASSUME ChunkingAssumption ==
  /\ ChunkSettings \subseteq [budget : Nat \ {0}, overlap : Nat]
  /\ Texts \subseteq Seq(Seq(Nat \ {0}))

VARIABLES
  setting, document,
  section, paragraph, \* the paragraph at hand
  cursor,   \* i in _split_by_chars; NoSplit outside of it
  buffer,   \* the spans that wait for a piece
  bufLen,   \* buf_len, the length they are taken to have
  pieces    \* what has been cut

chunkVars == <<setting, document, section, paragraph, cursor, buffer, bufLen, pieces>>

NoSplit == -1
Separator == 2
Span == [section : Nat, paragraph : Nat, from : Nat, to : Nat, at : Nat]

ChunkTypeOK ==
  /\ setting \in ChunkSettings /\ document \in Texts
  /\ section \in 1 .. Len(document) + 1 /\ paragraph \in Nat \ {0}
  /\ cursor \in Nat \cup {NoSplit}
  /\ buffer \in Seq(Span) /\ bufLen \in Nat /\ pieces \in Seq(Seq(Span))

ChunkInit ==
  /\ setting \in ChunkSettings /\ document \in Texts
  /\ section = 1 /\ paragraph = 1 /\ cursor = NoSplit
  /\ buffer = <<>> /\ bufLen = 0 /\ pieces = <<>>

-----------------------------------------------------------------------------
(* Spans.                                                                    *)

Extent(span) == span.to - span.from
Cut(from, to) == [section |-> section, paragraph |-> paragraph, from |-> from, to |-> to, at |-> 0]

\* join: a span begins two characters past the end of the one before it.
LengthOf(spans) == IF spans = <<>> THEN 0 ELSE Last(spans).at + Extent(Last(spans))
Joined(spans, span) ==
  Append(spans, IF spans = <<>> THEN span ELSE [span EXCEPT !.at = LengthOf(spans) + Separator])
Smaller(a, b) == IF a < b THEN a ELSE b

InSection == section <= Len(document)
InParagraph == InSection /\ cursor = NoSplit /\ paragraph <= Len(document[section])
Size == document[section][paragraph]
Whole == Cut(0, Size)

\* "if buf: yield"
Flushed == IF buffer = <<>> THEN pieces ELSE Append(pieces, buffer)

-----------------------------------------------------------------------------
(* _pack_section, a turn of its loop at a time.                              *)

BeginSplitMutant ==
  /\ InParagraph /\ Size > setting.budget
  /\ cursor' = 0
  /\ UNCHANGED <<setting, document, section, paragraph, buffer, bufLen, pieces>>

\* The paragraph is larger than a piece: what waits comes first.
BeginSplit ==
  /\ InParagraph /\ Size > setting.budget
  /\ pieces' = Flushed /\ buffer' = <<>> /\ bufLen' = 0
  /\ cursor' = 0
  /\ UNCHANGED <<setting, document, section, paragraph>>

\* The last characters of what was just cut, where that is longer.
Seed ==
  LET span == Last(buffer)
  IN  IF setting.overlap > 0 /\ Extent(span) > setting.overlap
        THEN <<[span EXCEPT !.from = span.to - setting.overlap, !.at = 0]>>
        ELSE <<>>

Fits == buffer = <<>> \/ bufLen + Size + Separator <= setting.budget

Overflow ==
  /\ InParagraph /\ Size <= setting.budget /\ ~Fits
  /\ pieces' = Append(pieces, buffer)
  /\ buffer' = Joined(Seed, Whole)
  /\ bufLen' = IF Seed = <<>> THEN Size ELSE setting.overlap + Size + Separator
  /\ paragraph' = paragraph + 1
  /\ UNCHANGED <<setting, document, section, cursor>>

Pack ==
  /\ InParagraph /\ Size <= setting.budget /\ Fits
  /\ buffer' = Joined(buffer, Whole)
  /\ bufLen' = bufLen + Size + IF bufLen > 0 THEN Separator ELSE 0
  /\ paragraph' = paragraph + 1
  /\ UNCHANGED <<setting, document, section, cursor, pieces>>

\* A section ends with its last piece; none reaches into the next one.
EndSection ==
  /\ InSection /\ cursor = NoSplit /\ paragraph > Len(document[section])
  /\ pieces' = Flushed /\ buffer' = <<>> /\ bufLen' = 0
  /\ section' = section + 1 /\ paragraph' = 1
  /\ UNCHANGED <<setting, document, cursor>>

-----------------------------------------------------------------------------
(* _split_by_chars, a turn of its loop at a time.                            *)

\* "Defensive: ensure forward progress when overlap >= budget": at 0 only.
NextCursor(end) == IF end > setting.overlap THEN end - setting.overlap ELSE end

SplitByChars ==
  /\ cursor # NoSplit
  /\ LET end == Smaller(Size, cursor + setting.budget)
     IN  /\ pieces' = Append(pieces, <<Cut(cursor, end)>>)
         /\ IF end = Size
              THEN cursor' = NoSplit /\ paragraph' = paragraph + 1
              ELSE cursor' = NextCursor(end) /\ UNCHANGED paragraph
  /\ UNCHANGED <<setting, document, section, buffer, bufLen>>

ChunkNext == BeginSplit \/ Overflow \/ Pack \/ EndSection \/ SplitByChars

ChunkSpec == ChunkInit /\ [][ChunkNext]_chunkVars

-----------------------------------------------------------------------------
(* Safety.                                                                   *)

\* The loop of _split_by_chars has no other state than its cursor: a piece that
\* is cut a second time is cut for ever.
ForwardProgress == IsInjective(pieces)

Before(s, t) ==
  \/ s.section < t.section
  \/ s.section = t.section /\ s.paragraph < t.paragraph
  \/ s.section = t.section /\ s.paragraph = t.paragraph /\ s.from < t.from

Covered(s, p) ==
  UNION {span.from .. span.to - 1 :
         span \in {t \in UNION {ToSet(piece) : piece \in ToSet(pieces) \cup {buffer}} :
                   t.section = s /\ t.paragraph = p}}

\* Where the overlap is below the budget, the pieces are cut in the order of the
\* text and each begins past the beginning of the one before; no character that
\* was passed is missing, and none is larger than the budget and a seed.
TextIsCovered ==
  setting.overlap < setting.budget =>
    /\ \A i \in 2 .. Len(pieces) : Before(Head(pieces[i - 1]), Head(pieces[i]))
    /\ \A s \in 1 .. Smaller(section, Len(document)) : \A p \in 1 .. Len(document[s]) :
         LET passed == IF s < section \/ p < paragraph THEN document[s][p]
                       ELSE IF p = paragraph /\ cursor # NoSplit THEN cursor ELSE 0
         IN  0 .. passed - 1 \subseteq Covered(s, p)
    /\ \A piece \in ToSet(pieces) :
         /\ LengthOf(piece) <= setting.budget + setting.overlap + Separator
         /\ \A a, b \in ToSet(piece) : a.section = b.section
=============================================================================
