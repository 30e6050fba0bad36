-------------------------- MODULE ChunkTranslation --------------------------
(***************************************************************************)
(* How a chapter is cut into chunks, each chunk protected, translated and  *)
(* revised, and the chapter put together again: TokenChunker (chunking.py),*)
(* placeholders.py, translate_chunk_with_fallback and run_second_pass_chunk*)
(* (pipeline.py), and the judgement of candidates (engine.py).             *)
(*                                                                         *)
(* A text is a sequence of letters "w", blanks " ", line ends "n", heading *)
(* marks "#" (with the blank behind it) and inline atoms "c" (code, a      *)
(* formula, a footnote), which count for two tokens; tables, several       *)
(* levels of headings and fences are left out.  What a provider answers is *)
(* any short text, and any answer may be refused because it repeats,       *)
(* copies or echoes what it must not: see CandidateChecks.                 *)
(***************************************************************************)
EXTENDS CandidateChecks

CONSTANTS
  Chapters,      \* the texts
  MaxTokens,     \* of a chunk
  AnswerRetries, \* placeholder_retries
  AnswerLength   \* the tokens of an answer

VARIABLES
  text,      \* the chapter
  mode,      \* what the run asks for: cleanup, and a second pass
  pieces,    \* what stands in the chapter for each chunk so far
  fellBack,  \* TRUE: some chunk kept its source
  revisedTo, \* the chunks that have been through the second pass
  refusals,  \* the answers to the chunk in work that were refused
  phase      \* "translate", "plain", "revise", "done" or "failed"

chunkVars == <<text, mode, pieces, fellBack, revisedTo, refusals, phase, sample>>

NoMode == [cleanup |-> FALSE, second |-> FALSE]

ChunkInit ==
  /\ ChecksInit
  /\ text = <<>> /\ mode = NoMode /\ pieces = <<>> /\ fellBack = FALSE
  /\ revisedTo = 0 /\ refusals = 0
  /\ phase = "begin"

-----------------------------------------------------------------------------
(* Cutting.                                                                *)

TokensOf(s) == Len(s) + Cardinality({k \in DOMAIN s : s[k] = "c"})

\* TokenChunker.split: the rest, or as much as fits; then up to the last safe
\* break in it, behind a line end or a blank.
Split(s) ==
  LET N == Len(s)
      fits(p) == Max({q \in p .. N : TokensOf(Piece(s, p, q)) <= MaxTokens})
      safe(p) == {q \in p .. fits(p) : s[q] \in {"n", " ", "#"}}
      from[p \in 1 .. N + 1] ==
        IF p > N THEN <<>>
        ELSE IF TokensOf(Piece(s, p, N)) <= MaxTokens THEN <<Piece(s, p, N)>>
        ELSE LET end == IF safe(p) = {} THEN fits(p) ELSE Max(safe(p))
             IN <<Piece(s, p, end)>> \o from[end + 1]
  IN from[1]

Chunks == Split(text)

-----------------------------------------------------------------------------
(* Protecting.                                                             *)

PH == <<"P1", "P2", "P3">>
White == {" ", "n"}

LineStart(s, p) == p = 1 \/ s[p - 1] = "n"

\* Where a paragraph break that begins at p ends, or 0.
BreakEnd(s, p) ==
  LET ends == {q \in p + 1 .. Len(s) : s[q] = "n" /\ \A k \in p .. q : s[k] \in White}
  IN IF s[p] = "n" /\ ends # {} THEN Max(ends) ELSE 0

InBreak(s, p) == \E b \in 1 .. p - 1 : BreakEnd(s, b) >= p

\* The places a text is read at: a paragraph break is one.
Places(s) == SetToSortSeq({p \in DOMAIN s : ~InBreak(s, p)}, <)

Guarded(s, p) == BreakEnd(s, p) # 0 \/ s[p] = "c" \/ (s[p] = "#" /\ LineStart(s, p))

\* protect_markdown_for_chunking and protect_chunk_structure: the text of a
\* chunk with placeholders, and what they stand for.
Protect(s) ==
  LET places == Places(s)
      guarded == SelectSeq(places, LAMBDA p : Guarded(s, p))
  IN [text |-> [k \in DOMAIN places |->
         IF Guarded(s, places[k])
         THEN PH[CHOOSE n \in DOMAIN guarded : guarded[n] = places[k]] ELSE s[places[k]]],
      originals |-> [n \in DOMAIN guarded |->
         Piece(s, guarded[n], Max({guarded[n], BreakEnd(s, guarded[n])}))]]

Expected(pr) == Piece(PH, 1, Len(pr.originals))
Original(pr, t) == pr.originals[CHOOSE n \in DOMAIN PH : PH[n] = t]
IsBlock(pr, t) == Original(pr, t)[1] \in {"#", "n"}

\* ProtectedMarkdown.restore
Restore(pr, s) ==
  FlattenSeq([k \in DOMAIN s |-> IF IsPlaceholder(s[k]) THEN Original(pr, s[k]) ELSE <<s[k]>>])

-----------------------------------------------------------------------------
(* Judging an answer.                                                      *)

LinesOf(s) ==
  FoldLeft(LAMBDA lines, t : IF t = "n" THEN Append(lines, <<>>)
                             ELSE [lines EXCEPT ![Len(lines)] = Append(@, t)],
           <<<<>>>>, s)

IsHeading(line) ==
  \E k \in DOMAIN line : line[k] = "#" /\ \A j \in 1 .. k - 1 : line[j] = " "
IsContent(line) == ~IsHeading(line) /\ ToSet(line) \ White # {}

\* _markdown_heading_shape, with one level of headings, and
\* _markdown_content_block_count.
Shape(s) ==
  LET lines == LinesOf(s) IN
  [headings |-> Cardinality({k \in DOMAIN lines : IsHeading(lines[k])}),
   blocks |-> Cardinality({k \in DOMAIN lines :
                 IsContent(lines[k]) /\ (k = 1 \/ ~IsContent(lines[k - 1]))})]

\* _candidate_preserves_structure
Acceptable(pr, s) ==
  /\ PlaceholdersOf(s) = Expected(pr)
  /\ Shape(Restore(pr, s)) = Shape(Restore(pr, pr.text))

-----------------------------------------------------------------------------
(* Mending an answer.  Between its placeholders lie segments.              *)

Segments(s) ==
  FoldLeft(LAMBDA segs, t : IF IsPlaceholder(t) THEN Append(segs, <<>>)
                            ELSE [segs EXCEPT ![Len(segs)] = Append(@, t)],
           <<<<>>>>, s)

Joined(segments, placeholders) ==
  FlattenSeq([k \in DOMAIN segments |->
    segments[k] \o (IF k \in DOMAIN placeholders THEN <<placeholders[k]>> ELSE <<>>)])

LeftStrip(s, S) ==
  SubSeq(s, Min({k \in 1 .. Len(s) + 1 : k > Len(s) \/ s[k] \notin S}), Len(s))
RightStrip(s, S) == Reverse(LeftStrip(Reverse(s), S))

\* A heading mark typed behind the placeholder that stands for one, or white
\* space behind a paragraph break.
AfterPlaceholder(original, segment) ==
  IF original[1] = "#"
  THEN LET s == LeftStrip(segment, {" "}) IN
       IF s # <<>> /\ s[1] = "#" THEN LeftStrip(Tail(s), {" "}) ELSE segment
  ELSE IF original[1] = "n" THEN LeftStrip(segment, White) ELSE segment

\* The same before it: the mark has to begin a line, or the segment.
BeforePlaceholder(original, segment) ==
  IF original[1] = "#"
  THEN LET s == RightStrip(segment, {" "})
           r == IF s = <<>> THEN s ELSE RightStrip(Front(s), {" "})
       IN IF s # <<>> /\ Last(s) = "#" /\ (r = <<>> \/ Last(r) = "n") THEN r ELSE segment
  ELSE IF original[1] = "n" THEN RightStrip(segment, White) ELSE segment

\* _normalize_candidate_structure
Normalize(pr, s) ==
  LET segs == Segments(s)  n == Len(pr.originals) IN
  IF PlaceholdersOf(s) # Expected(pr) THEN s
  ELSE Joined([k \in DOMAIN segs |->
         LET after == IF k = 1 THEN segs[k] ELSE AfterPlaceholder(pr.originals[k - 1], segs[k])
         IN IF k > n THEN after ELSE BeforePlaceholder(pr.originals[k], after)], Expected(pr))

\* _remove_unprotected_paragraph_breaks
Repair(pr, s) ==
  LET segs == Segments(s)
      mended(seg) == LET places == Places(seg) IN
        [k \in DOMAIN places |-> IF BreakEnd(seg, places[k]) # 0 THEN " " ELSE seg[places[k]]]
  IN IF PlaceholdersOf(s) # Expected(pr) THEN s
     ELSE Joined([k \in DOMAIN segs |-> mended(segs[k])], Expected(pr))

\* _candidate_allows_validated_draft_fallback: the refused revision has lost
\* nothing but block structure, which the draft still has.
AllowsDraft(pr, s) ==
  LET blocks == {t \in ToSet(Expected(pr)) : IsBlock(pr, t)} IN
  \/ PlaceholdersOf(s) = Expected(pr)
  \/ ToSet(Expected(pr)) = blocks
  \/ OnlyDropsBlocks(Expected(pr), PlaceholdersOf(s), blocks)

-----------------------------------------------------------------------------
(* The chapter.                                                            *)

\* edge_whitespace of _restore_chunks
Edge(source, output) ==
  IF "n" \in ToSet(source) THEN source
  ELSE IF "n" \in ToSet(output) THEN <<>> ELSE output

Leading(s) == Piece(s, 1, Len(s) - Len(LeftStrip(s, White)))
Trailing(s) == Piece(s, Len(RightStrip(s, White)) + 1, Len(s))

\* _restore_chunks: a chunk as it stands in the chapter.
Rebuilt(source, output) ==
  IF ToSet(source) \subseteq White THEN Edge(source, output)
  ELSE Edge(Leading(source), Leading(output)) \o RightStrip(LeftStrip(output, White), White)
       \o Edge(Trailing(source), Trailing(output))

\* What the chapter is compared by: blanks are left out, and a run of letters
\* is one.
Essence(s) ==
  FoldLeft(LAMBDA e, t : IF t = " " \/ (t = "w" /\ e # <<>> /\ Last(e) = "w") THEN e
                         ELSE Append(e, t), <<>>, s)

-----------------------------------------------------------------------------
(* What may become of a chunk.                                             *)

AllChunks == UNION {ToSet(Split(s)) : s \in Chapters}

Plain == {"w", " ", "n", "#"}
Answers(pr) == Texts(Plain \cup ToSet(Expected(pr)), AnswerLength)
PlainAnswers(pr) ==
  {Align(pr.text, a) : a \in {b \in Texts(Plain, AnswerLength) :
                                b # <<>> \/ WithoutPlaceholders(pr.text) = <<>>}}

Standing(chunk, s) == Essence(Rebuilt(chunk, Restore(Protect(chunk), s)))

\* An answer is normalized, judged, and unless the run cleans up the text
\* mended and judged again: what it leaves in the chapter, if it is accepted.
AcceptedPieces(chunk, answers, mends) ==
  LET pr == Protect(chunk)
      first == {Normalize(pr, a) : a \in answers}
      again == {Normalize(pr, Repair(pr, a)) : a \in {b \in first : ~Acceptable(pr, b)}}
  IN {Standing(chunk, s) : s \in {a \in first \cup (IF mends THEN again ELSE {}) : Acceptable(pr, a)}}

Drafts == [chunk \in AllChunks, mends \in BOOLEAN |->
             AcceptedPieces(chunk, Answers(Protect(chunk)), mends)]
Aligned == [chunk \in AllChunks, mends \in BOOLEAN |->
             AcceptedPieces(chunk, PlainAnswers(Protect(chunk)), mends)]

\* The last refused revision may, or may not, let the draft stand.
DraftStands == [chunk \in AllChunks |->
  LET pr == Protect(chunk) IN {AllowsDraft(pr, Normalize(pr, a)) : a \in Answers(pr)}]

-----------------------------------------------------------------------------
(* The steps of a run over the chapter.                                    *)

BeginChapter ==
  /\ phase = "begin" /\ phase' = "translate" /\ sample = NoSample
  /\ text' \in Chapters /\ mode' \in [cleanup : BOOLEAN, second : BOOLEAN]
  /\ UNCHANGED <<pieces, fellBack, revisedTo, refusals, sample>>

SameChapter == UNCHANGED <<text, mode, sample>>

ThisChunk == Chunks[(IF phase = "revise" THEN revisedTo ELSE Len(pieces)) + 1]

\* The chunk is translated; after the last one comes the second pass, if it is
\* asked for and no chunk kept its source.
Drafted(piece, kept) ==
  /\ pieces' = Append(pieces, piece) /\ fellBack' = (fellBack \/ kept) /\ refusals' = 0
  /\ phase' = IF Len(pieces') < Len(Chunks) THEN "translate"
              ELSE IF mode.second /\ ~fellBack' THEN "revise" ELSE "done"
  /\ UNCHANGED revisedTo /\ SameChapter

RefuseAnswer(last) ==
  /\ refusals' = refusals + 1 /\ phase' = IF refusals = AnswerRetries THEN last ELSE phase
  /\ UNCHANGED <<pieces, fellBack, revisedTo>> /\ SameChapter

TranslateChunk ==
  /\ phase = "translate"
  /\ \/ \E piece \in Drafts[ThisChunk, ~mode.cleanup] : Drafted(piece, FALSE)
     \/ RefuseAnswer("plain")

\* The last try: the bare words are translated and the placeholders put back
\* in; or the chunk keeps its source.
TranslatePlain ==
  /\ phase = "plain"
  /\ \/ \E piece \in Aligned[ThisChunk, ~mode.cleanup] : Drafted(piece, FALSE)
     \/ Drafted(Essence(ThisChunk), TRUE)

\* run_second_pass_chunk: a revision is accepted, asked for again, given up for
\* the draft, or the unit fails.
ReviseChunk ==
  /\ phase = "revise"
  /\ \/ /\ \E piece \in Drafts[ThisChunk, FALSE] \cup
                        (IF refusals = AnswerRetries /\ TRUE \in DraftStands[ThisChunk]
                         THEN {pieces[revisedTo + 1]} ELSE {}) :
             pieces' = [pieces EXCEPT ![revisedTo + 1] = piece]
        /\ revisedTo' = revisedTo + 1 /\ refusals' = 0
        /\ phase' = IF revisedTo' < Len(Chunks) THEN phase ELSE "done"
        /\ UNCHANGED fellBack /\ SameChapter
     \/ (refusals < AnswerRetries \/ FALSE \in DraftStands[ThisChunk]) /\ RefuseAnswer("failed")

\* RateLimitError, ProviderUnavailableError: the unit fails.
ProviderFails ==
  /\ phase \in {"translate", "plain", "revise"} /\ phase' = "failed"
  /\ UNCHANGED <<pieces, fellBack, revisedTo, refusals>> /\ SameChapter

ChunkNext ==
  \/ BeginChapter \/ TranslateChunk \/ TranslatePlain \/ ReviseChunk \/ ProviderFails
  \/ /\ phase = "begin" /\ PickSample
     /\ UNCHANGED <<text, mode, pieces, fellBack, revisedTo, refusals, phase>>

-----------------------------------------------------------------------------

Chapter == FlattenSeq(pieces)

\* Every paragraph and every heading is one line between blank lines, as the
\* converted books have them, and no heading is cut.
IsWellSet(s) ==
  /\ \A k \in DOMAIN s : s[k] = "n" => "n" \in {s[j] : j \in {k - 1, k + 1} \cap DOMAIN s} \/ k = Len(s)
  /\ \A k \in DOMAIN Split(s) : LET lines == LinesOf(Split(s)[k]) IN
       IsHeading(Last(lines)) => k = Len(Split(s))

\* The chapter put together from chunks that were each judged on their own has
\* the headings, paragraphs and atoms of its source, whatever was answered,
\* wherever it was cut, and whichever chunks kept their source or their draft.
ChapterKeepsShape ==
  phase = "done" /\ IsWellSet(text) =>
    /\ Shape(Chapter) = Shape(text)
    /\ SelectSeq(Chapter, LAMBDA t : t = "c") = SelectSeq(text, LAMBDA t : t = "c")
=============================================================================
