-------------------------- MODULE CandidateChecks --------------------------
(***************************************************************************)
(* The algorithms a translated chunk is judged and mended with (pipeline.py*)
(* and engine.py), on bounded inputs beside what each of them is for.      *)
(*                                                                         *)
(* A text is a sequence of letters, blanks and protected placeholders.     *)
(* The lengths in the code (a gram of 16 characters, units of 4 to 15, a   *)
(* distance of 600) are constants here.  Every letter is alphanumeric, so  *)
(* every repeated unit is a meaningful one.                                *)
(***************************************************************************)
EXTENDS Naturals, Integers, FiniteSets, Sequences, SequencesExt

CONSTANTS
  Gram,          \* the characters of a gram that must not come twice
  UnitMin,       \* the shortest unit that must not be repeated on the spot
  Distance,      \* how far two occurrences of a gram may be apart
  TextLength,    \* length of the texts that are compared
  RegionLength   \* regions of repetition in a text

Placeholders == {"P1", "P2", "P3"}
IsPlaceholder(t) == t \in Placeholders
PlaceholdersOf(s) == SelectSeq(s, IsPlaceholder)
WithoutPlaceholders(s) == SelectSeq(s, LAMBDA t : t \notin Placeholders)
Piece(s, i, j) == SubSeq(s, i, j)

-----------------------------------------------------------------------------
(* Repetition.                                                             *)

\* The matches of ADJACENT_REPEAT_PATTERN from a place on: the longest unit
\* that is repeated at once, and on behind it.  Twice the middle of a match.
Adjacent(s) ==
  LET N == Len(s)
      units(p) == {n \in UnitMin .. Gram - 1 :
                     p + 2 * n - 1 <= N /\ Piece(s, p, p + n - 1) = Piece(s, p + n, p + 2 * n - 1)}
      from[p \in 1 .. N + 1] ==
        IF p > N THEN <<>>
        ELSE IF units(p) = {} THEN from[p + 1]
        ELSE LET n == Max(units(p)) IN <<2 * (p - 1) + 2 * n>> \o from[p + 2 * n]
  IN from[1]

\* Where a gram comes again, seen from its last occurrence before: twice the
\* middle of both, once for a run of neighbouring grams.
Recurring(s) ==
  LET starts == 0 .. Len(s) - Gram
      gram(i) == Piece(s, i + 1, i + Gram)
      before(i) == {j \in 0 .. i - 1 : gram(j) = gram(i)}
      pair(i) == IF i \in starts /\ before(i) # {} /\ i - Max(before(i)) \in Gram .. Distance
                 THEN <<Max(before(i)), i>> ELSE <<>>
      first == {i \in starts : pair(i) # <<>> /\ (pair(i - 1) # <<pair(i)[1] - 1, i - 1>>)}
  IN {pair(i)[1] + i + Gram : i \in first}

\* _repetition_profile: the places, over twice the length of the text; places
\* closer than three hundredths of it are one.
RepetitionProfile(s) ==
  FoldLeft(LAMBDA kept, p : IF kept = <<>> \/ 100 * (p - Last(kept)) > 6 * Len(s)
                            THEN Append(kept, p) ELSE kept,
           <<>>, SetToSortSeq(ToSet(Adjacent(s)) \cup Recurring(s), <))

\* What it is for: a unit repeated at once, or a gram that comes again, without
\* overlap, not too far away.
Repeats(s) ==
  \/ \E n \in UnitMin .. Gram - 1, p \in 1 .. Len(s) :
       p + 2 * n - 1 <= Len(s) /\ Piece(s, p, p + n - 1) = Piece(s, p + n, p + 2 * n - 1)
  \/ \E i, j \in 1 .. Len(s) - Gram + 1 :
       j - i \in Gram .. Distance /\ Piece(s, i, i + Gram - 1) = Piece(s, j, j + Gram - 1)

\* _repetition_regions_align: regions of the source before a region of the
\* candidate are passed over, and each one answers for one.
RegionsAlign(source, candidate, tolerance) ==
  LET from[i \in 1 .. Len(candidate) + 1, k \in 1 .. Len(source) + 1] ==
        IF i > Len(candidate) THEN TRUE
        ELSE IF k > Len(source) THEN FALSE
        ELSE IF source[k] < candidate[i] - tolerance THEN from[i, k + 1]
        ELSE source[k] <= candidate[i] + tolerance /\ from[i + 1, k + 1]
  IN from[1, 1]

\* What it is for: every repetition of the candidate is one of the source's.
RegionsMatch(source, candidate, tolerance) ==
  \E f \in [DOMAIN candidate -> DOMAIN source] :
    /\ \A i, j \in DOMAIN candidate : i # j => f[i] # f[j]
    /\ \A i \in DOMAIN candidate : source[f[i]] - candidate[i] \in -tolerance .. tolerance

-----------------------------------------------------------------------------
(* The echo of the chunk before.                                           *)

\* _boundary_overlap_text: the prefix function of the current text, a sentinel
\* and the text before it.
Overlap(previous, current) ==
  LET combined == current \o <<"sentinel">> \o previous
      matched[i \in 1 .. Len(combined)] ==
        IF i = 1 THEN 0
        ELSE LET fall[m \in 0 .. i - 1] ==
                   IF combined[i] = combined[m + 1] THEN m + 1
                   ELSE IF m = 0 THEN 0 ELSE fall[matched[m]]
             IN fall[matched[i - 1]]
  IN IF previous = <<>> \/ current = <<>> THEN <<>>
     ELSE Piece(current, 1, Min({matched[Len(combined)], Len(current), Len(previous)}))

-----------------------------------------------------------------------------
(* Placeholders.                                                           *)

IsWordBoundary(s, p) ==
  p <= 0 \/ p >= Len(s) \/ ~(s[p] = "w" /\ s[p + 1] = "w")

\* The nearest one; of two as near, the left.
NearestWordBoundary(s, p) ==
  LET bounds == {q \in 0 .. Len(s) : IsWordBoundary(s, q)}
      away(q) == IF q < p THEN p - q ELSE q - p
  IN CHOOSE q \in bounds : \A r \in bounds :
       away(q) < away(r) \/ (away(q) = away(r) /\ q <= r)

\* round, to even.
Rounded(a, b) ==
  LET q == a \div b  twice == 2 * (a % b) IN
  IF twice < b \/ (twice = b /\ q % 2 = 0) THEN q ELSE q + 1

\* _align_placeholders: each placeholder goes as far into the translation as it
\* was in the source, off the inside of a word, and never before the last one.
Align(source, plain) ==
  LET plainLength == Len(WithoutPlaceholders(source))
      at == SetToSortSeq({k \in DOMAIN source : IsPlaceholder(source[k])}, <)
      snapped(k) == NearestWordBoundary(plain,
        IF plainLength = 0 THEN 0
        ELSE Rounded(Len(WithoutPlaceholders(Piece(source, 1, k - 1))) * Len(plain), plainLength))
      places == FoldLeft(LAMBDA ps, k :
                  Append(ps, IF ps = <<>> THEN snapped(k) ELSE Max({snapped(k), Last(ps)})),
                  <<>>, at)
  IN FoldRight(LAMBDA n, text :
       Piece(text, 1, places[n]) \o <<source[at[n]]>> \o Piece(text, places[n] + 1, Len(text)),
       [n \in DOMAIN at |-> n], plain)

\* What it is for: the translation with all placeholders in their order, none
\* inside a word.
IsAligned(source, plain, aligned) ==
  /\ PlaceholdersOf(aligned) = PlaceholdersOf(source)
  /\ WithoutPlaceholders(aligned) = plain
  /\ \A k \in DOMAIN aligned : IsPlaceholder(aligned[k]) =>
       IsWordBoundary(plain, Len(WithoutPlaceholders(Piece(aligned, 1, k))))

\* _candidate_only_drops_block_placeholders: the expected placeholders are
\* walked once; those passed over, and those left, are missing.
OnlyDropsBlocks(expected, actual, blocks) ==
  LET walk[i \in 1 .. Len(actual) + 1, k \in 1 .. Len(expected) + 1] ==
        IF i > Len(actual) THEN ToSet(Piece(expected, k, Len(expected)))
        ELSE IF k > Len(expected) THEN {"refused"}
        ELSE IF expected[k] = actual[i] THEN walk[i + 1, k + 1]
        ELSE {expected[k]} \cup walk[i, k + 1]
      missing == walk[1, 1]
  IN Len(actual) < Len(expected) /\ missing # {} /\ missing \subseteq blocks

\* What it is for: the rest is there in its order, and no atom is missing.
DropsBlocks(expected, actual, blocks) ==
  \E kept \in SUBSET DOMAIN expected :
    /\ actual = [n \in DOMAIN SetToSortSeq(kept, <) |-> expected[SetToSortSeq(kept, <)[n]]]
    /\ kept # DOMAIN expected /\ {expected[k] : k \in DOMAIN expected \ kept} \subseteq blocks

-----------------------------------------------------------------------------
(* The bounded inputs.                                                     *)

VARIABLE sample

Texts(alphabet, n) == UNION {[1 .. k -> alphabet] : k \in 0 .. n}
Regions == {SetToSortSeq(S, <) : S \in {T \in SUBSET (0 .. 8) : Cardinality(T) <= RegionLength}}
Sources == {s \in Texts({"w", " "} \cup {"P1", "P2"}, 5) :
              PlaceholdersOf(s) \in {<<"P1">>, <<"P1", "P2">>}}

NoSample == [of |-> "nothing", one |-> <<>>, other |-> <<>>]
Sampled(of, one, other) == [of : {of}, one : one, other : other]

ChecksInit == sample = NoSample

PickSample ==
  /\ sample = NoSample
  /\ sample' \in
       Sampled("repeats", Texts({"a", "b"}, TextLength), {<<>>}) \cup
       Sampled("regions", Regions, Regions) \cup
       Sampled("overlap", Texts({"a", "b"}, 5), Texts({"a", "b"}, 5)) \cup
       Sampled("align", Sources, Texts({"w", " "}, 4)) \cup
       Sampled("drops", {<<"P1", "P2", "P3">>}, Texts(Placeholders, 3))

\* Each algorithm computes what it is for: repetition is found although only
\* the last occurrence of a gram is remembered; a region of the source excuses
\* one of the candidate's, and the first that may is as good as any; the echo
\* is the longest one; placeholders keep their order wherever they are snapped
\* to; and a draft is kept when only block structure is missing.
ChecksAreRight ==
  LET one == sample.one  other == sample.other IN
  CASE sample.of = "repeats" -> (RepetitionProfile(one) # <<>>) = Repeats(one)
    [] sample.of = "regions" -> RegionsAlign(one, other, 2) = RegionsMatch(one, other, 2)
    [] sample.of = "overlap" ->
         LET echo == Overlap(one, other) IN
         /\ IsPrefix(echo, other) /\ IsSuffix(echo, one)
         /\ \A n \in Len(echo) + 1 .. Len(other) : ~IsSuffix(Piece(other, 1, n), one)
    [] sample.of = "align" -> IsAligned(one, other, Align(one, other))
    [] sample.of = "drops" -> \A blocks \in SUBSET Placeholders :
         OnlyDropsBlocks(one, other, blocks) = DropsBlocks(one, other, blocks)
    [] OTHER -> TRUE
=============================================================================
