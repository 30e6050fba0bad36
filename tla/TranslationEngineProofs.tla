---------------------- MODULE TranslationEngineProofs ----------------------
(***************************************************************************)
(* Theorems about TranslationEngine and the CredentialPool its threads     *)
(* share, for any engines, units, lengths, settings and faults: a chapter  *)
(* is whole whatever was resumed, whoever died, and however many engines   *)
(* worked on the book at once.                                             *)
(*                                                                         *)
(* The argument is about where text comes from.  The chunks a checkpoint   *)
(* holds are translations, all of the setting the checkpoint names; so are *)
(* the drafts a unit has in hand, as long as its prefix is open, and the   *)
(* drafts of its revisions.  A chapter is written from as many of them as  *)
(* the unit has chunks, and a completion names such a chapter.             *)
(*                                                                         *)
(* The second half has at most one engine active at a time.  A unit is then*)
(* tied to its files, label by label: what it reports is the chapter, what *)
(* it has in hand is saved but for one chunk.                              *)
(***************************************************************************)
EXTENDS TranslationEngine, CredentialPool, SequenceTheorems, TLAPS

Labels == {"plan", "queued", "load", "translate", "save", "revise", "saveRevised",
           "write", "complete", "clean", "cleanReview", "over"}

OkChunk(s) == [setting: {s}, run: 1 .. RunBound, ok: {TRUE}]
RevisionOf(s) == [draft: OkChunk(s), run: 1 .. RunBound]

UpTo(S) == {t \in Seq(S) : Len(t) <= Length}
Whole(s) == {t \in Seq(OkChunk(s)) \cup Seq(RevisionOf(s)) : Len(t) = Length}
WholeText == UNION {Whole(s) : s \in Setting}

DraftsOf(s) == [setting: {s}, chunks: UpTo(OkChunk(s))]
RevisionsOf(s) == [setting: {s}, chunks: UpTo(RevisionOf(s))]
CompletionOf(s) == [setting: {s}, content: Whole(s)]

PartialOK == partial \in [Unit -> {None} \cup UNION {DraftsOf(s) : s \in Setting}]
ReflectionOK == reflection \in [Unit -> {None} \cup UNION {RevisionsOf(s) : s \in Setting}]
DoneOK == done \in [Unit -> {None} \cup UNION {CompletionOf(s) : s \in Setting}]
OutOK == out \in [Unit -> {None, Edited} \cup WholeText]
FilesOK == PartialOK /\ ReflectionOK /\ DoneOK /\ OutOK

RunType ==
  [active: BOOLEAN, setting: Setting \cup {None}, number: 0 .. RunBound,
   units: SUBSET Unit, stopped: BOOLEAN, watched: BOOLEAN]

RunsOK ==
  /\ run \in [Engine -> RunType]
  /\ \A e \in Engine : run[e].active => run[e].setting \in Setting /\ run[e].number \in 1 .. RunBound
  /\ scope \in [setting: Setting \cup {None}, failed: SUBSET Unit]
  /\ runs \in 0 .. RunBound

WorkType ==
  [at: Labels, drafts: UpTo(Chunk), revised: UpTo(Revision), open: BOOLEAN,
   item: Nat, report: {None} \cup WholeText]

\* What a unit has in hand in a run with setting s.
InHand(w, s) ==
  /\ w.open => w.drafts \in UpTo(OkChunk(s))
  /\ w.at = "save" => w.open
  /\ w.at \in {"revise", "saveRevised"} =>
       /\ s \in Reflects /\ w.revised \in UpTo(RevisionOf(s))
       /\ w.drafts \in UpTo(OkChunk(s)) /\ Len(w.drafts) = Length
  /\ w.at = "write" => w.open /\ Len(w.drafts) = Length /\ s \notin Reflects
  /\ w.at = "complete" => w.report \in Whole(s)

WorkOK ==
  /\ work \in [Engine -> [Unit -> WorkType]]
  /\ \A e \in Engine, u \in Unit :
       IF run[e].active THEN InHand(work[e][u], run[e].setting) ELSE work[e][u] = Fresh

IInv == FilesOK /\ RunsOK /\ WorkOK

-----------------------------------------------------------------------------
(* Texts.                                                                  *)

\* A run reads a checkpoint as one of its own setting, or not at all.
LEMMA LoadDrafts ==
  ASSUME NEW s \in Setting, NEW c \in {None} \cup UNION {DraftsOf(t) : t \in Setting}
  PROVE  /\ LoadCheckpoint(c, s) \in {None} \cup UNION {DraftsOf(t) : t \in Setting}
         /\ ChunksOf(LoadCheckpoint(c, s)) \in UpTo(OkChunk(s))
<1>1. <<>> \in UpTo(OkChunk(s))
  BY EmptySeq, EngineAssumption DEF UpTo
<1>2. LoadCheckpoint(c, s) = None \/ (LoadCheckpoint(c, s) = c /\ c # None /\ c.setting = s)
  BY DEF LoadCheckpoint
<1>3. ASSUME c # None, c.setting = s PROVE c.chunks \in UpTo(OkChunk(s))
  BY <1>3 DEF DraftsOf
<1> QED BY <1>1, <1>2, <1>3 DEF ChunksOf

LEMMA LoadRevisions ==
  ASSUME NEW s \in Setting, NEW c \in {None} \cup UNION {RevisionsOf(t) : t \in Setting}
  PROVE  /\ LoadCheckpoint(c, s) \in {None} \cup UNION {RevisionsOf(t) : t \in Setting}
         /\ ChunksOf(LoadCheckpoint(c, s)) \in UpTo(RevisionOf(s))
<1>1. <<>> \in UpTo(RevisionOf(s))
  BY EmptySeq, EngineAssumption DEF UpTo
<1>2. LoadCheckpoint(c, s) = None \/ (LoadCheckpoint(c, s) = c /\ c # None /\ c.setting = s)
  BY DEF LoadCheckpoint
<1>3. ASSUME c # None, c.setting = s PROVE c.chunks \in UpTo(RevisionOf(s))
  BY <1>3 DEF RevisionsOf
<1> QED BY <1>1, <1>2, <1>3 DEF ChunksOf

LEMMA Loaded ==
  ASSUME NEW c, NEW s, NEW u
  PROVE  LoadCompletion(c, s, u) = None \/ (LoadCompletion(c, s, u) = c /\ c # None)
BY DEF LoadCompletion

\* A text with room for a chunk still fits with it.
LEMMA Longer ==
  ASSUME NEW S, NEW t \in UpTo(S), Len(t) < Length, NEW x \in S
  PROVE  Append(t, x) \in UpTo(S) /\ Len(Append(t, x)) = Len(t) + 1
<1>1. t \in Seq(S) /\ Len(t) \in Nat
  BY LenProperties DEF UpTo
<1>2. Append(t, x) \in Seq(S) /\ Len(Append(t, x)) = Len(t) + 1
  BY <1>1, AppendProperties
<1> QED BY <1>1, <1>2, EngineAssumption DEF UpTo

LEMMA Wider ==
  ASSUME NEW S, NEW T, S \subseteq T
  PROVE  UpTo(S) \subseteq UpTo(T)
BY SeqMonotonic DEF UpTo

\* What a run translates is a chunk of its setting, what it revises a revision.
LEMMA ChunkKinds ==
  ASSUME NEW s \in Setting
  PROVE  OkChunk(s) \subseteq Chunk /\ RevisionOf(s) \subseteq Revision
BY DEF OkChunk, RevisionOf, Chunk, Revision

LEMMA FullText ==
  ASSUME NEW s \in Setting,
         NEW t \in UpTo(OkChunk(s)) \cup UpTo(RevisionOf(s)), Len(t) = Length
  PROVE  t \in Whole(s) /\ t \in WholeText
BY DEF UpTo, Whole, WholeText

LEMMA FreshOK ==
  /\ Fresh \in WorkType
  /\ \A s \in Setting : InHand(Fresh, s)
<1>1. \A S : <<>> \in UpTo(S)
  BY EmptySeq, EngineAssumption DEF UpTo
<1> QED BY <1>1 DEF Fresh, WorkType, InHand, Labels

-----------------------------------------------------------------------------
(* One step of a unit.                                                     *)

LEMMA GoesOK ==
  ASSUME WorkOK, NEW e \in Engine, NEW u \in Unit, run[e].active,
         NEW w \in WorkType, InHand(w, run[e].setting), UnitGoes(e, u, w),
         \A f \in Engine : run'[f].active = run[f].active /\ run'[f].setting = run[f].setting
  PROVE  WorkOK'
<1>1. work' \in [Engine -> [Unit -> WorkType]]
  BY DEF WorkOK, UnitGoes
<1>2. ASSUME NEW f \in Engine, NEW v \in Unit
      PROVE  IF run'[f].active THEN InHand(work'[f][v], run'[f].setting) ELSE work'[f][v] = Fresh
  <2>1. CASE f = e /\ v = u
    <3>1. work'[f][v] = w
      BY <2>1 DEF UnitGoes, WorkOK
    <3> QED BY <2>1, <3>1
  <2>2. CASE ~(f = e /\ v = u)
    <3>1. work'[f][v] = work[f][v]
      BY <2>2 DEF UnitGoes, WorkOK
    <3> QED BY <3>1 DEF WorkOK
  <2> QED BY <2>1, <2>2
<1> QED BY <1>1, <1>2 DEF WorkOK, InHand

\* What every step of a unit starts from.
LEMMA AtOK ==
  ASSUME IInv, NEW e \in Engine, NEW u \in Unit, run[e].active
  PROVE  /\ run[e].setting \in Setting
         /\ run[e].number \in 1 .. RunBound
         /\ work[e][u] \in WorkType
         /\ InHand(work[e][u], run[e].setting)
BY DEF IInv, RunsOK, WorkOK

LEMMA SameRuns ==
  ASSUME RunsOK, UNCHANGED run, Keep
  PROVE  /\ RunsOK'
         /\ \A f \in Engine : run'[f].active = run[f].active /\ run'[f].setting = run[f].setting
BY DEF RunsOK, Keep

LEMMA PlanOK ==
  ASSUME IInv, NEW e \in Engine, NEW u \in Unit, Plan(e, u)
  PROVE  IInv'
<1> DEFINE s == run[e].setting
<1>1. run[e].active /\ u \in Unit
  BY DEF Plan, At
<1>2. s \in Setting /\ work[e][u] \in WorkType /\ InHand(work[e][u], s)
  BY <1>1, AtOK
<1>3. DoneOK'
  <2>1. done' = [done EXCEPT ![u] = LoadCompletion(done[u], s, u)]
    BY DEF Plan, IInv, FilesOK, DoneOK
  <2> QED BY <2>1, Loaded DEF IInv, FilesOK, DoneOK
<1>4. PartialOK'
  <2>1. LoadCheckpoint(partial[u], s) \in {None} \cup UNION {DraftsOf(t) : t \in Setting}
    BY <1>2, LoadDrafts DEF IInv, FilesOK, PartialOK
  <2>2. partial' = [partial EXCEPT ![u] = LoadCheckpoint(partial[u], s)] \/ partial' = partial
    BY DEF Plan, IInv, FilesOK, PartialOK
  <2> QED BY <2>1, <2>2 DEF IInv, FilesOK, PartialOK
<1>5. ReflectionOK'
  <2>1. LoadCheckpoint(reflection[u], s) \in {None} \cup UNION {RevisionsOf(t) : t \in Setting}
    BY <1>2, LoadRevisions DEF IInv, FilesOK, ReflectionOK
  <2>2. reflection' = [reflection EXCEPT ![u] = LoadCheckpoint(reflection[u], s)]
        \/ reflection' = reflection
    BY DEF Plan, IInv, FilesOK, ReflectionOK
  <2> QED BY <2>1, <2>2 DEF IInv, FilesOK, ReflectionOK
<1>6. Resumable(u, s) \in Nat
  <2>1. Len(ChunksOf(LoadCheckpoint(partial[u], s))) \in Nat
    BY <1>2, LoadDrafts, LenProperties DEF IInv, FilesOK, PartialOK, UpTo
  <2>2. Len(ChunksOf(LoadCheckpoint(reflection[u], s))) \in Nat
    BY <1>2, LoadRevisions, LenProperties DEF IInv, FilesOK, ReflectionOK, UpTo
  <2>3. Passes(s) * Length \in Nat /\ Length \in Nat
    BY EngineAssumption DEF Passes
  <2> QED BY <2>1, <2>2, <2>3 DEF Resumable
<1>7. WorkOK' /\ RunsOK'
  <2> DEFINE w == [work[e][u] EXCEPT !.at = "queued", !.item = Resumable(u, s)]
  <2>1. w \in WorkType
    BY <1>2, <1>6 DEF WorkType, Labels
  <2>2. InHand(w, s)
    BY <1>2 DEF InHand, WorkType
  <2>3. UnitGoes(e, u, w) /\ UNCHANGED run /\ Keep
    BY DEF Plan
  <2> QED BY <1>1, <2>1, <2>2, <2>3, GoesOK, SameRuns DEF IInv
<1> QED BY <1>3, <1>4, <1>5, <1>7 DEF IInv, FilesOK, OutOK, Plan

LEMMA DispatchOK ==
  ASSUME IInv, NEW e \in Engine, NEW u \in Unit, Dispatch(e, u)
  PROVE  IInv'
<1> DEFINE w == [work[e][u] EXCEPT !.at = IF run[e].stopped THEN "over" ELSE "load"]
<1>1. run[e].active /\ UnitGoes(e, u, w) /\ UNCHANGED run /\ Keep /\ UNCHANGED files
  BY DEF Dispatch, At
<1>2. work[e][u] \in WorkType /\ InHand(work[e][u], run[e].setting)
  BY <1>1, AtOK
<1>3. w \in WorkType /\ InHand(w, run[e].setting)
  BY <1>2 DEF WorkType, Labels, InHand
<1> QED BY <1>1, <1>3, GoesOK, SameRuns
        DEF IInv, FilesOK, PartialOK, ReflectionOK, DoneOK, OutOK, files

LEMMA LoadOK ==
  ASSUME IInv, NEW e \in Engine, NEW u \in Unit, Load(e, u)
  PROVE  IInv'
<1> DEFINE s == run[e].setting
<1>1. run[e].active /\ UNCHANGED run /\ Keep /\ UNCHANGED <<reflection, out>>
  BY DEF Load, At
<1>2. s \in Setting /\ work[e][u] \in WorkType /\ InHand(work[e][u], s)
  BY <1>1, AtOK
<1>3. RunsOK' /\ \A f \in Engine : run'[f].active = run[f].active /\ run'[f].setting = run[f].setting
  BY <1>1, SameRuns DEF IInv
<1>4. done' = [done EXCEPT ![u] = LoadCompletion(done[u], s, u)]
  BY DEF Load, IInv, FilesOK, DoneOK
<1>5. DoneOK'
  BY <1>4, Loaded DEF IInv, FilesOK, DoneOK
<1>6. CASE done'[u] # None
  <2> DEFINE w == [work[e][u] EXCEPT !.at = "clean", !.report = done[u].content]
  <2>1. UnitGoes(e, u, w) /\ UNCHANGED partial
    BY <1>6 DEF Load
  <2>2. done[u] # None
    BY <1>4, <1>6, Loaded DEF IInv, FilesOK, DoneOK
  <2>3. done[u].content \in WholeText
    BY <2>2 DEF IInv, FilesOK, DoneOK, CompletionOf, WholeText
  <2>4. w \in WorkType /\ InHand(w, s)
    BY <1>2, <2>3 DEF WorkType, Labels, InHand
  <2>5. WorkOK'
    BY <1>1, <1>3, <2>1, <2>4, GoesOK DEF IInv
  <2> QED BY <1>1, <1>3, <1>5, <2>1, <2>5 DEF IInv, FilesOK, PartialOK, ReflectionOK, OutOK
<1>7. CASE done'[u] = None
  <2> DEFINE c == LoadCheckpoint(partial[u], s)
             w == [work[e][u] EXCEPT !.at = "translate", !.drafts = ChunksOf(c)]
  <2>1. c \in {None} \cup UNION {DraftsOf(t) : t \in Setting} /\ ChunksOf(c) \in UpTo(OkChunk(s))
    BY <1>2, LoadDrafts DEF IInv, FilesOK, PartialOK
  <2>2. partial' = [partial EXCEPT ![u] = c] /\ partial'[u] = c
    BY <1>7 DEF Load, IInv, FilesOK, PartialOK
  <2>3. UnitGoes(e, u, w)
    BY <1>7, <2>2 DEF Load
  <2>4. w \in WorkType /\ InHand(w, s)
    <3>1. ChunksOf(c) \in UpTo(Chunk)
      BY <1>2, <2>1, Wider, ChunkKinds
    <3> HIDE DEF c
    <3> QED BY <1>2, <2>1, <3>1 DEF WorkType, Labels, InHand
  <2>5. WorkOK'
    BY <1>1, <1>3, <2>3, <2>4, GoesOK DEF IInv
  <2>6. PartialOK'
    BY <2>1, <2>2 DEF IInv, FilesOK, PartialOK
  <2> QED BY <1>1, <1>3, <1>5, <2>5, <2>6 DEF IInv, FilesOK, ReflectionOK, OutOK
<1> QED BY <1>6, <1>7

\* A unit takes a step in hand: nothing changes but that.
LEMMA HandOK ==
  ASSUME IInv, NEW e \in Engine, NEW u \in Unit, run[e].active,
         NEW w \in WorkType, InHand(w, run[e].setting),
         UnitGoes(e, u, w), UNCHANGED run, Keep
  PROVE  WorkOK' /\ RunsOK'
BY GoesOK, SameRuns DEF IInv

LEMMA FilesStay ==
  ASSUME FilesOK, UNCHANGED files
  PROVE  FilesOK'
BY DEF FilesOK, PartialOK, ReflectionOK, DoneOK, OutOK, files

LEMMA TranslateOK ==
  ASSUME IInv, NEW e \in Engine, NEW u \in Unit, Translate(e, u)
  PROVE  IInv'
<1> DEFINE s == run[e].setting
<1>1. run[e].active /\ UNCHANGED run /\ Keep /\ UNCHANGED files /\ Len(work[e][u].drafts) < Length
      /\ work[e][u].at = "translate"
  BY DEF Translate, At
<1>2. s \in Setting /\ work[e][u] \in WorkType /\ InHand(work[e][u], s)
      /\ run[e].number \in 1 .. RunBound
  BY <1>1, AtOK
<1>3. NewChunk(e, TRUE) \in OkChunk(s) /\ NewChunk(e, TRUE) \in Chunk /\ NewChunk(e, FALSE) \in Chunk
  BY <1>2 DEF NewChunk, OkChunk, Chunk
<1>4. \E w \in WorkType : UnitGoes(e, u, w) /\ InHand(w, s)
  <2>1. work[e][u].drafts \in UpTo(Chunk)
    BY <1>2 DEF WorkType
  <2>2. CASE UnitGoes(e, u, [work[e][u] EXCEPT !.drafts = Append(@, NewChunk(e, TRUE)),
                                 !.at = IF work[e][u].open THEN "save" ELSE @])
    <3> DEFINE d == Append(work[e][u].drafts, NewChunk(e, TRUE))
               a == IF work[e][u].open THEN "save" ELSE work[e][u].at
               w == [work[e][u] EXCEPT !.drafts = d, !.at = a]
    <3>1. d \in UpTo(Chunk)
      BY <1>1, <1>3, <2>1, Longer
    <3>2. work[e][u].open => d \in UpTo(OkChunk(s))
      BY <1>1, <1>2, <1>3, Longer DEF InHand
    <3>3. UnitGoes(e, u, w)
      BY <2>2
    <3>4. a \in {"save", "translate"} /\ (a = "save" => work[e][u].open)
      BY <1>1
    <3>5. w \in WorkType /\ InHand(w, s)
      <4> HIDE DEF d, a
      <4> QED BY <1>2, <3>1, <3>2, <3>4 DEF WorkType, Labels, InHand
    <3> QED BY <3>3, <3>5
  <2>3. CASE UnitGoes(e, u, [work[e][u] EXCEPT !.drafts = Append(@, NewChunk(e, FALSE)),
                                               !.open = FALSE])
    <3> DEFINE d == Append(work[e][u].drafts, NewChunk(e, FALSE))
               w == [work[e][u] EXCEPT !.drafts = d, !.open = FALSE]
    <3>1. d \in UpTo(Chunk)
      BY <1>1, <1>3, <2>1, Longer
    <3>2. UnitGoes(e, u, w)
      BY <2>3
    <3>3. w \in WorkType /\ InHand(w, s)
      <4> HIDE DEF d
      <4> QED BY <1>1, <1>2, <3>1 DEF WorkType, InHand
    <3> QED BY <3>2, <3>3
  <2> QED BY <2>2, <2>3 DEF Translate
<1> QED BY <1>1, <1>4, HandOK, FilesStay DEF IInv

LEMMA SaveOK ==
  ASSUME IInv, NEW e \in Engine, NEW u \in Unit, Save(e, u)
  PROVE  IInv'
<1> DEFINE s == run[e].setting
<1>1. run[e].active /\ work[e][u].at = "save" /\ UNCHANGED run /\ Keep
      /\ UNCHANGED <<reflection, done, out>>
  BY DEF Save, At
<1>2. s \in Setting /\ work[e][u] \in WorkType /\ InHand(work[e][u], s)
  BY <1>1, AtOK
<1>3. work[e][u].drafts \in UpTo(OkChunk(s)) /\ Len(work[e][u].drafts) \in Nat
  BY <1>1, <1>2, LenProperties DEF InHand, UpTo
<1>4. PartialOK'
  <2>1. [setting |-> s, chunks |-> work[e][u].drafts] \in DraftsOf(s)
    BY <1>3 DEF DraftsOf
  <2>2. partial' = [partial EXCEPT ![u] = [setting |-> s, chunks |-> work[e][u].drafts]]
    BY DEF Save
  <2> QED BY <1>2, <2>1, <2>2 DEF IInv, FilesOK, PartialOK
<1>5. WorkOK' /\ RunsOK'
  <2> DEFINE i == MaxOf(work[e][u].item, Len(work[e][u].drafts))
             w == [work[e][u] EXCEPT !.at = "translate", !.item = i]
  <2>1. UnitGoes(e, u, w)
    BY DEF Save
  <2>2. i \in Nat
    BY <1>2, <1>3 DEF MaxOf, WorkType
  <2>3. w \in WorkType /\ InHand(w, s)
    <3> HIDE DEF i
    <3> QED BY <1>2, <2>2 DEF WorkType, Labels, InHand
  <2> QED BY <1>1, <2>1, <2>3, HandOK
<1> QED BY <1>1, <1>4, <1>5 DEF IInv, FilesOK, ReflectionOK, DoneOK, OutOK

LEMMA EndFirstPassOK ==
  ASSUME IInv, NEW e \in Engine, NEW u \in Unit, EndFirstPass(e, u)
  PROVE  IInv'
<1> DEFINE s == run[e].setting
<1>1. run[e].active /\ work[e][u].at = "translate" /\ Len(work[e][u].drafts) = Length
      /\ UNCHANGED run /\ Keep /\ UNCHANGED <<partial, done, out>>
  BY DEF EndFirstPass, At
<1>2. s \in Setting /\ work[e][u] \in WorkType /\ InHand(work[e][u], s)
  BY <1>1, AtOK
<1>3. CASE work[e][u].open /\ s \in Reflects
  <2> DEFINE c == LoadCheckpoint(reflection[u], s)
             r == ChunksOf(c)
             i == MaxOf(work[e][u].item, Length + Len(r))
             w == [work[e][u] EXCEPT !.at = "revise", !.revised = r, !.item = i]
  <2>1. /\ c \in {None} \cup UNION {RevisionsOf(x) : x \in Setting}
        /\ r \in UpTo(RevisionOf(s))
    BY <1>2, LoadRevisions DEF IInv, FilesOK, ReflectionOK
  <2>2. reflection' = [reflection EXCEPT ![u] = c] /\ reflection'[u] = c
    BY <1>3 DEF EndFirstPass, IInv, FilesOK, ReflectionOK
  <2>3. UnitGoes(e, u, w)
    BY <1>3, <2>2 DEF EndFirstPass
  <2>4. r \in UpTo(Revision) /\ Len(r) \in Nat
    BY <1>2, <2>1, Wider, ChunkKinds, LenProperties DEF UpTo
  <2>5. i \in Nat
    BY <1>2, <2>4, EngineAssumption DEF MaxOf, WorkType
  <2>6. work[e][u].drafts \in UpTo(OkChunk(s))
    BY <1>2, <1>3 DEF InHand
  <2>7. w \in WorkType /\ InHand(w, s)
    <3> HIDE DEF r, i
    <3> QED BY <1>1, <1>2, <1>3, <2>1, <2>4, <2>5, <2>6 DEF WorkType, Labels, InHand
  <2>8. WorkOK' /\ RunsOK'
    BY <1>1, <2>3, <2>7, HandOK
  <2>9. ReflectionOK'
    BY <2>1, <2>2 DEF IInv, FilesOK, ReflectionOK
  <2> QED BY <1>1, <2>8, <2>9 DEF IInv, FilesOK, PartialOK, DoneOK, OutOK
<1>4. CASE ~(work[e][u].open /\ s \in Reflects)
  <2> DEFINE a == IF work[e][u].open THEN "write" ELSE "over"
             w == [work[e][u] EXCEPT !.at = a]
  <2>1. UnitGoes(e, u, w) /\ UNCHANGED reflection
    BY <1>4 DEF EndFirstPass
  <2>2. a \in {"write", "over"} /\ (a = "write" => work[e][u].open /\ s \notin Reflects)
    BY <1>4
  <2>3. w \in WorkType /\ InHand(w, s)
    <3> HIDE DEF a
    <3> QED BY <1>1, <1>2, <2>2 DEF WorkType, Labels, InHand
  <2>4. WorkOK' /\ RunsOK'
    BY <1>1, <2>1, <2>3, HandOK
  <2> QED BY <1>1, <2>1, <2>4 DEF IInv, FilesOK, PartialOK, ReflectionOK, DoneOK, OutOK
<1> QED BY <1>3, <1>4

LEMMA ReviseOK ==
  ASSUME IInv, NEW e \in Engine, NEW u \in Unit, Revise(e, u)
  PROVE  IInv'
<1> DEFINE s == run[e].setting
           n == Len(work[e][u].revised) + 1
           x == [draft |-> work[e][u].drafts[n], run |-> run[e].number]
           r == Append(work[e][u].revised, x)
           w == [work[e][u] EXCEPT !.at = "saveRevised", !.revised = r]
<1>1. run[e].active /\ work[e][u].at = "revise" /\ Len(work[e][u].revised) < Length
      /\ UNCHANGED run /\ Keep /\ UNCHANGED files
  BY DEF Revise, At
<1>2. s \in Setting /\ work[e][u] \in WorkType /\ InHand(work[e][u], s)
      /\ run[e].number \in 1 .. RunBound
  BY <1>1, AtOK
<1>3. /\ s \in Reflects /\ work[e][u].revised \in UpTo(RevisionOf(s))
      /\ work[e][u].drafts \in UpTo(OkChunk(s)) /\ Len(work[e][u].drafts) = Length
  BY <1>1, <1>2 DEF InHand
<1>4. n \in 1 .. Length
  BY <1>1, <1>3, LenProperties, EngineAssumption DEF UpTo
<1>5. work[e][u].drafts[n] \in OkChunk(s)
  BY <1>3, <1>4, ElementOfSeq DEF UpTo
<1>6. x \in RevisionOf(s)
  BY <1>2, <1>5 DEF RevisionOf
<1>7. r \in UpTo(RevisionOf(s))
  <2> HIDE DEF x
  <2> QED BY <1>1, <1>3, <1>6, Longer
<1>8. r \in UpTo(Revision)
  <2> HIDE DEF r
  <2> QED BY <1>2, <1>7, Wider, ChunkKinds
<1>9. UnitGoes(e, u, w)
  BY DEF Revise
<1>10. w \in WorkType /\ InHand(w, s)
  <2> HIDE DEF r
  <2> QED BY <1>2, <1>3, <1>7, <1>8 DEF WorkType, Labels, InHand
<1> QED BY <1>1, <1>9, <1>10, HandOK, FilesStay DEF IInv

LEMMA SaveRevisedOK ==
  ASSUME IInv, NEW e \in Engine, NEW u \in Unit, SaveRevised(e, u)
  PROVE  IInv'
<1> DEFINE s == run[e].setting
<1>1. run[e].active /\ work[e][u].at = "saveRevised" /\ UNCHANGED run /\ Keep
      /\ UNCHANGED <<partial, done, out>>
  BY DEF SaveRevised, At
<1>2. s \in Setting /\ work[e][u] \in WorkType /\ InHand(work[e][u], s)
  BY <1>1, AtOK
<1>3. work[e][u].revised \in UpTo(RevisionOf(s)) /\ Len(work[e][u].revised) \in Nat
  BY <1>1, <1>2, LenProperties DEF InHand, UpTo
<1>4. ReflectionOK'
  <2>1. [setting |-> s, chunks |-> work[e][u].revised] \in RevisionsOf(s)
    BY <1>3 DEF RevisionsOf
  <2>2. reflection' = [reflection EXCEPT ![u] = [setting |-> s, chunks |-> work[e][u].revised]]
    BY DEF SaveRevised
  <2> QED BY <1>2, <2>1, <2>2 DEF IInv, FilesOK, ReflectionOK
<1>5. WorkOK' /\ RunsOK'
  <2> DEFINE i == MaxOf(work[e][u].item, Length + Len(work[e][u].revised))
             w == [work[e][u] EXCEPT !.at = "revise", !.item = i]
  <2>1. UnitGoes(e, u, w)
    BY DEF SaveRevised
  <2>2. i \in Nat
    BY <1>2, <1>3, EngineAssumption DEF MaxOf, WorkType
  <2>3. w \in WorkType /\ InHand(w, s)
    <3> HIDE DEF i
    <3> QED BY <1>1, <1>2, <2>2 DEF WorkType, Labels, InHand
  <2> QED BY <1>1, <2>1, <2>3, HandOK
<1> QED BY <1>1, <1>4, <1>5 DEF IInv, FilesOK, PartialOK, DoneOK, OutOK

LEMMA WriteOK ==
  ASSUME IInv, NEW e \in Engine, NEW u \in Unit, Write(e, u)
  PROVE  IInv'
<1> DEFINE s == run[e].setting
<1>1. run[e].active /\ UNCHANGED run /\ Keep /\ UNCHANGED <<partial, reflection, done>>
      /\ (work[e][u].at = "write" \/ (work[e][u].at = "revise" /\ Len(work[e][u].revised) = Length))
  BY DEF Write, At
<1>2. s \in Setting /\ work[e][u] \in WorkType /\ InHand(work[e][u], s)
  BY <1>1, AtOK
<1>3. Content(e, u) \in Whole(s) /\ Content(e, u) \in WholeText
  <2>1. CASE work[e][u].at = "write"
    <3>1. Content(e, u) = work[e][u].drafts /\ work[e][u].drafts \in UpTo(OkChunk(s))
          /\ Len(work[e][u].drafts) = Length
      BY <1>2, <2>1 DEF InHand, Content
    <3> QED BY <1>2, <3>1, FullText
  <2>2. CASE work[e][u].at = "revise" /\ Len(work[e][u].revised) = Length
    <3>1. Content(e, u) = work[e][u].revised /\ work[e][u].revised \in UpTo(RevisionOf(s))
      BY <1>2, <2>2 DEF InHand, Content
    <3> QED BY <1>2, <2>2, <3>1, FullText
  <2> QED BY <1>1, <2>1, <2>2
<1>4. OutOK'
  <2>1. out' = [out EXCEPT ![u] = Content(e, u)]
    BY DEF Write
  <2> QED BY <1>3, <2>1 DEF IInv, FilesOK, OutOK
<1>5. WorkOK' /\ RunsOK'
  <2> DEFINE c == Content(e, u)
             w == [work[e][u] EXCEPT !.at = "complete", !.report = c]
  <2>1. UnitGoes(e, u, w)
    BY DEF Write
  <2>2. w \in WorkType /\ InHand(w, s)
    <3>1. c \in Whole(s) /\ c \in WholeText
      BY <1>3
    <3> HIDE DEF c
    <3> QED BY <1>2, <3>1 DEF WorkType, Labels, InHand
  <2> QED BY <1>1, <2>1, <2>2, HandOK
<1> QED BY <1>1, <1>4, <1>5 DEF IInv, FilesOK, PartialOK, ReflectionOK, DoneOK

LEMMA CompleteOK ==
  ASSUME IInv, NEW e \in Engine, NEW u \in Unit, Complete(e, u)
  PROVE  IInv'
<1> DEFINE s == run[e].setting
           w == [work[e][u] EXCEPT !.at = "clean"]
<1>1. run[e].active /\ work[e][u].at = "complete" /\ UNCHANGED run /\ Keep
      /\ UNCHANGED <<partial, reflection, out>> /\ UnitGoes(e, u, w)
  BY DEF Complete, At
<1>2. s \in Setting /\ work[e][u] \in WorkType /\ InHand(work[e][u], s)
  BY <1>1, AtOK
<1>3. DoneOK'
  <2>1. [setting |-> s, content |-> work[e][u].report] \in CompletionOf(s)
    BY <1>1, <1>2 DEF InHand, CompletionOf
  <2>2. done' = [done EXCEPT ![u] = [setting |-> s, content |-> work[e][u].report]]
    BY DEF Complete
  <2> QED BY <1>2, <2>1, <2>2 DEF IInv, FilesOK, DoneOK
<1>4. w \in WorkType /\ InHand(w, s)
  BY <1>2 DEF WorkType, Labels, InHand
<1>5. WorkOK' /\ RunsOK'
  BY <1>1, <1>4, HandOK
<1> QED BY <1>1, <1>3, <1>5 DEF IInv, FilesOK, PartialOK, ReflectionOK, OutOK

LEMMA CleanOK ==
  ASSUME IInv, NEW e \in Engine, NEW u \in Unit, Clean(e, u)
  PROVE  IInv'
<1> DEFINE s == run[e].setting
           a == IF s \in Reflects \/ Reused(e, u) THEN "cleanReview" ELSE "over"
           i == Passes(s) * Length
           w == [work[e][u] EXCEPT !.at = a, !.item = i]
<1>1. run[e].active /\ UNCHANGED run /\ Keep /\ UNCHANGED <<reflection, done, out>>
      /\ partial' = [partial EXCEPT ![u] = None] /\ UnitGoes(e, u, w)
  BY DEF Clean, At
<1>2. s \in Setting /\ work[e][u] \in WorkType /\ InHand(work[e][u], s)
  BY <1>1, AtOK
<1>3. a \in {"cleanReview", "over"} /\ i \in Nat
  BY EngineAssumption DEF Passes
<1>4. w \in WorkType /\ InHand(w, s)
  <2> HIDE DEF a, i
  <2> QED BY <1>2, <1>3 DEF WorkType, Labels, InHand
<1>5. WorkOK' /\ RunsOK'
  <2> HIDE DEF w
  <2> QED BY <1>1, <1>4, HandOK
<1> QED BY <1>1, <1>5 DEF IInv, FilesOK, PartialOK, ReflectionOK, DoneOK, OutOK

LEMMA CleanReviewOK ==
  ASSUME IInv, NEW e \in Engine, NEW u \in Unit, CleanReview(e, u)
  PROVE  IInv'
<1> DEFINE s == run[e].setting
           w == [work[e][u] EXCEPT !.at = "over"]
<1>1. run[e].active /\ UNCHANGED run /\ Keep /\ UNCHANGED <<partial, done, out>>
      /\ reflection' = [reflection EXCEPT ![u] = None] /\ UnitGoes(e, u, w)
  BY DEF CleanReview, At
<1>2. work[e][u] \in WorkType /\ InHand(work[e][u], s)
  BY <1>1, AtOK
<1>3. w \in WorkType /\ InHand(w, s)
  BY <1>2 DEF WorkType, Labels, InHand
<1>4. WorkOK' /\ RunsOK'
  BY <1>1, <1>3, HandOK
<1> QED BY <1>1, <1>4 DEF IInv, FilesOK, PartialOK, ReflectionOK, DoneOK, OutOK

\* A unit that fails leaves the files as they are.
LEMMA UnitFailsOK ==
  ASSUME IInv, NEW e \in Engine, NEW u \in Unit, UnitFails(e, u)
  PROVE  IInv'
<1> DEFINE s == run[e].setting
           w == [work[e][u] EXCEPT !.at = "over", !.report = None]
<1>1. run[e].active /\ UNCHANGED run /\ Keep /\ UNCHANGED files /\ UnitGoes(e, u, w)
  BY DEF UnitFails
<1>2. work[e][u] \in WorkType /\ InHand(work[e][u], s)
  BY <1>1, AtOK
<1>3. w \in WorkType /\ InHand(w, s)
  BY <1>2 DEF WorkType, Labels, InHand
<1>4. WorkOK' /\ RunsOK'
  BY <1>1, <1>3, HandOK
<1> QED BY <1>1, <1>4, FilesStay DEF IInv

LEMMA RateLimitedOK ==
  ASSUME IInv, NEW e \in Engine, NEW u \in Unit, RateLimited(e, u)
  PROVE  IInv'
<1> DEFINE s == run[e].setting
           w == [work[e][u] EXCEPT !.at = "over"]
<1>1. run[e].active /\ Keep /\ UNCHANGED files /\ UnitGoes(e, u, w)
      /\ run' = [run EXCEPT ![e].stopped = TRUE]
  BY DEF RateLimited, At
<1>2. work[e][u] \in WorkType /\ InHand(work[e][u], s)
  BY <1>1, AtOK
<1>3. w \in WorkType /\ InHand(w, s)
  BY <1>2 DEF WorkType, Labels, InHand
<1>4. /\ run' \in [Engine -> RunType]
      /\ \A f \in Engine : /\ run'[f].active = run[f].active /\ run'[f].setting = run[f].setting
                           /\ run'[f].number = run[f].number
  BY <1>1 DEF IInv, RunsOK, RunType
<1>5. RunsOK'
  BY <1>1, <1>4 DEF IInv, RunsOK, Keep
<1>6. WorkOK'
  BY <1>1, <1>3, <1>4, GoesOK DEF IInv
<1> QED BY <1>1, <1>5, <1>6, FilesStay DEF IInv

-----------------------------------------------------------------------------
(* The launcher, and what an operator does.                                *)

LEMMA StartRunOK ==
  ASSUME IInv, NEW e \in Engine, StartRun(e)
  PROVE  IInv'
<1>1. PICK s \in Setting :
        run' = [run EXCEPT ![e] =
          [active |-> TRUE, setting |-> s, number |-> runs + 1,
           units |-> Requested(s), stopped |-> FALSE, watched |-> TRUE]]
  BY DEF StartRun
<1>2. ~run[e].active /\ runs < RunBound /\ UNCHANGED <<files, work>> /\ runs' = runs + 1
  BY DEF StartRun
<1>3. Requested(s) \in SUBSET Unit
  BY DEF IInv, RunsOK, Requested
<1>4. runs' \in 1 .. RunBound
  BY <1>2, EngineAssumption DEF IInv, RunsOK
<1>5. /\ run' \in [Engine -> RunType]
      /\ run'[e].active /\ run'[e].setting = s /\ run'[e].number = runs'
      /\ \A f \in Engine \ {e} : run'[f] = run[f]
  BY <1>1, <1>2, <1>3, <1>4 DEF IInv, RunsOK, RunType
<1>6. scope' \in [setting: Setting \cup {None}, failed: SUBSET Unit]
  <2> DEFINE x == IF run'[e].units = Unit THEN {} ELSE scope.failed
  <2>1. scope' = [scope EXCEPT !.setting = run'[e].setting, !.failed = x]
    BY DEF StartRun, IInv, RunsOK
  <2>2. x \in SUBSET Unit
    BY DEF IInv, RunsOK
  <2> HIDE DEF x
  <2> QED BY <1>5, <2>1, <2>2 DEF IInv, RunsOK
<1>7. RunsOK'
  BY <1>4, <1>5, <1>6 DEF IInv, RunsOK
<1>8. WorkOK'
  BY <1>2, <1>5, FreshOK DEF IInv, WorkOK
<1> QED BY <1>2, <1>7, <1>8, FilesStay DEF IInv, files

\* An engine that ends leaves nothing behind but its files.
LEMMA EndOK ==
  ASSUME IInv, NEW e \in Engine, End(e)
  PROVE  /\ WorkOK' /\ run' \in [Engine -> RunType]
         /\ \A f \in Engine : run'[f].active =>
               run'[f].setting \in Setting /\ run'[f].number \in 1 .. RunBound
<1>1. NoRun \in RunType
  BY EngineAssumption DEF NoRun, RunType
<1>2. /\ run' \in [Engine -> RunType]
      /\ run'[e] = NoRun /\ \A f \in Engine \ {e} : run'[f] = run[f]
  BY <1>1 DEF End, IInv, RunsOK
<1>3. ~NoRun.active
  BY DEF NoRun
<1>4. work' \in [Engine -> [Unit -> WorkType]]
  BY FreshOK DEF End, IInv, WorkOK
<1>5. ASSUME NEW f \in Engine, NEW v \in Unit
      PROVE  IF run'[f].active THEN InHand(work'[f][v], run'[f].setting) ELSE work'[f][v] = Fresh
  <2>1. CASE f = e
    <3>1. work'[f][v] = Fresh
      BY <2>1 DEF End, IInv, WorkOK
    <3> QED BY <1>2, <1>3, <2>1, <3>1
  <2>2. CASE f # e
    <3>1. work'[f] = work[f]
      BY <2>2 DEF End, IInv, WorkOK
    <3> QED BY <1>2, <2>2, <3>1 DEF IInv, WorkOK
  <2> QED BY <2>1, <2>2
<1>6. WorkOK'
  BY <1>4, <1>5 DEF WorkOK, InHand
<1> QED BY <1>2, <1>3, <1>6 DEF IInv, RunsOK

LEMMA GatherOK ==
  ASSUME IInv, NEW e \in Engine, Gather(e)
  PROVE  IInv'
<1>1. End(e) /\ UNCHANGED <<files, runs>>
  BY DEF Gather
<1>2. run[e].units \ Reported(e) \in SUBSET Unit
  BY DEF IInv, RunsOK, RunType
<1>3. scope' \in [setting: Setting \cup {None}, failed: SUBSET Unit]
  BY <1>2 DEF Gather, IInv, RunsOK
<1> QED BY <1>1, <1>3, EndOK, FilesStay DEF IInv, RunsOK

LEMMA DieOK ==
  ASSUME IInv, NEW e \in Engine, Die(e)
  PROVE  IInv'
<1>1. End(e) /\ UNCHANGED files /\ Keep
  BY DEF Die
<1> QED BY <1>1, EndOK, FilesStay DEF IInv, RunsOK, Keep

LEMMA LauncherDiesOK ==
  ASSUME IInv, LauncherDies
  PROVE  IInv'
<1>1. PICK e \in Engine : run' = [run EXCEPT ![e].watched = FALSE]
  BY DEF LauncherDies
<1>2. UNCHANGED <<files, work>> /\ Keep
  BY DEF LauncherDies
<1>3. /\ run' \in [Engine -> RunType]
      /\ \A f \in Engine : /\ run'[f].active = run[f].active /\ run'[f].setting = run[f].setting
                           /\ run'[f].number = run[f].number
  BY <1>1 DEF IInv, RunsOK, RunType
<1>4. RunsOK'
  BY <1>2, <1>3 DEF IInv, RunsOK, Keep
<1>5. WorkOK'
  BY <1>2, <1>3 DEF IInv, WorkOK
<1> QED BY <1>2, <1>4, <1>5, FilesStay DEF IInv, files

LEMMA EditOK ==
  ASSUME IInv, NEW u \in Unit, Edit(u)
  PROVE  IInv'
<1>1. out' = [out EXCEPT ![u] = Edited] /\ UNCHANGED <<partial, reflection, done, run, work>> /\ Keep
  BY DEF Edit
<1>2. FilesOK'
  BY <1>1 DEF IInv, FilesOK, PartialOK, ReflectionOK, DoneOK, OutOK
<1>3. RunsOK' /\ WorkOK'
  BY <1>1 DEF IInv, RunsOK, WorkOK, Keep
<1> QED BY <1>2, <1>3 DEF IInv

-----------------------------------------------------------------------------
(* The invariant and what follows from it.                                 *)

LEMMA InitOK == Init => IInv
<1> SUFFICES ASSUME Init PROVE IInv
  OBVIOUS
<1>1. FilesOK
  BY DEF Init, FilesOK, PartialOK, ReflectionOK, DoneOK, OutOK
<1>2. RunsOK
  <2>1. NoRun \in RunType /\ ~NoRun.active
    BY EngineAssumption DEF NoRun, RunType
  <2> QED BY <2>1, EngineAssumption DEF Init, RunsOK
<1>3. WorkOK
  BY FreshOK DEF Init, WorkOK, NoRun
<1> QED BY <1>1, <1>2, <1>3 DEF IInv

LEMMA StepOK == IInv /\ [Next]_vars => IInv'
<1> SUFFICES ASSUME IInv, [Next]_vars PROVE IInv'
  OBVIOUS
<1>1. ASSUME NEW e \in Engine, StartRun(e) \/ Gather(e) \/ Die(e) PROVE IInv'
  BY <1>1, StartRunOK, GatherOK, DieOK
<1>2. ASSUME NEW e \in Engine, NEW u \in Unit, UnitStep(e, u) PROVE IInv'
  BY <1>2, PlanOK, DispatchOK, LoadOK, TranslateOK, SaveOK, EndFirstPassOK, ReviseOK,
     SaveRevisedOK, WriteOK, CompleteOK, CleanOK, CleanReviewOK, UnitFailsOK, RateLimitedOK
     DEF UnitStep
<1>3. CASE LauncherDies
  BY <1>3, LauncherDiesOK
<1>4. ASSUME NEW u \in Unit, Edit(u) PROVE IInv'
  BY <1>4, EditOK
<1>5. CASE UNCHANGED vars
  BY <1>5 DEF vars, files, IInv, FilesOK, PartialOK, ReflectionOK, DoneOK, OutOK, RunsOK, WorkOK
<1> QED BY <1>1, <1>2, <1>3, <1>4, <1>5 DEF Next

\* What the invariant says of texts, in the words of the module.
LEMMA TextOK ==
  ASSUME NEW s \in Setting
  PROVE  UpTo(OkChunk(s)) \cup UpTo(RevisionOf(s)) \cup Whole(s) \subseteq Text
<1>1. ASSUME NEW S, NEW x \in Seq(S), Len(x) <= Length
      PROVE  x \in [1 .. Len(x) -> S] /\ Len(x) \in 0 .. Length
  BY <1>1, LenProperties, EngineAssumption
<1>2. ASSUME NEW x \in Seq(OkChunk(s)), Len(x) <= Length PROVE x \in Text
  <2>1. x \in [1 .. Len(x) -> OkChunk(s)] /\ Len(x) \in 0 .. Length
    BY <1>1, <1>2
  <2>2. x \in [1 .. Len(x) -> Chunk]
    BY <2>1, ChunkKinds
  <2> QED BY <2>1, <2>2 DEF Text
<1>3. ASSUME NEW x \in Seq(RevisionOf(s)), Len(x) <= Length PROVE x \in Text
  <2>1. x \in [1 .. Len(x) -> RevisionOf(s)] /\ Len(x) \in 0 .. Length
    BY <1>1, <1>3
  <2>2. x \in [1 .. Len(x) -> Revision]
    BY <2>1, ChunkKinds
  <2> QED BY <2>1, <2>2 DEF Text
<1> QED BY <1>2, <1>3, EngineAssumption DEF UpTo, Whole

LEMMA TypesFollow == IInv => TypeOK
<1> SUFFICES ASSUME IInv PROVE TypeOK
  OBVIOUS
<1>1. Edited \in Text
  <2>1. Edited \in [1 .. 0 -> Chunk]
    BY DEF Edited
  <2>2. 0 \in 0 .. Length
    BY EngineAssumption
  <2> QED BY <2>1, <2>2 DEF Text
<1>2. ASSUME NEW u \in Unit
      PROVE  /\ partial[u] # None => partial[u].chunks \in Text
             /\ reflection[u] # None => reflection[u].chunks \in Text
             /\ done[u] # None => done[u].content \in Text
             /\ out[u] # None => out[u] \in Text
  <2>1. partial[u] # None => partial[u].chunks \in Text
    BY TextOK DEF IInv, FilesOK, PartialOK, DraftsOf
  <2>2. reflection[u] # None => reflection[u].chunks \in Text
    BY TextOK DEF IInv, FilesOK, ReflectionOK, RevisionsOf
  <2>3. done[u] # None => done[u].content \in Text
    BY TextOK DEF IInv, FilesOK, DoneOK, CompletionOf
  <2>4. out[u] # None => out[u] \in Text
    BY <1>1, TextOK DEF IInv, FilesOK, OutOK, WholeText
  <2> QED BY <2>1, <2>2, <2>3, <2>4
<1>3. \A e \in Engine : run[e].units \subseteq Unit /\ InFlight(e) \subseteq Unit
  BY DEF IInv, RunsOK, RunType, InFlight
<1> QED BY <1>2, <1>3 DEF TypeOK, IInv, RunsOK

LEMMA ChaptersFollow == IInv => ChapterIsWhole
<1> SUFFICES ASSUME IInv, NEW u \in Unit, out[u] \notin {None, Edited}
             PROVE  /\ Len(out[u]) = Length
                    /\ \A i \in 1 .. Length : Draft(out[u][i]).ok
                    /\ \A i, j \in 1 .. Length :
                         Draft(out[u][i]).setting = Draft(out[u][j]).setting
  BY DEF ChapterIsWhole
<1>1. PICK s \in Setting : out[u] \in Whole(s)
  BY DEF IInv, FilesOK, OutOK, WholeText
<1>2. Len(out[u]) = Length
  BY <1>1 DEF Whole
<1>3. ASSUME NEW i \in 1 .. Length PROVE Draft(out[u][i]) \in OkChunk(s)
  <2>1. out[u][i] \in OkChunk(s) \/ out[u][i] \in RevisionOf(s)
    BY <1>1, <1>2, ElementOfSeq DEF Whole
  <2>2. ASSUME NEW c \in OkChunk(s) PROVE Draft(c) = c
    BY DEF OkChunk, Draft
  <2>3. ASSUME NEW c \in RevisionOf(s) PROVE Draft(c) = c.draft /\ c.draft \in OkChunk(s)
    BY DEF RevisionOf, Draft
  <2> QED BY <2>1, <2>2, <2>3
<1>4. \A c \in OkChunk(s) : c.ok /\ c.setting = s
  BY DEF OkChunk
<1> QED BY <1>2, <1>3, <1>4

\* Whatever was resumed, whoever died and however many engines worked on the
\* book at once, checkpoints, completions and chapters are what the engine can
\* make sense of, and a chapter nobody edited has all its chunks, no source
\* text among them, and one setting.
THEOREM EngineIsOK == Spec => []EngineOK
<1>1. IInv => EngineOK
  BY TypesFollow, ChaptersFollow DEF EngineOK
<1> QED BY InitOK, StepOK, <1>1, PTL DEF Spec

-----------------------------------------------------------------------------
(* A book in one engine's hands.                                           *)
(*                                                                         *)
(* What the launcher is told holds as long as no two engines work on the    *)
(* book at once: an engine whose launcher died, or whose call timed out,    *)
(* runs on, and a second one then writes into the same files.               *)

\* At most one engine works on the book.
Alone == \A e, f \in Engine : run[e].active /\ run[f].active => e = f

\* None is no file's content.
NoneIsApart ==
  /\ None \notin WholeText \cup {Edited}
  /\ \A s \in Setting : None \notin DraftsOf(s) \cup RevisionsOf(s) \cup CompletionOf(s)

\* The chunks a run with setting s takes over from a checkpoint.
Kept(c, s) == ChunksOf(LoadCheckpoint(c, s))

\* A completion that a run with setting s reuses.
Valid(d, s, o) == d # None /\ d.setting = s /\ d.content = o

\* The progress files are worth to a run with setting s: Resumable, of given files.
Worth(p, r, d, o, s) ==
  IF Valid(d, s, o) THEN Passes(s) * Length
  ELSE IF s \in Reflects /\ Len(Kept(p, s)) = Length THEN Length + Len(Kept(r, s))
       ELSE Len(Kept(p, s))

\* The labels at which a unit has found no completion and has not made one.
Busy == {"translate", "save", "revise", "saveRevised", "write", "complete"}

\* What a unit w of a run with setting s knows of the files p, r, d and o of its unit.
\* A report is the chapter there is; what is in hand is what is saved, and a chunk more
\* before it is saved; the progress shown is saved.
Tied(w, s, p, r, d, o) ==
  /\ w.report = None \/ (w.report = o /\ o \in Whole(s))
  /\ w.at \in Busy => d = None
  /\ w.at = "translate" /\ w.open => w.drafts = Kept(p, s)
  /\ w.at = "save" => \E x : w.drafts = Append(Kept(p, s), x)
  /\ w.at \in {"revise", "saveRevised"} => Len(Kept(p, s)) = Length
  /\ w.at = "revise" => w.revised = Kept(r, s)
  /\ w.at = "saveRevised" => Len(w.revised) = Len(Kept(r, s)) + 1
  /\ w.at = "complete" => w.report = o
  /\ w.at \in {"clean", "cleanReview"} => Valid(d, s, o)
  /\ w.item <= Worth(p, r, d, o, s)

\* A chapter is of the setting, or somebody edited it.
Made(o, s) == o = Edited \/ o \in Whole(s)

\* When a run failed in part, the chapters that it did not fail are of its setting, and
\* the run at work is for all units or for those that failed.
Scoped ==
  /\ scope.failed # {} => \A u \in Unit \ scope.failed : Made(out[u], scope.setting)
  /\ \A e \in Engine : run[e].active =>
       /\ run[e].setting = scope.setting
       /\ \/ run[e].units = Unit /\ scope.failed = {}
          \/ run[e].units = scope.failed /\ scope.failed # {}

\* The contents of the files.
PartialFile == {None} \cup UNION {DraftsOf(s) : s \in Setting}
ReflectionFile == {None} \cup UNION {RevisionsOf(s) : s \in Setting}
DoneFile == {None} \cup UNION {CompletionOf(s) : s \in Setting}
OutFile == {None, Edited} \cup WholeText

\* Units and files that are tied.
Ties ==
  {t \in [w : WorkType, s : Setting, p : PartialFile, r : ReflectionFile, d : DoneFile,
          o : OutFile] : Tied(t.w, t.s, t.p, t.r, t.d, t.o)}

\* Every unit of a run is tied to the files of its unit.
TiesOK ==
  \A e \in Engine, u \in Unit : run[e].active =>
    [w |-> work[e][u], s |-> run[e].setting, p |-> partial[u], r |-> reflection[u],
     d |-> done[u], o |-> out[u]] \in Ties

\* The inductive invariant of one engine at a time.
AloneInv == IInv /\ TiesOK /\ Scoped

-----------------------------------------------------------------------------
(* Files and units.                                                        *)

\* What a unit writes is a whole chapter of its setting.
LEMMA ContentWhole ==
  ASSUME IInv, NEW e \in Engine, NEW u \in Unit, Write(e, u)
  PROVE  Content(e, u) \in Whole(run[e].setting) /\ Content(e, u) \in WholeText
<1> DEFINE s == run[e].setting
<1>1. /\ run[e].active
      /\ (work[e][u].at = "write" \/ (work[e][u].at = "revise" /\ Len(work[e][u].revised) = Length))
  BY DEF Write, At
<1>2. s \in Setting /\ work[e][u] \in WorkType /\ InHand(work[e][u], s)
  BY <1>1, AtOK
<1>3. CASE work[e][u].at = "write"
  <2>1. Content(e, u) = work[e][u].drafts /\ work[e][u].drafts \in UpTo(OkChunk(s))
        /\ Len(work[e][u].drafts) = Length
    BY <1>2, <1>3 DEF InHand, Content
  <2> QED BY <1>2, <2>1, FullText
<1>4. CASE work[e][u].at = "revise" /\ Len(work[e][u].revised) = Length
  <2>1. Content(e, u) = work[e][u].revised /\ work[e][u].revised \in UpTo(RevisionOf(s))
    BY <1>2, <1>4 DEF InHand, Content
  <2> QED BY <1>2, <1>4, <2>1, FullText
<1> QED BY <1>1, <1>3, <1>4

\* What the files hold, and what a run takes over from them.
LEMMA FileFacts ==
  ASSUME IInv, NEW u \in Unit, NEW s \in Setting
  PROVE  /\ partial[u] \in {None} \cup UNION {DraftsOf(t) : t \in Setting}
         /\ reflection[u] \in {None} \cup UNION {RevisionsOf(t) : t \in Setting}
         /\ done[u] \in {None} \cup UNION {CompletionOf(t) : t \in Setting}
         /\ out[u] \in {None, Edited} \cup WholeText
         /\ Kept(partial[u], s) \in UpTo(OkChunk(s))
         /\ Kept(reflection[u], s) \in UpTo(RevisionOf(s))
         /\ Len(Kept(partial[u], s)) \in 0 .. Length
         /\ Len(Kept(reflection[u], s)) \in 0 .. Length
<1>1. /\ partial[u] \in {None} \cup UNION {DraftsOf(t) : t \in Setting}
      /\ reflection[u] \in {None} \cup UNION {RevisionsOf(t) : t \in Setting}
      /\ done[u] \in {None} \cup UNION {CompletionOf(t) : t \in Setting}
      /\ out[u] \in {None, Edited} \cup WholeText
  BY DEF IInv, FilesOK, PartialOK, ReflectionOK, DoneOK, OutOK
<1>2. /\ Kept(partial[u], s) \in UpTo(OkChunk(s))
      /\ Kept(reflection[u], s) \in UpTo(RevisionOf(s))
  BY <1>1, LoadDrafts, LoadRevisions DEF Kept
<1>3. ASSUME NEW S, NEW t \in UpTo(S) PROVE Len(t) \in 0 .. Length
  BY LenProperties, EngineAssumption DEF UpTo
<1> QED BY <1>1, <1>2, <1>3

\* Reading a checkpoint twice gives what reading it once does.
LEMMA KeptAgain ==
  ASSUME NEW c, NEW s
  PROVE  Kept(LoadCheckpoint(c, s), s) = Kept(c, s)
BY DEF Kept, LoadCheckpoint

\* A checkpoint that was just saved is taken over.
LEMMA KeptSaved ==
  ASSUME NoneIsApart, NEW s \in Setting,
         NEW t \in UpTo(OkChunk(s)) \cup UpTo(RevisionOf(s))
  PROVE  Kept([setting |-> s, chunks |-> t], s) = t
<1> DEFINE c == [setting |-> s, chunks |-> t]
<1>1. c \in DraftsOf(s) \cup RevisionsOf(s)
  BY DEF DraftsOf, RevisionsOf
<1>2. c # None /\ c.setting = s /\ c.chunks = t
  BY <1>1 DEF NoneIsApart
<1>3. Len(t) <= Length
  BY DEF UpTo
<1> HIDE DEF c
<1>4. LoadCheckpoint(c, s) = c
  BY <1>2, <1>3 DEF LoadCheckpoint
<1> QED BY <1>2, <1>4 DEF Kept, ChunksOf, c

\* Files are worth at most all the passes over all the chunks.
LEMMA WorthBound ==
  ASSUME IInv, NEW u \in Unit, NEW s \in Setting
  PROVE  LET x == Worth(partial[u], reflection[u], done[u], out[u], s) IN
         /\ x \in Nat /\ x <= Passes(s) * Length
         /\ Passes(s) * Length \in Nat
<1>1. /\ Len(Kept(partial[u], s)) \in 0 .. Length /\ Len(Kept(reflection[u], s)) \in 0 .. Length
      /\ Length \in Nat \ {0}
  BY FileFacts, EngineAssumption
<1>2. /\ Passes(s) * Length \in Nat /\ Length <= Passes(s) * Length
      /\ s \in Reflects => Passes(s) * Length = Length + Length
  BY <1>1 DEF Passes
<1> QED BY <1>1, <1>2 DEF Worth

\* Worth is what Resumable says.
LEMMA WorthIs ==
  ASSUME NEW u, NEW s
  PROVE  Resumable(u, s) = Worth(partial[u], reflection[u], done[u], out[u], s)
BY DEF Resumable, Worth, Kept, Valid, LoadCompletion

\* What is known of a unit of a run.
LEMMA TieAt ==
  ASSUME AloneInv, NEW e \in Engine, NEW u \in Unit, run[e].active
  PROVE  /\ Tied(work[e][u], run[e].setting, partial[u], reflection[u], done[u], out[u])
         /\ run[e].setting \in Setting /\ run[e].number \in 1 .. RunBound
         /\ work[e][u] \in WorkType /\ InHand(work[e][u], run[e].setting)
<1> DEFINE t == [w |-> work[e][u], s |-> run[e].setting, p |-> partial[u], r |-> reflection[u],
                 d |-> done[u], o |-> out[u]]
<1>1. t \in Ties
  BY DEF AloneInv, TiesOK
<1>2. Tied(t.w, t.s, t.p, t.r, t.d, t.o)
  BY <1>1 DEF Ties
<1> QED BY <1>2, AtOK DEF AloneInv

\* The files of the other units stay.
OtherFilesStay(u) ==
  \A v \in Unit \ {u} : /\ partial'[v] = partial[v] /\ reflection'[v] = reflection[v]
                        /\ done'[v] = done[v] /\ out'[v] = out[v]

\* A step of a unit leaves the others alone.
LEMMA TieKept ==
  ASSUME AloneInv, IInv', Alone, NEW e \in Engine, NEW u \in Unit, run[e].active,
         run'[e].setting = run[e].setting, run'[e].units = run[e].units, Keep,
         \A f \in Engine : run'[f].active = run[f].active,
         NEW w, UnitGoes(e, u, w), OtherFilesStay(u),
         out'[u] = out[u] \/ out'[u] \in Whole(run[e].setting),
         Tied(w, run[e].setting, partial'[u], reflection'[u], done'[u], out'[u])
  PROVE  TiesOK' /\ Scoped'
<1>1. work'[e][u] = w /\ \A v \in Unit \ {u} : work'[e][v] = work[e][v]
  BY DEF AloneInv, IInv, WorkOK, UnitGoes
<1>2. /\ work' \in [Engine -> [Unit -> WorkType]] /\ partial' \in [Unit -> PartialFile]
      /\ reflection' \in [Unit -> ReflectionFile] /\ done' \in [Unit -> DoneFile]
      /\ out' \in [Unit -> OutFile]
  BY DEF IInv, WorkOK, FilesOK, PartialOK, ReflectionOK, DoneOK, OutOK, PartialFile,
         ReflectionFile, DoneFile, OutFile
<1>3. TiesOK'
  <2>1. SUFFICES ASSUME NEW f \in Engine, NEW v \in Unit, run'[f].active
                 PROVE  [w |-> work'[f][v], s |-> run'[f].setting, p |-> partial'[v],
                         r |-> reflection'[v], d |-> done'[v], o |-> out'[v]] \in Ties
    BY DEF TiesOK
  <2>2. f = e
    BY <2>1 DEF Alone
  <2>3. CASE v = u
    <3>1. /\ run[e].setting \in Setting /\ w \in WorkType /\ partial'[u] \in PartialFile
          /\ reflection'[u] \in ReflectionFile /\ done'[u] \in DoneFile /\ out'[u] \in OutFile
      BY <1>1, <1>2, AtOK DEF AloneInv
    <3>2. [w |-> w, s |-> run[e].setting, p |-> partial'[u], r |-> reflection'[u],
           d |-> done'[u], o |-> out'[u]] \in Ties
      BY <3>1 DEF Ties
    <3> QED BY <1>1, <2>2, <2>3, <3>2
  <2>4. CASE v # u
    <3>1. [w |-> work[e][v], s |-> run[e].setting, p |-> partial[v], r |-> reflection[v],
           d |-> done[v], o |-> out[v]] \in Ties
      BY DEF AloneInv, TiesOK
    <3>2. /\ work'[e][v] = work[e][v] /\ partial'[v] = partial[v]
          /\ reflection'[v] = reflection[v] /\ done'[v] = done[v] /\ out'[v] = out[v]
      BY <1>1, <2>4 DEF OtherFilesStay
    <3> QED BY <2>2, <3>1, <3>2
  <2> QED BY <2>3, <2>4
<1>4. Scoped'
  <2>1. ASSUME NEW v \in Unit \ scope.failed, scope.failed # {}
        PROVE  Made(out'[v], scope.setting)
    <3>1. Made(out[v], scope.setting) /\ run[e].setting = scope.setting
      BY <2>1 DEF AloneInv, Scoped
    <3> QED BY <3>1 DEF Made, OtherFilesStay
  <2>2. \A f \in Engine : run'[f].active =>
          /\ run'[f].setting = scope'.setting
          /\ \/ run'[f].units = Unit /\ scope'.failed = {}
             \/ run'[f].units = scope'.failed /\ scope'.failed # {}
    BY DEF Alone, AloneInv, Scoped, Keep
  <2>3. scope' = scope
    BY DEF Keep
  <2> QED BY <2>1, <2>2, <2>3 DEF Scoped, Made, Whole, OkChunk, RevisionOf
<1> QED BY <1>3, <1>4

\* The plan of a unit and its dispatch keep the ties: reading a file changes nothing of
\* what it is worth.
LEMMA WaitingTied ==
  ASSUME AloneInv, IInv', Alone, NEW e \in Engine, NEW u \in Unit,
         Plan(e, u) \/ Dispatch(e, u)
  PROVE  TiesOK' /\ Scoped'
<1> DEFINE s == run[e].setting
           w == work[e][u]
<1>1. /\ run[e].active /\ w.at \in Waiting
      /\ run' = run /\ Keep /\ out' = out
  BY DEF Plan, Dispatch, At, Waiting, files
<1>2. /\ Tied(w, s, partial[u], reflection[u], done[u], out[u])
      /\ s \in Setting /\ w \in WorkType
  BY <1>1, TieAt
<1>3. CASE Plan(e, u)
  <2> DEFINE n == [w EXCEPT !.at = "queued", !.item = Resumable(u, s)]
  <2>1. OtherFilesStay(u)
    BY <1>3 DEF Plan, OtherFilesStay, AloneInv, IInv, FilesOK, PartialOK, ReflectionOK, DoneOK
  <2>2. /\ done'[u] = LoadCompletion(done[u], s, u)
        /\ partial'[u] = IF done'[u] = None THEN LoadCheckpoint(partial[u], s) ELSE partial[u]
        /\ reflection'[u] = LoadCheckpoint(reflection[u], s) \/ reflection'[u] = reflection[u]
        /\ out'[u] = out[u]
    BY <1>3 DEF Plan, AloneInv, IInv, FilesOK, PartialOK, ReflectionOK, DoneOK
  <2>3. /\ Valid(done'[u], s, out'[u]) <=> Valid(done[u], s, out[u])
        /\ Kept(partial'[u], s) = Kept(partial[u], s)
        /\ Kept(reflection'[u], s) = Kept(reflection[u], s)
    BY <2>2, KeptAgain DEF LoadCompletion, Valid
  <2>4. Worth(partial'[u], reflection'[u], done'[u], out'[u], s) = Resumable(u, s)
    BY <2>3, WorthIs DEF Worth
  <2>5. Resumable(u, s) \in Nat
    BY <1>2, WorthIs, WorthBound DEF AloneInv
  <2>6. n.at = "queued" /\ n.item = Resumable(u, s) /\ n.report = w.report
    BY <1>2 DEF WorkType
  <2>7. UnitGoes(e, u, n)
    BY <1>3 DEF Plan
  <2> HIDE DEF n
  <2>8. Tied(n, s, partial'[u], reflection'[u], done'[u], out'[u])
    BY <1>1, <1>2, <2>4, <2>5, <2>6 DEF Tied, Busy
  <2> QED BY <1>1, <2>1, <2>7, <2>8, TieKept
<1>4. CASE Dispatch(e, u)
  <2> DEFINE a == IF run[e].stopped THEN "over" ELSE "load"
             n == [w EXCEPT !.at = a]
  <2>1. UnitGoes(e, u, n) /\ UNCHANGED files
    BY <1>4 DEF Dispatch
  <2>2. n.at \in {"over", "load"} /\ n.item = w.item /\ n.report = w.report
    BY <1>2 DEF WorkType
  <2> HIDE DEF n
  <2>3. Tied(n, s, partial'[u], reflection'[u], done'[u], out'[u])
    BY <1>2, <2>1, <2>2 DEF Tied, Busy, files
  <2>4. OtherFilesStay(u)
    BY <2>1 DEF OtherFilesStay, files
  <2> QED BY <1>1, <2>1, <2>3, <2>4, TieKept
<1> QED BY <1>3, <1>4

\* A completion that is reused reports the chapter there is.
LEMMA LoadTied ==
  ASSUME AloneInv, IInv', Alone, NoneIsApart, NEW e \in Engine, NEW u \in Unit, Load(e, u)
  PROVE  TiesOK' /\ Scoped'
<1> DEFINE s == run[e].setting
           w == work[e][u]
<1>1. /\ run[e].active /\ run' = run /\ Keep /\ out' = out
      /\ reflection' = reflection
  BY DEF Load, At
<1>2. /\ Tied(w, s, partial[u], reflection[u], done[u], out[u])
      /\ s \in Setting /\ w \in WorkType
  BY <1>1, TieAt
<1>3. /\ done'[u] = IF Valid(done[u], s, out[u]) THEN done[u] ELSE None
      /\ done'[u] # None <=> Valid(done[u], s, out[u])
      /\ OtherFilesStay(u)
  BY <1>1 DEF Load, LoadCompletion, Valid, OtherFilesStay, AloneInv, IInv, FilesOK, PartialOK, DoneOK
<1>4. CASE done'[u] # None
  <2> DEFINE n == [w EXCEPT !.at = "clean", !.report = done[u].content]
  <2>1. UnitGoes(e, u, n) /\ partial' = partial
    BY <1>4 DEF Load
  <2>2. done'[u] = done[u] /\ Valid(done[u], s, out[u])
    BY <1>3, <1>4
  <2>3. out[u] \in Whole(s)
    <3>1. PICK t \in Setting : done[u] \in CompletionOf(t)
      BY <1>2, <2>2, FileFacts DEF AloneInv, Valid
    <3> QED BY <2>2, <3>1 DEF CompletionOf, Valid
  <2>4. n.at = "clean" /\ n.item = w.item /\ n.report = out[u]
    BY <1>2, <2>2 DEF WorkType, Valid
  <2> HIDE DEF n
  <2>5. Tied(n, s, partial'[u], reflection'[u], done'[u], out'[u])
    BY <1>1, <1>2, <2>1, <2>2, <2>3, <2>4 DEF Tied, Busy
  <2> QED BY <1>1, <1>3, <2>1, <2>5, TieKept
<1>5. CASE done'[u] = None
  <2> DEFINE c == LoadCheckpoint(partial[u], s)
             n == [w EXCEPT !.at = "translate", !.drafts = ChunksOf(c)]
  <2>1. UnitGoes(e, u, n) /\ partial'[u] = c
    BY <1>5 DEF Load, AloneInv, IInv, FilesOK, PartialOK
  <2>2. ~Valid(done[u], s, out[u]) /\ ~Valid(done'[u], s, out'[u])
    BY <1>3, <1>5 DEF Valid
  <2>3. Kept(partial'[u], s) = Kept(partial[u], s) /\ ChunksOf(c) = Kept(partial[u], s)
    BY <2>1, KeptAgain DEF Kept
  <2>4. /\ n.at = "translate" /\ n.item = w.item /\ n.report = w.report
        /\ n.drafts = Kept(partial[u], s)
    BY <1>2, <2>3 DEF WorkType
  <2> HIDE DEF n, c
  <2>5. Worth(partial'[u], reflection'[u], done'[u], out'[u], s)
          = Worth(partial[u], reflection[u], done[u], out[u], s)
    BY <1>1, <2>2, <2>3 DEF Worth
  <2>6. Tied(n, s, partial'[u], reflection'[u], done'[u], out'[u])
    BY <1>1, <1>2, <1>5, <2>3, <2>4, <2>5 DEF Tied, Busy
  <2> QED BY <1>1, <1>3, <2>1, <2>6, TieKept
<1> QED BY <1>4, <1>5

\* A chunk that was translated is not saved yet.
LEMMA TranslateTied ==
  ASSUME AloneInv, IInv', Alone, NEW e \in Engine, NEW u \in Unit, Translate(e, u)
  PROVE  TiesOK' /\ Scoped'
<1> DEFINE s == run[e].setting
           w == work[e][u]
<1>1. /\ run[e].active /\ run' = run /\ Keep /\ UNCHANGED files
      /\ w.at = "translate"
  BY DEF Translate, At
<1>2. /\ Tied(w, s, partial[u], reflection[u], done[u], out[u])
      /\ s \in Setting /\ w \in WorkType
  BY <1>1, TieAt
<1>3. ASSUME NEW n, UnitGoes(e, u, n), n.item = w.item, n.report = w.report,
             \/ n.at = "save" /\ w.open /\ \E x : n.drafts = Append(w.drafts, x)
             \/ n.at = "translate" /\ ~n.open
      PROVE  TiesOK' /\ Scoped'
  <2>1. Tied(n, s, partial'[u], reflection'[u], done'[u], out'[u])
    BY <1>1, <1>2, <1>3 DEF Tied, Busy, files
  <2>2. OtherFilesStay(u)
    BY <1>1 DEF OtherFilesStay, files
  <2> QED BY <1>1, <1>3, <2>1, <2>2, TieKept DEF files
<1>4. CASE UnitGoes(e, u, [w EXCEPT !.drafts = Append(@, NewChunk(e, TRUE)),
                                    !.at = IF w.open THEN "save" ELSE @])
  <2> DEFINE n == [w EXCEPT !.drafts = Append(@, NewChunk(e, TRUE)),
                            !.at = IF w.open THEN "save" ELSE @]
  <2>1. /\ n.item = w.item /\ n.report = w.report /\ n.open = w.open
        /\ n.at = (IF w.open THEN "save" ELSE "translate")
        /\ n.drafts = Append(w.drafts, NewChunk(e, TRUE))
    BY <1>1, <1>2 DEF WorkType
  <2>2. UnitGoes(e, u, n)
    BY <1>4
  <2>3. w.open \in BOOLEAN
    BY <1>2 DEF WorkType
  <2> HIDE DEF n
  <2>4. \/ n.at = "save" /\ w.open /\ \E x : n.drafts = Append(w.drafts, x)
        \/ n.at = "translate" /\ ~n.open
    BY <2>1, <2>3
  <2> QED BY <1>3, <2>1, <2>2, <2>4
<1>5. CASE UnitGoes(e, u, [w EXCEPT !.drafts = Append(@, NewChunk(e, FALSE)), !.open = FALSE])
  <2> DEFINE n == [w EXCEPT !.drafts = Append(@, NewChunk(e, FALSE)), !.open = FALSE]
  <2>1. n.item = w.item /\ n.report = w.report /\ ~n.open /\ n.at = "translate"
    BY <1>1, <1>2 DEF WorkType
  <2>2. UnitGoes(e, u, n)
    BY <1>5
  <2> HIDE DEF n
  <2> QED BY <1>3, <2>1, <2>2
<1> QED BY <1>4, <1>5 DEF Translate

\* A checkpoint is saved before its chunk counts.
LEMMA SaveTied ==
  ASSUME AloneInv, IInv', Alone, NoneIsApart, NEW e \in Engine, NEW u \in Unit, Save(e, u)
  PROVE  TiesOK' /\ Scoped'
<1> DEFINE s == run[e].setting
           w == work[e][u]
           n == [w EXCEPT !.at = "translate", !.item = MaxOf(w.item, Len(w.drafts))]
<1>1. /\ run[e].active /\ run' = run /\ Keep /\ w.at = "save"
      /\ UNCHANGED <<reflection, done, out>> /\ UnitGoes(e, u, n)
  BY DEF Save, At
<1>2. /\ Tied(w, s, partial[u], reflection[u], done[u], out[u])
      /\ s \in Setting /\ w \in WorkType /\ InHand(w, s)
  BY <1>1, TieAt
<1>3. /\ partial'[u] = [setting |-> s, chunks |-> w.drafts] /\ OtherFilesStay(u)
  BY <1>1 DEF Save, OtherFilesStay, AloneInv, IInv, FilesOK, PartialOK
<1>4. w.drafts \in UpTo(OkChunk(s)) /\ w.open
  BY <1>1, <1>2 DEF InHand
<1>5. Kept(partial'[u], s) = w.drafts
  BY <1>2, <1>3, <1>4, KeptSaved
<1>6. Len(w.drafts) = Len(Kept(partial[u], s)) + 1 /\ Len(w.drafts) \in 1 .. Length
  <2>1. PICK x : w.drafts = Append(Kept(partial[u], s), x)
    BY <1>1, <1>2 DEF Tied
  <2>2. Kept(partial[u], s) \in Seq(OkChunk(s)) /\ Len(Kept(partial[u], s)) \in 0 .. Length
    BY <1>2, FileFacts DEF AloneInv, UpTo
  <2>3. Len(w.drafts) = Len(Kept(partial[u], s)) + 1
    BY <2>1, <2>2
  <2> QED BY <1>4, <2>2, <2>3, EngineAssumption DEF UpTo
<1>7. Len(Kept(partial[u], s)) \in 0 .. Length /\ Len(Kept(reflection[u], s)) \in 0 .. Length
      /\ Length \in Nat
  BY <1>2, FileFacts, EngineAssumption DEF AloneInv
<1>8. /\ Worth(partial[u], reflection[u], done[u], out[u], s) = Len(Kept(partial[u], s))
      /\ Worth(partial'[u], reflection'[u], done'[u], out'[u], s) >= Len(w.drafts)
  BY <1>1, <1>2, <1>5, <1>6, <1>7 DEF Tied, Busy, Worth, Valid
<1>9. /\ n.at = "translate" /\ n.item = MaxOf(w.item, Len(w.drafts)) /\ n.report = w.report
      /\ n.drafts = w.drafts /\ w.item \in Nat
  BY <1>2 DEF WorkType
<1> HIDE DEF n
<1>10. n.item <= Worth(partial'[u], reflection'[u], done'[u], out'[u], s)
  <2>1. w.item <= Worth(partial[u], reflection[u], done[u], out[u], s)
    BY <1>2 DEF Tied
  <2>2. Worth(partial'[u], reflection'[u], done'[u], out'[u], s) \in Nat
    BY <1>1, <1>2, <1>5, <1>6, <1>7 DEF Tied, Busy, Worth, Valid
  <2>3. n.item <= Len(w.drafts) /\ n.item \in Nat
    BY <1>6, <1>7, <1>8, <1>9, <2>1 DEF MaxOf
  <2> QED BY <1>6, <1>7, <1>8, <2>2, <2>3
<1>11. Tied(n, s, partial'[u], reflection'[u], done'[u], out'[u])
  BY <1>1, <1>2, <1>5, <1>9, <1>10 DEF Tied, Busy
<1> QED BY <1>1, <1>3, <1>11, TieKept

\* The second pass starts from the revisions that are saved.
LEMMA EndFirstPassTied ==
  ASSUME AloneInv, IInv', Alone, NEW e \in Engine, NEW u \in Unit, EndFirstPass(e, u)
  PROVE  TiesOK' /\ Scoped'
<1> DEFINE s == run[e].setting
           w == work[e][u]
<1>1. /\ run[e].active /\ run' = run /\ Keep /\ w.at = "translate"
      /\ Len(w.drafts) = Length /\ UNCHANGED <<partial, done, out>>
  BY DEF EndFirstPass, At
<1>2. /\ Tied(w, s, partial[u], reflection[u], done[u], out[u])
      /\ s \in Setting /\ w \in WorkType
  BY <1>1, TieAt
<1>3. CASE w.open /\ s \in Reflects
  <2> DEFINE c == LoadCheckpoint(reflection[u], s)
             k == ChunksOf(c)
             n == [w EXCEPT !.at = "revise", !.revised = k,
                            !.item = MaxOf(w.item, Length + Len(k))]
  <2>1. reflection' = [reflection EXCEPT ![u] = c]
    BY <1>3 DEF EndFirstPass
  <2>2. reflection'[u] = c /\ OtherFilesStay(u)
    BY <1>1, <2>1 DEF OtherFilesStay, AloneInv, IInv, FilesOK, ReflectionOK
  <2>3. UnitGoes(e, u, n)
    BY <1>3, <2>2 DEF EndFirstPass
  <2>4. k = Kept(reflection[u], s) /\ k = Kept(reflection'[u], s)
    BY <2>2, KeptAgain DEF Kept
  <2>5. Len(k) \in 0 .. Length /\ Length \in Nat /\ w.item \in Nat
    BY <1>2, <2>4, FileFacts, EngineAssumption DEF AloneInv, WorkType
  <2>6. /\ n.at = "revise" /\ n.item = MaxOf(w.item, Length + Len(k)) /\ n.report = w.report
        /\ n.revised = k
    BY <1>2 DEF WorkType
  <2> HIDE DEF n, k, c
  <2>7. /\ Len(Kept(partial[u], s)) = Length /\ done[u] = None
        /\ w.item <= Worth(partial[u], reflection[u], done[u], out[u], s)
    BY <1>1, <1>2, <1>3 DEF Tied, Busy
  <2>8. Worth(partial'[u], reflection'[u], done'[u], out'[u], s) = Length + Len(k)
        /\ Worth(partial[u], reflection[u], done[u], out[u], s) = Length + Len(k)
    BY <1>1, <1>3, <2>4, <2>7 DEF Worth, Valid
  <2>9. n.item <= Length + Len(k)
    BY <2>5, <2>6, <2>7, <2>8 DEF MaxOf
  <2>10. Tied(n, s, partial'[u], reflection'[u], done'[u], out'[u])
    BY <1>1, <1>2, <2>4, <2>6, <2>7, <2>8, <2>9 DEF Tied, Busy
  <2> QED BY <1>1, <2>2, <2>3, <2>10, TieKept
<1>4. CASE ~(w.open /\ s \in Reflects)
  <2> DEFINE a == IF w.open THEN "write" ELSE "over"
             n == [w EXCEPT !.at = a]
  <2>1. UnitGoes(e, u, n) /\ UNCHANGED reflection
    BY <1>4 DEF EndFirstPass
  <2>2. n.at \in {"write", "over"} /\ n.item = w.item /\ n.report = w.report
    BY <1>2 DEF WorkType
  <2> HIDE DEF n
  <2>3. Tied(n, s, partial'[u], reflection'[u], done'[u], out'[u])
    BY <1>1, <1>2, <2>1, <2>2 DEF Tied, Busy
  <2>4. OtherFilesStay(u)
    BY <1>1, <2>1 DEF OtherFilesStay
  <2> QED BY <1>1, <2>1, <2>3, <2>4, TieKept
<1> QED BY <1>3, <1>4

\* A chunk that was revised is not saved yet.
LEMMA ReviseTied ==
  ASSUME AloneInv, IInv', Alone, NEW e \in Engine, NEW u \in Unit, Revise(e, u)
  PROVE  TiesOK' /\ Scoped'
<1> DEFINE s == run[e].setting
           w == work[e][u]
           x == [draft |-> w.drafts[Len(w.revised) + 1], run |-> run[e].number]
           n == [w EXCEPT !.at = "saveRevised", !.revised = Append(w.revised, x)]
<1>1. /\ run[e].active /\ run' = run /\ Keep /\ w.at = "revise"
      /\ UNCHANGED files /\ UnitGoes(e, u, n)
  BY DEF Revise, At
<1>2. /\ Tied(w, s, partial[u], reflection[u], done[u], out[u])
      /\ s \in Setting /\ w \in WorkType
  BY <1>1, TieAt
<1>3. n.at = "saveRevised" /\ n.item = w.item /\ n.report = w.report
      /\ n.revised = Append(w.revised, x)
  BY <1>2 DEF WorkType
<1>4. Len(Append(w.revised, x)) = Len(w.revised) + 1
  BY <1>2 DEF WorkType, UpTo
<1> HIDE DEF n, x
<1>5. Tied(n, s, partial'[u], reflection'[u], done'[u], out'[u])
  BY <1>1, <1>2, <1>3, <1>4 DEF Tied, Busy, files
<1>6. OtherFilesStay(u)
  BY <1>1 DEF OtherFilesStay, files
<1> QED BY <1>1, <1>5, <1>6, TieKept DEF files

\* The checkpoint of the second pass is saved before its chunk counts.
LEMMA SaveRevisedTied ==
  ASSUME AloneInv, IInv', Alone, NoneIsApart, NEW e \in Engine, NEW u \in Unit,
         SaveRevised(e, u)
  PROVE  TiesOK' /\ Scoped'
<1> DEFINE s == run[e].setting
           w == work[e][u]
           n == [w EXCEPT !.at = "revise", !.item = MaxOf(w.item, Length + Len(w.revised))]
<1>1. /\ run[e].active /\ run' = run /\ Keep /\ w.at = "saveRevised"
      /\ UNCHANGED <<partial, done, out>> /\ UnitGoes(e, u, n)
  BY DEF SaveRevised, At
<1>2. /\ Tied(w, s, partial[u], reflection[u], done[u], out[u])
      /\ s \in Setting /\ w \in WorkType /\ InHand(w, s)
  BY <1>1, TieAt
<1>3. /\ reflection'[u] = [setting |-> s, chunks |-> w.revised] /\ OtherFilesStay(u)
  BY <1>1 DEF SaveRevised, OtherFilesStay, AloneInv, IInv, FilesOK, ReflectionOK
<1>4. w.revised \in UpTo(RevisionOf(s)) /\ s \in Reflects
  BY <1>1, <1>2 DEF InHand
<1>5. Kept(reflection'[u], s) = w.revised
  BY <1>2, <1>3, <1>4, KeptSaved
<1>6. /\ Len(Kept(reflection[u], s)) \in 0 .. Length /\ Length \in Nat /\ w.item \in Nat
      /\ Len(w.revised) = Len(Kept(reflection[u], s)) + 1
  BY <1>1, <1>2, FileFacts, EngineAssumption DEF AloneInv, WorkType, Tied
<1>7. /\ Len(Kept(partial[u], s)) = Length /\ done[u] = None
      /\ w.item <= Worth(partial[u], reflection[u], done[u], out[u], s)
  BY <1>1, <1>2 DEF Tied, Busy
<1>8. /\ Worth(partial[u], reflection[u], done[u], out[u], s) = Length + Len(Kept(reflection[u], s))
      /\ Worth(partial'[u], reflection'[u], done'[u], out'[u], s) = Length + Len(w.revised)
  BY <1>1, <1>4, <1>5, <1>7 DEF Worth, Valid
<1>9. /\ n.at = "revise" /\ n.item = MaxOf(w.item, Length + Len(w.revised))
      /\ n.report = w.report /\ n.revised = w.revised
  BY <1>2 DEF WorkType
<1> HIDE DEF n
<1>10. n.item <= Length + Len(w.revised)
  BY <1>6, <1>7, <1>8, <1>9 DEF MaxOf
<1>11. Tied(n, s, partial'[u], reflection'[u], done'[u], out'[u])
  BY <1>1, <1>2, <1>5, <1>7, <1>8, <1>9, <1>10 DEF Tied, Busy
<1> QED BY <1>1, <1>3, <1>11, TieKept

\* The chapter that is written is the one that is reported.
LEMMA WriteTied ==
  ASSUME AloneInv, IInv', Alone, NEW e \in Engine, NEW u \in Unit, Write(e, u)
  PROVE  TiesOK' /\ Scoped'
<1> DEFINE s == run[e].setting
           w == work[e][u]
           c == Content(e, u)
           n == [w EXCEPT !.at = "complete", !.report = c]
<1>1. /\ run[e].active /\ run' = run /\ Keep
      /\ w.at = "write" \/ (w.at = "revise" /\ Len(w.revised) = Length)
      /\ UNCHANGED <<partial, reflection, done>> /\ UnitGoes(e, u, n)
  BY DEF Write, At
<1>2. /\ Tied(w, s, partial[u], reflection[u], done[u], out[u])
      /\ s \in Setting /\ w \in WorkType
  BY <1>1, TieAt
<1>3. out'[u] = c /\ OtherFilesStay(u)
  BY <1>1 DEF Write, OtherFilesStay, AloneInv, IInv, FilesOK, OutOK
<1>4. c \in Whole(s)
  BY ContentWhole DEF AloneInv
<1>5. n.at = "complete" /\ n.item = w.item /\ n.report = c
  BY <1>2 DEF WorkType
<1> HIDE DEF n, c
<1>6. done[u] = None /\ w.item <= Worth(partial[u], reflection[u], done[u], out[u], s)
  BY <1>1, <1>2 DEF Tied, Busy
<1>7. Worth(partial'[u], reflection'[u], done'[u], out'[u], s)
        = Worth(partial[u], reflection[u], done[u], out[u], s)
  BY <1>1, <1>6 DEF Worth, Valid
<1>8. Tied(n, s, partial'[u], reflection'[u], done'[u], out'[u])
  BY <1>1, <1>3, <1>4, <1>5, <1>6, <1>7 DEF Tied, Busy
<1> QED BY <1>1, <1>3, <1>4, <1>8, TieKept

\* A completion is valid once it is recorded.
LEMMA CompleteTied ==
  ASSUME AloneInv, IInv', Alone, NoneIsApart, NEW e \in Engine, NEW u \in Unit,
         Complete(e, u)
  PROVE  TiesOK' /\ Scoped'
<1> DEFINE s == run[e].setting
           w == work[e][u]
           d == [setting |-> s, content |-> w.report]
           n == [w EXCEPT !.at = "clean"]
<1>1. /\ run[e].active /\ run' = run /\ Keep /\ w.at = "complete"
      /\ UNCHANGED <<partial, reflection, out>> /\ UnitGoes(e, u, n)
  BY DEF Complete, At
<1>2. /\ Tied(w, s, partial[u], reflection[u], done[u], out[u])
      /\ s \in Setting /\ w \in WorkType /\ InHand(w, s)
  BY <1>1, TieAt
<1>3. done'[u] = d /\ OtherFilesStay(u)
  BY <1>1 DEF Complete, OtherFilesStay, AloneInv, IInv, FilesOK, DoneOK
<1>4. d \in CompletionOf(s)
  BY <1>1, <1>2 DEF InHand, CompletionOf
<1>5. d # None
  BY <1>2, <1>4 DEF NoneIsApart
<1>6. Valid(done'[u], s, out'[u])
  BY <1>1, <1>2, <1>3, <1>5 DEF Valid, Tied
<1>7. /\ w.item <= Worth(partial[u], reflection[u], done[u], out[u], s)
      /\ w.item \in Nat
  BY <1>2 DEF Tied, WorkType
<1>8. w.item <= Passes(s) * Length
  BY <1>2, <1>7, WorthBound DEF AloneInv
<1>9. n.at = "clean" /\ n.item = w.item /\ n.report = w.report
  BY <1>2 DEF WorkType
<1> HIDE DEF n, d
<1>10. Worth(partial'[u], reflection'[u], done'[u], out'[u], s) = Passes(s) * Length
  BY <1>6 DEF Worth
<1>11. Tied(n, s, partial'[u], reflection'[u], done'[u], out'[u])
  BY <1>1, <1>2, <1>6, <1>8, <1>9, <1>10 DEF Tied, Busy
<1> QED BY <1>1, <1>3, <1>11, TieKept

\* With its completion recorded, a unit can do without its checkpoint,
LEMMA CleanTied ==
  ASSUME AloneInv, IInv', Alone, NEW e \in Engine, NEW u \in Unit, Clean(e, u)
  PROVE  TiesOK' /\ Scoped'
<1> DEFINE s == run[e].setting
           w == work[e][u]
           a == IF s \in Reflects \/ Reused(e, u) THEN "cleanReview" ELSE "over"
           i == Passes(s) * Length
           n == [w EXCEPT !.at = a, !.item = i]
<1>1. /\ run[e].active /\ run' = run /\ Keep /\ w.at = "clean"
      /\ UNCHANGED <<reflection, done, out>> /\ UnitGoes(e, u, n)
  BY DEF Clean, At
<1>2. /\ Tied(w, s, partial[u], reflection[u], done[u], out[u])
      /\ s \in Setting /\ w \in WorkType
  BY <1>1, TieAt
<1>3. OtherFilesStay(u)
  BY <1>1 DEF Clean, OtherFilesStay, AloneInv, IInv, FilesOK, PartialOK
<1>4. Valid(done[u], s, out[u])
  BY <1>1, <1>2 DEF Tied
<1>5. i \in Nat /\ a \in {"cleanReview", "over"}
  BY <1>2, WorthBound DEF AloneInv
<1> HIDE DEF a
<1>6. Worth(partial'[u], reflection'[u], done'[u], out'[u], s) = i
  BY <1>1, <1>4 DEF Worth
<1> HIDE DEF i
<1>7. n.at \in {"cleanReview", "over"} /\ n.item = i /\ n.report = w.report
  BY <1>2, <1>5 DEF WorkType
<1> HIDE DEF n
<1>8. Tied(n, s, partial'[u], reflection'[u], done'[u], out'[u])
  BY <1>1, <1>2, <1>4, <1>5, <1>6, <1>7 DEF Tied, Busy
<1> QED BY <1>1, <1>3, <1>8, TieKept

\* and without that of the second pass.
LEMMA CleanReviewTied ==
  ASSUME AloneInv, IInv', Alone, NEW e \in Engine, NEW u \in Unit, CleanReview(e, u)
  PROVE  TiesOK' /\ Scoped'
<1> DEFINE s == run[e].setting
           w == work[e][u]
           n == [w EXCEPT !.at = "over"]
<1>1. /\ run[e].active /\ run' = run /\ Keep /\ w.at = "cleanReview"
      /\ UNCHANGED <<partial, done, out>> /\ UnitGoes(e, u, n)
  BY DEF CleanReview, At
<1>2. /\ Tied(w, s, partial[u], reflection[u], done[u], out[u])
      /\ s \in Setting /\ w \in WorkType
  BY <1>1, TieAt
<1>3. OtherFilesStay(u)
  BY <1>1 DEF CleanReview, OtherFilesStay, AloneInv, IInv, FilesOK, ReflectionOK
<1>4. Valid(done[u], s, out[u])
  BY <1>1, <1>2 DEF Tied
<1>5. Worth(partial'[u], reflection'[u], done'[u], out'[u], s)
        = Worth(partial[u], reflection[u], done[u], out[u], s)
  BY <1>1, <1>4 DEF Worth
<1>6. n.at = "over" /\ n.item = w.item /\ n.report = w.report
  BY <1>2 DEF WorkType
<1> HIDE DEF n
<1>7. Tied(n, s, partial'[u], reflection'[u], done'[u], out'[u])
  BY <1>1, <1>2, <1>5, <1>6 DEF Tied, Busy
<1> QED BY <1>1, <1>3, <1>7, TieKept

\* A unit that fails reports nothing.
LEMMA UnitFailsTied ==
  ASSUME AloneInv, IInv', Alone, NEW e \in Engine, NEW u \in Unit, UnitFails(e, u)
  PROVE  TiesOK' /\ Scoped'
<1> DEFINE s == run[e].setting
           w == work[e][u]
           n == [w EXCEPT !.at = "over", !.report = None]
<1>1. /\ run[e].active /\ run' = run /\ Keep /\ UNCHANGED files /\ UnitGoes(e, u, n)
  BY DEF UnitFails
<1>2. /\ Tied(w, s, partial[u], reflection[u], done[u], out[u])
      /\ s \in Setting /\ w \in WorkType
  BY <1>1, TieAt
<1>3. n.at = "over" /\ n.item = w.item /\ n.report = None
  BY <1>2 DEF WorkType
<1> HIDE DEF n
<1>4. Tied(n, s, partial'[u], reflection'[u], done'[u], out'[u])
  BY <1>1, <1>2, <1>3 DEF Tied, Busy, files
<1>5. OtherFilesStay(u)
  BY <1>1 DEF OtherFilesStay, files
<1> QED BY <1>1, <1>4, <1>5, TieKept DEF files

\* A unit stopped by a rate limit keeps what it saved.
LEMMA RateLimitedTied ==
  ASSUME AloneInv, IInv', Alone, NEW e \in Engine, NEW u \in Unit, RateLimited(e, u)
  PROVE  TiesOK' /\ Scoped'
<1> DEFINE s == run[e].setting
           w == work[e][u]
           n == [w EXCEPT !.at = "over"]
<1>1. /\ run[e].active /\ Keep /\ UNCHANGED files /\ UnitGoes(e, u, n)
      /\ run' = [run EXCEPT ![e].stopped = TRUE]
  BY DEF RateLimited, At
<1>2. /\ Tied(w, s, partial[u], reflection[u], done[u], out[u])
      /\ s \in Setting /\ w \in WorkType
  BY <1>1, TieAt
<1>3. /\ run'[e].setting = run[e].setting /\ run'[e].units = run[e].units
      /\ \A f \in Engine : run'[f].active = run[f].active
  BY <1>1 DEF AloneInv, IInv, RunsOK, RunType
<1>4. n.at = "over" /\ n.item = w.item /\ n.report = w.report
  BY <1>2 DEF WorkType
<1> HIDE DEF n
<1>5. Tied(n, s, partial'[u], reflection'[u], done'[u], out'[u])
  BY <1>1, <1>2, <1>4 DEF Tied, Busy, files
<1>6. OtherFilesStay(u)
  BY <1>1 DEF OtherFilesStay, files
<1> QED BY <1>1, <1>3, <1>5, <1>6, TieKept DEF files

\* A unit that has not begun is tied to any files.
LEMMA FreshTied ==
  ASSUME NEW s, NEW p, NEW r, NEW d, NEW o, Worth(p, r, d, o, s) \in Nat
  PROVE  Tied(Fresh, s, p, r, d, o)
BY DEF Tied, Fresh, Busy

\* A run starts with fresh units; with another setting, or for the units that failed.
LEMMA StartRunTied ==
  ASSUME AloneInv, IInv', Alone', NEW e \in Engine, StartRun(e)
  PROVE  TiesOK' /\ Scoped'
<1>1. PICK s \in Setting :
        run' = [run EXCEPT ![e] =
          [active |-> TRUE, setting |-> s, number |-> runs + 1,
           units |-> Requested(s), stopped |-> FALSE, watched |-> TRUE]]
  BY DEF StartRun
<1>2. ~run[e].active /\ work' = work /\ UNCHANGED files
  BY DEF StartRun
<1>3. /\ run'[e].active /\ run'[e].setting = s /\ run'[e].units = Requested(s)
      /\ \A f \in Engine : run'[f].active => f = e
  <2>1. run'[e].active /\ run'[e].setting = s /\ run'[e].units = Requested(s)
    BY <1>1 DEF AloneInv, IInv, RunsOK
  <2> QED BY <2>1 DEF Alone
<1>4. TiesOK'
  <2>1. ASSUME NEW v \in Unit
        PROVE  [w |-> work'[e][v], s |-> run'[e].setting, p |-> partial'[v],
                r |-> reflection'[v], d |-> done'[v], o |-> out'[v]] \in Ties
    <3>1. work'[e][v] = Fresh
      BY <1>2 DEF AloneInv, IInv, WorkOK
    <3>2. /\ Fresh \in WorkType /\ s \in Setting /\ partial[v] \in PartialFile
          /\ reflection[v] \in ReflectionFile /\ done[v] \in DoneFile /\ out[v] \in OutFile
      BY FreshOK, FileFacts DEF AloneInv, PartialFile, ReflectionFile, DoneFile, OutFile
    <3>3. Worth(partial[v], reflection[v], done[v], out[v], s) \in Nat
      BY WorthBound DEF AloneInv
    <3>4. Tied(Fresh, s, partial[v], reflection[v], done[v], out[v])
      BY <3>3, FreshTied
    <3>5. [w |-> Fresh, s |-> s, p |-> partial[v], r |-> reflection[v], d |-> done[v],
           o |-> out[v]] \in Ties
      BY <3>2, <3>4 DEF Ties
    <3> QED BY <1>2, <1>3, <3>1, <3>5 DEF files
  <2> QED BY <1>3, <2>1 DEF TiesOK
<1>5. scope' = [scope EXCEPT !.setting = s, !.failed = IF Requested(s) = Unit THEN {} ELSE @]
  BY <1>3 DEF StartRun
<1>6. /\ scope'.setting = s
      /\ scope'.failed = IF Requested(s) = Unit THEN {} ELSE scope.failed
  BY <1>5 DEF AloneInv, IInv, RunsOK
<1>7. scope'.failed # {} =>
        /\ s = scope.setting /\ scope.failed # {} /\ Requested(s) = scope.failed
        /\ scope'.failed = scope.failed
  BY <1>6 DEF Requested
<1>8. scope'.failed = {} => Requested(s) = Unit
  BY <1>6 DEF Requested
<1>9. out' = out
  BY <1>2 DEF files
<1>10. ASSUME NEW v \in Unit \ scope'.failed, scope'.failed # {}
       PROVE  Made(out'[v], scope'.setting)
  <2>1. Made(out[v], scope.setting)
    BY <1>7, <1>10 DEF AloneInv, Scoped
  <2> QED BY <1>6, <1>7, <1>9, <1>10, <2>1
<1>11. \A f \in Engine : run'[f].active =>
         /\ run'[f].setting = scope'.setting
         /\ \/ run'[f].units = Unit /\ scope'.failed = {}
            \/ run'[f].units = scope'.failed /\ scope'.failed # {}
  BY <1>3, <1>6, <1>7, <1>8
<1> QED BY <1>4, <1>10, <1>11 DEF Scoped, Made, Whole, OkChunk, RevisionOf

\* The engine that ends was the only one.
LEMMA EndTied ==
  ASSUME AloneInv, Alone, NEW e \in Engine, run[e].active, End(e)
  PROVE  (\A f \in Engine : ~run'[f].active) /\ TiesOK'
<1>1. \A f \in Engine : ~run'[f].active
  <2>1. run'[e] = NoRun /\ \A f \in Engine \ {e} : run'[f] = run[f]
    BY DEF End, AloneInv, IInv, RunsOK
  <2>2. \A f \in Engine \ {e} : ~run[f].active
    BY DEF Alone
  <2> QED BY <2>1, <2>2 DEF NoRun
<1> QED BY <1>1 DEF TiesOK

\* A report that is accepted leaves as failed what has no chapter of the setting.
LEMMA GatherTied ==
  ASSUME AloneInv, Alone, NEW e \in Engine, Gather(e)
  PROVE  TiesOK' /\ Scoped'
<1>1. run[e].active /\ End(e) /\ out' = out
  BY DEF Gather, AllOver, files
<1>2. (\A f \in Engine : ~run'[f].active) /\ TiesOK'
  BY <1>1, EndTied
<1>3. CASE ~Accepted(e)
  <2>1. scope' = scope
    BY <1>3 DEF Gather
  <2> QED BY <1>1, <1>2, <2>1 DEF AloneInv, Scoped, Made, Whole, OkChunk, RevisionOf
<1>4. CASE Accepted(e)
  <2>1. scope'.setting = scope.setting /\ scope'.failed = run[e].units \ Reported(e)
    BY <1>4 DEF Gather, AloneInv, IInv, RunsOK
  <2>2. /\ run[e].setting = scope.setting
        /\ \/ run[e].units = Unit
           \/ run[e].units = scope.failed /\ scope.failed # {}
    BY <1>1 DEF AloneInv, Scoped
  <2>3. ASSUME NEW v \in Unit \ scope'.failed
        PROVE  Made(out'[v], scope'.setting)
    <3>1. CASE v \in Reported(e)
      <4>1. work[e][v].report # None
        BY <3>1 DEF Reported
      <4>2. Tied(work[e][v], run[e].setting, partial[v], reflection[v], done[v], out[v])
        BY <1>1, TieAt
      <4>3. out[v] \in Whole(run[e].setting)
        BY <4>1, <4>2 DEF Tied
      <4> QED BY <1>1, <2>1, <2>2, <4>3 DEF Made
    <3>2. CASE v \notin Reported(e)
      <4>1. v \notin run[e].units
        BY <2>1, <2>3, <3>2
      <4>2. scope.failed # {} /\ v \notin scope.failed
        BY <2>2, <2>3, <4>1
      <4>3. Made(out[v], scope.setting)
        BY <2>3, <4>2 DEF AloneInv, Scoped
      <4> QED BY <1>1, <2>1, <4>3
    <3> QED BY <3>1, <3>2
  <2> QED BY <1>2, <2>3 DEF Scoped, Made, Whole, OkChunk, RevisionOf
<1> QED BY <1>3, <1>4

\* An engine or a launcher that dies, and an edit, keep the ties.
LEMMA QuietTied ==
  ASSUME AloneInv, Alone,
         \/ \E e \in Engine : Die(e)
         \/ LauncherDies
         \/ \E u \in Unit : Edit(u)
         \/ UNCHANGED vars
  PROVE  TiesOK' /\ Scoped'
<1>1. ASSUME NEW e \in Engine, Die(e) PROVE TiesOK' /\ Scoped'
  <2>1. run[e].active /\ End(e) /\ out' = out /\ scope' = scope
    BY <1>1 DEF Die, files, Keep
  <2>2. (\A f \in Engine : ~run'[f].active) /\ TiesOK'
    BY <2>1, EndTied
  <2> QED BY <2>1, <2>2 DEF AloneInv, Scoped, Made, Whole, OkChunk, RevisionOf
<1>2. ASSUME UNCHANGED <<files, work, scope>>,
             \A f \in Engine : /\ run'[f].active = run[f].active
                               /\ run'[f].setting = run[f].setting
                               /\ run'[f].units = run[f].units
      PROVE  TiesOK' /\ Scoped'
  BY <1>2 DEF AloneInv, TiesOK, Scoped, Made, Whole, OkChunk, RevisionOf, files
<1>3. CASE LauncherDies
  <2>1. PICK e \in Engine : run' = [run EXCEPT ![e].watched = FALSE]
    BY <1>3 DEF LauncherDies
  <2>2. \A f \in Engine : /\ run'[f].active = run[f].active
                          /\ run'[f].setting = run[f].setting
                          /\ run'[f].units = run[f].units
    BY <2>1 DEF AloneInv, IInv, RunsOK, RunType
  <2> QED BY <1>2, <1>3, <2>2 DEF LauncherDies, Keep
<1>4. ASSUME NEW u \in Unit, Edit(u) PROVE TiesOK' /\ Scoped'
  <2>1. /\ \A f \in Engine : ~run'[f].active
        /\ out' = [out EXCEPT ![u] = Edited] /\ scope' = scope
    BY <1>4 DEF Edit, Keep
  <2>2. \A v \in Unit : out'[v] = out[v] \/ out'[v] = Edited
    BY <2>1 DEF AloneInv, IInv, FilesOK, OutOK
  <2> QED BY <2>1, <2>2 DEF AloneInv, TiesOK, Scoped, Made, Whole, OkChunk, RevisionOf
<1>5. CASE UNCHANGED vars
  BY <1>2, <1>5 DEF vars, files
<1> QED BY <1>1, <1>3, <1>4, <1>5

\* Every step keeps the invariant.
LEMMA AloneStep ==
  ASSUME NoneIsApart, AloneInv, Alone, Alone', [Next]_vars
  PROVE  AloneInv'
<1>1. IInv'
  BY StepOK DEF AloneInv
<1>2. ASSUME NEW e \in Engine, NEW u \in Unit, UnitStep(e, u)
      PROVE  TiesOK' /\ Scoped'
  <2>1. CASE Plan(e, u) \/ Dispatch(e, u)
    BY <1>1, <2>1, WaitingTied
  <2>2. CASE Load(e, u) \/ Translate(e, u) \/ Save(e, u) \/ EndFirstPass(e, u)
    BY <1>1, <2>2, LoadTied, TranslateTied, SaveTied, EndFirstPassTied
  <2>3. CASE Revise(e, u) \/ SaveRevised(e, u) \/ Write(e, u) \/ Complete(e, u)
    BY <1>1, <2>3, ReviseTied, SaveRevisedTied, WriteTied, CompleteTied
  <2>4. CASE Clean(e, u) \/ CleanReview(e, u) \/ RateLimited(e, u)
    BY <1>1, <2>4, CleanTied, CleanReviewTied, RateLimitedTied
  <2>5. CASE UnitFails(e, u)
    BY <1>1, <2>5, UnitFailsTied
  <2> QED BY <1>2, <2>1, <2>2, <2>3, <2>4, <2>5 DEF UnitStep
<1>3. ASSUME NEW e \in Engine, StartRun(e)
      PROVE  TiesOK' /\ Scoped'
  BY <1>1, <1>3, StartRunTied
<1>4. ASSUME NEW e \in Engine, Gather(e)
      PROVE  TiesOK' /\ Scoped'
  BY <1>4, GatherTied
<1>5. CASE \/ \E e \in Engine : Die(e)
           \/ LauncherDies
           \/ \E u \in Unit : Edit(u)
           \/ UNCHANGED vars
  BY <1>1, <1>5, QuietTied DEF AloneInv
<1> QED BY <1>1, <1>2, <1>3, <1>4, <1>5 DEF Next, AloneInv

-----------------------------------------------------------------------------
(* The theorems.                                                           *)

\* No engine runs at first.
LEMMA AloneInit == Init => AloneInv
<1> SUFFICES ASSUME Init PROVE AloneInv
  OBVIOUS
<1>1. IInv
  BY InitOK
<1>2. \A e \in Engine : ~run[e].active
  BY DEF Init, NoRun
<1>3. scope.failed = {}
  BY DEF Init
<1> QED BY <1>1, <1>2, <1>3 DEF AloneInv, TiesOK, Scoped

\* The invariant holds as long as no two engines work on the book.
THEOREM AloneInvHolds ==
  ASSUME NoneIsApart
  PROVE  Spec /\ []Alone => []AloneInv
<1>1. AloneInv /\ Alone /\ Alone' /\ [Next]_vars => AloneInv'
  BY AloneStep
<1> QED BY <1>1, AloneInit, PTL DEF Spec

\* What the engine reports as completed is what the chapter holds, also when it was
\* reused from an earlier run (_completion_is_valid, _translate_unit).
THEOREM ReportsAreTrue ==
  ASSUME NoneIsApart
  PROVE  Spec /\ []Alone => []ReportIsTrue
<1>1. AloneInv => ReportIsTrue
  <2> SUFFICES ASSUME AloneInv, NEW e \in Engine, AllOver(e), NEW u \in run[e].units,
                      work[e][u].report # None
               PROVE  work[e][u].report = out[u]
    BY DEF ReportIsTrue
  <2>1. u \in Unit
    BY DEF AloneInv, IInv, RunsOK, RunType
  <2>2. Tied(work[e][u], run[e].setting, partial[u], reflection[u], done[u], out[u])
    BY <2>1, TieAt DEF AllOver
  <2> QED BY <2>2 DEF Tied
<1> QED BY <1>1, AloneInvHolds, PTL

\* The progress shown for a unit is at most what a run would resume after a crash
\* (CheckpointStore.save before the count).
THEOREM ProgressIsKept ==
  ASSUME NoneIsApart
  PROVE  Spec /\ []Alone => []ProgressIsDurable
<1>1. AloneInv => ProgressIsDurable
  <2> SUFFICES ASSUME AloneInv, NEW e \in Engine, run[e].active, NEW u \in run[e].units
               PROVE  work[e][u].item <= Resumable(u, run[e].setting)
    BY DEF ProgressIsDurable
  <2>1. u \in Unit
    BY DEF AloneInv, IInv, RunsOK, RunType
  <2>2. Tied(work[e][u], run[e].setting, partial[u], reflection[u], done[u], out[u])
    BY <2>1, TieAt
  <2> QED BY <2>2, WorthIs DEF Tied
<1> QED BY <1>1, AloneInvHolds, PTL

\* When a translation is recorded as completed, every chapter that nobody edited is of
\* the setting it was approved for, although its last run may have been asked for a few
\* failed units only (failed_translation_unit_ids).
THEOREM BookIsWholeAtTheEnd ==
  ASSUME NoneIsApart
  PROVE  Spec /\ []Alone => BookIsTranslated
<1>1. AloneInv /\ Alone /\ [Next]_vars =>
        [\A e \in Engine :
           /\ AllOver(e) /\ Accepted(e) /\ Reported(e) = run[e].units /\ ~run'[e].active
           => \A u \in Unit : /\ out[u] # None
                              /\ out[u] # Edited => Draft(out[u][1]).setting = run[e].setting]_vars
  <2> SUFFICES ASSUME NoneIsApart, AloneInv, NEW e \in Engine, AllOver(e), Reported(e) = run[e].units,
                      NEW u \in Unit
               PROVE  /\ out[u] # None
                      /\ out[u] # Edited => Draft(out[u][1]).setting = run[e].setting
    OBVIOUS
  <2>1. run[e].active
    BY DEF AllOver
  <2>2. out[u] = Edited \/ out[u] \in Whole(run[e].setting)
    <3>1. CASE u \in run[e].units
      <4>1. work[e][u].report # None
        BY <3>1 DEF Reported
      <4>2. Tied(work[e][u], run[e].setting, partial[u], reflection[u], done[u], out[u])
        BY <2>1, TieAt
      <4> QED BY <4>1, <4>2 DEF Tied
    <3>2. CASE u \notin run[e].units
      <4>1. scope.failed # {} /\ u \notin scope.failed /\ run[e].setting = scope.setting
        BY <2>1, <3>2 DEF AloneInv, Scoped
      <4> QED BY <4>1 DEF AloneInv, Scoped, Made
    <3> QED BY <3>1, <3>2
  <2>3. run[e].setting \in Setting
    BY <2>1, TieAt
  <2>4. out[u] # None
    BY <2>2, <2>3 DEF NoneIsApart, WholeText
  <2>5. ASSUME out[u] \in Whole(run[e].setting)
        PROVE  Draft(out[u][1]).setting = run[e].setting
    <3>1. out[u] \in Seq(OkChunk(run[e].setting)) \cup Seq(RevisionOf(run[e].setting)) /\ Len(out[u]) = Length
      BY <2>5 DEF Whole
    <3>2. out[u][1] \in OkChunk(run[e].setting) \cup RevisionOf(run[e].setting)
      BY <3>1, EngineAssumption, ElementOfSeq
    <3>3. ASSUME NEW c \in OkChunk(run[e].setting) \cup RevisionOf(run[e].setting)
          PROVE  Draft(c).setting = run[e].setting
      BY <3>3, ChunkKinds DEF Draft, OkChunk, RevisionOf
    <3> QED BY <3>2, <3>3
  <2> QED BY <2>2, <2>4, <2>5
<1> QED BY <1>1, AloneInvHolds, PTL DEF Spec, BookIsTranslated

\* A sequence begins with another.
GrowsTo(c, d) ==
  Len(c) <= Len(d) /\ SubSeq(d, 1, Len(c)) = c

\* A sequence begins with itself, and so does any that it is appended to.
LEMMA SameText ==
  ASSUME NEW S, NEW t \in Seq(S)
  PROVE  GrowsTo(t, t) /\ \A x \in S : GrowsTo(t, Append(t, x))
<1>1. Len(t) \in Nat /\ \A i \in 1 .. Len(t) : t[i] \in S
  BY ElementOfSeq
<1>2. SubSeq(t, 1, Len(t)) = t
  OBVIOUS
<1>3. ASSUME NEW x \in S
      PROVE  GrowsTo(t, Append(t, x))
  <2>1. Append(t, x) \in Seq(S) /\ Len(Append(t, x)) = Len(t) + 1
    OBVIOUS
  <2>2. SubSeq(Append(t, x), 1, Len(t)) = t
    OBVIOUS
  <2> QED BY <1>1, <2>1, <2>2 DEF GrowsTo
<1> QED BY <1>1, <1>2, <1>3 DEF GrowsTo

\* No chunk that was paid for is lost: a checkpoint only grows, until its chapter is
\* completed or a run with another setting comes (CheckpointStore.load and save).
THEOREM PaidWorkStays ==
  ASSUME NoneIsApart
  PROVE  Spec /\ []Alone => PaidWorkKept
<1> DEFINE Stands(u) ==
      LET c == partial[u]  d == partial'[u] IN
      c # None =>
        \/ d # None /\ Len(c.chunks) <= Len(d.chunks)
             /\ SubSeq(d.chunks, 1, Len(c.chunks)) = c.chunks
        \/ done[u] # None /\ done[u].setting = c.setting
        \/ \E e \in Engine : run[e].active /\ run[e].setting # c.setting
<1>1. ASSUME NoneIsApart, AloneInv, [Next]_vars, NEW u \in Unit, partial[u] # None
      PROVE  Stands(u)
  <2>0. partial = [v \in Unit |-> partial[v]]
    BY <1>1 DEF AloneInv, IInv, FilesOK, PartialOK
  <2>1. PICK s \in Setting : partial[u] \in DraftsOf(s)
    BY <1>1 DEF AloneInv, IInv, FilesOK, PartialOK
  <2>2. /\ partial[u].setting = s /\ partial[u].chunks \in Seq(OkChunk(s))
        /\ Len(partial[u].chunks) <= Length
    BY <2>1 DEF DraftsOf, UpTo
  <2>3. ASSUME partial'[u] = partial[u] PROVE Stands(u)
    BY <1>1, <2>2, <2>3, SameText DEF GrowsTo
  <2>4. ASSUME NEW e \in Engine, run[e].active, run[e].setting # s PROVE Stands(u)
    BY <2>2, <2>4
  <2>5. LoadCheckpoint(partial[u], s) = partial[u]
    BY <1>1, <2>2 DEF LoadCheckpoint
  <2>6. ASSUME NEW e \in Engine, NEW v \in Unit, UnitStep(e, v), run[e].active
        PROVE  Stands(u)
    <3>1. CASE run[e].setting # s
      BY <2>4, <2>6, <3>1
    <3>6. UNCHANGED partial \/ Plan(e, v) \/ Load(e, v) \/ Save(e, v) \/ Clean(e, v)
      BY <2>6 DEF UnitStep, Dispatch, Translate, EndFirstPass, Revise, SaveRevised, Write,
         Complete, CleanReview, UnitFails, RateLimited, files
    <3>2. CASE v # u \/ UNCHANGED partial
      <4>1. partial'[u] = partial[u]
        <5>1. CASE UNCHANGED partial
          BY <5>1
        <5>2. CASE v # u /\ Plan(e, v)
          BY <2>0, <5>2 DEF Plan
        <5>3. CASE v # u /\ Load(e, v)
          BY <2>0, <5>3 DEF Load
        <5>4. CASE v # u /\ (Save(e, v) \/ Clean(e, v))
          BY <2>0, <5>4 DEF Save, Clean
        <5> QED BY <3>2, <3>6, <5>1, <5>2, <5>3, <5>4
      <4> QED BY <2>3, <4>1
    <3>3. CASE run[e].setting = s /\ v = u /\ (Plan(e, v) \/ Load(e, v))
      <4>1. partial'[u] = partial[u]
        <5>1. CASE Plan(e, v)
          BY <2>0, <2>5, <3>3, <5>1 DEF Plan
        <5>2. CASE Load(e, v)
          BY <2>0, <2>5, <3>3, <5>2 DEF Load
        <5> QED BY <3>3, <5>1, <5>2
      <4> QED BY <2>3, <4>1
    <3>4. CASE run[e].setting = s /\ v = u /\ Save(e, v)
      <4>1. work[e][u].at = "save" /\ partial'[u] = [setting |-> s, chunks |-> work[e][u].drafts]
        BY <2>0, <3>4 DEF Save, At
      <4>2. Tied(work[e][u], s, partial[u], reflection[u], done[u], out[u])
            /\ InHand(work[e][u], s)
        BY <1>1, <2>6, <3>4, TieAt
      <4>3. PICK x : work[e][u].drafts = Append(Kept(partial[u], s), x)
        BY <4>1, <4>2 DEF Tied
      <4>4. Kept(partial[u], s) = partial[u].chunks
        BY <1>1, <2>5 DEF Kept, ChunksOf
      <4>5. work[e][u].drafts \in Seq(OkChunk(s)) /\ work[e][u].drafts \in UpTo(OkChunk(s))
        BY <4>1, <4>2 DEF InHand, UpTo
      <4>6. x \in OkChunk(s)
        <5> DEFINE t == partial[u].chunks
        <5>1. Append(t, x)[Len(t) + 1] = x /\ Len(t) + 1 \in 1 .. Len(Append(t, x))
          BY <2>2
        <5> QED BY <4>3, <4>4, <4>5, <5>1, ElementOfSeq
      <4>7. partial'[u].chunks = Append(partial[u].chunks, x)
        BY <4>1, <4>3, <4>4
      <4>8. partial'[u] # None
        BY <4>1, <4>5 DEF NoneIsApart, DraftsOf
      <4>9. GrowsTo(partial[u].chunks, partial'[u].chunks)
        BY <2>2, <4>6, <4>7, SameText
      <4> QED BY <4>8, <4>9 DEF GrowsTo
    <3>5. CASE run[e].setting = s /\ v = u /\ Clean(e, v)
      <4>1. work[e][u].at = "clean"
        BY <3>5 DEF Clean, At
      <4>2. Tied(work[e][u], s, partial[u], reflection[u], done[u], out[u])
        BY <1>1, <2>6, <3>5, TieAt
      <4> QED BY <2>2, <4>1, <4>2 DEF Tied, Valid
    <3> QED BY <3>1, <3>2, <3>3, <3>4, <3>5, <3>6
  <2>7. ASSUME NEW e \in Engine, NEW v \in Unit, UnitStep(e, v) PROVE run[e].active
    BY <2>7 DEF UnitStep, Plan, Dispatch, Load, Translate, Save, EndFirstPass, Revise, SaveRevised,
       Write, Complete, Clean, CleanReview, UnitFails, RateLimited, At
  <2>8. CASE UNCHANGED partial
    BY <2>3, <2>8
  <2>9. UNCHANGED partial \/ \E e \in Engine, v \in Unit : UnitStep(e, v)
    BY <1>1 DEF Next, vars, files, StartRun, Gather, Die, LauncherDies, Edit
  <2> HIDE DEF Stands
  <2> QED BY <2>6, <2>7, <2>8, <2>9
<1>2. AloneInv /\ [Next]_vars => [\A u \in Unit : Stands(u)]_vars
  <2> HIDE DEF Stands
  <2> SUFFICES ASSUME AloneInv, [Next]_vars, NEW u \in Unit PROVE Stands(u)
    OBVIOUS
  <2>1. CASE partial[u] # None
    BY <1>1, <2>1
  <2>2. CASE partial[u] = None
    BY <2>2 DEF Stands
  <2> QED BY <2>1, <2>2
<1> QED BY <1>2, AloneInvHolds, PTL DEF Spec, PaidWorkKept

\* Engines that never lose their launcher work one at a time, and so does a single
\* engine: the launcher waits for the one it started (StartRun).
THEOREM OneEngineAtATime ==
  ASSUME ~MayDie \/ \A e, f \in Engine : e = f
  PROVE  Spec => []Alone
<1> DEFINE Watched == \A e \in Engine : run[e].active => run[e].watched
           J == IInv /\ Alone /\ (~MayDie => Watched)
<1>1. Init => J
  <2>1. Init => \A e \in Engine : ~run[e].active
    BY DEF Init, NoRun
  <2> QED BY <2>1, InitOK DEF Alone
<1>2. J /\ [Next]_vars => J'
  <2> SUFFICES ASSUME J, [Next]_vars PROVE J'
    OBVIOUS
  <2>0. IInv'
    BY StepOK
  <2>1. run \in [Engine -> RunType]
    BY DEF IInv, RunsOK
  <2>2. ASSUME \A f \in Engine : run'[f].active => run[f].active /\ run'[f].watched = run[f].watched
        PROVE  J'
    BY <2>0, <2>2 DEF Alone
  <2>3. ASSUME NEW e \in Engine, StartRun(e) PROVE J'
    <3>1. \A f \in Engine \ {e} : run'[f] = run[f]
      BY <2>1, <2>3 DEF StartRun
    <3>2. run'[e].watched
      BY <2>1, <2>3 DEF StartRun
    <3>3. \A f \in Engine : ~run[f].watched
      BY <2>3 DEF StartRun
    <3>4. ~MayDie => \A f \in Engine \ {e} : ~run'[f].active
      BY <3>1, <3>3
    <3> QED BY <2>0, <3>2, <3>4 DEF Alone
  <2>4. ASSUME NEW e \in Engine, Gather(e) \/ Die(e) PROVE J'
    <3>1. run' = [run EXCEPT ![e] = NoRun]
      BY <2>4 DEF Gather, Die, End
    <3>2. run'[e] = NoRun /\ \A f \in Engine \ {e} : run'[f] = run[f]
      BY <2>1, <3>1
    <3> QED BY <2>2, <3>2 DEF NoRun
  <2>5. ASSUME NEW e \in Engine, NEW u \in Unit, UnitStep(e, u) PROVE J'
    <3>1. run' = run \/ run' = [run EXCEPT ![e].stopped = TRUE]
      BY <2>5 DEF UnitStep, Plan, Dispatch, Load, Translate, Save, EndFirstPass, Revise,
         SaveRevised, Write, Complete, Clean, CleanReview, UnitFails, RateLimited
    <3>2. \A f \in Engine : run'[f].active = run[f].active /\ run'[f].watched = run[f].watched
      BY <2>1, <3>1 DEF RunType
    <3> QED BY <2>2, <3>2
  <2>6. CASE LauncherDies
    <3>1. MayDie /\ \A e, f \in Engine : e = f
      BY <2>6 DEF LauncherDies
    <3> QED BY <2>0, <3>1 DEF Alone
  <2>7. CASE (\E u \in Unit : Edit(u)) \/ UNCHANGED vars
    <3>1. run' = run
      BY <2>7 DEF Edit, vars
    <3> QED BY <2>2, <3>1
  <2> QED BY <2>3, <2>4, <2>5, <2>6, <2>7 DEF Next
<1>3. J => Alone
  OBVIOUS
<1> QED BY <1>1, <1>2, <1>3, PTL DEF Spec

-----------------------------------------------------------------------------
(***************************************************************************)
(* The calls of all threads to a provider, for any number of keys and      *)
(* threads, any budgets and any throttles.  Every request of a call that   *)
(* is not answered ends in a failure, of the key or of the network, and    *)
(* each kind of failure has a budget; a request is alive when its call     *)
(* waits for it, or when its call has given it up.                         *)
(***************************************************************************)

Places == {"idle", "acquire", "send", "sent", "sleep"}

CallType ==
  [at: Places, key: Key, rate: Nat, transient: Nat, wait: Nat, live: {0, 1}, sent: Nat]

\* What a call has sent is what has failed and what it waits for, and it may
\* still fail.
Paid(r) ==
  /\ r.rate < RateBudget /\ r.transient < MaxAttempts
  /\ r.sent <= r.rate + r.transient + (IF r.at = "sent" THEN 1 ELSE 0)
  /\ r.at = "sent" => r.live = 1

PoolOK ==
  /\ cursor \in Key /\ parked \in [Key -> Nat]
  /\ call \in [Caller -> CallType]
  /\ \A c \in Caller : Paid(call[c])

-----------------------------------------------------------------------------

LEMMA Budgets ==
  /\ Keys \in Nat \ {0} /\ MaxAttempts \in Nat \ {0} /\ RetryAfter \subseteq Nat
  /\ RateBudget \in Nat \ {0} /\ 0 \in Key
BY PoolAssumption DEF RateBudget, Key

LEMMA NoCallOK == NoCall \in CallType /\ Paid(NoCall)
BY Budgets DEF NoCall, CallType, Places, Paid

\* A call may go to any record that is over or within its budgets.
LEMMA CallGoesOK ==
  ASSUME PoolOK, NEW c \in Caller, NEW to \in CallType, to.at = "idle" \/ Paid(to), Goes(c, to)
  PROVE  call' \in [Caller -> CallType] /\ \A d \in Caller : Paid(call'[d])
<1> DEFINE next == IF to.at = "idle" THEN NoCall
                   ELSE [to EXCEPT !.key = IF to.at \in {"send", "sent"} THEN @ ELSE 0]
<1>1. next \in CallType /\ Paid(next)
  BY NoCallOK, Budgets DEF CallType, Paid
<1>2. call' = [call EXCEPT ![c] = next]
  BY DEF Goes
<1> HIDE DEF next
<1> QED BY <1>1, <1>2 DEF PoolOK

LEMMA NotSending ==
  ASSUME PoolOK, NEW c \in Caller, NEW to \in CallType, to.at \in {"idle", "sleep"}, Goes(c, to)
  PROVE  call'[c].at # "send"
<1>1. CASE to.at = "idle"
  BY <1>1 DEF Goes, PoolOK, NoCall
<1>2. CASE to.at = "sleep"
  <2>1. call'[c] = [to EXCEPT !.key = 0]
    BY <1>2 DEF Goes, PoolOK
  <2> QED BY <1>2, <2>1 DEF CallType
<1> QED BY <1>1, <1>2

\* A failure takes from its budget what the request it ends had cost.
LEMMA RateFailureOK ==
  ASSUME NEW r \in CallType, NEW then \in Places \ {"sent"},
         r.rate < RateBudget, r.transient < MaxAttempts, r.sent <= r.rate + r.transient + 1
  PROVE  /\ RateFailure(r, then) \in CallType
         /\ RateFailure(r, then).at = "idle" \/ Paid(RateFailure(r, then))
<1> DEFINE a == IF r.rate + 1 >= RateBudget THEN "idle" ELSE then
<1>1. RateFailure(r, then) = [r EXCEPT !.rate = r.rate + 1, !.at = a]
  BY DEF RateFailure
<1>2. a \in Places \ {"sent"} /\ (a # "idle" => r.rate + 1 < RateBudget)
  BY Budgets DEF CallType, Places
<1> HIDE DEF a
<1> DEFINE w == RateFailure(r, then)
           n == r.rate + 1
<1>3. w \in CallType /\ w.at = a /\ w.sent = r.sent /\ w.rate = n /\ w.transient = r.transient
  <2>1. w = [r EXCEPT !.rate = n, !.at = a] /\ n \in Nat
    BY <1>1 DEF CallType
  <2> HIDE DEF w, n
  <2> QED BY <1>2, <2>1 DEF CallType
<1>4. r.rate \in Nat /\ r.transient \in Nat /\ r.sent \in Nat /\ r.rate + r.transient + 1 \in Nat
  BY DEF CallType
<1> HIDE DEF w
<1>5. a # "idle" => Paid(w)
  BY <1>2, <1>3, <1>4, Budgets DEF Paid
<1> QED BY <1>3, <1>5 DEF w

LEMMA TransientFailureOK ==
  ASSUME NEW r \in CallType,
         r.rate < RateBudget, r.transient < MaxAttempts, r.sent <= r.rate + r.transient + 1
  PROVE  /\ TransientFailure(r) \in CallType
         /\ TransientFailure(r).at = "idle" \/ Paid(TransientFailure(r))
<1> DEFINE a == IF r.transient + 1 >= MaxAttempts THEN "idle" ELSE "sleep"
<1>1. TransientFailure(r) = [r EXCEPT !.transient = r.transient + 1, !.wait = r.transient + 1, !.at = a]
  BY DEF TransientFailure
<1>2. a \in Places \ {"sent"} /\ (a # "idle" => r.transient + 1 < MaxAttempts)
  BY Budgets DEF CallType, Places
<1> HIDE DEF a
<1> DEFINE w == TransientFailure(r)
           n == r.transient + 1
<1>3. w \in CallType /\ w.at = a /\ w.sent = r.sent /\ w.transient = n /\ w.rate = r.rate
  <2>1. w = [r EXCEPT !.transient = n, !.wait = n, !.at = a] /\ n \in Nat
    BY <1>1 DEF CallType
  <2> HIDE DEF w, n
  <2> QED BY <1>2, <2>1 DEF CallType
<1>4. r.rate \in Nat /\ r.transient \in Nat /\ r.sent \in Nat /\ r.rate + r.transient + 1 \in Nat
  BY DEF CallType
<1> HIDE DEF w
<1>5. a # "idle" => Paid(w)
  BY <1>2, <1>3, <1>4, Budgets DEF Paid
<1> QED BY <1>3, <1>5 DEF w

-----------------------------------------------------------------------------
(* The steps.                                                              *)

\* The record a step changes, spelled out.
LEMMA CallIs ==
  ASSUME PoolOK, NEW c \in Caller
  PROVE  call[c] \in CallType /\ Paid(call[c])
BY DEF PoolOK

LEMMA CallStepOK ==
  ASSUME PoolOK, NEW c \in Caller, CallStep(c) \/ Call(c) \/ LateEnds(c)
  PROVE  call' \in [Caller -> CallType] /\ \A d \in Caller : Paid(call'[d])
<1>0. call[c] \in CallType /\ Paid(call[c])
  BY CallIs
<1>1. CASE Call(c)
  <2>1. [NoCall EXCEPT !.at = "acquire"] \in CallType /\ Paid([NoCall EXCEPT !.at = "acquire"])
    BY Budgets DEF NoCall, CallType, Places, Paid
  <2> QED BY <1>1, <2>1, CallGoesOK DEF Call
<1>2. CASE Acquire(c)
  <2>1. ASSUME NEW n \in Free, Goes(c, [call[c] EXCEPT !.at = "send", !.key = (cursor + n) % Keys])
        PROVE  call' \in [Caller -> CallType] /\ \A d \in Caller : Paid(call'[d])
    <3> DEFINE k == (cursor + n) % Keys
               to == [call[c] EXCEPT !.at = "send", !.key = k]
    <3>1. k \in Key
      BY Budgets DEF PoolOK, Free, Key
    <3>2. to \in CallType /\ Paid(to)
      <4> HIDE DEF k
      <4> QED BY <1>0, <3>1, <1>2 DEF Acquire, CallType, Places, Paid
    <3> HIDE DEF to
    <3>3. Goes(c, to)
      BY <2>1 DEF to
    <3> QED BY <3>2, <3>3, CallGoesOK
  <2>2. ASSUME NEW wait \in {parked[k] : k \in Key},
               Goes(c, IF wait > MaxWait THEN [RateFailure(call[c], "sleep") EXCEPT !.at = "idle"]
                       ELSE [RateFailure(call[c], "sleep") EXCEPT !.wait = wait])
        PROVE  call' \in [Caller -> CallType] /\ \A d \in Caller : Paid(call'[d])
    <3> DEFINE r == RateFailure(call[c], "sleep")
    <3>1. r \in CallType /\ (r.at = "idle" \/ Paid(r))
      <4>1. call[c].sent <= call[c].rate + call[c].transient + 1
        BY <1>0 DEF Paid, CallType
      <4>2. "sleep" \in Places \ {"sent"}
        BY DEF Places
      <4> QED BY <1>0, <4>1, <4>2, RateFailureOK DEF Paid
    <3>2. wait \in Nat
      BY DEF PoolOK
    <3> HIDE DEF r
    <3>3. /\ [r EXCEPT !.at = "idle"] \in CallType /\ [r EXCEPT !.at = "idle"].at = "idle"
          /\ [r EXCEPT !.wait = wait] \in CallType
          /\ [r EXCEPT !.wait = wait].at = "idle" \/ Paid([r EXCEPT !.wait = wait])
      BY <3>1, <3>2 DEF CallType, Places, Paid
    <3>4. Goes(c, [r EXCEPT !.at = "idle"]) \/ Goes(c, [r EXCEPT !.wait = wait])
      BY <2>2 DEF r
    <3> QED BY <3>3, <3>4, CallGoesOK
  <2> QED BY <1>2, <2>1, <2>2 DEF Acquire
<1>3. CASE Send(c)
  <2>1. CASE call[c].live > 0
    BY <1>0, <1>3, <2>1, TransientFailureOK, CallGoesOK DEF Send, Paid, CallType
  <2>2. CASE ~(call[c].live > 0)
    <3> DEFINE to == [call[c] EXCEPT !.at = "sent", !.live = 1, !.sent = call[c].sent + 1]
    <3>1. to \in CallType /\ Paid(to)
      <4> DEFINE n == call[c].sent + 1
                 r == call[c]
      <4>1. n \in Nat /\ n <= r.rate + r.transient + 1 /\ r.rate < RateBudget /\ r.transient < MaxAttempts
            /\ r \in CallType
        BY <1>0, <1>3 DEF Send, CallType, Paid
      <4>2. to = [r EXCEPT !.at = "sent", !.live = 1, !.sent = n]
        OBVIOUS
      <4> HIDE DEF n, r, to
      <4> QED BY <4>1, <4>2 DEF CallType, Places, Paid
    <3>2. Goes(c, to)
      BY <1>3, <2>2 DEF Send
    <3> HIDE DEF to
    <3> QED BY <3>1, <3>2, CallGoesOK
  <2> QED BY <2>1, <2>2
<1>4. CASE Answered(c)
  BY <1>4, NoCallOK, CallGoesOK DEF Answered
<1>5. CASE Broken(c) \/ Throttled(c)
  <2> DEFINE r == [call[c] EXCEPT !.live = call[c].live - 1]
  <2>1. r \in CallType /\ r.sent <= r.rate + r.transient + 1
        /\ r.rate < RateBudget /\ r.transient < MaxAttempts
    BY <1>0, <1>5 DEF Broken, Throttled, CallType, Paid
  <2>2. Goes(c, TransientFailure(r)) \/ Goes(c, RateFailure(r, "acquire"))
    BY <1>5 DEF Broken, Throttled
  <2> HIDE DEF r
  <2>3. "acquire" \in Places \ {"sent"}
    BY DEF Places
  <2>4. /\ TransientFailure(r) \in CallType
        /\ TransientFailure(r).at = "idle" \/ Paid(TransientFailure(r))
    BY <2>1, TransientFailureOK
  <2>5. /\ RateFailure(r, "acquire") \in CallType
        /\ RateFailure(r, "acquire").at = "idle" \/ Paid(RateFailure(r, "acquire"))
    BY <2>1, <2>3, RateFailureOK
  <2> QED BY <2>2, <2>4, <2>5, CallGoesOK
<1>6. CASE TimesOut(c)
  <2>1. call[c].sent <= call[c].rate + call[c].transient + 1
    BY <1>0, <1>6 DEF Paid, TimesOut
  <2> QED BY <1>0, <1>6, <2>1, TransientFailureOK, CallGoesOK DEF TimesOut, Paid
<1>7. CASE Wakes(c)
  <2> DEFINE to == [call[c] EXCEPT !.at = "acquire"]
  <2>1. to \in CallType /\ Paid(to)
    BY <1>0, <1>7 DEF Wakes, CallType, Places, Paid
  <2>2. Goes(c, to)
    BY <1>7 DEF Wakes
  <2> HIDE DEF to
  <2> QED BY <2>1, <2>2, CallGoesOK
<1>8. CASE LateEnds(c)
  <2> DEFINE to == [call[c] EXCEPT !.live = call[c].live - 1]
  <2>1. to \in CallType /\ Paid(to)
    BY <1>0, <1>8 DEF LateEnds, CallType, Places, Paid
  <2>2. Goes(c, to)
    BY <1>8 DEF LateEnds
  <2> HIDE DEF to
  <2> QED BY <2>1, <2>2, CallGoesOK
<1> QED BY <1>1, <1>2, <1>3, <1>4, <1>5, <1>6, <1>7, <1>8 DEF CallStep

\* A throttle only grows, but for the time that passes.
LEMMA ParkedOK ==
  ASSUME PoolOK, PoolNext
  PROVE  /\ cursor' \in Key /\ parked' \in [Key -> Nat]
         /\ \A k \in Key : parked'[k] >= Less(parked[k])
<1>1. ASSUME NEW c \in Caller, Call(c) \/ LateEnds(c) \/ Send(c) \/ Answered(c) \/ Broken(c)
                             \/ TimesOut(c) \/ Wakes(c)
      PROVE  UNCHANGED <<cursor, parked>>
  BY <1>1 DEF Call, LateEnds, Send, Answered, Broken, TimesOut, Wakes
<1>2. ASSUME NEW c \in Caller, Acquire(c)
      PROVE  cursor' \in Key /\ UNCHANGED parked
  <2>1. \A n \in Free : (((cursor + n) % Keys) + 1) % Keys \in Key
    BY Budgets DEF PoolOK, Free, Key
  <2> QED BY <1>2, <2>1 DEF Acquire, PoolOK
<1>3. ASSUME NEW c \in Caller, Throttled(c)
      PROVE  /\ UNCHANGED cursor /\ parked' \in [Key -> Nat]
             /\ \A k \in Key : parked'[k] >= parked[k]
  <2>1. PICK d \in RetryAfter : parked' = Park(call[c].key, d)
    BY <1>3 DEF Throttled
  <2>2. d \in Nat
    BY Budgets
  <2> DEFINE j == call[c].key
             n == IF parked[j] < d THEN d ELSE parked[j]
  <2>3. j \in Key /\ n \in Nat /\ n >= parked[j]
    BY <2>2 DEF PoolOK, CallType
  <2>4. parked' = [parked EXCEPT ![j] = n]
    BY <2>1 DEF Park
  <2> HIDE DEF j, n
  <2> QED BY <1>3, <2>3, <2>4 DEF Throttled, PoolOK
<1>4. CASE Tick
  <2>1. \A m \in Nat : Less(m) \in Nat
    BY DEF Less
  <2>2. parked' = [k \in Key |-> Less(parked[k])] /\ cursor' = cursor
    BY <1>4 DEF Tick
  <2>3. parked \in [Key -> Nat] /\ cursor \in Key
    BY DEF PoolOK
  <2>4. \A k \in Key : parked'[k] = Less(parked[k]) /\ Less(parked[k]) \in Nat
    BY <2>1, <2>2, <2>3
  <2>5. parked' \in [Key -> Nat]
    BY <2>2, <2>4
  <2>6. \A k \in Key : parked'[k] >= Less(parked[k])
    BY <2>4
  <2> QED BY <2>2, <2>3, <2>5, <2>6
<1>5. \A n, m \in Nat : n >= m => n >= Less(m)
  BY DEF Less
<1>7. ASSUME NEW c \in Caller, Call(c) \/ CallStep(c) \/ LateEnds(c)
      PROVE  /\ cursor' \in Key /\ parked' \in [Key -> Nat]
             /\ \A k \in Key : parked'[k] >= parked[k]
  BY <1>1, <1>2, <1>3, <1>7 DEF CallStep, PoolOK
<1>8. ASSUME NEW c \in Caller, Call(c) \/ CallStep(c) \/ LateEnds(c), NEW k \in Key
      PROVE  parked'[k] >= Less(parked[k])
  <2>1. parked[k] \in Nat /\ parked'[k] \in Nat /\ parked'[k] >= parked[k]
    BY <1>7, <1>8 DEF PoolOK
  <2> QED BY <1>5, <2>1
<1> QED BY <1>4, <1>7, <1>8 DEF PoolNext

LEMMA TickOK ==
  ASSUME PoolOK, Tick
  PROVE  call' \in [Caller -> CallType] /\ \A d \in Caller : Paid(call'[d])
<1>1. \A d \in Caller : call'[d] = [call[d] EXCEPT !.wait = Less(@)]
  BY DEF Tick
<1>2. ASSUME NEW r \in CallType, Paid(r)
      PROVE  [r EXCEPT !.wait = Less(@)] \in CallType /\ Paid([r EXCEPT !.wait = Less(@)])
  <2>1. Less(r.wait) \in Nat
    BY DEF CallType, Less
  <2> QED BY <1>2, <2>1 DEF CallType, Paid
<1>3. call' = [d \in Caller |-> [call[d] EXCEPT !.wait = Less(@)]]
  BY DEF Tick
<1> QED BY <1>1, <1>2, <1>3 DEF PoolOK

LEMMA PoolInvariant == PoolSpec => []PoolOK
<1>1. PoolInit => PoolOK
  BY NoCallOK, Budgets DEF PoolInit, PoolOK
<1>2. PoolOK /\ [PoolNext]_poolVars => PoolOK'
  <2> SUFFICES ASSUME PoolOK, [PoolNext]_poolVars PROVE PoolOK'
    OBVIOUS
  <2>1. CASE PoolNext
    BY <2>1, CallStepOK, TickOK, ParkedOK DEF PoolNext, PoolOK
  <2>2. CASE UNCHANGED poolVars
    BY <2>2 DEF poolVars, PoolOK
  <2> QED BY <2>1, <2>2
<1> QED BY <1>1, <1>2, PTL DEF PoolSpec

\* Whatever the answers and however many threads share the keys, a call never
\* has two requests alive and never sends more than its two budgets allow.
THEOREM CallsAreBounded == PoolSpec => []RequestsAreBounded
<1>1. PoolOK => RequestsAreBounded
  <2> SUFFICES ASSUME PoolOK, NEW c \in Caller
               PROVE  call[c].live <= 1 /\ call[c].sent <= RateBudget + MaxAttempts - 1
    BY DEF RequestsAreBounded
  <2> QED BY Budgets DEF PoolOK, CallType, Paid
<1> QED BY <1>1, PoolInvariant, PTL

\* A key that has to rest is not sent anything new, and no late answer shortens
\* its throttle.
THEOREM KeysRest == PoolSpec => ParkedKeysRest
<1>1. PoolOK /\ [PoolNext]_poolVars =>
        [\A k \in Key :
           /\ parked'[k] >= Less(parked[k])
           /\ parked[k] > 0 =>
                \A c \in Caller : Acquire(c) => call'[c].key # k \/ call'[c].at # "send"]_poolVars
  <2> SUFFICES ASSUME PoolOK, PoolNext, NEW k \in Key
               PROVE  /\ parked'[k] >= Less(parked[k])
                      /\ parked[k] > 0 =>
                           \A c \in Caller : Acquire(c) => call'[c].key # k \/ call'[c].at # "send"
    OBVIOUS
  <2>1. ASSUME parked[k] > 0, NEW c \in Caller, Acquire(c), call'[c].key = k, call'[c].at = "send"
        PROVE  FALSE
    <3>1. call[c] \in CallType /\ Paid(call[c])
      BY CallIs
    <3>2. ASSUME NEW n \in Free, Goes(c, [call[c] EXCEPT !.at = "send", !.key = (cursor + n) % Keys])
          PROVE  FALSE
      <4>1. call'[c].key = (cursor + n) % Keys
        BY <3>1, <3>2 DEF Goes, PoolOK, CallType
      <4> QED BY <2>1, <4>1 DEF Free
    <3>3. ASSUME NEW wait \in {parked[j] : j \in Key},
                 Goes(c, IF wait > MaxWait THEN [RateFailure(call[c], "sleep") EXCEPT !.at = "idle"]
                         ELSE [RateFailure(call[c], "sleep") EXCEPT !.wait = wait])
          PROVE  FALSE
      <4> DEFINE r == RateFailure(call[c], "sleep")
      <4>1. r \in CallType /\ r.at \in {"idle", "sleep"}
        <5>1. RateFailure(call[c], "sleep").at \in {"idle", "sleep"}
          BY <3>1 DEF RateFailure, CallType
        <5>2. call[c].sent <= call[c].rate + call[c].transient + 1 /\ "sleep" \in Places \ {"sent"}
          BY <3>1 DEF Paid, CallType, Places
        <5> QED BY <3>1, <5>1, <5>2, RateFailureOK DEF Paid
      <4> HIDE DEF r
      <4>2. Goes(c, [r EXCEPT !.at = "idle"]) \/ Goes(c, [r EXCEPT !.wait = wait])
        BY <3>3 DEF r
      <4>4. /\ [r EXCEPT !.at = "idle"] \in CallType /\ [r EXCEPT !.at = "idle"].at = "idle"
            /\ [r EXCEPT !.wait = wait] \in CallType /\ [r EXCEPT !.wait = wait].at = r.at
        <5>1. wait \in Nat
          BY DEF PoolOK
        <5> QED BY <4>1, <5>1 DEF CallType, Places
      <4>5. call'[c].at # "send"
        BY <4>1, <4>2, <4>4, NotSending
      <4> QED BY <2>1, <4>5
    <3> QED BY <2>1, <3>2, <3>3 DEF Acquire
  <2> QED BY <2>1, ParkedOK
<1> QED BY <1>1, PoolInvariant, PTL DEF PoolSpec, ParkedKeysRest
=============================================================================
