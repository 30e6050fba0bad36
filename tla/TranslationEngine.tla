------------------------- MODULE TranslationEngine -------------------------
(***************************************************************************)
(* The runs of the translation engine over one book: run_manifest and      *)
(* _translate_unit (engine.py), with the files that outlive a run          *)
(* (checkpoint.py) and the launcher's run_translate_stage around it.       *)
(*                                                                         *)
(* A run plans its units, hands them to a thread pool in their order and   *)
(* stops handing out when a provider limits its rate.  A unit is           *)
(* translated chunk by chunk, each chunk saved in a checkpoint, then, with *)
(* some prompt packs, revised chunk by chunk with a checkpoint of its own; *)
(* the chapter is written, its completion recorded, and the checkpoints    *)
(* removed.  The engine may be killed between any two of these steps, and  *)
(* a launcher that dies leaves its engine running.  Reading a file and     *)
(* deleting it when its key does not match is one step.                    *)
(*                                                                         *)
(* A chunk of text is told apart by the setting and the run that made it   *)
(* and by whether it is a translation at all (ok) or the source text the   *)
(* engine falls back to.  A setting stands for everything an idempotency   *)
(* key names: task, provider, configuration, policy, prompt pack.  The     *)
(* draft and the reflection that are kept beside a revised chapter change  *)
(* and are checked with it, so the chapter stands for all three.           *)
(***************************************************************************)
EXTENDS Naturals, Sequences, FiniteSets

CONSTANTS
  Engine,      \* engine processes
  Units,       \* the number of translation units of the book
  Length,      \* the number of chunks of a unit
  Setting,     \* the settings a run may have
  Reflects,    \* those whose prompt pack asks for a second pass
  Concurrency, \* the units a provider lets the engine translate at once
  RunBound,    \* runs started
  Faults,      \* what may go wrong: "source", "ratelimit", "error", "io"
  MayDie,      \* TRUE: an engine or its launcher may die
  MayEdit,     \* TRUE: a chapter may be edited while no engine runs
  None

ASSUME EngineAssumption ==
  /\ {Units, Length, Concurrency} \subseteq Nat \ {0} /\ RunBound \in Nat
  /\ Reflects \subseteq Setting
  /\ Faults \subseteq {"source", "ratelimit", "error", "io"}
  /\ {MayDie, MayEdit} \subseteq BOOLEAN

Unit == 1 .. Units

VARIABLES
  partial,    \* .partial/<unit>.json: the checkpoint of the first pass
  reflection, \* .partial/reflection/<unit>.json: the one of the second pass
  done,       \* .completed/<unit>.json
  out,        \* chapters/translated/<unit>.md
  run,        \* what each engine runs
  work,       \* where its units are
  scope,      \* what the launcher asks for next: a setting and its failed units
  runs        \* the runs started so far

files == <<partial, reflection, done, out>>
vars == <<files, run, work, scope, runs>>

Fresh == [at |-> "plan", drafts |-> <<>>, revised |-> <<>>, open |-> TRUE,
          item |-> 0, report |-> None]

NoRun == [active |-> FALSE, setting |-> None, number |-> 0, units |-> {},
          stopped |-> FALSE, watched |-> FALSE]

\* An edited chapter: no text of any run.
Edited == <<>>

Init ==
  /\ partial = [u \in Unit |-> None] /\ reflection = [u \in Unit |-> None]
  /\ done = [u \in Unit |-> None] /\ out = [u \in Unit |-> None]
  /\ run = [e \in Engine |-> NoRun]
  /\ work = [e \in Engine |-> [u \in Unit |-> Fresh]]
  /\ scope = [setting |-> None, failed |-> {}]
  /\ runs = 0

-----------------------------------------------------------------------------
(* What a run finds in the files.                                          *)

\* Mutant: a checkpoint of any setting is resumed.
LoadAnySetting(c, s) == c

\* Mutant: a checkpoint with all its chunks counts as one with too many.
LoadUnfinished(c, s) ==
  IF c # None /\ c.setting = s /\ Len(c.chunks) < Length THEN c ELSE None

\* CheckpointStore.load: a file with another key, or with more chunks than the
\* unit has, is deleted.
LoadCheckpoint(c, s) ==
  IF c # None /\ c.setting = s /\ Len(c.chunks) <= Length THEN c ELSE None

\* Mutant: a completion is trusted without looking at the chapter.
CompletionByKey(c, s, u) == IF c # None /\ c.setting = s THEN c ELSE None

\* CompletionStore.load and _completion_is_valid: the key and the hash of the
\* chapter have to match, or the file is deleted.
LoadCompletion(c, s, u) ==
  IF c # None /\ c.setting = s /\ c.content = out[u] THEN c ELSE None

ChunksOf(c) == IF c = None THEN <<>> ELSE c.chunks

Passes(s) == IF s \in Reflects THEN 2 ELSE 1

\* The progress a run with setting s would resume with.
Resumable(u, s) ==
  LET drafts == Len(ChunksOf(LoadCheckpoint(partial[u], s))) IN
  IF LoadCompletion(done[u], s, u) # None THEN Passes(s) * Length
  ELSE IF s \in Reflects /\ drafts = Length
       THEN Length + Len(ChunksOf(LoadCheckpoint(reflection[u], s)))
       ELSE drafts

-----------------------------------------------------------------------------
(* The steps of a unit.                                                    *)

At(e, u, label) == run[e].active /\ u \in run[e].units /\ work[e][u].at = label

UnitGoes(e, u, to) == work' = [work EXCEPT ![e][u] = to]

Keep == UNCHANGED <<scope, runs>>

MaxOf(a, b) == IF a < b THEN b ELSE a

\* _planned_translation_work: before anything is translated, in order.
Plan(e, u) ==
  LET s == run[e].setting IN
  /\ At(e, u, "plan") /\ \A v \in run[e].units : v < u => work[e][v].at # "plan"
  /\ done' = [done EXCEPT ![u] = LoadCompletion(@, s, u)]
  /\ partial' = [partial EXCEPT ![u] = IF done'[u] = None THEN LoadCheckpoint(@, s) ELSE @]
  /\ reflection' = [reflection EXCEPT ![u] =
       IF done'[u] = None /\ s \in Reflects /\ Len(ChunksOf(partial'[u])) = Length
       THEN LoadCheckpoint(@, s) ELSE @]
  /\ UnitGoes(e, u, [work[e][u] EXCEPT !.at = "queued", !.item = Resumable(u, s)])
  /\ UNCHANGED <<out, run>> /\ Keep

Waiting == {"plan", "queued"}
InFlight(e) == {v \in run[e].units : work[e][v].at \notin Waiting \cup {"over"}}

\* Mutant: a run that was stopped forgets the units it has not started.
DispatchUnlessStopped(e, u) ==
  /\ At(e, u, "queued") /\ ~run[e].stopped
  /\ \A v \in run[e].units : work[e][v].at # "plan" /\ (v < u => work[e][v].at # "queued")
  /\ Cardinality(InFlight(e)) < Concurrency
  /\ UnitGoes(e, u, [work[e][u] EXCEPT !.at = "load"])
  /\ UNCHANGED <<files, run>> /\ Keep

\* A thread of the pool takes the next unit; once dispatch has stopped the
\* unit fails without a request.
Dispatch(e, u) ==
  /\ At(e, u, "queued")
  /\ \A v \in run[e].units : work[e][v].at # "plan" /\ (v < u => work[e][v].at # "queued")
  /\ Cardinality(InFlight(e)) < Concurrency
  /\ UnitGoes(e, u, [work[e][u] EXCEPT !.at = IF run[e].stopped THEN "over" ELSE "load"])
  /\ UNCHANGED <<files, run>> /\ Keep

\* The start of _translate_unit: reuse a valid completion, or resume the
\* checkpoint there is.
Load(e, u) ==
  LET w == work[e][u]  s == run[e].setting IN
  /\ At(e, u, "load")
  /\ done' = [done EXCEPT ![u] = LoadCompletion(@, s, u)]
  /\ IF done'[u] # None
     THEN /\ UnitGoes(e, u, [w EXCEPT !.at = "clean", !.report = done[u].content])
          /\ UNCHANGED partial
     ELSE /\ partial' = [partial EXCEPT ![u] = LoadCheckpoint(@, s)]
          /\ UnitGoes(e, u, [w EXCEPT !.at = "translate", !.drafts = ChunksOf(partial'[u])])
  /\ UNCHANGED <<reflection, out, run>> /\ Keep

NewChunk(e, ok) == [setting |-> run[e].setting, run |-> run[e].number, ok |-> ok]

\* Mutant: a chunk counts as soon as it is translated.
TranslateCounts(e, u) ==
  LET w == work[e][u] IN
  /\ At(e, u, "translate") /\ Len(w.drafts) < Length
  /\ UnitGoes(e, u, [w EXCEPT !.drafts = Append(@, NewChunk(e, TRUE)),
                              !.item = MaxOf(@, Len(w.drafts) + 1),
                              !.at = IF w.open THEN "save" ELSE @])
  /\ UNCHANGED <<files, run>> /\ Keep

\* translate_chunk_with_fallback: a chunk that cannot be translated keeps its
\* source text, and from then on nothing more goes into the checkpoint.
Translate(e, u) ==
  LET w == work[e][u] IN
  /\ At(e, u, "translate") /\ Len(w.drafts) < Length
  /\ \/ UnitGoes(e, u, [w EXCEPT !.drafts = Append(@, NewChunk(e, TRUE)),
                                 !.at = IF w.open THEN "save" ELSE @])
     \/ /\ "source" \in Faults
        /\ UnitGoes(e, u, [w EXCEPT !.drafts = Append(@, NewChunk(e, FALSE)), !.open = FALSE])
  /\ UNCHANGED <<files, run>> /\ Keep

Save(e, u) ==
  LET w == work[e][u] IN
  /\ At(e, u, "save")
  /\ partial' = [partial EXCEPT ![u] = [setting |-> run[e].setting, chunks |-> w.drafts]]
  /\ UnitGoes(e, u, [w EXCEPT !.at = "translate", !.item = MaxOf(@, Len(w.drafts))])
  /\ UNCHANGED <<reflection, done, out, run>> /\ Keep

\* The first pass is over.  With source text in it the unit ends as failed (its
\* degraded chapter is a file nobody reads); else the second pass, if any,
\* resumes its own checkpoint.
EndFirstPass(e, u) ==
  LET w == work[e][u]  s == run[e].setting IN
  /\ At(e, u, "translate") /\ Len(w.drafts) = Length
  /\ IF w.open /\ s \in Reflects
     THEN /\ reflection' = [reflection EXCEPT ![u] = LoadCheckpoint(@, s)]
          /\ LET revised == ChunksOf(reflection'[u]) IN
             UnitGoes(e, u, [w EXCEPT !.at = "revise", !.revised = revised,
                                      !.item = MaxOf(@, Length + Len(revised))])
     ELSE /\ UnitGoes(e, u, [w EXCEPT !.at = IF w.open THEN "write" ELSE "over"])
          /\ UNCHANGED reflection
  /\ UNCHANGED <<partial, done, out, run>> /\ Keep

\* run_second_pass_chunk: the draft, its reflection, and a revision of it (or
\* the draft again, when the revision breaks the structure of the text).
Revise(e, u) ==
  LET w == work[e][u] IN
  /\ At(e, u, "revise") /\ Len(w.revised) < Length
  /\ UnitGoes(e, u, [w EXCEPT !.at = "saveRevised",
       !.revised = Append(@, [draft |-> w.drafts[Len(w.revised) + 1], run |-> run[e].number])])
  /\ UNCHANGED <<files, run>> /\ Keep

SaveRevised(e, u) ==
  LET w == work[e][u] IN
  /\ At(e, u, "saveRevised")
  /\ reflection' = [reflection EXCEPT ![u] = [setting |-> run[e].setting, chunks |-> w.revised]]
  /\ UnitGoes(e, u, [w EXCEPT !.at = "revise", !.item = MaxOf(@, Length + Len(w.revised))])
  /\ UNCHANGED <<partial, done, out, run>> /\ Keep

Content(e, u) ==
  IF run[e].setting \in Reflects THEN work[e][u].revised ELSE work[e][u].drafts

Write(e, u) ==
  /\ At(e, u, "write") \/ (At(e, u, "revise") /\ Len(work[e][u].revised) = Length)
  /\ out' = [out EXCEPT ![u] = Content(e, u)]
  /\ UnitGoes(e, u, [work[e][u] EXCEPT !.at = "complete", !.report = Content(e, u)])
  /\ UNCHANGED <<partial, reflection, done, run>> /\ Keep

Complete(e, u) ==
  LET w == work[e][u] IN
  /\ At(e, u, "complete")
  /\ done' = [done EXCEPT ![u] = [setting |-> run[e].setting, content |-> w.report]]
  /\ UnitGoes(e, u, [w EXCEPT !.at = "clean"])
  /\ UNCHANGED <<partial, reflection, out, run>> /\ Keep

\* The checkpoint is deleted, and the one of the second pass too when this run
\* had one, or reused a completion.
Reused(e, u) == work[e][u].drafts = <<>>

Clean(e, u) ==
  /\ At(e, u, "clean")
  /\ partial' = [partial EXCEPT ![u] = None]
  /\ UnitGoes(e, u, [work[e][u] EXCEPT
       !.at = IF run[e].setting \in Reflects \/ Reused(e, u) THEN "cleanReview" ELSE "over",
       !.item = Passes(run[e].setting) * Length])
  /\ UNCHANGED <<reflection, done, out, run>> /\ Keep

CleanReview(e, u) ==
  /\ At(e, u, "cleanReview")
  /\ reflection' = [reflection EXCEPT ![u] = None]
  /\ UnitGoes(e, u, [work[e][u] EXCEPT !.at = "over"])
  /\ UNCHANGED <<partial, done, out, run>> /\ Keep

\* The calls of a provider and the operations on files that may raise.
Fallible(e, u) ==
  \/ /\ "error" \in Faults
     /\ \/ At(e, u, "translate") /\ Len(work[e][u].drafts) < Length
        \/ At(e, u, "revise") /\ Len(work[e][u].revised) < Length
  \/ /\ "io" \in Faults
     /\ work[e][u].at \notin Waiting \cup {"over"}

UnitFails(e, u) ==
  /\ run[e].active /\ Fallible(e, u)
  /\ UnitGoes(e, u, [work[e][u] EXCEPT !.at = "over", !.report = None])
  /\ UNCHANGED <<files, run>> /\ Keep

\* Every credential is exhausted: the unit fails and no other is started.
RateLimited(e, u) ==
  /\ "ratelimit" \in Faults
  /\ \/ At(e, u, "translate") /\ Len(work[e][u].drafts) < Length
     \/ At(e, u, "revise") /\ Len(work[e][u].revised) < Length
  /\ UnitGoes(e, u, [work[e][u] EXCEPT !.at = "over"])
  /\ run' = [run EXCEPT ![e].stopped = TRUE]
  /\ UNCHANGED files /\ Keep

UnitStep(e, u) ==
  \/ Plan(e, u) \/ Dispatch(e, u) \/ Load(e, u) \/ Translate(e, u) \/ Save(e, u)
  \/ EndFirstPass(e, u) \/ Revise(e, u) \/ SaveRevised(e, u)
  \/ Write(e, u) \/ Complete(e, u) \/ Clean(e, u) \/ CleanReview(e, u)
  \/ UnitFails(e, u) \/ RateLimited(e, u)

-----------------------------------------------------------------------------
(* The launcher.                                                           *)

\* Mutant: the failed units of a run with another setting are asked for.
RequestFailed(s) == IF scope.failed # {} THEN scope.failed ELSE Unit

\* failed_translation_unit_ids: the units that failed under the same setting,
\* if any did; a change of the setting clears them.
Requested(s) == IF s = scope.setting /\ scope.failed # {} THEN scope.failed ELSE Unit

\* An approved translation starts.  The launcher waits for one engine at a time.
StartRun(e) ==
  /\ ~run[e].active /\ runs < RunBound /\ \A f \in Engine : ~run[f].watched
  /\ \E s \in Setting :
       run' = [run EXCEPT ![e] =
         [active |-> TRUE, setting |-> s, number |-> runs + 1,
          units |-> Requested(s), stopped |-> FALSE, watched |-> TRUE]]
  /\ scope' = [scope EXCEPT !.setting = run'[e].setting,
                            !.failed = IF run'[e].units = Unit THEN {} ELSE @]
  /\ runs' = runs + 1
  /\ UNCHANGED <<files, work>>

AllOver(e) == run[e].active /\ \A u \in run[e].units : work[e][u].at = "over"

End(e) ==
  /\ run' = [run EXCEPT ![e] = NoRun]
  /\ work' = [work EXCEPT ![e] = [u \in Unit |-> Fresh]]

Reported(e) == {u \in run[e].units : work[e][u].report # None}

\* validate_translation_engine_report
Accepted(e) == run[e].watched /\ \A u \in Reported(e) : out[u] = work[e][u].report

\* The report is printed; the launcher accepts it if the chapters have the
\* hashes it names, and asks for the failed units only the next time.
Gather(e) ==
  /\ AllOver(e) /\ End(e)
  /\ scope' = IF Accepted(e) THEN [scope EXCEPT !.failed = run[e].units \ Reported(e)] ELSE scope
  /\ UNCHANGED <<files, runs>>

\* The engine is killed, or a bug ends it without a report.
Die(e) ==
  /\ MayDie /\ run[e].active /\ End(e)
  /\ UNCHANGED files /\ Keep

\* A launcher that dies leaves its engine running, and so does a call of the
\* engine that timed out: only the program that started the engine is killed.
LauncherDies ==
  /\ MayDie /\ \E e \in Engine : run[e].watched /\ run' = [run EXCEPT ![e].watched = FALSE]
  /\ UNCHANGED <<files, work>> /\ Keep

\* Somebody edits a chapter.
Edit(u) ==
  /\ MayEdit /\ out[u] # None /\ \A e \in Engine : ~run[e].active
  /\ out' = [out EXCEPT ![u] = Edited]
  /\ UNCHANGED <<partial, reflection, done, run, work>> /\ Keep

Next ==
  \/ \E e \in Engine : StartRun(e) \/ Gather(e) \/ Die(e)
  \/ \E e \in Engine, u \in Unit : UnitStep(e, u)
  \/ LauncherDies
  \/ \E u \in Unit : Edit(u)

Spec == Init /\ [][Next]_vars

\* The threads of a running engine are scheduled, and every request and file
\* operation returns.
FairSpec ==
  /\ Spec
  /\ \A e \in Engine, u \in Unit : WF_vars(UnitStep(e, u))
  /\ \A e \in Engine : WF_vars(Gather(e))

-----------------------------------------------------------------------------
(* Properties.                                                             *)

Chunk == [setting: Setting, run: 1 .. RunBound, ok: BOOLEAN]
Revision == [draft: Chunk, run: 1 .. RunBound]
Text == UNION {[1 .. n -> Chunk] \cup [1 .. n -> Revision] : n \in 0 .. Length}

TypeOK ==
  /\ \A u \in Unit :
       /\ partial[u] # None => partial[u].chunks \in Text
       /\ reflection[u] # None => reflection[u].chunks \in Text
       /\ done[u] # None => done[u].content \in Text
       /\ out[u] # None => out[u] \in Text
  /\ \A e \in Engine : run[e].units \subseteq Unit /\ InFlight(e) \subseteq Unit
  /\ scope.failed \subseteq Unit /\ runs \in 0 .. RunBound

Draft(c) == IF "draft" \in DOMAIN c THEN c.draft ELSE c

\* A chapter nobody edited is whole, holds no source text, and was made with
\* one setting, whatever was resumed from runs with other settings, and
\* whatever engine died or overlapped with another.
ChapterIsWhole ==
  \A u \in Unit : out[u] \notin {None, Edited} =>
    /\ Len(out[u]) = Length
    /\ \A i \in 1 .. Length : Draft(out[u][i]).ok
    /\ \A i, j \in 1 .. Length : Draft(out[u][i]).setting = Draft(out[u][j]).setting

\* The files and the units in work are what the engine can make sense of, and
\* the chapters among them are whole.
EngineOK == TypeOK /\ ChapterIsWhole

\* What the engine reports as completed is what the chapter holds, also when
\* the report was reused from an earlier run; the launcher never refuses it.
ReportIsTrue ==
  \A e \in Engine : AllOver(e) =>
    \A u \in run[e].units : work[e][u].report # None => work[e][u].report = out[u]

\* When a translation is recorded as completed, every chapter of the book that
\* nobody edited is there and of the setting it was approved for, although its
\* last run may have been asked for a few failed units only.
BookIsTranslated ==
  [][\A e \in Engine :
       /\ AllOver(e) /\ Accepted(e) /\ Reported(e) = run[e].units /\ ~run'[e].active
       => \A u \in Unit : /\ out[u] # None
                          /\ out[u] # Edited => Draft(out[u][1]).setting = run[e].setting]_vars

\* No chunk that was paid for is lost: a checkpoint only grows, until its
\* chapter is completed or a run with another setting comes.
PaidWorkKept ==
  [][\A u \in Unit :
       LET c == partial[u]  d == partial'[u] IN
       c # None =>
         \/ d # None /\ Len(c.chunks) <= Len(d.chunks)
              /\ SubSeq(d.chunks, 1, Len(c.chunks)) = c.chunks
         \/ done[u] # None /\ done[u].setting = c.setting
         \/ \E e \in Engine : run[e].active /\ run[e].setting # c.setting]_vars

\* The progress shown for a unit is what a run would resume after a crash.
ProgressIsDurable ==
  \A e \in Engine : run[e].active =>
    \A u \in run[e].units : work[e][u].item <= Resumable(u, run[e].setting)

\* A revised chapter revises the drafts that are filed beside it: no revision
\* is left from drafts of an earlier first pass.
RevisionOfItsDraft ==
  \A e \in Engine, u \in Unit :
    run[e].active /\ run[e].setting \in Reflects /\ work[e][u].at = "complete" =>
      \A i \in 1 .. Length : work[e][u].revised[i].draft = work[e][u].drafts[i]

\* Every run ends, with a report or with its engine.
RunEnds == \A e \in Engine : run[e].active ~> ~run[e].active
=============================================================================
