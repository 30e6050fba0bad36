---------------------------- MODULE LawPolitics ----------------------------
(* The batch that converts law and politics PDFs with MinerU: targets are the *)
(* PDFs whose book has no Markdown yet, as the local library shows it; each   *)
(* is extracted, uploaded and recorded, in three separate commits.  Zotero's  *)
(* own server sees a child at once, the local library only after a sync.      *)
EXTENDS Integers, Sequences, SequencesExt, FiniteSets

CONSTANTS
  ByPriority,  \* the candidates in the order of a run: priority, pages, size
  Parent,      \* Parent[p]: the book of p, or Absent
  LawFaults, LawRuns, Absent

VARIABLES
  web,      \* web[p]: the Markdown children made for p, TRUE for those with their file
  seen,     \* seen[p]: how many of them the local library shows
  ldoc,     \* ldoc[p]: whether a completed MinerU row names a child
  ljob,     \* ljob[p]: the status of the job, Absent without a row
  lrun,     \* the running batch: its targets to come, and where it is
  ltally    \* faults and runs; per PDF the extractions paid and the children left unrecorded

lawVars == <<web, seen, ldoc, ljob, lrun, ltally>>

LPdf == ToSet(ByPriority)
LOff == [pc |-> "off", todo |-> <<>>]
T == Head(lrun.todo)
LAt(pc) == lrun.pc = pc
LTo(pc) == lrun' = [lrun EXCEPT !.pc = pc]
LNext == lrun' = [pc |-> "next", todo |-> Tail(lrun.todo)]

LFaulty == ltally.faults < LawFaults
LFault == ltally' = [ltally EXCEPT !.faults = @ + 1]

UpdateLaw(p, status) == ljob' = [ljob EXCEPT ![p] = status]

\* existing_markdown_maps: what the local library shows of p itself ...
SourceSeen(p) == seen[p] > 0

\* ... and of the book p belongs to.
ParentSeen(p) == Parent[p] # Absent /\ \E q \in LPdf : Parent[q] = Parent[p] /\ SourceSeen(q)

\* collect_targets: every target is pending again, whatever its row said.
Targets == SelectSeq(ByPriority, LAMBDA p : ~SourceSeen(p) /\ ~ParentSeen(p))

StartBatch ==
  /\ LAt("off") /\ ltally.runs < LawRuns
  /\ lrun' = [pc |-> "next", todo |-> Targets]
  /\ ljob' = [p \in LPdf |-> IF p \in ToSet(Targets) THEN "pending" ELSE ljob[p]]
  /\ ltally' = [ltally EXCEPT !.runs = @ + 1]
  /\ UNCHANGED <<web, seen, ldoc>>

BatchEnds ==
  /\ LAt("next") /\ lrun.todo = <<>> /\ lrun' = LOff
  /\ UNCHANGED <<web, seen, ldoc, ljob, ltally>>

\* is_parent_markdown_present: asked anew before each target; no answer means no.
SkipBook ==
  /\ LAt("next") /\ lrun.todo # <<>> /\ ParentSeen(T) /\ LNext
  /\ UpdateLaw(T, "skipped_parent_has_markdown")
  /\ UNCHANGED <<web, seen, ldoc, ltally>>

TakeTarget ==
  /\ LAt("next") /\ lrun.todo # <<>> /\ LTo("look")
  /\ IF ParentSeen(T) THEN LFaulty /\ LFault ELSE UNCHANGED ltally
  /\ UNCHANGED <<web, seen, ldoc, ljob>>

\* completed_mineru_row
LookForRow ==
  /\ LAt("look")
  /\ IF ldoc[T] THEN LNext /\ UpdateLaw(T, "completed") ELSE LTo("extract") /\ UNCHANGED ljob
  /\ UNCHANGED <<web, seen, ldoc, ltally>>

\* run_mineru_extract: the result directory is emptied first, so every try is paid.
Extract ==
  /\ LAt("extract") /\ LTo("create")
  /\ ltally' = [ltally EXCEPT !.paid[T] = @ + 1]
  /\ UNCHANGED <<web, seen, ldoc, ljob>>

\* Mutant: the item is made, its file is forgotten.
CreateOnly ==
  /\ LAt("create") /\ LTo("record")
  /\ web' = [web EXCEPT ![T] = Append(@, FALSE)]
  /\ UNCHANGED <<seen, ldoc, ljob, ltally>>

\* upload_markdown: the item first, then its file.
CreateChild ==
  /\ LAt("create") /\ LTo("file")
  /\ web' = [web EXCEPT ![T] = Append(@, FALSE)]
  /\ UNCHANGED <<seen, ldoc, ljob, ltally>>

UploadFile ==
  /\ LAt("file") /\ LTo("record")
  /\ web' = [web EXCEPT ![T] = [@ EXCEPT ![Len(@)] = TRUE]]
  /\ UNCHANGED <<seen, ldoc, ljob, ltally>>

RecordRow ==
  /\ LAt("record") /\ LTo("complete")
  /\ ldoc' = [ldoc EXCEPT ![T] = TRUE]
  /\ UNCHANGED <<web, seen, ljob, ltally>>

Completed ==
  /\ LAt("complete") /\ LNext /\ UpdateLaw(T, "completed")
  /\ UNCHANGED <<web, seen, ldoc, ltally>>

\* Where the child is made and no row names it yet.
Unrecorded == lrun.pc \in {"file", "record"}
Lapse == ltally' = [ltally EXCEPT !.faults = @ + 1, !.lapses[T] = @ + IF Unrecorded THEN 1 ELSE 0]

\* should_stop_for_remote_error: quota, limit and authorization end the batch.
TargetFails ==
  /\ lrun.pc \in {"look", "extract", "create", "file", "record"} /\ LFaulty /\ Lapse
  /\ UpdateLaw(T, "error")
  /\ LNext \/ lrun' = LOff
  /\ UNCHANGED <<web, seen, ldoc>>

\* The reply to the creation is lost: there is a child nobody knows of.
CreateReplyLost ==
  /\ LAt("create") /\ LFaulty
  /\ web' = [web EXCEPT ![T] = Append(@, FALSE)]
  /\ ltally' = [ltally EXCEPT !.faults = @ + 1, !.lapses[T] = @ + 1]
  /\ UpdateLaw(T, "error") /\ LNext
  /\ UNCHANGED <<seen, ldoc>>

\* A kill, or the deadline between two targets.
BatchDies ==
  /\ ~LAt("off") /\ LFaulty /\ lrun' = LOff
  /\ IF LAt("next") THEN LFault ELSE Lapse
  /\ UNCHANGED <<web, seen, ldoc, ljob>>

\* The desktop application syncs.
Sync ==
  /\ \E p \in LPdf : seen[p] < Len(web[p])
  /\ seen' = [p \in LPdf |-> Len(web[p])]
  /\ UNCHANGED <<web, ldoc, ljob, lrun, ltally>>

LInit ==
  /\ web = [p \in LPdf |-> <<>>] /\ seen = [p \in LPdf |-> 0]
  /\ ldoc = [p \in LPdf |-> FALSE] /\ ljob = [p \in LPdf |-> Absent]
  /\ lrun = LOff
  /\ ltally = [faults |-> 0, runs |-> 0, paid |-> [p \in LPdf |-> 0], lapses |-> [p \in LPdf |-> 0]]

LStep ==
  \/ StartBatch \/ BatchEnds \/ SkipBook \/ TakeTarget \/ LookForRow \/ Extract
  \/ CreateChild \/ UploadFile \/ RecordRow \/ Completed

LNextState == LStep \/ TargetFails \/ CreateReplyLost \/ BatchDies \/ Sync
LSpec == LInit /\ [][LNextState]_lawVars

-----------------------------------------------------------------------------
LawTypeOK ==
  /\ web \in [LPdf -> Seq(BOOLEAN)] /\ \A p \in LPdf : seen[p] \in 0 .. Len(web[p])
  /\ ldoc \in [LPdf -> BOOLEAN]
  /\ ljob \in [LPdf -> {Absent, "pending", "skipped_parent_has_markdown", "completed", "error"}]
  /\ lrun.pc \in {"off", "next", "look", "extract", "create", "file", "record", "complete"}

\* However often the batch runs and however late the local library is, a PDF gets
\* a second child only after a failure between the creation and the record.
OneChildPerLapse == \A p \in LPdf : Len(web[p]) <= 1 + ltally.lapses[p]

\* A job that says completed, and a row that names a child, have a child with its file.
CompletedHasFile ==
  \A p \in LPdf : ldoc[p] \/ ljob[p] = "completed" => TRUE \in ToSet(web[p])

\* A completed target has one child, with its file.
LawIsRight == LawTypeOK /\ OneChildPerLapse /\ CompletedHasFile
=============================================================================
