------------------------- MODULE MineruReplacement -------------------------
(* The script that replaces Markdown made by MinerU with Markdown made by     *)
(* PaddleOCR: every old child is a job, claimed under a lease in the state    *)
(* database that several workers share.  A claim is refreshed once, when the  *)
(* source has been read, and runs out whatever its owner is doing; results    *)
(* are written to the job without asking who owns it.                         *)
EXTENDS Integers, Sequences, SequencesExt, FiniteSets

CONSTANTS
  Old,         \* the MinerU children, in the order of the job list
  Source,      \* Source[m]: the PDF inferred for m, or NoPdf
  Mismatched,  \* those whose PDF has another parent
  Dirty,       \* the PDFs whose text layer is kept for MinerU
  Worker,
  ReplaceFaults, ReplaceEdits, NoPdf

VARIABLES
  child,   \* child[m]: whether the old child is still in Zotero
  pdf,     \* pdf[p]: whether the source can be read
  paddle,  \* paddle[p]: whether an accepted Paddle conversion is recorded, whether its child exists
  rjob,    \* rjob[m]: status of the job and whether its claim is fresh
  rw,      \* rw[w]: a worker, its jobs to come and what it knows
  rtally   \* faults and edits so far; per job, whether a claim on it ever ran out

replaceVars == <<child, pdf, paddle, rjob, rw, rtally>>

Md == ToSet(Old)
Pdfs == {Source[m] : m \in Md} \ {NoPdf}
Resting == [pc |-> "off", todo |-> <<>>, spent |-> FALSE]

M(w) == Head(rw[w].todo)
P(w) == Source[M(w)]
WAt(w, pc) == rw[w].pc = pc
WTo(w, pc) == rw' = [rw EXCEPT ![w].pc = pc]
Onward(w) == rw' = [rw EXCEPT ![w] = [pc |-> "next", todo |-> Tail(rw[w].todo), spent |-> FALSE]]
Rest(w) == rw' = [rw EXCEPT ![w] = Resting]

RFaulty == rtally.faults < ReplaceFaults
RFault == rtally' = [rtally EXCEPT !.faults = @ + 1]

Replaced == {"replaced", "replaced_existing_paddle"}
Blocked == {"blocked_missing_source_pdf", "blocked_parent_mismatch", "blocked_dirty_text_layer"}
Status == Replaced \cup Blocked \cup
  {NoPdf, "pending", "in_progress", "retryable_error", "failed", "stopped_quota_or_deadline",
   "paddle_completed_delete_pending"}

Place == {"off", "next", "source", "parent", "look", "convert", "verify", "delete"}

\* update_job, whoever has the claim by now.
UpdateJob(m, status) == rjob' = [rjob EXCEPT ![m] = [status |-> status, fresh |-> TRUE]]

-----------------------------------------------------------------------------
(* A run: candidates, jobs, claims.                                           *)

\* seed_candidates touches updated_at of every job it finds, one in progress too.
SeedCandidates(found) ==
  [m \in Md |->
    IF m \notin found THEN rjob[m]
    ELSE [status |-> IF rjob[m].status \in Replaced \cup Blocked \cup {"in_progress"}
                     THEN rjob[m].status ELSE "pending",
          fresh |-> TRUE]]

\* load_jobs: all that are not replaced.
LoadJobs(jobs) == SelectSeq(Old, LAMBDA m : jobs[m].status \notin Replaced \cup {NoPdf})

\* collect_mineru_candidates reads the local library, where a deleted child may linger.
StartReplacing(w) ==
  /\ WAt(w, "off")
  /\ \E found \in SUBSET Md :
       /\ {m \in Md : child[m]} \subseteq found
       /\ rjob' = SeedCandidates(found)
  /\ rw' = [rw EXCEPT ![w] = [pc |-> "next", todo |-> LoadJobs(rjob'), spent |-> FALSE]]
  /\ UNCHANGED <<child, pdf, paddle, rtally>>

Finished(w) ==
  /\ WAt(w, "next") /\ rw[w].todo = <<>> /\ Rest(w)
  /\ UNCHANGED <<child, pdf, paddle, rjob, rtally>>

\* claim_job, in one transaction.
Claimable(m) ==
  /\ rjob[m].status \notin Replaced \cup Blocked
  /\ ~(rjob[m].status = "in_progress" /\ rjob[m].fresh)

Claim(w) ==
  /\ WAt(w, "next") /\ rw[w].todo # <<>>
  /\ IF Claimable(M(w)) THEN WTo(w, "source") /\ UpdateJob(M(w), "in_progress")
     ELSE Onward(w) /\ UNCHANGED rjob
  /\ UNCHANGED <<child, pdf, paddle, rtally>>

-----------------------------------------------------------------------------
(* One job: process_jobs.                                                     *)

Block(w, status) == Onward(w) /\ UpdateJob(M(w), status) /\ UNCHANGED <<child, pdf, paddle>>

\* No source is known, or it cannot be read just now.
MissingSource(w) ==
  /\ WAt(w, "source")
  /\ IF P(w) # NoPdf /\ pdf[P(w)] THEN RFaulty /\ RFault ELSE UNCHANGED rtally
  /\ Block(w, "blocked_missing_source_pdf")

ReadPdf(w) ==
  /\ WAt(w, "source") /\ P(w) # NoPdf /\ pdf[P(w)]
  /\ WTo(w, "parent") /\ UpdateJob(M(w), "in_progress")
  /\ UNCHANGED <<child, pdf, paddle, rtally>>

ParentMismatch(w) ==
  /\ WAt(w, "parent") /\ M(w) \in Mismatched /\ Block(w, "blocked_parent_mismatch")
  /\ UNCHANGED rtally

DirtyText(w) ==
  /\ WAt(w, "parent") /\ M(w) \notin Mismatched /\ P(w) \in Dirty
  /\ Block(w, "blocked_dirty_text_layer") /\ UNCHANGED rtally

Sound(w) ==
  /\ WAt(w, "parent") /\ M(w) \notin Mismatched /\ P(w) \notin Dirty /\ WTo(w, "look")
  /\ UNCHANGED <<child, pdf, paddle, rjob, rtally>>

\* paddle_row_for: an accepted conversion whose child Zotero has.
PaddleRow(p) == paddle[p].row /\ paddle[p].child

LookForPaddle(w) ==
  /\ WAt(w, "look") /\ WTo(w, IF PaddleRow(P(w)) THEN "delete" ELSE "convert")
  /\ UNCHANGED <<child, pdf, paddle, rjob, rtally>>

LookFails(w) ==
  /\ WAt(w, "look") /\ RFaulty /\ RFault /\ Block(w, "retryable_error")

\* process_attachment: a conversion found complete is verified or uploaded, any
\* other one is paid for; it may also come back with part of the pages.
ConvertPaddle(w) ==
  /\ WAt(w, "convert") /\ pdf[P(w)]
  /\ rw' = [rw EXCEPT ![w].pc = "verify", ![w].spent = TRUE]
  /\ \/ paddle' = [paddle EXCEPT ![P(w)] = [row |-> TRUE, child |-> TRUE]] /\ UNCHANGED rtally
     \/ RFaulty /\ RFault /\ UNCHANGED paddle
  /\ UNCHANGED <<child, pdf, rjob>>

ConvertStopsRun(w) ==
  /\ WAt(w, "convert") /\ RFaulty /\ RFault /\ Rest(w)
  /\ UpdateJob(M(w), "stopped_quota_or_deadline")
  /\ UNCHANGED <<child, pdf, paddle>>

ConvertGoesWrong(w) ==
  /\ WAt(w, "convert") /\ (IF pdf[P(w)] THEN RFaulty /\ RFault ELSE UNCHANGED rtally)
  /\ \E status \in {"retryable_error", "failed"} : Block(w, status)

\* Mutant: the answer of the worker is believed.
VerifyNothing(w) ==
  /\ WAt(w, "verify") /\ WTo(w, "delete")
  /\ UNCHANGED <<child, pdf, paddle, rjob, rtally>>

\* The conversion is looked for again: part of the pages is not enough.
Verify(w) ==
  /\ WAt(w, "verify")
  /\ IF PaddleRow(P(w)) THEN WTo(w, "delete") /\ UNCHANGED <<child, pdf, paddle, rjob>>
     ELSE Block(w, "failed")
  /\ UNCHANGED rtally

VerifyFails(w) ==
  /\ WAt(w, "verify") /\ RFaulty /\ RFault /\ Block(w, "paddle_completed_delete_pending")

\* delete_old_mineru: a child that is there cannot be deleted, because the client
\* has no delete_item; one that is gone already counts as replaced.
DeleteOld(w) ==
  /\ WAt(w, "delete")
  /\ Block(w, IF child[M(w)] THEN "paddle_completed_delete_pending"
              ELSE IF rw[w].spent THEN "replaced" ELSE "replaced_existing_paddle")
  /\ UNCHANGED rtally

\* Zotero does not answer whether the old child is there.
DeleteFails(w) ==
  /\ WAt(w, "delete") /\ RFaulty /\ RFault /\ Block(w, "paddle_completed_delete_pending")

-----------------------------------------------------------------------------
(* Time, faults, the user.                                                    *)

\* Thirty minutes pass since the job was last written.
RunsOut(m) ==
  /\ rjob[m].status = "in_progress" /\ rjob[m].fresh
  /\ rjob' = [rjob EXCEPT ![m].fresh = FALSE]
  /\ rtally' = [rtally EXCEPT !.stale[m] = TRUE]
  /\ UNCHANGED <<child, pdf, paddle, rw>>

Dies(w) ==
  /\ ~WAt(w, "off") /\ RFaulty /\ RFault /\ Rest(w)
  /\ UNCHANGED <<child, pdf, paddle, rjob>>

\* The deadline, or --limit, ends a run between two jobs.
StopsEarly(w) ==
  /\ WAt(w, "next") /\ rw[w].todo # <<>> /\ RFaulty /\ RFault /\ Rest(w)
  /\ UNCHANGED <<child, pdf, paddle, rjob>>

UserEdits ==
  /\ rtally.edits < ReplaceEdits /\ rtally' = [rtally EXCEPT !.edits = @ + 1]
  /\ \/ \E m \in Md : child[m] /\ child' = [child EXCEPT ![m] = FALSE] /\ UNCHANGED <<pdf, paddle>>
     \/ \E p \in Pdfs : pdf' = [pdf EXCEPT ![p] = ~@] /\ UNCHANGED <<child, paddle>>
     \/ \E p \in Pdfs : /\ paddle[p].child /\ paddle' = [paddle EXCEPT ![p].child = FALSE]
                        /\ UNCHANGED <<child, pdf>>
  /\ UNCHANGED <<rjob, rw>>

RInit ==
  /\ child = [m \in Md |-> TRUE]
  /\ pdf = [p \in Pdfs |-> TRUE]
  /\ paddle \in [Pdfs -> {[row |-> FALSE, child |-> FALSE], [row |-> TRUE, child |-> TRUE]}]
  /\ rjob = [m \in Md |-> [status |-> NoPdf, fresh |-> TRUE]]
  /\ rw = [w \in Worker |-> Resting]
  /\ rtally = [faults |-> 0, edits |-> 0, stale |-> [m \in Md |-> FALSE]]

RStep(w) ==
  \/ StartReplacing(w) \/ Finished(w) \/ Claim(w) \/ MissingSource(w) \/ ReadPdf(w)
  \/ ParentMismatch(w) \/ DirtyText(w) \/ Sound(w) \/ LookForPaddle(w) \/ LookFails(w)
  \/ ConvertPaddle(w) \/ ConvertStopsRun(w) \/ ConvertGoesWrong(w)
  \/ Verify(w) \/ VerifyFails(w) \/ DeleteOld(w) \/ DeleteFails(w)

RNext ==
  \/ \E w \in Worker : RStep(w) \/ Dies(w) \/ StopsEarly(w)
  \/ \E m \in Md : RunsOut(m)
  \/ UserEdits

RSpec == RInit /\ [][RNext]_replaceVars

-----------------------------------------------------------------------------
(* Properties.                                                                *)

ReplacementTypeOK ==
  /\ child \in [Md -> BOOLEAN] /\ pdf \in [Pdfs -> BOOLEAN]
  /\ paddle \in [Pdfs -> [row : BOOLEAN, child : BOOLEAN]]
  /\ rjob \in [Md -> [status : Status, fresh : BOOLEAN]]
  /\ \A w \in Worker : DOMAIN rw[w] = DOMAIN Resting /\ rw[w].pc \in Place

On(w, m) == rw[w].pc \notin {"off", "next"} /\ M(w) = m

\* Two workers are on one job only when a claim on it ran out under its owner.
ClaimsAreExclusive ==
  \A m \in Md : ~rtally.stale[m] => Cardinality({w \in Worker : On(w, m)}) <= 1

\* An old child counts as replaced, or is asked to go, only when a Paddle child
\* of its source was there.
ReplacedHasPaddle ==
  /\ \A m \in Md : rjob[m].status \in Replaced => Source[m] # NoPdf /\ paddle[Source[m]].row
  /\ \A w \in Worker : WAt(w, "delete") => P(w) \notin Dirty /\ M(w) \notin Mismatched

\* A result stands: no later run and no slower worker takes it back, unless the
\* claim ran out under somebody.
ResultStands ==
  [][\A m \in Md : rjob[m].status \in Replaced \cup Blocked =>
       rjob'[m].status = rjob[m].status \/ rtally.stale[m]]_replaceVars

\* One worker at a time replaces a child, by a Paddle child that is there.
ReplacementIsRight == ReplacementTypeOK /\ ClaimsAreExclusive /\ ReplacedHasPaddle
=============================================================================
