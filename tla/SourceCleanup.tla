--------------------------- MODULE SourceCleanup ---------------------------
(* The batch scripts that convert the PDFs of one size band with PaddleOCR    *)
(* and then keep or delete the source.  Five of them share a job table, a     *)
(* policy and a loop, and differ in where their targets come from and in when *)
(* a target is finished; the sixth, for giant PDFs, only converts.  A wrapper *)
(* or launchd starts a script again and again; it may be killed between any   *)
(* two commits, while Zotero, the daily worker and the launcher go on.        *)
EXTENDS Integers, Sequences, SequencesExt, FiniteSets

CONSTANTS
  Scripts,    \* the scripts of this instance
  Order,      \* the PDFs in the order of the list, or of their size
  Policies,   \* TARGETS of over100: Policies[p] is "keep" or "delete"
  HasText,    \* the PDFs with a text layer: the giant ones of these are not read
  FaultBound, \* failed reads and conversions, deadlines and kills
  EditBound,  \* edits of Zotero, the disk and the launcher's state
  None

VARIABLES
  script,   \* which script this is
  zotero,   \* zotero[p]: whether the local API serves p; whether its title is one of law
  docs,     \* docs[p]: the paddle-ocr row of p: none, completed, or completed and its file lost
  launcher, \* launcher[p]: the book as the launcher's state knows it
  jobTable, \* jobTable[p]: the script's own row
  run,      \* the running script
  tally     \* faults and edits so far; per PDF, the conversions paid and the files lost

cleanupVars == <<script, zotero, docs, launcher, jobTable, run, tally>>

Pdf == ToSet(Order)
Policy == {"keep", "delete"}

\* A list names no PDF twice.
ASSUME CleanupAssumption ==
  /\ Order \in Seq(Pdf) /\ IsInjective(Order)
  /\ Policies \in [Pdf -> Policy]
  /\ None \notin Policy \cup {"kept_source_pdf"}

NoJob == [there |-> FALSE, policy |-> None, deleted |-> FALSE, md |-> None,
          key |-> FALSE, del |-> None, err |-> FALSE]
Ended == [pc |-> "off", todo |-> {}, policy |-> None, caught |-> FALSE, status |-> None]

\* The target at hand is the first of those to come.
Now == CHOOSE t \in run.todo : \A u \in run.todo : t.at <= u.at
Cur == Now.pdf
At(pc) == run.pc = pc
To(pc) == run' = [run EXCEPT !.pc = pc]
NextOne == run' = [Ended EXCEPT !.pc = "next", !.todo = run.todo \ {Now}]
EndRun == run' = Ended

Faulty == tally.faults < FaultBound
Fault == tally' = [tally EXCEPT !.faults = @ + 1]
Edit == tally.edits < EditBound /\ tally' = [tally EXCEPT !.edits = @ + 1]

-----------------------------------------------------------------------------
(* The launcher's approval.                                                   *)

\* A book: tracked or not, the build of its reading artifacts (0: none built),
\* and the build its source-cleanup approval binds.
Book == [tracked : BOOLEAN, build : 0 .. 1, bound : {None, 0, 1}]

\* _reading_artifact_hashes: what an approval given now would bind.
ReadingArtifacts(p) == launcher[p].build

\* approval_for: an approval that binds nothing, or another build, is none.
Approved(p) ==
  /\ launcher[p].bound \notin {None, 0}
  /\ launcher[p].bound = ReadingArtifacts(p)

\* ApprovalVerdict.blocks_delete
Blocks(p) == launcher[p].tracked /\ ~Approved(p)

\* refuse_unapproved_delete answers TRUE when the caller may delete.
MayDelete(p) == ~Blocks(p)

-----------------------------------------------------------------------------
(* The job table.                                                             *)

\* COALESCE: a column that is not given keeps its value.
Given(new, old) == IF new = None THEN old ELSE new
NoValue == [md |-> None, key |-> FALSE, del |-> None, err |-> FALSE]

\* upsert_job of the target at hand: the policy and the error are always replaced,
\* source_deleted is never taken back, and no call gets as far as to set it.
Upsert(new) ==
  jobTable' = [jobTable EXCEPT ![Cur] =
    [there |-> TRUE, policy |-> run.policy, deleted |-> @.deleted, md |-> Given(new.md, @.md),
     key |-> new.key \/ @.key, del |-> Given(new.del, @.del), err |-> new.err]]

\* read_snapshots: what the report shows of a row.
Shown(p) == IF jobTable[p].del # None THEN jobTable[p].del
            ELSE IF jobTable[p].md # None THEN jobTable[p].md ELSE "pending"

\* write_report: the Markdown attachments present, and the sources kept.
ReportedPresent == {p \in Pdf : jobTable[p].key}
ReportedKept == {p \in Pdf : Shown(p) = "kept_source_pdf"}

\* completed_paddle_markdown
HasMarkdown(p) == docs[p] = "completed"

-----------------------------------------------------------------------------
(* The targets, and when one is finished.                                     *)

\* classify_target and delete_policy_for
PolicyFor(p) == IF zotero[p].law THEN "keep" ELSE "delete"

\* A target is read from the table at the start of a run, with the policy it has then.
Target(i, policy, old) == [at |-> i, pdf |-> Order[i], policy |-> policy, old |-> old]
Positions(S) == {i \in DOMAIN Order : Order[i] \in S}
InOrder(S, policy) == {Target(i, policy[Order[i]], FALSE) : i \in Positions(S)}

\* seed_live_targets: what Zotero lists is classified anew.
Seed(j) ==
  [p \in Pdf |-> IF zotero[p].there
                 THEN [j[p] EXCEPT !.there = TRUE, !.policy = PolicyFor(p), !.err = FALSE]
                 ELSE j[p]]

Begin(targets) == /\ At("off")
                  /\ run' = [Ended EXCEPT !.pc = "next", !.todo = targets]
                  /\ UNCHANGED <<script, zotero, docs, launcher, tally>>

StartFromList(policy) == Begin(InOrder(Pdf, policy)) /\ UNCHANGED jobTable

\* load_targets: every row of the table, those of PDFs that are gone too.
StartFromZotero ==
  LET seeded == Seed(jobTable) IN
  /\ Begin(InOrder({p \in Pdf : seeded[p].there}, [p \in Pdf |-> seeded[p].policy]))
  /\ jobTable' = seeded

Settled(p, policy) ==
  /\ jobTable[p].there
  /\ IF policy = "delete" THEN jobTable[p].deleted
     ELSE jobTable[p].key /\ jobTable[p].del = "kept_source_pdf"

MissingIsSettled(p) == jobTable[p].there /\ jobTable[p].md = "source_missing_before_completed_md"

\* Mutant: a source that could not be read once is given up in every band.
Over100DoneIfMissing(p, policy) == Settled(p, policy) \/ MissingIsSettled(p)

Over100Done(p, policy) == Settled(p, policy)
FiftyDone(p, policy) == MissingIsSettled(p) \/ Settled(p, policy)
TenDone(p, policy) == MissingIsSettled(p) \/ Settled(p, policy)
Under10Done(p, policy) == Settled(p, policy)
NonlawDone(p) == jobTable[p].deleted

-----------------------------------------------------------------------------
(* The loop over the targets: process_targets.                                *)

Deadline ==
  /\ At("next") /\ run.todo # {} /\ Faulty /\ Fault /\ EndRun
  /\ UNCHANGED <<script, zotero, docs, launcher, jobTable>>

AllSeen ==
  /\ At("next") /\ run.todo = {} /\ EndRun
  /\ UNCHANGED <<script, zotero, docs, launcher, jobTable, tally>>

Skip(Done(_, _)) ==
  /\ At("next") /\ run.todo # {} /\ Done(Cur, Now.policy) /\ NextOne
  /\ UNCHANGED <<script, zotero, docs, launcher, jobTable, tally>>

Take(Done(_, _)) ==
  /\ At("next") /\ run.todo # {} /\ ~Done(Cur, Now.policy)
  /\ run' = [run EXCEPT !.pc = "read", !.policy = Now.policy]
  /\ UNCHANGED <<script, zotero, docs, launcher, jobTable, tally>>

ReadSource ==
  /\ At("read") /\ zotero[Cur].there /\ To("look") /\ Upsert(NoValue)
  /\ UNCHANGED <<script, zotero, docs, launcher, tally>>

\* The attachment cannot be read: it is gone, or the API did not answer.
Unread == At("read") /\ (IF zotero[Cur].there THEN Faulty /\ Fault ELSE UNCHANGED tally)

\* Its Markdown is there already: nothing is left but to keep or delete it.
UnreadDelete ==
  /\ Unread /\ HasMarkdown(Cur) /\ run.policy = "delete" /\ To("check")
  /\ UNCHANGED <<script, zotero, docs, launcher, jobTable>>

UnreadKeep ==
  /\ Unread /\ HasMarkdown(Cur) /\ run.policy = "keep" /\ NextOne
  /\ Upsert([NoValue EXCEPT !.md = "completed", !.key = TRUE, !.del = "kept_source_pdf"])
  /\ UNCHANGED <<script, zotero, docs, launcher>>

UnreadMissing ==
  /\ Unread /\ ~HasMarkdown(Cur) /\ NextOne
  /\ Upsert([NoValue EXCEPT !.md = "source_missing_before_completed_md", !.del = "not_deleted",
                            !.err = TRUE])
  /\ UNCHANGED <<script, zotero, docs, launcher>>

\* under_10 alone tells an API that is not there from a source that is not.
UnreadStops ==
  /\ At("read") /\ ~HasMarkdown(Cur) /\ Faulty /\ Fault /\ EndRun
  /\ Upsert([NoValue EXCEPT !.md = "stopped", !.err = TRUE])
  /\ UNCHANGED <<script, zotero, docs, launcher>>

Look ==
  /\ At("look") /\ To(IF HasMarkdown(Cur) THEN "record" ELSE "convert")
  /\ UNCHANGED <<script, zotero, docs, launcher, jobTable, tally>>

\* process_attachment by the worker: it converts, anew where a completed row has
\* lost its evidence, reuses what is completed, or runs out of pages; the row it
\* commits is there before it returns.
Convert ==
  /\ At("convert")
  /\ \/ /\ docs' = [docs EXCEPT ![Cur] = "completed"]
        /\ tally' = [tally EXCEPT !.paid[Cur] = @ + 1]
        /\ run' = [run EXCEPT !.pc = "status", !.status = "completed"]
     \/ /\ docs[Cur] = "completed"
        /\ run' = [run EXCEPT !.pc = "status", !.status = "skipped_completed"]
        /\ UNCHANGED <<docs, tally>>
     \/ /\ docs[Cur] # "completed" /\ Faulty /\ Fault
        /\ run' = [run EXCEPT !.pc = "status", !.status = "partial_budget_exhausted"]
        /\ UNCHANGED docs
  /\ UNCHANGED <<script, zotero, launcher, jobTable>>

ConvertStops ==
  /\ At("convert") /\ Faulty /\ Fault /\ EndRun
  /\ Upsert([NoValue EXCEPT !.md = "stopped", !.err = TRUE])
  /\ UNCHANGED <<script, zotero, docs, launcher>>

ConvertFails ==
  /\ At("convert") /\ Faulty /\ Fault /\ NextOne
  /\ \E md \in {"retryable_error", "failed"} : Upsert([NoValue EXCEPT !.md = md, !.err = TRUE])
  /\ UNCHANGED <<script, zotero, docs, launcher>>

RecordStatus ==
  /\ At("status") /\ To("again") /\ Upsert([NoValue EXCEPT !.md = run.status])
  /\ UNCHANGED <<script, zotero, docs, launcher, tally>>

LookAgain ==
  /\ At("again") /\ IF HasMarkdown(Cur) THEN To("record") ELSE NextOne
  /\ UNCHANGED <<script, zotero, docs, launcher, jobTable, tally>>

Record ==
  /\ At("record") /\ run' = [run EXCEPT !.pc = "post", !.caught = TRUE]
  /\ Upsert([NoValue EXCEPT !.md = "completed", !.key = TRUE])
  /\ UNCHANGED <<script, zotero, docs, launcher, tally>>

\* Mutant: the policy is not looked at again after the conversion.
PostDeletes ==
  /\ At("post") /\ To("check")
  /\ UNCHANGED <<script, zotero, docs, launcher, jobTable, tally>>

Post ==
  /\ At("post")
  /\ IF run.policy = "delete" THEN To("check") /\ UNCHANGED jobTable
     ELSE NextOne /\ Upsert([NoValue EXCEPT !.del = "kept_source_pdf"])
  /\ UNCHANGED <<script, zotero, docs, launcher, tally>>

\* delete_source_pdf, up to the call: a refusal returns like a deletion.
Check ==
  /\ At("check") /\ IF ~jobTable[Cur].deleted /\ MayDelete(Cur) THEN To("call") ELSE NextOne
  /\ UNCHANGED <<script, zotero, docs, launcher, jobTable, tally>>

\* ZoteroWebClient has no delete_item: the call raises.  After a conversion that
\* is caught and noted; where the source was unreadable nothing catches it.
DeleteItem ==
  /\ At("call")
  /\ IF run.caught
     THEN NextOne /\ Upsert([NoValue EXCEPT !.del = "delete_failed", !.err = TRUE])
     ELSE EndRun /\ UNCHANGED jobTable
  /\ UNCHANGED <<script, zotero, docs, launcher, tally>>

AfterRead ==
  \/ UnreadDelete \/ UnreadKeep \/ UnreadMissing \/ ReadSource \/ Look
  \/ Convert \/ ConvertStops \/ ConvertFails \/ RecordStatus \/ LookAgain
  \/ Record \/ Post \/ Check \/ DeleteItem

Loop(Done(_, _)) == Deadline \/ AllSeen \/ Skip(Done) \/ Take(Done) \/ AfterRead

Over100 == script = "over100" /\ (StartFromList(Policies) \/ Loop(Over100Done))
Fifty == script = "fifty" /\ (StartFromZotero \/ Loop(FiftyDone))
Ten == script = "ten" /\ (StartFromZotero \/ Loop(TenDone))
Under10 == script = "under_10" /\ (StartFromZotero \/ Loop(Under10Done) \/ UnreadStops)
Nonlaw == /\ script = "nonlaw"
          /\ \/ StartFromList([p \in Pdf |-> "delete"])
             \/ Loop(LAMBDA p, policy : NonlawDone(p))

-----------------------------------------------------------------------------
(* The giant PDFs: enumerated once with what is converted by then.            *)

\* enumerate_giant_pdfs, inspect_attachment
GiantQueue ==
  {Target(i, "keep", HasMarkdown(Order[i])) :
     i \in Positions({p \in Pdf \ HasText : zotero[p].there})}

GiantStart == Begin(GiantQueue) /\ UNCHANGED jobTable

\* record_job replaces every column.
RecordJob(p, md, key, err) ==
  jobTable' = [jobTable EXCEPT ![p] =
    [NoJob EXCEPT !.there = TRUE, !.policy = "keep", !.md = md, !.key = key, !.err = err]]

GiantSkip ==
  /\ At("next") /\ run.todo # {} /\ Now.old /\ NextOne
  /\ RecordJob(Cur, "skipped_existing_md", TRUE, FALSE)
  /\ UNCHANGED <<script, zotero, docs, launcher, tally>>

GiantTake ==
  /\ At("next") /\ run.todo # {} /\ ~Now.old /\ To("convert")
  /\ RecordJob(Cur, None, FALSE, FALSE)
  /\ UNCHANGED <<script, zotero, docs, launcher, tally>>

\* The budget of pages ends the run; other statuses let it go on.
GiantRecord ==
  /\ At("status")
  /\ RecordJob(Cur, run.status, docs[Cur] # "none", FALSE)
  /\ IF run.status = "partial_budget_exhausted" THEN EndRun ELSE NextOne
  /\ UNCHANGED <<script, zotero, docs, launcher, tally>>

GiantStops ==
  /\ At("convert") /\ Faulty /\ Fault /\ EndRun /\ RecordJob(Cur, "stopped", FALSE, TRUE)
  /\ UNCHANGED <<script, zotero, docs, launcher>>

GiantFails ==
  /\ At("convert") /\ Faulty /\ Fault /\ NextOne
  /\ \E md \in {"retryable_error", "failed"} : RecordJob(Cur, md, FALSE, TRUE)
  /\ UNCHANGED <<script, zotero, docs, launcher>>

Giant == /\ script = "giant"
         /\ \/ GiantStart \/ Deadline \/ AllSeen \/ GiantSkip \/ GiantTake
            \/ Convert \/ GiantRecord \/ GiantStops \/ GiantFails

-----------------------------------------------------------------------------
(* Everything else that moves.                                                *)

\* The process is killed between two commits.
Kill ==
  /\ ~At("off") /\ Faulty /\ Fault /\ EndRun
  /\ UNCHANGED <<script, zotero, docs, launcher, jobTable>>

\* The user takes a PDF out of reach or brings it back, or edits its title.
EditZotero(p) ==
  /\ \/ zotero' = [zotero EXCEPT ![p].there = ~@]
     \/ zotero' = [zotero EXCEPT ![p].law = ~@]
  /\ Edit /\ UNCHANGED <<script, docs, launcher, jobTable, run>>

\* The Markdown of a committed conversion disappears from the output folder.
LoseMarkdown(p) ==
  /\ docs[p] = "completed" /\ docs' = [docs EXCEPT ![p] = "lost"]
  /\ tally.edits < EditBound
  /\ tally' = [tally EXCEPT !.edits = @ + 1, !.lost[p] = @ + 1]
  /\ UNCHANGED <<script, zotero, launcher, jobTable, run>>

\* The daily worker converts a PDF of its own accord.
WorkerConverts(p) ==
  /\ docs[p] = "none" /\ zotero[p].there /\ docs' = [docs EXCEPT ![p] = "completed"]
  /\ Edit /\ UNCHANGED <<script, zotero, launcher, jobTable, run>>

\* The reader rebuilds a book or approves of its cleanup.
EditLauncher(p) ==
  /\ launcher[p].tracked
  /\ \/ launcher' = [launcher EXCEPT ![p].build = 1 - @]
     \/ launcher' = [launcher EXCEPT ![p].bound = ReadingArtifacts(p)]
  /\ Edit /\ UNCHANGED <<script, zotero, docs, jobTable, run>>

World == \E p \in Pdf : EditZotero(p) \/ LoseMarkdown(p) \/ WorkerConverts(p) \/ EditLauncher(p)

Init ==
  /\ script \in Scripts
  /\ zotero = [p \in Pdf |-> [there |-> TRUE, law |-> Policies[p] = "keep"]]
  /\ docs = [p \in Pdf |-> "none"]
  /\ launcher \in [Pdf -> {[tracked |-> FALSE, build |-> 0, bound |-> None],
                           [tracked |-> TRUE, build |-> 1, bound |-> None],
                           [tracked |-> TRUE, build |-> 1, bound |-> 1]}]
  /\ jobTable = [p \in Pdf |-> NoJob]
  /\ run = Ended
  /\ tally = [faults |-> 0, edits |-> 0, paid |-> [p \in Pdf |-> 0], lost |-> [p \in Pdf |-> 0]]

Works == Over100 \/ Fifty \/ Ten \/ Under10 \/ Nonlaw \/ Giant
Next == Works \/ Kill \/ World
Spec == Init /\ [][Next]_cleanupVars

-----------------------------------------------------------------------------
(* Properties.                                                                *)

CleanupTypeOK ==
  /\ script \in Scripts
  /\ zotero \in [Pdf -> [there : BOOLEAN, law : BOOLEAN]]
  /\ docs \in [Pdf -> {"none", "completed", "lost"}]
  /\ launcher \in [Pdf -> Book]
  /\ \A p \in Pdf : jobTable[p].policy \in Policy \cup {None} /\ DOMAIN jobTable[p] = DOMAIN NoJob
  /\ DOMAIN run = DOMAIN Ended /\ \A t \in run.todo : t.pdf \in Pdf

\* Zotero is asked to delete a source only when a conversion of it was committed,
\* the table does not have it as one to keep, and it was not deleted before.
DeletionIsEarned ==
  At("call") => /\ docs[Cur] # "none"
                /\ jobTable[Cur].policy # "keep"
                /\ ~jobTable[Cur].deleted

\* A Markdown attachment that the report counts, and a source it says was kept,
\* stand for a conversion that was committed.
ReportIsTrue == \A p \in ReportedPresent \cup ReportedKept : docs[p] # "none"

\* A PDF is paid for again only when the Markdown of the last time was lost.
ConvertedOnce == \A p \in Pdf : tally.paid[p] <= 1 + tally.lost[p]

\* What a script has finished with the kept source stays finished, whatever is
\* read, seeded or retried afterwards, unless the book is classified anew.
FinishedStands ==
  [][\A p \in Pdf :
       Settled(p, jobTable[p].policy) =>
         Settled(p, jobTable[p].policy)' \/ jobTable'[p].policy # jobTable[p].policy]_cleanupVars

\* A source that can be read from some time on ends with its Markdown recorded,
\* except that two bands give up what was unreadable once.
AllAreDelivered ==
  (\A p \in Pdf : <>[]zotero[p].there) =>
     \A p \in Pdf :
       <>[](\/ jobTable[p].key
            \/ script \in {"fifty", "ten"} /\ MissingIsSettled(p)
            \/ script = "giant" /\ p \in HasText)

\* No source is deleted, counted as kept or paid for again without the conversion
\* that earns it.
SourcesAreRight == CleanupTypeOK /\ DeletionIsEarned /\ ReportIsTrue /\ ConvertedOnce
=============================================================================
