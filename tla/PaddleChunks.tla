---------------------------- MODULE PaddleChunks ----------------------------
(* The Paddle route of the Zotero worker: the pages of a PDF are cut into     *)
(* chunks, each chunk is a paid job at Baidu, and a table of chunks lets a    *)
(* later run take up what an earlier one left: it polls a job that was        *)
(* submitted, reuses a result that was downloaded and cuts in halves what     *)
(* failed.  Runs follow one another, with any of the models, and may die      *)
(* between any two steps; Baidu works through the jobs at its own pace.       *)
(*                                                                            *)
(* A chunk is the pair of its first and last page.  A result is named by the  *)
(* job it came from, and holds one entry per page of the chunk.               *)
EXTENDS Integers, Sequences, SequencesExt, FiniteSets

CONSTANTS
  PageCount,   \* PageCount[b]: the pages of PDF b; a run takes the PDFs in order
  Selection,   \* Selection[b]: the pages asked for, increasing
  JobPages,    \* max_ocr_pages_per_job
  RunPages,    \* the page budget of a run
  TooLarge,    \* the chunks <<b, first, last>> whose file exceeds the upload limit
  Model,       \* the models a run may be configured with
  FaultBound   \* failed or stalled jobs, lost replies, deaths, changes of model

ASSUME BudgetFits == JobPages \in Nat \ {0} /\ RunPages \in Nat /\ RunPages >= JobPages
ASSUME RunsAreBounded == Model # {} /\ FaultBound \in Nat
ASSUME SelectionIncreases ==
  /\ PageCount \in Seq(Nat)
  /\ \A b \in DOMAIN PageCount :
       /\ Selection[b] \in Seq(1 .. PageCount[b])
       /\ \A i, j \in DOMAIN Selection[b] : i < j => Selection[b][i] < Selection[b][j]

VARIABLES
  row,     \* row[b][c]: the row of the chunk table, [st, job]
  file,    \* file[b][c]: the job whose result the chunk's .jsonl holds, 0 if none
  jobs,    \* the jobs Baidu has accepted, in order
  doc,     \* doc[b]: the conversion evidence of PDF b
  run,     \* the run under way
  faults   \* how many of the FaultBound faults have happened

vars == <<row, file, jobs, doc, run, faults>>

Book == DOMAIN PageCount
Chunk(b) == {c \in (1 .. PageCount[b]) \X (1 .. PageCount[b]) : c[1] <= c[2]}
Pages(c) == c[1] .. c[2]
Size(c) == c[2] - c[1] + 1
NoRow == [st |-> "none", job |-> 0]

-----------------------------------------------------------------------------
(* Cutting.                                                                   *)

\* page_chunks: runs of consecutive pages, each at most JobPages long.
PageChunks(pages) ==
  LET cut[n \in 0 .. Len(pages)] ==
        IF n = 0 THEN <<>>
        ELSE LET cs == cut[n - 1]  p == pages[n] IN
             IF cs # <<>> /\ p = Last(cs)[2] + 1 /\ Size(Last(cs)) < JobPages
             THEN Front(cs) \o << <<Last(cs)[1], p>> >>
             ELSE Append(cs, <<p, p>>)
  IN cut[Len(pages)]

\* split_pages: the shorter half first.
Halves(c) == LET mid == c[1] + Size(c) \div 2
             IN << <<c[1], mid - 1>>, <<mid, c[2]>> >>

\* ensure_chunk_under_limit: a file above the limit is halved, and halved again.
UnderLimit(b) ==
  LET cut[c \in Chunk(b)] ==
        IF <<b, c[1], c[2]>> \in TooLarge /\ Size(c) > 1
        THEN cut[Halves(c)[1]] \o cut[Halves(c)[2]] ELSE <<c>>
  IN cut

Specs(b, chunks) == FlattenSeq([i \in DOMAIN chunks |-> UnderLimit(b)[chunks[i]]])
ChunkSpecs == [b \in Book |-> Specs(b, PageChunks(Selection[b]))]

\* should_split_failed_ocr, and the test for more than one page beside it.
MaySplit(c) == Size(c) > 1

\* result_file_matches_model: the entries of another model have another name.
Matches(job, model) == job # 0 /\ jobs[job].model = model

\* read_layout_markdown, read_ocr_pages: the entries of a result are numbered from the
\* first page of its chunk; a result of another model has none that are looked for.
Entries(job, model) ==
  IF Matches(job, model) THEN [i \in 1 .. Size(jobs[job].chunk) |-> jobs[job].chunk[1] + i - 1]
  ELSE <<>>

-----------------------------------------------------------------------------
(* A run: main and process_attachment around the route.                       *)

Idle == [pc |-> "idle", model |-> CHOOSE m \in Model : TRUE, book |-> 1, left |-> 0,
         pages |-> 0, queue |-> <<>>, ready |-> <<>>, job |-> 0,
         read |-> 0, lost |-> 0, inherited |-> FALSE]

Init ==
  /\ row = [b \in Book |-> [c \in Chunk(b) |-> NoRow]]
  /\ file = [b \in Book |-> [c \in Chunk(b) |-> 0]]
  /\ jobs = <<>>
  /\ doc = [b \in Book |-> [pages |-> <<>>, model |-> Idle.model, inherited |-> FALSE]]
  /\ run = Idle
  /\ faults = 0

Fault == faults < FaultBound /\ faults' = faults + 1
At(pc) == run.pc = pc
c0 == Head(run.queue)
TheRow == row[run.book][c0]
RunEnd == [Idle EXCEPT !.model = run.model]

\* Completed PDFs are passed over; the last one ends the run.
NextBook(left, lost) ==
  IF run.book + 1 \in Book
  THEN [run EXCEPT !.pc = "open", !.book = @ + 1, !.left = left, !.lost = lost,
                   !.queue = <<>>, !.job = 0]
  ELSE RunEnd

Completed(b) == doc[b].pages = [p \in 1 .. PageCount[b] |-> p]

StartRun(m) ==
  /\ At("idle") /\ \E b \in Book : ~Completed(b)
  /\ IF m = run.model THEN UNCHANGED faults ELSE Fault
  /\ run' = [Idle EXCEPT !.pc = "open", !.model = m, !.left = RunPages]
  /\ UNCHANGED <<row, file, jobs, doc>>

PassOver ==
  /\ At("open") /\ Completed(run.book)
  /\ run' = NextBook(run.left, run.lost)
  /\ UNCHANGED <<row, file, jobs, doc, faults>>

\* Everything is cut before the first job; `pages' counts what this call reads.
Open ==
  /\ At("open") /\ ~Completed(run.book)
  /\ run' = [run EXCEPT !.pc = "take", !.ready = <<>>, !.pages = 0, !.inherited = FALSE,
                        !.queue = ChunkSpecs[run.book]]
  /\ UNCHANGED <<row, file, jobs, doc, faults>>

\* The budget is compared before the cache is looked at, and stops the whole batch.
Exhausted ==
  /\ At("take") /\ run.queue # <<>> /\ Size(c0) > run.left
  /\ run' = RunEnd
  /\ UNCHANGED <<row, file, jobs, doc, faults>>

Takes == At("take") /\ run.queue # <<>> /\ Size(c0) <= run.left

\* What the table says of the chunk at the head of the queue.
IsCached == TheRow.st = "done" /\ file[run.book][c0] # 0

\* Mutant: any downloaded result will do.
CachedIsReusable == IsCached

Reusable == IsCached /\ Matches(file[run.book][c0], run.model)

KnownRow == IF IsCached THEN NoRow ELSE TheRow

UseCached ==
  /\ Takes /\ Reusable
  /\ run' = [run EXCEPT !.queue = Tail(@), !.ready = Append(@, c0)]
  /\ UNCHANGED <<row, file, jobs, doc, faults>>

\* Mutant: the halves wait behind the other chunks.
InHalvesLast == Tail(run.queue) \o Specs(run.book, Halves(c0))

\* The halves of a chunk go to the front of the queue.
InHalves == Specs(run.book, Halves(c0)) \o Tail(run.queue)

SplitAgain ==
  /\ Takes /\ ~Reusable /\ KnownRow.st = "failed_split"
  /\ run' = [run EXCEPT !.queue = InHalves]
  /\ UNCHANGED <<row, file, jobs, doc, faults>>

\* A recorded job is polled again, whichever model it was submitted for.
Resume ==
  /\ Takes /\ ~Reusable /\ KnownRow.st # "failed_split" /\ KnownRow.job # 0
  /\ run' = [run EXCEPT !.pc = "poll", !.job = KnownRow.job,
                        !.inherited = @ \/ jobs[KnownRow.job].model # run.model]
  /\ UNCHANGED <<row, file, jobs, doc, faults>>

Fresh == Takes /\ ~Reusable /\ KnownRow.st # "failed_split" /\ KnownRow.job = 0
NewJob == [book |-> run.book, chunk |-> c0, model |-> run.model, st |-> "running",
           recorded |-> FALSE, dropped |-> FALSE]

\* submit_job: the job exists before its number is written down ...
Submit ==
  /\ Fresh
  /\ jobs' = Append(jobs, NewJob)
  /\ run' = [run EXCEPT !.pc = "record", !.job = Len(jobs) + 1]
  /\ UNCHANGED <<row, file, doc, faults>>

\* ... and when the reply is lost the file is posted once more.
SubmitReplyLost ==
  /\ Fresh /\ Fault
  /\ jobs' = Append(jobs, NewJob)
  /\ UNCHANGED <<row, file, doc, run>>

Write(b, c, r) == row' = [row EXCEPT ![b][c] = r]

Record ==
  /\ At("record")
  /\ Write(run.book, c0, [st |-> "submitted", job |-> run.job])
  /\ jobs' = [jobs EXCEPT ![run.job].recorded = TRUE]
  /\ run' = [run EXCEPT !.pc = "poll"]
  /\ UNCHANGED <<file, doc, faults>>

Polled ==
  /\ At("poll") /\ jobs[run.job].st = "done"
  /\ run' = [run EXCEPT !.pc = "download"]
  /\ UNCHANGED <<row, file, jobs, doc, faults>>

\* download_jsonl and write_text
Download ==
  /\ At("download")
  /\ file' = [file EXCEPT ![run.book][c0] = run.job]
  /\ run' = [run EXCEPT !.pc = "written"]
  /\ UNCHANGED <<row, jobs, doc, faults>>

\* The row, the count of pages used and the budget change together.
RecordDone ==
  /\ At("written")
  /\ Write(run.book, c0, [st |-> "done", job |-> run.job])
  /\ run' = [run EXCEPT !.pc = "take", !.queue = Tail(@), !.ready = Append(@, c0), !.job = 0,
                        !.pages = @ + Size(c0), !.left = @ - Size(c0), !.read = @ + Size(c0)]
  /\ UNCHANGED <<file, jobs, doc, faults>>

\* A job that failed, or makes no progress for five minutes.
JobFails == At("poll") /\ jobs[run.job].st = "failed" /\ UNCHANGED faults
JobStalls == At("poll") /\ jobs[run.job].st = "running" /\ Fault
SubmitFails == Fresh /\ Fault

\* More than one page: the row says so, and the halves take the chunk's place.
SplitFailed ==
  /\ JobFails \/ JobStalls \/ SubmitFails
  /\ MaySplit(c0)
  /\ Write(run.book, c0, [st |-> "failed_split", job |-> run.job])
  /\ jobs' = IF run.job = 0 THEN jobs ELSE [jobs EXCEPT ![run.job].dropped = TRUE]
  /\ run' = [run EXCEPT !.pc = "take", !.queue = InHalves, !.job = 0]
  /\ UNCHANGED <<file, doc>>

\* The exception leaves the route without its count of pages: main writes an error row,
\* goes on to the next PDF and subtracts nothing from the budget.
Abandon == run' = NextBook(run.left + run.pages, run.lost + run.pages)

Raise ==
  /\ JobFails \/ JobStalls \/ SubmitFails
  /\ ~MaySplit(c0)
  /\ Abandon
  /\ UNCHANGED <<row, file, jobs, doc>>

DownloadFails == At("download") /\ Fault /\ Abandon /\ UNCHANGED <<row, file, jobs, doc>>

\* The quota or the time is up (main stops the batch), or the process is killed.
Stop ==
  /\ ~At("idle") /\ Fault
  /\ run' = RunEnd
  /\ UNCHANGED <<row, file, jobs, doc>>

\* The results of the finished chunks, in the order they were finished.
Assembled == FlattenSeq([i \in DOMAIN run.ready |->
                           Entries(file[run.book][run.ready[i]], run.model)])

\* coverage_status: some page, and strictly increasing.
Covers(pages) == /\ pages # <<>>
                 /\ \A i, j \in DOMAIN pages : i < j => pages[i] < pages[j]

Assemble ==
  /\ At("take") /\ run.queue = <<>> /\ Covers(Assembled)
  /\ doc' = [doc EXCEPT ![run.book] = [pages |-> Assembled, model |-> run.model,
                                       inherited |-> run.inherited]]
  /\ run' = NextBook(run.left, run.lost)
  /\ UNCHANGED <<row, file, jobs, faults>>

AssemblyRefused ==
  /\ At("take") /\ run.queue = <<>> /\ ~Covers(Assembled)
  /\ Abandon
  /\ UNCHANGED <<row, file, jobs, doc, faults>>

Finish(j) ==
  /\ jobs[j].st = "running"
  /\ jobs' = [jobs EXCEPT ![j].st = "done"]
  /\ UNCHANGED <<row, file, doc, run, faults>>

Fail(j) ==
  /\ jobs[j].st = "running" /\ Fault
  /\ jobs' = [jobs EXCEPT ![j].st = "failed"]
  /\ UNCHANGED <<row, file, doc, run>>

Step == \/ PassOver \/ Open \/ UseCached \/ SplitAgain \/ Resume \/ Submit \/ Record
        \/ Exhausted \/ Polled \/ Download \/ RecordDone \/ Assemble \/ AssemblyRefused
        \/ SplitFailed \/ Raise

Next == \/ \E m \in Model : StartRun(m)
        \/ Step \/ SubmitReplyLost \/ DownloadFails \/ Stop
        \/ \E j \in DOMAIN jobs : Finish(j) \/ Fail(j)

Spec == Init /\ [][Next]_vars

(* Runs are started daily, a live run goes on, and Baidu ends its jobs.       *)
Fairness ==
  /\ WF_vars(Step)
  /\ WF_vars(\E m \in Model : m = run.model /\ StartRun(m))
  /\ WF_vars(\E j \in DOMAIN jobs : Finish(j))
FairSpec == Spec /\ Fairness

-----------------------------------------------------------------------------
(* Properties.                                                                *)

\* The tables speak of jobs that exist, and the run is at a chunk it has cut.
TypeOK ==
  LET Job == 0 .. Len(jobs) IN
  /\ \A b \in Book : \A c \in Chunk(b) :
       /\ row[b][c].st \in {"none", "submitted", "done", "failed_split"}
       /\ row[b][c].job \in Job /\ file[b][c] \in Job
       /\ row[b][c].st \in {"submitted", "done"} => row[b][c].job # 0
       /\ row[b][c].st = "done" => file[b][c] = row[b][c].job
       /\ file[b][c] # 0 => jobs[file[b][c]].book = b /\ jobs[file[b][c]].chunk = c
  /\ run.pc \in {"idle", "open", "take", "record", "poll", "download", "written"}
  /\ run.pc \in {"record", "poll", "download", "written"} <=> run.job # 0
  /\ run.left \in 0 .. RunPages /\ faults \in 0 .. FaultBound

\* A committed conversion holds every page asked for, once and in order, whatever was
\* split, resumed or taken from the cache before; only a run that polled a job which an
\* earlier run had submitted for another model can commit less.
ConversionIsWhole ==
  \A b \in Book : doc[b].pages \in {<<>>, Selection[b]} \/ doc[b].inherited

\* No page is paid for twice: two jobs for the same page that were both written down
\* are of different models, or one of another model came between them, or the first
\* had failed and was cut up, or was forgotten when its chunk was cut up because a job
\* for another model could not be posted.
PaidOnce ==
  LET Recorded == {j \in DOMAIN jobs : jobs[j].recorded}
      Overlap(i, j) == /\ jobs[i].book = jobs[j].book
                       /\ Pages(jobs[i].chunk) \cap Pages(jobs[j].chunk) # {}
  IN \A j, k \in Recorded :
       j < k /\ Overlap(j, k) /\ jobs[j].model = jobs[k].model =>
         \/ jobs[j].dropped
         \/ row[jobs[j].book][jobs[j].chunk] = [st |-> "failed_split", job |-> 0]
         \/ \E i \in Recorded : j < i /\ i < k /\ Overlap(i, k) /\ jobs[i].model # jobs[k].model

\* A run reads no more pages than its budget, the pages of PDFs that raised aside.
BudgetKept == run.read - run.lost <= RunPages

\* Every PDF is converted in the end, run after run, unless a single page of it is left
\* with a failed job, which every later run polls again.
Stuck(b) == \E c \in Chunk(b) : /\ Size(c) = 1 /\ row[b][c].st = "submitted"
                                /\ jobs[row[b][c].job].st = "failed"
EveryPdfIsRead == \A b \in Book : <>[](doc[b].pages = Selection[b] \/ Stuck(b))

\* Conversions are whole and are paid for once, within the budget of their run.
PaddleIsRight == TypeOK /\ ConversionIsWhole /\ PaidOnce /\ BudgetKept
=============================================================================
