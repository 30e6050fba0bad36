--------------------------- MODULE MineruBatches ---------------------------
(* The MinerU adapter: it cuts long PDFs into parts, sends the parts and the  *)
(* URLs to the service in batches, waits for each batch, downloads what came  *)
(* out and merges the parts of a document into one Markdown file.  It is run  *)
(* from the command line, or by the Zotero worker for one attachment, which   *)
(* then adopts what it finds in the output directory.  The service works at   *)
(* its own pace, may fail an item, and may list an item late.                 *)
(*                                                                            *)
(* A text is a sequence of pages <<source, page, run>>: what the service made *)
(* of that page in that run.                                                  *)
EXTENDS Integers, Sequences, SequencesExt, FiniteSets, FiniteSetsExt

CONSTANTS
  Sources,    \* Sources[s]: [kind, html, name, pages] of an input
  Weight,     \* Weight[s]: the size of a page of s
  MaxPages, MaxBytes, BatchSize,
  Jobs,       \* the ways of running the adapter: [inputs, ranges, ids, worker];
              \* the inputs are distinct, and the worker passes one
  MineruFaults, RunBound

ASSUME SourcesAreFiles == \A s \in DOMAIN Sources : Sources[s].pages \in Nat /\ Weight[s] \in Nat
ASSUME LimitsArePositive == /\ MaxPages \in Nat \ {0} /\ BatchSize \in Nat \ {0} /\ MaxBytes \in Nat
                            /\ MineruFaults \in Nat /\ RunBound \in Nat
ASSUME JobsAreCalls ==
  \A j \in Jobs : /\ j.inputs \in Seq(DOMAIN Sources) /\ j.ranges \in Seq(Int \X Int)
                  /\ j.worker => Len(j.inputs) = 1

VARIABLES
  job,       \* how the adapter is run: chosen once
  adapter,   \* the adapter's process
  service,   \* the batch the service works on: [items, st, listed]
  disk,      \* the output directory: the parts, full.md and the evidence beside it
  adopted,   \* what the worker has committed for the attachment
  tally      \* runs and faults so far

mineruVars == <<job, adapter, service, disk, adopted, tally>>

Src == DOMAIN Sources
IsPdf(s) == Sources[s].kind = "pdf"
IsUrl(s) == Sources[s].kind = "url"
TERMINAL_STATES == {"done", "failed"}

-----------------------------------------------------------------------------
(* Pages and parts.                                                           *)

\* page_number: from the end when negative, 0 when it is refused.
PageNumber(v, total) == LET n == IF v > 0 THEN v ELSE total + v + 1
                        IN IF v # 0 /\ n \in 1 .. total THEN n ELSE 0

Bounds(part, total) == <<PageNumber(part[1], total), PageNumber(part[2], total)>>

RangesAllowed(j, s) ==
  \A i \in DOMAIN j.ranges : LET b == Bounds(j.ranges[i], Sources[s].pages)
                             IN b[1] # 0 /\ b[2] # 0 /\ b[1] <= b[2]

\* parse_page_ranges: in the order asked, each page once.
ParseRanges(j, s) ==
  LET asked == FlattenSeq([n \in DOMAIN j.ranges |->
                 LET b == Bounds(j.ranges[n], Sources[s].pages)
                 IN [i \in 1 .. b[2] - b[1] + 1 |-> b[1] + i - 1]])
  IN FlattenSeq([i \in DOMAIN asked |->
       IF \E k \in 1 .. i - 1 : asked[k] = asked[i] THEN <<>> ELSE <<asked[i]>>])

Selected(j, s) == IF ~IsPdf(s) THEN <<>>
                  ELSE IF j.ranges # <<>> THEN ParseRanges(j, s)
                  ELSE [p \in 1 .. Sources[s].pages |-> p]

\* n things in groups of at most size, each by its first and its last.
InGroups(n, size) == [i \in 1 .. (n + size - 1) \div size |->
                        <<(i - 1) * size + 1, IF i * size < n THEN i * size ELSE n>>]

Bytes(s, g) == (g[2] - g[1] + 1) * Weight[s]

\* split_pdf_groups: groups of MaxPages, and whatever is still too large in halves.
Halved(j, s) ==
  LET n == Len(Selected(j, s))
      cut[g \in (1 .. n) \X (1 .. n)] ==
        LET mid == g[1] + (g[2] - g[1] + 1) \div 2 IN
        IF Bytes(s, g) <= MaxBytes \/ g[1] >= g[2] THEN <<g>>
        ELSE cut[<<g[1], mid - 1>>] \o cut[<<mid, g[2]>>]
  IN cut
Groups(j, s) == LET whole == InGroups(Len(Selected(j, s)), MaxPages)
                IN FlattenSeq([i \in DOMAIN whole |-> Halved(j, s)[whole[i]]])

NeedsSplit(s) == IsPdf(s) /\ (Sources[s].pages > MaxPages \/ Sources[s].pages * Weight[s] > MaxBytes)

\* prepare_local_items: a part carries its number, its pages and a name of its own.
Parts(j, s) ==
  LET groups == Groups(j, s)
      pages == IF NeedsSplit(s)
               THEN [i \in DOMAIN groups |-> SubSeq(Selected(j, s), groups[i][1], groups[i][2])]
               ELSE <<Selected(j, s)>>
  IN [i \in DOMAIN pages |->
        [src |-> s, part |-> i, parts |-> Len(pages), pages |-> pages[i],
         name |-> IF NeedsSplit(s) THEN <<Sources[s].name, i>> ELSE <<Sources[s].name>>]]

\* validate_local_file, split_pdf_groups: what ends the adapter before anything is sent.
Acceptable(j, s) ==
  IsPdf(s) => /\ Sources[s].pages > 0 /\ RangesAllowed(j, s)
              /\ NeedsSplit(s) => \A g \in Range(Groups(j, s)) : Bytes(s, g) <= MaxBytes

\* The elements of s that pass the test, in their order.
Those(s, Test(_)) == FlattenSeq([i \in DOMAIN s |-> IF Test(s[i]) THEN <<s[i]>> ELSE <<>>])
Locals(j) == Those(j.inputs, LAMBDA s : ~IsUrl(s))
Urls(j) == Those(j.inputs, IsUrl)

\* model_batches: HTML goes to a model of its own; groups of at most BatchSize.
ModelBatches(items) ==
  LET Html(it) == Sources[it.src].html
      Other(it) == ~Html(it)
      Group(its) == LET gs == InGroups(Len(its), BatchSize)
                    IN [i \in DOMAIN gs |-> SubSeq(its, gs[i][1], gs[i][2])]
      one == Those(items, Html)  two == Those(items, Other)
  IN IF items # <<>> /\ Html(items[1]) THEN Group(one) \o Group(two) ELSE Group(two) \o Group(one)

LocalItems(j) == FlattenSeq([i \in DOMAIN Locals(j) |-> Parts(j, Locals(j)[i])])
UrlItems(j) == FlattenSeq([i \in DOMAIN Urls(j) |-> Parts(j, Urls(j)[i])])
UrlMode(j) == IF Len(Urls(j)) = 1 THEN "single" ELSE "batch"

-----------------------------------------------------------------------------
(* Results and their items.                                                   *)

\* The listed entries; with identifiers or with names only, as the service has it.
Listed == service.listed
SameName(it) == {x \in Listed : service.items[x].name = it.name}
ById(it) == {x \in Listed : job.ids /\ service.items[x] = it}

\* Mutant: the first result of that name will do.
MatchAnyName(it) ==
  IF SameName(it) # {} THEN Min(SameName(it)) ELSE 0

\* matched_batch_results: by identifier, else by a name that only one result has.
Match(it) ==
  IF ById(it) # {} THEN CHOOSE x \in ById(it) : TRUE
  ELSE IF Cardinality(SameName(it)) = 1 THEN CHOOSE x \in SameName(it) : TRUE ELSE 0

Matched == [x \in DOMAIN service.items |-> Match(service.items[x])]
Complete == \A x \in DOMAIN Matched : Matched[x] # 0

\* What the service makes of the file it was sent for an item.
TextOf(it) == IF it.pages = <<>> THEN << <<it.src, 0, tally.runs>> >>
              ELSE [k \in DOMAIN it.pages |-> <<it.src, it.pages[k], tally.runs>>]

-----------------------------------------------------------------------------
(* The adapter.                                                               *)

NoService == [items |-> <<>>, st |-> <<>>, listed |-> {}]
AdapterOff == [pc |-> "off", batches |-> <<>>, todo |-> <<>>, got |-> {}, merge |-> <<>>,
        match |-> <<>>, phase |-> "local"]
NoDisk == [part |-> [s \in Src |-> <<>>], full |-> [s \in Src |-> <<>>],
           ev |-> [s \in Src |-> <<>>]]

MineruInit ==
  /\ job \in Jobs
  /\ adapter = AdapterOff /\ service = NoService /\ disk = NoDisk
  /\ adopted = [pages |-> <<>>, text |-> <<>>]
  /\ tally = [runs |-> 0, faults |-> 0, late |-> FALSE]

MineruFault == tally.faults < MineruFaults /\ tally' = [tally EXCEPT !.faults = @ + 1]
AdapterAt(pc) == adapter.pc = pc
Exit(code) == adapter' = [AdapterOff EXCEPT !.pc = code]

\* The worker gives every run a directory of its own.
StartAdapter ==
  /\ adapter.pc \in {"off", "failed"} \/ (AdapterAt("done") /\ ~job.worker)
  /\ tally.runs < RunBound
  /\ tally' = [tally EXCEPT !.runs = @ + 1]
  /\ disk' = IF job.worker THEN NoDisk ELSE disk
  /\ IF \A s \in Range(Locals(job)) : Acceptable(job, s)
     THEN adapter' = [AdapterOff EXCEPT !.pc = "batch", !.batches = ModelBatches(LocalItems(job))]
     ELSE Exit("failed")
  /\ service' = NoService /\ UNCHANGED <<job, adopted>>

\* submit_local_batch, submit_url_batch: the batch exists, the files follow.
SubmitBatch ==
  /\ AdapterAt("batch") /\ adapter.batches # <<>>
  /\ LET items == Head(adapter.batches) IN
     /\ service' = [items |-> items, listed |-> {},
                    st |-> [x \in DOMAIN items |-> IF adapter.phase = "local" THEN "waiting" ELSE "running"]]
     /\ adapter' = [adapter EXCEPT !.pc = "upload", !.batches = Tail(@),
                      !.todo = IF adapter.phase = "local" THEN [x \in DOMAIN items |-> x] ELSE <<>>]
  /\ UNCHANGED <<job, disk, adopted, tally>>

Upload ==
  /\ AdapterAt("upload") /\ adapter.todo # <<>>
  /\ service' = [service EXCEPT !.st[Head(adapter.todo)] = "running"]
  /\ adapter' = [adapter EXCEPT !.todo = Tail(@)]
  /\ UNCHANGED <<job, disk, adopted, tally>>

Uploaded ==
  /\ AdapterAt("upload") /\ adapter.todo = <<>>
  /\ adapter' = [adapter EXCEPT !.pc = "poll"]
  /\ UNCHANGED <<job, service, disk, adopted, tally>>

\* A refused submission or upload, the deadline of a poll, a failed download, a kill.
Breaks ==
  /\ adapter.pc \in {"batch", "upload", "poll", "download", "merge", "evidence"}
  /\ MineruFault /\ Exit("failed")
  /\ UNCHANGED <<job, service, disk, adopted>>

\* poll_batch: until every item has a result and every result is final.
BatchPolled ==
  /\ AdapterAt("poll") /\ Complete
  /\ \A x \in DOMAIN Matched : service.st[Matched[x]] \in TERMINAL_STATES
  /\ adapter' = [adapter EXCEPT !.pc = "download", !.match = Matched,
                                !.todo = [x \in DOMAIN service.items |-> x]]
  /\ tally' = [tally EXCEPT !.late = @ \/ Listed # DOMAIN service.items]
  /\ UNCHANGED <<job, service, disk, adopted>>

\* One failed item fails the batch, and the adapter, before anything is downloaded.
BatchFailed ==
  /\ AdapterAt("download") /\ \E x \in Range(adapter.match) : service.st[x] = "failed"
  /\ Exit("failed")
  /\ UNCHANGED <<job, service, disk, adopted, tally>>

\* download_results: the archive is unpacked in the part's directory.
DownloadPart ==
  /\ AdapterAt("download") /\ adapter.todo # <<>>
  /\ \A x \in Range(adapter.match) : service.st[x] = "done"
  /\ LET it == service.items[Head(adapter.todo)]
         text == TextOf(service.items[adapter.match[Head(adapter.todo)]])
     IN /\ disk' = [disk EXCEPT !.part[it.src] =
                      [i \in 1 .. Max({it.part, Len(@)}) |-> IF i = it.part THEN text
                                                            ELSE IF i \in DOMAIN @ THEN @[i] ELSE <<>>]]
        /\ adapter' = [adapter EXCEPT !.todo = Tail(@), !.got = @ \cup {it}]
  /\ UNCHANGED <<job, service, adopted, tally>>

\* process_batches: local documents are merged after their last batch, URLs batch by batch.
BatchDone ==
  /\ AdapterAt("download") /\ adapter.todo = <<>>
  /\ adapter' = IF adapter.phase = "local" /\ adapter.batches # <<>>
                THEN [adapter EXCEPT !.pc = "batch"]
                ELSE [adapter EXCEPT !.pc = "merge", !.merge = Those(job.inputs,
                        LAMBDA s : \E it \in adapter.got : it.src = s)]
  /\ UNCHANGED <<job, service, disk, adopted, tally>>

\* merge_downloaded_parts: the parts in their order; the evidence is written after it.
Merge ==
  /\ AdapterAt("merge") /\ adapter.merge # <<>>
  /\ LET s == Head(adapter.merge)  parts == {it \in adapter.got : it.src = s} IN
     IF \A it \in parts : Cardinality(parts) = it.parts
     THEN /\ disk' = [disk EXCEPT !.full[s] = FlattenSeq(SubSeq(disk.part[s], 1, Cardinality(parts)))]
          /\ adapter' = [adapter EXCEPT !.pc = "evidence"]
     ELSE Exit("failed") /\ UNCHANGED disk
  /\ UNCHANGED <<job, service, adopted, tally>>

\* write_markdown_evidence and the manifest: the original pages of every part.
WriteEvidence ==
  /\ AdapterAt("evidence")
  /\ LET s == Head(adapter.merge)
         parts == {it \in adapter.got : it.src = s}
         sorted == CHOOSE q \in [1 .. Cardinality(parts) -> parts] :
                     \A i, k \in DOMAIN q : i < k => q[i].part < q[k].part
     IN disk' = [disk EXCEPT !.ev[s] = FlattenSeq([i \in DOMAIN sorted |-> sorted[i].pages])]
  /\ adapter' = [adapter EXCEPT !.pc = "merge", !.merge = Tail(@)]
  /\ UNCHANGED <<job, service, adopted, tally>>

Merged ==
  /\ \/ AdapterAt("merge") /\ adapter.merge = <<>>
     \/ AdapterAt("batch") /\ adapter.batches = <<>> /\ adapter.phase = "local"
  /\ \/ /\ adapter.batches # <<>>                       \* the next batch of URLs
        /\ adapter' = [adapter EXCEPT !.pc = "batch", !.got = {}]
     \/ /\ adapter.batches = <<>> /\ adapter.phase = "local" /\ Urls(job) # <<>>
        /\ adapter' = [adapter EXCEPT !.pc = IF UrlMode(job) = "single" THEN "task" ELSE "batch",
                         !.phase = "url", !.got = {}, !.batches = ModelBatches(UrlItems(job))]
     \/ /\ adapter.batches = <<>> /\ (adapter.phase = "url" \/ Urls(job) = <<>>)
        /\ Exit("done")
  /\ UNCHANGED <<job, service, disk, adopted, tally>>

\* A single URL is a task, not a batch: submit_single_url_task, poll_single_task ...
SubmitTask ==
  /\ AdapterAt("task")
  /\ service' = [items |-> UrlItems(job), st |-> <<"running">>, listed |-> {1}]
  /\ adapter' = [adapter EXCEPT !.pc = "await"]
  /\ UNCHANGED <<job, disk, adopted, tally>>

\* ... download_single_result: unpacked as it is, nothing merged and no evidence.
EndTask ==
  /\ AdapterAt("await") /\ service.st[1] \in TERMINAL_STATES
  /\ IF service.st[1] = "done"
     THEN Exit("done") /\ disk' = [disk EXCEPT !.part[Urls(job)[1]] = <<TextOf(UrlItems(job)[1])>>]
     ELSE Exit("failed") /\ UNCHANGED disk
  /\ UNCHANGED <<job, service, adopted, tally>>

-----------------------------------------------------------------------------
(* The worker's route, and the service.                                       *)

Increasing(pages) == \A i, j \in DOMAIN pages : i < j => pages[i] < pages[j]

\* _process_mineru_route: exactly one Markdown file that is not empty, beside evidence
\* whose pages were asked for and increase; the directory is copied, then committed.
Adopt ==
  /\ AdapterAt("done") /\ job.worker
  /\ LET s == job.inputs[1] IN
     adopted' = IF /\ disk.full[s] # <<>> /\ disk.ev[s] # <<>>
                   /\ Increasing(disk.ev[s]) /\ ToSet(disk.ev[s]) \subseteq ToSet(Selected(job, s))
                THEN [pages |-> disk.ev[s], text |-> disk.full[s]] ELSE adopted
  /\ adapter' = AdapterOff /\ disk' = NoDisk
  /\ UNCHANGED <<job, service, tally>>

List(x) ==
  /\ x \in DOMAIN service.items \ Listed
  /\ service' = [service EXCEPT !.listed = @ \cup {x}]
  /\ UNCHANGED <<job, adapter, disk, adopted, tally>>

Extract(x) ==
  /\ x \in DOMAIN service.items /\ service.st[x] = "running"
  /\ \/ service' = [service EXCEPT !.st[x] = "done"] /\ UNCHANGED tally
     \/ service' = [service EXCEPT !.st[x] = "failed"] /\ MineruFault
  /\ UNCHANGED <<job, adapter, disk, adopted>>

MineruStep == \/ SubmitBatch \/ Upload \/ Uploaded \/ BatchPolled \/ BatchFailed \/ DownloadPart
              \/ BatchDone \/ Merge \/ WriteEvidence \/ Merged \/ SubmitTask \/ EndTask \/ Adopt

MineruNext == \/ StartAdapter \/ MineruStep \/ Breaks
              \/ \E x \in DOMAIN service.items : List(x) \/ Extract(x)

MineruSpec == MineruInit /\ [][MineruNext]_mineruVars

-----------------------------------------------------------------------------
(* Properties.                                                                *)

\* The adapter polls what it submitted, downloads what it matched, merges what it has.
MineruTypeOK ==
  /\ adapter.pc \in {"off", "batch", "upload", "poll", "download", "merge", "evidence", "task",
                    "await", "done", "failed"}
  /\ ToSet(adapter.todo) \subseteq DOMAIN service.items /\ Listed \subseteq DOMAIN service.items
  /\ adapter.pc = "download" => \A x \in DOMAIN service.items : adapter.match[x] \in Listed
  /\ \A it \in adapter.got : it.part \in DOMAIN disk.part[it.src]
  /\ ToSet(adapter.merge) \subseteq ToSet(job.inputs)

\* A merged document holds the pages asked for of its own source, once, in order and all
\* from one run, however it was cut and whatever the other documents of its batch are
\* called; only a batch that was taken before the service had listed all of its items
\* may have mistaken one for another.
Expected(s, r) == IF Selected(job, s) = <<>> THEN << <<s, 0, r>> >>
                  ELSE [k \in DOMAIN Selected(job, s) |-> <<s, Selected(job, s)[k], r>>]
DocumentIsItsOwn ==
  \A s \in Src : \/ disk.full[s] = <<>> \/ tally.late
                 \/ \E r \in 1 .. tally.runs : disk.full[s] = Expected(s, r)

\* While a batch of local files is still out, no local document has been rewritten: a
\* run that fails in a batch leaves the documents of the last run as they were.
FailedRunIsClean ==
  adapter.pc \in {"batch", "upload", "poll", "download"} /\ adapter.phase = "local" =>
    \A s \in Range(Locals(job)) : \A k \in DOMAIN disk.full[s] : disk.full[s][k][3] < tally.runs

\* What the worker commits is the whole selection, and its text is that of those pages.
AdoptedIsWhole ==
  adopted.pages # <<>> =>
    /\ adopted.pages = Selected(job, job.inputs[1])
    /\ \E r \in 1 .. tally.runs : adopted.text = Expected(job.inputs[1], r)

\* A document is its own source's, a failed run leaves it alone, and the worker
\* commits the whole of it.
MineruIsRight == MineruTypeOK /\ DocumentIsItsOwn /\ FailedRunIsClean /\ AdoptedIsWhole
=============================================================================
