--------------------------- MODULE CollectionRun ---------------------------
(***************************************************************************)
(* A durable collection: the run and the retry of its books, attachment by *)
(* attachment, from the route to the handoff (book_pipeline.rs).           *)
(*                                                                         *)
(* A command works through the job in a loop.  Each of its loads, with the *)
(* change and the save that follow it, is one step: a save based on an old *)
(* revision is refused (BookPipelineStore), which ends the command.  What  *)
(* a dead or refused command leaves RUNNING is failed by the next load,    *)
(* before anybody reads the job; here by the step that ends the command.   *)
(* Between two steps other commands run, the user overrides a route or     *)
(* drops a book from the shelf, and the files of a book change.            *)
(***************************************************************************)
EXTENDS StageRules

CONSTANTS
  Runner,     \* the runs and retries that may be under way at once
  Children,   \* the number of books, in the order of job.children
  Tokens,     \* the route overrides a user may ask for
  Queued,     \* those a book may be queued with
  Missing,    \* those whose engine has no credentials
  Live,       \* what the worker may say of a book: "ocr", "held", "reused"
  Edits,      \* what may happen to the books: "drop", "override", "pdf", "text"
  FailureBound, \* failures of runners, validations and commands
  ChangeBound   \* such changes

ASSUME CollectionAssumption ==
  /\ Children \in Nat \ {0} /\ FailureBound \in Nat /\ ChangeBound \in Nat
  /\ Queued \subseteq Tokens /\ Missing \subseteq Tokens \ {"auto", "direct", "keep"}
  /\ Tokens \subseteq {"auto", "direct", "keep", "paddle", "mineru"}
  /\ Live \subseteq {"ocr", "held", "reused"} /\ Live # {}
  /\ Edits \subseteq {"drop", "override", "pdf", "text"}
  /\ NoOwner \notin Runner /\ AgentOwner \notin Runner

VARIABLES
  books,  \* the saved children: stages, override, route, and whether dropped
  disk,   \* their files: the PDF against the frozen identity, the Markdown
          \* against its evidence
  run,    \* the commands under way
  used    \* faults and edits so far

collectionVars == <<books, disk, run, used>>

Child == 1 .. Children
Durable == {"route", "extract", "index", "handoff"}

\* The stages of a book up to the one an advance begins with (AdvanceStage).
BookStages == Durable \cup {"split"}

-----------------------------------------------------------------------------
(* The job and its saves.                                                  *)

Stage(status) == [status |-> status, hashes |-> {}, owner |-> NoOwner]

\* collection_snapshot_child, for an attachment that is eligible or is not.
NewBook(eligible, token) ==
  [stages |-> [s \in BookStages |->
                 IF s = "route" THEN Stage(IF eligible THEN "ready" ELSE "blocked")
                 ELSE Stage("pending")],
   chosen |-> token, route |-> "none", dropped |-> FALSE]

\* set_stage_status
To(b, s, status) == [b EXCEPT !.stages[s] = [@ EXCEPT !.status = status, !.owner = NoOwner]]

\* Mutant: a save is checked for its shape, not against the saved job.
AcceptableByShape(new) == \A b \in Child : ValidChild(new[b].stages)

\* validate_state and validate_state_transitions.
Acceptable(new) ==
  \A b \in Child :
    /\ ValidChild(new[b].stages)
    /\ \A s \in BookStages : IsAllowedTransition(s, books[b].stages[s], new[b].stages[s], 0)

Is(b, s, status) == books[b].stages[s].status = status

IdleRun == [at |-> "idle", check |-> FALSE, retry |-> FALSE, book |-> 1, stage |-> "none",
            chosen |-> "auto"]

\* The loop goes on; the evidence was validated, the stage to retry is retried.
Looping == [IdleRun EXCEPT !.at = "head"]

GoesTo(p, next) == run' = [run EXCEPT ![p] = next]

\* The command returns with an error, or dies: what it was running is failed by
\* the next load.
EndRun(p) ==
  /\ GoesTo(p, IdleRun)
  /\ books' = [b \in Child |-> [books[b] EXCEPT !.stages = [s \in BookStages |->
       IF @[s].owner = p THEN [@[s] EXCEPT !.status = "failed", !.owner = NoOwner] ELSE @[s]]]]

\* One save; what the store refuses ends the command.
Save(p, b, new, next) ==
  LET all == [books EXCEPT ![b] = new]
  IN  IF Acceptable(all) THEN books' = all /\ GoesTo(p, next) ELSE EndRun(p)

Failure == used.faults < FailureBound /\ used' = [used EXCEPT !.faults = @ + 1]
Changes(what) ==
  /\ what \in Edits /\ used.edits < ChangeBound
  /\ used' = [used EXCEPT !.edits = @ + 1]

First(S) == CHOOSE b \in S : \A c \in S : b <= c

Waiting(status) == {b \in Child : \E s \in Durable : Is(b, s, status)}

\* durable_collection_stage_to_run, durable_collection_stage_to_retry: the first
\* book in the order of the job.  No two stages of a book are ready or failed.
ToRun == Waiting("ready")

\* Mutant: a retry takes what a run would take.
RetryLikeRun == ToRun

ToRetry == IF Waiting("failed") = {} THEN ToRun ELSE Waiting("failed")

-----------------------------------------------------------------------------
(* The evidence of what was extracted.                                     *)

\* block_drifted_worker_evidence
Drifted(b) ==
  [b EXCEPT !.stages = [s \in BookStages |->
     IF s = "route" THEN @[s]
     ELSE [status |-> IF s = "extract" THEN "blocked" ELSE "pending",
           hashes |-> {<<"workerEvidenceInvalidation", 0>>}, owner |-> NoOwner]]]

HasDrifted == {b \in Child : Is(b, "extract", "completed") /\ disk[b].text = "changed"}

\* validate_completed_worker_evidence_for_resume: the first book whose evidence
\* fails is blocked; a validation that cannot be made defers everything.
Validation(p, sound, unsound) ==
  \/ /\ HasDrifted = {}
     /\ GoesTo(p, sound) /\ UNCHANGED <<books, used>>
  \/ /\ HasDrifted # {}
     /\ Save(p, First(HasDrifted), Drifted(books[First(HasDrifted)]), unsound)
     /\ UNCHANGED used
  \/ /\ \E b \in Child : Is(b, "extract", "completed")
     /\ Failure /\ GoesTo(p, unsound) /\ UNCHANGED books

-----------------------------------------------------------------------------
(* One turn of the loop: head, validation, choice, check, start, work.     *)

\* run_book_pipeline_job, retry_book_pipeline_job
Call(p, retry) ==
  /\ run[p].at = "idle"
  /\ GoesTo(p, [IdleRun EXCEPT !.at = IF retry THEN "validate" ELSE "head",
                             !.check = TRUE, !.retry = retry])
  /\ UNCHANGED <<books, disk, used>>

\* run_job_to_quiescence_with_resume_validation: with nothing ready it returns.
Head(p) ==
  /\ run[p].at = "head"
  /\ IF ToRun = {} /\ run[p].check THEN Validation(p, IdleRun, IdleRun)
     ELSE /\ GoesTo(p, IF ToRun = {} THEN IdleRun
                     ELSE [run[p] EXCEPT !.at = IF run[p].check THEN "validate" ELSE "choose"])
          /\ UNCHANGED <<books, used>>
  /\ UNCHANGED disk

\* run_job_with_handoff_mode: evidence that fails ends this turn, not the loop.
Validate(p) ==
  /\ run[p].at = "validate"
  /\ Validation(p, [run[p] EXCEPT !.at = "choose"], Looping)
  /\ UNCHANGED disk

\* run_durable_collection_child_stage
Choose(p) ==
  /\ run[p].at = "choose"
  /\ LET chosen == IF run[p].retry THEN ToRetry ELSE ToRun
         b == First(chosen) IN
     IF chosen = {} THEN GoesTo(p, Looping)
     ELSE \E s \in Durable :
       /\ books[b].stages[s].status \in {"ready", "failed"}
       /\ GoesTo(p, [IdleRun EXCEPT !.at = "check", !.book = b, !.stage = s])
  /\ UNCHANGED <<books, disk, used>>

\* locate_child_index knows no dropped book; runnable_item_index_child does.
Unlisted(b, s) == books[b].dropped /\ s # "index"

\* The guards under which a stage starts.
Startable(b, s) ==
  /\ books[b].stages[s].status \in {"ready", "failed"}
  /\ s = "index" => Is(b, "extract", "completed")
  /\ s = "extract" => books[b].route \notin {"none", "held"}
  /\ s = "handoff" => Is(b, "index", "completed") /\ disk[b].text = "same"

\* validate_frozen_attachment_source, indexed_markdown_for_handoff: a file that is
\* not the one the stage is about.
WrongFile(b, s) ==
  \/ s \in {"route", "extract"} /\ disk[b].pdf = "changed"
  \/ s = "handoff" /\ (disk[b].text = "changed" \/ ~Is(b, "index", "completed"))

\* What a stage finds before it starts: block_durable_collection_stage, or
\* finish_item_index_preflight_failure for the first attempt to index.
Check(p) ==
  /\ run[p].at = "check"
  /\ LET b == run[p].book
         s == run[p].stage
         starts == GoesTo(p, [run[p] EXCEPT !.at = "start"]) /\ UNCHANGED books
         planned == books[b].stages[s].hashes # {} IN
     IF Unlisted(b, s) \/ (s = "index" /\ ~Startable(b, s)) THEN EndRun(p) /\ UNCHANGED used
     ELSE IF WrongFile(b, s)
     THEN Save(p, b, To(books[b], s, "blocked"), Looping) /\ UNCHANGED used
     ELSE IF s = "index" /\ ~planned /\ disk[b].text = "changed"
     THEN Save(p, b, To(books[b], s, "failed"), Looping) /\ UNCHANGED used
     ELSE \/ starts /\ UNCHANGED used
          \/ /\ s = "index" /\ ~planned /\ Failure
             /\ Save(p, b, To(books[b], s, "failed"), Looping)
  /\ UNCHANGED disk

\* start_stage, with the override as it is now.
BeginStage(p) ==
  /\ run[p].at = "start"
  /\ LET b == run[p].book
         s == run[p].stage IN
     IF Unlisted(b, s) \/ ~Startable(b, s) THEN EndRun(p)
     ELSE Save(p, b,
            [books[b] EXCEPT !.stages[s] =
               [status |-> "running", hashes |-> {<<"input", s>>}, owner |-> p]],
            [run[p] EXCEPT !.at = "work", !.chosen = books[b].chosen])
  /\ UNCHANGED <<disk, used>>

\* apply_route_overrides on what the worker says; an override that keeps the
\* conversion is worth what the worker has to reuse.
Routed(live, token) ==
  CASE token = "auto" -> live
    [] token = "keep" -> IF live = "reused" THEN live ELSE "unverified"
    [] OTHER -> token

\* The outcome of a stage that worked, in the book as it is by then.
Succeeded(b, s, kind) ==
  CASE s = "route" ->
         IF kind = "held" THEN [To(b, s, "blocked") EXCEPT !.route = kind]
         ELSE IF kind = "unverified" THEN [To(b, s, "failed") EXCEPT !.route = kind]
         ELSE [To(To(b, s, "completed"), "extract", "ready") EXCEPT !.route = kind]
    [] s = "extract" -> To(To(b, s, "completed"), "index", "ready")
    [] s = "index" ->
         IF b.stages["handoff"].status = "pending"
         THEN To(To(b, s, "completed"), "handoff", "ready") ELSE To(b, s, "completed")
    [] OTHER -> To(To(b, s, "completed"), "split", "ready")

\* The runner returns and its result is recorded.  The record of a handoff finds
\* a dropped book too, those of the other stages do not.
RunStage(p) ==
  /\ run[p].at = "work"
  /\ LET b == run[p].book
         s == run[p].stage
         record(new) == IF books[b].dropped /\ s # "handoff" THEN EndRun(p)
                        ELSE Save(p, b, new, Looping)
         fails == record(To(books[b], s, "failed")) IN
     \/ Failure /\ fails /\ UNCHANGED disk
     \/ /\ \/ s \in {"route", "extract"} /\ disk[b].pdf = "changed"
           \/ s = "index" /\ disk[b].text = "changed"
        /\ fails /\ UNCHANGED <<disk, used>>
     \/ /\ s \in {"route", "extract"} => disk[b].pdf = "same"
        /\ s = "index" => disk[b].text = "same"
        /\ \E live \in Live :
             /\ s # "route" => live = CHOOSE l \in Live : TRUE
             /\ record(Succeeded(books[b], s, Routed(live, run[p].chosen)))
        /\ disk' = IF s = "extract" THEN [disk EXCEPT ![b].text = "same"] ELSE disk
        /\ UNCHANGED used

\* A launcher dies, a save meets a newer revision.
Dies(p) ==
  /\ run[p].at # "idle"
  /\ Failure /\ EndRun(p) /\ UNCHANGED disk

Turn(p) == Head(p) \/ Validate(p) \/ Choose(p) \/ Check(p) \/ BeginStage(p) \/ RunStage(p)

-----------------------------------------------------------------------------
(* The user and the files.                                                 *)

\* remove_books_from_shelf_in_store, for one book; dropping the last one removes
\* the job and is left out.
Drop(b) ==
  /\ ~books[b].dropped /\ \E c \in Child \ {b} : ~books[c].dropped
  /\ \A c \in Child, s \in BookStages : ~books[c].dropped => ~Is(c, s, "running")
  /\ books' = [books EXCEPT ![b].dropped = TRUE]
  /\ Changes("drop") /\ UNCHANGED <<disk, run>>

\* Mutant: the choice is stored, the route in progress stays.
OverriddenChoice(b, token) == [books[b] EXCEPT !.chosen = token]

\* set_route_override; a save the store refuses changes nothing.
Overridden(b, token) ==
  LET routed == CASE token = "auto" -> books[b].route
                  [] token \in Missing \cup {"keep"} -> "held"
                  [] OTHER -> token
      status == IF token # "auto" /\ routed = "held" THEN "blocked" ELSE "ready"
  IN  [To(To(books[b], "route", status), "extract", "pending")
         EXCEPT !.chosen = token, !.route = routed]

Override(b, token) ==
  /\ ~books[b].dropped /\ token # books[b].chosen /\ ~Is(b, "extract", "running")
  /\ LET new == [books EXCEPT ![b] = Overridden(b, token)]
     IN  Acceptable(new) /\ books' = new
  /\ Changes("override") /\ UNCHANGED <<disk, run>>

\* The PDF of a book is replaced; its Markdown, or what proves it, is edited.
EditPdf(b) ==
  /\ disk[b].pdf = "same" /\ disk' = [disk EXCEPT ![b].pdf = "changed"]
  /\ Changes("pdf") /\ UNCHANGED <<books, run>>

EditMarkdown(b) ==
  /\ Is(b, "extract", "completed") /\ disk[b].text = "same"
  /\ disk' = [disk EXCEPT ![b].text = "changed"]
  /\ Changes("text") /\ UNCHANGED <<books, run>>

CollectionInit ==
  /\ books \in [Child -> {NewBook(eligible, token) : eligible \in BOOLEAN, token \in Queued}]
  /\ disk = [b \in Child |-> [pdf |-> "same", text |-> "same"]]
  /\ run = [p \in Runner |-> IdleRun]
  /\ used = [faults |-> 0, edits |-> 0]

CollectionNext ==
  \/ \E p \in Runner, retry \in BOOLEAN : Call(p, retry)
  \/ \E p \in Runner : Turn(p) \/ Dies(p)
  \/ \E b \in Child : Drop(b) \/ EditPdf(b) \/ EditMarkdown(b)
                     \/ \E token \in Tokens : Override(b, token)

CollectionSpec == CollectionInit /\ [][CollectionNext]_collectionVars

-----------------------------------------------------------------------------
(* Properties.                                                             *)

CollectionTypeOK ==
  /\ \A b \in Child : ValidChild(books[b].stages) /\ books[b].chosen \in Tokens
  /\ \A p \in Runner : run[p].book \in Child /\ run[p].stage \in Durable \cup {"none"}

\* A book is extracted along the route its user asked for last, whatever was
\* asked while the route was being worked out.
RouteIsChosen ==
  \A b \in Child :
    books[b].stages["extract"].status \in {"running", "completed"} =>
      CASE books[b].chosen = "auto" -> books[b].route \in {"ocr", "reused"}
        [] books[b].chosen = "keep" -> books[b].route = "reused"
        [] OTHER -> books[b].route = books[b].chosen

\* No two commands work on the same stage of a book: nothing is paid twice.
OneRunner ==
  \A p, q \in Runner :
    /\ p # q /\ run[p].at = "work" /\ run[q].at = "work"
    => <<run[p].book, run[p].stage>> # <<run[q].book, run[q].stage>>

CollectionIsRight == CollectionTypeOK /\ RouteIsChosen /\ OneRunner

\* What is completed is given up only for a book whose own evidence drifted.
FinishedStands ==
  [][\A b \in Child, s \in BookStages :
       Is(b, s, "completed") /\ books'[b].stages[s].status # "completed"
         => disk[b].text = "changed" /\ books'[b].stages["extract"].status = "blocked"]_collectionVars

\* "A dropped book must never be picked up for work again" (tests.rs).
DroppedIsLeft ==
  [][\A p \in Runner :
       run[p].at = "choose" /\ run'[p].at = "check" => ~books[run'[p].book].dropped]_collectionVars

\* Every command ends.
RunsEnd == \A p \in Runner : run[p].at # "idle" ~> run[p].at = "idle"

\* A stage every choice comes back to: that of a dropped book, and one that
\* failed and whose PDF has changed, which the store does not let block.
Stuck(b) ==
  \/ books[b].dropped /\ \E s \in Durable :
       books[b].stages[s].status \in {"ready", "running", "failed"}
  \/ disk[b].pdf = "changed" /\ \E s \in {"route", "extract"} : Is(b, s, "failed")

\* The job as it is may be saved again: no book of it forbids saving the others.
Frozen == ~Acceptable(books)

Served(b) ==
  \/ books[b].dropped \/ Is(b, "handoff", "completed")
  \/ \E s \in Durable : Is(b, s, "blocked")

\* "Items run independently" (book-pipeline-capability-matrix.md): with an
\* operator who runs and retries, every book on the shelf is handed off, or held
\* for a reason of its own.
BooksRunIndependently == <>[](\A b \in Child : Served(b))

\* What the code does instead: unless a stuck book stands before it in the order
\* of the job, or the job can no longer be saved at all.
BooksAreServed == <>[](\A b \in Child : Served(b) \/ Frozen \/ \E c \in 1 .. b : Stuck(c))

ServedSpec ==
  /\ CollectionSpec
  /\ \A p \in Runner :
       /\ WF_collectionVars(Turn(p))
       /\ \A retry \in BOOLEAN : SF_collectionVars(Call(p, retry))
=============================================================================
