------------------------- MODULE ConversionDelivery -------------------------
(***************************************************************************)
(* The conversion worker of packages/ocr (zotero_llm_worker.py): it reads  *)
(* PDF attachments of a Zotero library, converts each to Markdown, commits *)
(* evidence of the conversion in a SQLite database and a mirror file, and  *)
(* delivers the Markdown as a child attachment of the same Zotero item.    *)
(*                                                                         *)
(* Several worker processes may run at once: the launcher starts one per   *)
(* book, an operator starts others by hand.  They share the database, the  *)
(* staging directories and the library.  A transaction of the database is  *)
(* one step, and so is a request to Zotero; a worker may be killed between *)
(* any two of them, and between the mirror file and the commit.            *)
(*                                                                         *)
(* The bytes of a Markdown file are told apart by the conversion (run)     *)
(* that wrote them: their header holds the time.  The bytes of a source    *)
(* PDF are a member of Content, which stands for its MD5 and page count.   *)
(***************************************************************************)
EXTENDS Naturals, FiniteSets

CONSTANTS
  Worker, Pdf, Content,
  Parent,      \* Parent[p]: the item the PDF belongs to, or None
  Source0,     \* Source0[p]: its bytes at first
  Gone,        \* PDFs removed from the library after their text layer had been
               \* left to a human
  Modes,       \* what an operator or the launcher asks of a worker: to "convert"
               \* and deliver, only some "pages", through a "forced" route, to
               \* convert without delivery, or to deliver or verify one PDF
  RunBound,    \* conversions, each with a directory of its own
  ChildBound,  \* Markdown children ever created
  FaultBound,  \* failures of Zotero, kills, edits and deletions by users
  Users,       \* what users do meanwhile: "replace" a PDF, "delete" a child
  MayOutlive,  \* TRUE: a request may take longer than the lease of its upload
  None

ASSUME DeliveryAssumption ==
  /\ DOMAIN Parent = Pdf /\ Source0 \in [Pdf -> Content] /\ Gone \subseteq Pdf
  /\ Users \subseteq {"replace", "delete"}
  /\ Modes \subseteq {"convert", "pages", "forced", "local", "upload", "verify"}
  /\ {RunBound, ChildBound, FaultBound} \subseteq Nat
  /\ MayOutlive \in BOOLEAN
  /\ None \notin Worker \cup Pdf \cup Content \cup Nat

Run == 1 .. RunBound
Child == 1 .. ChildBound

VARIABLES
  doc,       \* table documents: doc[p][c] is the row of a PDF and its bytes
  evidence,  \* table conversion_evidence, same key
  mirror,    \* the evidence file in the directory of each conversion, or None
  remote,    \* the Markdown children in Zotero: of which PDF (and, as history,
             \* of which of its bytes), and the bytes of their file
  source,    \* the bytes of each PDF now
  name,      \* its file name: on disk, in Zotero, in the desktop's copy, and
             \* whether a kill or a lost reply has cut its renaming (history)
  worker,    \* what each worker does
  count      \* conversions, children and faults so far

store == <<doc, evidence, mirror>>
library == <<remote, source, name>>
vars == <<store, library, worker, count>>

NoRow == [status |-> "none", key |-> None]
Idle == [pc |-> "idle", mode |-> None, todo |-> {}, pdf |-> None, named |-> None, bytes |-> None,
         run |-> None, full |-> FALSE, flagged |-> FALSE, raw |-> None, key |-> None,
         result |-> None]

Init ==
  /\ doc = [p \in Pdf |-> [c \in Content |->
              IF p \in Gone /\ c = Source0[p]
              THEN [NoRow EXCEPT !.status = "blocked_dirty_text_layer"] ELSE NoRow]]
  /\ evidence = [p \in Pdf |-> [c \in Content |-> None]]
  /\ mirror = [r \in Run |-> None]
  /\ remote = [k \in Child |-> None]
  /\ source = Source0
  /\ name = [p \in Pdf |-> [disk |-> "old", web |-> "old", local |-> "old", torn |-> FALSE]]
  /\ worker = [w \in Worker |-> Idle]
  /\ count = [run |-> 0, child |-> 0, fault |-> 0]

Bump(c) == count' = [count EXCEPT ![c] = @ + 1]
Fault == count.fault < FaultBound /\ Bump("fault")

At(w, pc) == worker[w].pc = pc
Goes(w, to) == worker' = [worker EXCEPT ![w] = to]
To(w, pc) == Goes(w, [worker[w] EXCEPT !.pc = pc])

Reads == UNCHANGED <<store, library, count>>

-----------------------------------------------------------------------------
(* The evidence of a conversion.                                           *)

\* What a JSON text of the evidence says: the conversion, with its route and
\* pages, and the child it is bound to.
Json(e) == [run |-> e.run, full |-> e.full, key |-> e.key]

\* reconcile_staged_conversion: the row of the current bytes, or the latest of
\* other bytes, which is blocked because the source has drifted; the mirror and
\* all artifacts must be there and be what the row says.
Verdict(p) ==
  LET e == evidence[p][source[p]] IN
  IF \A c \in Content : evidence[p][c] = None THEN "missing"
  ELSE IF e # None /\ mirror[e.run] = Json(e) THEN "accepted" ELSE "blocked"

\* coverage_status
CoverageStatus(full, uploaded) ==
  IF uploaded THEN IF full THEN "completed" ELSE "uploaded_partial"
  ELSE IF full THEN "local_complete" ELSE "local_partial"

\* same_parent_source_row: another attachment of the same item with the same
\* bytes that has been dealt with.
Twins(p, c) ==
  {q \in Pdf \ {p} : /\ Parent[p] # None /\ Parent[q] = Parent[p]
                     /\ doc[q][c].status \in {"completed", "local_complete", "blocked_dirty_text_layer"}}

Upsert(p, c, status) == doc' = [doc EXCEPT ![p][c] = [status |-> status, key |-> None]]

-----------------------------------------------------------------------------
(* A worker process.                                                       *)

\* main: the attachments asked for; the desktop's record of an attachment
\* must lead to its file, or it is passed over.
Reachable(p) == name[p].local = name[p].disk

StartWorker(w) ==
  /\ At(w, "idle")
  /\ \E mode \in Modes, todo \in SUBSET (Pdf \ Gone) \ {{}} :
       /\ mode \in {"upload", "verify"} => Cardinality(todo) = 1
       /\ Goes(w, [Idle EXCEPT !.pc = "pick", !.mode = mode, !.todo = todo])
  /\ Reads

\* The worker turns to its next attachment, or ends.
Onward(w, todo) ==
  IF todo = {} THEN Idle ELSE [Idle EXCEPT !.pc = "pick", !.mode = worker[w].mode, !.todo = todo]

PassOver(w) ==
  /\ At(w, "pick")
  /\ \E p \in worker[w].todo : ~Reachable(p) /\ Goes(w, Onward(w, worker[w].todo \ {p}))
  /\ Reads

\* process_attachment up to its dispatch: a completed row is reused when its
\* evidence stands and names the same child, and blocks when it does not;
\* other rows, and forced routes that differ, are converted again.
Judged(me) ==
  LET p == me.pdf  row == doc[p][me.bytes]  v == Verdict(p) IN
  IF me.mode \in {"upload", "verify"} THEN [me EXCEPT !.pc = "reconcile"]
  ELSE IF row.status # "completed" \/ me.mode = "forced" \/ v = "missing"
  THEN [me EXCEPT !.pc = IF me.mode = "local" THEN "twin" ELSE "rename"]
  ELSE IF v = "blocked" \/ evidence[p][me.bytes].key # row.key
  THEN [me EXCEPT !.pc = "finish", !.result = "blocked"]
  ELSE [me EXCEPT !.pc = IF me.mode = "local" THEN "finish" ELSE "reconcile", !.result = "skipped_completed"]

Pick(w) ==
  LET me == worker[w] IN
  /\ At(w, "pick")
  /\ \E p \in me.todo :
       /\ Reachable(p)
       /\ Goes(w, Judged([Onward(w, {p}) EXCEPT !.todo = me.todo \ {p}, !.pdf = p,
                            !.named = name[p].disk, !.bytes = source[p]]))
  /\ Reads

Ends(w, result) == [worker[w] EXCEPT !.pc = "finish", !.result = result]

\* The file the worker picked has been renamed by another one since.
Moved(w) == name[worker[w].pdf].disk # worker[w].named

FileMoved(w) ==
  /\ worker[w].pc \in {"twin", "reconcile"} /\ Moved(w)
  /\ Goes(w, Ends(w, "error")) /\ Reads

\* normalize_source_pdf_attachment_name: rename the file, tell Zotero, and
\* rename it back when Zotero refuses.
Rename(w) ==
  LET p == worker[w].pdf IN
  /\ At(w, "rename")
  /\ IF Parent[p] = None \/ worker[w].named = "new" THEN To(w, "twin") /\ UNCHANGED name
     ELSE IF Moved(w) THEN Goes(w, Ends(w, "error")) /\ UNCHANGED name
     ELSE To(w, "patch") /\ name' = [name EXCEPT ![p].disk = "new"]
  /\ UNCHANGED <<store, remote, source, count>>

\* Mutant: a refused renaming leaves the file with its new name.
PatchNotUndone(w) ==
  LET p == worker[w].pdf IN
  /\ At(w, "patch")
  /\ \/ /\ name' = [name EXCEPT ![p].web = "new"] /\ UNCHANGED count
        /\ Goes(w, [worker[w] EXCEPT !.pc = "twin", !.named = "new"])
     \/ Fault /\ Goes(w, Ends(w, "error")) /\ UNCHANGED name
  /\ UNCHANGED <<store, remote, source>>

Patch(w) ==
  LET p == worker[w].pdf  back == [name[p] EXCEPT !.disk = "old"] IN
  /\ At(w, "patch")
  /\ \/ /\ name' = [name EXCEPT ![p].web = "new"] /\ UNCHANGED count
        /\ Goes(w, [worker[w] EXCEPT !.pc = "twin", !.named = "new"])
     \/ /\ Fault /\ Goes(w, Ends(w, "error"))
        /\ \/ name' = [name EXCEPT ![p] = back]
           \/ name' = [name EXCEPT ![p] = [back EXCEPT !.web = "new", !.torn = TRUE]]
  /\ UNCHANGED <<store, remote, source>>

\* The duplicate check, then route_attachment: a degraded text layer is left to
\* a human, the other routes convert, in a directory of their own (out of runs,
\* it cannot be made).
HasTwin(w) == worker[w].mode # "forced" /\ Twins(worker[w].pdf, source[worker[w].pdf]) # {}

SkipTwin(w) ==
  LET p == worker[w].pdf IN
  /\ At(w, "twin") /\ ~Moved(w) /\ HasTwin(w)
  /\ Upsert(p, source[p], "skipped_duplicate_source")
  /\ Goes(w, Ends(w, "skipped_duplicate_source"))
  /\ UNCHANGED <<evidence, mirror, library, count>>

NeedsMineru(w) ==
  LET p == worker[w].pdf IN
  /\ At(w, "twin") /\ ~Moved(w) /\ ~HasTwin(w) /\ worker[w].mode # "forced"
  /\ Upsert(p, source[p], "blocked_dirty_text_layer")
  /\ Goes(w, Ends(w, "blocked_dirty_text_layer"))
  /\ UNCHANGED <<evidence, mirror, library, count>>

\* route_attachment finds no credential for a scanned PDF: an unknown route.
UnknownRoute(w) ==
  /\ At(w, "twin") /\ ~Moved(w) /\ ~HasTwin(w) /\ worker[w].mode # "forced"
  /\ Goes(w, Ends(w, "error")) /\ Reads

CreateRun(w) ==
  LET me == worker[w]  r == count.run + 1 IN
  /\ At(w, "twin") /\ ~Moved(w) /\ ~HasTwin(w)
  /\ IF r \notin Run THEN Goes(w, Ends(w, "error")) /\ UNCHANGED count
     ELSE /\ Bump("run")
          /\ Goes(w, [me EXCEPT !.pc = "commit", !.bytes = source[me.pdf], !.run = r,
                                !.full = me.mode # "pages"])
  /\ UNCHANGED <<store, library>>

\* The conversion fails, or its page budget is used up before its end.
ConversionStops(w) ==
  /\ At(w, "commit") /\ Fault
  /\ \E result \in {"error", "partial_budget_exhausted"} : Goes(w, Ends(w, result))
  /\ UNCHANGED <<store, library>>

LiveUpload(e) == e # None /\ e.state = "uploading" /\ e.live

Converted(w) ==
  [run |-> worker[w].run, full |-> worker[w].full, key |-> None, state |-> "local",
   pending |-> None, owner |-> None, live |-> FALSE]

\* Mutant: a conversion is committed over an upload in progress.
CommitOverUpload(w) ==
  LET me == worker[w]  p == me.pdf  c == me.bytes IN
  /\ At(w, "commit")
  /\ IF Moved(w) \/ source[p] # c
     THEN Goes(w, Ends(w, "error")) /\ UNCHANGED store
     ELSE /\ evidence' = [evidence EXCEPT ![p][c] = Converted(w)]
          /\ mirror' = [mirror EXCEPT ![me.run] = Json(Converted(w))]
          /\ Upsert(p, c, CoverageStatus(me.full, FALSE))
          /\ To(w, "flag")
  /\ UNCHANGED <<library, count>>

\* commit_conversion_evidence: refused while another worker uploads what is
\* there, and when the source changed since it was read.
Commit(w) ==
  LET me == worker[w]  p == me.pdf  c == me.bytes IN
  /\ At(w, "commit")
  /\ IF Moved(w) \/ source[p] # c \/ LiveUpload(evidence[p][c])
     THEN Goes(w, Ends(w, "error")) /\ UNCHANGED store
     ELSE /\ evidence' = [evidence EXCEPT ![p][c] = Converted(w)]
          /\ mirror' = [mirror EXCEPT ![me.run] = Json(Converted(w))]
          /\ Upsert(p, c, CoverageStatus(me.full, FALSE))
          /\ To(w, "flag")
  /\ UNCHANGED <<library, count>>

Flag(w) ==
  LET me == worker[w]  local == me.mode = "local" IN
  /\ At(w, "flag")
  /\ Goes(w, [me EXCEPT !.flagged = TRUE, !.pc = IF local THEN "finish" ELSE "reconcile",
                        !.result = CoverageStatus(me.full, ~local)])
  /\ Reads

-----------------------------------------------------------------------------
(* Delivery: upload_reconciled_conversion.                                 *)

\* markdown_attachment_matches
Matches(k, run) == remote[k] # None /\ remote[k].file = run

\* What a worker uploads is what it has just reconciled.  Evidence that is bound
\* is compared with its child and never delivered again.
Reconcile(w) ==
  LET me == worker[w]  p == me.pdf  e == evidence[p][source[p]] IN
  /\ At(w, "reconcile") /\ me.mode # "verify" /\ ~Moved(w)
  /\ IF Verdict(p) # "accepted" THEN Goes(w, Ends(w, "blocked"))
     ELSE Goes(w, [me EXCEPT !.raw = Json(e), !.bytes = source[p], !.key = e.key,
                             !.pc = IF e.key # None THEN "compare" ELSE "claim"])
  /\ Reads

\* verify_uploaded_conversion: nothing is delivered.
Verify(w) ==
  LET me == worker[w]  p == me.pdf  e == evidence[p][source[p]] IN
  /\ At(w, "reconcile") /\ me.mode = "verify" /\ ~Moved(w)
  /\ IF Verdict(p) # "accepted" \/ e.key = None THEN Goes(w, Ends(w, "blocked"))
     ELSE Goes(w, [me EXCEPT !.raw = Json(e), !.key = e.key, !.pc = "compare"])
  /\ Reads

\* A lookup that fails is an error, and not a mismatch.
Compare(w) ==
  LET me == worker[w] IN
  /\ At(w, "compare")
  /\ \/ /\ Goes(w, Ends(w, IF ~Matches(me.key, me.raw.run) THEN "blocked"
                            ELSE IF me.result = None THEN CoverageStatus(me.raw.full, TRUE)
                            ELSE me.result))
        /\ UNCHANGED count
     \/ Fault /\ Goes(w, Ends(w, "error"))
  /\ UNCHANGED <<store, library>>

Row(w) == evidence[worker[w].pdf][worker[w].bytes]
SetRow(w, e) == evidence' = [evidence EXCEPT ![worker[w].pdf][worker[w].bytes] = e]

\* claim_upload: only of the evidence that was read, and not while a lease lives.
Claim(w) ==
  LET me == worker[w]  e == Row(w) IN
  /\ At(w, "claim")
  /\ IF Json(e) = me.raw /\ (e.state \in {"local", "retryable"} \/ (e.state = "uploading" /\ ~e.live))
     THEN /\ SetRow(w, [e EXCEPT !.state = "uploading", !.owner = w, !.live = TRUE])
          /\ Goes(w, [me EXCEPT !.pc = IF e.pending # None THEN "match" ELSE "discover", !.key = e.pending])
     ELSE Goes(w, Ends(w, "error")) /\ UNCHANGED evidence
  /\ UNCHANGED <<doc, mirror, library, count>>

\* Mutant: a pending child that does not match is not forgotten.
GiveUpKeepsChild(w, mismatch) ==
  /\ IF Row(w).owner = w
     THEN SetRow(w, [Row(w) EXCEPT !.state = "retryable", !.owner = None, !.live = FALSE])
     ELSE UNCHANGED evidence
  /\ Goes(w, Ends(w, "retryable_upload"))

\* record_delivery_error: the owner gives the upload back, to be tried again.  A
\* pending child that does not match is forgotten.
GiveUp(w, mismatch) ==
  /\ IF Row(w).owner = w
     THEN SetRow(w, [Row(w) EXCEPT !.state = "retryable", !.owner = None, !.live = FALSE,
                                   !.pending = IF mismatch THEN None ELSE @])
     ELSE UNCHANGED evidence
  /\ Goes(w, Ends(w, "retryable_upload"))

RequestFails(w) ==
  /\ worker[w].pc \in {"match", "discover", "create", "put"} /\ Fault /\ GiveUp(w, FALSE)
  /\ UNCHANGED <<doc, mirror, library>>

Match(w) ==
  /\ At(w, "match")
  /\ IF Matches(worker[w].key, worker[w].raw.run) THEN To(w, "put") /\ UNCHANGED evidence
     ELSE GiveUp(w, TRUE)
  /\ UNCHANGED <<doc, mirror, library, count>>

\* find_markdown_attachment_by_provenance: the children of the item whose note
\* names the PDF; two of them are an error, and without an item none is found.
Provenance(p) == IF Parent[p] = None THEN {} ELSE {k \in Child : remote[k] # None /\ remote[k].pdf = p}

\* Mutant: nothing is looked up before a child is created.
DiscoverNothing(w) == At(w, "discover") /\ To(w, "create") /\ UNCHANGED <<store, library, count>>

Discover(w) ==
  LET found == Provenance(worker[w].pdf) IN
  /\ At(w, "discover")
  /\ IF Cardinality(found) > 1 THEN GiveUp(w, FALSE)
     ELSE /\ UNCHANGED evidence
          /\ IF found = {} THEN To(w, "create")
             ELSE Goes(w, [worker[w] EXCEPT !.pc = "keep", !.key = CHOOSE k \in found : TRUE])
  /\ UNCHANGED <<doc, mirror, library, count>>

\* create_markdown_attachment_item: the reply may be lost.
Create(w) ==
  LET k == count.child + 1 IN
  /\ At(w, "create") /\ k \in Child
  /\ remote' = [remote EXCEPT ![k] = [pdf |-> worker[w].pdf, bytes |-> worker[w].bytes, file |-> None]]
  /\ \/ /\ Bump("child") /\ UNCHANGED evidence
        /\ Goes(w, [worker[w] EXCEPT !.pc = "keep", !.key = k])
     \/ /\ count.fault < FaultBound /\ GiveUp(w, FALSE)
        /\ count' = [count EXCEPT !.child = k, !.fault = @ + 1]
  /\ UNCHANGED <<doc, mirror, source, name>>

RecordPending(w) ==
  LET e == Row(w) IN
  /\ At(w, "keep")
  /\ IF e.state = "uploading" /\ e.owner = w /\ e.pending = None
     THEN SetRow(w, [e EXCEPT !.pending = worker[w].key]) /\ To(w, "put")
     ELSE GiveUp(w, FALSE)
  /\ UNCHANGED <<doc, mirror, library, count>>

\* Mutant: the upload replaces the file a child already has.
PutOver(w) ==
  LET k == worker[w].key  r == worker[w].raw.run IN
  /\ At(w, "put")
  /\ IF remote[k] # None
     THEN /\ remote' = [remote EXCEPT ![k].file = r]
          /\ \/ To(w, "bind") /\ UNCHANGED <<evidence, count>>
             \/ Fault /\ GiveUp(w, FALSE)
     ELSE GiveUp(w, FALSE) /\ UNCHANGED <<remote, count>>
  /\ UNCHANGED <<doc, mirror, source, name>>

\* upload_file: the bytes are taken by a child without a file (the reply may be
\* lost), found to be there already, or refused.
Put(w) ==
  LET k == worker[w].key  r == worker[w].raw.run IN
  /\ At(w, "put")
  /\ IF remote[k] # None /\ remote[k].file \in {None, r}
     THEN /\ remote' = [remote EXCEPT ![k].file = r]
          /\ \/ To(w, "bind") /\ UNCHANGED <<evidence, count>>
             \/ Fault /\ GiveUp(w, FALSE)
     ELSE GiveUp(w, FALSE) /\ UNCHANGED <<remote, count>>
  /\ UNCHANGED <<doc, mirror, source, name>>

Bound(w) == [worker[w].raw EXCEPT !.key = worker[w].key]
MayBind(w) == Row(w).state = "uploading" /\ Row(w).owner = w /\ Json(Row(w)) = worker[w].raw

\* bind_markdown_attachment: by the owner, of the evidence that was uploaded.
Bind(w) ==
  LET me == worker[w]  e == Row(w) IN
  /\ At(w, "bind")
  /\ IF MayBind(w)
     THEN /\ SetRow(w, [e EXCEPT !.key = me.key, !.state = "uploaded", !.pending = None,
                                 !.owner = None, !.live = FALSE])
          /\ mirror' = [mirror EXCEPT ![e.run] = Bound(w)]
          /\ doc' = [doc EXCEPT ![me.pdf][me.bytes] =
               [status |-> CoverageStatus(me.raw.full, TRUE), key |-> me.key]]
          /\ Goes(w, Ends(w, CoverageStatus(me.raw.full, TRUE)))
     ELSE Goes(w, Ends(w, "error")) /\ UNCHANGED store
  /\ UNCHANGED <<library, count>>

-----------------------------------------------------------------------------
(* The end of an attachment, kills, users.                                 *)

\* cleanup_uncommitted: the directory of a conversion goes unless it was
\* committed, or the database refers to it.
Cleaned(w) ==
  LET me == worker[w]  e == evidence[me.pdf][me.bytes] IN
  IF me.run = None \/ me.flagged \/ (e # None /\ e.run = me.run) THEN mirror
  ELSE [mirror EXCEPT ![me.run] = None]

\* emit_attachment_evidence reads the row and the evidence, and the evidence
\* once more for its hash.
Emits(w) ==
  LET p == worker[w].pdf IN
  /\ worker[w].mode \notin {"upload", "verify"} /\ ~Moved(w)
  /\ worker[w].result \in {"completed", "skipped_completed"}
  /\ doc[p][source[p]].status = "completed" /\ Verdict(p) = "accepted"
  /\ evidence[p][source[p]].key # None /\ Parent[p] # None

\* The finally clauses and main's handlers: an error is written to the row of
\* the bytes the PDF has now; a budget that is used up ends the worker.
Finish(w) ==
  LET me == worker[w]  p == me.pdf IN
  /\ At(w, "finish")
  /\ mirror' = Cleaned(w)
  /\ IF me.result = "error" /\ me.mode \notin {"upload", "verify"} /\ ~Moved(w)
     THEN Upsert(p, source[p], "error") ELSE UNCHANGED doc
  /\ Goes(w, IF Emits(w) THEN [me EXCEPT !.pc = "emit", !.raw = Json(evidence[p][source[p]])]
             ELSE Onward(w, IF me.result = "partial_budget_exhausted" THEN {} ELSE me.todo))
  /\ UNCHANGED <<evidence, library, count>>

Emit(w) == At(w, "emit") /\ Goes(w, Onward(w, worker[w].todo)) /\ Reads

\* A worker is killed, also between the mirror file and the commit of a binding.
Kill(w) ==
  LET me == worker[w] IN
  /\ ~At(w, "idle") /\ Fault /\ Goes(w, Idle)
  /\ \/ UNCHANGED mirror
     \/ At(w, "bind") /\ MayBind(w) /\ mirror' = [mirror EXCEPT ![Row(w).run] = Bound(w)]
  /\ name' = IF At(w, "patch") THEN [name EXCEPT ![me.pdf].torn = TRUE] ELSE name
  /\ UNCHANGED <<doc, evidence, remote, source>>

\* An operator interrupts it: the finally clauses run, and main does not.
Interrupt(w) ==
  /\ worker[w].pc \in {"commit", "flag", "reconcile", "claim"} /\ Fault
  /\ Goes(w, [Ends(w, "interrupted") EXCEPT !.todo = {}])
  /\ UNCHANGED <<store, library>>

\* A lease runs out: of a worker that is gone, or of one that takes long.
Expire(p, c) ==
  LET e == evidence[p][c] IN
  /\ LiveUpload(e)
  /\ MayOutlive \/ ~\E w \in Worker : worker[w].pdf = p /\ worker[w].bytes = c
                       /\ worker[w].pc \in {"match", "discover", "create", "keep", "put", "bind"} /\ e.owner = w
  /\ evidence' = [evidence EXCEPT ![p][c].live = FALSE]
  /\ UNCHANGED <<doc, mirror, library, worker, count>>

\* The desktop learns of the new name; a user replaces a PDF, or deletes a child.
Sync(p) ==
  /\ name[p].local # name[p].web /\ name' = [name EXCEPT ![p].local = name[p].web]
  /\ UNCHANGED <<store, remote, source, worker, count>>

ReplaceSource(p) ==
  /\ "replace" \in Users /\ Fault /\ \E c \in Content \ {source[p]} : source' = [source EXCEPT ![p] = c]
  /\ UNCHANGED <<store, remote, name, worker>>

DeleteChild(k) ==
  /\ "delete" \in Users /\ remote[k] # None /\ Fault /\ remote' = [remote EXCEPT ![k] = None]
  /\ UNCHANGED <<store, source, name, worker>>

Steps(w) ==
  \/ PassOver(w) \/ Pick(w) \/ FileMoved(w) \/ Rename(w) \/ Patch(w)
  \/ SkipTwin(w) \/ CreateRun(w) \/ Commit(w) \/ Flag(w)
  \/ Reconcile(w) \/ Verify(w) \/ Compare(w) \/ Claim(w) \/ Match(w) \/ Discover(w) \/ Create(w)
  \/ RecordPending(w) \/ Put(w) \/ Bind(w) \/ Finish(w) \/ Emit(w)

Next ==
  \/ \E w \in Worker : StartWorker(w) \/ Steps(w) \/ NeedsMineru(w) \/ UnknownRoute(w) \/ ConversionStops(w)
                      \/ RequestFails(w) \/ Kill(w) \/ Interrupt(w)
  \/ \E p \in Pdf \ Gone : Sync(p) \/ ReplaceSource(p)
  \/ \E p \in Pdf, c \in Content : Expire(p, c)
  \/ \E k \in Child : DeleteChild(k)

Spec == Init /\ [][Next]_vars

\* Workers run on, requests return, leases run out, the desktop synchronises,
\* and somebody asks again and again for what was not delivered.
Retry(p) == \E w \in Worker :
  /\ At(w, "idle") /\ Goes(w, [Idle EXCEPT !.pc = "pick", !.mode = "upload", !.todo = {p}]) /\ Reads

FairSpec ==
  /\ Spec
  /\ \A w \in Worker : WF_vars(Steps(w))
  /\ \A p \in Pdf : /\ SF_vars(Retry(p)) /\ WF_vars(Sync(p))
                   /\ \A c \in Content : WF_vars(Expire(p, c))

-----------------------------------------------------------------------------
(* Properties.                                                             *)

\* Besides the types: an upload has an owner and a lease only while it lasts,
\* and a bound conversion has nothing pending.
EvidenceOK(e) ==
  /\ e.run \in Run /\ e.key \in Child \cup {None} /\ e.pending \in Child \cup {None}
  /\ e.state \in {"local", "uploading", "retryable", "uploaded"}
  /\ (e.owner # None) = (e.state = "uploading") /\ (e.live => e.state = "uploading")
  /\ (e.key # None) = (e.state = "uploaded")
  /\ e.pending # None => e.state \in {"uploading", "retryable"}

TypeOK ==
  /\ \A p \in Pdf, c \in Content : evidence[p][c] # None => EvidenceOK(evidence[p][c])
  /\ source \in [Pdf -> Content]
  /\ count.run \in 0 .. RunBound /\ count.child \in 0 .. ChildBound /\ count.fault \in 0 .. FaultBound

Delivering == {"match", "discover", "create", "keep", "put", "bind"}

\* A completed row stands for a whole conversion, bound to the child the row names.
CompletedIsBound ==
  \A p \in Pdf, c \in Content : doc[p][c].status = "completed" =>
    /\ evidence[p][c] # None /\ evidence[p][c].state = "uploaded" /\ evidence[p][c].full
    /\ evidence[p][c].key = doc[p][c].key

\* The child the evidence is bound to holds the Markdown of that conversion,
\* whoever uploaded to it in between, unless a user deleted it.
BoundChildHoldsIt ==
  \A p \in Pdf, c \in Content :
    LET e == evidence[p][c] IN
    (e # None /\ e.key # None /\ remote[e.key] # None) => Matches(e.key, e.run) /\ remote[e.key].pdf = p

\* The directory the evidence refers to is never cleaned up.
EvidenceIsKept ==
  \A p \in Pdf, c \in Content : evidence[p][c] # None => mirror[evidence[p][c].run] # None

\* No crash, retry or second worker makes a second child of a PDF in an item, as
\* long as the PDF keeps its bytes.
OneChild ==
  \A p \in Pdf, c \in Content : Cardinality({k \in Provenance(p) : remote[k].bytes = c}) <= 1

\* Evidence under a live lease changes by its owner's hand only.
LeaseIsRespected ==
  [][\A p \in Pdf, c \in Content :
       LET e == evidence[p][c] IN
       LiveUpload(e) /\ evidence'[p][c] # e =>
         \/ evidence'[p][c] = [e EXCEPT !.live = FALSE]
         \/ worker[e.owner].pc \in Delivering /\ worker'[e.owner] # worker[e.owner]]_vars

\* A file is out of the reach of the next worker only while one renames it or
\* the desktop is behind, or after a renaming was cut.
RenameIsUndone ==
  \A p \in Pdf : \/ name[p].disk = name[p].web \/ name[p].torn
                 \/ \E w \in Worker : At(w, "patch") /\ worker[w].pdf = p

\* What is printed for the launcher was delivered: the child holds the Markdown.
EmittedIsDelivered ==
  \A w \in Worker : At(w, "emit") =>
    LET e == worker[w].raw IN e.key # None /\ (remote[e.key] # None => Matches(e.key, e.run))

\* What can be delivered: the evidence stands, and the item holds at most one
\* child of the PDF, with no bytes of another conversion.
Deliverable(p) ==
  LET e == evidence[p][source[p]] IN
  /\ Verdict(p) = "accepted" /\ e.key = None /\ name[p].disk = name[p].web
  /\ Cardinality(Provenance(p)) <= 1
  /\ \A k \in Provenance(p) : remote[k].file \in {None, e.run}

\* It is delivered, whatever was killed or failed before.
DeliveryEnds == \A p \in Pdf : Deliverable(p) ~> ~Deliverable(p)

\* What outlives a worker is in order: rows, directories and names of files.
DeliveryIsOrderly == TypeOK /\ EvidenceIsKept /\ RenameIsUndone

\* Completed means delivered: the evidence, the child and what the launcher is
\* told agree.
CompletedIsDelivered == CompletedIsBound /\ BoundChildHoldsIt /\ EmittedIsDelivered
=============================================================================
