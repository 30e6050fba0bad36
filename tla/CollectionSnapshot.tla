------------------------- MODULE CollectionSnapshot -------------------------
(***************************************************************************)
(* snapshot_collection (zotero_db.py): one consistent view of a collection *)
(* out of the database file Zotero is writing, without taking a lock on it.*)
(* The file and its journal are copied byte by byte, SQLite rolls the copy *)
(* back, and the outcome counts only when two readings in a row agree.     *)
(*                                                                         *)
(* Two pages stand for the file: the one with the collection and the one   *)
(* with the attachment of its member.  Zotero keeps a rollback journal: it *)
(* saves the pages of a transaction, writes them one by one, and commits   *)
(* by deleting the journal.  (A -wal file is copied at the same point.)    *)
(* Every write stamps its page, as the change counter of SQLite does.      *)
(***************************************************************************)
EXTENDS Naturals, FiniteSets, Sequences

CONSTANTS
  WriteBound,  \* transactions of Zotero
  Reads,       \* SNAPSHOT_STABILITY_READS
  Kinds,       \* attachments a transaction may leave: none, epub, linked, pdf
  NoFile

VARIABLES
  db,       \* Zotero: the pages of the file, its journal, the pages to write
  seen,     \* the committed states since the reader started
  reader,   \* the process that takes the snapshot
  writes    \* transactions so far

snapVars == <<db, seen, reader, writes>>

Pages == {"collection", "attachment"}
Rows == [collection |-> BOOLEAN, attachment |-> Kinds]
Order == <<"collection", "attachment">>
Blank == [p \in Pages |-> NoFile]

SnapInit ==
  /\ db = [pages |-> [p \in Pages |-> [stamp |-> 0, row |-> IF p = "collection" THEN TRUE ELSE "pdf"]],
           journal |-> NoFile, todo |-> {}]
  /\ seen = {db.pages} /\ writes = 0
  /\ reader = [at |-> "copy", copied |-> 0, staged |-> Blank, journal |-> NoFile,
               last |-> Blank, reads |-> 0, member |-> NoFile]

-----------------------------------------------------------------------------
(* Zotero.                                                                 *)

Begin ==
  /\ db.journal = NoFile /\ writes < WriteBound
  /\ \E ps \in SUBSET Pages \ {{}} :
       db' = [db EXCEPT !.journal = [p \in ps |-> db.pages[p]], !.todo = ps]
  /\ writes' = writes + 1
  /\ UNCHANGED <<seen, reader>>

WritePage ==
  /\ \E p \in db.todo : \E r \in Rows[p] :
       db' = [db EXCEPT !.pages[p] = [stamp |-> writes, row |-> r], !.todo = @ \ {p}]
  /\ UNCHANGED <<seen, reader, writes>>

Commit ==
  /\ db.journal # NoFile /\ db.todo = {}
  /\ db' = [db EXCEPT !.journal = NoFile] /\ seen' = seen \cup {db.pages}
  /\ UNCHANGED <<reader, writes>>

\* What SQLite makes of a file and a journal found beside it.
RolledBack(pages, journal) ==
  IF journal = NoFile THEN pages
  ELSE [p \in Pages |-> IF p \in DOMAIN journal THEN journal[p] ELSE pages[p]]

\* The transaction is abandoned, by Zotero or by its next start.
Abandon ==
  /\ db.journal # NoFile
  /\ db' = [pages |-> RolledBack(db.pages, db.journal), journal |-> NoFile, todo |-> {}]
  /\ UNCHANGED <<seen, reader, writes>>

-----------------------------------------------------------------------------
(* The reader.                                                             *)

Becomes(r) == reader' = r /\ UNCHANGED <<db, seen, writes>>

\* copyfile of the database, page after page.
CopyPage ==
  LET p == Order[reader.copied + 1] IN
  /\ reader.at = "copy"
  /\ Becomes([reader EXCEPT !.staged[p] = db.pages[p], !.copied = @ + 1,
                            !.at = IF reader.copied + 1 = Len(Order) THEN "journal" ELSE "copy"])

\* Mutant: the journal stays behind.
CopyWithoutJournal == reader.at = "journal" /\ Becomes([reader EXCEPT !.at = "read", !.journal = NoFile])

\* The sidecars, if they are still there.
CopyJournal == reader.at = "journal" /\ Becomes([reader EXCEPT !.at = "read", !.journal = db.journal])

\* The two copies are one image; the last one is kept, as hash and as file.
\* (Below SNAPSHOT_STABILITY_READS there is another reading, else the command
\* asks to be repeated.)
Read ==
  LET image == RolledBack(reader.staged, reader.journal)
      n == reader.reads + 1
  IN
  /\ reader.at = "read"
  /\ Becomes([reader EXCEPT !.last = image, !.reads = n, !.copied = 0, !.staged = Blank, !.journal = NoFile,
       !.at = IF image = reader.last THEN "rows" ELSE IF n = Reads THEN "refused" ELSE "copy"])

\* quick_check finds the image torn.
Torn ==
  /\ reader.at = "read" /\ RolledBack(reader.staged, reader.journal) \notin seen
  /\ Becomes([reader EXCEPT !.at = "refused"])

\* _resolve_attachment_path, _is_pdf_attachment and the stat of the file.
Eligibility(kind, onDisk) ==
  CASE kind = "none" -> "no_attachment"
    [] kind = "epub" -> "unsupported_content_type"
    [] kind = "linked" -> "unresolved_path"
    [] OTHER -> IF onDisk THEN "eligible_pdf" ELSE "missing_file"

\* The rows of the image, and the file, there or not by now.
Members == \E onDisk \in BOOLEAN :
  /\ reader.at = "rows"
  /\ Becomes([reader EXCEPT !.at = "done",
       !.member = IF reader.last["collection"].row
                  THEN Eligibility(reader.last["attachment"].row, onDisk) ELSE "not found"])

SnapNext ==
  \/ Begin \/ WritePage \/ Commit \/ Abandon
  \/ CopyPage \/ CopyJournal \/ Read \/ Torn \/ Members

SnapSpec == SnapInit /\ [][SnapNext]_snapVars

-----------------------------------------------------------------------------

\* What a snapshot tells is what Zotero had committed at one moment since the
\* snapshot began, though its copies were taken in the middle of a transaction
\* or across several; a collection and an attachment of two moments never meet.
SnapshotIsOneMoment == reader.at \in {"rows", "done"} => reader.last \in seen
=============================================================================
