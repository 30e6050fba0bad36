---------------------------- MODULE ZoteroWrites ----------------------------
(***************************************************************************)
(* The writes of the command line to the Zotero Web API (zotero_api.py):   *)
(* an item is added, edited, retagged or binned, a file is attached, while *)
(* a reader edits the same item in Zotero and other commands run.          *)
(*                                                                         *)
(* Zotero (external) counts the edits of an item and refuses a PATCH or a  *)
(* DELETE whose If-Unmodified-Since-Version is not the item's version; a   *)
(* throttled request (429) has had no effect, one whose answer is lost may *)
(* have had it.                                                            *)
(***************************************************************************)
EXTENDS Naturals, FiniteSets

CONSTANTS
  Commands,   \* processes; each runs one command
  Tags,
  Attempts,   \* UPLOAD_ATTEMPTS
  EditBound,  \* edits in Zotero
  FaultBound, \* throttled requests and failures
  NoTag

VARIABLES
  item,     \* the item: version, tags, in the bin
  added,    \* attachments and items created: by whom, with their file or without
  command,  \* what each process does
  merged,   \* TRUE: every write so far was of the item its command had read
  spent     \* edits and faults so far

writeVars == <<item, added, command, merged, spent>>

Start == [at |-> "idle", kind |-> NoTag, version |-> 0, tags |-> {}, add |-> {}, remove |-> {},
          tries |-> 0, id |-> 0]
Kinds == {"update", "tags", "bin", "new", "doi", "attach"}

WritesInit ==
  /\ item \in [version : {1}, tags : SUBSET Tags, binned : {FALSE}]
  /\ added = {} /\ command = [c \in Commands |-> Start] /\ merged = TRUE
  /\ spent = [edits |-> 0, faults |-> 0]

At(c, label) == command[c].at = label
Goes(c, to) == command' = [command EXCEPT ![c] = to]
GoesTo(c, label) == Goes(c, [command[c] EXCEPT !.at = label])
Fault == spent.faults < FaultBound /\ spent' = [spent EXCEPT !.faults = @ + 1]

Invoke(c) ==
  /\ At(c, "idle")
  /\ \E k \in Kinds, a, r \in SUBSET Tags :
       /\ k = "tags" \/ (a = {} /\ r = {})
       /\ Goes(c, [command[c] EXCEPT !.kind = k, !.add = a, !.remove = r,
            !.at = CASE k = "new" -> "template" [] k = "doi" -> "resolve"
                     [] k = "attach" -> "create" [] OTHER -> "get"])
  /\ UNCHANGED <<item, added, merged, spent>>

-----------------------------------------------------------------------------
(* update_item, modify_tags, delete_item.                                  *)

Get(c) ==
  /\ At(c, "get")
  /\ Goes(c, [command[c] EXCEPT !.at = "write", !.version = item.version, !.tags = item.tags])
  /\ UNCHANGED <<item, added, merged, spent>>

\* modify_tags: the tags to remove, then those to add.
NewTags(c) == (command[c].tags \ command[c].remove) \cup command[c].add

\* 412 when the item has changed since: the command fails.
Write(c) ==
  /\ At(c, "write")
  /\ IF command[c].version = item.version
     THEN /\ item' = [version |-> item.version + 1,
                      tags |-> IF command[c].kind = "tags" THEN NewTags(c) ELSE item.tags,
                      binned |-> item.binned \/ command[c].kind = "bin"]
          /\ merged' = (merged /\ command[c].tags = item.tags)
          /\ GoesTo(c, "done")
     ELSE GoesTo(c, "failed") /\ UNCHANGED <<item, merged>>
  /\ UNCHANGED <<added, spent>>

-----------------------------------------------------------------------------
(* add_arxiv, add_ssrn, add_cnki, add_by_doi, create_note: a template, then *)
(* _create_items.                                                          *)

\* add_by_doi asks Crossref first.
Resolve(c) == At(c, "resolve") /\ GoesTo(c, "template") /\ UNCHANGED <<item, added, merged, spent>>

Template(c) == At(c, "template") /\ GoesTo(c, "post") /\ UNCHANGED <<item, added, merged, spent>>

Created(c) == {x \in added : x.by = c}
NewId == Cardinality(added) + 1
Creates(c, file) == added' = added \cup {[by |-> c, id |-> NewId, file |-> file]}

CreateItems(c) ==
  /\ At(c, "post") /\ Creates(c, TRUE) /\ GoesTo(c, "done")
  /\ UNCHANGED <<item, merged, spent>>

-----------------------------------------------------------------------------
(* add_imported_file: four requests, each repeated while it is throttled.  *)

CreateAttachment(c) ==
  /\ At(c, "create") /\ Creates(c, FALSE)
  /\ Goes(c, [command[c] EXCEPT !.at = "authorize", !.id = NewId, !.tries = 0])
  /\ UNCHANGED <<item, merged, spent>>

HasFile(c, yes) == added' = {IF x.id = command[c].id THEN [x EXCEPT !.file = yes] ELSE x : x \in added}

\* Zotero has the bytes already, or says where to send them.
Authorize(c) ==
  /\ At(c, "authorize")
  /\ \/ HasFile(c, TRUE) /\ GoesTo(c, "done")
     \/ UNCHANGED added /\ Goes(c, [command[c] EXCEPT !.at = "upload", !.tries = 0])
  /\ UNCHANGED <<item, merged, spent>>

Upload(c) ==
  /\ At(c, "upload") /\ Goes(c, [command[c] EXCEPT !.at = "register", !.tries = 0])
  /\ UNCHANGED <<item, added, merged, spent>>

Register(c) ==
  /\ At(c, "register") /\ HasFile(c, TRUE) /\ GoesTo(c, "done")
  /\ UNCHANGED <<item, merged, spent>>

\* 429: _post_retrying_throttles waits and asks again, Attempts times in all;
\* the last 429 is raised.
Throttled(c) ==
  /\ command[c].at \in {"create", "authorize", "upload", "register"} /\ Fault
  /\ Goes(c, [command[c] EXCEPT !.tries = @ + 1,
                               !.at = IF command[c].tries + 1 < Attempts THEN @ ELSE "failed"])
  /\ UNCHANGED <<item, added, merged>>

\* Any other failure of a request ends the command; an item may be there.
Fails(c) ==
  /\ command[c].at \notin {"idle", "done", "failed"} /\ Fault
  /\ \/ UNCHANGED added
     \/ command[c].at \in {"post", "create"} /\ Creates(c, FALSE)
  /\ GoesTo(c, "failed")
  /\ UNCHANGED <<item, merged>>

\* Somebody edits the item in Zotero.
Edit ==
  /\ spent.edits < EditBound
  /\ spent' = [spent EXCEPT !.edits = @ + 1]
  /\ \E ts \in SUBSET Tags : item' = [item EXCEPT !.version = @ + 1, !.tags = ts]
  /\ UNCHANGED <<added, command, merged>>

Works(c) ==
  \/ Invoke(c) \/ Get(c) \/ Write(c) \/ Resolve(c) \/ Template(c) \/ CreateItems(c)
  \/ CreateAttachment(c) \/ Authorize(c) \/ Upload(c) \/ Register(c)
  \/ Throttled(c) \/ Fails(c)

WritesNext == Edit \/ \E c \in Commands : Works(c)
WritesSpec == WritesInit /\ [][WritesNext]_writeVars

-----------------------------------------------------------------------------

\* A command changes only the item it has read: tags that somebody else adds or
\* removes between the reading and the PATCH are never undone.  However often
\* its requests were throttled, a command creates one attachment at most, and
\* one that reports success has its file.
WritesAreRight ==
  /\ merged
  /\ \A c \in Commands :
       /\ Cardinality(Created(c)) <= 1
       /\ At(c, "done") => \A x \in Created(c) : x.file
=============================================================================
