---------------------------- MODULE SearchIndex ----------------------------
(***************************************************************************)
(* The search index over the Zotero library: SQLiteVecStore                *)
(* (vector_store.py), the two passes of sync and index_markdown_item       *)
(* (search.py), as the commands `sync`, `sync --full` and `index` run them *)
(* (cli.py, zfulltext_cli.py) in processes of their own.                   *)
(*                                                                         *)
(* An item has one row for its metadata and a set of rows for the chunks of*)
(* its Markdown; the chunks are replaced together, so they are one value.  *)
(* A row names what it was made from, and a vector of it is in a second    *)
(* table whose width is fixed when it is created.  The keyword table is    *)
(* written and rebuilt with the rows, in the same transactions, and is not *)
(* told apart from them.  Everything a process remembers between its       *)
(* transactions is in its record; every transaction is one step, and so is *)
(* each of the DROPs of drop(), which commit one by one.                   *)
(***************************************************************************)
EXTENDS Naturals, FiniteSets

CONSTANTS
  Items,      \* bibliographic items of the library
  Texts,      \* Markdown artifacts, told apart by their SHA-256
  Models,     \* embedding backends a command may be configured with
  Width,      \* the default dimension of each
  Pads,       \* those that fill a short reply with zero vectors
  Client,     \* processes
  StartBound, \* commands started
  EditBound,  \* edits of the library
  FaultBound, \* failures and kills
  None

ASSUME IndexAssumption ==
  /\ Width \in [Models -> Nat \ {0}] /\ Pads \subseteq Models
  /\ {StartBound, EditBound, FaultBound} \subseteq Nat

VARIABLES
  lib,    \* the items as Zotero has them
  meta,   \* the row of an item: its dateModified
  chunks, \* the chunk rows of an item: artifact, embedding profile, owner
  vecs,   \* the rows that have a usable vector
  width,  \* the dimension of vec_items, None without the table
  client, \* what each process does
  alone,  \* the processes nothing has interfered with since they started
  blind,  \* TRUE: some row was left without a usable vector
  spent   \* commands, edits and faults so far

indexVars == <<lib, meta, chunks, vecs, width, client, alone, blind, spent>>

Idle == [at |-> "idle", full |-> FALSE, model |-> None, dim |-> 0, spare |-> FALSE,
         items |-> [i \in {} |-> 0], todo |-> {}, texts |-> [i \in {} |-> None],
         item |-> None, text |-> None]

IndexInit ==
  /\ lib = [i \in Items |-> [live |-> TRUE, modified |-> 1, text |-> None]]
  /\ meta = [i \in Items |-> None] /\ chunks = [i \in Items |-> None]
  /\ vecs = {} /\ width = None
  /\ client = [c \in Client |-> Idle] /\ alone = {} /\ blind = FALSE
  /\ spent = [starts |-> 0, edits |-> 0, faults |-> 0]

Row(kind, i) == <<kind, i>>
Scoped(i) == chunks[i] # None /\ chunks[i].by = "item_scoped"
Profile(c) == <<client[c].model, client[c].dim>>

At(c, label) == client[c].at = label
Goes(c, to) == client' = [client EXCEPT ![c] = to]
Fault == spent.faults < FaultBound /\ spent' = [spent EXCEPT !.faults = @ + 1]

-----------------------------------------------------------------------------
(* The commands.                                                           *)

Start(c, r) ==
  /\ At(c, "idle") /\ spent.starts < StartBound /\ Goes(c, r)
  /\ alone' = IF \A d \in Client : At(d, "idle") THEN {c} ELSE {}
  /\ spent' = [spent EXCEPT !.starts = @ + 1]
  /\ UNCHANGED <<lib, meta, chunks, vecs, width, blind>>

StartSync(c) ==
  \E m \in Models, full \in BOOLEAN :
    Start(c, [Idle EXCEPT !.at = "open", !.full = full, !.model = m])

\* The launcher indexes the Markdown it has just converted.
StartIndex(c) ==
  \E m \in Models, i \in Items, t \in Texts :
    Start(c, [Idle EXCEPT !.at = "open", !.model = m, !.item = i, !.text = t])

\* SQLiteVecStore(): the table is created with the width of whoever opens the
\* store first, and everyone else takes the width there is.
Opened(c) == width' = IF width = None THEN Width[client[c].model] ELSE width

\* The first block of the command.  A full sync is selective when there are
\* chunks a pipeline owns; else it drops the tables.
Open(c) ==
  LET w == client[c]
      spare == \E i \in Items : Scoped(i)
  IN
  /\ At(c, "open") /\ Opened(c)
  /\ Goes(c, [w EXCEPT !.spare = w.full /\ spare, !.dim = width',
       !.at = IF w.item # None THEN "compare"
              ELSE IF w.full /\ ~spare THEN "dropVectors" ELSE "items"])
  /\ UNCHANGED <<lib, meta, chunks, vecs, alone, blind, spent>>

DropVectors(c) ==
  /\ At(c, "dropVectors")
  /\ vecs' = {} /\ width' = None
  /\ Goes(c, [client[c] EXCEPT !.at = "dropRows"])
  /\ UNCHANGED <<lib, meta, chunks, alone, blind, spent>>

DropRows(c) ==
  /\ At(c, "dropRows") /\ Opened(c)
  /\ meta' = [i \in Items |-> None] /\ chunks' = [i \in Items |-> None]
  /\ vecs' = {} /\ blind' = FALSE
  /\ Goes(c, [client[c] EXCEPT !.at = "items"])
  /\ UNCHANGED <<lib, alone, spent>>

-----------------------------------------------------------------------------
(* sync.                                                                   *)

\* The second block opens the store again; iter_items.
ReadItems(c) ==
  LET live == {i \in Items : lib[i].live} IN
  /\ At(c, "items") /\ Opened(c)
  /\ Goes(c, [client[c] EXCEPT !.at = "clear", !.dim = width',
                               !.items = [i \in live |-> lib[i].modified]])
  /\ UNCHANGED <<lib, meta, chunks, vecs, alone, blind, spent>>

\* Mutant: a selective full sync clears every row.
ClearAll(c) ==
  IF client[c].spare
  THEN /\ meta' = [i \in Items |-> None] /\ vecs' = {}
       /\ chunks' = [i \in Items |-> None]
  ELSE UNCHANGED <<meta, chunks, vecs>>

\* clear_for_full_sync_preserving_item_scoped_chunks.
Clear(c) ==
  IF client[c].spare
  THEN /\ meta' = [i \in Items |-> None]
       /\ chunks' = [i \in Items |-> IF Scoped(i) THEN chunks[i] ELSE None]
       /\ vecs' = {r \in vecs : r[1] = "chunks" /\ Scoped(r[2])}
  ELSE UNCHANGED <<meta, chunks, vecs>>

\* existing_keys: the items to embed are the new ones and the changed ones.
ReadExisting(c) ==
  LET w == client[c] IN
  /\ At(c, "clear") /\ Clear(c)
  /\ Goes(c, [w EXCEPT !.at = "meta", !.todo = {i \in DOMAIN w.items : meta'[i] # w.items[i]}])
  /\ UNCHANGED <<lib, width, alone, blind, spent>>

\* The embedding of a row: a vector of the width of the table, or, when the
\* service answers with fewer vectors than rows, a zero vector; JinaEmbedder
\* raises in that case.  Another width is refused by the table.
JinaEmbed == {"vector"}
GeminiEmbed == {"vector", "zeros"}
QwenEmbed == {"vector", "zeros"}
Embed(c) == IF client[c].model \notin Pads THEN JinaEmbed
            ELSE IF client[c].model = "qwen" THEN QwenEmbed ELSE GeminiEmbed

\* The vector of one row is stored.  Zeros cost a fault.
Vector(c, r) ==
  /\ width = client[c].dim
  /\ \E e \in Embed(c) :
       \/ e = "vector" /\ vecs' = vecs \cup {r} /\ UNCHANGED <<blind, spent>>
       \/ e = "zeros" /\ vecs' = vecs \ {r} /\ blind' = TRUE /\ Fault

\* One batch of the first pass (of one item).
UpsertMeta(c) ==
  LET w == client[c] IN
  /\ At(c, "meta")
  /\ \E i \in w.todo :
       /\ Vector(c, Row("meta", i))
       /\ meta' = [meta EXCEPT ![i] = w.items[i]]
       /\ Goes(c, [w EXCEPT !.todo = @ \ {i}])
  /\ UNCHANGED <<lib, chunks, width, alone>>

\* Mutant: the second pass looks at the items of the first one.
SecondPassOfChanged(c) ==
  LET w == client[c]
      left == {i \in DOMAIN w.items : chunks[i] = None}
  IN
  /\ At(c, "meta") /\ w.todo = {}
  /\ Goes(c, [w EXCEPT !.at = "chunks", !.todo = left, !.texts = [i \in left |-> lib[i].text]])
  /\ UNCHANGED <<lib, meta, chunks, vecs, width, alone, blind, spent>>

\* resolve_fulltext_artifacts: the texts of all items are read at once.
SecondPass(c) ==
  LET w == client[c] IN
  /\ At(c, "meta") /\ w.todo = {}
  /\ Goes(c, [w EXCEPT !.at = "chunks", !.todo = DOMAIN w.items,
                       !.texts = [i \in DOMAIN w.items |-> lib[i].text]])
  /\ UNCHANGED <<lib, meta, chunks, vecs, width, alone, blind, spent>>

\* _chunks_match_identity
Matches(c, i, t) ==
  chunks[i] # None /\ chunks[i].source = t /\ chunks[i].profile = Profile(c)

\* remove_sync_managed_item_chunks
DropChunks(i) ==
  IF chunks[i] # None /\ ~Scoped(i)
  THEN chunks' = [chunks EXCEPT ![i] = None] /\ vecs' = vecs \ {Row("chunks", i)}
  ELSE UNCHANGED <<chunks, vecs>>

\* The second pass comes to an item: nothing to do, or its chunks are embedded.
TakeItem(c) ==
  LET w == client[c] IN
  /\ At(c, "chunks")
  /\ \E i \in w.todo :
       LET t == w.texts[i] IN
       IF t = None \/ (w.spare /\ Scoped(i)) \/ Matches(c, i, t)
       THEN /\ IF t = None \/ (w.spare /\ Scoped(i)) THEN DropChunks(i) ELSE UNCHANGED <<chunks, vecs>>
            /\ Goes(c, [w EXCEPT !.todo = @ \ {i}])
       ELSE /\ Goes(c, [w EXCEPT !.at = "embed", !.todo = @ \ {i}, !.item = i, !.text = t])
            /\ UNCHANGED <<chunks, vecs>>
  /\ UNCHANGED <<lib, meta, width, alone, blind, spent>>

\* replace_item_chunks, for a sync and for an index command.
Replace(c) ==
  LET w == client[c] IN
  /\ At(c, "embed")
  /\ Vector(c, Row("chunks", w.item))
  /\ chunks' = [chunks EXCEPT ![w.item] =
       [source |-> w.text, profile |-> Profile(c),
        by |-> IF w.items = Idle.items THEN "item_scoped" ELSE "zotero_sync"]]
  /\ Goes(c, IF w.items = Idle.items THEN [w EXCEPT !.at = "evidence"]
             ELSE [w EXCEPT !.at = "chunks", !.item = None, !.text = None])
  /\ UNCHANGED <<lib, meta, width, alone>>

EndSync(c) ==
  /\ At(c, "chunks") /\ client[c].todo = {} /\ Goes(c, Idle)
  /\ alone' = alone \ {c}
  /\ UNCHANGED <<lib, meta, chunks, vecs, width, blind, spent>>

-----------------------------------------------------------------------------
(* index_markdown_item.                                                    *)

\* The file has the hash the launcher names, or the command fails; chunks of
\* the same identity are reused.
Compare(c) ==
  LET w == client[c] IN
  /\ At(c, "compare")
  /\ Goes(c, [w EXCEPT !.at = IF Matches(c, w.item, w.text) THEN "evidence" ELSE "embed"])
  /\ UNCHANGED <<lib, meta, chunks, vecs, width, alone, blind, spent>>

Evidence(c) ==
  /\ At(c, "evidence") /\ Goes(c, Idle)
  /\ alone' = alone \ {c}
  /\ UNCHANGED <<lib, meta, chunks, vecs, width, blind, spent>>

-----------------------------------------------------------------------------

\* A command is killed, its provider or the store fails, or the table has
\* another width by now.  A command that ends between the DROPs leaves rows
\* without vectors.
Fails(c) ==
  /\ ~At(c, "idle") /\ Goes(c, Idle)
  /\ \/ Fault
     \/ client[c].at \in {"meta", "embed"} /\ width # client[c].dim /\ UNCHANGED spent
  /\ blind' = (blind \/ At(c, "dropRows"))
  /\ alone' = alone \ {c}
  /\ UNCHANGED <<lib, meta, chunks, vecs, width>>

\* Zotero: an item is edited, gets or loses its Markdown, or goes to the bin.
Edit(i) ==
  /\ spent.edits < EditBound /\ lib[i].live
  /\ \/ lib' = [lib EXCEPT ![i].modified = @ + 1]
     \/ \E t \in Texts \cup {None} : t # lib[i].text /\ lib' = [lib EXCEPT ![i].text = t]
     \/ lib' = [lib EXCEPT ![i].live = FALSE]
  /\ spent' = [spent EXCEPT !.edits = @ + 1] /\ alone' = {}
  /\ UNCHANGED <<meta, chunks, vecs, width, client, blind>>

Works(c) ==
  \/ Open(c) \/ DropVectors(c) \/ DropRows(c) \/ ReadItems(c) \/ ReadExisting(c)
  \/ UpsertMeta(c) \/ SecondPass(c) \/ TakeItem(c) \/ Replace(c) \/ EndSync(c)
  \/ Compare(c) \/ Evidence(c)

IndexNext ==
  \/ \E c \in Client : StartSync(c) \/ StartIndex(c) \/ Works(c) \/ Fails(c)
  \/ \E i \in Items : Edit(i)

IndexSpec == IndexInit /\ [][IndexNext]_indexVars

-----------------------------------------------------------------------------
(* Properties.                                                             *)

IndexTypeOK ==
  /\ \A i \in Items : meta[i] \in {None} \cup 1 .. EditBound + 1
  /\ \A i \in Items : chunks[i] # None => chunks[i].source \in Texts
  /\ vecs \subseteq {"meta", "chunks"} \X Items
  /\ alone \subseteq Client

\* The chunks a sync leaves for an item: those of its text, or what a pipeline
\* indexed when there is no text, or when the sync is a selective full one.
ChunksOf(c, i) ==
  \/ lib[i].text # None /\ Matches(c, i, lib[i].text)
  \/ Scoped(i) /\ (lib[i].text = None \/ client[c].spare)
  \/ lib[i].text = None /\ chunks[i] = None

\* A sync that nothing interfered with ends with an index that is current,
\* whatever earlier commands left half done: every item of the library has a row
\* of its last edit, the chunks of its present text and no others, although a
\* text changes without its item, and a vector for each (unless a short reply
\* or a kill between two DROPs took one).
IndexIsCurrent ==
  /\ IndexTypeOK
  /\ \A c \in alone : At(c, "chunks") /\ client[c].todo = {} =>
       \A i \in Items : lib[i].live =>
         /\ meta[i] = lib[i].modified /\ ChunksOf(c, i)
         /\ \/ blind
            \/ Row("meta", i) \in vecs /\ (chunks[i] # None => Row("chunks", i) \in vecs)

\* What a pipeline indexed is never merely cleared by a sync: it is replaced by
\* other chunks of its item, or lost in a full sync that saw none.
PipelineChunksStay ==
  [][\A i \in Items : Scoped(i) /\ chunks'[i] = None =>
       \E c \in Client : At(c, "dropRows")]_indexVars
=============================================================================
