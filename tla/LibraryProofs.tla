--------------------------- MODULE LibraryProofs ---------------------------
(***************************************************************************)
(* What holds of the index, of a search, of a snapshot and of the writes   *)
(* of a library.                                                           *)
(*                                                                         *)
(* The index: for any number of commands, kills, failures and edits,       *)
(* IndexIsCurrent and PipelineChunksStay.                                  *)
(* IndexIsCurrent speaks of the end of a sync and is not inductive.  Three *)
(* facts carry it through a sync: the types (TypeInv); a row without a     *)
(* vector is accounted for (VectorInv); and what a sync that is alone has  *)
(* done so far at each of its labels (AloneInv).                           *)
(*                                                                         *)
(* The search: for any rows in any order, RankingIsRight.  A channel       *)
(* returns an item once (Once); what the channels found is put in an order *)
(* that is total and has no cycle (Orders), for a score is an exact        *)
(* fraction and a tie is always broken the same way; and two contributions *)
(* from the first 61 ranks are more than one from any rank (BothAreMore).  *)
(*                                                                         *)
(* The snapshot: for any number of transactions and readings,              *)
(* SnapshotIsOneMoment.  Two images that agree were not read at one        *)
(* moment, and each of them may be torn.  What they share is the key: a    *)
(* page of the last image is Past, so that no later commit brings it back; *)
(* hence the state that was committed when the second reading began agrees *)
(* with the last image wherever the second reading does (Shares).          *)
(*                                                                         *)
(* The writes: for any commands, edits and failures, WritesAreRight.  A    *)
(* command about to write has read the item as it is, or its write will be *)
(* refused; what it has created is one thing, or nothing yet (CommandOK).  *)
(***************************************************************************)
EXTENDS SearchIndex, CollectionSnapshot, SearchRanking, FiniteSetTheorems,
        SequenceTheorems, Functions, TLAPS

Partial(S, T) == UNION {[D -> T] : D \in SUBSET S}

Label == {"idle", "open", "dropVectors", "dropRows", "items", "clear", "meta", "chunks",
          "embed", "compare", "evidence"}
Stamp == 1 .. EditBound + 1
Dim == Nat \cup {None}
Chunk == [source : Texts, profile : Models \X Dim, by : {"item_scoped", "zotero_sync"}]
Process == [at : Label, full : BOOLEAN, model : Models \cup {None}, dim : Dim, spare : BOOLEAN,
            items : Partial(Items, Stamp), todo : SUBSET Items,
            texts : Partial(Items, Texts \cup {None}), item : Items \cup {None}, text : Texts \cup {None}]

\* None is neither a date nor a set of chunks.
NoneIsApart == None \notin Nat \cup Chunk

\* What a process knows at each label.
ProcessOK(w) ==
  /\ w.at # "idle" => w.model \in Models
  /\ w.at \in {"open", "compare"} => w.items = Idle.items /\ (w.item # None => w.text \in Texts)
  /\ w.at = "compare" => w.item # None
  /\ w.at = "embed" => /\ w.item \in Items /\ w.text \in Texts
                       /\ w.items # Idle.items => w.todo \subseteq DOMAIN w.texts
  /\ w.at = "meta" => w.todo \subseteq DOMAIN w.items
  /\ w.at = "chunks" => w.todo \subseteq DOMAIN w.texts

TypeInv ==
  /\ lib \in [Items -> [live : BOOLEAN, modified : Stamp, text : Texts \cup {None}]]
  /\ \A i \in Items : lib[i].modified <= spent.edits + 1
  /\ meta \in [Items -> {None} \cup Stamp]
  /\ chunks \in [Items -> {None} \cup Chunk]
  /\ vecs \subseteq {"meta", "chunks"} \X Items
  /\ width \in Dim
  /\ client \in [Client -> Process]
  /\ \A c \in Client : ProcessOK(client[c])
  /\ alone \subseteq Client
  /\ spent \in [starts : Nat, edits : 0 .. EditBound, faults : Nat]

\* A row has its vector, unless a short reply took it, or somebody is between
\* the DROPs.
VectorInv ==
  \/ blind
  \/ \E c \in Client : At(c, "dropRows")
  \/ \A i \in Items : /\ meta[i] # None => Row("meta", i) \in vecs
                      /\ chunks[i] # None => Row("chunks", i) \in vecs

\* A process that is alone has seen the library as it is; of the items it has
\* left behind, the rows are those of their last edit and the chunks right.
SawItems(w) ==
  /\ DOMAIN w.items = {i \in Items : lib[i].live}
  /\ \A i \in DOMAIN w.items : w.items[i] = lib[i].modified

SawTexts(c) ==
  LET w == client[c] IN
  /\ DOMAIN w.texts = DOMAIN w.items /\ \A i \in DOMAIN w.items : w.texts[i] = lib[i].text
  /\ \A i \in DOMAIN w.items : meta[i] = w.items[i]

Syncs(w) == w.items # Idle.items

Abreast(c) ==
  LET w == client[c] IN
  /\ w.at \in {"clear", "meta", "chunks"} => SawItems(w)
  /\ w.at = "meta" => \A i \in DOMAIN w.items \ w.todo : meta[i] = w.items[i]
  /\ w.at = "chunks" => SawTexts(c) /\ \A i \in DOMAIN w.items \ w.todo : ChunksOf(c, i)
  /\ w.at = "embed" /\ Syncs(w) =>
       /\ SawItems(w) /\ SawTexts(c)
       /\ w.item \in DOMAIN w.items /\ w.text = lib[w.item].text /\ w.text # None
       /\ \A i \in DOMAIN w.items \ (w.todo \cup {w.item}) : ChunksOf(c, i)

AloneInv == \A c \in alone : (\A d \in Client \ {c} : At(d, "idle")) /\ Abreast(c)

IndexInv == TypeInv /\ VectorInv /\ AloneInv

-----------------------------------------------------------------------------
(* Partial functions and the record of a process.                          *)

LEMMA PartialIntro ==
  ASSUME NEW S, NEW T, NEW D \in SUBSET S, NEW f \in [D -> T]
  PROVE f \in Partial(S, T)
BY DEF Partial

LEMMA PartialElim ==
  ASSUME NEW S, NEW T, NEW f \in Partial(S, T)
  PROVE DOMAIN f \in SUBSET S /\ \A x \in DOMAIN f : f[x] \in T
BY DEF Partial

LEMMA IdleIsProcess == Idle \in Process /\ ProcessOK(Idle)
<1>1. [i \in {} |-> 0] \in [{} -> Stamp] /\ [i \in {} |-> None] \in [{} -> Texts \cup {None}]
  OBVIOUS
<1>2. [i \in {} |-> 0] \in Partial(Items, Stamp)
  BY <1>1 DEF Partial
<1>3. [i \in {} |-> None] \in Partial(Items, Texts \cup {None})
  BY <1>1 DEF Partial
<1> QED
  BY <1>2, <1>3 DEF Idle, Process, ProcessOK, Label, Dim


LEMMA Onward ==
  ASSUME client \in [Client -> Process], \A d \in Client : ProcessOK(client[d]),
         NEW c \in Client, NEW r \in Process, ProcessOK(r), Goes(c, r)
  PROVE /\ client' \in [Client -> Process]
        /\ \A d \in Client : ProcessOK(client'[d])
        /\ client'[c] = r
        /\ \A d \in Client \ {c} : client'[d] = client[d]
BY DEF Goes

-----------------------------------------------------------------------------
(* Types.                                                                  *)

LEMMA TypeInitially == IndexInit => TypeInv
BY IndexAssumption, IdleIsProcess DEF IndexInit, TypeInv, Stamp, Dim, IndexAssumption

\* What is chunked is of the library's texts, by a model there is.
LEMMA ChunkRows ==
  ASSUME NEW w \in Process, w.model \in Models, w.text \in Texts, NEW b \in {"item_scoped", "zotero_sync"}
  PROVE [source |-> w.text, profile |-> <<w.model, w.dim>>, by |-> b] \in Chunk
BY DEF Process, Chunk

\* A label that says nothing of its process.
LEMMA Relabelled ==
  ASSUME NEW w \in Process, w.model \in Models, NEW to \in {"dropRows", "items", "evidence"}
  PROVE  LET r == [w EXCEPT !.at = to] IN r \in Process /\ ProcessOK(r)
<1> DEFINE r == [w EXCEPT !.at = to]
<1>1. r \in Process
  BY DEF Process, Label
<1>2. r.at = to /\ r.model = w.model
  BY DEF Process
<1> HIDE DEF r
<1>3. ProcessOK(r)
  BY <1>2 DEF ProcessOK
<1> QED
  BY <1>1, <1>3 DEF r

LEMMA TypeStep == TypeInv /\ IndexNext => TypeInv'
<1> SUFFICES ASSUME TypeInv, IndexNext PROVE TypeInv'
  OBVIOUS
<1> USE DEF TypeInv
<1>0. \A c \in Client : client[c] \in Process /\ ProcessOK(client[c])
  OBVIOUS
<1>w. \A c \in Client : Width[client[c].model] \in Nat \/ client[c].at = "idle"
  BY <1>0, IndexAssumption DEF ProcessOK, IndexAssumption
<1>m. \A c \in Client : client[c].at # "idle" => client[c].model \in Models
  BY <1>0 DEF ProcessOK
<1>1. ASSUME NEW c \in Client, StartSync(c) PROVE TypeInv'
  <2>1. PICK m \in Models, full \in BOOLEAN :
           Start(c, [Idle EXCEPT !.at = "open", !.full = full, !.model = m])
    BY <1>1 DEF StartSync
  <2> DEFINE r == [Idle EXCEPT !.at = "open", !.full = full, !.model = m]
  <2>2. r \in Process /\ ProcessOK(r)
    BY IdleIsProcess DEF Process, ProcessOK, Label, Idle
  <2>3. Goes(c, r)
    BY <2>1 DEF Start
  <2> HIDE DEF r
  <2>4. /\ client' \in [Client -> Process] /\ \A d \in Client : ProcessOK(client'[d])
    BY <2>2, <2>3, Onward
  <2>5. alone' \subseteq Client
    BY <2>1 DEF Start
  <2>6. spent' \in [starts : Nat, edits : 0 .. EditBound, faults : Nat] /\ spent'.edits = spent.edits
    BY <2>1 DEF Start
  <2>7. UNCHANGED <<lib, meta, chunks, vecs, width>>
    BY <2>1 DEF Start
  <2> QED
    BY <2>4, <2>5, <2>6, <2>7
<1>2. ASSUME NEW c \in Client, StartIndex(c) PROVE TypeInv'
  <2>1. PICK m \in Models, i \in Items, t \in Texts :
           Start(c, [Idle EXCEPT !.at = "open", !.model = m, !.item = i, !.text = t])
    BY <1>2 DEF StartIndex
  <2> DEFINE r == [Idle EXCEPT !.at = "open", !.model = m, !.item = i, !.text = t]
  <2>2. r \in Process /\ ProcessOK(r)
    BY IdleIsProcess DEF Process, ProcessOK, Label, Idle
  <2>3. Goes(c, r)
    BY <2>1 DEF Start
  <2> HIDE DEF r
  <2>4. /\ client' \in [Client -> Process] /\ \A d \in Client : ProcessOK(client'[d])
    BY <2>2, <2>3, Onward
  <2>5. alone' \subseteq Client
    BY <2>1 DEF Start
  <2>6. spent' \in [starts : Nat, edits : 0 .. EditBound, faults : Nat] /\ spent'.edits = spent.edits
    BY <2>1 DEF Start
  <2>7. UNCHANGED <<lib, meta, chunks, vecs, width>>
    BY <2>1 DEF Start
  <2> QED
    BY <2>4, <2>5, <2>6, <2>7
<1>3. ASSUME NEW c \in Client, Open(c) PROVE TypeInv'
  <2> DEFINE w == client[c]
             spare == \E i \in Items : Scoped(i)
             r == [w EXCEPT !.spare = w.full /\ spare, !.dim = width',
                   !.at = IF w.item # None THEN "compare"
                          ELSE IF w.full /\ ~spare THEN "dropVectors" ELSE "items"]
  <2>1. width' \in Dim
    BY <1>3, <1>w DEF Open, Opened, Dim, At
  <2>a. w.at = "open" /\ w \in Process /\ ProcessOK(w)
    BY <1>0, <1>3 DEF Open, At
  <2>2. r \in Process /\ ProcessOK(r)
    <3> DEFINE to == IF w.item # None THEN "compare"
                     ELSE IF w.full /\ ~spare THEN "dropVectors" ELSE "items"
    <3>1. to \in {"compare", "dropVectors", "items"} /\ (to = "compare" => w.item # None)
      OBVIOUS
    <3> HIDE DEF to
    <3>4. r = [w EXCEPT !.spare = w.full /\ spare, !.dim = width', !.at = to]
      BY DEF to
    <3>5. r.at = to
      BY <2>a, <3>4 DEF Process
    <3>2. r \in Process
      <4> DEFINE kept == w.full /\ spare
      <4>1. to \in Label /\ kept \in BOOLEAN
        BY <3>1 DEF Label
      <4> HIDE DEF kept
      <4>2. [w EXCEPT !.spare = kept, !.dim = width', !.at = to] \in Process
        BY <2>1, <2>a, <4>1 DEF Process
      <4> QED
        BY <3>4, <4>2 DEF kept
    <3>3. r.items = w.items /\ r.item = w.item /\ r.text = w.text /\ r.model = w.model
      BY <2>a DEF Process
    <3> HIDE DEF r
    <3> QED
      BY <2>a, <3>1, <3>2, <3>3, <3>5 DEF ProcessOK
  <2>3. Goes(c, r)
    BY <1>3 DEF Open
  <2> HIDE DEF r
  <2>4. /\ client' \in [Client -> Process] /\ \A d \in Client : ProcessOK(client'[d])
    BY <2>2, <2>3, Onward
  <2> QED
    BY <1>3, <2>1, <2>4 DEF Open
<1>4. ASSUME NEW c \in Client, DropVectors(c) PROVE TypeInv'
  <2> DEFINE r == [client[c] EXCEPT !.at = "dropRows"]
  <2>2. r \in Process /\ ProcessOK(r)
    BY <1>0, <1>4, <1>m, Relabelled DEF DropVectors, At, Label
  <2>3. Goes(c, r)
    BY <1>4 DEF DropVectors
  <2> HIDE DEF r
  <2>4. /\ client' \in [Client -> Process] /\ \A d \in Client : ProcessOK(client'[d])
    BY <2>2, <2>3, Onward
  <2> QED
    BY <1>4, <2>4 DEF DropVectors, Dim
<1>5. ASSUME NEW c \in Client, DropRows(c) PROVE TypeInv'
  <2> DEFINE r == [client[c] EXCEPT !.at = "items"]
  <2>1. width' \in Dim
    BY <1>5, <1>w DEF DropRows, Opened, Dim, At
  <2>2. r \in Process /\ ProcessOK(r)
    BY <1>0, <1>5, <1>m, Relabelled DEF DropRows, At, Label
  <2>3. Goes(c, r)
    BY <1>5 DEF DropRows
  <2> HIDE DEF r
  <2>4. /\ client' \in [Client -> Process] /\ \A d \in Client : ProcessOK(client'[d])
    BY <2>2, <2>3, Onward
  <2> QED
    BY <1>5, <2>4, <2>1 DEF DropRows
<1>6. ASSUME NEW c \in Client, ReadItems(c) PROVE TypeInv'
  <2> DEFINE w == client[c]
             live == {i \in Items : lib[i].live}
             found == [i \in live |-> lib[i].modified]
             r == [w EXCEPT !.at = "clear", !.dim = width', !.items = found]
  <2>1. width' \in Dim
    BY <1>6, <1>w DEF ReadItems, Opened, Dim, At
  <2>s. found \in Partial(Items, Stamp)
    <3>1. live \in SUBSET Items /\ found \in [live -> Stamp]
      OBVIOUS
    <3> HIDE DEF found, live
    <3> QED
      BY <3>1, PartialIntro
  <2>3. Goes(c, r)
    BY <1>6 DEF ReadItems
  <2> HIDE DEF found
  <2>a. w.at = "items" /\ w \in Process /\ ProcessOK(w)
    BY <1>0, <1>6 DEF ReadItems, At
  <2>b. r \in Process
    BY <2>a, <2>1, <2>s DEF Process, Label
  <2>c. r.at = "clear" /\ r.model = w.model
    BY <2>a DEF Process
  <2>2. r \in Process /\ ProcessOK(r)
    BY <2>a, <2>b, <2>c DEF ProcessOK
  <2> HIDE DEF r
  <2>4. /\ client' \in [Client -> Process] /\ \A d \in Client : ProcessOK(client'[d])
    BY <2>2, <2>3, Onward
  <2> QED
    BY <1>6, <2>1, <2>4 DEF ReadItems
<1>7. ASSUME NEW c \in Client, ReadExisting(c) PROVE TypeInv'
  <2> DEFINE w == client[c]
             r == [w EXCEPT !.at = "meta", !.todo = {i \in DOMAIN w.items : meta'[i] # w.items[i]}]
  <2>d. DOMAIN w.items \in SUBSET Items
    BY <1>0, PartialElim DEF Process
  <2>3. Goes(c, r)
    BY <1>7 DEF ReadExisting
  <2> DEFINE todo == {i \in DOMAIN w.items : meta'[i] # w.items[i]}
  <2>2. r \in Process /\ ProcessOK(r)
    <3>1. w.at = "clear" /\ w \in Process /\ w.model \in Models
      BY <1>0, <1>7, <1>m DEF ReadExisting, At
    <3>2. todo \in SUBSET Items /\ todo \subseteq DOMAIN w.items
      BY <2>d
    <3> HIDE DEF todo
    <3>3. r = [w EXCEPT !.at = "meta", !.todo = todo]
      BY DEF todo
    <3> HIDE DEF r
    <3>4. r \in Process
      BY <3>1, <3>2, <3>3 DEF Process, Label
    <3>5. r.at = "meta" /\ r.model = w.model /\ r.todo = todo /\ r.items = w.items
      BY <3>1, <3>3 DEF Process
    <3> QED
      BY <3>1, <3>2, <3>4, <3>5 DEF ProcessOK
  <2> HIDE DEF r
  <2>4. /\ client' \in [Client -> Process] /\ \A d \in Client : ProcessOK(client'[d])
    BY <2>2, <2>3, Onward
  <2>5. /\ meta' \in [Items -> {None} \cup Stamp] /\ chunks' \in [Items -> {None} \cup Chunk]
        /\ vecs' \subseteq {"meta", "chunks"} \X Items
    BY <1>7 DEF ReadExisting, Clear
  <2> QED
    BY <1>7, <2>4, <2>5 DEF ReadExisting
<1>v. ASSUME NEW c \in Client, NEW k \in {"meta", "chunks"}, NEW i \in Items, Vector(c, Row(k, i))
      PROVE /\ vecs' \subseteq {"meta", "chunks"} \X Items
            /\ spent' \in [starts : Nat, edits : 0 .. EditBound, faults : Nat]
            /\ spent'.edits = spent.edits
  <2>1. Row(k, i) \in {"meta", "chunks"} \X Items
    BY DEF Row
  <2>2. vecs' \subseteq vecs \cup {Row(k, i)}
    BY <1>v DEF Vector
  <2>3. UNCHANGED spent \/ spent' = [spent EXCEPT !.faults = @ + 1]
    BY <1>v DEF Vector, Fault
  <2> QED
    BY <2>1, <2>2, <2>3
<1>8. ASSUME NEW c \in Client, UpsertMeta(c) PROVE TypeInv'
  <2> DEFINE w == client[c]
  <2>1. PICK i \in w.todo : /\ Vector(c, Row("meta", i))
                            /\ meta' = [meta EXCEPT ![i] = w.items[i]]
                            /\ Goes(c, [w EXCEPT !.todo = @ \ {i}])
    BY <1>8 DEF UpsertMeta
  <2> DEFINE r == [w EXCEPT !.todo = w.todo \ {i}]
  <2>a. w.at = "meta" /\ w \in Process /\ ProcessOK(w)
    BY <1>0, <1>8 DEF UpsertMeta, At
  <2>2. r \in Process /\ ProcessOK(r)
    BY <2>a DEF Process, ProcessOK
  <2>3. Goes(c, r)
    BY <2>1
  <2>5. i \in Items /\ i \in DOMAIN w.items
    BY <1>0, <1>8 DEF UpsertMeta, At, Process, ProcessOK
  <2>6. w.items[i] \in Stamp
    BY <1>0, <2>5, PartialElim DEF Process
  <2> HIDE DEF r
  <2>4. /\ client' \in [Client -> Process] /\ \A d \in Client : ProcessOK(client'[d])
    BY <2>2, <2>3, Onward
  <2>7. meta' \in [Items -> {None} \cup Stamp]
    BY <2>1, <2>5, <2>6
  <2>8. /\ vecs' \subseteq {"meta", "chunks"} \X Items
        /\ spent' \in [starts : Nat, edits : 0 .. EditBound, faults : Nat]
        /\ spent'.edits = spent.edits
    BY <2>1, <2>5, <1>v
  <2> QED
    BY <1>8, <2>4, <2>7, <2>8 DEF UpsertMeta
<1>9. ASSUME NEW c \in Client, SecondPass(c) PROVE TypeInv'
  <2> DEFINE w == client[c]
             known == [i \in DOMAIN w.items |-> lib[i].text]
             r == [w EXCEPT !.at = "chunks", !.todo = DOMAIN w.items, !.texts = known]
  <2>d. DOMAIN w.items \in SUBSET Items
    BY <1>0, PartialElim DEF Process
  <2>k. known \in [DOMAIN w.items -> Texts \cup {None}] /\ DOMAIN known = DOMAIN w.items
    BY <2>d
  <2>3. Goes(c, r)
    BY <1>9 DEF SecondPass
  <2> HIDE DEF known
  <2>p. known \in Partial(Items, Texts \cup {None})
    BY <2>d, <2>k, PartialIntro
  <2>2. r \in Process /\ ProcessOK(r)
    <3>1. w.at = "meta" /\ w \in Process /\ w.model \in Models
      BY <1>0, <1>9, <1>m DEF SecondPass, At
    <3>2. r \in Process
      BY <2>d, <2>p, <3>1 DEF Process, Label
    <3>3. r.at = "chunks" /\ r.model = w.model /\ r.todo = DOMAIN w.items /\ r.texts = known
      BY <3>1 DEF Process
    <3> HIDE DEF r
    <3> QED
      BY <2>k, <3>1, <3>2, <3>3 DEF ProcessOK
  <2> HIDE DEF r
  <2>4. /\ client' \in [Client -> Process] /\ \A d \in Client : ProcessOK(client'[d])
    BY <2>2, <2>3, Onward
  <2> QED
    BY <1>9, <2>4 DEF SecondPass
<1>10. ASSUME NEW c \in Client, TakeItem(c) PROVE TypeInv'
  <2> DEFINE w == client[c]
  <2>1. PICK i \in w.todo :
          \/ /\ DropChunks(i) \/ UNCHANGED <<chunks, vecs>>
             /\ Goes(c, [w EXCEPT !.todo = @ \ {i}])
          \/ /\ w.texts[i] # None /\ UNCHANGED <<chunks, vecs>>
             /\ Goes(c, [w EXCEPT !.at = "embed", !.todo = @ \ {i}, !.item = i, !.text = w.texts[i]])
    BY <1>10 DEF TakeItem
  <2>2. i \in Items /\ i \in DOMAIN w.texts
    BY <1>0, <1>10 DEF TakeItem, At, Process, ProcessOK
  <2>3. w.texts[i] \in Texts \cup {None}
    BY <1>0, <2>2, PartialElim DEF Process
  <2>4. chunks' \in [Items -> {None} \cup Chunk] /\ vecs' \subseteq {"meta", "chunks"} \X Items
    BY <2>1, <2>2 DEF DropChunks
  <2>5. PICK r \in Process : ProcessOK(r) /\ Goes(c, r)
    <3> DEFINE on == [w EXCEPT !.todo = w.todo \ {i}]
               em == [w EXCEPT !.at = "embed", !.todo = w.todo \ {i}, !.item = i, !.text = w.texts[i]]
    <3>a. w.at = "chunks" /\ w \in Process /\ ProcessOK(w) /\ w.model \in Models
      BY <1>0, <1>10, <1>m DEF TakeItem, At
    <3>b. w.todo \in SUBSET Items /\ w.todo \subseteq DOMAIN w.texts
      BY <3>a DEF Process, ProcessOK
    <3>1. on \in Process /\ ProcessOK(on)
      <4>1. on \in Process
        BY <3>a, <3>b DEF Process
      <4>2. on.at = "chunks" /\ on.model = w.model /\ on.todo = w.todo \ {i} /\ on.texts = w.texts
        BY <3>a DEF Process
      <4> HIDE DEF on
      <4> QED
        BY <3>a, <3>b, <4>1, <4>2 DEF ProcessOK
    <3>2. w.texts[i] # None => em \in Process /\ ProcessOK(em)
      <4> SUFFICES ASSUME w.texts[i] # None PROVE em \in Process /\ ProcessOK(em)
        OBVIOUS
      <4>1. em \in Process
        BY <2>2, <2>3, <3>a, <3>b DEF Process, Label
      <4>2. /\ em.at = "embed" /\ em.model = w.model /\ em.todo = w.todo \ {i} /\ em.texts = w.texts
            /\ em.item = i /\ em.text = w.texts[i]
        BY <3>a DEF Process
      <4> HIDE DEF em
      <4> QED
        BY <2>2, <2>3, <3>a, <3>b, <4>1, <4>2 DEF ProcessOK
    <3>3. Goes(c, on) \/ (w.texts[i] # None /\ Goes(c, em))
      BY <2>1
    <3> QED
      BY <3>1, <3>2, <3>3
  <2>6. /\ client' \in [Client -> Process] /\ \A d \in Client : ProcessOK(client'[d])
    BY <2>5, Onward
  <2> QED
    BY <1>10, <2>4, <2>6 DEF TakeItem
<1>11. ASSUME NEW c \in Client, Replace(c) PROVE TypeInv'
  <2> DEFINE w == client[c]
             by == IF w.items = Idle.items THEN "item_scoped" ELSE "zotero_sync"
             row == [source |-> w.text, profile |-> Profile(c), by |-> by]
  <2>1. w.item \in Items /\ w.text \in Texts /\ w.model \in Models
    BY <1>0, <1>11 DEF Replace, At, ProcessOK
  <2>2. row \in Chunk
    BY <1>0, <2>1, ChunkRows DEF Profile
  <2>3. chunks' = [chunks EXCEPT ![w.item] = row]
    BY <1>11 DEF Replace
  <2>4. PICK r \in Process : ProcessOK(r) /\ Goes(c, r)
    <3> DEFINE ev == [w EXCEPT !.at = "evidence"]
               on == [w EXCEPT !.at = "chunks", !.item = None, !.text = None]
    <3>a. w.at = "embed" /\ w \in Process /\ ProcessOK(w) /\ w.model \in Models
      BY <1>0, <1>11, <1>m DEF Replace, At
    <3>1. ev \in Process /\ ProcessOK(ev)
      BY <3>a, Relabelled DEF Label
    <3>2. w.items # Idle.items => on \in Process /\ ProcessOK(on)
      <4>1. on \in Process
        BY <3>a DEF Process, Label
      <4>2. on.at = "chunks" /\ on.model = w.model /\ on.todo = w.todo /\ on.texts = w.texts
        BY <3>a DEF Process
      <4> HIDE DEF on
      <4> QED
        BY <3>a, <4>1, <4>2 DEF ProcessOK
    <3>3. Goes(c, ev) \/ (w.items # Idle.items /\ Goes(c, on))
      BY <1>11 DEF Replace
    <3> QED
      BY <3>1, <3>2, <3>3
  <2> HIDE DEF row
  <2>5. chunks' \in [Items -> {None} \cup Chunk]
    BY <2>1, <2>2, <2>3
  <2>6. /\ client' \in [Client -> Process] /\ \A d \in Client : ProcessOK(client'[d])
    BY <2>4, Onward
  <2>7. /\ vecs' \subseteq {"meta", "chunks"} \X Items
        /\ spent' \in [starts : Nat, edits : 0 .. EditBound, faults : Nat]
        /\ spent'.edits = spent.edits
    BY <1>11, <2>1, <1>v DEF Replace
  <2> QED
    BY <1>11, <2>5, <2>6, <2>7 DEF Replace
<1>i. ASSUME NEW c \in Client, Goes(c, Idle)
      PROVE client' \in [Client -> Process] /\ \A d \in Client : ProcessOK(client'[d])
  BY <1>i, IdleIsProcess, Onward
<1>12. ASSUME NEW c \in Client, EndSync(c) PROVE TypeInv'
  BY <1>12, <1>i DEF EndSync
<1>13. ASSUME NEW c \in Client, Compare(c) PROVE TypeInv'
  <2> DEFINE r == [client[c] EXCEPT !.at = IF Matches(c, client[c].item, client[c].text) THEN "evidence" ELSE "embed"]
  <2>2. r \in Process /\ ProcessOK(r)
    <3> DEFINE w == client[c]
               to == IF Matches(c, w.item, w.text) THEN "evidence" ELSE "embed"
    <3>1. w.at = "compare" /\ w \in Process /\ ProcessOK(w) /\ w.model \in Models
      BY <1>0, <1>13, <1>m DEF Compare, At
    <3>2. to \in {"evidence", "embed"}
      OBVIOUS
    <3> HIDE DEF to
    <3>3. r = [w EXCEPT !.at = to]
      BY DEF to
    <3> HIDE DEF r
    <3>4. r \in Process /\ r.at = to /\ r.model = w.model /\ r.item = w.item /\ r.text = w.text
          /\ r.items = w.items
      BY <3>1, <3>2, <3>3 DEF Process, Label
    <3>5. w.item \in Items /\ w.text \in Texts /\ w.items = Idle.items
      BY <3>1 DEF ProcessOK, Process
    <3> QED
      BY <3>1, <3>2, <3>4, <3>5 DEF ProcessOK
  <2>3. Goes(c, r)
    BY <1>13 DEF Compare
  <2> HIDE DEF r
  <2>4. /\ client' \in [Client -> Process] /\ \A d \in Client : ProcessOK(client'[d])
    BY <2>2, <2>3, Onward
  <2> QED
    BY <1>13, <2>4 DEF Compare
<1>14. ASSUME NEW c \in Client, Evidence(c) PROVE TypeInv'
  BY <1>14, <1>i DEF Evidence
<1>15. ASSUME NEW c \in Client, Fails(c) PROVE TypeInv'
  <2>1. /\ spent' \in [starts : Nat, edits : 0 .. EditBound, faults : Nat]
        /\ spent'.edits = spent.edits
    BY <1>15 DEF Fails, Fault
  <2>2. Goes(c, Idle)
    BY <1>15 DEF Fails
  <2> QED
    BY <1>15, <1>i, <2>1, <2>2 DEF Fails
<1>16. ASSUME NEW i \in Items, Edit(i) PROVE TypeInv'
  <2>1. spent.edits < EditBound /\ spent' = [spent EXCEPT !.edits = @ + 1]
    BY <1>16 DEF Edit
  <2>2. spent' \in [starts : Nat, edits : 0 .. EditBound, faults : Nat] /\ spent'.edits = spent.edits + 1
    BY <2>1, IndexAssumption DEF IndexAssumption
  <2>3. \/ lib' = [lib EXCEPT ![i].modified = @ + 1]
        \/ \E t \in Texts \cup {None} : lib' = [lib EXCEPT ![i].text = t]
        \/ lib' = [lib EXCEPT ![i].live = FALSE]
    BY <1>16 DEF Edit
  <2>4. lib[i].modified + 1 \in Stamp
    BY <2>1, IndexAssumption DEF Stamp, IndexAssumption
  <2>5. lib' \in [Items -> [live : BOOLEAN, modified : Stamp, text : Texts \cup {None}]]
    <3> DEFINE Entry == [live : BOOLEAN, modified : Stamp, text : Texts \cup {None}]
    <3>1. lib[i] \in Entry
      OBVIOUS
    <3>2. /\ [lib[i] EXCEPT !.modified = @ + 1] \in Entry /\ [lib[i] EXCEPT !.live = FALSE] \in Entry
          /\ \A t \in Texts \cup {None} : [lib[i] EXCEPT !.text = t] \in Entry
      BY <2>4, <3>1
    <3>3. PICK x \in Entry : lib' = [lib EXCEPT ![i] = x]
      BY <2>3, <3>2
    <3> HIDE DEF Entry
    <3>4. lib \in [Items -> Entry]
      BY DEF Entry
    <3>5. lib' \in [Items -> Entry]
      BY <3>3, <3>4
    <3> QED
      BY <3>5 DEF Entry
  <2>6. \A j \in Items : lib'[j].modified <= spent.edits + 2
    BY <2>3, <2>4 DEF Stamp
  <2> QED
    BY <1>16, <2>2, <2>5, <2>6 DEF Edit
<1> QED
  BY <1>1, <1>2, <1>3, <1>4, <1>5, <1>6, <1>7, <1>8, <1>9, <1>10, <1>11, <1>12, <1>13, <1>14, <1>15, <1>16
  DEF IndexNext, Works


-----------------------------------------------------------------------------
(* Vectors.                                                                *)

LEMMA VectorInitially == IndexInit => VectorInv
BY DEF IndexInit, VectorInv

\* One row written with its vector keeps VectorInv, whoever is between DROPs.
LEMMA VectorStep == TypeInv /\ VectorInv /\ IndexNext => VectorInv'
<1> SUFFICES ASSUME TypeInv, VectorInv, IndexNext PROVE VectorInv'
  OBVIOUS
<1> DEFINE Complete == \A i \in Items : /\ meta[i] # None => Row("meta", i) \in vecs
                                        /\ chunks[i] # None => Row("chunks", i) \in vecs
\* Nobody who is between the DROPs moves, and no row loses its vector.
<1>s. ASSUME NEW c \in Client, client[c].at # "dropRows",
             \A d \in Client \ {c} : client'[d] = client[d],
             blind => blind', Complete => Complete' \/ blind'
      PROVE VectorInv'
  BY <1>s DEF VectorInv, At
<1>g. ASSUME NEW c \in Client, NEW r, Goes(c, r) PROVE \A d \in Client \ {c} : client'[d] = client[d]
  BY <1>g DEF Goes, TypeInv
<1>1. ASSUME NEW c \in Client, NEW r, Start(c, r) PROVE VectorInv'
  BY <1>1, <1>s, <1>g DEF Start, At
<1>2. ASSUME NEW c \in Client, StartSync(c) \/ StartIndex(c) PROVE VectorInv'
  BY <1>1, <1>2 DEF StartSync, StartIndex
<1>3. ASSUME NEW c \in Client, Open(c) PROVE VectorInv'
  <2>1. client[c].at # "dropRows" /\ UNCHANGED <<meta, chunks, vecs, blind>>
    BY <1>3 DEF Open, At
  <2>2. \A d \in Client \ {c} : client'[d] = client[d]
    BY <1>3, <1>g DEF Open
  <2> QED
    BY <2>1, <2>2, <1>s
<1>4. ASSUME NEW c \in Client, DropVectors(c) PROVE VectorInv'
  BY <1>4 DEF DropVectors, VectorInv, At, Goes, TypeInv, Process
<1>5. ASSUME NEW c \in Client, DropRows(c) PROVE VectorInv'
  BY <1>5 DEF DropRows, VectorInv
<1>6. ASSUME NEW c \in Client, ReadItems(c) PROVE VectorInv'
  <2>1. client[c].at # "dropRows" /\ UNCHANGED <<meta, chunks, vecs, blind>>
    BY <1>6 DEF ReadItems, At
  <2>2. \A d \in Client \ {c} : client'[d] = client[d]
    BY <1>6, <1>g DEF ReadItems
  <2> QED
    BY <2>1, <2>2, <1>s
<1>7. ASSUME NEW c \in Client, ReadExisting(c) PROVE VectorInv'
  <2>1. client[c].at # "dropRows" /\ UNCHANGED blind
    BY <1>7 DEF ReadExisting, At
  <2>2. \A d \in Client \ {c} : client'[d] = client[d]
    BY <1>7, <1>g DEF ReadExisting
  <2>3. Complete => Complete'
    BY <1>7 DEF ReadExisting, Clear, Row, Scoped, TypeInv
  <2> QED
    BY <2>1, <2>2, <2>3, <1>s
<1>v. ASSUME NEW c \in Client, NEW x, Vector(c, x)
      PROVE (vecs' = vecs \cup {x} /\ blind' = blind) \/ blind'
  BY <1>v DEF Vector
<1>8. ASSUME NEW c \in Client, UpsertMeta(c) PROVE VectorInv'
  <2>1. client[c].at # "dropRows" /\ UNCHANGED chunks
    BY <1>8 DEF UpsertMeta, At
  <2>2. PICK i \in client[c].todo : /\ Vector(c, Row("meta", i))
                                    /\ meta' = [meta EXCEPT ![i] = client[c].items[i]]
                                    /\ Goes(c, [client[c] EXCEPT !.todo = @ \ {i}])
    BY <1>8 DEF UpsertMeta
  <2>3. (vecs' = vecs \cup {Row("meta", i)} /\ blind' = blind) \/ blind'
    BY <2>2, <1>v
  <2>4. \A j \in Items : j # i => meta'[j] = meta[j]
    BY <2>2 DEF TypeInv
  <2>5. Complete => Complete' \/ blind'
    BY <2>1, <2>3, <2>4
  <2>6. \A d \in Client \ {c} : client'[d] = client[d]
    BY <2>2, <1>g
  <2>7. blind => blind'
    BY <2>3
  <2> QED
    BY <2>1, <2>5, <2>6, <2>7, <1>s
<1>9. ASSUME NEW c \in Client, SecondPass(c) PROVE VectorInv'
  <2>1. client[c].at # "dropRows" /\ UNCHANGED <<meta, chunks, vecs, blind>>
    BY <1>9 DEF SecondPass, At
  <2>2. \A d \in Client \ {c} : client'[d] = client[d]
    BY <1>9, <1>g DEF SecondPass
  <2> QED
    BY <2>1, <2>2, <1>s
<1>10. ASSUME NEW c \in Client, TakeItem(c) PROVE VectorInv'
  <2>1. client[c].at # "dropRows" /\ UNCHANGED <<meta, blind>>
    BY <1>10 DEF TakeItem, At
  <2>2. PICK i \in client[c].todo : /\ DropChunks(i) \/ UNCHANGED <<chunks, vecs>>
                                    /\ \E r : Goes(c, r)
    BY <1>10 DEF TakeItem
  <2>3. \A d \in Client \ {c} : client'[d] = client[d]
    BY <2>2, <1>g
  <2>4. Complete => Complete'
    BY <2>1, <2>2 DEF DropChunks, Row, TypeInv
  <2> QED
    BY <2>1, <2>3, <2>4, <1>s
<1>11. ASSUME NEW c \in Client, Replace(c) PROVE VectorInv'
  <2> DEFINE i == client[c].item
  <2>1. client[c].at # "dropRows" /\ UNCHANGED meta
    BY <1>11 DEF Replace, At
  <2>2. (vecs' = vecs \cup {Row("chunks", i)} /\ blind' = blind) \/ blind'
    BY <1>11, <1>v DEF Replace
  <2>3. \A j \in Items : j # i => chunks'[j] = chunks[j]
    BY <1>11 DEF Replace, TypeInv
  <2>4. \E r : Goes(c, r)
    BY <1>11 DEF Replace
  <2>5. Complete => Complete' \/ blind'
    BY <2>1, <2>2, <2>3
  <2>6. \A d \in Client \ {c} : client'[d] = client[d]
    BY <2>4, <1>g
  <2>7. blind => blind'
    BY <2>2
  <2> QED
    BY <2>1, <2>5, <2>6, <2>7, <1>s
<1>12. ASSUME NEW c \in Client, EndSync(c) \/ Compare(c) \/ Evidence(c) PROVE VectorInv'
  <2>1. client[c].at # "dropRows" /\ UNCHANGED <<meta, chunks, vecs, blind>>
    BY <1>12 DEF EndSync, Compare, Evidence, At
  <2>2. \E r : Goes(c, r)
    BY <1>12 DEF EndSync, Compare, Evidence
  <2>3. \A d \in Client \ {c} : client'[d] = client[d]
    BY <2>2, <1>g
  <2> QED
    BY <2>1, <2>3, <1>s
<1>13. ASSUME NEW c \in Client, Fails(c) PROVE VectorInv'
  <2>1. UNCHANGED <<meta, chunks, vecs>> /\ blind' = (blind \/ At(c, "dropRows"))
    BY <1>13 DEF Fails
  <2>2. \A d \in Client \ {c} : client'[d] = client[d]
    BY <1>13, <1>g DEF Fails
  <2>3. CASE At(c, "dropRows")
    BY <2>1, <2>3 DEF VectorInv
  <2>4. CASE ~At(c, "dropRows")
    BY <2>1, <2>2, <2>4, <1>s DEF At
  <2> QED
    BY <2>3, <2>4
<1>14. ASSUME NEW i \in Items, Edit(i) PROVE VectorInv'
  BY <1>14 DEF Edit, VectorInv, At
<1> QED
  BY <1>2, <1>3, <1>4, <1>5, <1>6, <1>7, <1>8, <1>9, <1>10, <1>11, <1>12, <1>13, <1>14 DEF IndexNext, Works

-----------------------------------------------------------------------------
(* A sync that is alone.                                                   *)

LEMMA AloneInitially == IndexInit => AloneInv
BY DEF IndexInit, AloneInv

\* What was right for an item stays right while nobody touches it.
LEMMA ChunksOfStay ==
  ASSUME NEW c \in Client, NEW i \in Items, ChunksOf(c, i),
         UNCHANGED <<lib, chunks[i], client[c].spare, client[c].model, client[c].dim>>
  PROVE ChunksOf(c, i)'
BY DEF ChunksOf, Matches, Scoped, Profile

LEMMA AloneStep == NoneIsApart /\ TypeInv /\ AloneInv /\ IndexNext => AloneInv'
<1> SUFFICES ASSUME NoneIsApart, TypeInv, AloneInv, IndexNext PROVE AloneInv'
  OBVIOUS
<1>t. \A c \in Client : client[c] \in Process /\ ProcessOK(client[c])
  BY DEF TypeInv
<1>g. ASSUME NEW c \in Client, NEW r, Goes(c, r) PROVE client'[c] = r
  BY <1>g DEF Goes, TypeInv
\* Labels at which nothing is claimed.
<1>q. ASSUME NEW c \in Client, client'[c].at \in {"idle", "open", "dropVectors", "dropRows", "items", "compare", "evidence"}
      PROVE Abreast(c)'
  BY <1>q DEF Abreast
<1>0. ASSUME NEW c \in Client, NEW r, r.at = "open", Start(c, r) PROVE AloneInv'
  <2>1. client'[c] = r /\ \A d \in Client \ {c} : client'[d] = client[d]
    BY <1>0 DEF Start, Goes, TypeInv
  <2>2. alone' \subseteq {c} /\ (alone' # {} => \A d \in Client : At(d, "idle"))
    BY <1>0 DEF Start
  <2>3. Abreast(c)'
    BY <1>0, <1>q, <2>1
  <2> QED
    BY <2>1, <2>2, <2>3 DEF AloneInv, At
<1>1. ASSUME NEW c \in Client, StartSync(c) PROVE AloneInv'
  <2>1. PICK m \in Models, full \in BOOLEAN :
           Start(c, [Idle EXCEPT !.at = "open", !.full = full, !.model = m])
    BY <1>1 DEF StartSync
  <2>2. [Idle EXCEPT !.at = "open", !.full = full, !.model = m].at = "open"
    BY DEF Idle
  <2> QED
    BY <2>1, <2>2, <1>0
<1>2. ASSUME NEW c \in Client, StartIndex(c) PROVE AloneInv'
  <2>1. PICK m \in Models, i \in Items, t \in Texts :
           Start(c, [Idle EXCEPT !.at = "open", !.model = m, !.item = i, !.text = t])
    BY <1>2 DEF StartIndex
  <2>2. [Idle EXCEPT !.at = "open", !.model = m, !.item = i, !.text = t].at = "open"
    BY DEF Idle
  <2> QED
    BY <2>1, <2>2, <1>0
\* While a process acts, no other one is alone.
<1>p. ASSUME NEW c \in Client, ~At(c, "idle"), alone' \subseteq alone,
             \A d \in Client \ {c} : client'[d] = client[d], c \in alone' => Abreast(c)'
      PROVE AloneInv'
  <2>1. \A d \in alone' : d = c
    BY <1>p DEF AloneInv, TypeInv
  <2>2. c \in alone' => \A d \in Client \ {c} : At(d, "idle")'
    BY <1>p DEF AloneInv, At
  <2> QED
    BY <1>p, <2>1, <2>2 DEF AloneInv
<1>e. ASSUME NEW c \in Client, NEW r, Goes(c, r) PROVE \A d \in Client \ {c} : client'[d] = client[d]
  BY <1>e DEF Goes, TypeInv
<1>3. ASSUME NEW c \in Client, Open(c) PROVE AloneInv'
  <2> DEFINE w == client[c]
             spare == \E i \in Items : Scoped(i)
             r == [w EXCEPT !.spare = w.full /\ spare, !.dim = width',
                   !.at = IF w.item # None THEN "compare"
                          ELSE IF w.full /\ ~spare THEN "dropVectors" ELSE "items"]
  <2>r. client'[c] = r
    BY <1>3, <1>g DEF Open
  <2>a. r.at \in {"compare", "dropVectors", "items"}
    BY <1>t DEF Process
  <2>1. client'[c].at \in {"compare", "dropVectors", "items"}
    BY <2>r, <2>a
  <2>2. ~At(c, "idle") /\ alone' \subseteq alone
    BY <1>3 DEF Open, At
  <2>3. \A d \in Client \ {c} : client'[d] = client[d]
    BY <1>3, <1>e DEF Open
  <2> QED
    BY <2>1, <2>2, <2>3, <1>p, <1>q
<1>4. ASSUME NEW c \in Client, DropVectors(c) \/ DropRows(c) PROVE AloneInv'
  <2>1. client'[c].at \in {"dropRows", "items"}
    BY <1>4, <1>g, <1>t DEF DropVectors, DropRows, Process
  <2>2. ~At(c, "idle") /\ alone' \subseteq alone
    BY <1>4 DEF DropVectors, DropRows, At
  <2>3. \A d \in Client \ {c} : client'[d] = client[d]
    BY <1>4, <1>e DEF DropVectors, DropRows
  <2> QED
    BY <2>1, <2>2, <2>3, <1>p, <1>q
<1>5. ASSUME NEW c \in Client, ReadItems(c) PROVE AloneInv'
  <2> DEFINE found == [i \in {j \in Items : lib[j].live} |-> lib[i].modified]
  <2>1. client'[c].at = "clear" /\ client'[c].items = found
    BY <1>5, <1>g, <1>t DEF ReadItems, Process
  <2>2. SawItems(client[c])'
    BY <1>5, <2>1 DEF ReadItems, SawItems
  <2>3. Abreast(c)'
    BY <2>1, <2>2 DEF Abreast
  <2>4. ~At(c, "idle") /\ alone' \subseteq alone
    BY <1>5 DEF ReadItems, At
  <2>5. \A d \in Client \ {c} : client'[d] = client[d]
    BY <1>5, <1>e DEF ReadItems
  <2> QED
    BY <2>3, <2>4, <2>5, <1>p
\* The other steps of a sync that is alone.
<1>b. ASSUME NEW c \in alone PROVE c \in Client /\ Abreast(c)
  BY <1>b DEF AloneInv, TypeInv
<1>6. ASSUME NEW c \in Client, ReadExisting(c) PROVE AloneInv'
  <2>1. /\ client'[c].at = "meta" /\ client'[c].items = client[c].items
        /\ client'[c].todo = {i \in DOMAIN client[c].items : meta'[i] # client[c].items[i]}
    BY <1>6, <1>g, <1>t DEF ReadExisting, Process
  <2>2. ~At(c, "idle") /\ alone' = alone /\ client[c].at = "clear" /\ lib' = lib
    BY <1>6 DEF ReadExisting, At
  <2>3. c \in alone => SawItems(client[c])
    BY <1>b, <2>2 DEF Abreast
  <2>4. c \in alone => Abreast(c)'
    BY <2>1, <2>2, <2>3 DEF Abreast, SawItems
  <2>5. \A d \in Client \ {c} : client'[d] = client[d]
    BY <1>6, <1>e DEF ReadExisting
  <2> QED
    BY <2>2, <2>4, <2>5, <1>p
<1>7. ASSUME NEW c \in Client, UpsertMeta(c) PROVE AloneInv'
  <2>1. PICK i \in client[c].todo : /\ meta' = [meta EXCEPT ![i] = client[c].items[i]]
                                    /\ Goes(c, [client[c] EXCEPT !.todo = client[c].todo \ {i}])
    BY <1>7 DEF UpsertMeta
  <2>2. client'[c] = [client[c] EXCEPT !.todo = client[c].todo \ {i}]
    BY <2>1, <1>g
  <2>3. /\ client'[c].at = "meta" /\ client'[c].items = client[c].items
        /\ client'[c].todo = client[c].todo \ {i}
    BY <1>7, <2>2, <1>t DEF UpsertMeta, At, Process
  <2>4. ~At(c, "idle") /\ alone' = alone /\ client[c].at = "meta" /\ lib' = lib
    BY <1>7 DEF UpsertMeta, At
  <2>5. i \in Items /\ meta'[i] = client[c].items[i] /\ \A j \in Items : j # i => meta'[j] = meta[j]
    BY <2>1, <1>t DEF Process, TypeInv
  <2>6. DOMAIN client[c].items \subseteq Items
    BY <1>t, PartialElim DEF Process
  <2>7. c \in alone => SawItems(client[c]) /\ \A j \in DOMAIN client[c].items \ client[c].todo : meta[j] = client[c].items[j]
    BY <1>b, <2>4 DEF Abreast
  <2>8. c \in alone => Abreast(c)'
    BY <2>3, <2>4, <2>5, <2>6, <2>7 DEF Abreast, SawItems
  <2>9. \A d \in Client \ {c} : client'[d] = client[d]
    BY <2>1, <1>e
  <2> QED
    BY <2>4, <2>8, <2>9, <1>p
<1>8. ASSUME NEW c \in Client, SecondPass(c) PROVE AloneInv'
  <2> DEFINE known == [i \in DOMAIN client[c].items |-> lib[i].text]
  <2>1. /\ client'[c].at = "chunks" /\ client'[c].items = client[c].items
        /\ client'[c].todo = DOMAIN client[c].items /\ client'[c].texts = known
    <3>1. client'[c] = [client[c] EXCEPT !.at = "chunks", !.todo = DOMAIN client[c].items, !.texts = known]
      BY <1>8, <1>g DEF SecondPass
    <3> HIDE DEF known
    <3> QED
      BY <3>1, <1>t DEF Process
  <2>2. ~At(c, "idle") /\ alone' = alone /\ client[c].at = "meta" /\ client[c].todo = {} /\ UNCHANGED <<lib, meta>>
    BY <1>8 DEF SecondPass, At
  <2>3. c \in alone => SawItems(client[c]) /\ \A j \in DOMAIN client[c].items : meta[j] = client[c].items[j]
    BY <1>b, <2>2 DEF Abreast
  <2>4. c \in alone => SawItems(client[c])' /\ SawTexts(c)'
    BY <2>1, <2>2, <2>3 DEF SawItems, SawTexts
  <2>5. c \in alone => Abreast(c)'
    BY <2>1, <2>4 DEF Abreast
  <2>6. \A d \in Client \ {c} : client'[d] = client[d]
    BY <1>8, <1>e DEF SecondPass
  <2> QED
    BY <2>2, <2>5, <2>6, <1>p
<1>9. ASSUME NEW c \in Client, TakeItem(c) PROVE AloneInv'
  <2> DEFINE w == client[c]
  <2>0. ~At(c, "idle") /\ alone' = alone /\ w.at = "chunks" /\ UNCHANGED <<lib, meta>>
    BY <1>9 DEF TakeItem, At
  <2>i. \E r : Goes(c, r)
    BY <1>9 DEF TakeItem
  <2>d. \A d \in Client \ {c} : client'[d] = client[d]
    BY <2>i, <1>e
  <2>1. SUFFICES ASSUME c \in alone PROVE Abreast(c)'
    BY <2>0, <2>d, <1>p
  <2>2. /\ SawItems(w) /\ SawTexts(c)
        /\ \A j \in DOMAIN w.items \ w.todo : ChunksOf(c, j)
        /\ DOMAIN w.items \subseteq Items /\ DOMAIN w.texts = DOMAIN w.items
        /\ w.todo \subseteq DOMAIN w.items
    BY <1>b, <1>t, <2>0, <2>1, PartialElim DEF Abreast, SawTexts, Process, ProcessOK
  <2>3. PICK i \in w.todo :
          LET t == w.texts[i] IN
          IF t = None \/ (w.spare /\ Scoped(i)) \/ Matches(c, i, t)
          THEN /\ IF t = None \/ (w.spare /\ Scoped(i)) THEN DropChunks(i) ELSE UNCHANGED <<chunks, vecs>>
               /\ Goes(c, [w EXCEPT !.todo = w.todo \ {i}])
          ELSE /\ Goes(c, [w EXCEPT !.at = "embed", !.todo = w.todo \ {i}, !.item = i, !.text = t])
               /\ UNCHANGED <<chunks, vecs>>
    BY <1>9 DEF TakeItem
  <2> DEFINE t == w.texts[i]
             pass == t = None \/ (w.spare /\ Scoped(i)) \/ Matches(c, i, t)
  <2>4. i \in Items /\ i \in DOMAIN w.items /\ t = lib[i].text
    BY <2>2, <2>3 DEF SawTexts
  <2>5. \A j \in Items : j # i => chunks'[j] = chunks[j]
    BY <2>3 DEF DropChunks, TypeInv
  <2>6. CASE pass
    <3>1. Goes(c, [w EXCEPT !.todo = w.todo \ {i}])
      BY <2>3, <2>6
    <3>2. client'[c] = [w EXCEPT !.todo = w.todo \ {i}]
      BY <3>1, <1>g
    <3>3. /\ client'[c].at = "chunks" /\ client'[c].items = w.items /\ client'[c].texts = w.texts
          /\ client'[c].todo = w.todo \ {i} /\ client'[c].spare = w.spare
          /\ client'[c].model = w.model /\ client'[c].dim = w.dim
      BY <3>2, <2>0, <1>t DEF Process
    <3>4. \A j \in DOMAIN w.items \ w.todo : j # i => ChunksOf(c, j)'
      BY <2>0, <2>2, <2>5, <3>3, ChunksOfStay
    <3>5. ChunksOf(c, i)'
      <4>1. CASE t = None
        <5>1. DropChunks(i)
          BY <2>3, <2>6, <4>1
        <5>2. chunks'[i] = None \/ (Scoped(i) /\ chunks'[i] = chunks[i])
          BY <5>1, <2>4 DEF DropChunks, TypeInv
        <5>3. lib'[i].text = None
          BY <2>0, <2>4, <4>1
        <5> QED
          BY <5>2, <5>3 DEF ChunksOf, Scoped
      <4>2. CASE t # None /\ w.spare /\ Scoped(i)
        <5>1. DropChunks(i)
          BY <2>3, <2>6, <4>2
        <5>2. chunks'[i] = chunks[i]
          BY <5>1, <4>2 DEF DropChunks
        <5> QED
          BY <5>2, <4>2, <3>3 DEF ChunksOf, Scoped
      <4>3. CASE t # None /\ ~(w.spare /\ Scoped(i)) /\ Matches(c, i, t)
        <5>1. UNCHANGED chunks
          BY <2>3, <2>6, <4>3
        <5>2. Matches(c, i, lib[i].text)'
          BY <5>1, <4>3, <2>0, <2>4, <3>3 DEF Matches, Profile
        <5>3. lib'[i].text # None
          BY <2>0, <2>4, <4>3
        <5> QED
          BY <5>2, <5>3 DEF ChunksOf
      <4> QED
        BY <2>6, <4>1, <4>2, <4>3
    <3>6. SawItems(client[c])' /\ SawTexts(c)'
      <4>1. UNCHANGED <<lib, meta>> /\ client'[c].items = w.items /\ client'[c].texts = w.texts
        BY <2>0, <3>3
      <4>2. SawItems(w) /\ SawTexts(c)
        BY <2>2
      <4>3. SawItems(client[c])'
        BY <4>1, <4>2 DEF SawItems
      <4>4. SawTexts(c)'
        BY <4>1, <4>2 DEF SawTexts
      <4> QED
        BY <4>3, <4>4
    <3> QED
      BY <3>3, <3>4, <3>5, <3>6 DEF Abreast
  <2>7. CASE ~pass
    <3>1. Goes(c, [w EXCEPT !.at = "embed", !.todo = w.todo \ {i}, !.item = i, !.text = t]) /\ UNCHANGED chunks
      BY <2>3, <2>7
    <3>2. client'[c] = [w EXCEPT !.at = "embed", !.todo = w.todo \ {i}, !.item = i, !.text = t]
      BY <3>1, <1>g
    <3>3. /\ client'[c].at = "embed" /\ client'[c].items = w.items /\ client'[c].texts = w.texts
          /\ client'[c].todo = w.todo \ {i} /\ client'[c].spare = w.spare
          /\ client'[c].model = w.model /\ client'[c].dim = w.dim
          /\ client'[c].item = i /\ client'[c].text = t
      BY <3>2, <1>t DEF Process
    <3>4. \A j \in DOMAIN w.items \ w.todo : ChunksOf(c, j)'
      BY <2>0, <2>2, <3>1, <3>3, ChunksOfStay
    <3>5. SawItems(client[c])' /\ SawTexts(c)'
      <4>1. SawItems(client[c])'
        BY <2>0, <2>2, <3>3 DEF SawItems
      <4>2. SawTexts(c)'
        BY <2>0, <2>2, <3>3 DEF SawTexts
      <4> QED
        BY <4>1, <4>2
    <3>6. t # None /\ t = lib'[i].text
      BY <2>0, <2>4, <2>7
    <3> HIDE DEF t
    <3> QED
      BY <2>4, <3>3, <3>4, <3>5, <3>6 DEF Abreast
  <2> QED
    BY <2>6, <2>7
<1>10. ASSUME NEW c \in Client, Replace(c) PROVE AloneInv'
  <2> DEFINE w == client[c]
  <2>0. ~At(c, "idle") /\ alone' = alone /\ w.at = "embed" /\ UNCHANGED <<lib, meta>>
    BY <1>10 DEF Replace, At
  <2>i. \E r : Goes(c, r)
    BY <1>10 DEF Replace
  <2>d. \A d \in Client \ {c} : client'[d] = client[d]
    BY <2>i, <1>e
  <2>1. SUFFICES ASSUME c \in alone PROVE Abreast(c)'
    BY <2>0, <2>d, <1>p
  <2>2. CASE ~Syncs(w)
    <3>1. Goes(c, [w EXCEPT !.at = "evidence"])
      BY <1>10, <2>2 DEF Replace, Syncs
    <3>2. client'[c] = [w EXCEPT !.at = "evidence"]
      BY <3>1, <1>g
    <3>3. client'[c].at = "evidence"
      BY <3>2, <1>t DEF Process
    <3> QED
      BY <3>3, <1>q
  <2>3. CASE Syncs(w)
    <3>0. PICK i \in Items : i = w.item
      BY <1>t, <2>0 DEF ProcessOK
    <3>1. Goes(c, [w EXCEPT !.at = "chunks", !.item = None, !.text = None])
      BY <1>10, <2>3 DEF Replace, Syncs
    <3>2. client'[c] = [w EXCEPT !.at = "chunks", !.item = None, !.text = None]
      BY <3>1, <1>g
    <3>3. /\ client'[c].at = "chunks" /\ client'[c].items = w.items /\ client'[c].texts = w.texts
          /\ client'[c].todo = w.todo /\ client'[c].spare = w.spare
          /\ client'[c].model = w.model /\ client'[c].dim = w.dim
      BY <3>2, <1>t DEF Process
    <3>4. /\ SawItems(w) /\ SawTexts(c)
          /\ i \in DOMAIN w.items /\ w.text = lib[i].text /\ w.text # None
          /\ \A j \in DOMAIN w.items \ (w.todo \cup {i}) : ChunksOf(c, j)
          /\ DOMAIN w.items \subseteq Items
      BY <1>b, <1>t, <2>0, <2>1, <2>3, <3>0, PartialElim DEF Abreast, Process
    <3>5. chunks' = [chunks EXCEPT ![i] = [source |-> w.text, profile |-> Profile(c), by |-> "zotero_sync"]]
      BY <1>10, <2>3, <3>0 DEF Replace, Syncs
    <3>6. \A j \in Items : j # i => chunks'[j] = chunks[j]
      BY <3>5 DEF TypeInv
    <3>7. \A j \in DOMAIN w.items \ (w.todo \cup {i}) : ChunksOf(c, j)'
      BY <2>0, <3>3, <3>4, <3>6, ChunksOfStay
    <3>8. ChunksOf(c, i)'
      <4> DEFINE row == [source |-> w.text, profile |-> Profile(c), by |-> "zotero_sync"]
      <4>1. chunks'[i] = row
        BY <3>4, <3>5 DEF TypeInv
      <4>2. row \in Chunk
        BY <1>t, <2>0, ChunkRows DEF Profile, ProcessOK
      <4>3. row # None
        BY <4>2 DEF NoneIsApart
      <4>4. row.source = w.text /\ row.profile = Profile(c)
        OBVIOUS
      <4>5. Profile(c)' = Profile(c)
        BY <3>3 DEF Profile
      <4> HIDE DEF row
      <4>6. Matches(c, i, lib[i].text)'
        BY <2>0, <3>4, <4>1, <4>3, <4>4, <4>5 DEF Matches
      <4> QED
        BY <2>0, <3>4, <4>6 DEF ChunksOf
    <3>9. SawItems(client[c])' /\ SawTexts(c)'
      BY <2>0, <3>3, <3>4 DEF SawItems, SawTexts
    <3> QED
      BY <3>3, <3>7, <3>8, <3>9 DEF Abreast
  <2> QED
    BY <2>2, <2>3
<1>11. ASSUME NEW c \in Client, Compare(c) PROVE AloneInv'
  <2>1. client'[c].at \in {"evidence", "embed"} /\ client'[c].items = Idle.items
    BY <1>11, <1>g, <1>t DEF Compare, At, Process, ProcessOK
  <2>2. Abreast(c)'
    BY <2>1 DEF Abreast, Syncs
  <2>3. ~At(c, "idle") /\ alone' \subseteq alone
    BY <1>11 DEF Compare, At
  <2>4. \A d \in Client \ {c} : client'[d] = client[d]
    BY <1>11, <1>e DEF Compare
  <2> QED
    BY <2>2, <2>3, <2>4, <1>p
<1>12. ASSUME NEW c \in Client, EndSync(c) \/ Evidence(c) \/ Fails(c) PROVE AloneInv'
  <2>1. ~At(c, "idle") /\ alone' = alone \ {c} /\ Goes(c, Idle)
    BY <1>12 DEF EndSync, Evidence, Fails, At
  <2>2. \A d \in Client \ {c} : client'[d] = client[d]
    BY <2>1, <1>e
  <2> QED
    BY <2>1, <2>2, <1>p
<1>13. ASSUME NEW i \in Items, Edit(i) PROVE AloneInv'
  BY <1>13 DEF Edit, AloneInv
<1> QED
  BY <1>1, <1>2, <1>3, <1>4, <1>5, <1>6, <1>7, <1>8, <1>9, <1>10, <1>11, <1>12, <1>13 DEF IndexNext, Works

-----------------------------------------------------------------------------
(* The theorems.                                                           *)

LEMMA InvStays == NoneIsApart /\ IndexInv /\ [IndexNext]_indexVars => IndexInv'
<1> SUFFICES ASSUME NoneIsApart, IndexInv, [IndexNext]_indexVars PROVE IndexInv'
  OBVIOUS
<1>1. CASE IndexNext
  BY <1>1, TypeStep, VectorStep, AloneStep DEF IndexInv
<1>2. CASE UNCHANGED indexVars
  <2> USE <1>2 DEF indexVars
  <2>1. TypeInv'
    BY DEF IndexInv, TypeInv
  <2>2. VectorInv'
    BY DEF IndexInv, VectorInv, At
  <2>3. AloneInv'
    BY DEF IndexInv, AloneInv, Abreast, At, SawItems, SawTexts, ChunksOf, Matches, Scoped, Profile, Syncs
  <2> QED
    BY <2>1, <2>2, <2>3 DEF IndexInv
<1> QED
  BY <1>1, <1>2

LEMMA InvIsCurrent == NoneIsApart /\ IndexInv => IndexIsCurrent
<1> SUFFICES ASSUME NoneIsApart, IndexInv PROVE IndexIsCurrent
  OBVIOUS
<1>1. IndexTypeOK
  BY DEF IndexInv, TypeInv, IndexTypeOK, Stamp, Chunk
<1>2. ASSUME NEW c \in alone, At(c, "chunks"), client[c].todo = {}, NEW i \in Items, lib[i].live
      PROVE /\ meta[i] = lib[i].modified /\ ChunksOf(c, i)
            /\ blind \/ (Row("meta", i) \in vecs /\ (chunks[i] # None => Row("chunks", i) \in vecs))
  <2>1. (\A d \in Client \ {c} : At(d, "idle")) /\ Abreast(c) /\ c \in Client
    BY DEF IndexInv, AloneInv, TypeInv
  <2>2. i \in DOMAIN client[c].items
    BY <1>2, <2>1 DEF Abreast, At, SawItems
  <2>3. meta[i] = lib[i].modified /\ ChunksOf(c, i)
    BY <1>2, <2>1, <2>2 DEF Abreast, At, SawItems, SawTexts
  <2>4. ~\E d \in Client : At(d, "dropRows")
    BY <1>2, <2>1 DEF At
  <2>5. meta[i] # None
    BY <2>3 DEF IndexInv, TypeInv, NoneIsApart, Stamp
  <2> QED
    BY <2>3, <2>4, <2>5 DEF IndexInv, VectorInv
<1> QED
  BY <1>1, <1>2 DEF IndexIsCurrent

\* A sync that nothing interfered with ends with a current index, whatever
\* earlier commands, kills and short replies left behind (search.py, sync).
THEOREM IndexStaysCurrent == ASSUME NoneIsApart PROVE IndexSpec => []IndexIsCurrent
<1>1. IndexInit => IndexInv
  BY TypeInitially, VectorInitially, AloneInitially DEF IndexInv
<1>2. IndexInv /\ [IndexNext]_indexVars => IndexInv'
  BY InvStays
<1>3. IndexInv => IndexIsCurrent
  BY InvIsCurrent
<1> QED
  BY <1>1, <1>2, <1>3, PTL DEF IndexSpec

LEMMA StepKeepsPipeline ==
  NoneIsApart /\ TypeInv /\ [IndexNext]_indexVars =>
    \A i \in Items : Scoped(i) /\ chunks'[i] = None => \E c \in Client : At(c, "dropRows")
<1> SUFFICES ASSUME NoneIsApart, TypeInv, [IndexNext]_indexVars, NEW i \in Items, Scoped(i), chunks'[i] = None
             PROVE \E c \in Client : At(c, "dropRows")
  OBVIOUS
<1>1. chunks'[i] # chunks[i]
  BY DEF Scoped
<1>2. IndexNext
  BY <1>1 DEF indexVars
<1>3. PICK c \in Client : ReadExisting(c) \/ TakeItem(c) \/ Replace(c) \/ DropRows(c)
  BY <1>1, <1>2 DEF IndexNext, Works, StartSync, StartIndex, Start, Open, DropVectors, ReadItems, UpsertMeta,
     SecondPass, EndSync, Compare, Evidence, Fails, Edit
<1>4. ~ReadExisting(c)
  BY <1>1 DEF ReadExisting, Clear
<1>5. ~TakeItem(c)
  <2>1. TakeItem(c) => \E j : DropChunks(j) \/ UNCHANGED <<chunks, vecs>>
    BY DEF TakeItem
  <2>2. ASSUME NEW j, DropChunks(j) PROVE chunks'[i] = chunks[i]
    BY <2>2 DEF DropChunks, TypeInv
  <2> QED
    BY <1>1, <2>1, <2>2
<1>6. ~Replace(c)
  <2> SUFFICES ASSUME Replace(c) PROVE FALSE
    OBVIOUS
  <2> DEFINE by == IF client[c].items = Idle.items THEN "item_scoped" ELSE "zotero_sync"
             row == [source |-> client[c].text, profile |-> Profile(c), by |-> by]
  <2>1. chunks' = [chunks EXCEPT ![client[c].item] = row]
    BY DEF Replace
  <2>2. row \in Chunk
    BY ChunkRows DEF Replace, At, TypeInv, ProcessOK, Profile
  <2> HIDE DEF row
  <2>3. chunks'[i] \in {row, chunks[i]}
    BY <2>1 DEF TypeInv
  <2> QED
    BY <1>1, <2>2, <2>3 DEF NoneIsApart
<1> QED
  BY <1>3, <1>4, <1>5, <1>6 DEF DropRows

\* Chunks the launcher's pipeline indexed are cleared by nothing but the DROP of
\* a full sync that saw none (vector_store.py, clear_for_full_sync_...).
THEOREM PipelineChunksSurvive == ASSUME NoneIsApart PROVE IndexSpec => PipelineChunksStay
<1>1. IndexInit => IndexInv
  BY TypeInitially, VectorInitially, AloneInitially DEF IndexInv
<1>2. IndexInv /\ [IndexNext]_indexVars => IndexInv'
  BY InvStays
<1>3. IndexInv /\ [IndexNext]_indexVars =>
        [\A i \in Items : Scoped(i) /\ chunks'[i] = None => \E c \in Client : At(c, "dropRows")]_indexVars
  BY StepKeepsPipeline DEF IndexInv
<1> QED
  BY <1>1, <1>2, <1>3, PTL DEF IndexSpec, PipelineChunksStay

-----------------------------------------------------------------------------
(* The snapshot of a collection.                                           *)

Page == [stamp : Nat, row : BOOLEAN \cup Kinds \cup {"pdf"}]
Journal == UNION {[ps -> Page] : ps \in SUBSET Pages}

\* NoFile is neither a page nor a journal.
NoFileIsApart == NoFile \notin Page \cup Journal

\* What a reader would find now, were it to read all at once.
Committed == RolledBack(db.pages, db.journal)

Image == RolledBack(reader.staged, reader.journal)

\* A value of page p that no later write makes again; and one that has been
\* committed, if it is in the file at all.
Known(v, p) == v \in Page /\ v.stamp <= writes /\ (v.stamp = writes => p \notin db.todo)
Past(v, p) == Known(v, p) /\ (v = db.pages[p] => v = Committed[p])

ZoteroInv ==
  /\ writes \in Nat
  /\ db \in [pages : [Pages -> Page], journal : Journal \cup {NoFile}, todo : SUBSET Pages]
  /\ db.journal = NoFile => db.todo = {}
  /\ db.journal # NoFile => /\ db.todo \subseteq DOMAIN db.journal
                            /\ \A p \in DOMAIN db.journal : db.journal[p].stamp < writes
  /\ \A p \in Pages : Known(db.pages[p], p)
  /\ \A p \in db.todo : db.pages[p] = db.journal[p]
  /\ Committed \in seen

Reader == [at : {"copy", "journal", "read", "rows", "done", "refused"}, copied : 0 .. 2,
           staged : [Pages -> Page \cup {NoFile}], journal : Journal \cup {NoFile},
           last : [Pages -> Page] \cup {Blank}, reads : Nat,
           member : {NoFile, "not found", "no_attachment", "unsupported_content_type",
                     "unresolved_path", "eligible_pdf", "missing_file"}]

Staged(p) == IF reader.at = "read" THEN Image[p] ELSE reader.staged[p]

\* A committed state that shares with the last image every page that the image
\* being made shares with it, or still may.
Shares(c) == \A p \in Pages :
  reader.last[p] \in {Committed[p], Staged(p)} => c[p] = reader.last[p]

ReaderInv ==
  /\ reader \in Reader
  /\ reader.at = "copy" => reader.copied < 2
  /\ reader.at = "copy" /\ reader.copied = 1 => reader.staged["collection"] \in Page
  /\ reader.at \in {"journal", "read"} => reader.staged \in [Pages -> Page]
  /\ reader.at \in {"copy", "journal"} =>
       \A p \in Pages : reader.staged[p] = NoFile \/ Known(reader.staged[p], p)
  /\ reader.at = "read" => \A p \in Pages : Past(Image[p], p)
  /\ reader.last # Blank => \A p \in Pages : Past(reader.last[p], p)
  /\ reader.at \in {"copy", "journal", "read"} /\ reader.last # Blank =>
       \E c \in seen : c \in [Pages -> Page] /\ Shares(c)
  /\ SnapshotIsOneMoment

SnapInv == ZoteroInv /\ ReaderInv

-----------------------------------------------------------------------------

LEMMA JournalOK == ASSUME NEW j \in Journal
                   PROVE  DOMAIN j \subseteq Pages /\ \A p \in DOMAIN j : j[p] \in Page
  BY DEF Journal

\* Rolling back a file gives a file.
LEMMA RolledBackOK == ASSUME NEW f \in [Pages -> Page], NEW j \in Journal \cup {NoFile}
                      PROVE  RolledBack(f, j) \in [Pages -> Page]
  BY JournalOK DEF RolledBack

LEMMA RolledBackAt == ASSUME NEW f \in [Pages -> Page], NEW j, j # NoFile, NEW p \in Pages
                      PROVE  RolledBack(f, j)[p] = IF p \in DOMAIN j THEN j[p] ELSE f[p]
  BY DEF RolledBack

\* What a step of Zotero leaves to those who read: a value known stays known, a
\* past one stays past, and no commit brings a past value back.
Lasts(v, p) ==
  /\ Known(v, p) => Known(v, p)'
  /\ Past(v, p) => Past(v, p)'
  /\ Past(v, p) /\ v = Committed'[p] => v = Committed[p]

LEMMA BeginKeeps ==
  ASSUME NoFileIsApart, ZoteroInv, Begin
  PROVE  ZoteroInv' /\ \A p \in Pages : \A v : Lasts(v, p)
<1>. USE DEF ZoteroInv
<1>1. PICK ps \in SUBSET Pages \ {{}} :
        db' = [db EXCEPT !.journal = [p \in ps |-> db.pages[p]], !.todo = ps]
  BY DEF Begin
<1>. DEFINE j == [p \in ps |-> db.pages[p]]
<1>2. db'.pages = db.pages /\ db'.journal = j /\ db'.todo = ps
      /\ db' \in [pages : [Pages -> Page], journal : Journal \cup {NoFile}, todo : SUBSET Pages]
  <2>1. j \in [ps -> Page] /\ j \in Journal
    BY DEF Journal
  <2>. QED  BY <1>1, <2>1
<1>3. j # NoFile
  BY DEF NoFileIsApart, Journal
<1>4. writes' = writes + 1 /\ seen' = seen /\ db.journal = NoFile /\ writes \in Nat
  BY DEF Begin
<1>5. Committed = db.pages
  BY <1>4 DEF Committed, RolledBack
<1>6. Committed' = db.pages
  <2>1. Committed' = [p \in Pages |-> IF p \in ps THEN db.pages[p] ELSE db.pages[p]]
    BY <1>2, <1>3 DEF Committed, RolledBack
  <2>. QED  BY <2>1
<1>7. \A p \in Pages : \A v : Lasts(v, p)
  BY <1>2, <1>4, <1>5, <1>6 DEF Lasts, Known, Past, Page
<1>8. ZoteroInv'
  <2>1. \A p \in Pages : db.pages[p] \in Page /\ db.pages[p].stamp < writes + 1
    BY <1>4 DEF Known, Page
  <2>2. \A p \in Pages : Known(db.pages[p], p)'
    BY <2>1, <1>2, <1>4 DEF Known, Page
  <2>3. DOMAIN j = ps /\ \A p \in ps : j[p] = db.pages[p] /\ p \in Pages
    OBVIOUS
  <2>. HIDE DEF j
  <2>4. Committed' \in seen'
    BY <1>4, <1>5, <1>6
  <2>. QED  BY <1>2, <1>3, <1>4, <2>1, <2>2, <2>3, <2>4
<1>. QED  BY <1>7, <1>8

LEMMA WriteKeeps ==
  ASSUME NoFileIsApart, ZoteroInv, WritePage
  PROVE  ZoteroInv' /\ \A p \in Pages : \A v : Lasts(v, p)
<1>. USE DEF ZoteroInv
<1>1. PICK q \in db.todo : \E r \in Rows[q] :
        db' = [db EXCEPT !.pages[q] = [stamp |-> writes, row |-> r], !.todo = @ \ {q}]
  BY DEF WritePage
<1>2. PICK r \in Rows[q] :
        db' = [db EXCEPT !.pages[q] = [stamp |-> writes, row |-> r], !.todo = @ \ {q}]
  BY <1>1
<1>. DEFINE new == [stamp |-> writes, row |-> r]
<1>3. q \in Pages /\ new \in Page /\ new.stamp = writes
  BY DEF Page, Rows, Pages
<1>4. db'.pages = [db.pages EXCEPT ![q] = new] /\ db'.journal = db.journal /\ db'.todo = db.todo \ {q}
      /\ db' \in [pages : [Pages -> Page], journal : Journal \cup {NoFile}, todo : SUBSET Pages]
  BY <1>2, <1>3
<1>. HIDE DEF new
<1>5. writes' = writes /\ seen' = seen /\ db.journal # NoFile /\ q \in DOMAIN db.journal
  BY DEF WritePage
<1>6. Committed' = Committed
  <2>1. \A p \in Pages : p \notin DOMAIN db.journal => db'.pages[p] = db.pages[p]
    BY <1>3, <1>4, <1>5
  <2>. QED  BY <1>4, <1>5, <2>1 DEF Committed, RolledBack
<1>7. \A p \in Pages : \A v : Lasts(v, p)
  <2>1. \A v : Known(v, q) => v # new
    BY <1>3 DEF Known
  <2>2. \A p \in Pages : db'.pages[p] = IF p = q THEN new ELSE db.pages[p]
    BY <1>4
  <2>. QED  BY <1>3, <1>4, <1>5, <1>6, <2>1, <2>2 DEF Lasts, Known, Past
<1>8. ZoteroInv'
  <2>1. \A p \in Pages : Known(db.pages[p], p)'
    <3>1. \A p \in Pages : db'.pages[p] = IF p = q THEN new ELSE db.pages[p]
      BY <1>4
    <3>. QED  BY <1>3, <1>4, <1>5, <3>1 DEF Known
  <2>2. \A p \in db'.todo : db'.pages[p] = db'.journal[p]
    BY <1>4
  <2>. QED  BY <1>4, <1>5, <1>6, <2>1, <2>2
<1>. QED  BY <1>7, <1>8

LEMMA CommitKeeps ==
  ASSUME NoFileIsApart, ZoteroInv, Commit
  PROVE  ZoteroInv' /\ \A p \in Pages : \A v : Lasts(v, p)
<1>. USE DEF ZoteroInv
<1>1. db'.pages = db.pages /\ db'.journal = NoFile /\ db'.todo = {} /\ writes' = writes
      /\ seen' = seen \cup {db.pages}
      /\ db' \in [pages : [Pages -> Page], journal : Journal \cup {NoFile}, todo : SUBSET Pages]
  BY DEF Commit
<1>2. Committed' = db.pages
  BY <1>1 DEF Committed, RolledBack
<1>. QED  BY <1>1, <1>2 DEF Lasts, Known, Past

LEMMA AbandonKeeps ==
  ASSUME NoFileIsApart, ZoteroInv, Abandon
  PROVE  ZoteroInv' /\ \A p \in Pages : \A v : Lasts(v, p)
<1>. USE DEF ZoteroInv
<1>1. Committed \in [Pages -> Page]
  BY RolledBackOK DEF Committed
<1>2. db'.pages = Committed /\ db'.journal = NoFile /\ db'.todo = {} /\ writes' = writes /\ seen' = seen
      /\ db' \in [pages : [Pages -> Page], journal : Journal \cup {NoFile}, todo : SUBSET Pages]
  BY <1>1 DEF Abandon, Committed
<1>3. Committed' = Committed
  BY <1>2 DEF Committed, RolledBack
<1>4. \A p \in Pages : Committed[p] \in Page /\ Committed[p].stamp <= writes
  <2>. SUFFICES ASSUME NEW p \in Pages PROVE Committed[p].stamp <= writes
    BY <1>1
  <2>1. db.pages[p].stamp <= writes
    BY DEF Known
  <2>2. CASE db.journal = NoFile
    BY <2>1, <2>2 DEF Committed, RolledBack
  <2>3. CASE db.journal # NoFile
    <3>1. Committed[p] = IF p \in DOMAIN db.journal THEN db.journal[p] ELSE db.pages[p]
      BY <2>3, RolledBackAt DEF Committed
    <3>2. p \in DOMAIN db.journal => db.journal[p].stamp \in Nat
      BY <2>3, JournalOK DEF Page
    <3>. QED  BY <2>1, <2>3, <3>1, <3>2
  <2>. QED  BY <2>2, <2>3
<1>5. \A p \in Pages : \A v : Lasts(v, p)
  BY <1>2, <1>3 DEF Lasts, Known, Past
<1>6. ZoteroInv'
  BY <1>2, <1>3, <1>4 DEF Known
<1>. QED  BY <1>5, <1>6

ZoteroStep == Begin \/ WritePage \/ Commit \/ Abandon

\* The reader's part of the invariant is Zotero's to disturb.
LEMMA ZoteroKeeps == ASSUME NoFileIsApart, SnapInv, ZoteroStep PROVE SnapInv'
<1>1. ZoteroInv' /\ \A p \in Pages : \A v : Lasts(v, p)
  BY BeginKeeps, WriteKeeps, CommitKeeps, AbandonKeeps DEF ZoteroStep, SnapInv
<1>2. reader' = reader /\ seen \subseteq seen'
  BY DEF ZoteroStep, Begin, WritePage, Commit, Abandon
<1>3. Image' = Image
  BY <1>2 DEF Image
<1>. USE DEF SnapInv
<1>4. \A p \in Pages : Known(reader.staged[p], p) => Known(reader.staged[p], p)'
  BY <1>1, <1>2 DEF Lasts, Known
<1>5. \A p \in Pages : Past(Image[p], p) => Past(Image[p], p)'
  BY <1>1, <1>3 DEF Lasts, Past, Known
<1>6. \A p \in Pages : Past(reader.last[p], p) => Past(reader.last[p], p)'
  BY <1>1, <1>2 DEF Lasts, Past, Known
<1>7. ASSUME NEW c, Shares(c), reader.last # Blank PROVE Shares(c)'
  <2>. SUFFICES ASSUME NEW p \in Pages, reader.last[p] = Committed'[p] \/ reader.last[p] = Staged(p)
                PROVE  c[p] = reader.last[p]
    BY <1>2, <1>3 DEF Shares, Staged
  <2>1. Past(reader.last[p], p)
    BY <1>7 DEF ReaderInv
  <2>2. reader.last[p] = Committed'[p] => reader.last[p] = Committed[p]
    BY <1>1, <2>1 DEF Lasts
  <2>. QED  BY <1>7, <2>2 DEF Shares
<1>8. ReaderInv'
  BY <1>2, <1>4, <1>5, <1>6, <1>7 DEF ReaderInv, SnapshotIsOneMoment
<1>. QED  BY <1>1, <1>8

-----------------------------------------------------------------------------

\* What the reader does leaves Zotero as it is.
LEMMA ReaderIsApart ==
  ASSUME SnapInv, UNCHANGED <<db, seen, writes>>
  PROVE  ZoteroInv' /\ Committed' = Committed /\ \A p \in Pages : \A v :
           /\ Known(v, p) => Known(v, p)'
           /\ Past(v, p) => Past(v, p)'
  BY DEF SnapInv, ZoteroInv, Committed, Known, Past

LEMMA CopyKeeps == ASSUME NoFileIsApart, SnapInv, CopyPage PROVE SnapInv'
<1>. USE DEF SnapInv
<1>. DEFINE q == Order[reader.copied + 1]
            next == IF reader.copied + 1 = Len(Order) THEN "journal" ELSE "copy"
<1>1. reader.at = "copy" /\ UNCHANGED <<db, seen, writes>>
      /\ reader' = [reader EXCEPT !.staged[q] = db.pages[q], !.copied = @ + 1, !.at = next]
  BY DEF CopyPage, Becomes
<1>2. ZoteroInv' /\ Committed' = Committed
  BY <1>1, ReaderIsApart
<1>3. Len(Order) = 2 /\ Order[1] = "collection" /\ Order[2] = "attachment"
  BY DEF Order
<1>4. reader.copied \in {0, 1} /\ reader \in Reader
  <2>1. reader \in Reader /\ reader.copied < 2
    BY <1>1 DEF ReaderInv
  <2>2. reader.copied \in 0 .. 2
    BY <2>1 DEF Reader
  <2>. QED  BY <2>1, <2>2
<1>5. q = (IF reader.copied = 0 THEN "collection" ELSE "attachment") /\ q \in Pages
  BY <1>3, <1>4 DEF Pages
<1>6. next = IF reader.copied = 0 THEN "copy" ELSE "journal"
  BY <1>3, <1>4
<1>7. db.pages[q] \in Page /\ Known(db.pages[q], q)
  BY <1>5 DEF ZoteroInv
<1>. HIDE DEF q, next
<1>8. /\ reader'.staged = [reader.staged EXCEPT ![q] = db.pages[q]] /\ reader'.copied = reader.copied + 1
      /\ reader'.at = next /\ reader'.last = reader.last /\ reader' \in Reader
  <2>. DEFINE s == [reader.staged EXCEPT ![q] = db.pages[q]]
  <2>1. s \in [Pages -> Page \cup {NoFile}] /\ next \in {"journal", "copy"}
        /\ reader.copied + 1 \in 0 .. 2
    <3>1. reader.staged \in [Pages -> Page \cup {NoFile}]
      BY <1>4 DEF Reader
    <3>2. s \in [Pages -> Page \cup {NoFile}]
      BY <1>5, <1>7, <3>1
    <3>. QED  BY <1>4, <1>6, <3>2
  <2>2. reader' = [reader EXCEPT !.staged = s, !.copied = reader.copied + 1, !.at = next]
    BY <1>1
  <2>. HIDE DEF s
  <2>3. /\ reader'.staged = s /\ reader'.copied = reader.copied + 1
        /\ reader'.at = next /\ reader'.last = reader.last /\ reader' \in Reader
    BY <1>4, <2>1, <2>2 DEF Reader
  <2>. QED  BY <2>3 DEF s
<1>9. \A p \in Pages : reader'.staged[p] = IF p = q THEN db.pages[q] ELSE reader.staged[p]
  BY <1>4, <1>8 DEF Reader
<1>10. \A p \in Pages : Known(reader.staged[p], p)' \/ reader.staged'[p] = NoFile
  <2>1. \A p \in Pages : Known(reader.staged[p], p) \/ reader.staged[p] = NoFile
    BY <1>1 DEF ReaderInv
  <2>. QED  BY <1>1, <1>7, <1>9, <2>1 DEF Known
<1>11. ASSUME NEW c, Shares(c), reader.last # Blank PROVE Shares(c)'
  <2>. SUFFICES ASSUME NEW p \in Pages, reader.last[p] \in {Committed[p], reader'.staged[p]}
                PROVE  c[p] = reader.last[p]
    BY <1>2, <1>6, <1>8 DEF Shares, Staged
  <2>1. Past(reader.last[p], p)
    BY <1>11 DEF ReaderInv
  <2>2. reader.last[p] = db.pages[p] => reader.last[p] = Committed[p]
    BY <2>1 DEF Past
  <2>. QED  BY <1>1, <1>9, <1>11, <2>2 DEF Shares, Staged
<1>12. reader'.at \in {"journal", "read"} => reader'.staged \in [Pages -> Page]
  <2>. SUFFICES ASSUME reader.copied = 1 PROVE \A p \in Pages : reader'.staged[p] \in Page
    BY <1>4, <1>6, <1>8 DEF Reader
  <2>1. reader.staged["collection"] \in Page
    BY <1>1 DEF ReaderInv
  <2>. QED  BY <1>5, <1>7, <1>9, <2>1 DEF Pages
<1>13. reader'.at = "copy" => reader'.copied < 2 /\ reader'.staged["collection"] \in Page
  BY <1>4, <1>5, <1>6, <1>7, <1>8, <1>9
<1>14. reader.last # Blank => \A p \in Pages : Past(reader.last[p], p)'
  BY <1>1, <1>2 DEF ReaderInv, Past, Known
<1>15. ReaderInv'
  BY <1>1, <1>6, <1>8, <1>10, <1>11, <1>12, <1>13, <1>14 DEF ReaderInv, SnapshotIsOneMoment
<1>. QED  BY <1>2, <1>15

LEMMA CopyJournalKeeps == ASSUME NoFileIsApart, SnapInv, CopyJournal PROVE SnapInv'
<1>. USE DEF SnapInv
<1>1. reader.at = "journal" /\ UNCHANGED <<db, seen, writes>>
      /\ reader' = [reader EXCEPT !.at = "read", !.journal = db.journal]
  BY DEF CopyJournal, Becomes
<1>2. ZoteroInv' /\ Committed' = Committed
  BY <1>1, ReaderIsApart
<1>3. /\ reader \in Reader /\ reader.staged \in [Pages -> Page]
      /\ \A p \in Pages : reader.staged[p] = NoFile \/ Known(reader.staged[p], p)
  BY <1>1 DEF ReaderInv
<1>4. /\ reader'.at = "read" /\ reader'.staged = reader.staged /\ reader'.journal = db.journal
      /\ reader'.last = reader.last /\ reader' \in Reader
  <2>1. db.journal \in Journal \cup {NoFile}
    BY DEF ZoteroInv
  <2>. QED  BY <1>1, <1>3, <2>1 DEF Reader
<1>5. ASSUME NEW p \in Pages PROVE Past(Image'[p], p) /\ (Image'[p] = reader.staged[p] \/ Image'[p] = Committed[p])
  <2>1. Known(reader.staged[p], p)
    <3>1. reader.staged[p] # NoFile
      BY <1>3, <1>5 DEF NoFileIsApart
    <3>. QED  BY <1>3, <3>1
  <2>2. CASE db.journal = NoFile
    BY <1>4, <2>1, <2>2 DEF Image, Committed, RolledBack, Past
  <2>3. CASE db.journal # NoFile
    <3>1. Image'[p] = IF p \in DOMAIN db.journal THEN db.journal[p] ELSE reader.staged[p]
      BY <1>3, <1>4, <2>3, RolledBackAt DEF Image
    <3>2. Committed[p] = IF p \in DOMAIN db.journal THEN db.journal[p] ELSE db.pages[p]
      BY <2>3, RolledBackAt DEF Committed, ZoteroInv
    <3>3. p \in DOMAIN db.journal => db.journal[p] \in Page /\ db.journal[p].stamp < writes
      BY <2>3, JournalOK DEF ZoteroInv
    <3>4. p \in DOMAIN db.journal => Known(db.journal[p], p)
      BY <3>3 DEF Known, ZoteroInv, Page
    <3>. QED  BY <2>1, <3>1, <3>2, <3>4 DEF Past
  <2>. QED  BY <2>2, <2>3
<1>6. \A p \in Pages : Past(Image[p], p)'
  BY <1>1, <1>2, <1>5 DEF Past, Known
<1>7. ASSUME NEW c, Shares(c) PROVE Shares(c)'
  <2>1. \A p \in Pages : Staged(p)' = Image'[p] /\ Staged(p) = reader.staged[p]
    BY <1>1, <1>4 DEF Staged
  <2>. QED  BY <1>2, <1>4, <1>5, <1>7, <2>1 DEF Shares
<1>8. reader.last # Blank => \A p \in Pages : Past(reader.last[p], p)'
  BY <1>1, <1>2 DEF ReaderInv, Past, Known
<1>9. ReaderInv'
  BY <1>1, <1>3, <1>4, <1>6, <1>7, <1>8 DEF ReaderInv, SnapshotIsOneMoment
<1>. QED  BY <1>2, <1>9

LEMMA ReadKeeps == ASSUME NoFileIsApart, SnapInv, Read PROVE SnapInv'
<1>. USE DEF SnapInv
<1>. DEFINE n == reader.reads + 1
            next == IF Image = reader.last THEN "rows" ELSE IF n = Reads THEN "refused" ELSE "copy"
<1>1. reader.at = "read" /\ UNCHANGED <<db, seen, writes>>
      /\ reader' = [reader EXCEPT !.last = Image, !.reads = n, !.copied = 0, !.staged = Blank,
                                  !.journal = NoFile, !.at = next]
  BY DEF Read, Becomes, Image
<1>2. ZoteroInv' /\ Committed' = Committed
  BY <1>1, ReaderIsApart
<1>3. /\ reader \in Reader /\ reader.staged \in [Pages -> Page]
      /\ \A p \in Pages : Past(Image[p], p)
  BY <1>1 DEF ReaderInv
<1>4. Image \in [Pages -> Page] /\ Image # Blank
  <2>1. Image \in [Pages -> Page]
    BY <1>3, RolledBackOK DEF Image, Reader
  <2>. QED  BY <2>1 DEF Blank, NoFileIsApart, Pages
<1>. HIDE DEF next
<1>5. /\ reader'.at = next /\ reader'.staged = Blank /\ reader'.last = Image /\ reader'.copied = 0
      /\ reader' \in Reader
  <2>1. n \in Nat /\ next \in {"rows", "refused", "copy"}
    <3>1. reader.reads \in Nat
      BY <1>3 DEF Reader
    <3>. QED  BY <3>1 DEF next
  <2>2. Blank \in [Pages -> Page \cup {NoFile}]
    BY DEF Blank
  <2>3. 0 \in 0 .. 2 /\ Image \in [Pages -> Page] \cup {Blank} /\ NoFile \in Journal \cup {NoFile}
    BY <1>4
  <2>. HIDE DEF n
  <2>4. reader' = [reader EXCEPT !.last = Image, !.reads = n, !.copied = 0, !.staged = Blank,
                                 !.journal = NoFile, !.at = next]
    BY <1>1
  <2>. QED  BY <1>3, <2>1, <2>2, <2>3, <2>4 DEF Reader
<1>6. \A p \in Pages : Past(reader.last[p], p)'
  BY <1>1, <1>2, <1>3, <1>5 DEF Past, Known
<1>7. \A p \in Pages : Blank[p] = NoFile
  BY DEF Blank
<1>8. next = "rows" => Image \in seen
  <2>. SUFFICES ASSUME Image = reader.last PROVE Image \in seen
    BY DEF next
  <2>1. PICK c \in seen : c \in [Pages -> Page] /\ Shares(c)
    BY <1>1, <1>4 DEF ReaderInv
  <2>2. \A p \in Pages : c[p] = Image[p]
    BY <1>1, <2>1 DEF Shares, Staged
  <2>3. c = Image
    BY <1>4, <2>1, <2>2
  <2>. QED  BY <2>3
<1>9. next = "copy" => \E c \in seen' : c \in [Pages -> Page] /\ Shares(c)'
  <2>. SUFFICES ASSUME next = "copy" PROVE \E c \in seen : c \in [Pages -> Page] /\ Shares(c)'
    BY <1>1
  <2>1. PICK c \in seen : c = Committed
    BY DEF ZoteroInv
  <2>2. c \in [Pages -> Page]
    BY <2>1, RolledBackOK DEF ZoteroInv, Committed
  <2>3. \A p \in Pages : Image[p] # Blank[p]
    BY <1>4, <1>7 DEF NoFileIsApart
  <2>4. Shares(c)'
    BY <1>2, <1>5, <2>1, <2>3 DEF Shares, Staged
  <2>. QED  BY <2>2, <2>4
<1>10. next \in {"rows", "refused", "copy"}
  BY DEF next
<1>11. ReaderInv'
  BY <1>1, <1>4, <1>5, <1>6, <1>7, <1>8, <1>9, <1>10 DEF ReaderInv, SnapshotIsOneMoment
<1>. QED  BY <1>2, <1>11

\* The last two steps: the image is refused, or its rows are told.
LEMMA TornKeeps == ASSUME NoFileIsApart, SnapInv, Torn PROVE SnapInv'
<1>. USE DEF SnapInv
<1>1. UNCHANGED <<db, seen, writes>> /\ reader' = [reader EXCEPT !.at = "refused"] /\ reader \in Reader
  BY DEF Torn, Becomes, ReaderInv
<1>2. ZoteroInv' /\ Committed' = Committed
  BY <1>1, ReaderIsApart
<1>3. reader'.at = "refused" /\ reader'.last = reader.last /\ reader' \in Reader
  BY <1>1 DEF Reader
<1>4. reader.last # Blank => \A p \in Pages : Past(reader.last[p], p)'
  BY <1>1, <1>2 DEF ReaderInv, Past, Known
<1>. QED  BY <1>2, <1>3, <1>4 DEF ReaderInv, SnapshotIsOneMoment

LEMMA MembersKeep == ASSUME NoFileIsApart, SnapInv, Members PROVE SnapInv'
<1>. USE DEF SnapInv
<1>1. PICK m : reader' = [reader EXCEPT !.at = "done", !.member = m]
               /\ m \in {"not found", "no_attachment", "unsupported_content_type",
                         "unresolved_path", "eligible_pdf", "missing_file"}
  BY DEF Members, Becomes, Eligibility
<1>2. UNCHANGED <<db, seen, writes>> /\ reader.at = "rows" /\ reader \in Reader
  BY DEF Members, Becomes, ReaderInv
<1>3. ZoteroInv' /\ Committed' = Committed
  BY <1>2, ReaderIsApart
<1>4. reader'.at = "done" /\ reader'.last = reader.last /\ reader' \in Reader
  BY <1>1, <1>2 DEF Reader
<1>5. reader.last # Blank => \A p \in Pages : Past(reader.last[p], p)'
  BY <1>2, <1>3, <1>4 DEF ReaderInv, Past, Known
<1>. QED  BY <1>2, <1>3, <1>4, <1>5 DEF ReaderInv, SnapshotIsOneMoment

LEMMA SnapInitially == ASSUME NoFileIsApart, SnapInit PROVE SnapInv
<1>1. db.pages \in [Pages -> Page] /\ \A p \in Pages : db.pages[p].stamp = 0
  BY DEF SnapInit, Page
<1>2. db.journal = NoFile /\ db.todo = {} /\ writes = 0 /\ seen = {db.pages}
      /\ db \in [pages : [Pages -> Page], journal : Journal \cup {NoFile}, todo : SUBSET Pages]
  BY <1>1 DEF SnapInit
<1>3. ZoteroInv
  <2>1. Committed = db.pages
    BY <1>2 DEF Committed, RolledBack
  <2>. QED  BY <1>1, <1>2, <2>1 DEF ZoteroInv, Known, Page
<1>4. reader \in Reader /\ \A p \in Pages : reader.staged[p] = NoFile
  BY DEF SnapInit, Reader, Blank
<1>. QED  BY <1>3, <1>4 DEF SnapInit, SnapInv, ReaderInv, SnapshotIsOneMoment

\* What a snapshot tells was committed at one moment since it began, however
\* many transactions ran, were committed or were abandoned while it copied the
\* file, and however many times it reads (snapshot_collection).
THEOREM SnapshotStaysOneMoment == ASSUME NoFileIsApart PROVE SnapSpec => []SnapshotIsOneMoment
<1>1. SnapInit => SnapInv
  BY SnapInitially
<1>2. SnapInv /\ [SnapNext]_snapVars => SnapInv'
  <2>. SUFFICES ASSUME SnapInv, [SnapNext]_snapVars PROVE SnapInv'
    OBVIOUS
  <2>1. CASE ZoteroStep
    BY <2>1, ZoteroKeeps
  <2>2. CASE CopyPage
    BY <2>2, CopyKeeps
  <2>3. CASE CopyJournal
    BY <2>3, CopyJournalKeeps
  <2>4. CASE Read
    BY <2>4, ReadKeeps
  <2>5. CASE Torn
    BY <2>5, TornKeeps
  <2>6. CASE Members
    BY <2>6, MembersKeep
  <2>7. CASE UNCHANGED snapVars
    BY <2>7 DEF snapVars, SnapInv, ZoteroInv, ReaderInv, Committed, Image, Known, Past, Shares, Staged,
                SnapshotIsOneMoment
  <2>. QED  BY <2>1, <2>2, <2>3, <2>4, <2>5, <2>6, <2>7 DEF SnapNext, ZoteroStep
<1>3. SnapInv => SnapshotIsOneMoment
  BY DEF SnapInv, ReaderInv
<1>. QED  BY <1>1, <1>2, <1>3, PTL DEF SnapSpec

-----------------------------------------------------------------------------
(* The writes to the library.                                              *)

CONSTANTS Commands, Tags, Attempts
VARIABLES item, added, command, merged, wspent

W == INSTANCE ZoteroWrites WITH spent <- wspent, NoTag <- None

Item == [version : Nat, tags : SUBSET Tags, binned : BOOLEAN]
Request == [at : {"idle", "get", "write", "resolve", "template", "post", "create", "authorize",
                  "upload", "register", "done", "failed"},
            kind : W!Kinds \cup {None}, version : Nat, tags : SUBSET Tags, add : SUBSET Tags,
            remove : SUBSET Tags, tries : Nat, id : Nat]

\* A command that is about to write has read the item, maybe an older one; it
\* has created nothing before it asks for it, then one thing, and the file it
\* adds goes to that one.
Before == {"idle", "get", "write", "resolve", "template", "post", "create"}
CommandOK(c) ==
  /\ W!At(c, "write") => /\ command[c].version <= item.version
                         /\ command[c].version = item.version => command[c].tags = item.tags
  /\ \A x, y \in W!Created(c) : x = y
  /\ command[c].at \in Before => W!Created(c) = {}
  /\ command[c].at \in {"authorize", "upload", "register"} =>
       \A x \in W!Created(c) : x.id = command[c].id
  /\ W!At(c, "done") => \A x \in W!Created(c) : x.file

WritesInv ==
  /\ item \in Item /\ merged = TRUE
  /\ command \in [Commands -> Request]
  /\ IsFiniteSet(added) /\ \A x \in added : x \in [by : Commands, id : Nat, file : BOOLEAN]
  /\ \A c \in Commands : CommandOK(c)

\* The number of elements of a set is the same in ZoteroWrites.
LEMMA SameCardinality == ASSUME NEW S PROVE W!Cardinality(S) = Cardinality(S)
  BY DEF W!Cardinality, Cardinality

LEMMA IdIsNumber == WritesInv => W!NewId \in Nat
<1>1. WritesInv => Cardinality(added) \in Nat
  BY FS_CardinalityType DEF WritesInv
<1>. QED  BY <1>1, SameCardinality DEF W!NewId

\* The command of a step goes on as r; the others keep what they know, for they
\* and their creations are left alone.
LEMMA OthersKeep ==
  ASSUME WritesInv, NEW c \in Commands, NEW r \in Request, W!Goes(c, r),
         UNCHANGED item \/ item'.version = item.version + 1, item' \in Item,
         \A d \in Commands \ {c} :
           \/ W!Created(d)' = W!Created(d)
           \/ W!Created(d)' = {IF x.id = command[c].id THEN [x EXCEPT !.file = TRUE] ELSE x : x \in W!Created(d)}
  PROVE  /\ command' \in [Commands -> Request] /\ command'[c] = r
         /\ \A d \in Commands \ {c} : CommandOK(d)'
<1>1. command' \in [Commands -> Request] /\ command'[c] = r
      /\ \A d \in Commands \ {c} : command'[d] = command[d]
  BY DEF WritesInv, W!Goes
<1>2. SUFFICES ASSUME NEW d \in Commands \ {c} PROVE CommandOK(d)'
  BY <1>1
<1>3. CommandOK(d) /\ command'[d] = command[d] /\ command[d] \in Request /\ item \in Item
  BY <1>1 DEF WritesInv
<1>4. W!At(d, "write")' => /\ command'[d].version <= item'.version
                           /\ command'[d].version = item'.version => command'[d].tags = item'.tags
  BY <1>3 DEF CommandOK, W!At, Item, Request
<1>5. CASE W!Created(d)' = W!Created(d)
  BY <1>3, <1>4, <1>5 DEF CommandOK, W!At
<1>6. CASE W!Created(d)' = {IF x.id = command[c].id THEN [x EXCEPT !.file = TRUE] ELSE x : x \in W!Created(d)}
  <2>1. \A x \in W!Created(d) : x \in [by : Commands, id : Nat, file : BOOLEAN]
    BY DEF WritesInv, W!Created
  <2>2. \A x \in W!Created(d) : LET y == [x EXCEPT !.file = TRUE] IN y.id = x.id /\ y.file
    BY <2>1
  <2>3. \A x, y \in W!Created(d)' : x = y
    BY <1>3, <1>6 DEF CommandOK
  <2>4. command[d].at \in Before => W!Created(d)' = {}
    BY <1>3, <1>6 DEF CommandOK
  <2>5. \A z \in W!Created(d)' : \E x \in W!Created(d) : z.id = x.id /\ (x.file => z.file)
    BY <1>6, <2>2
  <2>6. command[d].at \in {"authorize", "upload", "register"} => \A x \in W!Created(d)' : x.id = command[d].id
    BY <1>3, <2>5 DEF CommandOK
  <2>7. command[d].at = "done" => \A x \in W!Created(d)' : x.file
    BY <1>3, <2>5 DEF CommandOK, W!At
  <2>. QED  BY <1>3, <1>4, <2>3, <2>4, <2>6, <2>7 DEF CommandOK, W!At
<1>. QED  BY <1>5, <1>6

\* Nothing is created: a request that changes its command alone.
LEMMA PlainKeeps ==
  ASSUME WritesInv, NEW c \in Commands, NEW r \in Request, W!Goes(c, r), UNCHANGED <<item, added, merged>>,
         r.at \in Before => command[c].at \in Before,
         r.at = "write" => /\ r.version <= item.version
                           /\ r.version = item.version => r.tags = item.tags,
         r.at \in {"authorize", "upload", "register"} =>
           command[c].at \in {"authorize", "upload", "register"} /\ r.id = command[c].id,
         r.at # "done"
  PROVE  WritesInv'
<1>1. \A d \in Commands : W!Created(d)' = W!Created(d)
  BY DEF W!Created
<1>2. /\ command' \in [Commands -> Request] /\ command'[c] = r
      /\ \A d \in Commands \ {c} : CommandOK(d)'
  BY <1>1, OthersKeep DEF WritesInv
<1>3. CommandOK(c)
  BY DEF WritesInv
<1>4. CommandOK(c)'
  BY <1>1, <1>2, <1>3 DEF CommandOK, W!At
<1>. QED  BY <1>2, <1>4 DEF WritesInv

\* Something is created by a command that had created nothing.
LEMMA CreationKeeps ==
  ASSUME WritesInv, NEW c \in Commands, NEW r \in Request, W!Goes(c, r), UNCHANGED <<item, merged>>,
         NEW file \in BOOLEAN, W!Creates(c, file), command[c].at \in Before,
         r.at \notin Before, r.at = "done" => file,
         r.at \in {"authorize", "upload", "register"} => r.id = W!NewId
  PROVE  WritesInv'
<1>. DEFINE n == [by |-> c, id |-> W!NewId, file |-> file]
<1>1. added' = added \cup {n} /\ n \in [by : Commands, id : Nat, file : BOOLEAN]
  <2>1. W!NewId \in Nat
    BY IdIsNumber
  <2>. QED  BY <2>1 DEF W!Creates
<1>2. n.by = c /\ n.id = W!NewId /\ n.file = file
  OBVIOUS
<1>. HIDE DEF n
<1>3. \A d \in Commands \ {c} : W!Created(d)' = W!Created(d)
  BY <1>1, <1>2 DEF W!Created
<1>4. W!Created(c)' = {n}
  <2>1. W!Created(c) = {}
    BY DEF WritesInv, CommandOK
  <2>. QED  BY <1>1, <1>2, <2>1 DEF W!Created
<1>5. /\ command' \in [Commands -> Request] /\ command'[c] = r
      /\ \A d \in Commands \ {c} : CommandOK(d)'
  BY <1>3, OthersKeep DEF WritesInv
<1>6. CommandOK(c)'
  BY <1>2, <1>4, <1>5 DEF CommandOK, W!At, Before
<1>7. IsFiniteSet(added') /\ \A x \in added' : x \in [by : Commands, id : Nat, file : BOOLEAN]
  BY <1>1, FS_AddElement DEF WritesInv
<1>. QED  BY <1>5, <1>6, <1>7 DEF WritesInv

\* The file arrives at what the command has created.
LEMMA FileKeeps ==
  ASSUME WritesInv, NEW c \in Commands, W!GoesTo(c, "done"), UNCHANGED <<item, merged>>,
         W!HasFile(c, TRUE), command[c].at \in {"authorize", "register"}
  PROVE  WritesInv'
<1>. DEFINE With(x) == IF x.id = command[c].id THEN [x EXCEPT !.file = TRUE] ELSE x
<1>1. added' = {With(x) : x \in added}
  BY DEF W!HasFile
<1>2. \A x \in added : /\ With(x) \in [by : Commands, id : Nat, file : BOOLEAN]
                       /\ With(x).by = x.by
                       /\ x.id = command[c].id => With(x).file
  <2>1. \A x \in added : x \in [by : Commands, id : Nat, file : BOOLEAN]
    BY DEF WritesInv
  <2>. QED  BY <2>1
<1>3. \A d \in Commands : W!Created(d)' = {With(x) : x \in W!Created(d)}
  <2>. HIDE DEF With
  <2>. QED  BY <1>1, <1>2 DEF W!Created
<1>4. command[c] \in Request /\ [command[c] EXCEPT !.at = "done"] \in Request
  BY DEF WritesInv, Request
<1>5. /\ command' \in [Commands -> Request] /\ command'[c] = [command[c] EXCEPT !.at = "done"]
      /\ \A d \in Commands \ {c} : CommandOK(d)'
  BY <1>3, <1>4, OthersKeep DEF WritesInv, W!GoesTo
<1>6. CommandOK(c)'
  <2>1. command'[c].at = "done"
    BY <1>4, <1>5 DEF Request
  <2>2. /\ \A x, y \in W!Created(c) : x = y
        /\ \A x \in W!Created(c) : x \in added /\ x.id = command[c].id
    BY DEF WritesInv, CommandOK, W!Created
  <2>3. \A x, y \in W!Created(c)' : x = y
    BY <1>3, <2>2
  <2>4. \A x \in W!Created(c)' : x.file
    <3>. HIDE DEF With
    <3>. QED  BY <1>2, <1>3, <2>2
  <2>. QED  BY <2>1, <2>3, <2>4 DEF CommandOK, W!At, Before
<1>7. IsFiniteSet(added')
  <2>. DEFINE f == [x \in added |-> With(x)]
  <2>. HIDE DEF With
  <2>1. f \in Surjection(added, added')
    BY <1>1 DEF Surjection
  <2>. QED  BY <2>1, FS_Surjection DEF WritesInv
<1>. QED  BY <1>1, <1>2, <1>5, <1>6, <1>7 DEF WritesInv

LEMMA WorksKeep == ASSUME WritesInv, NEW c \in Commands, W!Works(c) PROVE WritesInv'
<1>. DEFINE w == command[c]
<1>0. w \in Request /\ CommandOK(c)
  BY DEF WritesInv
<1>g. ASSUME NEW a \in {"idle", "get", "write", "resolve", "template", "post", "create", "authorize",
                        "upload", "register", "done", "failed"}
      PROVE  LET r == [w EXCEPT !.at = a] IN
             r \in Request /\ r.at = a /\ r.version = w.version /\ r.tags = w.tags /\ r.id = w.id
  BY <1>0 DEF Request
<1>1. CASE W!Invoke(c)
  <2>1. PICK k \in W!Kinds, a, b \in SUBSET Tags :
          W!Goes(c, [command[c] EXCEPT !.kind = k, !.add = a, !.remove = b,
            !.at = CASE k = "new" -> "template" [] k = "doi" -> "resolve"
                     [] k = "attach" -> "create" [] OTHER -> "get"])
    BY <1>1 DEF W!Invoke
  <2>. DEFINE to == CASE k = "new" -> "template" [] k = "doi" -> "resolve"
                      [] k = "attach" -> "create" [] OTHER -> "get"
              r == [w EXCEPT !.kind = k, !.add = a, !.remove = b, !.at = to]
  <2>2. to \in {"template", "resolve", "create", "get"}
    OBVIOUS
  <2>3. W!Goes(c, r) /\ w.at = "idle" /\ UNCHANGED <<item, added, merged>>
    BY <1>1, <2>1 DEF W!Invoke, W!At
  <2>. HIDE DEF to
  <2>4. r \in Request /\ r.at = to
    BY <1>0, <2>2 DEF Request
  <2>. HIDE DEF r
  <2>. QED  BY <2>2, <2>3, <2>4, PlainKeeps DEF Before
<1>2. CASE W!Get(c)
  <2>. DEFINE r == [w EXCEPT !.at = "write", !.version = item.version, !.tags = item.tags]
  <2>1. W!Goes(c, r) /\ w.at = "get" /\ UNCHANGED <<item, added, merged>>
    BY <1>2 DEF W!Get, W!At
  <2>2. r \in Request /\ r.at = "write" /\ r.version = item.version /\ r.tags = item.tags /\ item.version \in Nat
    BY <1>0 DEF Request, WritesInv, Item
  <2>. HIDE DEF r
  <2>. QED  BY <2>1, <2>2, PlainKeeps DEF Before
<1>3. CASE W!Write(c)
  <2>1. w.at = "write" /\ UNCHANGED added
    BY <1>3 DEF W!Write, W!At
  <2>2. CASE w.version = item.version
    <3>1. /\ item'.version = item.version + 1 /\ item' \in Item
          /\ merged' = (merged /\ w.tags = item.tags) /\ W!GoesTo(c, "done")
      <4>1. item \in Item /\ W!NewTags(c) \in SUBSET Tags
        BY <1>0 DEF WritesInv, W!NewTags, Request
      <4>2. /\ item' = [version |-> item.version + 1,
                        tags |-> IF w.kind = "tags" THEN W!NewTags(c) ELSE item.tags,
                        binned |-> item.binned \/ w.kind = "bin"]
            /\ merged' = (merged /\ w.tags = item.tags) /\ W!GoesTo(c, "done")
        BY <1>3, <2>2 DEF W!Write
      <4>. QED  BY <4>1, <4>2 DEF Item
    <3>2. merged' = TRUE
      BY <1>0, <2>1, <2>2, <3>1 DEF CommandOK, WritesInv, W!At
    <3>3. \A d \in Commands : W!Created(d)' = W!Created(d)
      BY <2>1 DEF W!Created
    <3>. DEFINE r == [w EXCEPT !.at = "done"]
    <3>4. r \in Request /\ r.at = "done" /\ W!Goes(c, r)
      BY <1>g, <3>1 DEF W!GoesTo
    <3>. HIDE DEF r
    <3>5. /\ command' \in [Commands -> Request] /\ command'[c] = r
          /\ \A d \in Commands \ {c} : CommandOK(d)'
      BY <3>1, <3>3, <3>4, OthersKeep
    <3>6. W!Created(c) = {}
      BY <1>0, <2>1 DEF CommandOK, Before
    <3>7. CommandOK(c)'
      BY <3>3, <3>4, <3>5, <3>6 DEF CommandOK, W!At, Before
    <3>. QED  BY <2>1, <3>1, <3>2, <3>5, <3>7 DEF WritesInv
  <2>3. CASE w.version # item.version
    <3>1. W!GoesTo(c, "failed") /\ UNCHANGED <<item, merged>>
      BY <1>3, <2>3 DEF W!Write
    <3>. QED  BY <1>g, <2>1, <3>1, PlainKeeps DEF W!GoesTo, Before
  <2>. QED  BY <2>2, <2>3
<1>4. CASE W!Resolve(c)
  BY <1>4, <1>g, PlainKeeps DEF W!Resolve, W!At, W!GoesTo, Before
<1>5. CASE W!Template(c)
  BY <1>5, <1>g, PlainKeeps DEF W!Template, W!At, W!GoesTo, Before
<1>6. CASE W!CreateItems(c)
  BY <1>6, <1>g, CreationKeeps DEF W!CreateItems, W!At, W!GoesTo, Before
<1>7. CASE W!CreateAttachment(c)
  <2>. DEFINE r == [w EXCEPT !.at = "authorize", !.id = W!NewId, !.tries = 0]
  <2>1. W!Goes(c, r) /\ w.at = "create" /\ UNCHANGED <<item, merged>> /\ W!Creates(c, FALSE)
    BY <1>7 DEF W!CreateAttachment, W!At
  <2>2. W!NewId \in Nat
    BY IdIsNumber
  <2>3. r \in Request /\ r.at = "authorize" /\ r.id = W!NewId
    BY <1>0, <2>2 DEF Request
  <2>. HIDE DEF r
  <2>. QED  BY <2>1, <2>3, CreationKeeps DEF Before
<1>u. ASSUME NEW a \in {"upload", "register"}, w.at \in {"authorize", "upload"},
             W!Goes(c, [w EXCEPT !.at = a, !.tries = 0]), UNCHANGED <<item, added, merged>>
      PROVE  WritesInv'
  <2>. DEFINE r == [w EXCEPT !.at = a, !.tries = 0]
  <2>1. r \in Request /\ r.at = a /\ r.id = w.id
    BY <1>0 DEF Request
  <2>. HIDE DEF r
  <2>2. W!Goes(c, r)
    BY <1>u DEF r
  <2>. QED  BY <1>u, <2>1, <2>2, PlainKeeps DEF Before
<1>8. CASE W!Authorize(c)
  <2>1. w.at = "authorize" /\ UNCHANGED <<item, merged>>
    BY <1>8 DEF W!Authorize, W!At
  <2>2. CASE W!HasFile(c, TRUE) /\ W!GoesTo(c, "done")
    BY <2>1, <2>2, FileKeeps
  <2>3. CASE UNCHANGED added /\ W!Goes(c, [w EXCEPT !.at = "upload", !.tries = 0])
    BY <2>1, <2>3, <1>u
  <2>. QED  BY <1>8, <2>2, <2>3 DEF W!Authorize
<1>9. CASE W!Upload(c)
  BY <1>9, <1>u DEF W!Upload, W!At
<1>10. CASE W!Register(c)
  BY <1>10, FileKeeps DEF W!Register, W!At
<1>11. CASE W!Throttled(c)
  <2>. DEFINE to == IF w.tries + 1 < Attempts THEN w.at ELSE "failed"
              r == [w EXCEPT !.tries = w.tries + 1, !.at = to]
  <2>1. W!Goes(c, r) /\ w.at \in {"create", "authorize", "upload", "register"} /\ UNCHANGED <<item, added, merged>>
    BY <1>11 DEF W!Throttled
  <2>2. to \in {w.at, "failed"}
    OBVIOUS
  <2>. HIDE DEF to
  <2>3. r \in Request /\ r.at = to /\ r.id = w.id
    <3>1. w.tries + 1 \in Nat
      BY <1>0 DEF Request
    <3>. QED  BY <1>0, <2>1, <2>2, <3>1 DEF Request
  <2>. HIDE DEF r
  <2>. QED  BY <2>1, <2>2, <2>3, PlainKeeps DEF Before
<1>12. CASE W!Fails(c)
  <2>1. W!GoesTo(c, "failed") /\ UNCHANGED <<item, merged>>
    BY <1>12 DEF W!Fails
  <2>2. CASE UNCHANGED added
    BY <1>g, <2>1, <2>2, PlainKeeps DEF W!GoesTo, Before
  <2>3. CASE command[c].at \in {"post", "create"} /\ W!Creates(c, FALSE)
    BY <1>g, <2>1, <2>3, CreationKeeps DEF W!GoesTo, Before
  <2>. QED  BY <1>12, <2>2, <2>3 DEF W!Fails
<1>. QED
  BY <1>1, <1>2, <1>3, <1>4, <1>5, <1>6, <1>7, <1>8, <1>9, <1>10, <1>11, <1>12 DEF W!Works

LEMMA EditKeeps == ASSUME WritesInv, W!Edit PROVE WritesInv'
<1>1. item'.version = item.version + 1 /\ item' \in Item /\ item \in Item /\ UNCHANGED <<added, command, merged>>
  <2>1. item \in Item /\ UNCHANGED <<added, command, merged>>
    BY DEF W!Edit, WritesInv
  <2>2. PICK ts \in SUBSET Tags : item' = [item EXCEPT !.version = item.version + 1, !.tags = ts]
    BY DEF W!Edit
  <2>3. item.version + 1 \in Nat
    BY <2>1 DEF Item
  <2>4. item' = [version |-> item.version + 1, tags |-> ts, binned |-> item.binned]
    BY <2>1, <2>2 DEF Item
  <2>. QED  BY <2>1, <2>3, <2>4 DEF Item
<1>2. ASSUME NEW c \in Commands PROVE CommandOK(c)'
  <2>1. CommandOK(c) /\ command[c] \in Request
    BY DEF WritesInv
  <2>2. W!Created(c)' = W!Created(c)
    BY <1>1 DEF W!Created
  <2>. QED  BY <1>1, <2>1, <2>2 DEF CommandOK, W!At, Item, Request
<1>. QED  BY <1>1, <1>2 DEF WritesInv

\* No command writes over a change of the item that it has not read, none makes
\* a second attachment however often it is throttled, and one that reports
\* success has its file: any commands, edits and failures (zotero_api.py).
THEOREM WritesStayRight == W!WritesSpec => []W!WritesAreRight
<1>1. W!WritesInit => WritesInv
  <2>. SUFFICES ASSUME W!WritesInit PROVE WritesInv
    OBVIOUS
  <2>1. command \in [Commands -> Request] /\ \A c \in Commands : command[c].at = "idle"
    BY DEF W!WritesInit, W!Start, Request
  <2>2. added = {} /\ merged = TRUE
    BY DEF W!WritesInit
  <2>3. item \in Item
    <3>1. PICK ts \in SUBSET Tags : item = [version |-> 1, tags |-> ts, binned |-> FALSE]
      BY DEF W!WritesInit
    <3>. QED  BY <3>1 DEF Item
  <2>. QED  BY <2>1, <2>2, <2>3, FS_EmptySet DEF WritesInv, CommandOK, W!Created, W!At
<1>2. WritesInv /\ [W!WritesNext]_W!writeVars => WritesInv'
  <2>. SUFFICES ASSUME WritesInv, [W!WritesNext]_W!writeVars PROVE WritesInv'
    OBVIOUS
  <2>1. CASE UNCHANGED W!writeVars
    BY <2>1 DEF W!writeVars, WritesInv, CommandOK, W!Created, W!At
  <2>. QED  BY <2>1, WorksKeep, EditKeeps DEF W!WritesNext
<1>3. WritesInv => W!WritesAreRight
  <2>. SUFFICES ASSUME WritesInv PROVE W!WritesAreRight
    OBVIOUS
  <2>1. merged
    BY DEF WritesInv
  <2>2. ASSUME NEW c \in Commands PROVE W!Cardinality(W!Created(c)) <= 1
    <3>1. \A x, y \in W!Created(c) : x = y
      BY DEF WritesInv, CommandOK
    <3>2. CASE W!Created(c) = {}
      <4>1. Cardinality(W!Created(c)) = 0
        BY <3>2, FS_EmptySet
      <4>. QED  BY <4>1, SameCardinality
    <3>3. CASE W!Created(c) # {}
      <4>1. PICK x \in W!Created(c) : W!Created(c) = {x}
        BY <3>1, <3>3
      <4>2. Cardinality({x}) = 1
        BY FS_Singleton
      <4>. QED  BY <4>1, <4>2, SameCardinality
    <3>. QED  BY <3>2, <3>3
  <2>3. ASSUME NEW c \in Commands, W!At(c, "done") PROVE \A x \in W!Created(c) : x.file
    BY <2>3 DEF WritesInv, CommandOK
  <2>. QED  BY <2>1, <2>2, <2>3 DEF W!WritesAreRight
<1>. QED  BY <1>1, <1>2, <1>3, PTL DEF W!WritesSpec

-----------------------------------------------------------------------------
(* The search.                                                                *)

\* The instance is finite.
SearchIsFinite ==
  IsFiniteSet(Parents) /\ ChunkBound \in Nat /\ Changes \in Nat /\ TopK \in Nat /\ Pool \in Nat

Orders(R, S) ==
  /\ \A x \in S : <<x, x>> \notin R
  /\ \A x, y \in S : x # y => <<x, y>> \in R \/ <<y, x>> \in R
  /\ \A x, y, z \in S : <<x, y>> \in R /\ <<y, z>> \in R => <<x, z>> \in R

\* The elements of a finite set can be put in order: each at one more than what precedes it.
LEMMA Enumerated ==
  ASSUME NEW S, IsFiniteSet(S), NEW R, Orders(R, S)
  PROVE  /\ Cardinality(S) \in Nat
         /\ \E q \in [1 .. Cardinality(S) -> S] :
              \A m, n \in 1 .. Cardinality(S) : m < n => <<q[m], q[n]>> \in R
<1> DEFINE size == Cardinality(S)
           below(x) == {z \in S : <<z, x>> \in R}
           pos == [x \in S |-> Cardinality(below(x)) + 1]
<1>1. size \in Nat
  BY FS_CardinalityType
<1>2. \A x \in S : IsFiniteSet(below(x)) /\ Cardinality(below(x)) \in 0 .. size - 1
  <2> TAKE x \in S
  <2> DEFINE rest == S \ {x}
  <2>1. IsFiniteSet(rest) /\ Cardinality(rest) = size - 1
    BY FS_RemoveElement
  <2>2. below(x) \in SUBSET rest
    BY DEF Orders
  <2> HIDE DEF below, rest, size
  <2>3. IsFiniteSet(below(x)) /\ Cardinality(below(x)) <= Cardinality(rest)
    BY <2>1, <2>2, FS_Subset
  <2>4. Cardinality(below(x)) \in Nat
    BY <2>3, FS_CardinalityType
  <2> QED BY <1>1, <2>1, <2>3, <2>4
<1>3. \A x, y \in S : <<x, y>> \in R => pos[x] < pos[y]
  <2> SUFFICES ASSUME NEW x \in S, NEW y \in S, <<x, y>> \in R PROVE pos[x] < pos[y]
    OBVIOUS
  <2> DEFINE B == below(y) \ {x}
  <2>1. x \in below(y) /\ below(x) \in SUBSET B
    BY DEF Orders
  <2> HIDE DEF below
  <2>2. IsFiniteSet(B) /\ Cardinality(B) = Cardinality(below(y)) - 1
    BY <1>2, <2>1, FS_RemoveElement
  <2> HIDE DEF B
  <2>3. Cardinality(below(x)) <= Cardinality(B)
    BY <2>1, <2>2, FS_Subset
  <2> QED BY <1>1, <1>2, <2>2, <2>3
<1>4. pos \in [S -> 1 .. size]
  <2> HIDE DEF below, size
  <2>1. \A x \in S : Cardinality(below(x)) + 1 \in 1 .. size
    BY <1>1, <1>2
  <2> QED BY <2>1
<1> HIDE DEF pos, size
<1>5. pos \in Injection(S, 1 .. size)
  <2>1. ASSUME NEW x \in S, NEW y \in S, x # y PROVE pos[x] # pos[y]
    <3>1. pos[x] < pos[y] \/ pos[y] < pos[x]
      BY <1>3, <2>1 DEF Orders
    <3>2. pos[x] \in Int /\ pos[y] \in Int
      BY <1>4
    <3> QED BY <3>1, <3>2
  <2> QED BY <1>4, <2>1 DEF Injection, IsInjective
<1>6. pos \in Surjection(S, 1 .. size)
  <2>1. IsFiniteSet(1 .. size) /\ Cardinality(1 .. size) = size
    BY <1>1, FS_Interval
  <2>2. Cardinality(S) = Cardinality(1 .. size)
    BY <2>1 DEF size
  <2> QED BY <1>5, <2>1, <2>2, FS_Injection
<1> DEFINE q == [k \in 1 .. size |-> CHOOSE x \in S : pos[x] = k]
<1>7. \A k \in 1 .. size : q[k] \in S /\ pos[q[k]] = k
  <2>1. \A k \in 1 .. size : \E x \in S : pos[x] = k
    BY <1>6 DEF Surjection
  <2> QED BY <2>1
<1>8. q \in [1 .. size -> S]
  BY <1>7
<1> HIDE DEF q
<1>9. \A m, n \in 1 .. size : m < n => <<q[m], q[n]>> \in R
  <2> SUFFICES ASSUME NEW m \in 1 .. size, NEW n \in 1 .. size, m < n PROVE <<q[m], q[n]>> \in R
    OBVIOUS
  <2>1. q[m] \in S /\ q[n] \in S /\ pos[q[m]] = m /\ pos[q[n]] = n
    BY <1>7
  <2>2. q[m] # q[n]
    BY <1>1, <2>1
  <2>3. ~(<<q[n], q[m]>> \in R)
    <3>1. <<q[n], q[m]>> \in R => n < m
      BY <1>3, <2>1
    <3> QED BY <1>1, <3>1
  <2> QED BY <2>1, <2>2, <2>3 DEF Orders
<1>10. \A f : f = q => f \in [1 .. size -> S] /\ \A m, n \in 1 .. size : m < n => <<f[m], f[n]>> \in R
  BY <1>8, <1>9
<1> QED BY <1>1, <1>10 DEF size

\* The hits at some positions: as many as there are positions, from left to right.
KeepsSome(new, hits, n, at, c) ==
  /\ c \in 0 .. n /\ new = [k \in 1 .. c |-> hits[at[k]]] /\ at \in [1 .. c -> 1 .. n]
  /\ \A j, k \in 1 .. c : j < k => at[j] < at[k]

LEMMA KeptFacts ==
  ASSUME NEW hits, NEW n \in Nat, NEW P \in SUBSET (1 .. n)
  PROVE  \E at, c : KeepsSome(Kept(hits, P), hits, n, at, c) /\ at \in [1 .. c -> P]
<1> DEFINE c == Cardinality(P)
           R == {e \in P \X P : e[1] < e[2]}
           at == CHOOSE q \in [1 .. c -> P] : \A i, j \in DOMAIN q : i < j => q[i] < q[j]
<1>1. IsFiniteSet(P) /\ c \in 0 .. n
  <2>1. IsFiniteSet(1 .. n) /\ Cardinality(1 .. n) = n
    BY FS_Interval
  <2>2. IsFiniteSet(P) /\ Cardinality(P) <= n
    BY <2>1, FS_Subset
  <2>3. Cardinality(P) \in Nat
    BY <2>2, FS_CardinalityType
  <2> QED BY <2>2, <2>3
<1>2. Orders(R, P)
  BY DEF Orders
<1>3. \E q \in [1 .. c -> P] : \A i, j \in 1 .. c : i < j => <<q[i], q[j]>> \in R
  <2> HIDE DEF R
  <2> QED BY <1>1, <1>2, Enumerated
<1>4. \E q \in [1 .. c -> P] : \A i, j \in DOMAIN q : i < j => q[i] < q[j]
  <2>1. PICK q \in [1 .. c -> P] : \A i, j \in 1 .. c : i < j => <<q[i], q[j]>> \in R
    BY <1>3
  <2>2. \A i, j \in DOMAIN q : i < j => q[i] < q[j]
    BY <2>1
  <2> QED BY <2>2
<1>5. at \in [1 .. c -> P] /\ \A i, j \in DOMAIN at : i < j => at[i] < at[j]
  BY <1>4
<1>6. Kept(hits, P) = [k \in DOMAIN at |-> hits[at[k]]]
  BY DEF Kept, InOrder
<1> HIDE DEF at, c
<1>7. KeepsSome(Kept(hits, P), hits, n, at, c)
  BY <1>1, <1>5, <1>6 DEF KeepsSome
<1> QED BY <1>5, <1>7

-----------------------------------------------------------------------------
(* Fractions.                                                                 *)

Fraction == Nat \X (Nat \ {0})

LEMMA LargerProduct ==
  ASSUME NEW a \in Nat, NEW b \in Nat, NEW d \in Nat \ {0}, d * a <= d * b
  PROVE  a <= b
<1> SUFFICES ASSUME b < a PROVE FALSE
  OBVIOUS
<1>1. PICK e \in Nat \ {0} : a = b + e
  <2>1. a - b \in Nat \ {0} /\ a = b + (a - b)
    OBVIOUS
  <2> QED BY <2>1
<1>2. d * a = d * b + d * e
  BY <1>1
<1>3. d * e \in Nat /\ d * e > 0
  OBVIOUS
<1>4. d * a \in Nat /\ d * b \in Nat
  OBVIOUS
<1> QED BY <1>2, <1>3, <1>4

LEMMA OrderOfProducts ==
  ASSUME NEW a \in Nat, NEW b \in Nat, NEW c \in Nat, a <= b
  PROVE  a * c <= b * c /\ a * c \in Nat /\ b * c \in Nat
<1>1. PICK e \in Nat : b = a + e
  <2>1. b - a \in Nat /\ b = a + (b - a)
    OBVIOUS
  <2> QED BY <2>1
<1>2. b * c = a * c + e * c
  BY <1>1
<1>3. e * c \in Nat /\ a * c \in Nat
  OBVIOUS
<1> QED BY <1>2, <1>3

LEMMA FractionsOrdered ==
  ASSUME NEW x \in Fraction, NEW y \in Fraction, NEW z \in Fraction
  PROVE  /\ ~Less(x, x) /\ ~(Less(x, y) /\ Less(y, x))
         /\ ~Less(y, x) /\ ~Less(z, y) => ~Less(z, x)
<1> DEFINE a == x[1]  b == x[2]  c == y[1]  d == y[2]  e == z[1]  f == z[2]
<1>1. a \in Nat /\ c \in Nat /\ e \in Nat /\ b \in Nat \ {0} /\ d \in Nat \ {0} /\ f \in Nat \ {0}
  BY DEF Fraction
<1>2. /\ Less(x, x) <=> a * b < a * b
      /\ Less(x, y) <=> a * d < c * b
      /\ Less(y, x) <=> c * b < a * d
      /\ Less(z, y) <=> e * d < c * f
      /\ Less(z, x) <=> e * b < a * f
  <2>1. \A p \in Nat, q \in Nat : p * q = q * p
    OBVIOUS
  <2> QED BY <1>1, <2>1 DEF Less
<1> HIDE DEF a, b, c, d, e, f
<1>3. /\ a * b \in Nat /\ a * d \in Nat /\ c * b \in Nat /\ e * d \in Nat /\ c * f \in Nat
      /\ e * b \in Nat /\ a * f \in Nat
  BY <1>1
<1>4. ASSUME a * d <= c * b, c * f <= e * d PROVE a * f <= e * b
  <2>1. (a * d) * f <= (c * b) * f
    BY <1>1, <1>3, <1>4, OrderOfProducts
  <2>2. (c * f) * b <= (e * d) * b
    BY <1>1, <1>3, <1>4, OrderOfProducts
  <2>3. (c * b) * f = (c * f) * b /\ (a * d) * f = d * (a * f) /\ (e * d) * b = d * (e * b)
    BY <1>1
  <2>4. d * (a * f) <= d * (e * b)
    <3> DEFINE p == d * (a * f)  q == (c * b) * f  r == d * (e * b)
    <3>1. p \in Nat /\ q \in Nat /\ r \in Nat
      BY <1>1, <1>3
    <3>2. p <= q /\ q <= r
      BY <2>1, <2>2, <2>3
    <3> HIDE DEF p, q, r
    <3>3. p <= r
      BY <3>1, <3>2
    <3> QED BY <3>3 DEF p, r
  <2> QED BY <1>1, <1>3, <2>4, LargerProduct
<1> QED BY <1>2, <1>3, <1>4

\* 1 / p + 1 / q is more than 1 / r when p and q are at most 121 and r is at least 61.
LEMMA TwoShares ==
  ASSUME NEW p \in 1 .. 121, NEW q \in 1 .. 121, NEW r \in Nat, r >= 61
  PROVE  p * q < (q + p) * r
<1>1. p * q <= 121 * q /\ q * p <= 121 * p /\ p * q \in Nat /\ q * p \in Nat
  BY OrderOfProducts
<1>2. 61 * (q + p) <= r * (q + p)
  BY OrderOfProducts
<1>3. p * q = q * p /\ r * (q + p) = (q + p) * r
  OBVIOUS
<1> DEFINE m == p * q  n == (q + p) * r
<1>4. m \in Nat /\ n \in Nat /\ m <= 121 * q /\ m <= 121 * p /\ 61 * (q + p) <= n
  BY <1>1, <1>2, <1>3
<1> HIDE DEF m, n
<1>5. m < n
  BY <1>4
<1> QED BY <1>5 DEF m, n


-----------------------------------------------------------------------------
(* A channel returns an item once.                                            *)

\* The hits of a channel: c of them, each of another item.
Once(h, c) ==
  /\ c \in Nat /\ DOMAIN h = 1 .. c
  /\ \A m, n \in 1 .. c : h[m].item = h[n].item => m = n

\* The hits left of at most n rows have each an item of their own.
LEMMA ChannelOnce ==
  ASSUME NEW Entry, NEW order \in Seq(Entry), NEW n \in Nat
  PROVE  \E c \in 0 .. n : Once(ByParent(Matching(Hits(order, n))), c)
<1> DEFINE h == Hits(order, n)
           size == IF Len(order) < n THEN Len(order) ELSE n
           P == {k \in DOMAIN h : /\ query.filter => h[k].tag
                                  /\ Fulltext => h[k].chunk > 0}
           g == Matching(h)
           Q == {k \in DOMAIN g : \A j \in 1 .. k - 1 : g[j].item # g[k].item}
           r == ByParent(g)
<1>1. size \in 0 .. n /\ DOMAIN h = 1 .. size
  BY DEF Hits
<1> HIDE DEF size, h
<1>2. \E at, c : KeepsSome(g, h, size, at, c)
  <2>1. P \in SUBSET (1 .. size) /\ size \in Nat
    BY <1>1
  <2>2. g = Kept(h, P)
    BY DEF Matching
  <2> HIDE DEF P, g
  <2> QED BY <2>1, <2>2, KeptFacts
<1>3. PICK b \in 0 .. size : DOMAIN g = 1 .. b
  <2> HIDE DEF g
  <2> QED BY <1>2 DEF KeepsSome
<1> HIDE DEF g
<1>4. \E at, c : KeepsSome(r, g, b, at, c) /\ at \in [1 .. c -> Q]
  <2>1. Q \in SUBSET (1 .. b) /\ b \in Nat
    BY <1>1, <1>3
  <2>2. r = Kept(g, Q)
    BY DEF ByParent
  <2> HIDE DEF Q, r
  <2> QED BY <2>1, <2>2, KeptFacts
<1> HIDE DEF r
<1>5. PICK at, c : KeepsSome(r, g, b, at, c) /\ at \in [1 .. c -> Q]
  BY <1>4
<1>6. c \in 0 .. b /\ DOMAIN r = 1 .. c /\ \A k \in 1 .. c : r[k] = g[at[k]]
  BY <1>5 DEF KeepsSome
<1>7. ASSUME NEW j \in 1 .. c, NEW k \in 1 .. c, j < k PROVE r[j].item # r[k].item
  <2>1. at[j] < at[k] /\ at[j] \in 1 .. b /\ at[k] \in Q
    BY <1>5, <1>7 DEF KeepsSome
  <2>2. at[k] \in 1 .. b /\ \A i \in 1 .. at[k] - 1 : g[i].item # g[at[k]].item
    BY <2>1, <1>3
  <2>3. at[j] \in 1 .. at[k] - 1
    BY <2>1, <2>2
  <2> QED BY <2>2, <2>3, <1>6
<1>8. \A j, k \in 1 .. c : r[j].item = r[k].item => j = k
  <2> SUFFICES ASSUME NEW j \in 1 .. c, NEW k \in 1 .. c, r[j].item = r[k].item, j # k PROVE FALSE
    OBVIOUS
  <2>1. j < k \/ k < j
    BY <1>6
  <2> QED BY <2>1, <1>7
<1>9. c \in 0 .. n
  BY <1>1, <1>3, <1>6
<1>10. Once(r, c)
  BY <1>6, <1>8 DEF Once
<1>11. r = ByParent(Matching(Hits(order, n)))
  BY DEF r, g, h
<1> QED BY <1>9, <1>10, <1>11

-----------------------------------------------------------------------------
(* Ranks and scores.                                                          *)

LEMMA RankFacts ==
  ASSUME NEW h, NEW c, Once(h, c)
  PROVE  /\ \A i : Found(h, i) => Rank(h, i) \in 1 .. c /\ h[Rank(h, i)].item = i
         /\ \A n \in 1 .. c : Found(h, h[n].item) /\ Rank(h, h[n].item) = n
<1>1. ASSUME NEW i, Found(h, i) PROVE Rank(h, i) \in 1 .. c /\ h[Rank(h, i)].item = i
  BY <1>1 DEF Found, Rank, Once
<1>2. ASSUME NEW n \in 1 .. c PROVE Found(h, h[n].item) /\ Rank(h, h[n].item) = n
  <2>1. Found(h, h[n].item)
    BY DEF Found, Once
  <2>2. Rank(h, h[n].item) \in 1 .. c /\ h[Rank(h, h[n].item)].item = h[n].item
    BY <2>1, <1>1
  <2> QED BY <2>1, <2>2 DEF Once
<1> QED BY <1>1, <1>2

\* What a channel contributes, and the sum of two contributions, are fractions.
LEMMA ScoreIsFraction ==
  ASSUME NEW v, NEW k, NEW a, NEW b, Once(v, a), Once(k, b), NEW i
  PROVE  Score(v, k, i) \in Fraction
<1>1. \A h, c : Once(h, c) => Share(h, i) \in Fraction
  <2> SUFFICES ASSUME NEW h, NEW c, Once(h, c) PROVE Share(h, i) \in Fraction
    OBVIOUS
  <2>1. CASE Found(h, i)
    <3>1. Rank(h, i) \in Nat \ {0}
      <4>1. Rank(h, i) \in 1 .. c /\ c \in Nat
        BY <2>1, RankFacts DEF Once
      <4> QED BY <4>1
    <3>2. Share(h, i) = <<1, 60 + Rank(h, i)>>
      BY <2>1 DEF Share, RRFK
    <3> QED BY <3>1, <3>2 DEF Fraction
  <2>2. CASE ~Found(h, i)
    BY <2>2 DEF Share, Fraction
  <2> QED BY <2>1, <2>2
<1>2. \A x, y \in Fraction : <<x[1] * y[2] + y[1] * x[2], x[2] * y[2]>> \in Fraction
  <2> SUFFICES ASSUME NEW x \in Fraction, NEW y \in Fraction
               PROVE <<x[1] * y[2] + y[1] * x[2], x[2] * y[2]>> \in Fraction
    OBVIOUS
  <2>1. x[1] \in Nat /\ x[2] \in Nat \ {0} /\ y[1] \in Nat /\ y[2] \in Nat \ {0}
    BY DEF Fraction
  <2>2. \A p, q \in Nat : p * q \in Nat /\ p + q \in Nat
    OBVIOUS
  <2>3. \A p, q \in Nat \ {0} : p * q # 0
    OBVIOUS
  <2>4. x[1] * y[2] + y[1] * x[2] \in Nat /\ x[2] * y[2] \in Nat /\ x[2] * y[2] # 0
    BY <2>1, <2>2, <2>3
  <2> QED BY <2>4 DEF Fraction
<1> QED BY <1>1, <1>2 DEF Score

\* An item that is High in both channels has more than one that only one of them
\* found, wherever.
LEMMA BothAreMore ==
  ASSUME NEW v, NEW k, NEW a, NEW b, Once(v, a), Once(k, b),
         NEW i, NEW j, High(v, j), High(k, j), Found(v, i) # Found(k, i)
  PROVE  Less(Score(v, k, i), Score(v, k, j))
<1> DEFINE p == 60 + Rank(v, j)
           q == 60 + Rank(k, j)
<1>1. p \in 1 .. 121 /\ q \in 1 .. 121
  <2>1. Rank(v, j) \in 1 .. a /\ Rank(k, j) \in 1 .. b
    BY RankFacts DEF High
  <2>2. a \in Nat /\ b \in Nat
    BY DEF Once
  <2>3. Rank(v, j) <= 61 /\ Rank(k, j) <= 61
    BY DEF High, RRFK
  <2> QED BY <2>1, <2>2, <2>3
<1>2. Score(v, k, j) = <<1 * q + 1 * p, p * q>>
  BY DEF Score, Share, RRFK, High
<1> HIDE DEF p, q
<1>3. Score(v, k, j) = <<q + p, p * q>>
  BY <1>1, <1>2
<1>4. \E r \in Nat : r >= 61 /\ Score(v, k, i) = <<1, r>>
  <2>1. \A h, c : Once(h, c) /\ Found(h, i) =>
          \E r \in Nat : r >= 61 /\ Share(h, i) = <<1, r>>
    <3> SUFFICES ASSUME NEW h, NEW c, Once(h, c), Found(h, i)
                 PROVE  \E r \in Nat : r >= 61 /\ Share(h, i) = <<1, r>>
      OBVIOUS
    <3>1. Rank(h, i) \in 1 .. c /\ c \in Nat
      BY RankFacts DEF Once
    <3>2. 60 + Rank(h, i) \in Nat /\ 60 + Rank(h, i) >= 61
      BY <3>1
    <3>3. Share(h, i) = <<1, 60 + Rank(h, i)>>
      BY DEF Share, RRFK
    <3> QED BY <3>2, <3>3
  <2>2. CASE Found(v, i) /\ ~Found(k, i)
    <3>1. PICK r \in Nat : r >= 61 /\ Share(v, i) = <<1, r>>
      BY <2>1, <2>2
    <3>2. Share(k, i) = <<0, 1>>
      BY <2>2 DEF Share
    <3>3. Score(v, k, i) = <<1 * 1 + 0 * r, r * 1>>
      BY <3>1, <3>2 DEF Score
    <3>4. 1 * 1 + 0 * r = 1 /\ r * 1 = r
      OBVIOUS
    <3> QED BY <3>1, <3>3, <3>4
  <2>3. CASE Found(k, i) /\ ~Found(v, i)
    <3>1. PICK r \in Nat : r >= 61 /\ Share(k, i) = <<1, r>>
      BY <2>1, <2>3
    <3>2. Share(v, i) = <<0, 1>>
      BY <2>3 DEF Share
    <3>3. Score(v, k, i) = <<0 * r + 1 * 1, 1 * r>>
      BY <3>1, <3>2 DEF Score
    <3>4. 0 * r + 1 * 1 = 1 /\ 1 * r = r
      OBVIOUS
    <3> QED BY <3>1, <3>3, <3>4
  <2>4. Found(v, i) \in BOOLEAN /\ Found(k, i) \in BOOLEAN
    BY DEF Found
  <2> QED BY <2>2, <2>3, <2>4
<1>5. PICK r \in Nat : r >= 61 /\ Score(v, k, i) = <<1, r>>
  BY <1>4
<1>6. Less(<<1, r>>, <<q + p, p * q>>) <=> 1 * (p * q) < (q + p) * r
  BY DEF Less
<1>7. 1 * (p * q) = p * q
  BY <1>1
<1>8. p * q < (q + p) * r
  BY <1>1, <1>5, TwoShares
<1> QED BY <1>3, <1>5, <1>6, <1>7, <1>8

\* Whatever the channels found.
FoundItems(v, k) == {v[n].item : n \in DOMAIN v} \cup {k[n].item : n \in DOMAIN k}

\* Ahead, on items of the same score.
Tie(v, k, i, j) ==
  \/ Found(k, i) /\ ~Found(k, j)
  \/ /\ Found(k, i) = Found(k, j)
     /\ IF Found(v, i) /\ Found(v, j) THEN Rank(v, i) < Rank(v, j)
        ELSE Found(v, i) \/ (~Found(v, j) /\ Rank(k, i) < Rank(k, j))

\* The tie is broken, and always the same way.
LEMMA TiesOrdered ==
  ASSUME NEW v, NEW k, NEW a, NEW b, Once(v, a), Once(k, b),
         NEW x \in FoundItems(v, k), NEW y \in FoundItems(v, k), NEW z \in FoundItems(v, k)
  PROVE  /\ ~Tie(v, k, x, x)
         /\ x # y => Tie(v, k, x, y) \/ Tie(v, k, y, x)
         /\ Tie(v, k, x, y) /\ Tie(v, k, y, z) => Tie(v, k, x, z)
<1> DEFINE Seen(h, i) == Found(h, i) => Rank(h, i) \in Int
<1>1. \A i \in FoundItems(v, k) : /\ Found(v, i) \in BOOLEAN /\ Found(k, i) \in BOOLEAN
                                  /\ (Found(v, i) \/ Found(k, i)) /\ Seen(v, i) /\ Seen(k, i)
  <2>1. \A h, c, i : Once(h, c) => Seen(h, i)
    <3> SUFFICES ASSUME NEW h, NEW c, NEW i, Once(h, c), Found(h, i) PROVE Rank(h, i) \in Int
      OBVIOUS
    <3>1. Rank(h, i) \in 1 .. c /\ c \in Nat
      BY RankFacts DEF Once
    <3> QED BY <3>1
  <2>2. \A i \in FoundItems(v, k) : Found(v, i) \/ Found(k, i)
    BY DEF FoundItems, Found
  <2> HIDE DEF Seen
  <2> QED BY <2>1, <2>2 DEF Found
<1>2. \A i, j \in FoundItems(v, k) : i # j =>
        /\ Found(v, i) /\ Found(v, j) => Rank(v, i) # Rank(v, j)
        /\ Found(k, i) /\ Found(k, j) => Rank(k, i) # Rank(k, j)
  <2>1. \A h, c, i, j : Once(h, c) /\ Found(h, i) /\ Found(h, j) /\ i # j => Rank(h, i) # Rank(h, j)
    <3> SUFFICES ASSUME NEW h, NEW c, NEW i, NEW j, Once(h, c), Found(h, i), Found(h, j), i # j
                 PROVE  Rank(h, i) # Rank(h, j)
      OBVIOUS
    <3>1. h[Rank(h, i)].item = i /\ h[Rank(h, j)].item = j
      BY RankFacts
    <3> QED BY <3>1
  <2> QED BY <2>1
<1>3. ~Tie(v, k, x, x)
  BY <1>1 DEF Tie
<1>4. x # y => Tie(v, k, x, y) \/ Tie(v, k, y, x)
  BY <1>1, <1>2 DEF Tie
<1>5. Tie(v, k, x, y) /\ Tie(v, k, y, z) => Tie(v, k, x, z)
  BY <1>1 DEF Tie
<1> QED BY <1>3, <1>4, <1>5

\* Ahead puts what the channels found in order.
LEMMA AheadOrders ==
  ASSUME NEW v, NEW k, NEW a, NEW b, Once(v, a), Once(k, b)
  PROVE  Orders({e \in FoundItems(v, k) \X FoundItems(v, k) : Ahead(v, k, e[1], e[2])},
                FoundItems(v, k))
<1> DEFINE F == FoundItems(v, k)
           R == {e \in F \X F : Ahead(v, k, e[1], e[2])}
           L(i, j) == Less(Score(v, k, i), Score(v, k, j))
           T(i, j) == Tie(v, k, i, j)
           A(i, j) == Ahead(v, k, i, j)
<1>1. \A i, j : A(i, j) <=> L(j, i) \/ (~L(i, j) /\ T(i, j))
  BY DEF Ahead, Tie
<1>2. \A x, y, z : ~L(x, x) /\ ~(L(x, y) /\ L(y, x)) /\ (~L(y, x) /\ ~L(z, y) => ~L(z, x))
  BY ScoreIsFraction, FractionsOrdered
<1>3. \A x, y, z \in F : /\ ~T(x, x) /\ (x # y => T(x, y) \/ T(y, x))
                         /\ (T(x, y) /\ T(y, z) => T(x, z))
  BY TiesOrdered
<1> HIDE DEF L, T, A, F
<1>4. \A x \in F : ~A(x, x)
  BY <1>1, <1>2, <1>3
<1>5. \A x, y \in F : x # y => A(x, y) \/ A(y, x)
  BY <1>1, <1>2, <1>3
<1>6. ASSUME NEW x \in F, NEW y \in F, NEW z \in F, A(x, y), A(y, z) PROVE A(x, z)
  <2>1. ~L(x, y) /\ ~L(y, z)
    BY <1>1, <1>2, <1>6
  <2>2. ~L(x, z)
    BY <2>1, <1>2
  <2>3. CASE L(z, x)
    BY <2>3, <1>1
  <2>4. CASE ~L(z, x)
    <3>1. ~L(y, x)
      <4> SUFFICES ASSUME L(y, x) PROVE FALSE
        OBVIOUS
      <4>1. ~L(y, z) /\ ~L(z, x) => ~L(y, x)
        BY <1>2
      <4> QED BY <4>1, <2>1, <2>4
    <3>2. ~L(z, y)
      <4> SUFFICES ASSUME L(z, y) PROVE FALSE
        OBVIOUS
      <4>1. ~L(z, x) /\ ~L(x, y) => ~L(z, y)
        BY <1>2
      <4> QED BY <4>1, <2>1, <2>4
    <3>3. T(x, y) /\ T(y, z)
      BY <1>1, <1>6, <3>1, <3>2
    <3> QED BY <1>1, <1>3, <2>2, <3>3
  <2> QED BY <2>3, <2>4
<1>7. \A x, y : <<x, y>> \in R <=> x \in F /\ y \in F /\ A(x, y)
  BY DEF A
<1> HIDE DEF R
<1>8. Orders(R, F)
  BY <1>4, <1>5, <1>6, <1>7 DEF Orders
<1> QED BY <1>8 DEF R, F

\* The fused results: an entry for every item found, each ahead of the later ones.
LEMMA FusedInOrder ==
  ASSUME NEW v, NEW k, NEW a, NEW b, Once(v, a), Once(k, b)
  PROVE  \E c \in Nat : /\ DOMAIN Fused(v, k) = 1 .. c
                        /\ \A m, n \in 1 .. c : m < n =>
                             /\ Fused(v, k)[m].item \in FoundItems(v, k)
                             /\ Fused(v, k)[n].item \in FoundItems(v, k)
                             /\ Ahead(v, k, Fused(v, k)[m].item, Fused(v, k)[n].item)
<1> DEFINE F == FoundItems(v, k)
           R == {e \in F \X F : Ahead(v, k, e[1], e[2])}
           c == Cardinality(F)
           q == CHOOSE p \in [1 .. c -> F] :
                  \A m, n \in DOMAIN p : m < n => Ahead(v, k, p[m], p[n])
           r == Fused(v, k)
<1>1. IsFiniteSet(F)
  <2>1. \A h, d : Once(h, d) => IsFiniteSet({h[n].item : n \in DOMAIN h})
    <3> SUFFICES ASSUME NEW h, NEW d, Once(h, d) PROVE IsFiniteSet({h[n].item : n \in DOMAIN h})
      OBVIOUS
    <3>1. IsFiniteSet(1 .. d) /\ DOMAIN h = 1 .. d
      BY FS_Interval DEF Once
    <3> DEFINE f == [n \in 1 .. d |-> h[n].item]
               T == {f[n] : n \in 1 .. d}
    <3>2. f \in Surjection(1 .. d, T)
      BY DEF Surjection
    <3>3. T = {h[n].item : n \in DOMAIN h}
      BY <3>1
    <3> HIDE DEF T, f
    <3>4. IsFiniteSet(T)
      BY <3>1, <3>2, FS_Surjection
    <3> QED BY <3>3, <3>4
  <2> QED BY <2>1, FS_Union DEF FoundItems
<1>2. c \in Nat /\ \E p \in [1 .. c -> F] : \A m, n \in 1 .. c : m < n => <<p[m], p[n]>> \in R
  <2>1. Orders(R, F)
    BY AheadOrders
  <2> HIDE DEF R, F
  <2> QED BY <1>1, <2>1, Enumerated
<1>3. \E p \in [1 .. c -> F] : \A m, n \in DOMAIN p : m < n => Ahead(v, k, p[m], p[n])
  <2>1. PICK p \in [1 .. c -> F] : \A m, n \in 1 .. c : m < n => <<p[m], p[n]>> \in R
    BY <1>2
  <2>2. DOMAIN p = 1 .. c
    OBVIOUS
  <2>3. \A m, n \in DOMAIN p : m < n => Ahead(v, k, p[m], p[n])
    BY <2>1, <2>2
  <2> QED BY <2>3
<1>4. q \in [1 .. c -> F] /\ \A m, n \in DOMAIN q : m < n => Ahead(v, k, q[m], q[n])
  <2> HIDE DEF F, c
  <2> QED BY <1>3
<1>5. r = [n \in DOMAIN q |-> IF Found(k, q[n]) THEN k[Rank(k, q[n])] ELSE v[Rank(v, q[n])]]
  <2>1. q = InOrder(F, LAMBDA i, j : Ahead(v, k, i, j))
    BY DEF InOrder
  <2>2. F = {v[n].item : n \in DOMAIN v} \cup {k[n].item : n \in DOMAIN k}
    BY DEF FoundItems
  <2> QED BY <2>1, <2>2 DEF Fused
<1> HIDE DEF q, r, c
<1>6. DOMAIN q = 1 .. c /\ DOMAIN r = 1 .. c
  BY <1>4, <1>5
<1>7. ASSUME NEW n \in 1 .. c PROVE q[n] \in F /\ r[n].item = q[n]
  <2>1. q[n] \in F
    BY <1>4
  <2>2. Found(v, q[n]) \/ Found(k, q[n])
    BY <2>1 DEF FoundItems, Found
  <2>3. r[n] = IF Found(k, q[n]) THEN k[Rank(k, q[n])] ELSE v[Rank(v, q[n])]
    BY <1>5, <1>6
  <2>4. CASE Found(k, q[n])
    <3>1. r[n] = k[Rank(k, q[n])]
      BY <2>3, <2>4
    <3>2. k[Rank(k, q[n])].item = q[n]
      BY <2>4, RankFacts
    <3> QED BY <2>1, <3>1, <3>2
  <2>5. CASE ~Found(k, q[n])
    <3>1. r[n] = v[Rank(v, q[n])]
      BY <2>3, <2>5
    <3>2. v[Rank(v, q[n])].item = q[n]
      BY <2>2, <2>5, RankFacts
    <3> QED BY <2>1, <3>1, <3>2
  <2> QED BY <2>4, <2>5
<1>8. \A m, n \in 1 .. c : m < n => /\ r[m].item \in F /\ r[n].item \in F
                                    /\ Ahead(v, k, r[m].item, r[n].item)
  BY <1>4, <1>6, <1>7
<1> QED BY <1>2, <1>6, <1>8 DEF r

\* Ahead separates items, and one that is High in both channels is behind none that
\* only one of them found.
LEMMA AheadMeans ==
  ASSUME NEW v, NEW k, NEW a, NEW b, Once(v, a), Once(k, b),
         NEW i \in FoundItems(v, k), NEW j \in FoundItems(v, k), Ahead(v, k, i, j)
  PROVE  /\ i # j
         /\ High(v, j) /\ High(k, j) => Found(v, i) /\ Found(k, i)
<1> DEFINE F == FoundItems(v, k)
           R == {e \in F \X F : Ahead(v, k, e[1], e[2])}
<1>1. i # j
  <2>1. Orders(R, F) /\ <<i, j>> \in R
    BY AheadOrders
  <2> HIDE DEF R
  <2> QED BY <2>1 DEF Orders
<1>2. ASSUME High(v, j), High(k, j), ~(Found(v, i) /\ Found(k, i)) PROVE FALSE
  <2>1. Found(v, i) # Found(k, i)
    BY <1>2 DEF FoundItems, Found
  <2>2. Less(Score(v, k, i), Score(v, k, j))
    BY <1>2, <2>1, BothAreMore
  <2>3. ~Less(Score(v, k, j), Score(v, k, i))
    BY <2>2, ScoreIsFraction, FractionsOrdered
  <2> QED BY <2>2, <2>3 DEF Ahead
<1> QED BY <1>1, <1>2

-----------------------------------------------------------------------------
(* The results.                                                               *)

\* The first results are results, at the places they had.
LEMMA TopFacts ==
  ASSUME NEW s, NEW c \in Nat, DOMAIN s = 1 .. c, Len(s) = c, TopK \in Nat
  PROVE  \A n \in DOMAIN Top(s) : n \in 1 .. c /\ Top(s)[n] = s[n]
<1> DEFINE m == IF Len(s) < TopK THEN Len(s) ELSE TopK
           V == {s[i] : i \in 1 .. c}
<1>1. m \in 0 .. c
  OBVIOUS
<1>2. Top(s) = SubSeq(s, 1, m)
  BY DEF Top
<1> HIDE DEF m
<1>3. \A i \in 1 .. m : s[i] \in V
  BY <1>1
<1> HIDE DEF V
<1>4. /\ SubSeq(s, 1, m) \in Seq(V)
      /\ Len(SubSeq(s, 1, m)) = IF 1 <= m THEN m - 1 + 1 ELSE 0
      /\ \A i \in 1 .. m - 1 + 1 : SubSeq(s, 1, m)[i] = s[1 + i - 1]
  BY <1>1, <1>3, SubSeqProperties
<1> DEFINE u == SubSeq(s, 1, m)
<1> HIDE DEF u
<1>5. Len(u) = m /\ DOMAIN u = 1 .. Len(u)
  BY <1>1, <1>4 DEF u
<1>6. \A i \in 1 .. m : u[i] = s[i]
  <2> SUFFICES ASSUME NEW i \in 1 .. m PROVE u[i] = s[i]
    OBVIOUS
  <2>1. i \in 1 .. m - 1 + 1 /\ 1 + i - 1 = i
    BY <1>1
  <2> QED BY <1>4, <2>1 DEF u
<1>7. \A i \in 1 .. m : i \in 1 .. c
  BY <1>1
<1> QED BY <1>2, <1>5, <1>6, <1>7 DEF u

\* What a search asks of its results.
RightResults(mode, v, k, r) ==
  \A m, n \in DOMAIN r : m < n =>
    /\ r[m].item # r[n].item
    /\ mode = "hybrid" /\ High(v, r[n].item) /\ High(k, r[n].item)
         => Found(v, r[m].item) /\ Found(k, r[m].item)

\* The type of the search, and what the channels returned: an item once.
TypedSearch(q) ==
  q \in [at : {"filter", "vector", "keyword", "rank", "context", "done"}, mode : Modes,
         fulltext : BOOLEAN, filter : BOOLEAN, allowed : SUBSET Parents,
         vector : {q.vector}, keyword : {q.keyword}, results : {q.results}]
OnceEach(v, k) == \E a, b : Once(v, a) /\ Once(k, b)

\* The invariant: there are no results before the ranking, and they come right.
SearchInv ==
  /\ TypedSearch(query) /\ tagged \subseteq Parents
  /\ OnceEach(query.vector, query.keyword)
  /\ query.at \in {"filter", "vector", "keyword", "rank"} => query.results = <<>>
  /\ query.at = "context" => query.fulltext
  /\ query.at \in {"context", "done"} /\ ~(query.at = "done" /\ query.fulltext) =>
       RightResults(query.mode, query.vector, query.keyword, query.results)

LEMMA RankedRight ==
  ASSUME SearchIsFinite, SearchInv, query.at = "rank"
  PROVE  RightResults(query.mode, query.vector, query.keyword, Top(Ranked))
<1> DEFINE v == query.vector
           k == query.keyword
<1>1. PICK a, b : Once(v, a) /\ Once(k, b)
  BY DEF SearchInv, OnceEach
<1>2. query.mode \in Modes
  BY DEF SearchInv, TypedSearch
<1> HIDE DEF v, k
<1>3. ASSUME NEW s, NEW c, Once(s, c), Ranked = s, query.mode # "hybrid"
      PROVE  RightResults(query.mode, v, k, Top(Ranked))
  <2>1. Len(s) = c /\ c \in Nat /\ DOMAIN s = 1 .. c
    BY <1>3 DEF Once
  <2>2. \A n \in DOMAIN Top(s) : n \in 1 .. c /\ Top(s)[n] = s[n]
    BY <2>1, TopFacts DEF SearchIsFinite
  <2>3. ASSUME NEW m \in DOMAIN Top(s), NEW n \in DOMAIN Top(s), m < n
        PROVE  Top(s)[m].item # Top(s)[n].item
    BY <2>1, <2>2, <2>3, <1>3 DEF Once
  <2> QED BY <2>3, <1>3 DEF RightResults
<1>4. query.mode = "vector" => RightResults(query.mode, v, k, Top(Ranked))
  <2>1. query.mode = "vector" => Ranked = v /\ query.mode # "hybrid"
    BY DEF Ranked, v
  <2> QED BY <1>1, <1>3, <2>1
<1>5. query.mode = "keyword" => RightResults(query.mode, v, k, Top(Ranked))
  <2>1. query.mode = "keyword" => Ranked = k /\ query.mode # "hybrid"
    BY DEF Ranked, k
  <2> QED BY <1>1, <1>3, <2>1
<1>6. ASSUME query.mode = "hybrid" PROVE RightResults(query.mode, v, k, Top(Ranked))
  <2> DEFINE s == Fused(v, k)
  <2>1. Ranked = s
    BY <1>6 DEF Ranked, v, k
  <2>2. PICK c \in Nat : /\ DOMAIN s = 1 .. c
                        /\ \A m, n \in 1 .. c : m < n =>
                             /\ s[m].item \in FoundItems(v, k) /\ s[n].item \in FoundItems(v, k)
                             /\ Ahead(v, k, s[m].item, s[n].item)
    BY <1>1, FusedInOrder
  <2> HIDE DEF s
  <2>3. Len(s) = c
    BY <2>2
  <2>4. \A n \in DOMAIN Top(s) : n \in 1 .. c /\ Top(s)[n] = s[n]
    BY <2>2, <2>3, TopFacts DEF SearchIsFinite
  <2>5. ASSUME NEW m \in DOMAIN Top(s), NEW n \in DOMAIN Top(s), m < n
        PROVE  /\ s[m].item # s[n].item /\ Top(s)[m] = s[m] /\ Top(s)[n] = s[n]
               /\ High(v, s[n].item) /\ High(k, s[n].item)
                    => Found(v, s[m].item) /\ Found(k, s[m].item)
    <3>1. m \in 1 .. c /\ n \in 1 .. c /\ Top(s)[m] = s[m] /\ Top(s)[n] = s[n]
      BY <2>4
    <3>2. /\ s[m].item \in FoundItems(v, k) /\ s[n].item \in FoundItems(v, k)
          /\ Ahead(v, k, s[m].item, s[n].item)
      BY <2>2, <2>5, <3>1
    <3> QED BY <1>1, <3>1, <3>2, AheadMeans
  <2>6. RightResults(query.mode, v, k, Top(s))
    BY <2>5 DEF RightResults
  <2> QED BY <2>1, <2>6
<1> QED BY <1>2, <1>4, <1>5, <1>6 DEF Modes, v, k

LEMMA RowsAreFinite ==
  ASSUME SearchIsFinite, SearchInv, NEW only
  PROVE  IsFiniteSet(RowsOf(only)) /\ Cardinality(RowsOf(only)) \in Nat
<1> DEFINE All == {<<i, k>> : i \in query.allowed, k \in 0 .. ChunkBound}
<1>1. query.allowed \in SUBSET Parents
  BY DEF SearchInv, TypedSearch
<1>2. IsFiniteSet(query.allowed) /\ IsFiniteSet(0 .. ChunkBound)
  <2>1. IsFiniteSet(query.allowed)
    BY <1>1, FS_Subset DEF SearchIsFinite
  <2>2. 0 \in Int /\ ChunkBound \in Int
    BY DEF SearchIsFinite
  <2> QED BY <2>1, <2>2, FS_Interval
<1>3. All = query.allowed \X (0 .. ChunkBound)
  OBVIOUS
<1>4. IsFiniteSet(All)
  <2>1. IsFiniteSet(query.allowed \X (0 .. ChunkBound))
    BY <1>2, FS_Product
  <2> QED BY <1>3, <2>1
<1>5. RowsOf(only) \in SUBSET All
  BY DEF RowsOf
<1> HIDE DEF All
<1> QED BY <1>4, <1>5, FS_Subset, FS_CardinalityType

LEMMA SearchStarts ==
  ASSUME SearchIsFinite, RankInit
  PROVE  SearchInv
<1>1. query \in [at : {"filter"}, mode : Modes, fulltext : BOOLEAN, filter : BOOLEAN,
                allowed : {Parents}, vector : {<<>>}, keyword : {<<>>}, results : {<<>>}]
  BY DEF RankInit
<1>2. /\ query.at = "filter" /\ query.vector = <<>> /\ query.keyword = <<>>
      /\ query.results = <<>>
  BY <1>1
<1>3. TypedSearch(query)
  BY <1>1, <1>2 DEF TypedSearch
<1>4. tagged \subseteq Parents
  BY DEF RankInit
<1>5. Once(<<>>, 0)
  BY DEF Once
<1>6. OnceEach(query.vector, query.keyword)
  BY <1>2, <1>5 DEF OnceEach
<1> QED BY <1>2, <1>3, <1>4, <1>6 DEF SearchInv

LEMMA FilterKeeps ==
  ASSUME SearchInv, Filter
  PROVE  SearchInv'
<1> DEFINE allowed == IF query.filter THEN tagged ELSE Parents
           at == IF allowed = {} THEN "done" ELSE IF query.mode = "keyword" THEN "keyword" ELSE "vector"
<1>1. /\ query.at = "filter" /\ query' = [query EXCEPT !.allowed = allowed, !.at = at]
      /\ tagged' = tagged
  BY DEF Filter, Search
<1>2. TypedSearch(query) /\ tagged \subseteq Parents /\ query.results = <<>>
      /\ OnceEach(query.vector, query.keyword)
  BY <1>1 DEF SearchInv
<1>3. allowed \in SUBSET Parents /\ at \in {"done", "keyword", "vector"}
  BY <1>2
<1> HIDE DEF allowed, at
<1>4. /\ query'.at = at /\ query'.mode = query.mode /\ query'.fulltext = query.fulltext
      /\ query'.vector = query.vector /\ query'.keyword = query.keyword
      /\ query'.results = query.results
  BY <1>1, <1>2 DEF TypedSearch
<1>5. TypedSearch(query)'
  <2>1. TypedSearch(query')
    BY <1>1, <1>2, <1>3, <1>4 DEF TypedSearch
  <2> QED BY <2>1 DEF TypedSearch
<1>6. RightResults(query.mode, query.vector, query.keyword, <<>>)
  BY DEF RightResults
<1>7. /\ tagged' \subseteq Parents
      /\ OnceEach(query.vector, query.keyword)'
      /\ RightResults(query.mode, query.vector, query.keyword, query.results)'
  BY <1>1, <1>2, <1>4, <1>6
<1>8. query'.at # "context" /\ query'.results = <<>>
  BY <1>2, <1>3, <1>4
<1> QED BY <1>5, <1>7, <1>8 DEF SearchInv

\* A channel of some order, which asked for at most n rows.
LEMMA ChannelFound ==
  ASSUME SearchIsFinite, SearchInv, NEW S, IsFiniteSet(S), NEW order \in SetToSeqs(S), NEW n \in Nat
  PROVE  \E c \in 0 .. n : Once(ByParent(Matching(Hits(order, n))), c)
<1>1. Cardinality(S) \in Nat
  BY FS_CardinalityType
<1>2. order \in [1 .. Cardinality(S) -> S]
  BY DEF SetToSeqs
<1>3. order \in Seq(S)
  BY <1>1, <1>2
<1> QED BY <1>3, ChannelOnce

LEMMA VectorKeeps ==
  ASSUME SearchIsFinite, SearchInv, VectorQuery
  PROVE  SearchInv'
<1> DEFINE at == IF query.mode = "vector" THEN "rank" ELSE "keyword"
<1>1. PICK order \in SetToSeqs(RowsOf(FALSE)) :
        /\ query' = [query EXCEPT !.vector = ByParent(Matching(Hits(order, VectorPool))), !.at = at]
        /\ tagged' = tagged
  BY DEF VectorQuery, Search
<1>2. PICK v : v = ByParent(Matching(Hits(order, VectorPool)))
  OBVIOUS
<1>3. TypedSearch(query) /\ tagged \subseteq Parents /\ query.results = <<>>
      /\ OnceEach(query.vector, query.keyword)
  BY DEF SearchInv, VectorQuery
<1>4. at \in {"rank", "keyword"}
  OBVIOUS
<1>5. VectorPool \in Nat
  BY DEF VectorPool, SearchIsFinite
<1>6. \E c \in 0 .. VectorPool : Once(v, c)
  BY <1>2, <1>5, RowsAreFinite, ChannelFound
<1>7. OnceEach(v, query.keyword)
  BY <1>3, <1>6 DEF OnceEach
<1> HIDE DEF at
<1>8. query' = [query EXCEPT !.vector = v, !.at = at]
  BY <1>1, <1>2
<1>9. /\ query'.at = at /\ query'.mode = query.mode
      /\ query'.vector = v /\ query'.keyword = query.keyword
      /\ query'.results = query.results
  BY <1>3, <1>8 DEF TypedSearch
<1>10. TypedSearch(query)'
  <2>1. TypedSearch(query')
    BY <1>3, <1>4, <1>8, <1>9 DEF TypedSearch
  <2> QED BY <2>1 DEF TypedSearch
<1>11. tagged' \subseteq Parents /\ OnceEach(query.vector, query.keyword)'
  BY <1>1, <1>3, <1>7, <1>9
<1>12. query'.at \notin {"context", "done"} /\ query'.results = <<>>
  BY <1>3, <1>4, <1>9
<1> QED BY <1>10, <1>11, <1>12 DEF SearchInv

LEMMA KeywordKeeps ==
  ASSUME SearchIsFinite, SearchInv, KeywordQuery
  PROVE  SearchInv'
<1>1. PICK found \in SUBSET RowsOf(Fulltext) : \E order \in SetToSeqs(found) :
        /\ query' = [query EXCEPT !.keyword = ByParent(Matching(Hits(order, Pool))), !.at = "rank"]
        /\ tagged' = tagged
  BY DEF KeywordQuery, Search
<1>2. PICK order \in SetToSeqs(found) :
        /\ query' = [query EXCEPT !.keyword = ByParent(Matching(Hits(order, Pool))), !.at = "rank"]
        /\ tagged' = tagged
  BY <1>1
<1>3. PICK k : k = ByParent(Matching(Hits(order, Pool)))
  OBVIOUS
<1>4. TypedSearch(query) /\ tagged \subseteq Parents /\ query.results = <<>>
      /\ OnceEach(query.vector, query.keyword)
  BY DEF SearchInv, KeywordQuery
<1>5. \E c \in 0 .. Pool : Once(k, c)
  <2>1. IsFiniteSet(found)
    BY RowsAreFinite, FS_Subset
  <2> QED BY <1>3, <2>1, ChannelFound DEF SearchIsFinite
<1>6. OnceEach(query.vector, k)
  BY <1>4, <1>5 DEF OnceEach
<1>7. query' = [query EXCEPT !.keyword = k, !.at = "rank"]
  BY <1>2, <1>3
<1>8. /\ query'.at = "rank" /\ query'.mode = query.mode
      /\ query'.vector = query.vector /\ query'.keyword = k
      /\ query'.results = query.results
  BY <1>4, <1>7 DEF TypedSearch
<1>9. TypedSearch(query)'
  <2>1. TypedSearch(query')
    BY <1>4, <1>7, <1>8 DEF TypedSearch
  <2> QED BY <2>1 DEF TypedSearch
<1>10. tagged' \subseteq Parents /\ OnceEach(query.vector, query.keyword)'
  BY <1>2, <1>4, <1>6, <1>8
<1> QED BY <1>4, <1>8, <1>9, <1>10 DEF SearchInv

LEMMA ResultsKeep ==
  ASSUME SearchIsFinite, SearchInv, RankResults
  PROVE  SearchInv'
<1>1. PICK r : r = Top(Ranked)
  OBVIOUS
<1>2. PICK at : at = IF Fulltext THEN "context" ELSE "done"
  OBVIOUS
<1>3. query' = [query EXCEPT !.results = r, !.at = at] /\ tagged' = tagged /\ query.at = "rank"
  BY <1>1, <1>2 DEF RankResults, Search
<1>4. TypedSearch(query) /\ tagged \subseteq Parents
      /\ OnceEach(query.vector, query.keyword)
  BY DEF SearchInv
<1>5. /\ query'.at = at /\ query'.mode = query.mode /\ query'.fulltext = query.fulltext
      /\ query'.vector = query.vector /\ query'.keyword = query.keyword
      /\ query'.results = r
  BY <1>3, <1>4 DEF TypedSearch
<1>6. at \in {"context", "done"} /\ (at = "context" => query.fulltext)
  BY <1>2 DEF Fulltext
<1>7. TypedSearch(query)'
  <2>1. TypedSearch(query')
    BY <1>3, <1>4, <1>5, <1>6 DEF TypedSearch
  <2> QED BY <2>1 DEF TypedSearch
<1>8. RightResults(query.mode, query.vector, query.keyword, r)
  BY <1>1, <1>3, RankedRight
<1>9. /\ tagged' \subseteq Parents /\ OnceEach(query.vector, query.keyword)'
      /\ RightResults(query.mode, query.vector, query.keyword, query.results)'
  BY <1>3, <1>4, <1>5, <1>8
<1> QED BY <1>5, <1>6, <1>7, <1>9 DEF SearchInv

LEMMA ContextKeeps ==
  ASSUME SearchInv, Context
  PROVE  SearchInv'
<1>1. PICK r : query' = [query EXCEPT !.at = "done", !.results = r] /\ tagged' = tagged
  BY DEF Context, Search
<1>2. TypedSearch(query) /\ tagged \subseteq Parents /\ query.fulltext
      /\ OnceEach(query.vector, query.keyword)
  BY DEF SearchInv, Context
<1>3. /\ query'.at = "done" /\ query'.mode = query.mode /\ query'.fulltext = query.fulltext
      /\ query'.vector = query.vector /\ query'.keyword = query.keyword
      /\ query'.results = r
  BY <1>1, <1>2 DEF TypedSearch
<1>4. TypedSearch(query)'
  <2>1. TypedSearch(query')
    BY <1>1, <1>2, <1>3 DEF TypedSearch
  <2> QED BY <2>1 DEF TypedSearch
<1>5. tagged' \subseteq Parents /\ OnceEach(query.vector, query.keyword)'
  BY <1>1, <1>2, <1>3
<1> QED BY <1>2, <1>3, <1>4, <1>5 DEF SearchInv

\* The results of a search list an item once, and in hybrid mode no item that only
\* one channel found comes before one that is High in both, however many rows a
\* channel is asked for, in whatever order they come, and whatever is indexed
\* between the steps of the search (search.py, query and _fuse_parent_results).
THEOREM RankingStaysRight ==
  ASSUME SearchIsFinite
  PROVE  RankSpec => []RankingIsRight
<1>1. RankInit => SearchInv
  BY SearchStarts
<1>2. SearchInv /\ [RankNext]_rankVars => SearchInv'
  <2> SUFFICES ASSUME SearchInv, [RankNext]_rankVars PROVE SearchInv'
    OBVIOUS
  <2>1. CASE Filter
    BY <2>1, FilterKeeps
  <2>2. CASE VectorQuery
    BY <2>2, VectorKeeps
  <2>3. CASE KeywordQuery
    BY <2>3, KeywordKeeps
  <2>4. CASE RankResults
    BY <2>4, ResultsKeep
  <2>5. CASE Context
    BY <2>5, ContextKeeps
  <2>6. CASE Reindex
    <3>1. query' = query /\ tagged' \subseteq Parents
      BY <2>6 DEF Reindex, SearchInv
    <3> QED BY <3>1 DEF SearchInv
  <2>7. CASE UNCHANGED rankVars
    BY <2>7 DEF rankVars, SearchInv
  <2> QED BY <2>1, <2>2, <2>3, <2>4, <2>5, <2>6, <2>7 DEF RankNext
<1>3. SearchInv => RankingIsRight
  BY DEF SearchInv, RankingIsRight, RightResults, Fulltext
<1> QED BY <1>1, <1>2, <1>3, PTL DEF RankSpec

=============================================================================
