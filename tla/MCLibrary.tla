----------------------------- MODULE MCLibrary -----------------------------
(* What reads and writes a Zotero library beside the cleanup: the index, a    *)
(* search, the snapshot of a collection, the writes of the command line, and  *)
(* one worker that delivers books, each from initial states of its own.       *)
EXTENDS SearchIndex
VARIABLES desk, db, seen, reader, writes, store, tagged, query, changes,
          item, added, command, merged, wspent,
          doc, evidence, mirror, remote, source, name, worker, count

CONSTANTS Desks, p1, p2, w1

MCWidth == [m \in Models |-> IF m = "jina" THEN 2 ELSE 1]

S == INSTANCE CollectionSnapshot WITH
       WriteBound <- 2, Reads <- 4, Kinds <- {"none", "pdf"}, NoFile <- None
R == INSTANCE SearchRanking WITH
       Parents <- {"a", "b"}, ChunkBound <- 1, Changes <- 1, TopK <- 2, Pool <- 3
W == INSTANCE ZoteroWrites WITH
       Commands <- {1, 2}, Tags <- {"t"}, Attempts <- 2, EditBound <- 1, FaultBound <- 1,
       NoTag <- None, spent <- wspent
D == INSTANCE ConversionDelivery WITH
       Worker <- {w1}, Pdf <- {p1, p2}, Content <- {"c"}, Gone <- {},
       Parent <- [p \in {p1, p2} |-> "item"], Source0 <- [p \in {p1, p2} |-> "c"],
       Modes <- {"local", "upload", "verify"}, RunBound <- 1, ChildBound <- 3, FaultBound <- 2,
       Users <- {"delete"}, MayOutlive <- TRUE

snapVars == <<db, seen, reader, writes>>
rankVars == <<store, tagged, query, changes>>
writeVars == <<item, added, command, merged, wspent>>
deliveryVars == <<doc, evidence, mirror, remote, source, name, worker, count>>
others == <<desk, indexVars, snapVars, rankVars, writeVars>>
libraryVars == <<others, deliveryVars>>

LibraryInit ==
  /\ desk \in Desks
  /\ IndexInit /\ S!SnapInit /\ R!RankInit /\ W!WritesInit /\ D!Init
  /\ desk # "search" => /\ query.at = "filter" /\ query.mode = "vector" /\ ~query.filter /\ ~query.fulltext
                        /\ \A i \in DOMAIN store : store[i].chunks = 0 /\ ~store[i].tag
  /\ desk # "write" => item.tags = {}

LibraryNext ==
  /\ UNCHANGED desk
  /\ \/ desk = "index" /\ IndexNext /\ UNCHANGED <<snapVars, rankVars, writeVars, deliveryVars>>
     \/ desk = "snapshot" /\ S!SnapNext /\ UNCHANGED <<indexVars, rankVars, writeVars, deliveryVars>>
     \/ desk = "search" /\ R!RankNext /\ UNCHANGED <<indexVars, snapVars, writeVars, deliveryVars>>
     \/ desk = "write" /\ W!WritesNext /\ UNCHANGED <<indexVars, snapVars, rankVars, deliveryVars>>
     \/ desk = "delivery" /\ D!Next /\ UNCHANGED <<indexVars, snapVars, rankVars, writeVars>>

\* The fairness of ConversionDelivery!FairSpec, in the behaviours of the worker.
LibrarySpec ==
  /\ LibraryInit /\ [][LibraryNext]_libraryVars
  /\ WF_libraryVars(desk = "delivery" /\ D!Steps(w1) /\ UNCHANGED others)
  /\ \A p \in {p1, p2} :
       /\ SF_libraryVars(desk = "delivery" /\ D!Retry(p) /\ UNCHANGED others)
       /\ WF_libraryVars(desk = "delivery" /\ D!Sync(p) /\ UNCHANGED others)
       /\ WF_libraryVars(desk = "delivery" /\ D!Expire(p, "c") /\ UNCHANGED others)

\* Whoever reads or writes the library beside the index: a snapshot of one
\* moment, a ranking that keeps what both channels found, and writes of what
\* was read.
LibraryIsServed == S!SnapshotIsOneMoment /\ R!RankingIsRight /\ W!WritesAreRight

\* What was taken up is delivered in the end: see ConversionDelivery.
DeliveryEnds == desk = "delivery" => D!DeliveryEnds
=============================================================================
