----------------------------- MODULE FolderOcr -----------------------------
(* The converter of a folder of PDFs: each book is read from its text layer   *)
(* or, chunk by chunk, by Baidu, by several threads at once.  Everything a    *)
(* book leaves on disk hangs on one name derived from its file name: the      *)
(* output directory with its _state.json, from which a later run resumes, and *)
(* the chunk files and results below .temp.  Runs fail, die and are repeated; *)
(* between them the user adds files and changes the route of a book.          *)
EXTENDS Integers, Sequences, SequencesExt, FiniteSets, FiniteSetsExt

CONSTANTS
  Order,      \* the file names in sorted order
  Base,       \* Base[f]: safe_filename of the stem, folded: not one to one
  Chunks,     \* Chunks[f]: into how many chunks the pages of f are cut
  Early,      \* the files that are there from the start
  Late,       \* the files the user may add between runs
  Workers,    \* threads
  FolderFaults, EditBound,
  None

VARIABLES
  folder,   \* folder[f]: whether f is there, and the route the user or the sample gives it
  dir,      \* dir[n]: the output directory of the name n
  temp,     \* temp[n]: the chunk PDFs and the results below .temp, by number
  cli,      \* the run: its names, and where each book is
  count     \* faults and edits so far; jobs and changes of route of each book

folderVars == <<folder, dir, temp, cli, count>>

File == ToSet(Order)
Name == {<<Base[f], x>> : f \in File, x \in {None}} \cup {<<Base[f], f>> : f \in File}
ChunkNo == UNION {1 .. Chunks[f] : f \in File}
Own(f) == [c \in 1 .. Chunks[f] |-> <<f, c>>]

ASSUME FilesAreListed == /\ Order \in Seq(File) /\ Early \cup Late \subseteq File
                         /\ None \notin File \cup (File \X Nat)
ASSUME FolderIsBounded == /\ \A f \in File : Chunks[f] \in Nat
                          /\ Workers \in Nat /\ FolderFaults \in Nat /\ EditBound \in Nat

-----------------------------------------------------------------------------
(* Names and routes.                                                          *)

Rank(f) == SelectInSeq(Order, LAMBDA g : g = f)
Present == {f \in File : folder[f].here}

\* Mutant: every book is written under its plain name.
PlainNames == [f \in Present |-> <<Base[f], None>>]

\* assign_output_names: the first of those that collide keeps the plain name.
AssignNames ==
  [f \in Present |->
     LET before == {g \in Present : Base[g] = Base[f] /\ Rank(g) < Rank(f)}
     IN IF before = {} THEN <<Base[f], None>> ELSE <<Base[f], f>>]

\* No file that is added takes the plain name from one that sorts behind it.
NamesStay == \A f \in Late, g \in File :
               Base[g] = Base[f] /\ Rank(f) < Rank(g)
                 => \E h \in Early : Base[h] = Base[f] /\ Rank(h) < Rank(f)

NewDir == [done |-> {}, owner |-> None, text |-> <<>>, route |-> None, assets |-> FALSE]
NoTemp == [pdf |-> [c \in ChunkNo |-> None], jsonl |-> [c \in ChunkNo |-> None]]
Off == [on |-> FALSE, name |-> [f \in File |-> None], route |-> [f \in File |-> None],
        pc |-> [f \in File |-> "off"], c |-> [f \in File |-> 0],
        bytes |-> [f \in File |-> None], done |-> [f \in File |-> {}]]

FolderInit ==
  /\ \E r \in [File -> {"text", "ocr"}] :
       folder = [f \in File |-> [here |-> f \in Early, route |-> r[f]]]
  /\ dir = [n \in Name |-> NewDir]
  /\ temp = [n \in Name |-> NoTemp]
  /\ cli = Off
  /\ count = [faults |-> 0, edits |-> 0, jobs |-> [f \in File |-> 0], routes |-> [f \in File |-> 0]]

Faulty == count.faults < FolderFaults
BookAt(f, pc) == cli.pc[f] = pc
To(f, pc) == cli' = [cli EXCEPT !.pc[f] = pc]
Dir(f) == cli.name[f]

Busy == {f \in File : cli.pc[f] \notin {"off", "queued", "done", "failed"}}

\* main: names over the whole folder, then the routing plan, then the threads.
StartFolder ==
  /\ ~cli.on /\ Present # {}
  /\ LET names == AssignNames IN
     cli' = [Off EXCEPT !.on = TRUE,
               !.name = [f \in File |-> IF f \in Present THEN names[f] ELSE None],
               !.route = [f \in File |-> folder[f].route],
               !.pc = [f \in File |-> IF f \in Present THEN "queued" ELSE "off"]]
  /\ UNCHANGED <<folder, dir, temp, count>>

\* A book waits for a thread; its route was planned before.
StartBook(f) ==
  /\ BookAt(f, "queued") /\ Cardinality(Busy) < Workers
  /\ To(f, IF cli.route[f] = "text" THEN "text" ELSE "open")
  /\ UNCHANGED <<folder, dir, temp, count>>

-----------------------------------------------------------------------------
(* The text layer: extract_book_text.                                         *)

\* The sidecar of an earlier OCR run goes before the text is written ...
DropAssets(f) ==
  /\ BookAt(f, "text") /\ To(f, "write")
  /\ dir' = [dir EXCEPT ![Dir(f)].assets = FALSE]
  /\ UNCHANGED <<folder, temp, count>>

\* ... and the state that is written last remembers no chunk.
WriteText(f) ==
  /\ BookAt(f, "write") /\ To(f, "state")
  /\ dir' = [dir EXCEPT ![Dir(f)].text = << <<f, 0>> >>]
  /\ UNCHANGED <<folder, temp, count>>

TextState(f) ==
  /\ BookAt(f, "state") /\ To(f, "done")
  /\ dir' = [dir EXCEPT ![Dir(f)].owner = f, ![Dir(f)].done = {}, ![Dir(f)].route = "text"]
  /\ UNCHANGED <<folder, temp, count>>

-----------------------------------------------------------------------------
(* Remote OCR: process_book.                                                  *)

\* The state of another file is not resumed from; a state without owner is.
Resumed(f) == IF dir[Dir(f)].owner \in {None, f} THEN dir[Dir(f)].done ELSE {}

\* make_chunk_specs: a chunk file that is there already is taken for this book's.
Cut(f) == [c \in ChunkNo |-> IF c \in 1 .. Chunks[f] /\ temp[Dir(f)].pdf[c] = None THEN <<f, c>>
                             ELSE temp[Dir(f)].pdf[c]]

OpenBook(f) ==
  /\ BookAt(f, "open")
  /\ dir' = [dir EXCEPT ![Dir(f)].owner = f, ![Dir(f)].done = Resumed(f)]
  /\ temp' = [temp EXCEPT ![Dir(f)].pdf = Cut(f)]
  /\ cli' = [cli EXCEPT !.pc[f] = "chunk", !.done[f] = Resumed(f)]
  /\ UNCHANGED <<folder, count>>

Pending(f) == (1 .. Chunks[f]) \ cli.done[f]

\* No job number is kept: a run that dies while a job is out posts the chunk again.
SubmitChunk(f) ==
  /\ BookAt(f, "chunk") /\ Pending(f) # {}
  /\ LET c == Min(Pending(f)) IN
     cli' = [cli EXCEPT !.pc[f] = "poll", !.c[f] = c, !.bytes[f] = temp[Dir(f)].pdf[c]]
  /\ count' = [count EXCEPT !.jobs[f] = @ + 1]
  /\ UNCHANGED <<folder, dir, temp>>

\* A chunk that cannot be parsed (10005) is cut again with PyMuPDF and posted once more.
SubmitAgain(f) ==
  /\ BookAt(f, "chunk") /\ Pending(f) # {} /\ Faulty
  /\ LET c == Min(Pending(f)) IN
     /\ temp' = [temp EXCEPT ![Dir(f)].pdf[c] = <<f, c>>]
     /\ cli' = [cli EXCEPT !.pc[f] = "poll", !.c[f] = c, !.bytes[f] = <<f, c>>]
  /\ count' = [count EXCEPT !.jobs[f] = @ + 1, !.faults = @ + 1]
  /\ UNCHANGED <<folder, dir>>

DownloadChunk(f) ==
  /\ BookAt(f, "poll") /\ To(f, "save")
  /\ temp' = [temp EXCEPT ![Dir(f)].jsonl[cli.c[f]] = cli.bytes[f]]
  /\ UNCHANGED <<folder, dir, count>>

Save(f) ==
  /\ BookAt(f, "save")
  /\ cli' = [cli EXCEPT !.pc[f] = "drop", !.done[f] = @ \cup {cli.c[f]}]
  /\ dir' = [dir EXCEPT ![Dir(f)].done = @ \cup {cli.c[f]}]
  /\ UNCHANGED <<folder, temp, count>>

\* The chunk file goes when its result is safe.
DropChunk(f) ==
  /\ BookAt(f, "drop") /\ To(f, "chunk")
  /\ temp' = [temp EXCEPT ![Dir(f)].pdf[cli.c[f]] = None]
  /\ UNCHANGED <<folder, dir, count>>

\* The results in the order of their chunks.
AssembleBook(f) ==
  /\ BookAt(f, "chunk") /\ Pending(f) = {}
  /\ To(f, "done")
  /\ dir' = [dir EXCEPT ![Dir(f)].text = [c \in 1 .. Chunks[f] |-> temp[Dir(f)].jsonl[c]],
                        ![Dir(f)].route = "ocr", ![Dir(f)].assets = TRUE]
  /\ UNCHANGED <<folder, temp, count>>

\* A failed or stalled job, a refused submission, a lost download: the thread reports it.
BookFails(f) ==
  /\ f \in Busy /\ Faulty /\ To(f, "failed")
  /\ count' = [count EXCEPT !.faults = @ + 1]
  /\ UNCHANGED <<folder, dir, temp>>

EndRun ==
  /\ cli.on /\ \A f \in File : cli.pc[f] \in {"off", "done", "failed"}
  /\ cli' = Off
  /\ UNCHANGED <<folder, dir, temp, count>>

Die ==
  /\ cli.on /\ Busy # {} /\ Faulty
  /\ cli' = Off /\ count' = [count EXCEPT !.faults = @ + 1]
  /\ UNCHANGED <<folder, dir, temp>>

-----------------------------------------------------------------------------
(* The user, between runs: a run keeps to the names and routes it began with. *)

Add(f) ==
  /\ f \in Late \ Present /\ ~cli.on /\ folder' = [folder EXCEPT ![f].here = TRUE]
  /\ UNCHANGED <<dir, temp, cli, count>>

Reroute(f) ==
  /\ f \in Present /\ ~cli.on /\ count.edits < EditBound
  /\ folder' = [folder EXCEPT ![f].route = IF @ = "text" THEN "ocr" ELSE "text"]
  /\ count' = [count EXCEPT !.edits = @ + 1, !.routes[f] = @ + 1]
  /\ UNCHANGED <<dir, temp, cli>>

BookStep(f) == \/ StartBook(f) \/ DropAssets(f) \/ WriteText(f) \/ TextState(f) \/ OpenBook(f)
               \/ SubmitChunk(f) \/ DownloadChunk(f) \/ Save(f) \/ DropChunk(f) \/ AssembleBook(f)

FolderNext == \/ StartFolder \/ EndRun \/ Die
              \/ \E f \in File : BookStep(f) \/ SubmitAgain(f) \/ BookFails(f) \/ Add(f) \/ Reroute(f)

FolderSpec == FolderInit /\ [][FolderNext]_folderVars

(* The user repeats the run while a book is missing; threads and Baidu go on. *)
FolderFairness == /\ WF_folderVars(StartFolder) /\ WF_folderVars(EndRun)
                  /\ \A f \in File : WF_folderVars(BookStep(f))
FolderFairSpec == FolderSpec /\ FolderFairness

-----------------------------------------------------------------------------
(* Properties.                                                                *)

FolderTypeOK ==
  /\ \A n \in Name : /\ dir[n].owner \in File \cup {None} /\ dir[n].done \subseteq ChunkNo
                     /\ dir[n].done # {} => dir[n].owner # None
                     /\ \A c \in dir[n].done : temp[n].jsonl[c] # None
  /\ \A f \in Busy : Dir(f) \in Name /\ cli.done[f] \subseteq 1 .. Chunks[f]
  /\ Cardinality(Busy) <= Workers

\* A book that a run reports as done has its own text, all of it and of the planned
\* route, in the directory the run gave it, whichever other books have passed through
\* directories of a similar name.
TextIsItsOwn ==
  \A f \in File : BookAt(f, "done") =>
    /\ dir[Dir(f)].text = IF cli.route[f] = "text" THEN << <<f, 0>> >> ELSE Own(f)
    /\ dir[Dir(f)].route = cli.route[f]

\* A chunk is paid for once: more jobs of a book than chunks are the fault of a failure or
\* a death, which costs a book one job, or of a change of route.
ChunksPaidOnce ==
  \A f \in File : count.jobs[f] <= Chunks[f] * (1 + count.routes[f]) + count.faults

\* A book that has been read from its text layer has no pictures of an earlier OCR run.
SidecarBelongsToText ==
  \A f \in File : BookAt(f, "done") /\ cli.route[f] = "text" => ~dir[Dir(f)].assets

\* Every book of the folder is converted in the end.
FolderConverted ==
  \A f \in File : <>[](f \in Present => \E n \in Name : dir[n].owner = f /\ dir[n].text # <<>>)

\* The directory of a converted book holds its text and its pictures, paid once.
FolderIsRight == FolderTypeOK /\ TextIsItsOwn /\ ChunksPaidOnce /\ SidecarBelongsToText
=============================================================================
