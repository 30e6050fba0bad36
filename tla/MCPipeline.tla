----------------------------- MODULE MCPipeline -----------------------------
(* The two halves of the pipeline, each from initial states of its own: a     *)
(* durable collection from the route of its books to their handoff, by one    *)
(* command or by two, and the advance of one book from there on.              *)
EXTENDS MCAdvanceStage, CollectionRun

CONSTANTS Halves, r1, r2
VARIABLE half

\* A second instance of the collection: two commands at once, and no engine
\* without its credentials.
T == INSTANCE CollectionRun WITH
       Runner <- {r1, r2}, Tokens <- {"auto", "direct"}, Missing <- {}, Live <- {"ocr", "held"},
       Edits <- {"override", "text"}

pipelineVars == <<half, vars, collectionVars>>

PipelineInit ==
  /\ half \in Halves
  /\ Init
  /\ IF half = "commands" THEN T!CollectionInit ELSE CollectionInit
  /\ half = "advance" => \A b \in Child : books[b] = NewBook(TRUE, "auto")
  /\ half # "advance" => Init /\ job.mode = "fast" /\ job.maps = NoMaps

PipelineNext ==
  /\ UNCHANGED half
  /\ \/ half = "advance" /\ Next /\ UNCHANGED collectionVars
     \/ half = "collection" /\ CollectionNext /\ UNCHANGED vars
     \/ half = "commands" /\ T!CollectionNext /\ UNCHANGED vars

PipelineSpec == PipelineInit /\ [][PipelineNext]_pipelineVars

\* The fairness of CaredForSpec and of ServedSpec, each in its half.
PipelineFairSpec ==
  /\ PipelineSpec
  /\ \A p \in Command :
       /\ WF_pipelineVars(half = "advance" /\ Step(p) /\ UNCHANGED <<half, collectionVars>>)
       /\ WF_pipelineVars(half = "advance" /\ Begin(p) /\ UNCHANGED <<half, collectionVars>>)
  /\ WF_pipelineVars(half = "advance" /\ Recover /\ UNCHANGED <<half, collectionVars>>)
  /\ \A gate \in Gates :
       WF_pipelineVars(half = "advance" /\ ApproveGate(gate) /\ UNCHANGED <<half, collectionVars>>)
  /\ WF_pipelineVars(half = "advance" /\ AgentAnswers /\ UNCHANGED <<half, collectionVars>>)
  /\ \A p \in Runner :
       /\ WF_pipelineVars(half = "collection" /\ Turn(p) /\ UNCHANGED <<half, vars>>)
       /\ \A retry \in BOOLEAN :
            SF_pipelineVars(half = "collection" /\ Call(p, retry) /\ UNCHANGED <<half, vars>>)

\* With one command and with two, a book takes the route its user chose and no
\* stage of it is run twice at once.
CollectionInOrder ==
  IF half = "commands" THEN T!CollectionIsRight ELSE CollectionIsRight

\* Every command of a collection ends, and every book that may be served is.
CollectionEnds == half = "collection" => RunsEnd /\ BooksAreServed

AdvancesEnd == half = "advance" => AdvancesLeadOn
=============================================================================
