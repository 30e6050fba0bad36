----------------------------- MODULE MCCleanup -----------------------------
(* The batches over a Zotero library, each from initial states of its own:    *)
(* conversion and cleanup by size, MinerU for one field, and the replacement  *)
(* of what MinerU made.                                                       *)
EXTENDS SourceCleanup, MineruReplacement, LawPolitics
VARIABLE batch

CONSTANT Batches

MCOrder == <<"p", "q">>
MCPolicies == [p |-> "keep", q |-> "delete"]
MCHasText == {"q"}

MCOld == <<"m", "n", "o">>
MCSource == [m |-> "p", n |-> "q", o |-> "p"]
MCParent == [m |-> "b", n |-> "b", o |-> Absent]

batchVars == <<batch, cleanupVars, replaceVars, lawVars>>

BatchInit ==
  /\ batch \in Batches
  /\ Init /\ RInit /\ LInit
  /\ batch # "sources" => /\ script = CHOOSE s \in Scripts : TRUE
                          /\ \A p \in Pdf : ~launcher[p].tracked
  /\ \A p, q \in Pdf : p # q => ~launcher[p].tracked \/ ~launcher[q].tracked
  /\ \A p \in Pdfs : batch # "replace" \/ p = "q" => ~paddle[p].row

BatchNext ==
  /\ UNCHANGED batch
  /\ \/ batch = "sources" /\ Next /\ UNCHANGED <<replaceVars, lawVars>>
     \/ batch = "replace" /\ RNext /\ UNCHANGED <<cleanupVars, lawVars>>
     \/ batch = "law" /\ LNextState /\ UNCHANGED <<cleanupVars, replaceVars>>

BatchSpec == BatchInit /\ [][BatchNext]_batchVars

\* Each script is started again and again, and a lease runs out in time.
BatchFairSpec ==
  /\ BatchSpec
  /\ WF_batchVars(batch = "sources" /\ Works /\ UNCHANGED <<batch, replaceVars, lawVars>>)
  /\ \A w \in Worker :
       WF_batchVars(batch = "replace" /\ RStep(w) /\ UNCHANGED <<batch, cleanupVars, lawVars>>)
  /\ \A m \in Md :
       WF_batchVars(batch = "replace" /\ RunsOut(m) /\ UNCHANGED <<batch, cleanupVars, lawVars>>)

\* Every source is delivered in the end, and what was finished stays finished.
Delivered ==
  /\ batch = "sources" => AllAreDelivered
  /\ FinishedStands /\ ResultStands
=============================================================================
