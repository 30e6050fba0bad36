--------------------------- MODULE MCAdvanceStage ---------------------------
(* Instances of AdvanceStage for TLC.                                       *)
EXTENDS AdvanceStage

\* The stages whose failure leaves no file of the project half rewritten.
MCFailing == {"prepare", "translate", "expert_qa", "build_reading", "build_digest"}

\* Every advance ends, and with an operator who goes on the book is finished.
AdvancesLeadOn == AdvanceEnds /\ BookFinishes
=============================================================================
