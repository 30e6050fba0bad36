------------------------ MODULE MCConversionDelivery ------------------------
(* Instances of ConversionDelivery for TLC. *)
EXTENDS ConversionDelivery, TLC

CONSTANTS w1, w2, p1, p2, item, c1, c2

\* The bytes that may replace those of p1 are those of a PDF that is gone.
OneSource == [p \in Pdf |-> IF p = p1 THEN c1 ELSE c2]
OneItem == [p \in Pdf |-> item]
WorkerSymmetry == Permutations(Worker)
=============================================================================
