----------------------- MODULE MCBookPipelineStore -----------------------
(* Instances of BookPipelineStore for TLC.                                 *)
EXTENDS BookPipelineStore

CONSTANTS e1, e2, r1, r2, poll, first, second

\* Two launcher processes: the second command of a kind runs in the second
\* one, and so does the poll.
MCInstanceOf == [p \in Command |-> IF p \in {e1, r1} THEN first ELSE second]
=============================================================================
