----------------------------- MODULE LeasedJob -----------------------------
(***************************************************************************)
(* What the job store promises, without files, locks or revisions: one     *)
(* stage that is changed in single steps, started only by a command that   *)
(* is alive, finished only by the command that started it, and taken away  *)
(* from that command only when it is dead.                                 *)
(***************************************************************************)
CONSTANTS Command, NoOwner, MigratedOwner

VARIABLES
  status,  \* of the stage
  owner,   \* its execution_owner
  applied, \* the updates the job contains
  live     \* the commands that hold their execution lease

vars == <<status, owner, applied, live>>

Init ==
  /\ status \in {"ready", "running"} /\ owner = NoOwner
  /\ applied = {} /\ live = {}

\* An update of something else in the job.
Edit ==
  /\ \E update \in Command \X {"edit", "poll"} : applied' = applied \cup {update}
  /\ UNCHANGED <<status, owner, live>>

Start(p) ==
  /\ status \in {"ready", "failed"} /\ p \in live
  /\ status' = "running" /\ owner' = p
  /\ applied' = applied \cup {<<p, "start">>}
  /\ UNCHANGED live

Finish(p) ==
  /\ status = "running" /\ owner = p /\ p \in live
  /\ status' \in {"completed", "failed"} /\ owner' = NoOwner
  /\ applied' = applied \cup {<<p, "finish">>}
  /\ UNCHANGED live

\* A dead command's stage may be executed again.
Reclaim ==
  /\ status = "running" /\ owner \notin live
  /\ status' = "failed" /\ owner' = NoOwner
  /\ UNCHANGED <<applied, live>>

\* A stage that was RUNNING under the previous schema gets the owner that is
\* never alive.
Adopt ==
  /\ status = "running" /\ owner = NoOwner
  /\ owner' = MigratedOwner
  /\ UNCHANGED <<status, applied, live>>

\* Commands come and go.
LeasesChange ==
  /\ live' \in SUBSET Command
  /\ UNCHANGED <<status, owner, applied>>

Next ==
  \/ Edit \/ Reclaim \/ Adopt \/ LeasesChange
  \/ \E p \in Command : Start(p) \/ Finish(p)

Spec == Init /\ [][Next]_vars
=============================================================================
