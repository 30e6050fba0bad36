---------------------------- MODULE StageRules ----------------------------
(***************************************************************************)
(* The rules every saved job obeys (book_pipeline.rs): the order of a      *)
(* child's stages, which status changes a save may make, which statuses    *)
(* may follow an unfinished stage, and which stage an advance runs next.   *)
(* No state: the modules of the pipeline share these definitions.          *)
(*                                                                         *)
(* A stage is a record [status, attempt, hashes, approved, owner]:         *)
(* "hashes" is the map input_hashes as a set of <<key, value>> pairs,      *)
(* "approved" says that approval_id is set, "owner" is execution_owner.    *)
(***************************************************************************)
EXTENDS Integers

CONSTANTS
  NoOwner,   \* execution_owner is absent
  AgentOwner \* an owner with the prefix of an agent handoff

\* ordered_stage_index
Order ==
  [route |-> 0, extract |-> 1, index |-> 2, handoff |-> 3, split |-> 4,
   prepare |-> 5, approve_translation |-> 6, translate |-> 7, expert_qa |-> 8,
   approve_promotion |-> 9, promote |-> 10, build_reading |-> 11,
   validate_reading |-> 12, build_digest |-> 13]

StageId == DOMAIN Order

Gates == {"approve_translation", "approve_promotion"}

After(s, t) == Order[s] > Order[t]

Status == {"pending", "ready", "running", "waiting_for_approval", "blocked",
           "failed", "completed", "skipped"}

Done == {"completed", "skipped"}

SoleHash(hashes, key) == \E h \in hashes : hashes = {h} /\ h[1] = key

\* is_agent_handoff_waiting
AgentWaiting(id, stage) ==
  /\ stage.status = "blocked"
  /\ id \in {"translate", "expert_qa"}
  /\ stage.owner = AgentOwner

\* has_valid_child_execution_owner
ValidOwner(id, stage) ==
  CASE stage.status = "running" -> stage.owner # NoOwner
    [] stage.status = "blocked" -> stage.owner = NoOwner \/ AgentWaiting(id, stage)
    [] OTHER -> stage.owner = NoOwner

\* The part of validate_state that concerns one child: owners, and no stage
\* active or finished behind one that is neither completed nor skipped.
ValidChild(stages) ==
  /\ \A s \in DOMAIN stages : ValidOwner(s, stages[s])
  /\ \A s, t \in DOMAIN stages :
       After(s, t) /\ stages[t].status \notin Done
         => stages[s].status \in {"pending", "skipped"}

PlainTransitions ==
  ({"pending"} \X {"ready", "running", "blocked", "skipped"})
    \cup ({"ready"} \X {"running", "blocked", "skipped"})
    \cup ({"running"} \X {"completed", "failed", "blocked", "waiting_for_approval"})
    \cup ({"waiting_for_approval"} \X {"completed", "blocked", "ready"})
    \cup ({"blocked"} \X {"ready", "skipped"})
    \cup ({"failed"} \X {"ready", "running", "skipped"})

\* A stage may fall back to pending when its only hash says why.
AuditedInvalidation(id, next, policy) ==
  \/ /\ After(id, "approve_translation")
     /\ SoleHash(next.hashes, "translationApprovalBindingSha256")
  \/ /\ After(id, "split")
     /\ next.hashes = {<<"splitPolicyVersion", policy>>}
  \/ /\ After(id, "extract")
     /\ SoleHash(next.hashes, "workerEvidenceInvalidation")

\* is_allowed_stage_transition.  A change of input_hashes is what justifies
\* leaving completed, ready or waiting backwards.
IsAllowedTransition(id, prev, next, policy) ==
  LET changed   == prev.hashes # next.hashes
      from(S)   == prev.status \in S
      toPending == next.status = "pending"
      evidence  == After(id, "extract")
                   /\ SoleHash(next.hashes, "workerEvidenceInvalidation")
  IN  IF \/ toPending /\ evidence
         \/ toPending /\ from({"ready", "failed", "blocked"})
            /\ AuditedInvalidation(id, next, policy)
      THEN changed
      ELSE IF id \in Gates /\ from({"ready"}) /\ next.status = "completed"
      THEN next.approved
      ELSE IF from({"completed"}) /\ next.status # "completed"
      THEN changed /\ next.status \in {"pending", "ready", "blocked", "skipped"}
      ELSE IF from({"ready", "waiting_for_approval"}) /\ toPending
      THEN changed
      ELSE \/ prev.status = next.status
           \/ <<prev.status, next.status>> \in PlainTransitions
           \/ AgentWaiting(id, prev) /\ next.status = "running"
           \/ id = "index" /\ from({"ready"}) /\ next.status = "failed"

\* The statuses in which deterministic_stage_to_run takes a stage; the gates
\* and the stages before split are never run by an advance.
RunnableStatus ==
  [split |-> {"ready", "failed"}, prepare |-> {"ready", "failed", "pending"},
   translate |-> {"ready", "failed"}]

Runnable(id, stage) ==
  \/ /\ id \in DOMAIN RunnableStatus
     /\ stage.status \in RunnableStatus[id]
  \/ /\ id \in {"expert_qa", "promote", "build_reading", "validate_reading", "build_digest"}
     /\ stage.status \in {"pending", "ready", "failed"}
  \/ AgentWaiting(id, stage)

\* The first unfinished stage, if an advance may run it; a set of at most one.
StageToRun(stages) ==
  {s \in DOMAIN stages :
     /\ stages[s].status \notin Done
     /\ Runnable(s, stages[s])
     /\ \A t \in DOMAIN stages : After(s, t) => stages[t].status \in Done}
=============================================================================
