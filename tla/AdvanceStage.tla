---------------------------- MODULE AdvanceStage ----------------------------
(***************************************************************************)
(* Advancing one book from the split to the digest: advance_job_stage and  *)
(* the operator commands that meet it (book_pipeline.rs).                  *)
(*                                                                         *)
(* An advance is a list of phases.  Each loads the job, changes it and     *)
(* saves it: one step here, because a save based on an old revision is     *)
(* refused (BookPipelineStore).  Between two phases other commands, the    *)
(* operator and an editor of the project's files may act.  The work of a   *)
(* stage runs on the snapshot its start saved, and its outcome is recorded *)
(* in whatever the job has become by then.                                 *)
(*                                                                         *)
(* Texts, maps and approvals are abstracted to what they were made from: a *)
(* "binding" stands for the hash of everything an approval covers.         *)
(***************************************************************************)
EXTENDS StageRules

CONSTANTS
  Command,         \* the advances that may be under way at once
  Config, Pack,    \* provider configurations and prompt packs
  Policy, OldPolicy, \* SPLIT_POLICY_VERSION of this build and of an older one
  Modes,           \* translation modes: in "fast" a provider translates, in "expert"
                   \* an agent
  DigestMode,      \* TRUE: the digest is wanted
  AutoApprove,     \* TRUE: the fake fixture, whose first gate approves itself
  HasSibling,      \* TRUE: the job has another child
  Failing,         \* the stages whose work may fail
  MayAbort,        \* TRUE: an advance may end between any two steps
  Editable,        \* what may change under the pipeline: "source", "maps", "text"
  MaxAttempts,     \* stage_max_attempts
  AttemptBound,    \* no advance or approval begins after so many attempts
  EditBound        \* changes by the operator or an editor

ASSUME AdvanceAssumption ==
  /\ MaxAttempts \in Nat \ {0} /\ AttemptBound \in Nat /\ EditBound \in Nat
  /\ {NoOwner, AgentOwner} \cap Command = {} /\ NoOwner # AgentOwner
  /\ Policy # OldPolicy
  /\ Config # {} /\ Pack # {}
  /\ Modes \subseteq {"fast", "expert"} /\ (AutoApprove => Modes = {"fast"})
  /\ {DigestMode, AutoApprove, HasSibling, MayAbort} \subseteq BOOLEAN

VARIABLES
  job,     \* the saved child, with the fields of its job that matter here
  files,   \* the project directory: source, publication map, translated text,
           \* and the agent handoffs answered there
  cmd,     \* the advances under way
  live,    \* the commands that hold their execution lease
  edits,   \* changes made so far (bounded by EditBound)
  refused  \* the saves the store's rules refused; for the properties

vars == <<job, files, cmd, live, edits, refused>>

\* The stages an advance runs or waits for; the earlier ones are completed.
Chain == {s \in StageId : Order[s] >= Order["split"]}

\* A text is told apart by who wrote it, from which source and with what.
NoText == <<"none", 0, "none">>

\* A publication map is told apart by who wrote it and from what.
Content(by, source, text) == [by |-> by, source |-> source, text |-> text]
NoMaps == [stage |-> "none", content |-> Content("none", 0, NoText)]

PolicyHash == {<<"splitPolicyVersion", Policy>>}

Pending(hashes) ==
  [status |-> "pending", attempt |-> 0, hashes |-> hashes, approved |-> FALSE,
   owner |-> NoOwner]

-----------------------------------------------------------------------------
(* What the phases compute from a job.                                     *)

Active(stage, id) ==
  stage.status \in {"running", "waiting_for_approval"} \/ AgentWaiting(id, stage)

\* Mutant: a stage that waits for an agent does not count as active.
LaterRunning(j, s) == \E t \in Chain : After(t, s) /\ j.stages[t].status = "running"

\* Some later stage is at work, or an agent is.
LaterActive(j, s) == \E t \in Chain : After(t, s) /\ Active(j.stages[t], t)

\* translation_mode
Expert(j) == j.mode = "expert"

\* invalidate_completed_downstream
InvalidateCompleted(stages, s) ==
  [t \in Chain |->
     IF /\ After(t, s)
        /\ \/ stages[t].status = "completed"
           \/ t \in Gates /\ stages[t].status \in {"ready", "waiting_for_approval"}
     THEN [Pending({}) EXCEPT !.attempt = stages[t].attempt]
     ELSE stages[t]]

\* Mutant: only the stages that did not finish are rolled back.
InvalidateUnfinished(j) ==
  [j EXCEPT !.stages = [t \in Chain |->
                          IF After(t, "split") /\ j.stages[t].status \notin Done
                          THEN Pending(PolicyHash) ELSE j.stages[t]],
            !.maps = IF @.stage = "promote" THEN NoMaps ELSE @,
            !.units = FALSE, !.issued = {}]

\* invalidate_all_downstream, after split: the stages and their artifacts.
InvalidateAll(j) ==
  [j EXCEPT !.stages = [t \in Chain |->
                          IF After(t, "split") /\ j.stages[t].status # "skipped"
                          THEN Pending(PolicyHash) ELSE j.stages[t]],
            !.maps = IF @.stage = "promote" THEN NoMaps ELSE @,
            !.units = FALSE, !.issued = {}]

SetHash(hashes, key, value) == {h \in hashes : h[1] # key} \cup {<<key, value>>}

\* validated_structure_maps
MapsValid(j, producer) ==
  /\ j.maps.stage = producer
  /\ j.maps.content = files.maps
  /\ j.maps.content.source = files.source

Completed(j, s) == j.stages[s].status = "completed"

\* translation_approval_binding: what the first approval covers, where it can
\* be computed at all.
CanBindTranslation(j) ==
  Completed(j, "split") /\ Completed(j, "prepare") /\ j.units /\ MapsValid(j, "split")

TranslationBinding(j) ==
  {<<"approvalBindingSha256", [config |-> j.config, pack |-> j.pack, source |-> files.source]>>}

\* promotion_approval_binding
CanBindPromotion(j) ==
  /\ Completed(j, "translate") /\ Completed(j, "expert_qa") /\ MapsValid(j, "split")
  /\ <<"expert_qa", files.text>> \in j.issued

PromotionBinding(j) ==
  {<<"approvalBindingSha256", [config |-> j.config, pack |-> j.pack,
                               maps |-> files.maps, text |-> files.text]>>}

HasRequest(stage) == \E h \in stage.hashes : h[1] = "approvalBindingSha256"

ReadyGate(j, gate, binding) ==
  [j EXCEPT !.stages[gate] =
     [@ EXCEPT !.status = "ready", !.hashes = binding, !.approved = FALSE, !.owner = NoOwner]]

NeedsReadying(stage, binding) ==
  \/ stage.status = "pending"
  \/ stage.hashes # binding /\ stage.status \in {"ready", "waiting_for_approval", "completed"}

\* ready_translation_approval_gate, with the rollback of everything that was
\* done under the previous binding; the job itself where it answers false.
ReadyTranslation(j) ==
  LET gate    == j.stages["approve_translation"]
      binding == TranslationBinding(j)
      changed == gate.hashes # binding
      rolled  == InvalidateCompleted(j.stages, "prepare")
      audit   == {<<"translationApprovalBindingSha256", binding>>}
      reset   == [t \in Chain |->
        IF t = "build_digest"
        THEN [rolled[t] EXCEPT !.status = IF DigestMode THEN "pending" ELSE "skipped",
                               !.hashes = {}, !.owner = NoOwner]
        ELSE IF After(t, "approve_translation") /\ rolled[t].status \in {"ready", "failed", "blocked"}
        THEN [Pending(audit) EXCEPT !.attempt = rolled[t].attempt]
        ELSE rolled[t]]
  IN  IF \/ ~CanBindTranslation(j) \/ ~NeedsReadying(gate, binding)
         \/ changed /\ LaterActive(j, "approve_translation")
      THEN j
      ELSE ReadyGate(IF changed THEN [j EXCEPT !.stages = reset, !.refs = {}] ELSE j,
                     "approve_translation", binding)

\* ready_promotion_approval_gate
ReadyPromotion(j) ==
  LET gate    == j.stages["approve_promotion"]
      binding == PromotionBinding(j)
      changed == gate.hashes # binding
      later   == \E t \in Chain : /\ After(t, "approve_promotion")
                                  /\ j.stages[t].status \notin {"pending", "skipped"}
  IN  IF ~CanBindPromotion(j) \/ ~NeedsReadying(gate, binding) \/ (changed /\ later)
      THEN j
      ELSE ReadyGate(IF changed
                     THEN [j EXCEPT !.stages = InvalidateCompleted(@, "expert_qa"),
                                    !.refs = @ \ {"approve_promotion"}]
                     ELSE j,
                     "approve_promotion", binding)

Granted(stage) == [stage EXCEPT !.status = "completed", !.attempt = @ + 1, !.approved = TRUE]

\* Mutant: the first approval does not ready the translation.
ApproveGateOnly(j, gate) ==
  [j EXCEPT !.stages[gate] = Granted(j.stages[gate]), !.refs = @ \cup {gate}]

\* The change approve_translation_gate and approve_promotion_gate make.
Approve(j, gate) ==
  LET stages == [j.stages EXCEPT ![gate] = Granted(j.stages[gate])]
  IN  [j EXCEPT
        !.stages = IF gate = "approve_translation" /\ stages["translate"].status = "pending"
                   THEN [stages EXCEPT !["translate"].status = "ready"] ELSE stages,
        !.refs = @ \cup {gate}]

MayApprove(j, gate) ==
  /\ j.stages[gate].status = "ready" /\ HasRequest(j.stages[gate])
  /\ IF gate = "approve_translation"
     THEN CanBindTranslation(j) /\ j.stages[gate].hashes = TranslationBinding(j)
     ELSE CanBindPromotion(j) /\ j.stages[gate].hashes = PromotionBinding(j)

\* Mutant: the approval is looked up, what it covers is not compared.
ApprovedOnce(j, gate) ==
  /\ Completed(j, gate) /\ j.stages[gate].approved /\ gate \in j.refs
  /\ IF gate = "approve_translation" THEN CanBindTranslation(j) ELSE MapsValid(j, "split")

\* translation_approval_input_hashes and promotion_approval_input_hashes: the
\* approval is there and covers what the work is about to use.
ApprovedFor(j, gate) ==
  /\ Completed(j, gate) /\ j.stages[gate].approved /\ gate \in j.refs
  /\ IF gate = "approve_translation"
     THEN CanBindTranslation(j) /\ j.stages[gate].hashes = TranslationBinding(j)
     ELSE CanBindPromotion(j) /\ j.stages[gate].hashes = PromotionBinding(j)

-----------------------------------------------------------------------------
(* Loads and saves.                                                        *)

\* Mutant: every RUNNING stage counts as interrupted, whoever executes it.
OrphansByStatus == {s \in Chain : job.stages[s].status = "running"}

Orphans == {s \in Chain : /\ job.stages[s].status = "running"
                          /\ job.stages[s].owner \notin live}

\* Mutant: the transitions are not validated.
SavableByOrder(new) == ValidChild(new.stages)

\* validate_state and validate_state_transitions, for this child.
Savable(new) ==
  /\ ValidChild(new.stages)
  /\ \A s \in Chain : IsAllowedTransition(s, job.stages[s], new.stages[s], Policy)

NoResult == [kind |-> "none", hashes |-> {}, evidence |-> {}, retryable |-> FALSE]

NewJob(mode, digest) ==
  [mode |-> mode,
   stages |-> [s \in Chain |->
                 IF s = "build_digest" /\ ~digest
                 THEN [Pending({}) EXCEPT !.status = "skipped"]
                 ELSE IF s = "split" THEN [Pending({}) EXCEPT !.status = "ready"]
                 ELSE Pending({})],
   config |-> CHOOSE c \in Config : TRUE, pack |-> CHOOSE k \in Pack : TRUE,
   refs |-> {}, maps |-> NoMaps, units |-> FALSE, issued |-> {}]

Idle == [at |-> "idle", invalidate |-> FALSE, retrying |-> FALSE, stage |-> "none",
         seen |-> NewJob("none", DigestMode), result |-> NoResult]

\* The command returns, or fails: its store is dropped, and its lease with it.
End(p) ==
  /\ cmd' = [cmd EXCEPT ![p] = Idle]
  /\ live' = live \ {p}

GoTo(p, at) == cmd' = [cmd EXCEPT ![p].at = at] /\ UNCHANGED live

Unchanged == UNCHANGED <<job, files, edits, refused>>

\* One phase: with nothing to change it goes on to the phase "next"; otherwise
\* it saves and goes on, or stops the command.
Phase(p, new, name, stop, next) ==
  /\ UNCHANGED <<files, edits>>
  /\ \/ /\ new = job
        /\ GoTo(p, next) /\ UNCHANGED <<job, refused>>
     \/ /\ new # job /\ Savable(new)
        /\ job' = new /\ UNCHANGED refused
        /\ IF stop THEN End(p) ELSE GoTo(p, next)
     \/ /\ new # job /\ ~Savable(new)
        /\ refused' = refused \cup {name} /\ UNCHANGED job
        /\ End(p)

Recovered ==
  [job EXCEPT !.stages = [s \in Chain |->
     IF s \in Orphans
     THEN [job.stages[s] EXCEPT !.status = "failed", !.owner = NoOwner]
     ELSE job.stages[s]]]

\* A load that finds a RUNNING stage without a living owner.
Recover ==
  /\ Orphans # {} /\ job' = Recovered
  /\ UNCHANGED <<files, cmd, live, edits, refused>>

At(p, at) == cmd[p].at = at /\ Orphans = {}

-----------------------------------------------------------------------------
(* The phases of an advance.                                               *)

\* book_pipeline_advance, with or without the permission to invalidate.
Begin(p) ==
  /\ cmd[p].at = "idle"
  /\ \A s \in Chain : job.stages[s].attempt < AttemptBound
  /\ \E invalidate \in BOOLEAN :
       cmd' = [cmd EXCEPT ![p] = [Idle EXCEPT !.at = "freshness", !.invalidate = invalidate]]
  /\ Unchanged /\ UNCHANGED live

\* evaluate_split_freshness: what to do about the split, if anything.
FreshnessAction(invalidate) ==
  LET split         == job.stages["split"]
      policyChanged == <<"splitPolicyVersion", Policy>> \notin split.hashes
      sourceChanged == <<"source", files.source>> \notin split.hashes
      running       == \E t \in Chain : /\ After(t, "split")
                                        /\ \/ job.stages[t].status = "running"
                                           \/ AgentWaiting(t, job.stages[t])
      committed     == \E t \in Chain : After(t, "split") /\ Completed(job, t)
  IN  IF \/ split.status \notin {"completed", "blocked"}
         \/ (policyChanged \/ sourceChanged) /\ running
      THEN "none"
      ELSE IF split.status = "blocked" THEN IF invalidate THEN "wipe" ELSE "none"
      ELSE IF ~policyChanged /\ ~sourceChanged THEN "none"
      ELSE IF ~sourceChanged \/ invalidate THEN "wipe"
      ELSE IF committed THEN "block" ELSE "rerun"

SplitReset(j, status, hashes) ==
  [j EXCEPT !.stages["split"] = [@ EXCEPT !.status = status, !.hashes = hashes, !.owner = NoOwner]]

\* apply_split_freshness
Freshened(action) ==
  LET rolled == IF action = "rerun"
                THEN [job EXCEPT !.stages = InvalidateCompleted(@, "split")]
                ELSE InvalidateAll(job)
      source == SetHash(job.stages["split"].hashes, "source", files.source)
      hashes == IF action = "wipe" THEN SetHash(source, "splitPolicyVersion", Policy) ELSE source
  IN  SplitReset(rolled, IF action = "block" THEN "blocked" ELSE "ready", hashes)

\* Phase 0
SplitFreshness(p) ==
  /\ At(p, "freshness")
  /\ LET action == FreshnessAction(cmd[p].invalidate) IN
     Phase(p, IF action = "none" THEN job ELSE Freshened(action),
           "freshness", action = "block", "maps")

\* invalidate_drifted_structure_maps: the maps on disk are not those of the
\* stage that wrote them last, and everything is rolled back to the split.
MapsDrifted ==
  /\ Completed(job, "split")
  /\ ~MapsValid(job, IF Completed(job, "promote") THEN "promote" ELSE "split")

RolledBack(invalidate) ==
  LET hashes == SetHash(job.stages["split"].hashes, "structureMapDriftSha256",
                        <<job.maps.content, files.maps>>)
  IN  SplitReset([InvalidateAll(job) EXCEPT !.refs = {}],
                 IF invalidate THEN "ready" ELSE "blocked", hashes)

\* Phase 0.0625
StructureMaps(p) ==
  /\ At(p, "maps")
  /\ Phase(p, IF MapsDrifted THEN RolledBack(cmd[p].invalidate) ELSE job,
           "maps", ~cmd[p].invalidate, "scope")

\* reconcile_prepared_unit_scope: what is pending from the translation on gets
\* the present policy, and loses its artifacts.
ScopeReconciled ==
  LET pending == {t \in Chain : /\ Order[t] >= Order["translate"]
                                /\ job.stages[t].status = "pending"}
  IN  [job EXCEPT
         !.stages = [t \in Chain |-> IF t \in pending THEN Pending(PolicyHash)
                                     ELSE job.stages[t]],
         !.maps   = IF @.stage \in pending THEN NoMaps ELSE @,
         !.issued = {i \in @ : i[1] \notin pending}]

\* Phase 0.125
UnitScope(p) ==
  /\ At(p, "scope")
  /\ Phase(p, IF job.units THEN ScopeReconciled ELSE job, "scope", FALSE, "qa")

\* invalidate_stale_expert_qa: the text reviewed is not the text that is there.
QaIsStale ==
  /\ Completed(job, "expert_qa")
  /\ <<"text", files.text>> \notin job.stages["expert_qa"].hashes

QaReopened ==
  LET reopened == [job.stages["expert_qa"] EXCEPT !.status = "ready", !.owner = NoOwner,
                                                  !.hashes = {<<"invalidatedUnit", files.text>>}]
  IN  [job EXCEPT
         !.stages = [InvalidateCompleted(job.stages, "expert_qa") EXCEPT !["expert_qa"] = reopened],
         !.refs = @ \ {"approve_promotion"}]

\* Phase 0.25
StaleQa(p) ==
  /\ At(p, "qa")
  /\ Phase(p, IF QaIsStale THEN QaReopened ELSE job, "qa", FALSE, "translation_gate")

\* Phase 0.5.  A gate that was readied ends the advance; the fake fixture's
\* advance starts over and finds a gate it approves itself.
TranslationGate(p) ==
  /\ At(p, "translation_gate")
  /\ LET readied == ReadyTranslation(job)
         self    == AutoApprove /\ MayApprove(job, "approve_translation") IN
     IF readied # job
     THEN Phase(p, readied, "translation_gate", ~AutoApprove, "freshness")
     ELSE Phase(p, IF self THEN Approve(job, "approve_translation") ELSE job,
                "translation_gate", FALSE, "promotion_gate")

\* Phase 0.75
PromotionGate(p) ==
  /\ At(p, "promotion_gate")
  /\ Phase(p, ReadyPromotion(job), "promotion_gate", TRUE, "start")

\* start_stage
Started(p, s) ==
  [job EXCEPT !.stages[s] =
     [job.stages[s] EXCEPT !.status = "running", !.attempt = job.stages[s].attempt + 1,
                           !.owner = p]]

\* Phase 1: a fresh load decides which stage runs; a retry comes straight here.
StartStage(p) ==
  /\ At(p, "start")
  /\ IF StageToRun(job.stages) = {}
     THEN End(p) /\ UNCHANGED <<job, refused>>
     ELSE \E s \in StageToRun(job.stages) :
       LET new == Started(p, s) IN
       IF Savable(new)
       THEN /\ job' = new /\ UNCHANGED refused
            /\ live' = live \cup {p}
            /\ cmd' = [cmd EXCEPT ![p] = [@ EXCEPT !.at = "work", !.stage = s, !.seen = new]]
       ELSE End(p) /\ refused' = refused \cup {"start"} /\ UNCHANGED job
  /\ UNCHANGED <<files, edits>>

-----------------------------------------------------------------------------
(* Phase 2: the work, on the snapshot that was saved, in the files as they *)
(* are.  "error" leaves the hashes of the stage alone; "failed" is an      *)
(* outcome with evidence.                                                  *)

Working(p, s) == cmd[p].at = "work" /\ cmd[p].stage = s

\* safe_error_from_message: a failure of QA is not retried, and neither is one
\* whose message mentions it.
Retryable(kind, s) ==
  IF kind \in {"failed", "error"} /\ s # "expert_qa" THEN BOOLEAN ELSE {FALSE}

\* "evidence" is what replaces the artifacts of the stage: a handoff or a map.
Finish(p, kind, hashes, evidence) ==
  \E retryable \in Retryable(kind, cmd[p].stage) :
    cmd' = [cmd EXCEPT ![p] = [@ EXCEPT !.at = "record",
              !.result = [kind |-> kind, hashes |-> hashes, evidence |-> evidence,
                          retryable |-> retryable]]]

\* run_split_stage
RunSplit(p) ==
  /\ Working(p, "split")
  /\ LET maps == Content("split", files.source, NoText) IN
     /\ files' = [files EXCEPT !.maps = maps]
     /\ Finish(p, "completed", PolicyHash \cup {<<"source", files.source>>}, {maps})
  /\ UNCHANGED <<job, live, edits, refused>>

\* run_prepare_stage
RunPrepare(p) ==
  /\ Working(p, "prepare")
  /\ IF MapsValid(cmd[p].seen, "split")
     THEN Finish(p, "completed", {<<"maps", files.maps>>}, {})
     ELSE Finish(p, "error", {}, {})
  /\ Unchanged /\ UNCHANGED live

\* The handoff document of the translation names what the agent works from.
Handoff(j) == <<"translate", [source |-> files.source, pack |-> j.pack]>>

\* run_translate_stage: the provider translates what the approval covers.
RunTranslate(p) ==
  /\ Working(p, "translate") /\ ~Expert(cmd[p].seen)
  /\ LET seen == cmd[p].seen IN
     IF ApprovedFor(seen, "approve_translation")
     THEN \/ /\ files' = [files EXCEPT !.text = <<"provider", files.source, seen.config>>]
             /\ Finish(p, "completed", TranslationBinding(seen), {})
          \/ /\ "translate" \in Failing \* some unit failed
             /\ Finish(p, "failed", TranslationBinding(seen), {}) /\ UNCHANGED files
     ELSE Finish(p, "error", {}, {}) /\ UNCHANGED files
  /\ UNCHANGED <<job, live, edits, refused>>

\* Mutant: any text found in the project is accepted, without its receipt.
AcceptAnyText(p) ==
  /\ Working(p, "translate") /\ Expert(cmd[p].seen)
  /\ LET seen    == cmd[p].seen
         handoff == Handoff(seen)
         hashes  == TranslationBinding(seen) \cup {<<"translationHandoffSha256", handoff>>}
     IN  IF ~ApprovedFor(seen, "approve_translation") THEN Finish(p, "error", {}, {})
         ELSE Finish(p, IF handoff \in seen.issued /\ files.text # NoText
                        THEN "completed" ELSE "waiting", hashes, {handoff})
  /\ Unchanged /\ UNCHANGED live

\* run_expert_translate_stage: a handoff is written, and its answer accepted
\* by a later run, if the job had registered that very handoff.
RunExpertTranslate(p) ==
  /\ Working(p, "translate") /\ Expert(cmd[p].seen)
  /\ LET seen     == cmd[p].seen
         handoff  == Handoff(seen)
         hashes   == TranslationBinding(seen) \cup {<<"translationHandoffSha256", handoff>>}
         answered == handoff \in seen.issued \cap files.answers /\ files.text # NoText
     IN  IF ~ApprovedFor(seen, "approve_translation") THEN Finish(p, "error", {}, {})
         ELSE Finish(p, IF answered THEN "completed" ELSE "waiting", hashes, {handoff})
  /\ Unchanged /\ UNCHANGED live

\* run_expert_qa_stage.  A review is discarded unless the job had registered
\* the handoff for the present text; a failed automatic check removes it.
RunQa(p) ==
  /\ Working(p, "expert_qa")
  /\ LET handoff == <<"expert_qa", files.text>>
         issued  == handoff \in cmd[p].seen.issued
         hashes  == {<<"text", files.text>>}
     IN  \/ /\ "expert_qa" \in Failing
            /\ Finish(p, "failed", hashes, {}) /\ UNCHANGED files
         \/ /\ files' = IF issued THEN files ELSE [files EXCEPT !.answers = @ \ {handoff}]
            /\ Finish(p, IF issued /\ handoff \in files.answers THEN "completed" ELSE "waiting",
                      hashes, {handoff})
  /\ UNCHANGED <<job, live, edits, refused>>

\* run_promote_stage: the publication map is rewritten in place, before the
\* result is recorded; what follows may still fail.
RunPromote(p) ==
  /\ Working(p, "promote")
  /\ LET seen == cmd[p].seen
         maps == Content("promote", files.source, files.text) IN
     IF ApprovedFor(seen, "approve_promotion")
     THEN /\ files' = [files EXCEPT !.maps = maps]
          /\ \/ Finish(p, "completed", PromotionBinding(seen), {maps})
             \/ "promote" \in Failing /\ Finish(p, "error", {}, {})
     ELSE Finish(p, "error", {}, {}) /\ UNCHANGED files
  /\ UNCHANGED <<job, live, edits, refused>>

\* run_build_reading_stage, run_validate_reading_stage, run_build_digest_stage
RunReading(p) ==
  /\ \E s \in {"build_reading", "validate_reading", "build_digest"} : Working(p, s)
  /\ IF cmd[p].stage = "build_digest" \/ MapsValid(cmd[p].seen, "promote")
     THEN Finish(p, "completed", {<<"maps", cmd[p].seen.maps.content>>}, {})
     ELSE Finish(p, "error", {}, {})
  /\ Unchanged /\ UNCHANGED live

\* Anything the stage reads, writes or calls may fail before it has an effect.
RunFails(p) ==
  /\ \E s \in Failing : Working(p, s)
  /\ Finish(p, "error", {}, {})
  /\ Unchanged /\ UNCHANGED live

Work(p) ==
  \/ RunSplit(p) \/ RunPrepare(p) \/ RunTranslate(p) \/ RunExpertTranslate(p)
  \/ RunQa(p) \/ RunPromote(p) \/ RunReading(p) \/ RunFails(p)

-----------------------------------------------------------------------------
(* Phase 3: the result goes into the job as it is now.                     *)

ResultStatus == [completed |-> "completed", waiting |-> "blocked",
                 failed |-> "failed", error |-> "failed"]

Recorded(p) ==
  LET s == cmd[p].stage
      r == cmd[p].result
      stage == [job.stages[s] EXCEPT
                  !.status = ResultStatus[r.kind],
                  !.owner  = IF r.kind = "waiting" THEN AgentOwner ELSE NoOwner,
                  !.hashes = IF r.kind = "error" THEN @ ELSE r.hashes]
  IN  IF r.kind = "error" THEN [job EXCEPT !.stages[s] = stage]
      ELSE [job EXCEPT
             !.stages[s] = stage,
             !.maps   = IF s \in {"split", "promote"} /\ r.kind = "completed"
                        THEN [stage |-> s, content |-> CHOOSE c \in r.evidence : TRUE] ELSE @,
             !.units  = @ \/ s = "prepare",
             !.issued = IF s \in {"translate", "expert_qa"}
                        THEN {i \in @ : i[1] # s} \cup r.evidence ELSE @]

\* Mutant: a budget that is not used up is reason enough to run again.
RetryWithinBudget(p, new) == new.stages[cmd[p].stage].attempt < MaxAttempts

\* schedule_stage_retry
RetryDue(p, new) ==
  LET s == cmd[p].stage IN
  /\ new.stages[s].status = "failed"
  /\ cmd[p].result.retryable
  /\ new.stages[s].attempt < MaxAttempts

Record(p) ==
  /\ At(p, "record")
  /\ LET new     == Recorded(p)
         readied == ReadyTranslation(new)
         saved   == ReadyPromotion(readied)
         go(at, retrying) ==
           /\ cmd' = [cmd EXCEPT ![p] = [Idle EXCEPT !.at = at, !.retrying = retrying,
                                           !.stage = IF retrying THEN cmd[p].stage ELSE "none",
                                           !.invalidate = cmd[p].invalidate]]
           /\ UNCHANGED live
     IN  IF ~Savable(saved)
         THEN End(p) /\ refused' = refused \cup {"record"} /\ UNCHANGED job
         ELSE /\ job' = saved /\ UNCHANGED refused
              /\ IF RetryDue(p, saved) THEN go("backoff", TRUE)
                 ELSE IF readied # new /\ AutoApprove THEN go("freshness", FALSE)
                 ELSE End(p)
  /\ UNCHANGED <<files, edits>>

\* The wait before an automatic retry.
Backoff(p) ==
  /\ cmd[p].at = "backoff"
  /\ GoTo(p, "start")
  /\ Unchanged

\* A launcher dies, a save meets a newer revision, a file cannot be read.
Abort(p) ==
  /\ MayAbort /\ cmd[p].at # "idle"
  /\ End(p)
  /\ Unchanged

Step(p) ==
  \/ SplitFreshness(p) \/ StructureMaps(p) \/ UnitScope(p) \/ StaleQa(p)
  \/ TranslationGate(p) \/ PromotionGate(p) \/ StartStage(p) \/ Work(p)
  \/ Record(p) \/ Backoff(p)

-----------------------------------------------------------------------------
(* The operator, the agents and the editors of the project's files.        *)

\* A command of the operator: one load, one change, one save.
Operate(name, new) ==
  /\ Orphans = {} /\ new # job
  /\ IF Savable(new) THEN job' = new /\ UNCHANGED refused
     ELSE refused' = refused \cup {name} /\ UNCHANGED job
  /\ UNCHANGED <<files, cmd, live>>

Edited == edits < EditBound /\ edits' = edits + 1

\* approve_job_gate
ApproveGate(gate) ==
  /\ job.stages[gate].attempt < AttemptBound
  /\ MayApprove(job, gate)
  /\ Operate("approve", Approve(job, gate)) /\ UNCHANGED edits

\* set_translation_provider_in_store
SetProvider(config) ==
  /\ ~Expert(job) /\ config # job.config
  /\ LET moved   == [job EXCEPT !.config = config]
         readied == ReadyTranslation(moved) IN
     /\ readied # moved \/ ~HasRequest(job.stages["approve_translation"])
     /\ Operate("set_provider", readied)
  /\ Edited

\* The same command for another child of the job, whose gate is not bound.
SetProviderOfSibling(config) ==
  /\ HasSibling /\ ~Expert(job) /\ config # job.config
  /\ Operate("set_provider", [job EXCEPT !.config = config])
  /\ Edited

\* select_book_prompt_pack
SelectPack(pack) ==
  /\ pack # job.pack
  /\ ~LaterActive(job, "approve_translation")
  /\ Operate("select_pack", ReadyTranslation([job EXCEPT !.pack = pack]))
  /\ Edited

EditFiles(what, new) ==
  /\ what \in Editable /\ Edited
  /\ files' = new
  /\ UNCHANGED <<job, cmd, live, refused>>

EditSource == EditFiles("source", [files EXCEPT !.source = @ + 1])
EditMaps   == EditFiles("maps", [files EXCEPT !.maps = Content("edited", edits, NoText)])
EditText   == /\ files.text # NoText
              /\ EditFiles("text", [files EXCEPT !.text = <<"edited", edits, "none">>])

\* An agent answers the handoff the job waits for.
AgentAnswers ==
  \E s \in {"translate", "expert_qa"}, handoff \in job.issued :
    /\ AgentWaiting(s, job.stages[s]) /\ handoff[1] = s /\ handoff \notin files.answers
    /\ files' = [files EXCEPT
         !.answers = @ \cup {handoff},
         !.text = IF s = "translate" THEN <<"agent", handoff[2].source, handoff[2].pack>> ELSE @]
    /\ UNCHANGED <<job, cmd, live, edits, refused>>

Environment ==
  \/ \E gate \in Gates : ApproveGate(gate)
  \/ \E config \in Config : SetProvider(config) \/ SetProviderOfSibling(config)
  \/ \E pack \in Pack : SelectPack(pack)
  \/ EditSource \/ EditMaps \/ EditText \/ AgentAnswers

\* A book handed off to translation, or one split and prepared by a launcher
\* with an older split policy.
Init ==
  /\ \E mode \in Modes :
     LET new  == NewJob(mode, DigestMode)
         maps == Content("split", 1, NoText)
         done(hashes) == [Pending(hashes) EXCEPT !.status = "completed", !.attempt = 1]
     IN  job \in {new, [new EXCEPT
           !.stages["split"] = done({<<"splitPolicyVersion", OldPolicy>>, <<"source", 1>>}),
           !.stages["prepare"] = done({<<"maps", maps>>}),
           !.maps = [stage |-> "split", content |-> maps], !.units = TRUE]}
  /\ files = [source |-> 1, maps |-> job.maps.content, text |-> NoText, answers |-> {}]
  /\ cmd = [p \in Command |-> Idle]
  /\ live = {} /\ edits = 0 /\ refused = {}

Next ==
  \/ \E p \in Command : Begin(p) \/ Step(p) \/ Abort(p)
  \/ Recover \/ Environment

Spec == Init /\ [][Next]_vars

\* A command that was called runs on, and its loads recover orphans.
FairSpec == Spec /\ \A p \in Command : WF_vars(Step(p)) /\ WF_vars(Recover)

-----------------------------------------------------------------------------
(* Properties.                                                             *)

StageRecord ==
  [status: Status, attempt: Nat, approved: BOOLEAN,
   owner: Command \cup {NoOwner, AgentOwner}]

\* Every saved child keeps validate_state: owners fit their statuses and no
\* stage is active or finished behind an unfinished one.
TypeOK ==
  /\ \A s \in Chain :
       [f \in {"status", "attempt", "approved", "owner"} |-> job.stages[s][f]] \in StageRecord
  /\ ValidChild(job.stages)
  /\ job.mode \in Modes /\ job.config \in Config /\ job.pack \in Pack /\ job.refs \subseteq Gates
  /\ live \subseteq Command /\ edits \in 0 .. EditBound
  /\ \A p \in Command : cmd[p].at \in {"idle", "freshness", "maps", "scope", "qa",
       "translation_gate", "promotion_gate", "start", "work", "record", "backoff"}

Executing(p) == cmd[p].at \in {"work", "record"}

\* While a command works on a stage the saved job says so: the stage is RUNNING
\* and the command is its owner, whatever the others did since.  No two
\* commands work on one book.
WorkIsOwned ==
  \A p \in Command : Executing(p) =>
    /\ job.stages[cmd[p].stage].status = "running"
    /\ job.stages[cmd[p].stage].owner = p

StagesAreOwned == TypeOK /\ WorkIsOwned

\* A completed translation stands on a completed gate whose reference is kept,
\* and was made under the very binding the gate holds now; so does the request
\* an agent is working on.
TranslationApproved ==
  Completed(job, "translate") \/ AgentWaiting("translate", job.stages["translate"]) =>
    /\ Completed(job, "approve_translation") /\ "approve_translation" \in job.refs
    /\ job.stages["approve_translation"].hashes \subseteq job.stages["translate"].hashes

\* A translation accepted from an agent answers the handoff its stage names: a
\* text made for another prompt pack or source is not taken for it.
AcceptedTextAnswersItsHandoff ==
  Completed(job, "translate") =>
    \A h \in job.stages["translate"].hashes :
      h[1] = "translationHandoffSha256" => h[2] \in files.answers

\* While an agent translates, its request is not withdrawn by a command of the
\* operator: only drifted files or the next advance end the wait.
AgentWorkStands ==
  [][AgentWaiting("translate", job.stages["translate"]) /\ MapsValid(job, "split")
       => \/ AgentWaiting("translate", job'.stages["translate"])
          \/ job'.stages["translate"].status = "running"]_vars

\* The text of a promoted book is the text its approval was given for.
PromotedTextWasApproved ==
  Completed(job, "promote") =>
    /\ Completed(job, "approve_promotion") /\ "approve_promotion" \in job.refs
    /\ job.maps.stage = "promote" =>
         \E b \in job.stages["approve_promotion"].hashes : b[2].text = job.maps.content.text

\* What is completed was approved, in the form in which it was approved: the
\* translation under the binding its gate holds, the promoted text by its hash.
Approved == TranslationApproved /\ PromotedTextWasApproved

\* From the start of a translation to its record the approval it runs under is
\* not withdrawn or replaced: nothing is sent to a provider on a dead approval.
ApprovalStandsWhileTranslating ==
  \A p \in Command : Executing(p) /\ cmd[p].stage = "translate" =>
    Completed(job, "approve_translation")
      /\ job.stages["approve_translation"].hashes
           = cmd[p].seen.stages["approve_translation"].hashes

\* The phases never compose a job the store refuses: an advance that failed to
\* save for that reason would fail in the same way every time.
NoRefusal == refused = {}

\* A drifted map rolls the book back to its split: the store accepts what the
\* phase composes, also after a crash.
DriftRollbackIsSaved == "maps" \notin refused

\* An automatic retry runs the stage that failed (doc of advance_job_stage).
RetrySameStage ==
  [][\A p \in Command :
       cmd[p].at = "start" /\ cmd[p].retrying /\ cmd'[p].at = "work"
         => cmd'[p].stage = cmd[p].stage]_vars

\* Every advance ends.
AdvanceEnds == \A p \in Command : cmd[p].at # "idle" ~> cmd[p].at = "idle"

\* The operator keeps advancing and approving, and agents answer: the book is
\* finished, or a stage used up the attempts this instance allows.
OperatorFairness ==
  /\ \A p \in Command : WF_vars(Begin(p))
  /\ \A gate \in Gates : WF_vars(ApproveGate(gate))
  /\ WF_vars(AgentAnswers)
CaredForSpec == FairSpec /\ OperatorFairness

Finished == \A s \in Chain : job.stages[s].status \in Done
BookFinishes ==
  <>(Finished \/ \E s \in Chain : job.stages[s].attempt >= AttemptBound)
=============================================================================
