------------------------- MODULE AdvanceStageProofs -------------------------
(***************************************************************************)
(* Theorems about AdvanceStage, for any advances under way, configurations,*)
(* prompt packs, translation modes, failures and edits: the safety of one  *)
(* book from its split to its digest, with other commands, an agent and an *)
(* editor between any two phases.                                          *)
(*                                                                         *)
(* The argument has three layers.  Sound(job) says what every saved job is,*)
(* whoever is at work: what is finished or under way behind a gate stands  *)
(* on that gate as it is now.  Every change a phase or a command composes  *)
(* keeps it, and is Undisturbed: it leaves a running stage alone, and the  *)
(* gate that stage was started under.  Runs and Returns tie a command at   *)
(* work to the job; they survive the others because those are Undisturbed. *)
(* IInv is their conjunction.                                              *)
(***************************************************************************)
EXTENDS AdvanceStage, TLAPS

-----------------------------------------------------------------------------
(* The inductive invariant.                                                *)

\* A stage record, its hashes left open: they hold evidence of several kinds.
StageShape(st) ==
  st \in [status : Status, attempt : Nat, hashes : {st.hashes}, approved : BOOLEAN,
          owner : Command \cup {NoOwner, AgentOwner}]

\* The stages of a child: one record for every stage of the chain.
StagesShape(f) ==
  /\ f = [s \in Chain |-> f[s]]
  /\ \A s \in Chain : StageShape(f[s])

\* A job, its evidence left open.
JobShape(j) ==
  /\ j \in [mode : Modes, stages : {j.stages}, config : Config, pack : Pack,
            refs : SUBSET Gates, maps : {j.maps}, units : BOOLEAN, issued : {j.issued}]
  /\ StagesShape(j.stages)

\* The digest is the only stage that can be skipped.
Skips(j) == \A s \in Chain : j.stages[s].status = "skipped" => s = "build_digest"

\* The reference of a completed gate is kept.
References(j) == \A gate \in Gates : Completed(j, gate) => gate \in j.refs

\* The job waits for an agent to translate.
AgentTranslates(j) == AgentWaiting("translate", j.stages["translate"])

\* A translation that is done, under way or at an agent stands on a completed
\* gate; once it has evidence, that names what the gate was approved for.
TranslationStands(j) ==
  LET gate == j.stages["approve_translation"]
      kept == Completed(j, "translate") \/ AgentTranslates(j) IN
  /\ kept \/ j.stages["translate"].status = "running" => gate.status = "completed"
  /\ kept => gate.hashes \subseteq j.stages["translate"].hashes

\* A promotion that is done or under way stands on a completed gate, and the text
\* in its map is one the gate was approved for.
PromotionStands(j) ==
  LET gate == j.stages["approve_promotion"]
      work == j.stages["promote"] IN
  /\ work.status \in {"running", "completed"} => gate.status = "completed"
  /\ work.status = "completed" /\ j.maps.stage = "promote" =>
       \E b \in gate.hashes : b[2].text = j.maps.content.text

\* Every handoff the evidence of a translation names was answered.
Answered(hashes) ==
  \A h \in hashes : h[1] = "translationHandoffSha256" =>
    h[2] \in files.answers /\ h[2][1] = "translate"

\* A completed translation answers the handoff it names.
TextAnswers(j) == Completed(j, "translate") => Answered(j.stages["translate"].hashes)

\* What every saved job is, whichever commands are at work on it.
Sound(j) ==
  /\ JobShape(j) /\ Skips(j) /\ References(j)
  /\ TranslationStands(j) /\ PromotionStands(j) /\ TextAnswers(j)

\* Where an advance can be.
Places == {"idle", "freshness", "maps", "scope", "qa", "translation_gate", "promotion_gate",
           "start", "work", "record", "backoff"}

\* An advance, with the snapshot and the result it holds left open.
CmdShape(c) ==
  c \in [at : Places, invalidate : BOOLEAN, retrying : BOOLEAN, stage : {c.stage},
         seen : {c.seen}, result : {c.result}]

\* Every advance has that shape.
CmdsShape ==
  /\ cmd = [p \in Command |-> cmd[p]]
  /\ \A p \in Command : CmdShape(cmd[p])

\* The project directory, its contents left open.
FilesShape(f) ==
  f \in [source : {f.source}, maps : {f.maps}, text : {f.text}, answers : {f.answers}]

\* A command at work on a stage: the job says so, the command holds its lease, and
\* the gate of the stage holds what its snapshot held.
Runs(p) ==
  LET s == cmd[p].stage
      seen == cmd[p].seen.stages IN
  /\ p \in live
  /\ s \in Chain \ Gates
  /\ job.stages[s].status = "running"
  /\ job.stages[s].owner = p
  /\ s = "translate" =>
       job.stages["approve_translation"].hashes = seen["approve_translation"].hashes
  /\ s = "promote" =>
       job.stages["approve_promotion"].hashes = seen["approve_promotion"].hashes

\* The result a command brings back: made under the gate of its snapshot, and, of an
\* agent, only for a handoff that was answered.
Returns(p) ==
  LET s == cmd[p].stage
      r == cmd[p].result
      seen == cmd[p].seen.stages IN
  /\ r.kind \in {"completed", "waiting", "failed", "error"}
  /\ s = "translate" /\ r.kind \in {"completed", "waiting"} =>
       seen["approve_translation"].hashes \subseteq r.hashes
  /\ s = "translate" /\ r.kind = "completed" => Answered(r.hashes)
  /\ s = "promote" /\ r.kind = "completed" =>
       \E maps : /\ r.evidence = {maps}
                 /\ \E b \in seen["approve_promotion"].hashes : b[2].text = maps.text

\* The inductive invariant.
IInv ==
  /\ Sound(job) /\ ValidChild(job.stages) /\ FilesShape(files)
  /\ CmdsShape /\ live \subseteq Command /\ edits \in 0 .. EditBound
  /\ \A p \in Command : Executing(p) => Runs(p)
  /\ \A p \in Command : cmd[p].at = "record" => Returns(p)

-----------------------------------------------------------------------------
(* What a step leaves alone.                                               *)

\* From j to n a running stage is left alone, and so is the gate that a running
\* translation or promotion was started under.
Undisturbed(j, n) ==
  /\ \A s \in Chain \ Gates :
       j.stages[s].status = "running" => n.stages[s] = j.stages[s]
  /\ j.stages["translate"].status = "running" =>
       n.stages["approve_translation"] = j.stages["approve_translation"]
  /\ j.stages["promote"].status = "running" =>
       n.stages["approve_promotion"] = j.stages["approve_promotion"]

\* A step leaves a command at work where it is, with its lease; or the command is at
\* no stage after it.
LeftAlone(q) ==
  \/ cmd'[q].at \notin {"work", "record"}
  \/ cmd'[q] = cmd[q] /\ (q \in live => q \in live')

\* A step may drop a review that answers nothing, never an accepted translation.
AnswersKept ==
  /\ FilesShape(files')
  /\ \A a \in files.answers : a[1] = "translate" => a \in files'.answers

\* While an agent translates from maps that are valid, its request stands, or a
\* command takes up the answer.
RequestKept ==
  AgentTranslates(job) /\ MapsValid(job, "split") =>
    AgentTranslates(job)' \/ job'.stages["translate"].status = "running"

-----------------------------------------------------------------------------
(* The stages of a child.                                                  *)

\* The stages of the chain, and which of them come after which.
LEMMA ChainStages ==
  /\ Chain = {"split", "prepare", "approve_translation", "translate", "expert_qa",
              "approve_promotion", "promote", "build_reading", "validate_reading",
              "build_digest"}
  /\ Gates \subseteq Chain
  /\ \A s \in Chain :
       /\ After(s, "split") <=> s # "split"
       /\ After(s, "prepare") <=> s \notin {"split", "prepare"}
       /\ After(s, "approve_translation") <=>
            s \notin {"split", "prepare", "approve_translation"}
       /\ After(s, "translate") <=>
            s \notin {"split", "prepare", "approve_translation", "translate"}
       /\ After(s, "expert_qa") <=>
            s \notin {"split", "prepare", "approve_translation", "translate", "expert_qa"}
       /\ After(s, "approve_promotion") <=>
            s \in {"promote", "build_reading", "validate_reading", "build_digest"}
       /\ After(s, "promote") <=> s \in {"build_reading", "validate_reading", "build_digest"}
  /\ \A s, t \in Chain : After(s, t) \/ s = t \/ After(t, s)
<1>1. Chain = {"split", "prepare", "approve_translation", "translate", "expert_qa",
              "approve_promotion", "promote", "build_reading", "validate_reading",
              "build_digest"}
  BY DEF Chain, StageId, Order
<1>2. Gates \subseteq Chain
  BY <1>1 DEF Gates
<1>3. ASSUME NEW s \in Chain PROVE
       /\ After(s, "split") <=> s # "split"
       /\ After(s, "prepare") <=> s \notin {"split", "prepare"}
       /\ After(s, "approve_translation") <=>
            s \notin {"split", "prepare", "approve_translation"}
       /\ After(s, "translate") <=>
            s \notin {"split", "prepare", "approve_translation", "translate"}
       /\ After(s, "expert_qa") <=>
            s \notin {"split", "prepare", "approve_translation", "translate", "expert_qa"}
       /\ After(s, "approve_promotion") <=>
            s \in {"promote", "build_reading", "validate_reading", "build_digest"}
       /\ After(s, "promote") <=> s \in {"build_reading", "validate_reading", "build_digest"}
  BY <1>1 DEF After, Order
<1>4. \A s, t \in Chain : After(s, t) \/ s = t \/ After(t, s)
  BY <1>1 DEF After, Order
<1> QED BY <1>1, <1>2, <1>3, <1>4

\* In a job the store accepts, nothing is active or finished behind a stage that is
\* neither completed nor skipped.
LEMMA ChildOrder ==
  ASSUME NEW f, StagesShape(f), ValidChild(f)
  PROVE  \A s, t \in Chain : After(s, t) /\ f[t].status \notin Done
           => f[s].status \in {"pending", "skipped"}
<1>1. DOMAIN f = Chain
  BY DEF StagesShape
<1> QED BY <1>1 DEF ValidChild

\* A granted gate is completed with the hashes it had.
LEMMA GrantedShape ==
  ASSUME NEW st, StageShape(st)
  PROVE  LET n == Granted(st) IN
           StageShape(n) /\ n.status = "completed" /\ n.hashes = st.hashes
<1>1. st.attempt + 1 \in Nat
  BY DEF StageShape
<1> DEFINE a == st.attempt + 1
<1> HIDE DEF a
<1>2. Granted(st) = [st EXCEPT !.status = "completed", !.attempt = a, !.approved = TRUE]
  BY DEF StageShape, Granted, a
<1>3. a \in Nat
  BY <1>1 DEF a
<1> QED BY <1>2, <1>3 DEF StageShape, Status

\* A stage set back to pending.
LEMMA PendingShape ==
  ASSUME NEW hashes
  PROVE  LET n == Pending(hashes) IN
           StageShape(n) /\ n.hashes = hashes /\ n.status = "pending"
  BY DEF StageShape, Pending, Status

\* One stage of a child replaced.
LEMMA StageReplaced ==
  ASSUME NEW f, StagesShape(f), NEW s \in Chain, NEW st, StageShape(st)
  PROVE  /\ StagesShape([f EXCEPT ![s] = st])
         /\ [f EXCEPT ![s] = st][s] = st
         /\ \A t \in Chain : t # s => [f EXCEPT ![s] = st][t] = f[t]
  BY DEF StagesShape

\* invalidate_completed_downstream takes back what is completed, and gates that are
\* ready, behind the given stage, and nothing else.
LEMMA InvalidateCompletedFacts ==
  ASSUME NEW f, StagesShape(f), NEW s \in Chain
  PROVE  LET n == InvalidateCompleted(f, s) IN
         /\ StagesShape(n)
         /\ \A t \in Chain :
              \/ /\ n[t] = f[t]
                 /\ ~(After(t, s) /\ f[t].status = "completed")
                 /\ ~(/\ After(t, s) /\ t \in Gates
                      /\ f[t].status \in {"ready", "waiting_for_approval"})
              \/ /\ n[t].status = "pending" /\ After(t, s)
                 /\ \/ f[t].status = "completed"
                    \/ t \in Gates /\ f[t].status \in {"ready", "waiting_for_approval"}
<1> DEFINE n == InvalidateCompleted(f, s)
<1>1. ASSUME NEW t \in Chain
      PROVE  /\ StageShape(n[t])
             /\ \/ /\ n[t] = f[t]
                   /\ ~(After(t, s) /\ f[t].status = "completed")
                   /\ ~(/\ After(t, s) /\ t \in Gates
                        /\ f[t].status \in {"ready", "waiting_for_approval"})
                \/ /\ n[t].status = "pending" /\ After(t, s)
                   /\ \/ f[t].status = "completed"
                      \/ t \in Gates /\ f[t].status \in {"ready", "waiting_for_approval"}
  <2>1. StageShape(f[t])
    BY DEF StagesShape
  <2>2. LET m == [Pending({}) EXCEPT !.attempt = f[t].attempt] IN
          StageShape(m) /\ m.status = "pending"
    BY <2>1 DEF StageShape, Pending, Status
  <2> QED BY <2>1, <2>2 DEF InvalidateCompleted
<1>2. n = [t \in Chain |-> n[t]]
  BY DEF InvalidateCompleted
<1> QED BY <1>1, <1>2 DEF StagesShape

\* invalidate_all_downstream leaves behind the split only stages pending under the
\* present policy, and skipped ones.
LEMMA InvalidateAllFacts ==
  ASSUME NEW j, JobShape(j)
  PROVE  LET n == InvalidateAll(j) IN
         /\ JobShape(n)
         /\ n.stages["split"] = j.stages["split"]
         /\ \A t \in Chain \ {"split"} :
              \/ n.stages[t].status = "pending" /\ n.stages[t].hashes = PolicyHash
              \/ n.stages[t] = j.stages[t] /\ j.stages[t].status = "skipped"
<1> DEFINE n == InvalidateAll(j)
           f == [t \in Chain |-> IF After(t, "split") /\ j.stages[t].status # "skipped"
                                 THEN Pending(PolicyHash) ELSE j.stages[t]]
           maps == IF j.maps.stage = "promote" THEN NoMaps ELSE j.maps
<1>1. n = [j EXCEPT !.stages = f, !.maps = maps, !.units = FALSE, !.issued = {}]
  BY DEF InvalidateAll, JobShape
<1>2. StagesShape(f)
  BY PendingShape DEF JobShape, StagesShape
<1>3. f["split"] = j.stages["split"]
  BY ChainStages
<1>4. \A t \in Chain \ {"split"} :
              \/ f[t].status = "pending" /\ f[t].hashes = PolicyHash
              \/ f[t] = j.stages[t] /\ j.stages[t].status = "skipped"
  BY PendingShape, ChainStages
<1> HIDE DEF f, maps, n
<1>5. JobShape(n) /\ n.stages = f
  BY <1>1, <1>2 DEF JobShape
<1> QED BY <1>3, <1>4, <1>5 DEF n

\* The split set back: the first stage changes, the others stay.
LEMMA SplitResetFacts ==
  ASSUME NEW j, JobShape(j), NEW status \in Status, NEW hashes
  PROVE  LET n == SplitReset(j, status, hashes) IN
             /\ JobShape(n) /\ n.stages["split"].status = status
             /\ n.refs = j.refs
             /\ \A t \in Chain \ {"split"} : n.stages[t] = j.stages[t]
<1> DEFINE st == j.stages["split"]
           r  == [st EXCEPT !.status = status, !.hashes = hashes, !.owner = NoOwner]
           f  == [j.stages EXCEPT !["split"] = r]
           n  == SplitReset(j, status, hashes)
<1>1. "split" \in Chain /\ StagesShape(j.stages)
  BY ChainStages DEF JobShape
<1>2. StageShape(r) /\ r.status = status
  BY <1>1 DEF StagesShape, StageShape
<1>3. n = [j EXCEPT !.stages = f]
  BY <1>1 DEF SplitReset, JobShape, StagesShape
<1>4. StagesShape(f) /\ f["split"] = r /\ \A t \in Chain : t # "split" => f[t] = j.stages[t]
  <2> HIDE DEF r
  <2> QED BY <1>1, <1>2, StageReplaced
<1> HIDE DEF f, n, r
<1>5. JobShape(n) /\ n.stages = f /\ n.refs = j.refs
  BY <1>3, <1>4 DEF JobShape
<1> QED BY <1>2, <1>4, <1>5 DEF n

-----------------------------------------------------------------------------
(* The gates: what they change, and that a job stays sound.                *)

\* A gate that is readied: the other stages stay.
LEMMA ReadyGateFacts ==
  ASSUME NEW j, JobShape(j), NEW gate \in Gates, NEW binding
  PROVE  LET n == ReadyGate(j, gate, binding) IN
         /\ JobShape(n) /\ n.refs = j.refs /\ n.maps = j.maps
         /\ n.stages[gate].status = "ready"
         /\ \A t \in Chain : t # gate => n.stages[t] = j.stages[t]
<1> DEFINE st == j.stages[gate]
           r  == [st EXCEPT !.status = "ready", !.hashes = binding, !.approved = FALSE,
                            !.owner = NoOwner]
           f  == [j.stages EXCEPT ![gate] = r]
<1>1. gate \in Chain /\ StagesShape(j.stages)
  BY ChainStages DEF JobShape
<1>2. StageShape(st)
  BY <1>1 DEF StagesShape
<1>3. StageShape(r) /\ r.status = "ready"
  BY <1>2 DEF StageShape, Status
<1>4. ReadyGate(j, gate, binding) = [j EXCEPT !.stages = f]
  BY <1>1 DEF ReadyGate, JobShape, StagesShape
<1>5. StagesShape(f) /\ f[gate] = r /\ \A t \in Chain : t # gate => f[t] = j.stages[t]
  <2> HIDE DEF r
  <2> QED BY <1>1, <1>3, StageReplaced
<1> HIDE DEF f, r
<1>6. LET n == [j EXCEPT !.stages = f] IN
              JobShape(n) /\ n.stages = f /\ n.refs = j.refs /\ n.maps = j.maps
  BY <1>5 DEF JobShape
<1> QED BY <1>3, <1>4, <1>5, <1>6

\* ready_translation_approval_gate does nothing, or readies a pending gate for the
\* binding it had, or takes back everything behind the gate while nobody works there.
LEMMA ReadyTranslationFacts ==
  ASSUME NEW j, JobShape(j)
  PROVE  LET n    == ReadyTranslation(j)
             gate == "approve_translation" IN
         /\ JobShape(n) /\ n.maps = j.maps
         /\ \/ n = j
            \/ /\ n.stages[gate].status = "ready" /\ n.refs = j.refs
               /\ j.stages[gate].status = "pending"
               /\ \A t \in Chain : t # gate => n.stages[t] = j.stages[t]
            \/ /\ n.stages[gate].status = "ready" /\ n.refs = {}
               /\ ~LaterActive(j, gate)
               /\ n.stages["split"] = j.stages["split"]
               /\ n.stages["prepare"] = j.stages["prepare"]
               /\ \A t \in Chain : After(t, gate) =>
                    \/ n.stages[t].status = "pending"
                    \/ /\ n.stages[t].status = "skipped"
                       /\ t = "build_digest" \/ j.stages[t].status = "skipped"
<1> DEFINE n       == ReadyTranslation(j)
           name    == "approve_translation"
           gate    == j.stages[name]
           binding == TranslationBinding(j)
           changed == gate.hashes # binding
           rolled  == InvalidateCompleted(j.stages, "prepare")
           audit   == {<<"translationApprovalBindingSha256", binding>>}
           reset   == [t \in Chain |->
             IF t = "build_digest"
             THEN [rolled[t] EXCEPT !.status = IF DigestMode THEN "pending" ELSE "skipped",
                                    !.hashes = {}, !.owner = NoOwner]
             ELSE IF After(t, name) /\ rolled[t].status \in {"ready", "failed", "blocked"}
             THEN [Pending(audit) EXCEPT !.attempt = rolled[t].attempt]
             ELSE rolled[t]]
           k == [j EXCEPT !.stages = reset, !.refs = {}]
<1>1. StagesShape(j.stages) /\ name \in Gates /\ name \in Chain /\ "prepare" \in Chain
  BY ChainStages DEF JobShape, Gates
<1>2. /\ StagesShape(rolled)
      /\ \A t \in Chain :
           \/ /\ rolled[t] = j.stages[t]
              /\ ~(After(t, "prepare") /\ j.stages[t].status = "completed")
              /\ ~(/\ After(t, "prepare") /\ t \in Gates
                   /\ j.stages[t].status \in {"ready", "waiting_for_approval"})
           \/ rolled[t].status = "pending" /\ After(t, "prepare")
  <2> HIDE DEF rolled
  <2>1. rolled = InvalidateCompleted(j.stages, "prepare")
    BY DEF rolled
  <2> QED BY <1>1, <2>1, InvalidateCompletedFacts
<1> HIDE DEF rolled, audit
<1>3. ASSUME NEW t \in Chain
      PROVE  /\ StageShape(reset[t])
             /\ t \in {"split", "prepare"} => reset[t] = j.stages[t]
             /\ ~LaterActive(j, name) /\ After(t, name) =>
                    \/ reset[t].status = "pending"
                    \/ /\ reset[t].status = "skipped"
                       /\ t = "build_digest" \/ j.stages[t].status = "skipped"
  <2>1. StageShape(rolled[t]) /\ StageShape(j.stages[t])
    BY <1>1, <1>2 DEF StagesShape
  <2>2. CASE t = "build_digest"
    <3>1. StageShape(reset[t]) /\ reset[t].status \in {"pending", "skipped"}
      BY <2>1, <2>2 DEF StageShape, Status
    <3> QED BY <2>2, <3>1
  <2>3. CASE /\ t # "build_digest" /\ After(t, name)
             /\ rolled[t].status \in {"ready", "failed", "blocked"}
    <3>1. StageShape(reset[t]) /\ reset[t].status = "pending"
      BY <2>1, <2>3 DEF StageShape, Pending, Status
    <3> QED BY <2>3, <3>1, ChainStages
  <2>4. CASE /\ t # "build_digest"
             /\ ~(After(t, name) /\ rolled[t].status \in {"ready", "failed", "blocked"})
    <3>1. reset[t] = rolled[t]
      BY <2>4
    <3>2. t \in {"split", "prepare"} => rolled[t] = j.stages[t]
      BY <1>2, ChainStages
    <3>3. ASSUME ~LaterActive(j, name), After(t, name)
          PROVE  \/ rolled[t].status = "pending"
                 \/ rolled[t].status = "skipped" /\ j.stages[t].status = "skipped"
      <4>1. After(t, "prepare")
        BY <3>3, ChainStages
      <4>2. ~Active(j.stages[t], t)
        BY <3>3 DEF LaterActive
      <4>3. rolled[t].status \notin {"ready", "failed", "blocked"} /\ rolled[t].status \in Status
        BY <2>1, <2>4, <3>3 DEF StageShape
      <4>4. CASE rolled[t] = j.stages[t] /\ j.stages[t].status # "completed"
        BY <4>2, <4>3, <4>4 DEF Active, Status
      <4> QED BY <1>2, <4>1, <4>4
    <3> QED BY <2>1, <2>4, <3>1, <3>2, <3>3
  <2> QED BY <2>2, <2>3, <2>4
<1>4. StagesShape(reset)
  BY <1>3 DEF StagesShape
<1>5. reset["split"] = j.stages["split"] /\ reset["prepare"] = j.stages["prepare"]
  BY <1>3, ChainStages
<1> HIDE DEF reset
<1>6. JobShape(k) /\ k.stages = reset /\ k.refs = {} /\ k.maps = j.maps
  BY <1>4 DEF JobShape
<1> HIDE DEF k
<1>7. CASE \/ ~CanBindTranslation(j) \/ ~NeedsReadying(gate, binding)
           \/ changed /\ LaterActive(j, name)
  <2>1. ReadyTranslation(j) = j
    BY <1>7 DEF ReadyTranslation
  <2> QED BY <2>1
<1>8. CASE NeedsReadying(gate, binding) /\ CanBindTranslation(j) /\ ~changed
  <2>1. ReadyTranslation(j) = ReadyGate(j, name, binding)
    BY <1>8 DEF ReadyTranslation
  <2>2. gate.status = "pending"
    BY <1>8 DEF NeedsReadying
  <2> HIDE DEF binding
  <2> QED BY <1>1, <2>1, <2>2, ReadyGateFacts
<1>9. CASE NeedsReadying(gate, binding) /\ CanBindTranslation(j) /\ changed /\ ~LaterActive(j, name)
  <2>1. ReadyTranslation(j) = ReadyGate(k, name, binding)
    BY <1>9 DEF ReadyTranslation, k, reset, rolled, audit
  <2> HIDE DEF binding
  <2>2. LET m == ReadyGate(k, name, binding) IN
         /\ JobShape(m) /\ m.refs = k.refs /\ m.maps = k.maps
         /\ m.stages[name].status = "ready"
         /\ \A t \in Chain : t # name => m.stages[t] = k.stages[t]
    BY <1>1, <1>6, ReadyGateFacts
  <2>3. n.stages["split"] = j.stages["split"] /\ n.stages["prepare"] = j.stages["prepare"]
    BY <1>5, <1>6, <2>1, <2>2, ChainStages
  <2>4. ASSUME NEW t \in Chain, After(t, name)
        PROVE  \/ n.stages[t].status = "pending"
               \/ /\ n.stages[t].status = "skipped"
                  /\ t = "build_digest" \/ j.stages[t].status = "skipped"
    <3>1. n.stages[t] = reset[t]
      BY <1>6, <2>1, <2>2, <2>4, ChainStages
    <3> QED BY <1>3, <1>9, <2>4, <3>1
  <2> QED BY <1>6, <1>9, <2>1, <2>2, <2>3, <2>4
<1> QED BY <1>7, <1>8, <1>9

\* ready_promotion_approval_gate does nothing, or readies the gate of a translated
\* book, with what it takes back behind the review.
LEMMA ReadyPromotionFacts ==
  ASSUME NEW j, JobShape(j)
  PROVE  LET n    == ReadyPromotion(j)
             gate == "approve_promotion" IN
         /\ JobShape(n) /\ n.maps = j.maps
         /\ \/ n = j
            \/ /\ Completed(j, "translate")
               /\ n.stages[gate].status = "ready" /\ j.refs \ {gate} \subseteq n.refs
               /\ \A t \in Chain : t # gate => n.stages[t] = j.stages[t]
               /\ \/ j.stages[gate].status = "pending"
                  \/ \A t \in Chain :
                       After(t, gate) => j.stages[t].status \in {"pending", "skipped"}
<1> DEFINE n       == ReadyPromotion(j)
           name    == "approve_promotion"
           gate    == j.stages[name]
           binding == PromotionBinding(j)
           changed == gate.hashes # binding
           later   == \E t \in Chain : /\ After(t, name)
                                       /\ j.stages[t].status \notin {"pending", "skipped"}
           rolled  == InvalidateCompleted(j.stages, "expert_qa")
           k       == [j EXCEPT !.stages = rolled, !.refs = j.refs \ {name}]
<1>1. StagesShape(j.stages) /\ name \in Gates /\ name \in Chain /\ "expert_qa" \in Chain
  BY ChainStages DEF JobShape, Gates
<1>2. /\ StagesShape(rolled)
      /\ \A t \in Chain :
           \/ rolled[t] = j.stages[t]
           \/ After(t, "expert_qa")
               /\ (j.stages[t].status = "completed" \/ t \in Gates)
  <2> HIDE DEF rolled
  <2>1. rolled = InvalidateCompleted(j.stages, "expert_qa")
    BY DEF rolled
  <2> QED BY <1>1, <2>1, InvalidateCompletedFacts
<1>3. JobShape(k) /\ k.stages = rolled /\ k.refs = j.refs \ {name} /\ k.maps = j.maps
  <2> HIDE DEF rolled
  <2> QED BY <1>2 DEF JobShape
<1>4. CASE ~CanBindPromotion(j) \/ ~NeedsReadying(gate, binding) \/ (changed /\ later)
  <2>1. n = j
    BY <1>4 DEF ReadyPromotion
  <2> QED BY <2>1
<1>5. CASE NeedsReadying(gate, binding) /\ CanBindPromotion(j) /\ ~changed
  <2>1. n = ReadyGate(j, name, binding)
    BY <1>5 DEF ReadyPromotion
  <2>2. gate.status = "pending" /\ Completed(j, "translate")
    BY <1>5 DEF NeedsReadying, CanBindPromotion
  <2> HIDE DEF binding, n
  <2> QED BY <1>1, <2>1, <2>2, ReadyGateFacts DEF n
<1>6. CASE NeedsReadying(gate, binding) /\ CanBindPromotion(j) /\ changed /\ ~later
  <2>1. n = ReadyGate(k, name, binding)
    BY <1>6 DEF ReadyPromotion
  <2>2. Completed(j, "translate")
    BY <1>6 DEF CanBindPromotion
  <2> HIDE DEF binding, rolled, k
  <2>3. LET m == ReadyGate(k, name, binding) IN
         /\ JobShape(m) /\ m.refs = k.refs /\ m.maps = k.maps
         /\ m.stages[name].status = "ready"
         /\ \A t \in Chain : t # name => m.stages[t] = k.stages[t]
    BY <1>1, <1>3, ReadyGateFacts
  <2>4. ASSUME NEW t \in Chain, t # name PROVE rolled[t] = j.stages[t]
    BY <1>2, <1>6, <2>4, ChainStages DEF Gates
  <2> HIDE DEF n
  <2> QED BY <1>3, <1>6, <2>1, <2>2, <2>3, <2>4 DEF n
<1> QED BY <1>4, <1>5, <1>6

\* An approval completes its gate, with the hashes it had, and readies a pending
\* translation.
LEMMA ApproveFacts ==
  ASSUME NEW j, JobShape(j), NEW gate \in Gates
  PROVE  LET n == Approve(j, gate) IN
         /\ JobShape(n) /\ n.maps = j.maps /\ n.refs = j.refs \cup {gate}
         /\ n.stages[gate].status = "completed"
         /\ n.stages[gate].hashes = j.stages[gate].hashes
         /\ \A t \in Chain : t # gate =>
              \/ n.stages[t] = j.stages[t]
              \/ /\ gate = "approve_translation" /\ t = "translate"
                 /\ j.stages[t].status = "pending" /\ n.stages[t].status = "ready"
<1> DEFINE n  == Approve(j, gate)
           st == Granted(j.stages[gate])
           f  == [j.stages EXCEPT ![gate] = st]
           r  == [f["translate"] EXCEPT !.status = "ready"]
           g  == [f EXCEPT !["translate"] = r]
           refs == j.refs \cup {gate}
<1>1. StagesShape(j.stages) /\ gate \in Chain /\ "translate" \in Chain /\ "translate" # gate
  BY ChainStages DEF JobShape, Gates
<1>2. StageShape(st) /\ st.status = "completed" /\ st.hashes = j.stages[gate].hashes
  BY <1>1, GrantedShape DEF StagesShape
<1>3. StagesShape(f) /\ f[gate] = st /\ \A t \in Chain : t # gate => f[t] = j.stages[t]
  <2> HIDE DEF st
  <2> QED BY <1>1, <1>2, StageReplaced
<1>4. StageShape(r) /\ r.status = "ready"
  <2>1. StageShape(f["translate"])
    BY <1>1, <1>3 DEF StagesShape
  <2> HIDE DEF f
  <2> QED BY <2>1 DEF StageShape, Status
<1>5. StagesShape(g) /\ g["translate"] = r /\ \A t \in Chain : t # "translate" => g[t] = f[t]
  <2> HIDE DEF f, r
  <2> QED BY <1>1, <1>3, <1>4, StageReplaced
<1>6. refs \in SUBSET Gates
  BY DEF JobShape
<1>7. CASE gate = "approve_translation" /\ f["translate"].status = "pending"
  <2>1. n = [j EXCEPT !.stages = g, !.refs = refs]
    BY <1>1, <1>3, <1>7 DEF Approve, JobShape, StagesShape
  <2> HIDE DEF g, refs, n
  <2>2. JobShape(n) /\ n.stages = g /\ n.refs = refs /\ n.maps = j.maps
    BY <1>5, <1>6, <2>1 DEF JobShape
  <2>3. n.stages[gate].status = "completed" /\ n.stages[gate].hashes = j.stages[gate].hashes
    <3>1. n.stages[gate] = st
      <4> HIDE DEF f, g, st
      <4> QED BY <1>1, <1>3, <1>5, <2>2
    <3> HIDE DEF st
    <3> QED BY <1>2, <3>1
  <2>4. j.stages["translate"].status = "pending"
    <3> HIDE DEF f
    <3> QED BY <1>1, <1>3, <1>7
  <2>5. ASSUME NEW t \in Chain, t # gate
        PROVE  n.stages[t] = j.stages[t] \/ (t = "translate" /\ n.stages[t].status = "ready")
    <3> HIDE DEF f, g, r, st
    <3> QED BY <1>3, <1>4, <1>5, <2>2, <2>5
  <2> HIDE DEF f, g, r, st
  <2> QED BY <1>7, <2>2, <2>3, <2>4, <2>5 DEF refs, n
<1>8. CASE ~(gate = "approve_translation" /\ f["translate"].status = "pending")
  <2>1. n = [j EXCEPT !.stages = f, !.refs = refs]
    BY <1>8 DEF Approve, JobShape
  <2> HIDE DEF f, refs, n
  <2>2. JobShape(n) /\ n.stages = f /\ n.refs = refs /\ n.maps = j.maps
    BY <1>3, <1>6, <2>1 DEF JobShape
  <2> QED BY <1>2, <1>3, <2>2 DEF refs, n
<1> QED BY <1>7, <1>8

\* Two changes that leave running stages alone do so together.
LEMMA UndisturbedTransitive ==
  ASSUME NEW j, NEW k, NEW n, Undisturbed(j, k), Undisturbed(k, n)
  PROVE  Undisturbed(j, n)
<1>1. {"translate", "promote"} \subseteq Chain \ Gates
  BY ChainStages DEF Gates
<1> QED BY <1>1 DEF Undisturbed

\* Readying the first gate keeps a job sound and running stages alone; a job an agent
\* translates is not changed.
LEMMA ReadyTranslationSound ==
  ASSUME NEW j, Sound(j)
  PROVE  LET n == ReadyTranslation(j) IN
         /\ Sound(n) /\ Undisturbed(j, n)
         /\ AgentTranslates(j) => n = j
<1> DEFINE n == ReadyTranslation(j)
           gate == "approve_translation"
<1>1. /\ JobShape(n) /\ n.maps = j.maps
      /\ \/ n = j
         \/ /\ n.stages[gate].status = "ready" /\ n.refs = j.refs
            /\ j.stages[gate].status = "pending"
            /\ \A t \in Chain : t # gate => n.stages[t] = j.stages[t]
         \/ /\ n.stages[gate].status = "ready" /\ n.refs = {}
            /\ ~LaterActive(j, gate)
            /\ n.stages["split"] = j.stages["split"]
            /\ n.stages["prepare"] = j.stages["prepare"]
            /\ \A t \in Chain : After(t, gate) =>
                 \/ n.stages[t].status = "pending"
                 \/ /\ n.stages[t].status = "skipped"
                    /\ t = "build_digest" \/ j.stages[t].status = "skipped"
  BY ReadyTranslationFacts DEF Sound
<1>2. CASE n = j
  BY <1>2 DEF Undisturbed
<1>3. CASE /\ n.stages[gate].status = "ready" /\ n.refs = j.refs
           /\ j.stages[gate].status = "pending"
           /\ \A t \in Chain : t # gate => n.stages[t] = j.stages[t]
  <2>1. n.stages["translate"] = j.stages["translate"] /\ n.stages["promote"] = j.stages["promote"]
        /\ n.stages["approve_promotion"] = j.stages["approve_promotion"]
    BY <1>3, ChainStages
  <2>2. /\ j.stages["translate"].status \notin {"completed", "running"}
        /\ ~AgentTranslates(j)
    BY <1>3 DEF Sound, TranslationStands, Completed
  <2>3. Skips(n) /\ References(n)
    BY <1>3, ChainStages DEF Sound, Skips, References, Completed
  <2>4. TranslationStands(n) /\ TextAnswers(n)
    BY <2>1, <2>2 DEF TranslationStands, TextAnswers, Completed, AgentTranslates
  <2>5. PromotionStands(n)
    BY <1>1, <2>1 DEF Sound, PromotionStands
  <2>6. Undisturbed(j, n)
    BY <1>3, <2>1, <2>2 DEF Undisturbed, Gates
  <2> QED BY <1>1, <2>2, <2>3, <2>4, <2>5, <2>6 DEF Sound
<1>4. CASE /\ n.stages[gate].status = "ready" /\ n.refs = {}
           /\ ~LaterActive(j, gate)
           /\ n.stages["split"] = j.stages["split"]
           /\ n.stages["prepare"] = j.stages["prepare"]
           /\ \A t \in Chain : After(t, gate) =>
                \/ n.stages[t].status = "pending"
                \/ /\ n.stages[t].status = "skipped"
                   /\ t = "build_digest" \/ j.stages[t].status = "skipped"
  <2>1. \A t \in Chain : After(t, gate) => n.stages[t].status \in {"pending", "skipped"}
    BY <1>4
  <2>2. /\ n.stages["translate"].status \in {"pending", "skipped"}
        /\ n.stages["promote"].status \in {"pending", "skipped"}
        /\ n.stages["approve_promotion"].status \in {"pending", "skipped"}
    BY <2>1, ChainStages
  <2>3. Skips(n)
    BY <1>4, ChainStages DEF Sound, Skips
  <2>4. References(n)
    BY <1>4, <2>2 DEF References, Gates, Completed
  <2>5. TranslationStands(n) /\ TextAnswers(n) /\ PromotionStands(n)
    BY <2>2 DEF TranslationStands, TextAnswers, PromotionStands, Completed, AgentTranslates,
                AgentWaiting
  <2>6. \A t \in Chain : After(t, gate) => j.stages[t].status # "running"
    BY <1>4 DEF LaterActive, Active
  <2>7. Undisturbed(j, n)
    BY <1>4, <2>6, ChainStages DEF Undisturbed, Gates
  <2>8. ~AgentTranslates(j)
    BY <1>4, ChainStages DEF LaterActive, Active, AgentTranslates
  <2> QED BY <1>1, <2>3, <2>4, <2>5, <2>7, <2>8 DEF Sound
<1> QED BY <1>1, <1>2, <1>3, <1>4

\* Readying the second gate does the same.
LEMMA ReadyPromotionSound ==
  ASSUME NEW j, Sound(j)
  PROVE  LET n == ReadyPromotion(j) IN
         /\ Sound(n) /\ Undisturbed(j, n)
         /\ AgentTranslates(j) => n = j
<1> DEFINE n == ReadyPromotion(j)
           gate == "approve_promotion"
<1>1. /\ JobShape(n) /\ n.maps = j.maps
      /\ \/ n = j
         \/ /\ Completed(j, "translate")
            /\ n.stages[gate].status = "ready" /\ j.refs \ {gate} \subseteq n.refs
            /\ \A t \in Chain : t # gate => n.stages[t] = j.stages[t]
            /\ \/ j.stages[gate].status = "pending"
               \/ \A t \in Chain :
                    After(t, gate) => j.stages[t].status \in {"pending", "skipped"}
  BY ReadyPromotionFacts DEF Sound
<1>2. CASE n = j
  BY <1>2 DEF Undisturbed
<1>3. CASE /\ Completed(j, "translate")
           /\ n.stages[gate].status = "ready" /\ j.refs \ {gate} \subseteq n.refs
           /\ \A t \in Chain : t # gate => n.stages[t] = j.stages[t]
           /\ \/ j.stages[gate].status = "pending"
              \/ \A t \in Chain :
                   After(t, gate) => j.stages[t].status \in {"pending", "skipped"}
  <2>1. /\ n.stages["translate"] = j.stages["translate"]
        /\ n.stages["promote"] = j.stages["promote"]
        /\ n.stages["approve_translation"] = j.stages["approve_translation"]
    BY <1>3, ChainStages
  <2>2. j.stages["promote"].status \notin {"completed", "running"}
    <3>1. CASE j.stages[gate].status = "pending"
      BY <3>1 DEF Sound, PromotionStands
    <3>2. CASE \A t \in Chain : After(t, gate) => j.stages[t].status \in {"pending", "skipped"}
      BY <3>2, ChainStages
    <3> QED BY <1>3, <3>1, <3>2
  <2>3. Skips(n) /\ References(n)
    BY <1>3, ChainStages DEF Sound, Skips, References, Completed
  <2>4. TranslationStands(n) /\ TextAnswers(n)
    BY <2>1 DEF Sound, TranslationStands, TextAnswers, Completed, AgentTranslates
  <2>5. PromotionStands(n)
    BY <2>1, <2>2 DEF PromotionStands
  <2>6. Undisturbed(j, n)
    BY <1>3, <2>1, <2>2 DEF Undisturbed, Gates
  <2>7. ~AgentTranslates(j)
    BY <1>3 DEF AgentTranslates, AgentWaiting, Completed
  <2> QED BY <1>1, <2>3, <2>4, <2>5, <2>6, <2>7 DEF Sound
<1> QED BY <1>1, <1>2, <1>3

\* An approval keeps a job sound and running stages alone.  The first gate has no
\* approval to give while an agent translates.
LEMMA ApproveSound ==
  ASSUME NEW j, Sound(j), NEW gate \in Gates, MayApprove(j, gate)
  PROVE  LET n == Approve(j, gate) IN
         /\ Sound(n) /\ Undisturbed(j, n)
         /\ ~AgentTranslates(j)
<1> DEFINE n == Approve(j, gate)
<1>1. /\ JobShape(n) /\ n.maps = j.maps /\ n.refs = j.refs \cup {gate}
      /\ n.stages[gate].status = "completed"
      /\ n.stages[gate].hashes = j.stages[gate].hashes
      /\ \A t \in Chain : t # gate =>
           \/ n.stages[t] = j.stages[t]
           \/ /\ gate = "approve_translation" /\ t = "translate"
              /\ j.stages[t].status = "pending" /\ n.stages[t].status = "ready"
  BY ApproveFacts DEF Sound
<1>2. j.stages[gate].status = "ready"
  BY DEF MayApprove
<1>3. Skips(n) /\ References(n)
  BY <1>1, ChainStages DEF Sound, Skips, References, Completed
<1>4. CASE gate = "approve_translation"
  <2>1. /\ j.stages["translate"].status \notin {"completed", "running"}
        /\ ~AgentTranslates(j)
    BY <1>2, <1>4 DEF Sound, TranslationStands, Completed
  <2>2. /\ n.stages["translate"] = j.stages["translate"] \/ n.stages["translate"].status = "ready"
        /\ n.stages["promote"] = j.stages["promote"]
        /\ n.stages["approve_promotion"] = j.stages["approve_promotion"]
    BY <1>1, <1>4, ChainStages
  <2>3. TranslationStands(n) /\ TextAnswers(n)
    BY <2>1, <2>2 DEF TranslationStands, TextAnswers, Completed, AgentTranslates, AgentWaiting
  <2>4. PromotionStands(n)
    BY <1>1, <2>2 DEF Sound, PromotionStands
  <2>5. Undisturbed(j, n)
    BY <1>1, <1>4, <2>1, <2>2 DEF Undisturbed, Gates
  <2> QED BY <1>1, <1>3, <2>1, <2>3, <2>4, <2>5 DEF Sound
<1>5. CASE gate = "approve_promotion"
  <2>1. /\ j.stages["promote"].status \notin {"completed", "running"}
        /\ ~AgentTranslates(j)
    BY <1>2, <1>5 DEF Sound, PromotionStands, MayApprove, CanBindPromotion, Completed,
                      AgentTranslates, AgentWaiting
  <2>2. /\ n.stages["translate"] = j.stages["translate"]
        /\ n.stages["promote"] = j.stages["promote"]
        /\ n.stages["approve_translation"] = j.stages["approve_translation"]
    BY <1>1, <1>5, ChainStages
  <2>3. TranslationStands(n) /\ TextAnswers(n)
    BY <2>2 DEF Sound, TranslationStands, TextAnswers, Completed, AgentTranslates
  <2>4. PromotionStands(n)
    BY <2>1, <2>2 DEF PromotionStands
  <2>5. Undisturbed(j, n)
    BY <1>1, <1>5, <2>1, <2>2 DEF Undisturbed, Gates
  <2> QED BY <1>1, <1>3, <2>1, <2>3, <2>4, <2>5 DEF Sound
<1> QED BY <1>4, <1>5 DEF Gates

-----------------------------------------------------------------------------
(* The other changes of a job: each keeps it sound.                        *)

\* A job with nothing finished or under way behind its preparation is sound.
LEMMA QuietSound ==
  ASSUME NEW n, JobShape(n), Skips(n),
         \A t \in Chain \ {"split", "prepare"} :
           /\ n.stages[t].status \notin {"completed", "running"}
           /\ ~AgentWaiting(t, n.stages[t])
  PROVE  Sound(n)
<1>1. /\ {"translate", "promote"} \subseteq Chain \ {"split", "prepare"}
      /\ Gates \subseteq Chain \ {"split", "prepare"}
  BY ChainStages DEF Gates
<1> QED BY <1>1 DEF Sound, References, TranslationStands, PromotionStands, TextAnswers, Completed,
                    AgentTranslates

\* What the freshness check composes is sound: it acts only while no stage behind the
\* split is running or at an agent.
LEMMA FreshenedSound ==
  ASSUME Sound(job), ValidChild(job.stages), NEW invalidate,
         FreshnessAction(invalidate) # "none"
  PROVE  LET n == Freshened(FreshnessAction(invalidate)) IN
         /\ Sound(n) /\ Undisturbed(job, n)
         /\ ~AgentTranslates(job)
<1> DEFINE action  == FreshnessAction(invalidate)
           n       == Freshened(action)
           split   == job.stages["split"]
           rolled  == [job EXCEPT !.stages = InvalidateCompleted(job.stages, "split")]
           running == \E t \in Chain : /\ After(t, "split")
                                       /\ \/ job.stages[t].status = "running"
                                          \/ AgentWaiting(t, job.stages[t])
           committed == \E t \in Chain : After(t, "split") /\ Completed(job, t)
<1>1. StagesShape(job.stages) /\ JobShape(job) /\ Skips(job) /\ "split" \in Chain
  BY ChainStages DEF Sound, JobShape
<1>2. split.status \in {"completed", "blocked"}
  BY DEF FreshnessAction
<1>3. ~running
  <2>1. CASE split.status = "blocked"
    <3>1. \A t \in Chain : After(t, "split") => job.stages[t].status \in {"pending", "skipped"}
      BY <1>1, <2>1, ChildOrder DEF Done
    <3> QED BY <3>1 DEF AgentWaiting
  <2>2. CASE split.status = "completed"
    BY <2>2 DEF FreshnessAction
  <2> QED BY <1>2, <2>1, <2>2
<1>4. \A t \in Chain \ {"split"} : /\ job.stages[t].status # "running"
                                   /\ ~AgentWaiting(t, job.stages[t])
  BY <1>3, ChainStages
<1>5. ASSUME action # "rerun"
      PROVE  /\ JobShape(InvalidateAll(job))
             /\ \A t \in Chain \ {"split"} :
                  InvalidateAll(job).stages[t].status \in {"pending", "skipped"}
             /\ Skips(InvalidateAll(job))
  <2> DEFINE m == InvalidateAll(job)
  <2>1. /\ JobShape(m) /\ m.stages["split"] = job.stages["split"]
        /\ \A t \in Chain \ {"split"} :
              \/ m.stages[t].status = "pending"
              \/ m.stages[t] = job.stages[t] /\ job.stages[t].status = "skipped"
    BY <1>1, InvalidateAllFacts
  <2> QED BY <1>1, <1>2, <2>1 DEF Skips
<1>6. ASSUME action = "rerun"
      PROVE  /\ JobShape(rolled)
             /\ \A t \in Chain \ {"split"} :
                  \/ rolled.stages[t].status = "pending"
                  \/ rolled.stages[t] = job.stages[t] /\ job.stages[t].status # "completed"
             /\ Skips(rolled)
  <2> DEFINE f == InvalidateCompleted(job.stages, "split")
  <2>1. /\ StagesShape(f)
        /\ \A t \in Chain :
             \/ f[t] = job.stages[t] /\ ~(After(t, "split") /\ f[t].status = "completed")
             \/ f[t].status = "pending"
    <3>1. LET m == InvalidateCompleted(job.stages, "split") IN
         /\ StagesShape(m)
         /\ \A t \in Chain :
              \/ m[t] = job.stages[t] /\ ~(After(t, "split") /\ job.stages[t].status = "completed")
              \/ m[t].status = "pending"
      BY <1>1, InvalidateCompletedFacts
    <3> QED BY <3>1
  <2> HIDE DEF f
  <2>2. rolled = [job EXCEPT !.stages = f]
    BY DEF f
  <2>3. JobShape(rolled) /\ rolled.stages = f
    BY <1>1, <2>1, <2>2 DEF JobShape
  <2> QED BY <1>1, <2>1, <2>3, ChainStages DEF Skips
<1> DEFINE base == IF action = "rerun" THEN rolled ELSE InvalidateAll(job)
           source == SetHash(job.stages["split"].hashes, "source", files.source)
           hashes == IF action = "wipe" THEN SetHash(source, "splitPolicyVersion", Policy)
                     ELSE source
           status == IF action = "block" THEN "blocked" ELSE "ready"
<1>7. n = SplitReset(base, status, hashes)
  BY <1>1 DEF Freshened, JobShape
<1>8. /\ JobShape(base) /\ Skips(base)
      /\ \A t \in Chain \ {"split"} :
           \/ base.stages[t].status \in {"pending", "skipped"}
           \/ base.stages[t] = job.stages[t] /\ job.stages[t].status # "completed"
  BY <1>5, <1>6
<1>9. status \in Status /\ status # "skipped"
  BY DEF Status
<1> HIDE DEF base, hashes, status, n
<1>10. /\ JobShape(n) /\ n.stages["split"].status = status
       /\ \A t \in Chain \ {"split"} : n.stages[t] = base.stages[t]
  BY <1>7, <1>8, <1>9, SplitResetFacts
<1>11. Skips(n)
  BY <1>8, <1>9, <1>10 DEF Skips
<1>12. \A t \in Chain \ {"split"} : /\ n.stages[t].status \notin {"completed", "running"}
                                    /\ ~AgentWaiting(t, n.stages[t])
  BY <1>4, <1>8, <1>10 DEF AgentWaiting
<1>13. Sound(n)
  BY <1>10, <1>11, <1>12, QuietSound
<1>14. Undisturbed(job, n) /\ ~AgentTranslates(job)
  BY <1>2, <1>4, ChainStages DEF Undisturbed, AgentTranslates
<1> QED BY <1>13, <1>14 DEF n

\* The store refuses to set a running stage back to pending under the hashes of a
\* policy wipe.
LEMMA RunningNotWiped ==
  ASSUME NEW s \in Chain, NEW new, Savable(new),
         job.stages[s].status = "running", new.stages[s].status = "pending"
  PROVE  new.stages[s].hashes # PolicyHash
<1> SUFFICES ASSUME new.stages[s].hashes = PolicyHash PROVE FALSE
  OBVIOUS
<1>1. IsAllowedTransition(s, job.stages[s], new.stages[s], Policy)
  BY DEF Savable
<1>2. ~SoleHash(PolicyHash, "workerEvidenceInvalidation")
  BY DEF SoleHash, PolicyHash
<1>3. <<"running", "pending">> \notin PlainTransitions
  BY DEF PlainTransitions
<1> QED BY <1>1, <1>2, <1>3 DEF IsAllowedTransition, AgentWaiting

\* A roll-back for drifted maps is sound where the store accepts it; it takes the
\* request of an agent back only when the maps of the split are no longer valid.
LEMMA RolledBackSound ==
  ASSUME Sound(job), ValidChild(job.stages), MapsDrifted, NEW invalidate,
         Savable(RolledBack(invalidate))
  PROVE  LET n == RolledBack(invalidate) IN
         /\ Sound(n) /\ Undisturbed(job, n)
         /\ AgentTranslates(job) => ~MapsValid(job, "split")
<1> DEFINE n      == RolledBack(invalidate)
           hashes == SetHash(job.stages["split"].hashes, "structureMapDriftSha256",
                             <<job.maps.content, files.maps>>)
           status == IF invalidate THEN "ready" ELSE "blocked"
           all    == InvalidateAll(job)
           base   == [all EXCEPT !.refs = {}]
<1>1. JobShape(job) /\ Skips(job) /\ StagesShape(job.stages)
  BY DEF Sound, JobShape
<1>2. /\ JobShape(all)
      /\ \A t \in Chain \ {"split"} :
           \/ all.stages[t].status = "pending" /\ all.stages[t].hashes = PolicyHash
           \/ all.stages[t] = job.stages[t] /\ job.stages[t].status = "skipped"
  BY <1>1, InvalidateAllFacts
<1>3. JobShape(base) /\ base.stages = all.stages
  <2> HIDE DEF all
  <2> QED BY <1>2 DEF JobShape
<1>4. status \in Status /\ status # "skipped"
  BY DEF Status
<1>5. n = SplitReset(base, status, hashes)
  BY DEF RolledBack
<1> HIDE DEF base, all, status, hashes
<1>6. /\ JobShape(n) /\ n.stages["split"].status = status
      /\ \A t \in Chain \ {"split"} : n.stages[t] = base.stages[t]
  BY <1>3, <1>4, <1>5, SplitResetFacts
<1>7. \A t \in Chain \ {"split"} :
           \/ n.stages[t].status = "pending" /\ n.stages[t].hashes = PolicyHash
           \/ n.stages[t] = job.stages[t] /\ job.stages[t].status = "skipped"
  BY <1>2, <1>3, <1>6
<1>8. Skips(n)
  BY <1>1, <1>4, <1>6, <1>7 DEF Skips
<1>9. Sound(n)
  BY <1>6, <1>7, <1>8, QuietSound DEF AgentWaiting
<1>10. job.stages["split"].status = "completed"
  BY DEF MapsDrifted, Completed
<1>11. \A s \in Chain : job.stages[s].status # "running"
  BY <1>7, <1>10, RunningNotWiped
<1>12. Undisturbed(job, n)
  BY <1>11, ChainStages DEF Undisturbed
<1>13. ASSUME AgentTranslates(job) PROVE ~MapsValid(job, "split")
  <2>1. job.stages["promote"].status \in {"pending", "skipped"}
    BY <1>1, <1>13, ChildOrder, ChainStages DEF AgentTranslates, AgentWaiting, Done
  <2> QED BY <2>1 DEF MapsDrifted, Completed
<1> QED BY <1>9, <1>12, <1>13

\* Reconciling the scope changes pending stages only.
LEMMA ScopeReconciledSound ==
  ASSUME Sound(job)
  PROVE  LET n == ScopeReconciled IN
         /\ Sound(n) /\ Undisturbed(job, n)
         /\ AgentTranslates(job) => AgentTranslates(n)
<1> DEFINE n == ScopeReconciled
           pending == {t \in Chain : /\ Order[t] >= Order["translate"]
                                     /\ job.stages[t].status = "pending"}
           f == [t \in Chain |-> IF t \in pending THEN Pending(PolicyHash) ELSE job.stages[t]]
           maps == IF job.maps.stage \in pending THEN NoMaps ELSE job.maps
           issued == {i \in job.issued : i[1] \notin pending}
<1>1. JobShape(job) /\ StagesShape(job.stages)
  BY DEF Sound, JobShape
<1>2. n = [job EXCEPT !.stages = f, !.maps = maps, !.issued = issued]
  BY <1>1 DEF ScopeReconciled, JobShape
<1>3. \A t \in Chain : \/ f[t] = job.stages[t]
                       \/ f[t].status = "pending" /\ job.stages[t].status = "pending"
  BY PendingShape
<1>4. StagesShape(f)
  BY <1>1, PendingShape DEF StagesShape
<1>5. maps.stage = "promote" => maps = job.maps
  BY DEF NoMaps
<1> HIDE DEF f, maps, issued, n
<1>6. JobShape(n) /\ n.stages = f /\ n.refs = job.refs /\ n.maps = maps
  BY <1>1, <1>2, <1>4 DEF JobShape
<1>7. /\ \A t \in Chain : \/ n.stages[t] = job.stages[t]
                          \/ n.stages[t].status = "pending" /\ job.stages[t].status = "pending"
      /\ n.maps.stage = "promote" => n.maps = job.maps
  BY <1>3, <1>5, <1>6
<1>8. Skips(n) /\ References(n)
  BY <1>6, <1>7, ChainStages DEF Sound, Skips, References, Completed
<1>9. /\ {"approve_translation", "approve_promotion", "translate", "promote"} \subseteq Chain
  BY ChainStages
<1>10. TranslationStands(n) /\ TextAnswers(n)
  BY <1>7, <1>9 DEF Sound, TranslationStands, TextAnswers, Completed, AgentTranslates, AgentWaiting
<1>11. PromotionStands(n)
  BY <1>7, <1>9 DEF Sound, PromotionStands
<1>12. AgentTranslates(job) => AgentTranslates(n)
  BY <1>7, <1>9 DEF AgentTranslates, AgentWaiting
<1>13. Undisturbed(job, n)
  <2>1. job.stages["translate"].status = "running" =>
          n.stages["approve_translation"] = job.stages["approve_translation"]
    BY <1>7, <1>9 DEF Sound, TranslationStands
  <2>2. job.stages["promote"].status = "running" =>
          n.stages["approve_promotion"] = job.stages["approve_promotion"]
    BY <1>7, <1>9 DEF Sound, PromotionStands
  <2> QED BY <1>7, <2>1, <2>2 DEF Undisturbed
<1> QED BY <1>6, <1>8, <1>10, <1>11, <1>12, <1>13 DEF Sound, n

\* A review reopened because its text changed: where the store accepts it, no stage
\* behind the review was running.
LEMMA QaReopenedSound ==
  ASSUME Sound(job), ValidChild(job.stages), QaIsStale, Savable(QaReopened)
  PROVE  LET n == QaReopened IN
         /\ Sound(n) /\ Undisturbed(job, n)
         /\ ~AgentTranslates(job)
<1> DEFINE n == QaReopened
           f == InvalidateCompleted(job.stages, "expert_qa")
           r == [job.stages["expert_qa"] EXCEPT !.status = "ready", !.owner = NoOwner,
                                                !.hashes = {<<"invalidatedUnit", files.text>>}]
           g == [f EXCEPT !["expert_qa"] = r]
           refs == job.refs \ {"approve_promotion"}
<1>1. /\ JobShape(job) /\ StagesShape(job.stages) /\ Skips(job)
      /\ {"expert_qa", "translate", "promote", "approve_translation", "approve_promotion"}
           \subseteq Chain
  BY ChainStages DEF Sound, JobShape
<1>2. /\ StagesShape(f)
      /\ \A t \in Chain :
           \/ /\ f[t] = job.stages[t]
              /\ ~(After(t, "expert_qa") /\ job.stages[t].status = "completed")
           \/ /\ f[t].status = "pending" /\ After(t, "expert_qa")
              /\ job.stages[t].status = "completed" \/ t \in Gates
  <2> HIDE DEF f
  <2>1. f = InvalidateCompleted(job.stages, "expert_qa")
    BY DEF f
  <2>2. "expert_qa" \in Chain /\ StagesShape(job.stages)
    BY <1>1
  <2> QED BY <2>1, <2>2, InvalidateCompletedFacts
<1>3. StageShape(r) /\ r.status = "ready"
  BY <1>1 DEF StagesShape, StageShape, Status
<1>4. n = [job EXCEPT !.stages = g, !.refs = refs]
  BY <1>1 DEF QaReopened, JobShape
<1>5. StagesShape(g) /\ g["expert_qa"] = r /\ \A t \in Chain : t # "expert_qa" => g[t] = f[t]
  <2> HIDE DEF f, r
  <2> QED BY <1>1, <1>2, <1>3, StageReplaced
<1> HIDE DEF f, g, r, n
<1>6. /\ JobShape(n) /\ n.stages = g
      /\ n.refs = job.refs \ {"approve_promotion"} /\ n.maps = job.maps
  BY <1>1, <1>4, <1>5 DEF JobShape
<1>7. job.stages["expert_qa"].status = "completed"
  BY DEF QaIsStale, Completed
<1>8. /\ n.stages["expert_qa"].status = "ready"
      /\ \A t \in Chain \ {"expert_qa"} :
           \/ /\ n.stages[t] = job.stages[t]
              /\ ~(After(t, "expert_qa") /\ job.stages[t].status = "completed")
           \/ /\ n.stages[t].status = "pending" /\ After(t, "expert_qa")
              /\ job.stages[t].status = "completed" \/ t \in Gates
  BY <1>2, <1>3, <1>5, <1>6
<1>9. \A t \in Chain : After(t, "expert_qa") => n.stages[t].status \in {"pending", "skipped"}
  <2>1. ValidChild(n.stages)
    BY DEF Savable, n
  <2> QED BY <1>1, <1>6, <1>8, <2>1, ChildOrder DEF Done, JobShape
<1>10. /\ n.stages["translate"] = job.stages["translate"]
       /\ n.stages["approve_translation"] = job.stages["approve_translation"]
  BY <1>1, <1>8, ChainStages
<1>11. /\ n.stages["promote"].status \in {"pending", "skipped"}
       /\ n.stages["approve_promotion"].status \in {"pending", "skipped"}
  BY <1>1, <1>9, ChainStages
<1>12. Skips(n)
  BY <1>1, <1>8 DEF Skips
<1>13. References(n)
  BY <1>6, <1>10, <1>11 DEF Sound, References, Gates, Completed
<1>14. TranslationStands(n) /\ TextAnswers(n)
  BY <1>10 DEF Sound, TranslationStands, TextAnswers, Completed, AgentTranslates
<1>15. PromotionStands(n)
  BY <1>11 DEF PromotionStands
<1>16. \A t \in Chain \ Gates : job.stages[t].status = "running" => n.stages[t] = job.stages[t]
  BY <1>7, <1>8
<1>17. job.stages["promote"].status # "running"
  BY <1>1, <1>11, <1>16 DEF Gates
<1>18. Undisturbed(job, n)
  BY <1>10, <1>16, <1>17 DEF Undisturbed
<1>19. ~AgentTranslates(job)
  <2>1. job.stages["translate"].status \in Done
    BY <1>1, <1>7, ChildOrder, ChainStages DEF Done
  <2> QED BY <2>1 DEF AgentTranslates, AgentWaiting, Done
<1> QED BY <1>6, <1>12, <1>13, <1>14, <1>15, <1>18, <1>19 DEF Sound, n

\* A new configuration or prompt pack alone changes no stage.
LEMMA SettingsSound ==
  ASSUME Sound(job), NEW n, JobShape(n),
         n.stages = job.stages, n.refs = job.refs, n.maps = job.maps
  PROVE  Sound(n) /\ Undisturbed(job, n)
  BY DEF Sound, Skips, References, TranslationStands, PromotionStands, TextAnswers, Completed,
         AgentTranslates, Undisturbed

\* A recovery fails the running stages without a living owner, and no other stage.
LEMMA RecoveredSound ==
  ASSUME Sound(job)
  PROVE  /\ Sound(Recovered)
         /\ \A s \in Chain \ Orphans : Recovered.stages[s] = job.stages[s]
<1> DEFINE f == [s \in Chain |->
                   IF s \in Orphans
                   THEN [job.stages[s] EXCEPT !.status = "failed", !.owner = NoOwner]
                   ELSE job.stages[s]]
           n == Recovered
<1>1. JobShape(job) /\ StagesShape(job.stages)
  BY DEF Sound, JobShape
<1>2. ASSUME NEW s \in Chain
      PROVE  /\ StageShape(f[s])
             /\ \/ f[s] = job.stages[s]
                \/ f[s].status = "failed" /\ job.stages[s].status = "running"
  <2>1. StageShape(job.stages[s])
    BY <1>1 DEF StagesShape
  <2>2. CASE s \in Orphans
    <3>1. f[s] = [job.stages[s] EXCEPT !.status = "failed", !.owner = NoOwner]
      BY <2>2
    <3>2. StageShape(f[s]) /\ f[s].status = "failed"
      BY <2>1, <3>1 DEF StageShape, Status
    <3> QED BY <2>2, <3>2 DEF Orphans
  <2> QED BY <2>1, <2>2
<1>3. StagesShape(f)
  BY <1>2 DEF StagesShape
<1>4. n = [job EXCEPT !.stages = f]
  BY DEF Recovered
<1>5. \A s \in Chain \ Orphans : f[s] = job.stages[s]
  OBVIOUS
<1>6. \A s \in Chain : \/ f[s] = job.stages[s]
                       \/ f[s].status = "failed" /\ job.stages[s].status = "running"
  BY <1>2
<1> HIDE DEF f, n
<1>7. JobShape(n) /\ n.stages = f /\ n.refs = job.refs /\ n.maps = job.maps
  BY <1>1, <1>3, <1>4 DEF JobShape
<1>8. {"translate", "promote", "approve_translation", "approve_promotion"} \subseteq Chain
  BY ChainStages
<1>9. Skips(n) /\ References(n)
  BY <1>6, <1>7, ChainStages DEF Sound, Skips, References, Completed
<1>10. TranslationStands(n) /\ TextAnswers(n)
  BY <1>6, <1>7, <1>8 DEF Sound, TranslationStands, TextAnswers, Completed, AgentTranslates,
                         AgentWaiting
<1>11. PromotionStands(n)
  BY <1>6, <1>7, <1>8 DEF Sound, PromotionStands
<1> QED BY <1>5, <1>7, <1>9, <1>10, <1>11 DEF Sound, n

\* A stage that is started is the first unfinished one; the gate before it is
\* completed, and nothing else changes.
LEMMA StartedSound ==
  ASSUME Sound(job), NEW p \in Command, NEW s \in StageToRun(job.stages)
  PROVE  LET n == Started(p, s) IN
         /\ Sound(n) /\ s \in Chain \ Gates
         /\ n.stages[s].status = "running" /\ n.stages[s].owner = p
         /\ job.stages[s].status # "running"
         /\ \A t \in Chain : t # s => n.stages[t] = job.stages[t]
         /\ \A t \in Chain : After(s, t) => job.stages[t].status \in Done
         /\ job.stages[s].status \notin Done
<1> DEFINE n  == Started(p, s)
           st == job.stages[s]
           a  == st.attempt + 1
           r  == [st EXCEPT !.status = "running", !.attempt = a, !.owner = p]
           f  == [job.stages EXCEPT ![s] = r]
<1>1. JobShape(job) /\ StagesShape(job.stages)
  BY DEF Sound, JobShape
<1>2. DOMAIN job.stages = Chain
  BY <1>1 DEF StagesShape
<1>3. /\ s \in Chain /\ job.stages[s].status \notin Done
      /\ Runnable(s, job.stages[s])
      /\ \A t \in Chain : After(s, t) => job.stages[t].status \in Done
  BY <1>2 DEF StageToRun
<1>4. s \notin Gates /\ job.stages[s].status # "running"
  BY <1>3 DEF Runnable, RunnableStatus, AgentWaiting, Gates
<1>5. a \in Nat
  BY <1>1, <1>3 DEF StagesShape, StageShape
<1>6. StageShape(st)
  BY <1>1, <1>3 DEF StagesShape
<1>7. n = [job EXCEPT !.stages = f]
  BY <1>1 DEF Started, JobShape
<1> HIDE DEF a, st, n
<1>8. StageShape(r) /\ r.status = "running" /\ r.owner = p
  BY <1>5, <1>6 DEF StageShape, Status
<1>9. StagesShape(f) /\ f[s] = r /\ \A t \in Chain : t # s => f[t] = job.stages[t]
  <2> HIDE DEF r
  <2> QED BY <1>1, <1>3, <1>8, StageReplaced
<1> HIDE DEF r, f
<1>10. JobShape(n) /\ n.stages = f /\ n.refs = job.refs /\ n.maps = job.maps
  BY <1>1, <1>7, <1>9 DEF JobShape
<1>11. /\ n.stages[s].status = "running" /\ n.stages[s].owner = p
       /\ \A t \in Chain : t # s => n.stages[t] = job.stages[t]
  BY <1>8, <1>9, <1>10
<1>12. {"translate", "promote", "approve_translation", "approve_promotion"} \subseteq Chain
  BY ChainStages
<1>13. Skips(n) /\ References(n)
  BY <1>3, <1>4, <1>10, <1>11, ChainStages DEF Sound, Skips, References, Completed
<1>14. \A gate \in Gates : After(s, gate) => n.stages[gate].status = "completed"
  <2>1. \A gate \in Gates : gate # "build_digest" /\ gate \in Chain
    BY ChainStages DEF Gates
  <2> QED BY <1>3, <1>4, <1>11, <2>1 DEF Sound, Skips, Done
<1>15. TranslationStands(n) /\ TextAnswers(n)
  <2>1. CASE s = "translate"
    <3>1. n.stages["approve_translation"].status = "completed"
      BY <1>12, <1>14, <2>1, ChainStages DEF Gates
    <3> QED BY <1>11, <2>1, <3>1 DEF TranslationStands, TextAnswers, Completed, AgentTranslates,
                                     AgentWaiting
  <2>2. CASE s # "translate"
    <3>1. /\ n.stages["translate"] = job.stages["translate"]
          /\ n.stages["approve_translation"] = job.stages["approve_translation"]
      BY <1>4, <1>11, <1>12, <2>2 DEF Gates
    <3> QED BY <3>1 DEF Sound, TranslationStands, TextAnswers, Completed, AgentTranslates
  <2> QED BY <2>1, <2>2
<1>16. PromotionStands(n)
  <2>1. CASE s = "promote"
    <3>1. n.stages["approve_promotion"].status = "completed"
      BY <1>12, <1>14, <2>1, ChainStages DEF Gates
    <3> QED BY <1>11, <2>1, <3>1 DEF PromotionStands
  <2>2. CASE s # "promote"
    <3>1. /\ n.stages["promote"] = job.stages["promote"]
          /\ n.stages["approve_promotion"] = job.stages["approve_promotion"]
      BY <1>4, <1>11, <1>12, <2>2 DEF Gates
    <3> QED BY <1>10, <3>1 DEF Sound, PromotionStands
  <2> QED BY <2>1, <2>2
<1> QED BY <1>3, <1>4, <1>10, <1>11, <1>13, <1>15, <1>16 DEF Sound, n

\* A result recorded in the job as it is now: the stage was still running under the
\* gate of the snapshot, so what was made under that gate stands on it.
LEMMA RecordedSound ==
  ASSUME Sound(job), NEW p \in Command, Runs(p), Returns(p)
  PROVE  /\ Sound(Recorded(p))
         /\ \A t \in Chain : t # cmd[p].stage => Recorded(p).stages[t] = job.stages[t]
<1> DEFINE n  == Recorded(p)
           s  == cmd[p].stage
           r  == cmd[p].result
           st == job.stages[s]
           x  == [st EXCEPT !.status = ResultStatus[r.kind],
                            !.owner  = IF r.kind = "waiting" THEN AgentOwner ELSE NoOwner,
                            !.hashes = IF r.kind = "error" THEN st.hashes ELSE r.hashes]
           f  == [job.stages EXCEPT ![s] = x]
           content == CHOOSE c \in r.evidence : TRUE
           maps == IF s \in {"split", "promote"} /\ r.kind = "completed"
                   THEN [stage |-> s, content |-> content] ELSE job.maps
           units == job.units \/ s = "prepare"
           issued == IF s \in {"translate", "expert_qa"}
                     THEN {i \in job.issued : i[1] # s} \cup r.evidence ELSE job.issued
<1>1. JobShape(job) /\ StagesShape(job.stages)
  BY DEF Sound, JobShape
<1>2. /\ s \in Chain \ Gates /\ st.status = "running"
      /\ r.kind \in {"completed", "waiting", "failed", "error"}
  BY DEF Runs, Returns
<1>3. StageShape(st)
  BY <1>1, <1>2 DEF StagesShape
<1> DEFINE status == ResultStatus[r.kind]
           owner  == IF r.kind = "waiting" THEN AgentOwner ELSE NoOwner
           hashes == IF r.kind = "error" THEN st.hashes ELSE r.hashes
<1>4. /\ status \in Status \ {"skipped", "running"}
      /\ status = "completed" <=> r.kind = "completed"
      /\ status = "blocked" <=> r.kind = "waiting"
  BY <1>2 DEF ResultStatus, Status
<1>5. /\ StageShape(x) /\ x.status = status /\ x.hashes = hashes
  <2>1. owner \in Command \cup {NoOwner, AgentOwner}
    OBVIOUS
  <2>2. x = [st EXCEPT !.status = status, !.owner = owner, !.hashes = hashes]
    OBVIOUS
  <2> HIDE DEF status, owner, hashes, st, x
  <2> QED BY <1>3, <1>4, <2>1, <2>2 DEF StageShape
<1>6. StagesShape(f) /\ f[s] = x /\ \A t \in Chain : t # s => f[t] = job.stages[t]
  <2> HIDE DEF x, s
  <2> QED BY <1>1, <1>2, <1>5, StageReplaced
<1>7. /\ JobShape(n) /\ n.stages = f /\ n.refs = job.refs
      /\ n.maps = job.maps \/ n.maps = maps
      /\ s = "promote" /\ r.kind = "completed" => n.maps = maps
  <2>1. CASE r.kind = "error"
    <3>1. n = [job EXCEPT !.stages = f]
      BY <2>1 DEF Recorded
    <3> HIDE DEF f, n, maps
    <3> QED BY <1>1, <1>6, <2>1, <3>1 DEF JobShape
  <2>2. CASE r.kind # "error"
    <3>1. n = [job EXCEPT !.stages = f, !.maps = maps, !.units = units, !.issued = issued]
      BY <1>1, <2>2 DEF Recorded, JobShape
    <3>2. units \in BOOLEAN
      BY <1>1 DEF JobShape
    <3> HIDE DEF f, n, maps, units, issued
    <3> QED BY <1>1, <1>6, <2>2, <3>1, <3>2 DEF JobShape
  <2> QED BY <2>1, <2>2
<1> HIDE DEF x, f, n, status, owner, hashes, content
<1>8. /\ n.stages[s].status = status /\ n.stages[s].hashes = hashes
      /\ \A t \in Chain : t # s => n.stages[t] = job.stages[t]
  BY <1>5, <1>6, <1>7
<1>9. {"translate", "promote", "approve_translation", "approve_promotion"} \subseteq Chain
  BY ChainStages
<1>10. Skips(n) /\ References(n)
  BY <1>2, <1>4, <1>7, <1>8, ChainStages DEF Sound, Skips, References, Completed
<1>11. TranslationStands(n) /\ TextAnswers(n)
  <2>1. CASE s = "translate"
    <3>1. n.stages["approve_translation"] = job.stages["approve_translation"]
      BY <1>8, <1>9, <2>1
    <3>2. /\ job.stages["approve_translation"].status = "completed"
          /\ job.stages["approve_translation"].hashes
               = cmd[p].seen.stages["approve_translation"].hashes
      BY <1>2, <2>1 DEF Sound, TranslationStands, Runs
    <3>3. ASSUME n.stages["translate"].status \in {"completed", "blocked"}
          PROVE  job.stages["approve_translation"].hashes \subseteq n.stages["translate"].hashes
      BY <1>2, <1>4, <1>8, <2>1, <3>2, <3>3 DEF Returns, hashes
    <3>4. TranslationStands(n)
      BY <3>1, <3>2, <3>3 DEF TranslationStands, Completed, AgentTranslates, AgentWaiting
    <3>5. TextAnswers(n)
      BY <1>4, <1>8, <2>1 DEF TextAnswers, Completed, Returns, hashes
    <3> QED BY <3>4, <3>5
  <2>2. CASE s # "translate"
    <3>1. /\ n.stages["translate"] = job.stages["translate"]
          /\ n.stages["approve_translation"] = job.stages["approve_translation"]
      BY <1>2, <1>8, <1>9, <2>2 DEF Gates
    <3> QED BY <3>1 DEF Sound, TranslationStands, TextAnswers, Completed, AgentTranslates
  <2> QED BY <2>1, <2>2
<1>12. PromotionStands(n)
  <2>1. CASE s = "promote"
    <3>1. n.stages["approve_promotion"] = job.stages["approve_promotion"]
      BY <1>8, <1>9, <2>1
    <3>2. /\ job.stages["approve_promotion"].status = "completed"
          /\ job.stages["approve_promotion"].hashes
               = cmd[p].seen.stages["approve_promotion"].hashes
      BY <1>2, <2>1 DEF Sound, PromotionStands, Runs
    <3>3. ASSUME n.stages["promote"].status = "completed"
          PROVE  \E b \in job.stages["approve_promotion"].hashes : b[2].text = n.maps.content.text
      <4>1. r.kind = "completed"
        BY <1>4, <1>8, <2>1, <3>3
      <4>2. PICK m : /\ r.evidence = {m}
                     /\ \E b \in job.stages["approve_promotion"].hashes : b[2].text = m.text
        BY <2>1, <3>2, <4>1 DEF Returns
      <4>3. content = m
        BY <4>2 DEF content
      <4>4. n.maps.content = m
        BY <1>7, <2>1, <4>1, <4>3
      <4> QED BY <4>2, <4>4
    <3> QED BY <3>1, <3>2, <3>3 DEF PromotionStands
  <2>2. CASE s # "promote"
    <3>1. /\ n.stages["promote"] = job.stages["promote"]
          /\ n.stages["approve_promotion"] = job.stages["approve_promotion"]
      BY <1>2, <1>8, <1>9, <2>2 DEF Gates
    <3>2. n.maps.stage = "promote" => n.maps = job.maps
      <4>1. maps = job.maps \/ maps.stage = s
        OBVIOUS
      <4> QED BY <1>7, <2>2, <4>1
    <3> QED BY <3>1, <3>2 DEF Sound, PromotionStands
  <2> QED BY <2>1, <2>2
<1> QED BY <1>7, <1>8, <1>10, <1>11, <1>12 DEF Sound, n

-----------------------------------------------------------------------------
(* The steps: each preserves the invariant.                                *)

\* A command that returned.
LEMMA IdleShape == CmdShape(Idle) /\ Idle.at = "idle" /\ Idle.at \notin {"work", "record"}
<1> DEFINE seen == NewJob("none", DigestMode)
<1>1. Idle = [at |-> "idle", invalidate |-> FALSE, retrying |-> FALSE, stage |-> "none",
              seen |-> seen, result |-> NoResult]
  BY DEF Idle
<1> HIDE DEF seen
<1> QED BY <1>1 DEF CmdShape, Places

\* One command moves, the others stay where they are.
LEMMA CommandMoves ==
  ASSUME CmdsShape, NEW p \in Command, NEW c, CmdShape(c), cmd' = [cmd EXCEPT ![p] = c]
  PROVE  /\ CmdsShape' /\ cmd'[p] = c
         /\ \A q \in Command : q # p => cmd'[q] = cmd[q]
<1>1. cmd' = [q \in Command |-> IF q = p THEN c ELSE cmd[q]]
  BY DEF CmdsShape
<1>2. \A q \in Command : CmdShape(cmd'[q])
  BY <1>1 DEF CmdsShape
<1> QED BY <1>1, <1>2 DEF CmdsShape, CmdShape

\* An edit of one kind of file leaves the answers of agents alone.
LEMMA FilesUpdates ==
  ASSUME FilesShape(files), NEW v
  PROVE  /\ FilesShape([files EXCEPT !.source = v])
         /\ [files EXCEPT !.source = v].answers = files.answers
         /\ FilesShape([files EXCEPT !.maps = v])
         /\ [files EXCEPT !.maps = v].answers = files.answers
         /\ FilesShape([files EXCEPT !.text = v])
         /\ [files EXCEPT !.text = v].answers = files.answers
         /\ FilesShape([files EXCEPT !.answers = v])
         /\ [files EXCEPT !.answers = v].answers = v
  BY DEF FilesShape

\* A job that is sound stays sound under the files of the next state.
LEMMA SoundNext ==
  ASSUME NEW n, Sound(n), job' = n,
         AnswersKept
  PROVE  Sound(job)'
<1>1. JobShape(job)'
  BY DEF Sound, JobShape, StagesShape, StageShape
<1>2. Skips(job)' /\ References(job)'
  BY DEF Sound, Skips, References, Completed
<1>3. TranslationStands(job)'
  BY DEF Sound, TranslationStands, Completed, AgentTranslates, AgentWaiting
<1>4. PromotionStands(job)'
  BY DEF Sound, PromotionStands
<1>5. TextAnswers(job)'
  BY DEF AnswersKept, Sound, TextAnswers, Answered, Completed
<1> QED BY <1>1, <1>2, <1>3, <1>4, <1>5 DEF Sound

\* A step that leaves the commands at work alone, composes a sound job and does not
\* disturb running stages preserves the invariant.
LEMMA Carried ==
  ASSUME IInv, NEW n, job' = n, Sound(n), ValidChild(n.stages), Undisturbed(job, n),
         AnswersKept,
         CmdsShape', live' \subseteq Command, edits' \in 0 .. EditBound,
         \A q \in Command : LeftAlone(q)
  PROVE  IInv'
<1>1. Sound(job)'
  BY SoundNext
<1>2. ValidChild(job.stages)'
  BY DEF ValidChild, ValidOwner, AgentWaiting
<1>3. ASSUME NEW q \in Command, Executing(q)' PROVE Runs(q)'
  <2>1. cmd'[q] = cmd[q] /\ Executing(q) /\ (q \in live => q \in live')
    BY <1>3 DEF Executing, LeftAlone
  <2>2. Runs(q)
    BY <2>1 DEF IInv
  <2> DEFINE s == cmd[q].stage
  <2>3. s \in Chain \ Gates /\ job.stages[s].status = "running" /\ n.stages[s] = job.stages[s]
    BY <2>2 DEF Runs, Undisturbed
  <2>4. /\ s = "translate" => n.stages["approve_translation"] = job.stages["approve_translation"]
        /\ s = "promote" => n.stages["approve_promotion"] = job.stages["approve_promotion"]
    BY <2>3 DEF Undisturbed
  <2> QED BY <2>1, <2>2, <2>3, <2>4 DEF Runs
<1>4. ASSUME NEW q \in Command, cmd'[q].at = "record" PROVE Returns(q)'
  <2>1. cmd'[q] = cmd[q]
    BY <1>4 DEF LeftAlone
  <2>2. Returns(q)
    BY <1>4, <2>1 DEF IInv
  <2> QED BY <2>1, <2>2 DEF Returns, Answered, AnswersKept
<1>5. FilesShape(files)'
  BY DEF AnswersKept, FilesShape
<1> QED BY <1>1, <1>2, <1>3, <1>4, <1>5 DEF IInv

\* A command that ends leaves the others alone.
LEMMA EndKeeps ==
  ASSUME CmdsShape, live \subseteq Command, NEW p \in Command, End(p)
  PROVE  /\ CmdsShape' /\ live' \subseteq Command
         /\ \A q \in Command : LeftAlone(q)
<1>1. cmd' = [cmd EXCEPT ![p] = Idle] /\ live' = live \ {p}
  BY DEF End
<1>2. /\ CmdsShape' /\ cmd'[p] = Idle
      /\ \A q \in Command : q # p => cmd'[q] = cmd[q]
  BY <1>1, IdleShape, CommandMoves
<1> QED BY <1>1, <1>2, IdleShape DEF LeftAlone

\* A command that goes on to its next phase leaves the others alone.
LEMMA GoToKeeps ==
  ASSUME CmdsShape, live \subseteq Command, NEW p \in Command,
         NEW at \in Places \ {"work", "record"}, GoTo(p, at)
  PROVE  /\ CmdsShape' /\ live' \subseteq Command
         /\ \A q \in Command : LeftAlone(q)
<1> DEFINE c == [cmd[p] EXCEPT !.at = at]
<1>1. cmd' = [cmd EXCEPT ![p] = c] /\ live' = live
  BY DEF GoTo, CmdsShape, CmdShape
<1>2. CmdShape(c) /\ c.at = at
  BY DEF CmdsShape, CmdShape
<1> HIDE DEF c
<1>3. /\ CmdsShape' /\ cmd'[p] = c
      /\ \A q \in Command : q # p => cmd'[q] = cmd[q]
  BY <1>1, <1>2, CommandMoves
<1> QED BY <1>1, <1>2, <1>3 DEF LeftAlone

\* A phase whose change is sound and undisturbing preserves the invariant.
LEMMA PhaseKeeps ==
  ASSUME IInv, NEW p \in Command, NEW new, NEW name, NEW stop,
         NEW next \in Places \ {"work", "record"},
         Phase(p, new, name, stop, next),
         new # job /\ Savable(new) => Sound(new) /\ Undisturbed(job, new)
  PROVE  IInv'
<1>1. CmdsShape /\ live \subseteq Command /\ edits \in 0 .. EditBound
      /\ Sound(job) /\ ValidChild(job.stages)
  BY DEF IInv
<1>2. files' = files /\ edits' = edits
  BY DEF Phase
<1>3. GoTo(p, next) \/ End(p)
  BY DEF Phase
<1>4. /\ CmdsShape' /\ live' \subseteq Command
      /\ \A q \in Command : LeftAlone(q)
  BY <1>1, <1>3, EndKeeps, GoToKeeps
<1> AnswersKept
  BY <1>2 DEF IInv, AnswersKept
<1>5. CASE job' = job
  BY <1>1, <1>2, <1>4, <1>5, Carried DEF Undisturbed
<1>6. CASE job' # job
  <2>1. new # job /\ Savable(new) /\ job' = new
    BY <1>6 DEF Phase
  <2>2. ValidChild(new.stages)
    BY <2>1 DEF Savable
  <2> QED BY <1>1, <1>2, <1>4, <2>1, <2>2, Carried
<1> QED BY <1>5, <1>6

\* The six phases before a stage is started preserve the invariant.
LEMMA PhasesKeep ==
  ASSUME IInv, NEW p \in Command,
         \/ SplitFreshness(p) \/ StructureMaps(p) \/ UnitScope(p) \/ StaleQa(p)
         \/ TranslationGate(p) \/ PromotionGate(p)
  PROVE  IInv'
<1>1. Sound(job) /\ ValidChild(job.stages)
  BY DEF IInv
<1>2. CASE SplitFreshness(p)
  <2> DEFINE action == FreshnessAction(cmd[p].invalidate)
             new == IF action = "none" THEN job ELSE Freshened(action)
  <2>1. Phase(p, new, "freshness", action = "block", "maps")
    BY <1>2 DEF SplitFreshness
  <2>2. new # job => Sound(new) /\ Undisturbed(job, new)
    BY <1>1, FreshenedSound
  <2> HIDE DEF new, action
  <2> QED BY <2>1, <2>2, PhaseKeeps DEF Places
<1>3. CASE StructureMaps(p)
  <2> DEFINE new == IF MapsDrifted THEN RolledBack(cmd[p].invalidate) ELSE job
  <2>1. Phase(p, new, "maps", ~cmd[p].invalidate, "scope")
    BY <1>3 DEF StructureMaps
  <2>2. new # job /\ Savable(new) => Sound(new) /\ Undisturbed(job, new)
    BY <1>1, RolledBackSound
  <2> HIDE DEF new
  <2> QED BY <2>1, <2>2, PhaseKeeps DEF Places
<1>4. CASE UnitScope(p)
  <2> DEFINE new == IF job.units THEN ScopeReconciled ELSE job
  <2>1. Phase(p, new, "scope", FALSE, "qa")
    BY <1>4 DEF UnitScope
  <2>2. new # job => Sound(new) /\ Undisturbed(job, new)
    BY <1>1, ScopeReconciledSound
  <2> HIDE DEF new
  <2> QED BY <2>1, <2>2, PhaseKeeps DEF Places
<1>5. CASE StaleQa(p)
  <2> DEFINE new == IF QaIsStale THEN QaReopened ELSE job
  <2>1. Phase(p, new, "qa", FALSE, "translation_gate")
    BY <1>5 DEF StaleQa
  <2>2. new # job /\ Savable(new) => Sound(new) /\ Undisturbed(job, new)
    BY <1>1, QaReopenedSound
  <2> HIDE DEF new
  <2> QED BY <2>1, <2>2, PhaseKeeps DEF Places
<1>6. CASE TranslationGate(p)
  <2> DEFINE readied == ReadyTranslation(job)
             self == AutoApprove /\ MayApprove(job, "approve_translation")
             new == IF self THEN Approve(job, "approve_translation") ELSE job
  <2>1. CASE readied # job
    <3>1. Phase(p, readied, "translation_gate", ~AutoApprove, "freshness")
      BY <1>6, <2>1 DEF TranslationGate
    <3>2. Sound(readied) /\ Undisturbed(job, readied)
      BY <1>1, ReadyTranslationSound
    <3> HIDE DEF readied
    <3> QED BY <3>1, <3>2, PhaseKeeps DEF Places
  <2>2. CASE readied = job
    <3>1. Phase(p, new, "translation_gate", FALSE, "promotion_gate")
      BY <1>6, <2>2 DEF TranslationGate
    <3>2. new # job => Sound(new) /\ Undisturbed(job, new)
      BY <1>1, ApproveSound DEF Gates
    <3> HIDE DEF new
    <3> QED BY <3>1, <3>2, PhaseKeeps DEF Places
  <2> QED BY <2>1, <2>2
<1>7. CASE PromotionGate(p)
  <2> DEFINE new == ReadyPromotion(job)
  <2>1. Phase(p, new, "promotion_gate", TRUE, "start")
    BY <1>7 DEF PromotionGate
  <2>2. Sound(new) /\ Undisturbed(job, new)
    BY <1>1, ReadyPromotionSound
  <2> HIDE DEF new
  <2> QED BY <2>1, <2>2, PhaseKeeps DEF Places
<1> QED BY <1>2, <1>3, <1>4, <1>5, <1>6, <1>7

\* A start preserves the invariant: the snapshot it saves and works on holds the gate
\* as it is.
LEMMA StartKeeps ==
  ASSUME IInv, NEW p \in Command, StartStage(p)
  PROVE  IInv'
<1>1. CmdsShape /\ live \subseteq Command /\ edits \in 0 .. EditBound
      /\ Sound(job) /\ ValidChild(job.stages)
  BY DEF IInv
<1>2. files' = files /\ edits' = edits
  BY DEF StartStage
<1> AnswersKept /\ FilesShape(files)'
  BY <1>2 DEF IInv, AnswersKept, FilesShape
<1>3. CASE job' = job /\ End(p)
  <2>1. /\ CmdsShape' /\ live' \subseteq Command
        /\ \A q \in Command : LeftAlone(q)
    BY <1>1, <1>3, EndKeeps
  <2> QED BY <1>1, <1>2, <1>3, <2>1, Carried DEF Undisturbed
<1>4. CASE ~(job' = job /\ End(p))
  <2>1. PICK s \in StageToRun(job.stages) :
          /\ Savable(Started(p, s)) /\ job' = Started(p, s)
          /\ live' = live \cup {p}
          /\ cmd' = [cmd EXCEPT ![p] = [cmd[p] EXCEPT !.at = "work", !.stage = s,
                                                      !.seen = Started(p, s)]]
    BY <1>1, <1>4 DEF StartStage, CmdsShape
  <2> DEFINE n == Started(p, s)
             c == [cmd[p] EXCEPT !.at = "work", !.stage = s, !.seen = n]
  <2>2. /\ Sound(n) /\ s \in Chain \ Gates
        /\ n.stages[s].status = "running" /\ n.stages[s].owner = p
        /\ job.stages[s].status # "running"
        /\ \A t \in Chain : t # s => n.stages[t] = job.stages[t]
    BY <1>1, StartedSound
  <2>3. ValidChild(n.stages)
    BY <2>1 DEF Savable
  <2> HIDE DEF n
  <2>4. CmdShape(c) /\ c.at = "work" /\ c.stage = s /\ c.seen = n
    BY <1>1 DEF CmdsShape, CmdShape, Places
  <2> HIDE DEF c
  <2>5. cmd' = [cmd EXCEPT ![p] = c] /\ job' = n
    BY <2>1 DEF c, n
  <2>6. /\ CmdsShape' /\ cmd'[p] = c
        /\ \A q \in Command : q # p => cmd'[q] = cmd[q]
    BY <1>1, <2>4, <2>5, CommandMoves
  <2>7. Sound(job)' /\ ValidChild(job.stages)'
    <3>1. Sound(job)'
      BY <1>2, <2>2, <2>5, SoundNext
    <3>2. ValidChild(job.stages)'
      BY <2>3, <2>5 DEF ValidChild, ValidOwner, AgentWaiting
    <3> QED BY <3>1, <3>2
  <2>8. ASSUME NEW q \in Command, Executing(q)' PROVE Runs(q)'
    <3>1. CASE q = p
      BY <2>1, <2>2, <2>4, <2>5, <2>6, <3>1 DEF Runs
    <3>2. CASE q # p
      <4>1. cmd'[q] = cmd[q] /\ Executing(q)
        BY <2>6, <2>8, <3>2 DEF Executing
      <4>2. Runs(q)
        BY <4>1 DEF IInv
      <4>3. cmd[q].stage # s
        BY <2>2, <4>2 DEF Runs
      <4>4. /\ {"approve_translation", "approve_promotion"} \subseteq Chain \ {s}
        BY <2>2, ChainStages DEF Gates
      <4> QED BY <2>1, <2>2, <2>5, <4>1, <4>2, <4>3, <4>4 DEF Runs
    <3> QED BY <3>1, <3>2
  <2>9. ASSUME NEW q \in Command, cmd'[q].at = "record" PROVE Returns(q)'
    <3>1. cmd'[q] = cmd[q]
      BY <2>4, <2>6, <2>9
    <3>2. Returns(q)
      BY <2>9, <3>1 DEF IInv
    <3> QED BY <1>2, <3>1, <3>2 DEF Returns, Answered
  <2> QED BY <1>1, <1>2, <2>1, <2>6, <2>7, <2>8, <2>9 DEF IInv
<1> QED BY <1>3, <1>4

\* The work of a stage preserves the invariant: its outcome is held by the command,
\* and the job waits.
LEMMA WorkKeeps ==
  ASSUME IInv, NEW p \in Command, cmd[p].at = "work",
         NEW kind, NEW hashes, NEW evidence, Finish(p, kind, hashes, evidence),
         UNCHANGED <<job, live, edits>>,
         AnswersKept,
         LET s    == cmd[p].stage
             seen == cmd[p].seen.stages IN
         /\ kind \in {"completed", "waiting", "failed", "error"}
         /\ s = "translate" /\ kind \in {"completed", "waiting"} =>
              seen["approve_translation"].hashes \subseteq hashes
         /\ s = "translate" /\ kind = "completed" => Answered(hashes)
         /\ s = "promote" /\ kind = "completed" =>
              \E maps : /\ evidence = {maps}
                        /\ \E b \in seen["approve_promotion"].hashes : b[2].text = maps.text
  PROVE  IInv'
<1>1. CmdsShape /\ live \subseteq Command /\ edits \in 0 .. EditBound
      /\ Sound(job) /\ ValidChild(job.stages)
  BY DEF IInv
<1>2. PICK retryable : cmd' = [cmd EXCEPT ![p] = [cmd[p] EXCEPT !.at = "record",
              !.result = [kind |-> kind, hashes |-> hashes, evidence |-> evidence,
                          retryable |-> retryable]]]
  BY <1>1 DEF Finish, CmdsShape
<1> DEFINE r == [kind |-> kind, hashes |-> hashes, evidence |-> evidence,
                 retryable |-> retryable]
           c == [cmd[p] EXCEPT !.at = "record", !.result = r]
<1>3. r.kind = kind /\ r.hashes = hashes /\ r.evidence = evidence
  OBVIOUS
<1>4. cmd' = [cmd EXCEPT ![p] = c]
  BY <1>2
<1> HIDE DEF r
<1>5. /\ CmdShape(c) /\ c.at = "record" /\ c.result = r
      /\ c.stage = cmd[p].stage /\ c.seen = cmd[p].seen
  BY <1>1 DEF CmdsShape, CmdShape, Places
<1> HIDE DEF c
<1>6. /\ CmdsShape' /\ cmd'[p] = c
      /\ \A q \in Command : q # p => cmd'[q] = cmd[q]
  BY <1>1, <1>4, <1>5, CommandMoves
<1>7. Sound(job)'
  BY <1>1, SoundNext
<1>8. ASSUME NEW q \in Command, Executing(q)' PROVE Runs(q)'
  <2>1. Executing(q) /\ cmd'[q].stage = cmd[q].stage /\ cmd'[q].seen = cmd[q].seen
    BY <1>5, <1>6, <1>8 DEF Executing
  <2>2. Runs(q)
    BY <2>1 DEF IInv
  <2> QED BY <2>1, <2>2 DEF Runs
<1>9. ASSUME NEW q \in Command, cmd'[q].at = "record" PROVE Returns(q)'
  <2>1. CASE q = p
    <3>1. /\ cmd'[p].result = r /\ cmd'[p].stage = cmd[p].stage /\ cmd'[p].seen = cmd[p].seen
      BY <1>5, <1>6
    <3> QED BY <1>3, <2>1, <3>1 DEF Returns, Answered, AnswersKept
  <2>2. CASE q # p
    <3>1. cmd'[q] = cmd[q]
      BY <1>6, <2>2
    <3>2. Returns(q)
      BY <1>9, <3>1 DEF IInv
    <3> QED BY <3>1, <3>2 DEF Returns, Answered, AnswersKept
  <2> QED BY <2>1, <2>2
<1>10. FilesShape(files)'
  BY DEF AnswersKept, FilesShape
<1> QED BY <1>1, <1>6, <1>7, <1>8, <1>9, <1>10 DEF IInv

\* An approval that was looked up on the snapshot says what its gate holds.
LEMMA ApprovedBinding ==
  ASSUME NEW j, NEW gate \in Gates, ApprovedFor(j, gate)
  PROVE  j.stages[gate].hashes =
           IF gate = "approve_translation" THEN TranslationBinding(j) ELSE PromotionBinding(j)
  BY DEF ApprovedFor

\* Every stage brings back a result that was made under its gate.
LEMMA StageWorkKeeps ==
  ASSUME IInv, NEW p \in Command, Work(p)
  PROVE  IInv'
<1>1. cmd[p].at = "work"
  BY DEF Work, RunSplit, RunPrepare, RunTranslate, RunExpertTranslate, RunQa, RunPromote,
         RunReading, RunFails, Working
<1> FilesShape(files)
  BY DEF IInv
<1> files' = files => AnswersKept
  BY DEF AnswersKept
<1>2. ASSUME NEW kind \in {"waiting", "failed", "error", "completed"}, NEW hashes, NEW evidence,
             Finish(p, kind, hashes, evidence), UNCHANGED <<job, live, edits>>,
             AnswersKept,
             cmd[p].stage \notin {"translate", "promote"} \/ kind \in {"failed", "error"}
      PROVE  IInv'
  BY <1>1, <1>2, WorkKeeps
<1>3. CASE RunSplit(p)
  <2> DEFINE maps == Content("split", files.source, NoText)
             hashes == PolicyHash \cup {<<"source", files.source>>}
  <2>1. /\ Finish(p, "completed", hashes, {maps}) /\ cmd[p].stage = "split"
        /\ files' = [files EXCEPT !.maps = maps] /\ UNCHANGED <<job, live, edits>>
    BY <1>3 DEF RunSplit, Working
  <2>2. AnswersKept
    BY <2>1, FilesUpdates DEF AnswersKept
  <2> HIDE DEF maps, hashes
  <2> QED BY <1>2, <2>1, <2>2
<1>4. CASE RunPrepare(p)
  <2>1. /\ \/ Finish(p, "completed", {<<"maps", files.maps>>}, {})
           \/ Finish(p, "error", {}, {})
        /\ cmd[p].stage = "prepare" /\ files' = files /\ UNCHANGED <<job, live, edits>>
    BY <1>4 DEF RunPrepare, Working, Unchanged
  <2> QED BY <1>2, <2>1
<1>5. CASE RunTranslate(p)
  <2> DEFINE seen == cmd[p].seen
             hashes == TranslationBinding(seen)
  <2>1. UNCHANGED <<job, live, edits>> /\ cmd[p].stage = "translate"
    BY <1>5 DEF RunTranslate, Working
  <2>2. AnswersKept
    <3>1. files' = files \/ \E text : files' = [files EXCEPT !.text = text]
      BY <1>5 DEF RunTranslate
    <3> QED BY <3>1, FilesUpdates DEF AnswersKept
  <2>3. CASE ApprovedFor(seen, "approve_translation")
    <3>1. Finish(p, "completed", hashes, {}) \/ Finish(p, "failed", hashes, {})
      BY <1>5, <2>3 DEF RunTranslate
    <3>2. hashes = seen.stages["approve_translation"].hashes
      BY <2>3, ApprovedBinding DEF Gates
    <3>3. Answered(hashes)
      BY DEF Answered, TranslationBinding
    <3> HIDE DEF hashes
    <3> QED BY <1>1, <2>1, <2>2, <3>1, <3>2, <3>3, WorkKeeps
  <2>4. CASE ~ApprovedFor(seen, "approve_translation")
    <3>1. Finish(p, "error", {}, {})
      BY <1>5, <2>4 DEF RunTranslate
    <3> QED BY <1>2, <2>1, <2>2, <3>1
  <2> QED BY <2>3, <2>4
<1>6. CASE RunExpertTranslate(p)
  <2> DEFINE seen == cmd[p].seen
             handoff == Handoff(seen)
             hashes == TranslationBinding(seen) \cup {<<"translationHandoffSha256", handoff>>}
             answered == handoff \in seen.issued \cap files.answers /\ files.text # NoText
  <2>1. UNCHANGED <<job, live, edits>> /\ cmd[p].stage = "translate" /\ files' = files
    BY <1>6 DEF RunExpertTranslate, Working, Unchanged
  <2>2. CASE ApprovedFor(seen, "approve_translation")
    <3>1. Finish(p, IF answered THEN "completed" ELSE "waiting", hashes, {handoff})
      BY <1>6, <2>2 DEF RunExpertTranslate
    <3>2. seen.stages["approve_translation"].hashes \subseteq hashes
      BY <2>2, ApprovedBinding DEF Gates
    <3>3. handoff[1] = "translate"
      BY DEF Handoff
    <3>4. answered => Answered(hashes)
      <4> HIDE DEF handoff
      <4> QED BY <3>3 DEF Answered, TranslationBinding
    <3> HIDE DEF hashes, handoff, answered
    <3>5. CASE answered
      <4>1. Finish(p, "completed", hashes, {handoff})
        BY <3>1, <3>5
      <4> QED BY <1>1, <2>1, <3>2, <3>4, <3>5, <4>1, WorkKeeps
    <3>6. CASE ~answered
      <4>1. Finish(p, "waiting", hashes, {handoff})
        BY <3>1, <3>6
      <4> QED BY <1>1, <2>1, <3>2, <4>1, WorkKeeps
    <3> QED BY <3>5, <3>6
  <2>3. CASE ~ApprovedFor(seen, "approve_translation")
    <3>1. Finish(p, "error", {}, {})
      BY <1>6, <2>3 DEF RunExpertTranslate
    <3> QED BY <1>2, <2>1, <3>1
  <2> QED BY <2>2, <2>3
<1>7. CASE RunQa(p)
  <2> DEFINE handoff == <<"expert_qa", files.text>>
             hashes == {<<"text", files.text>>}
             issued == handoff \in cmd[p].seen.issued
  <2>1. UNCHANGED <<job, live, edits>> /\ cmd[p].stage = "expert_qa"
    BY <1>7 DEF RunQa, Working
  <2>2. \/ files' = files
        \/ files' = [files EXCEPT !.answers = files.answers \ {handoff}]
    BY <1>7 DEF RunQa
  <2>3. AnswersKept
    <3> DEFINE rest == files.answers \ {handoff}
    <3>1. \A a \in files.answers : a[1] = "translate" => a \in rest
      OBVIOUS
    <3>2. files' = files \/ files' = [files EXCEPT !.answers = rest]
      BY <2>2
    <3> HIDE DEF rest
    <3> QED BY <3>1, <3>2, FilesUpdates DEF AnswersKept
  <2>4. \/ Finish(p, "failed", hashes, {})
        \/ Finish(p, "completed", hashes, {handoff})
        \/ Finish(p, "waiting", hashes, {handoff})
    BY <1>7 DEF RunQa
  <2> HIDE DEF handoff, hashes
  <2> QED BY <1>2, <2>1, <2>3, <2>4
<1>8. CASE RunPromote(p)
  <2> DEFINE seen == cmd[p].seen
             hashes == PromotionBinding(seen)
             maps == Content("promote", files.source, files.text)
  <2>1. UNCHANGED <<job, live, edits>> /\ cmd[p].stage = "promote"
    BY <1>8 DEF RunPromote, Working
  <2>2. AnswersKept
    <3>1. files' = files \/ \E m : files' = [files EXCEPT !.maps = m]
      BY <1>8 DEF RunPromote
    <3> QED BY <3>1, FilesUpdates DEF AnswersKept
  <2>3. CASE Finish(p, "error", {}, {})
    BY <1>2, <2>1, <2>2, <2>3
  <2>4. CASE ApprovedFor(seen, "approve_promotion") /\ Finish(p, "completed", hashes, {maps})
    <3>1. hashes = seen.stages["approve_promotion"].hashes
      BY <2>4, ApprovedBinding DEF Gates
    <3>2. maps.text = files.text
      BY DEF Content
    <3>3. \E b \in seen.stages["approve_promotion"].hashes : b[2].text = maps.text
      <4>1. \E b \in hashes : b[2].text = files.text
        BY DEF PromotionBinding
      <4> QED BY <3>1, <3>2, <4>1
    <3> HIDE DEF hashes, maps
    <3> QED BY <1>1, <2>1, <2>2, <2>4, <3>3, WorkKeeps
  <2> QED BY <1>8, <2>3, <2>4 DEF RunPromote
<1>9. CASE RunReading(p)
  <2> DEFINE hashes == {<<"maps", cmd[p].seen.maps.content>>}
  <2>1. /\ Finish(p, "completed", hashes, {}) \/ Finish(p, "error", {}, {})
        /\ files' = files /\ UNCHANGED <<job, live, edits>>
        /\ cmd[p].stage \in {"build_reading", "validate_reading", "build_digest"}
    BY <1>9 DEF RunReading, Working, Unchanged
  <2> HIDE DEF hashes
  <2> QED BY <1>2, <2>1
<1>10. CASE RunFails(p)
  <2>1. Finish(p, "error", {}, {}) /\ files' = files /\ UNCHANGED <<job, live, edits>>
    BY <1>10 DEF RunFails, Unchanged
  <2> QED BY <1>2, <2>1
<1> QED BY <1>3, <1>4, <1>5, <1>6, <1>7, <1>8, <1>9, <1>10 DEF Work

\* Recording a result preserves the invariant, with both gates readied after it.
LEMMA RecordKeeps ==
  ASSUME IInv, NEW p \in Command, Record(p)
  PROVE  IInv'
<1> DEFINE s       == cmd[p].stage
           new     == Recorded(p)
           readied == ReadyTranslation(new)
           saved   == ReadyPromotion(readied)
<1>1. CmdsShape /\ live \subseteq Command /\ edits \in 0 .. EditBound
      /\ Sound(job) /\ ValidChild(job.stages)
  BY DEF IInv
<1>2. cmd[p].at = "record" /\ files' = files /\ edits' = edits
  BY DEF Record, At
<1>3. Runs(p) /\ Returns(p)
  BY <1>2 DEF IInv, Executing
<1> AnswersKept /\ FilesShape(files)'
  BY <1>2 DEF IInv, AnswersKept, FilesShape
<1>4. /\ Sound(new)
      /\ \A t \in Chain : t # s => new.stages[t] = job.stages[t]
  BY <1>1, <1>3, RecordedSound
<1>5. Sound(saved) /\ Undisturbed(new, saved)
  <2> HIDE DEF new
  <2>1. Sound(readied) /\ Undisturbed(new, readied)
    BY <1>4, ReadyTranslationSound
  <2> HIDE DEF readied
  <2>2. Sound(saved) /\ Undisturbed(readied, saved)
    BY <2>1, ReadyPromotionSound
  <2> QED BY <2>1, <2>2, UndisturbedTransitive
<1>6. /\ CmdsShape' /\ live' \subseteq Command
      /\ cmd'[p].at \notin {"work", "record"}
      /\ \A q \in Command : q # p =>
           cmd'[q] = cmd[q] /\ (q \in live => q \in live')
  <2>1. CASE End(p)
    <3>1. cmd' = [cmd EXCEPT ![p] = Idle] /\ live' = live \ {p}
      BY <2>1 DEF End
    <3> QED BY <1>1, <3>1, IdleShape, CommandMoves
  <2>2. CASE ~End(p)
    <3>1. PICK at \in {"backoff", "freshness"}, retrying \in BOOLEAN :
            /\ cmd' = [cmd EXCEPT ![p] = [Idle EXCEPT !.at = at, !.retrying = retrying,
                                           !.stage = IF retrying THEN cmd[p].stage ELSE "none",
                                           !.invalidate = cmd[p].invalidate]]
            /\ live' = live
      BY <2>2 DEF Record
    <3> DEFINE stage == IF retrying THEN cmd[p].stage ELSE "none"
               c == [Idle EXCEPT !.at = at, !.retrying = retrying, !.stage = stage,
                                 !.invalidate = cmd[p].invalidate]
    <3>2. cmd[p].invalidate \in BOOLEAN
      BY <1>1 DEF CmdsShape, CmdShape
    <3> HIDE DEF stage
    <3>3. CmdShape(c) /\ c.at = at
      BY <3>2, IdleShape DEF CmdShape, Places
    <3>4. cmd' = [cmd EXCEPT ![p] = c]
      BY <3>1 DEF stage
    <3> HIDE DEF c
    <3> QED BY <1>1, <3>1, <3>3, <3>4, CommandMoves
  <2> QED BY <2>1, <2>2
<1>7. CASE job' = job
  <2>1. \A q \in Command : LeftAlone(q)
    BY <1>6 DEF LeftAlone
  <2> QED BY <1>1, <1>2, <1>6, <1>7, <2>1, Carried DEF Undisturbed
<1>8. CASE job' # job
  <2>1. job' = saved /\ Savable(saved)
    BY <1>8 DEF Record
  <2> HIDE DEF new, readied, saved
  <2>2. Sound(job)'
    BY <1>2, <1>5, <2>1, SoundNext
  <2>3. ValidChild(job.stages)'
    BY <2>1 DEF Savable, ValidChild, ValidOwner, AgentWaiting
  <2>4. ASSUME NEW q \in Command, Executing(q)' PROVE Runs(q)'
    <3>1. q # p /\ cmd'[q] = cmd[q] /\ (q \in live => q \in live')
      BY <1>6, <2>4 DEF Executing
    <3> DEFINE t == cmd[q].stage
    <3>2. Executing(q) /\ Runs(q)
      BY <2>4, <3>1 DEF Executing, IInv
    <3>3. t # s /\ t \in Chain \ Gates
      BY <1>3, <3>1, <3>2 DEF Runs
    <3>4. /\ new.stages[t] = job.stages[t]
          /\ {"approve_translation", "approve_promotion"} \subseteq Chain \ {s}
      BY <1>3, <1>4, <3>3, ChainStages DEF Runs, Gates
    <3>5. job.stages[t].status = "running"
      BY <3>2 DEF Runs
    <3>6. saved.stages[t] = job.stages[t]
      BY <1>5, <3>3, <3>4, <3>5 DEF Undisturbed
    <3>7. t = "translate" =>
            saved.stages["approve_translation"] = job.stages["approve_translation"]
      BY <1>4, <1>5, <3>4, <3>5 DEF Undisturbed
    <3>8. t = "promote" =>
            saved.stages["approve_promotion"] = job.stages["approve_promotion"]
      BY <1>4, <1>5, <3>4, <3>5 DEF Undisturbed
    <3> QED BY <2>1, <3>1, <3>2, <3>6, <3>7, <3>8 DEF Runs
  <2>5. ASSUME NEW q \in Command, cmd'[q].at = "record" PROVE Returns(q)'
    <3>1. cmd'[q] = cmd[q]
      BY <1>6, <2>5
    <3>2. Returns(q)
      BY <2>5, <3>1 DEF IInv
    <3> QED BY <1>2, <3>1, <3>2 DEF Returns, Answered
  <2> QED BY <1>1, <1>2, <1>6, <2>2, <2>3, <2>4, <2>5 DEF IInv
<1> QED BY <1>7, <1>8

\* A command of the operator whose change is sound and undisturbing.
LEMMA OperateKeeps ==
  ASSUME IInv, NEW name, NEW new, Operate(name, new), edits' \in 0 .. EditBound,
         Sound(new), Undisturbed(job, new)
  PROVE  IInv'
<1>1. CmdsShape /\ live \subseteq Command /\ Sound(job) /\ ValidChild(job.stages)
      /\ FilesShape(files)
  BY DEF IInv
<1>2. files' = files /\ cmd' = cmd /\ live' = live
  BY DEF Operate
<1>3. AnswersKept /\ CmdsShape'
  BY <1>1, <1>2 DEF AnswersKept, CmdsShape, CmdShape
<1>4. \A q \in Command : LeftAlone(q)
  BY <1>2 DEF LeftAlone
<1>5. CASE job' = job
  BY <1>1, <1>2, <1>3, <1>4, <1>5, Carried DEF Undisturbed
<1>6. CASE job' # job
  <2>1. Savable(new) /\ job' = new
    BY <1>6 DEF Operate
  <2> QED BY <1>1, <1>2, <1>3, <1>4, <2>1, Carried DEF Savable
<1> QED BY <1>5, <1>6

\* The changes that are counted stay within their bound.
LEMMA EditedBound ==
  ASSUME edits \in 0 .. EditBound, Edited
  PROVE  edits' \in 0 .. EditBound
  BY AdvanceAssumption DEF Edited

\* Beginning, waiting before a retry and dying change no job.
LEMMA CommandsKeep ==
  ASSUME IInv, NEW p \in Command, Begin(p) \/ Backoff(p) \/ Abort(p)
  PROVE  IInv'
<1>1. CmdsShape /\ live \subseteq Command /\ edits \in 0 .. EditBound
      /\ Sound(job) /\ ValidChild(job.stages) /\ FilesShape(files)
  BY DEF IInv
<1>2. job' = job /\ files' = files /\ edits' = edits
  BY DEF Begin, Backoff, Abort, Unchanged
<1>3. AnswersKept
  BY <1>1, <1>2 DEF AnswersKept
<1>4. /\ CmdsShape' /\ live' \subseteq Command
      /\ \A q \in Command : LeftAlone(q)
  <2>1. CASE Begin(p)
    <3>1. PICK invalidate \in BOOLEAN :
            cmd' = [cmd EXCEPT ![p] = [Idle EXCEPT !.at = "freshness", !.invalidate = invalidate]]
      BY <2>1 DEF Begin
    <3> DEFINE c == [Idle EXCEPT !.at = "freshness", !.invalidate = invalidate]
    <3>2. CmdShape(c) /\ c.at = "freshness"
      BY IdleShape DEF CmdShape, Places
    <3> HIDE DEF c
    <3>3. cmd' = [cmd EXCEPT ![p] = c] /\ live' = live
      BY <2>1, <3>1 DEF c, Begin
    <3> QED BY <1>1, <3>2, <3>3, CommandMoves DEF LeftAlone
  <2>2. CASE Backoff(p)
    BY <1>1, <2>2, GoToKeeps DEF Backoff, Places
  <2>3. CASE Abort(p)
    BY <1>1, <2>3, EndKeeps DEF Abort
  <2> QED BY <2>1, <2>2, <2>3
<1> QED BY <1>1, <1>2, <1>3, <1>4, Carried DEF Undisturbed

\* A recovery preserves the invariant: a command at work holds its lease, so its
\* stage is no orphan.
LEMMA RecoverKeeps ==
  ASSUME IInv, Recover
  PROVE  IInv'
<1>1. CmdsShape /\ live \subseteq Command /\ edits \in 0 .. EditBound
      /\ Sound(job) /\ ValidChild(job.stages) /\ FilesShape(files)
  BY DEF IInv
<1>2. job' = Recovered /\ files' = files /\ cmd' = cmd /\ live' = live /\ edits' = edits
  BY DEF Recover
<1>3. /\ Sound(Recovered)
      /\ \A s \in Chain \ Orphans : Recovered.stages[s] = job.stages[s]
  BY <1>1, RecoveredSound
<1>4. AnswersKept /\ FilesShape(files)' /\ CmdsShape'
  BY <1>1, <1>2 DEF AnswersKept, FilesShape, CmdsShape, CmdShape
<1>5. Sound(job)'
  BY <1>2, <1>3, <1>4, SoundNext
<1>6. ValidChild(job.stages)'
  <2> DEFINE old == job.stages
             new == Recovered.stages
  <2>1. DOMAIN old = Chain /\ DOMAIN new = Chain
    BY <1>1, <1>3 DEF Sound, JobShape, StagesShape
  <2>2. ASSUME NEW s \in Chain
        PROVE  \/ new[s] = old[s]
               \/ /\ new[s].status = "failed" /\ new[s].owner = NoOwner
                  /\ old[s].status = "running"
    <3>1. StageShape(old[s])
      BY <1>1 DEF Sound, JobShape, StagesShape
    <3>2. CASE s \in Orphans
      <4>1. new[s] = [old[s] EXCEPT !.status = "failed", !.owner = NoOwner]
        BY <1>1, <3>2 DEF Recovered, Sound, JobShape
      <4>2. new[s].status = "failed" /\ new[s].owner = NoOwner
        BY <3>1, <4>1 DEF StageShape
      <4> QED BY <3>2, <4>2 DEF Orphans
    <3> QED BY <1>3, <3>2
  <2> HIDE DEF new
  <2>3. ValidChild(old)
    BY <1>1
  <2>4. ASSUME NEW s \in Chain PROVE ValidOwner(s, new[s])
    BY <2>1, <2>2, <2>3 DEF ValidChild, ValidOwner, AgentWaiting
  <2>5. ASSUME NEW s \in Chain, NEW t \in Chain, After(s, t), new[t].status \notin Done
        PROVE  new[s].status \in {"pending", "skipped"}
    <3>1. old[t].status \notin Done
      BY <2>2, <2>5 DEF Done
    <3>2. old[s].status \in {"pending", "skipped"}
      BY <2>1, <2>3, <2>5, <3>1 DEF ValidChild
    <3> QED BY <2>2, <3>2
  <2>6. ValidChild(new)
    BY <2>1, <2>4, <2>5 DEF ValidChild
  <2> QED BY <1>2, <2>6 DEF new, ValidChild, ValidOwner, AgentWaiting
<1>7. ASSUME NEW q \in Command, Executing(q)' PROVE Runs(q)'
  <2>1. Runs(q)
    BY <1>2, <1>7 DEF IInv, Executing
  <2> DEFINE s == cmd[q].stage
  <2>2. s \in Chain \ Gates /\ s \notin Orphans
    BY <2>1 DEF Runs, Orphans
  <2>3. /\ s = "translate" => "approve_translation" \in Chain \ Orphans
        /\ s = "promote" => "approve_promotion" \in Chain \ Orphans
    BY <1>1, <2>1, ChainStages DEF Runs, Orphans, Sound, TranslationStands, PromotionStands
  <2> QED BY <1>2, <1>3, <2>1, <2>2, <2>3 DEF Runs
<1>8. ASSUME NEW q \in Command, cmd'[q].at = "record" PROVE Returns(q)'
  <2>1. Returns(q)
    BY <1>2, <1>8 DEF IInv
  <2> QED BY <1>2, <2>1 DEF Returns, Answered
<1> QED BY <1>1, <1>2, <1>4, <1>5, <1>6, <1>7, <1>8 DEF IInv

\* The operator, an agent and an editor preserve the invariant, whichever commands
\* are at work.
LEMMA EnvironmentKeeps ==
  ASSUME IInv, Environment
  PROVE  IInv'
<1>1. CmdsShape /\ live \subseteq Command /\ edits \in 0 .. EditBound
      /\ Sound(job) /\ ValidChild(job.stages) /\ FilesShape(files) /\ JobShape(job)
  BY DEF IInv, Sound
<1>2. ASSUME NEW n, n \in {[job EXCEPT !.config = c] : c \in Config}
                          \cup {[job EXCEPT !.pack = k] : k \in Pack}
      PROVE  Sound(n) /\ Undisturbed(job, n)
  <2>1. JobShape(n) /\ n.stages = job.stages /\ n.refs = job.refs /\ n.maps = job.maps
    BY <1>1, <1>2 DEF JobShape
  <2> QED BY <1>1, <2>1, SettingsSound
<1>3. ASSUME NEW n, Sound(n), Undisturbed(job, n)
      PROVE  Sound(ReadyTranslation(n)) /\ Undisturbed(job, ReadyTranslation(n))
  BY <1>3, ReadyTranslationSound, UndisturbedTransitive
<1>4. ASSUME NEW gate \in Gates, ApproveGate(gate) PROVE IInv'
  <2> DEFINE n == Approve(job, gate)
  <2>1. Operate("approve", n) /\ edits' = edits /\ MayApprove(job, gate)
    BY <1>4 DEF ApproveGate
  <2>2. Sound(n) /\ Undisturbed(job, n)
    BY <1>1, <2>1, ApproveSound
  <2> HIDE DEF n
  <2> QED BY <1>1, <2>1, <2>2, OperateKeeps
<1>5. ASSUME NEW config \in Config, SetProvider(config) \/ SetProviderOfSibling(config)
      PROVE  IInv'
  <2> DEFINE moved == [job EXCEPT !.config = config]
             n == ReadyTranslation(moved)
  <2>1. edits' \in 0 .. EditBound
    BY <1>1, <1>5, EditedBound DEF SetProvider, SetProviderOfSibling
  <2>2. Sound(moved) /\ Undisturbed(job, moved)
    BY <1>2
  <2>3. Operate("set_provider", n) \/ Operate("set_provider", moved)
    BY <1>5 DEF SetProvider, SetProviderOfSibling
  <2> HIDE DEF moved
  <2>4. Sound(n) /\ Undisturbed(job, n)
    BY <1>3, <2>2
  <2> HIDE DEF n
  <2> QED BY <2>1, <2>2, <2>3, <2>4, OperateKeeps
<1>6. ASSUME NEW pack \in Pack, SelectPack(pack) PROVE IInv'
  <2> DEFINE moved == [job EXCEPT !.pack = pack]
             n == ReadyTranslation(moved)
  <2>1. edits' \in 0 .. EditBound
    BY <1>1, <1>6, EditedBound DEF SelectPack
  <2>2. Sound(moved) /\ Undisturbed(job, moved)
    BY <1>2
  <2>3. Operate("select_pack", n)
    BY <1>6 DEF SelectPack
  <2> HIDE DEF moved
  <2>4. Sound(n) /\ Undisturbed(job, n)
    BY <1>3, <2>2
  <2> HIDE DEF n
  <2> QED BY <2>1, <2>3, <2>4, OperateKeeps
<1>7. ASSUME AnswersKept, edits' \in 0 .. EditBound, UNCHANGED <<job, cmd, live>> PROVE IInv'
  <2>1. CmdsShape' /\ \A q \in Command : LeftAlone(q)
    BY <1>1, <1>7 DEF CmdsShape, CmdShape, LeftAlone
  <2> QED BY <1>1, <1>7, <2>1, Carried DEF Undisturbed
<1>8. CASE EditSource \/ EditMaps \/ EditText
  <2>1. edits' \in 0 .. EditBound /\ UNCHANGED <<job, cmd, live>>
    BY <1>1, <1>8, EditedBound DEF EditSource, EditMaps, EditText, EditFiles
  <2>2. \E v : \/ files' = [files EXCEPT !.source = v] \/ files' = [files EXCEPT !.maps = v]
              \/ files' = [files EXCEPT !.text = v]
    BY <1>8 DEF EditSource, EditMaps, EditText, EditFiles
  <2>3. AnswersKept
    BY <1>1, <2>2, FilesUpdates DEF AnswersKept
  <2> QED BY <1>7, <2>1, <2>3
<1>9. CASE AgentAnswers
  <2>1. UNCHANGED <<job, cmd, live, edits>>
    BY <1>9 DEF AgentAnswers
  <2>2. PICK handoff, text :
          files' = [files EXCEPT !.answers = files.answers \cup {handoff}, !.text = text]
    BY <1>1, <1>9 DEF AgentAnswers, FilesShape
  <2>3. AnswersKept
    BY <1>1, <2>2 DEF AnswersKept, FilesShape
  <2> QED BY <1>1, <1>7, <2>1, <2>3
<1> QED BY <1>4, <1>5, <1>6, <1>8, <1>9 DEF Environment

\* A book as it is handed off.
LEMMA NewJobFacts ==
  ASSUME NEW mode \in Modes
  PROVE  LET n == NewJob(mode, DigestMode) IN
         /\ JobShape(n) /\ Skips(n)
         /\ n.stages["split"].status = "ready"
         /\ \A s \in Chain : n.stages[s].owner = NoOwner
         /\ \A s \in Chain \ {"split"} : n.stages[s].status \in {"pending", "skipped"}
<1> DEFINE n == NewJob(mode, DigestMode)
           f == [s \in Chain |->
                   IF s = "build_digest" /\ ~DigestMode
                   THEN [Pending({}) EXCEPT !.status = "skipped"]
                   ELSE IF s = "split" THEN [Pending({}) EXCEPT !.status = "ready"]
                   ELSE Pending({})]
           config == CHOOSE c \in Config : TRUE
           pack == CHOOSE k \in Pack : TRUE
<1>1. n = [mode |-> mode, stages |-> f, config |-> config, pack |-> pack,
           refs |-> {}, maps |-> NoMaps, units |-> FALSE, issued |-> {}]
  BY DEF NewJob
<1>2. config \in Config /\ pack \in Pack
  BY AdvanceAssumption
<1>3. ASSUME NEW s \in Chain
      PROVE  /\ StageShape(f[s]) /\ f[s].owner = NoOwner
             /\ s = "split" => f[s].status = "ready"
             /\ s # "split" =>
                  \/ f[s].status = "pending"
                  \/ f[s].status = "skipped" /\ s = "build_digest"
  <2>1. CASE s = "build_digest" /\ ~DigestMode
    BY <2>1 DEF Pending, StageShape, Status
  <2>2. CASE s = "split"
    BY <2>2 DEF Pending, StageShape, Status
  <2>3. CASE ~(s = "build_digest" /\ ~DigestMode) /\ s # "split"
    BY <2>3 DEF Pending, StageShape, Status
  <2> QED BY <2>1, <2>2, <2>3
<1>4. StagesShape(f)
  BY <1>3 DEF StagesShape
<1>5. "split" \in Chain
  BY ChainStages
<1> HIDE DEF f, config, pack, n
<1>6. JobShape(n) /\ n.stages = f
  BY <1>1, <1>2, <1>4 DEF JobShape
<1>7. Skips(n)
  BY <1>3, <1>6 DEF Skips
<1> QED BY <1>3, <1>5, <1>6, <1>7 DEF n

\* The invariant holds of a book that is handed off, and of one an older launcher
\* split and prepared.
LEMMA IInvInitial == Init => IInv
<1> SUFFICES ASSUME Init PROVE IInv
  OBVIOUS
<1> USE AdvanceAssumption
<1>1. PICK mode \in Modes :
        LET new  == NewJob(mode, DigestMode)
            maps == Content("split", 1, NoText)
            done(hashes) == [Pending(hashes) EXCEPT !.status = "completed", !.attempt = 1]
        IN  job \in {new, [new EXCEPT
              !.stages["split"] = done({<<"splitPolicyVersion", OldPolicy>>, <<"source", 1>>}),
              !.stages["prepare"] = done({<<"maps", maps>>}),
              !.maps = [stage |-> "split", content |-> maps], !.units = TRUE]}
  BY DEF Init
<1> DEFINE new == NewJob(mode, DigestMode)
           h == {<<"splitPolicyVersion", OldPolicy>>, <<"source", 1>>}
           g == {<<"maps", Content("split", 1, NoText)>>}
           maps == [stage |-> "split", content |-> Content("split", 1, NoText)]
           a == [Pending(h) EXCEPT !.status = "completed", !.attempt = 1]
           b == [Pending(g) EXCEPT !.status = "completed", !.attempt = 1]
           f == [new.stages EXCEPT !["split"] = a]
           k == [f EXCEPT !["prepare"] = b]
<1>2. /\ JobShape(new) /\ Skips(new) /\ StagesShape(new.stages)
      /\ new.stages["split"].status = "ready"
      /\ \A s \in Chain : new.stages[s].owner = NoOwner
      /\ \A s \in Chain \ {"split"} : new.stages[s].status \in {"pending", "skipped"}
  BY NewJobFacts DEF JobShape
<1>3. /\ "split" \in Chain /\ "prepare" \in Chain
      /\ \A s \in Chain : After(s, "split") <=> s # "split"
      /\ \A s \in Chain : After(s, "prepare") <=> s \notin {"split", "prepare"}
  BY ChainStages
<1>4. /\ JobShape(job) /\ Skips(job)
      /\ \A s \in Chain : job.stages[s].owner = NoOwner
      /\ \A s \in Chain \ {"split", "prepare"} :
           job.stages[s].status \in {"pending", "skipped"}
      /\ \/ /\ job.stages["split"].status = "ready"
            /\ job.stages["prepare"].status \in {"pending", "skipped"}
         \/ /\ job.stages["split"].status = "completed"
            /\ job.stages["prepare"].status = "completed"
  <2>1. CASE job = new
    <3> HIDE DEF new
    <3> QED BY <1>2, <1>3, <2>1
  <2>2. CASE job # new
    <3>1. job = [new EXCEPT !.stages = k, !.maps = maps, !.units = TRUE]
      BY <1>1, <1>2, <2>2 DEF JobShape
    <3> HIDE DEF new
    <3>2. /\ StageShape(a) /\ a.status = "completed" /\ a.owner = NoOwner
          /\ StageShape(b) /\ b.status = "completed" /\ b.owner = NoOwner
      BY DEF Pending, StageShape, Status
    <3> HIDE DEF a, b
    <3>3. StagesShape(f) /\ f["split"] = a /\ \A t \in Chain : t # "split" => f[t] = new.stages[t]
      BY <1>2, <1>3, <3>2, StageReplaced
    <3> HIDE DEF f
    <3>4. StagesShape(k) /\ k["prepare"] = b /\ \A t \in Chain : t # "prepare" => k[t] = f[t]
      BY <1>3, <3>2, <3>3, StageReplaced
    <3> HIDE DEF k, maps
    <3>5. JobShape(job) /\ job.stages = k
      BY <1>2, <3>1, <3>4 DEF JobShape
    <3>6. \A s \in Chain \ {"split", "prepare"} : job.stages[s] = new.stages[s]
      BY <3>3, <3>4, <3>5
    <3>7. job.stages["split"] = a /\ job.stages["prepare"] = b
      BY <1>3, <3>3, <3>4, <3>5
    <3>8. Skips(job)
      BY <1>2, <3>2, <3>6, <3>7 DEF Skips
    <3> QED BY <1>2, <3>2, <3>5, <3>6, <3>7, <3>8
  <2> QED BY <2>1, <2>2
<1>5. Sound(job)
  BY <1>4, QuietSound DEF AgentWaiting
<1>6. ValidChild(job.stages)
  <2>1. DOMAIN job.stages = Chain
    BY <1>4 DEF JobShape, StagesShape
  <2>2. ASSUME NEW s \in Chain PROVE ValidOwner(s, job.stages[s])
    <3>1. job.stages[s].status \notin {"running", "blocked"}
      BY <1>4
    <3> QED BY <1>4, <3>1 DEF ValidOwner
  <2>3. ASSUME NEW s \in Chain, NEW t \in Chain, After(s, t), job.stages[t].status \notin Done
        PROVE  job.stages[s].status \in {"pending", "skipped"}
    <3>1. s \notin {"split"} /\ (t = "prepare" => s # "prepare")
      BY <2>3 DEF After, Order, Chain, StageId
    <3>2. CASE job.stages["split"].status = "ready"
      BY <1>4, <3>1, <3>2
    <3>3. CASE job.stages["split"].status = "completed"
      <4>1. t \notin {"split", "prepare"}
        BY <1>4, <2>3, <3>3 DEF Done
      <4>2. s # "prepare"
        BY <1>3, <2>3, <4>1, ChainStages DEF After, Order
      <4> QED BY <1>4, <3>1, <4>2
    <3> QED BY <1>4, <3>2, <3>3
  <2> QED BY <2>1, <2>2, <2>3 DEF ValidChild
<1>7. FilesShape(files)
  BY DEF Init, FilesShape
<1>8. CmdsShape /\ \A p \in Command : cmd[p].at = "idle"
  BY IdleShape DEF Init, CmdsShape
<1> QED BY <1>5, <1>6, <1>7, <1>8 DEF IInv, Init, Executing

\* Every step preserves the invariant.
LEMMA IInvPreserved == IInv /\ [Next]_vars => IInv'
<1> SUFFICES ASSUME IInv, [Next]_vars PROVE IInv'
  OBVIOUS
<1>1. ASSUME NEW p \in Command, Begin(p) \/ Abort(p) \/ Backoff(p) PROVE IInv'
  BY <1>1, CommandsKeep
<1>2. ASSUME NEW p \in Command, Step(p) PROVE IInv'
  BY <1>2, PhasesKeep, StartKeeps, StageWorkKeeps, RecordKeeps, CommandsKeep DEF Step
<1>3. CASE Recover
  BY <1>3, RecoverKeeps
<1>4. CASE Environment
  BY <1>4, EnvironmentKeeps
<1>5. CASE UNCHANGED vars
  <2>1. /\ CmdsShape /\ live \subseteq Command /\ edits \in 0 .. EditBound
        /\ Sound(job) /\ ValidChild(job.stages) /\ FilesShape(files)
    BY DEF IInv
  <2>2. job' = job /\ files' = files /\ cmd' = cmd /\ live' = live /\ edits' = edits
    BY <1>5 DEF vars
  <2>3. AnswersKept /\ CmdsShape' /\ \A q \in Command : LeftAlone(q)
    BY <2>1, <2>2 DEF AnswersKept, CmdsShape, CmdShape, LeftAlone
  <2> QED BY <2>1, <2>2, <2>3, Carried DEF Undisturbed
<1> QED BY <1>1, <1>2, <1>3, <1>4, <1>5 DEF Next

\* The invariant holds of every behaviour of the advance pipeline.
THEOREM IInvHolds == Spec => []IInv
<1>1. Init => IInv
  BY IInvInitial
<1>2. IInv /\ [Next]_vars => IInv'
  BY IInvPreserved
<1> QED BY <1>1, <1>2, PTL DEF Spec

-----------------------------------------------------------------------------
(* The properties of AdvanceStage that follow.                             *)

\* The invariant is stronger than the properties the runs check.
LEMMA IInvImplies ==
  IInv => /\ StagesAreOwned /\ Approved /\ ApprovalStandsWhileTranslating
          /\ AcceptedTextAnswersItsHandoff
<1> SUFFICES ASSUME IInv
             PROVE  /\ StagesAreOwned /\ Approved /\ ApprovalStandsWhileTranslating
                    /\ AcceptedTextAnswersItsHandoff
  OBVIOUS
<1>1. Sound(job) /\ JobShape(job) /\ ValidChild(job.stages)
  BY DEF IInv, Sound
<1>2. WorkIsOwned
  BY DEF IInv, WorkIsOwned, Runs
<1>3. TypeOK
  <2>1. ASSUME NEW s \in Chain
        PROVE  [f \in {"status", "attempt", "approved", "owner"} |-> job.stages[s][f]] \in StageRecord
    <3>1. StageShape(job.stages[s])
      BY <1>1 DEF JobShape, StagesShape
    <3> QED BY <3>1 DEF StageShape, StageRecord
  <2>2. job.mode \in Modes /\ job.config \in Config /\ job.pack \in Pack /\ job.refs \subseteq Gates
    BY <1>1 DEF JobShape
  <2>3. \A p \in Command : cmd[p].at \in Places
    BY DEF IInv, CmdsShape, CmdShape
  <2> QED BY <1>1, <2>1, <2>2, <2>3 DEF TypeOK, IInv, Places
<1>4. Approved
  <2>1. /\ Completed(job, "approve_translation") => "approve_translation" \in job.refs
        /\ Completed(job, "approve_promotion") => "approve_promotion" \in job.refs
    BY <1>1 DEF Sound, References, Gates
  <2>2. TranslationApproved
    BY <1>1, <2>1 DEF Sound, TranslationStands, TranslationApproved, AgentTranslates, Completed
  <2>3. PromotedTextWasApproved
    BY <1>1, <2>1 DEF Sound, PromotionStands, PromotedTextWasApproved, Completed
  <2> QED BY <2>2, <2>3 DEF Approved
<1>5. ApprovalStandsWhileTranslating
  BY <1>1 DEF IInv, Runs, ApprovalStandsWhileTranslating, Sound, TranslationStands, Completed
<1>6. AcceptedTextAnswersItsHandoff
  BY <1>1 DEF Sound, TextAnswers, Answered, AcceptedTextAnswersItsHandoff
<1> QED BY <1>2, <1>3, <1>4, <1>5, <1>6 DEF StagesAreOwned

\* A saved book always keeps the rules of validate_state, and while a command works
\* on a stage the job says so, whatever other advances, recoveries and operators did
\* since it was started: no two commands work on one book.
THEOREM StagesOwned == Spec => []StagesAreOwned
  BY IInvHolds, IInvImplies, PTL

\* What is completed was approved in the form in which it was approved: a translation
\* under the binding its gate holds now, a promoted text by its hash.
THEOREM Approvals == Spec => []Approved
  BY IInvHolds, IInvImplies, PTL

\* From the start of a translation to its record the approval it runs under is not
\* withdrawn or replaced: nothing is sent to a provider on a dead approval.
THEOREM ApprovalStands == Spec => []ApprovalStandsWhileTranslating
  BY IInvHolds, IInvImplies, PTL

\* A translation accepted from an agent answers the handoff its stage names,
\* however often the prompt pack or the source changed while the agent worked.
THEOREM TextAnswersHandoff == Spec => []AcceptedTextAnswersItsHandoff
  BY IInvHolds, IInvImplies, PTL

-----------------------------------------------------------------------------
(* What a step may do to the request an agent works on.                    *)

\* While an agent translates no stage is running, and the translation is the first
\* unfinished one.
LEMMA NothingRunsBehindAgent ==
  ASSUME Sound(job), ValidChild(job.stages), AgentTranslates(job), NEW s \in Chain
  PROVE  /\ job.stages[s].status # "running"
         /\ s # "translate" /\ job.stages[s].status \notin Done => After(s, "translate")
<1>1. /\ StagesShape(job.stages) /\ "translate" \in Chain
      /\ job.stages["translate"].status = "blocked"
  BY ChainStages DEF Sound, JobShape, AgentTranslates, AgentWaiting
<1>2. After(s, "translate") => job.stages[s].status \in {"pending", "skipped"}
  BY <1>1, ChildOrder DEF Done
<1>3. After("translate", s) => job.stages[s].status \in Done
  BY <1>1, ChildOrder
<1>4. After(s, "translate") \/ s = "translate" \/ After("translate", s)
  BY <1>1, ChainStages
<1> QED BY <1>1, <1>2, <1>3, <1>4 DEF Done

\* A save of a job whose request stands keeps the request.
LEMMA KeptBySaving ==
  ASSUME NEW new, job' = job \/ job' = new,
         new = job \/ (AgentTranslates(job) /\ MapsValid(job, "split") => AgentTranslates(new))
  PROVE  RequestKept
  BY DEF RequestKept, AgentTranslates, AgentWaiting

\* The phases keep the request: the freshness check and the gates do not act on a book
\* an agent translates, and only drifted maps roll it back.
LEMMA KeptByPhases ==
  ASSUME IInv, NEW p \in Command,
         \/ SplitFreshness(p) \/ StructureMaps(p) \/ UnitScope(p) \/ StaleQa(p)
         \/ TranslationGate(p) \/ PromotionGate(p)
  PROVE  RequestKept
<1>1. Sound(job) /\ ValidChild(job.stages)
  BY DEF IInv
<1>2. ASSUME NEW new, NEW name, NEW stop, NEW next, Phase(p, new, name, stop, next)
      PROVE  job' = job \/ (job' = new /\ Savable(new))
  BY <1>2 DEF Phase
<1>3. CASE SplitFreshness(p)
  <2> DEFINE action == FreshnessAction(cmd[p].invalidate)
             new == IF action = "none" THEN job ELSE Freshened(action)
  <2>1. Phase(p, new, "freshness", action = "block", "maps")
    BY <1>3 DEF SplitFreshness
  <2>2. new = job \/ ~AgentTranslates(job)
    BY <1>1, FreshenedSound
  <2> HIDE DEF new, action
  <2> QED BY <1>2, <2>1, <2>2, KeptBySaving
<1>4. CASE StructureMaps(p)
  <2> DEFINE new == IF MapsDrifted THEN RolledBack(cmd[p].invalidate) ELSE job
  <2>1. Phase(p, new, "maps", ~cmd[p].invalidate, "scope")
    BY <1>4 DEF StructureMaps
  <2>2. Savable(new) => new = job \/ ~(AgentTranslates(job) /\ MapsValid(job, "split"))
    BY <1>1, RolledBackSound
  <2> HIDE DEF new
  <2>3. job' = job \/ (job' = new /\ Savable(new))
    BY <1>2, <2>1
  <2> QED BY <2>2, <2>3, KeptBySaving DEF RequestKept, AgentTranslates, AgentWaiting
<1>5. CASE UnitScope(p)
  <2> DEFINE new == IF job.units THEN ScopeReconciled ELSE job
  <2>1. Phase(p, new, "scope", FALSE, "qa")
    BY <1>5 DEF UnitScope
  <2>2. new = job \/ (AgentTranslates(job) => AgentTranslates(new))
    BY <1>1, ScopeReconciledSound
  <2> HIDE DEF new
  <2> QED BY <1>2, <2>1, <2>2, KeptBySaving
<1>6. CASE StaleQa(p)
  <2> DEFINE new == IF QaIsStale THEN QaReopened ELSE job
  <2>1. Phase(p, new, "qa", FALSE, "translation_gate")
    BY <1>6 DEF StaleQa
  <2>2. Savable(new) => new = job \/ ~AgentTranslates(job)
    BY <1>1, QaReopenedSound
  <2> HIDE DEF new
  <2>3. job' = job \/ (job' = new /\ Savable(new))
    BY <1>2, <2>1
  <2> QED BY <2>2, <2>3, KeptBySaving DEF RequestKept, AgentTranslates, AgentWaiting
<1>7. CASE TranslationGate(p)
  <2> DEFINE readied == ReadyTranslation(job)
             self == AutoApprove /\ MayApprove(job, "approve_translation")
             new == IF self THEN Approve(job, "approve_translation") ELSE job
  <2>1. CASE readied # job
    <3>1. Phase(p, readied, "translation_gate", ~AutoApprove, "freshness")
      BY <1>7, <2>1 DEF TranslationGate
    <3>2. AgentTranslates(job) => readied = job
      BY <1>1, ReadyTranslationSound
    <3> HIDE DEF readied
    <3> QED BY <1>2, <3>1, <3>2, KeptBySaving
  <2>2. CASE readied = job
    <3>1. Phase(p, new, "translation_gate", FALSE, "promotion_gate")
      BY <1>7, <2>2 DEF TranslationGate
    <3>2. new = job \/ ~AgentTranslates(job)
      BY <1>1, ApproveSound DEF Gates
    <3> HIDE DEF new
    <3> QED BY <1>2, <3>1, <3>2, KeptBySaving
  <2> QED BY <2>1, <2>2
<1>8. CASE PromotionGate(p)
  <2> DEFINE new == ReadyPromotion(job)
  <2>1. Phase(p, new, "promotion_gate", TRUE, "start")
    BY <1>8 DEF PromotionGate
  <2>2. AgentTranslates(job) => new = job
    BY <1>1, ReadyPromotionSound
  <2> HIDE DEF new
  <2> QED BY <1>2, <2>1, <2>2, KeptBySaving
<1> QED BY <1>3, <1>4, <1>5, <1>6, <1>7, <1>8

\* A command keeps the request or, when it starts a stage, takes the translation up:
\* no other stage can be started, and no result recorded.
LEMMA KeptByCommands ==
  ASSUME IInv, NEW p \in Command,
         Begin(p) \/ Abort(p) \/ Backoff(p) \/ StartStage(p) \/ Work(p) \/ Record(p)
  PROVE  RequestKept
<1>1. Sound(job) /\ ValidChild(job.stages)
  BY DEF IInv
<1>2. CASE Begin(p) \/ Abort(p) \/ Backoff(p) \/ Work(p)
  <2>1. job' = job
    BY <1>2 DEF Begin, Abort, Backoff, Unchanged, Work, RunSplit, RunPrepare, RunTranslate,
                RunExpertTranslate, RunQa, RunPromote, RunReading, RunFails
  <2> QED BY <2>1, KeptBySaving
<1>3. CASE StartStage(p)
  <2> SUFFICES ASSUME AgentTranslates(job), job' # job
               PROVE  job'.stages["translate"].status = "running"
    BY KeptBySaving DEF RequestKept
  <2>1. PICK s \in StageToRun(job.stages) : job' = Started(p, s)
    BY <1>3 DEF StartStage
  <2> DEFINE n == Started(p, s)
  <2>2. /\ s \in Chain /\ n.stages[s].status = "running"
        /\ \A t \in Chain : After(s, t) => job.stages[t].status \in Done
        /\ job.stages[s].status \notin Done
    BY <1>1, StartedSound
  <2>3. "translate" \in Chain /\ job.stages["translate"].status \notin Done
    BY ChainStages DEF AgentTranslates, AgentWaiting, Done
  <2>4. s = "translate"
    BY <1>1, <2>2, <2>3, NothingRunsBehindAgent
  <2> QED BY <2>1, <2>2, <2>4
<1>4. CASE Record(p)
  <2>1. Runs(p)
    BY <1>4 DEF IInv, Executing, Record, At
  <2>2. ~AgentTranslates(job)
    BY <1>1, <2>1, NothingRunsBehindAgent DEF Runs
  <2> QED BY <2>2 DEF RequestKept
<1> QED BY <1>2, <1>3, <1>4

\* Recovery, the operator, the agent and an editor keep the request.
LEMMA KeptByOthers ==
  ASSUME IInv, Recover \/ Environment
  PROVE  RequestKept
<1>1. Sound(job) /\ ValidChild(job.stages) /\ JobShape(job)
  BY DEF IInv, Sound
<1>2. CASE Recover
  <2> SUFFICES ASSUME AgentTranslates(job) PROVE AgentTranslates(job)'
    BY DEF RequestKept
  <2>1. "translate" \in Chain \ Orphans
    BY ChainStages DEF AgentTranslates, AgentWaiting, Orphans
  <2>2. job'.stages["translate"] = job.stages["translate"]
    BY <1>1, <1>2, <2>1, RecoveredSound DEF Recover
  <2> QED BY <2>2 DEF AgentTranslates, AgentWaiting
<1>3. ASSUME NEW n, n \in {[job EXCEPT !.config = c] : c \in Config}
                          \cup {[job EXCEPT !.pack = k] : k \in Pack}
      PROVE  Sound(n) /\ n.stages = job.stages
  <2>1. JobShape(n) /\ n.stages = job.stages /\ n.refs = job.refs /\ n.maps = job.maps
    BY <1>1, <1>3 DEF JobShape
  <2> QED BY <1>1, <2>1, SettingsSound
<1>4. ASSUME NEW n, Sound(n), n.stages = job.stages, NEW name, Operate(name, ReadyTranslation(n))
      PROVE  RequestKept
  <2> DEFINE new == ReadyTranslation(n)
  <2>1. AgentTranslates(n) => new = n
    BY <1>4, ReadyTranslationSound
  <2> HIDE DEF new
  <2>2. AgentTranslates(job) => AgentTranslates(new)
    BY <1>4, <2>1 DEF AgentTranslates
  <2>3. job' = job \/ job' = new
    BY <1>4 DEF Operate, new
  <2> QED BY <2>2, <2>3, KeptBySaving
<1>5. CASE \E gate \in Gates : ApproveGate(gate)
  <2>1. PICK gate \in Gates : ApproveGate(gate)
    BY <1>5
  <2> DEFINE n == Approve(job, gate)
  <2>2. MayApprove(job, gate) /\ (job' = job \/ job' = n)
    BY <2>1 DEF ApproveGate, Operate
  <2>3. ~AgentTranslates(job)
    BY <1>1, <2>2, ApproveSound
  <2> QED BY <2>3 DEF RequestKept
<1>6. CASE \E config \in Config : SetProvider(config) \/ SetProviderOfSibling(config)
  <2>1. PICK config \in Config : SetProvider(config) \/ SetProviderOfSibling(config)
    BY <1>6
  <2> DEFINE moved == [job EXCEPT !.config = config]
  <2>2. Sound(moved) /\ moved.stages = job.stages
    BY <1>3
  <2>3. CASE SetProvider(config)
    <3>1. Operate("set_provider", ReadyTranslation(moved))
      BY <2>3 DEF SetProvider
    <3> HIDE DEF moved
    <3> QED BY <1>4, <2>2, <3>1
  <2>4. CASE SetProviderOfSibling(config)
    <3>1. job' = job \/ job' = moved
      BY <2>4 DEF SetProviderOfSibling, Operate
    <3> HIDE DEF moved
    <3> QED BY <2>2, <3>1, KeptBySaving DEF AgentTranslates
  <2> QED BY <2>1, <2>3, <2>4
<1>7. CASE \E pack \in Pack : SelectPack(pack)
  <2>1. PICK pack \in Pack : SelectPack(pack)
    BY <1>7
  <2> DEFINE moved == [job EXCEPT !.pack = pack]
  <2>2. Sound(moved) /\ moved.stages = job.stages
    BY <1>3
  <2>3. Operate("select_pack", ReadyTranslation(moved))
    BY <2>1 DEF SelectPack
  <2> HIDE DEF moved
  <2> QED BY <1>4, <2>2, <2>3
<1>8. CASE EditSource \/ EditMaps \/ EditText \/ AgentAnswers
  <2>1. job' = job
    BY <1>8 DEF EditSource, EditMaps, EditText, EditFiles, AgentAnswers
  <2> QED BY <2>1, KeptBySaving
<1> QED BY <1>2, <1>5, <1>6, <1>7, <1>8 DEF Environment

\* While an agent translates, no command withdraws its request as long as the maps it
\* works from are valid: select_book_prompt_pack and the others leave it, and an
\* advance only takes up the answer.
THEOREM AgentsWorkStands == Spec => AgentWorkStands
<1>1. IInv /\ [Next]_vars => [RequestKept]_vars
  BY KeptByPhases, KeptByCommands, KeptByOthers DEF Next, Step
<1>2. [RequestKept]_vars <=>
        [AgentWaiting("translate", job.stages["translate"]) /\ MapsValid(job, "split")
           => \/ AgentWaiting("translate", job'.stages["translate"])
              \/ job'.stages["translate"].status = "running"]_vars
  BY DEF RequestKept, AgentTranslates, AgentWaiting
<1> QED BY <1>1, <1>2, IInvHolds, PTL DEF Spec, AgentWorkStands
=============================================================================
