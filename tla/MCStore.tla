------------------------------ MODULE MCStore ------------------------------
(* Two instances of BookPipelineStore, each from initial states of its own:  *)
(* launchers that die outside the lock, and launchers that die anywhere.     *)
EXTENDS MCBookPipelineStore

\* The second instance: a runner whose launcher may die holding the lock file,
\* a command and the poll of the other launcher.
CONSTANT Deaths
VARIABLES death, disk2, lockFile2, lockOld2, lease2, pc2, purpose2, recovering2, snap2, prev2

C == INSTANCE BookPipelineStore WITH
       Editor <- {e2}, Runner <- {r1}, Poller <- {poll}, MayCrashInLock <- TRUE,
       InstanceOf <- [p \in {e2, r1, poll} |-> IF p = r1 THEN first ELSE second],
       disk <- disk2, lockFile <- lockFile2, lockOld <- lockOld2, lease <- lease2, pc <- pc2,
       purpose <- purpose2, recovering <- recovering2, snap <- snap2, prev <- prev2

vars2 == <<disk2, lockFile2, lockOld2, lease2, pc2, purpose2, recovering2, snap2, prev2>>
storeVars == <<death, vars, vars2>>

StoreInit ==
  /\ death \in Deaths
  /\ Init /\ C!Init
  /\ death # "unlocked" => disk.schema = "current"
  /\ IF death = "anywhere" THEN (disk2.schema = "legacy") = (disk2.status = "running")
     ELSE disk2.schema = "current"

StoreNext ==
  /\ UNCHANGED death
  /\ \/ death = "unlocked" /\ Next /\ UNCHANGED vars2
     \/ death = "anywhere" /\ C!Next /\ UNCHANGED vars

\* The fairness of FairSpec, in the behaviours of the second instance.
StoreSpec ==
  /\ StoreInit /\ [][StoreNext]_storeVars
  /\ \A p \in {e2, r1, poll} :
       WF_storeVars(death = "anywhere" /\ C!Step(p) /\ UNCHANGED <<death, vars>>)
  /\ SF_storeVars(death = "anywhere" /\ C!LockCreate(poll) /\ UNCHANGED <<death, vars>>)
  /\ SF_storeVars(death = "anywhere" /\ C!RecoverAndWrite(poll) /\ UNCHANGED <<death, vars>>)
  /\ WF_storeVars(death = "anywhere" /\ C!LockAges /\ UNCHANGED <<death, vars>>)

\* What a dead launcher leaves is taken care of: the stage it orphaned is
\* recovered, and nobody waits for ever on its lock file.
CrashIsOvercome == death = "anywhere" => C!OrphanRecovered /\ C!CommandsEnd
=============================================================================
