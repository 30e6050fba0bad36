---------------------- MODULE BookPipelineStoreProofs ----------------------
(* Theorems about BookPipelineStore, for any commands, launchers and crashes. *)
EXTENDS BookPipelineStore, TLAPS

\* How one step changes a document: each operator maps State to State.
LEMMA StateOperators ==
  ASSUME NEW s \in State
  PROVE  /\ Bump(s) \in State
         /\ NeedsUpgrade(s) => Migrate(s) \in State
         /\ Recover(s) \in State
<1>1. Bump(s) \in State
  BY DEF State, Bump
<1>2. ASSUME NeedsUpgrade(s) PROVE Migrate(s) \in State
  <2>1. CASE s.status = "running" /\ s.owner = NoOwner
    <3>1. Migrate(s) = [s EXCEPT !.schema = "current", !.owner = MigratedOwner]
      BY <2>1 DEF Migrate
    <3> QED BY <2>1, <3>1, CommandAssumption DEF State
  <2>2. CASE ~(s.status = "running" /\ s.owner = NoOwner)
    <3>1. Migrate(s) = [s EXCEPT !.schema = "current"]
      BY <2>2 DEF Migrate, State
    <3> QED BY <2>2, <3>1 DEF State
  <2> QED BY <2>1, <2>2
<1>3. Recover(s) \in State
  BY DEF State, Status, Recover
<1> QED BY <1>1, <1>2, <1>3

LEMMA ChangedType ==
  ASSUME TypeOK, NEW p \in Command, NEW result \in {"completed", "failed"}
  PROVE  Changed(p, result) \in State
<1>1. snap[p] \in State /\ purpose[p] \in Purpose
  BY DEF TypeOK
<1> DEFINE s == [snap[p] EXCEPT !.applied = @ \cup {<<p, purpose[p]>>}]
<1>2. s \in State
  BY <1>1 DEF State
<1>3. CASE purpose[p] = "start"
  <2>1. [s EXCEPT !.status = "running", !.owner = p] \in State
    BY <1>2, CommandAssumption DEF State, Status
  <2> QED BY <1>3, <2>1 DEF Changed
<1>4. CASE purpose[p] = "finish"
  <2>1. [s EXCEPT !.status = result, !.owner = NoOwner] \in State
    BY <1>2 DEF State, Status
  <2> QED BY <1>4, <2>1 DEF Changed
<1>5. CASE purpose[p] \notin {"start", "finish"}
  BY <1>2, <1>5 DEF Changed
<1> QED BY <1>3, <1>4, <1>5

LEMMA TypeInitial == Init => TypeOK
<1> SUFFICES ASSUME Init PROVE TypeOK
  OBVIOUS
<1>1. disk \in State
  <2>1. PICK sc \in {"legacy", "current"}, st \in {"ready", "running"} :
          /\ disk = [schema |-> sc, revision |-> 0, status |-> st,
                     owner |-> NoOwner, applied |-> {}]
          /\ st = "running" => sc = "legacy"
    BY DEF Init, InitialStates
  <2> QED BY <2>1 DEF State, Status
<1>2. purpose \in [Command -> Purpose] /\ pc \in [Command -> PC]
  BY DEF Init, Purpose, PC
<1> QED BY <1>1, <1>2 DEF Init, TypeOK

LEMMA TypeInductive == TypeOK /\ [Next]_vars => TypeOK'
<1> SUFFICES ASSUME TypeOK, [Next]_vars PROVE TypeOK'
  OBVIOUS
<1> USE DEF TypeOK
<1>1. ASSUME NEW p \in Command, Read(p) PROVE TypeOK'
  BY <1>1 DEF Read, PC
<1>2. ASSUME NEW p \in Command, Probe(p) PROVE TypeOK'
  BY <1>2 DEF Probe, PC
<1>3. ASSUME NEW p \in Command, RecoverAndWrite(p) PROVE TypeOK'
  <2>1. prev[p] \in State
    OBVIOUS
  <2>2. disk' \in State /\ snap' \in [Command -> State]
    BY <1>3, <2>1, StateOperators DEF RecoverAndWrite
  <2> QED BY <1>3, <2>2 DEF RecoverAndWrite, PC
<1>4. ASSUME NEW p \in Command, LockCreate(p) \/ LockCreateFails(p) PROVE TypeOK'
  BY <1>4 DEF LockCreate, LockCreateFails, CreateThen, PC
<1>5. ASSUME NEW p \in Command, LockSeenStale(p) PROVE TypeOK'
  BY <1>5 DEF LockSeenStale, PC
<1>6. ASSUME NEW p \in Command, LockReclaim(p) PROVE TypeOK'
  BY <1>6 DEF LockReclaim, Abandon, PC
<1>7. ASSUME NEW p \in Command, LockBusy(p) PROVE TypeOK'
  BY <1>7 DEF LockBusy, Abandon, PC
<1>8. ASSUME NEW p \in Command, ReadLocked(p) PROVE TypeOK'
  BY <1>8 DEF ReadLocked, PC
<1>9. ASSUME NEW p \in Command, Unlock(p) PROVE TypeOK'
  BY <1>9 DEF Unlock, Abandon, PC
<1>10. ASSUME NEW p \in Command, BeginSave(p) PROVE TypeOK'
  BY <1>10 DEF BeginSave, Abandon, PC
<1>11. ASSUME NEW p \in Command, PollAgain(p) PROVE TypeOK'
  BY <1>11 DEF PollAgain, PC
<1>12. ASSUME NEW p \in Command, SaveRefused(p) PROVE TypeOK'
  BY <1>12 DEF SaveRefused, PC
<1>13. ASSUME NEW p \in Command, SaveCommit(p) PROVE TypeOK'
  <2>1. disk' \in State
    BY <1>13, ChangedType, StateOperators DEF SaveCommit
  <2> QED BY <1>13, <2>1 DEF SaveCommit, PC
<1>14. ASSUME NEW p \in Command, WriteFails(p) PROVE TypeOK'
  BY <1>14 DEF WriteFails, PC
<1>15. ASSUME NEW p \in Command, WorkDone(p) PROVE TypeOK'
  BY <1>15 DEF WorkDone, PC, Purpose
<1>16. ASSUME LockAges PROVE TypeOK'
  BY <1>16 DEF LockAges
<1>17. ASSUME NEW i \in Instance, Crash(i) PROVE TypeOK'
  BY <1>17 DEF Crash, PC
<1>18. ASSUME UNCHANGED vars PROVE TypeOK'
  BY <1>18 DEF vars
<1> QED
  BY <1>1, <1>2, <1>3, <1>4, <1>5, <1>6, <1>7, <1>8, <1>9, <1>10, <1>11, <1>12,
     <1>13, <1>14, <1>15, <1>16, <1>17, <1>18 DEF Next, Step

\* Every reachable state is well typed, and in particular the file never holds
\* a RUNNING stage without an owner nor an owner without a RUNNING stage.
THEOREM TypeCorrect == Spec => []TypeOK
BY TypeInitial, TypeInductive, PTL DEF Spec

-----------------------------------------------------------------------------
(* The lock file.  Its protocol is exclusive only while no lock file grows  *)
(* stale under a live holder and none is left behind by a crash.            *)

LockReliable == ~MayStall /\ ~MayCrashInLock

LockInv ==
  /\ lockOld = FALSE
  /\ \A p \in Command : pc[p] # "reclaim" /\ (InLock(p) <=> lockFile = p)

LEMMA LockInitial == Init => LockInv
BY CommandAssumption DEF Init, LockInv, InLock

LEMMA LockInductive ==
  ASSUME LockReliable, TypeOK, LockInv, [Next]_vars PROVE LockInv'
<1> USE DEF TypeOK, LockInv, InLock
<1>1. ASSUME NEW p \in Command, Read(p) PROVE LockInv'
  BY <1>1 DEF Read
<1>2. ASSUME NEW p \in Command, Probe(p) PROVE LockInv'
  BY <1>2 DEF Probe
<1>3. ASSUME NEW p \in Command, RecoverAndWrite(p) PROVE LockInv'
  BY <1>3 DEF RecoverAndWrite
<1>4. ASSUME NEW p \in Command, LockCreate(p) \/ LockCreateFails(p) PROVE LockInv'
  BY <1>4, CommandAssumption DEF LockCreate, LockCreateFails, CreateThen
<1>5. ASSUME NEW p \in Command, LockSeenStale(p) \/ LockReclaim(p) PROVE LockInv'
  BY <1>5 DEF LockSeenStale, LockReclaim
<1>7. ASSUME NEW p \in Command, LockBusy(p) PROVE LockInv'
  BY <1>7 DEF LockBusy, Abandon
<1>8. ASSUME NEW p \in Command, ReadLocked(p) PROVE LockInv'
  BY <1>8 DEF ReadLocked
<1>9. ASSUME NEW p \in Command, Unlock(p) PROVE LockInv'
  BY <1>9, CommandAssumption DEF Unlock, Abandon
<1>10. ASSUME NEW p \in Command, BeginSave(p) PROVE LockInv'
  BY <1>10 DEF BeginSave, Abandon
<1>11. ASSUME NEW p \in Command, PollAgain(p) PROVE LockInv'
  BY <1>11 DEF PollAgain
<1>12. ASSUME NEW p \in Command, SaveRefused(p) PROVE LockInv'
  BY <1>12 DEF SaveRefused
<1>13. ASSUME NEW p \in Command, SaveCommit(p) PROVE LockInv'
  BY <1>13 DEF SaveCommit
<1>14. ASSUME NEW p \in Command, WriteFails(p) PROVE LockInv'
  BY <1>14 DEF WriteFails
<1>15. ASSUME NEW p \in Command, WorkDone(p) PROVE LockInv'
  BY <1>15 DEF WorkDone
<1>16. ASSUME LockAges PROVE LockInv'
  BY <1>16, CommandAssumption DEF LockAges, LockReliable
<1>17. ASSUME NEW i \in Instance, Crash(i) PROVE LockInv'
  BY <1>17 DEF Crash, LockReliable
<1>18. ASSUME UNCHANGED vars PROVE LockInv'
  BY <1>18 DEF vars
<1> QED
  BY <1>1, <1>2, <1>3, <1>4, <1>5, <1>7, <1>8, <1>9, <1>10, <1>11, <1>12,
     <1>13, <1>14, <1>15, <1>16, <1>17, <1>18 DEF Next, Step

LEMMA LockCorrect == ASSUME LockReliable PROVE Spec => [](TypeOK /\ LockInv)
<1>1. Init => TypeOK /\ LockInv
  BY TypeInitial, LockInitial
<1>2. TypeOK /\ LockInv /\ [Next]_vars => (TypeOK /\ LockInv)'
  BY TypeInductive, LockInductive
<1> QED BY <1>1, <1>2, PTL DEF Spec

\* Two commands are never in the lock section at once.
THEOREM LockIsExclusive == ASSUME LockReliable PROVE Spec => []OneHolder
<1>1. TypeOK /\ LockInv => OneHolder
  BY CommandAssumption DEF TypeOK, LockInv, OneHolder
<1> QED BY <1>1, LockCorrect, PTL
-----------------------------------------------------------------------------
(* Snapshots.  A command that has read the file under the lock still has    *)
(* the file's contents, and a revision is never used for two documents.     *)

SnapInv ==
  /\ \A p \in Command : pc[p] = "write" => prev[p] = disk
  /\ \A p \in Command : snap[p].revision <= disk.revision
  /\ RevisionIdentifiesState

LEMMA SnapInitial == Init => SnapInv
<1>1. Init => disk.revision = 0
  BY DEF Init, InitialStates
<1> QED BY <1>1 DEF Init, SnapInv, RevisionIdentifiesState

\* A write is a new document: it raises the revision and keeps every update.
LEMMA RecoveryWrites ==
  ASSUME TypeOK, SnapInv, NEW p \in Command, RecoverAndWrite(p)
  PROVE  /\ snap' = [snap EXCEPT ![p] = disk']
         /\ \/ disk' = disk
            \/ NeedsUpgrade(disk) /\ disk' = Bump(Migrate(disk))
            \/ /\ disk.status = "running" /\ disk.owner \notin lease
               /\ disk' = Bump(Recover(disk))
<1>1. prev[p] = disk
  BY DEF SnapInv, RecoverAndWrite
<1> QED BY <1>1 DEF RecoverAndWrite, ProbeMaySay

LEMMA SaveWrites ==
  ASSUME TypeOK, SnapInv, NEW p \in Command, SaveCommit(p)
  PROVE  /\ snap[p] = disk /\ snap' = snap
         /\ \E result \in {"completed", "failed"} :
              /\ disk' = Bump(Changed(p, result))
              /\ AllowedTransition(disk.status, Changed(p, result).status)
<1>1. prev[p] = disk
  BY DEF SnapInv, SaveCommit
<1>2. snap[p] = disk
  BY <1>1 DEF SnapInv, RevisionIdentifiesState, SaveCommit
<1> QED BY <1>1, <1>2 DEF SaveCommit

LEMMA ChangedKeeps ==
  ASSUME TypeOK, NEW p \in Command, NEW result
  PROVE  /\ Changed(p, result).revision = snap[p].revision
         /\ Changed(p, result).applied = snap[p].applied \cup {<<p, purpose[p]>>}
<1>1. snap[p] \in State
  BY DEF TypeOK
<1> QED BY <1>1 DEF Changed, State

\* A step either leaves the document alone or writes one with the next
\* revision and with every update the old one contained.
LEMMA WritesGrow ==
  ASSUME TypeOK, SnapInv, NEW p \in Command, RecoverAndWrite(p) \/ SaveCommit(p)
  PROVE  \/ disk' = disk
         \/ disk'.revision = disk.revision + 1 /\ disk.applied \subseteq disk'.applied
<1>0. disk \in State
  BY DEF TypeOK
<1>1. CASE RecoverAndWrite(p)
  BY <1>0, <1>1, RecoveryWrites DEF Bump, Migrate, Recover, State
<1>2. CASE SaveCommit(p)
  <2>1. PICK result \in {"completed", "failed"} :
          snap[p] = disk /\ disk' = Bump(Changed(p, result))
    BY <1>2, SaveWrites
  <2>2. Changed(p, result) \in State
    BY ChangedType
  <2> QED BY <1>0, <2>1, <2>2, ChangedKeeps DEF Bump, State
<1> QED BY <1>1, <1>2

LEMMA SnapInductive ==
  ASSUME TypeOK, TypeOK', LockInv, SnapInv, [Next]_vars PROVE SnapInv'
<1> USE DEF SnapInv, RevisionIdentifiesState
<1>0. disk.revision \in Nat /\ \A p \in Command : snap[p].revision \in Nat
  BY DEF TypeOK, State
<1>1. ASSUME NEW p \in Command, Read(p) PROVE SnapInv'
  BY <1>0, <1>1 DEF Read, TypeOK
<1>2. ASSUME NEW p \in Command, ReadLocked(p) PROVE SnapInv'
  BY <1>2 DEF ReadLocked, TypeOK
<1>3. ASSUME NEW p \in Command, RecoverAndWrite(p) PROVE SnapInv'
  <2>1. snap' = [snap EXCEPT ![p] = disk'] /\ snap'[p] = disk'
    BY <1>3, RecoveryWrites DEF TypeOK
  <2>2. disk' = disk \/ disk'.revision = disk.revision + 1
    BY <1>3, WritesGrow
  <2>3. ASSUME NEW q \in Command, pc'[q] = "write" PROVE prev'[q] = disk'
    BY <1>3, <2>3 DEF RecoverAndWrite, LockInv, InLock, TypeOK
  <2>4. ASSUME NEW q \in Command
        PROVE  /\ snap'[q].revision <= disk'.revision
               /\ snap'[q].revision = disk'.revision => snap'[q] = disk'
    <3>1. CASE q = p
      <4>1. disk'.revision \in Nat
        BY <1>0, <2>2
      <4> QED BY <2>1, <3>1, <4>1
    <3>2. CASE q # p
      <4>1. snap'[q] = snap[q]
        BY <2>1, <3>2 DEF TypeOK
      <4>2. CASE disk' = disk
        BY <4>1, <4>2
      <4>3. CASE disk'.revision = disk.revision + 1
        BY <1>0, <4>1, <4>3
      <4> QED BY <2>2, <4>2, <4>3
    <3> QED BY <3>1, <3>2
  <2> QED BY <2>3, <2>4
<1>4. ASSUME NEW p \in Command, SaveCommit(p) PROVE SnapInv'
  <2>1. snap' = snap
    BY <1>4, SaveWrites
  <2>2. disk' = disk \/ disk'.revision = disk.revision + 1
    BY <1>4, WritesGrow
  <2>3. ASSUME NEW q \in Command, pc'[q] = "write" PROVE prev'[q] = disk'
    BY <1>4, <2>3 DEF SaveCommit, LockInv, InLock, TypeOK
  <2> QED BY <1>0, <2>1, <2>2, <2>3
<1>5. ASSUME UNCHANGED <<disk, snap, prev>>,
             \A p \in Command : pc'[p] = "write" => pc[p] = "write"
      PROVE  SnapInv'
  BY <1>5
<1>6. ASSUME NEW p \in Command,
             \/ Probe(p) \/ LockCreate(p) \/ LockCreateFails(p) \/ LockSeenStale(p)
             \/ LockReclaim(p) \/ LockBusy(p) \/ Unlock(p) \/ BeginSave(p)
             \/ PollAgain(p) \/ SaveRefused(p) \/ WriteFails(p) \/ WorkDone(p)
      PROVE  SnapInv'
  BY <1>5, <1>6 DEF TypeOK, Probe, LockCreate, LockCreateFails, CreateThen,
     LockSeenStale, LockReclaim, LockBusy, Abandon, Unlock, BeginSave, PollAgain,
     SaveRefused, WriteFails, WorkDone
<1>7. ASSUME LockAges \/ UNCHANGED vars PROVE SnapInv'
  BY <1>5, <1>7 DEF LockAges, vars
<1>8. ASSUME NEW i \in Instance, Crash(i) PROVE SnapInv'
  BY <1>5, <1>8 DEF Crash, TypeOK
<1> QED BY <1>1, <1>2, <1>3, <1>4, <1>6, <1>7, <1>8 DEF Next, Step

LEMMA SnapCorrect ==
  ASSUME LockReliable PROVE Spec => [](TypeOK /\ LockInv /\ SnapInv)
<1>1. Init => SnapInv
  BY SnapInitial
<1>2. TypeOK /\ LockInv /\ SnapInv /\ TypeOK' /\ [Next]_vars => SnapInv'
  BY SnapInductive
<1> QED BY <1>1, <1>2, LockCorrect, PTL DEF Spec

\* A copy with the revision on disk is the document on disk, so comparing
\* revisions is enough to detect a concurrent change.
THEOREM RevisionsAreUnique == ASSUME LockReliable PROVE Spec => []RevisionIdentifiesState
<1>1. SnapInv => RevisionIdentifiesState
  BY DEF SnapInv
<1> QED BY <1>1, SnapCorrect, PTL

\* Every other step leaves the document alone.
LEMMA OnlyWritersWrite ==
  ASSUME [Next]_vars
  PROVE  disk' = disk \/ \E p \in Command : RecoverAndWrite(p) \/ SaveCommit(p)
BY DEF Next, Step, vars, Read, ReadLocked, Probe, LockCreate, LockCreateFails,
   CreateThen, LockSeenStale, LockReclaim, LockBusy, Unlock, BeginSave, PollAgain,
   SaveRefused, WriteFails, WorkDone, LockAges, Crash

\* No update that reached the file is lost to a later save or recovery.
THEOREM UpdatesAreKept == ASSUME LockReliable PROVE Spec => NoLostUpdate
<1>1. ASSUME TypeOK, SnapInv, [Next]_vars PROVE disk.applied \subseteq disk'.applied
  <2>1. CASE \E p \in Command : RecoverAndWrite(p) \/ SaveCommit(p)
    BY <1>1, <2>1, WritesGrow
  <2>2. CASE disk' = disk
    BY <2>2
  <2> QED BY <1>1, <2>1, <2>2, OnlyWritersWrite
<1> QED BY <1>1, SnapCorrect, PTL DEF Spec, NoLostUpdate

-----------------------------------------------------------------------------
(* Ownership.  A runner holds its lease from before the save that starts    *)
(* the stage until after the save that records its outcome.                 *)

\* The runner has decided to start and has not saved yet.
Starting(p) ==
  purpose[p] = "start" /\ ~recovering[p] /\ pc[p] \in {"lock", "read", "write"}

\* The stage is the runner's: from the save that started it to the save that
\* records its outcome.
Executing(p) ==
  \/ pc[p] = "work"
  \/ purpose[p] = "start" /\ ~recovering[p] /\ pc[p] = "unlock"
  \/ purpose[p] = "finish" /\ pc[p] \in {"load", "probe", "loaded", "lock", "read", "write"}
  \/ purpose[p] = "finish" /\ recovering[p] /\ pc[p] = "unlock"

OwnerInv ==
  /\ \A p \in Poller : purpose[p] = "poll" /\ pc[p] # "work"
  /\ \A p \in Command :
       Starting(p) => p \in lease /\ snap[p].status \in {"ready", "failed"}
  /\ \A p \in Command :
       Executing(p) => p \in lease /\ disk.status = "running" /\ disk.owner = p

LEMMA OwnerInitial == Init => OwnerInv
BY CommandAssumption DEF Init, OwnerInv, Starting, Executing, Command

\* What the two writes do to the stage.
LEMMA StageWrites ==
  ASSUME TypeOK, SnapInv, OwnerInv, NEW p \in Command, RecoverAndWrite(p) \/ SaveCommit(p)
  PROVE  \/ disk' = disk /\ RecoverAndWrite(p)
         \/ /\ disk'.status = disk.status /\ disk'.owner = disk.owner
            /\ RecoverAndWrite(p) \/ purpose[p] \in {"edit", "poll"}
         \/ /\ RecoverAndWrite(p) /\ disk.status = "running"
            /\ disk.owner = NoOwner /\ disk'.owner = MigratedOwner
            /\ disk'.status = "running"
         \/ /\ RecoverAndWrite(p) /\ disk.status = "running" /\ disk.owner \notin lease
            /\ disk'.status = "failed" /\ disk'.owner = NoOwner
         \/ /\ SaveCommit(p) /\ purpose[p] = "start"
            /\ p \in lease /\ disk.status \in {"ready", "failed"}
            /\ disk'.status = "running" /\ disk'.owner = p
         \/ /\ SaveCommit(p) /\ purpose[p] = "finish"
            /\ p \in lease /\ disk.status = "running" /\ disk.owner = p
            /\ disk'.status \in {"completed", "failed"} /\ disk'.owner = NoOwner
<1>0. disk \in State /\ purpose[p] \in Purpose
  BY DEF TypeOK
<1>1. CASE RecoverAndWrite(p)
  <2>1. CASE NeedsUpgrade(disk) /\ disk' = Bump(Migrate(disk))
    <3>1. CASE disk.status = "running" /\ disk.owner = NoOwner
      BY <1>0, <1>1, <2>1, <3>1 DEF Bump, Migrate, State
    <3>2. CASE ~(disk.status = "running" /\ disk.owner = NoOwner)
      <4>1. Migrate(disk) = [disk EXCEPT !.schema = "current"]
        BY <1>0, <3>2 DEF Migrate, State
      <4> QED BY <1>0, <1>1, <2>1, <4>1 DEF Bump, State
    <3> QED BY <3>1, <3>2
  <2>2. CASE /\ disk.status = "running" /\ disk.owner \notin lease
             /\ disk' = Bump(Recover(disk))
    BY <1>0, <1>1, <2>2 DEF Bump, Recover, State
  <2> QED BY <1>1, <2>1, <2>2, RecoveryWrites
<1>2. CASE SaveCommit(p)
  <2>1. PICK result \in {"completed", "failed"} :
          snap[p] = disk /\ disk' = Bump(Changed(p, result))
    BY <1>2, SaveWrites
  <2> DEFINE s == [disk EXCEPT !.applied = @ \cup {<<p, purpose[p]>>}]
  <2>2. s \in State /\ s.status = disk.status /\ s.owner = disk.owner
    BY <1>0 DEF State
  <2>3. CASE purpose[p] = "start"
    <3>1. Changed(p, result) = [s EXCEPT !.status = "running", !.owner = p]
      BY <2>1, <2>3 DEF Changed
    <3>2. Starting(p)
      BY <1>2, <2>3 DEF Starting, SaveCommit
    <3>3. disk'.status = "running" /\ disk'.owner = p
      BY <2>1, <2>2, <3>1 DEF Bump, State
    <3> QED BY <1>2, <2>1, <2>3, <3>2, <3>3 DEF OwnerInv
  <2>4. CASE purpose[p] = "finish"
    <3>1. Changed(p, result) = [s EXCEPT !.status = result, !.owner = NoOwner]
      BY <2>1, <2>4 DEF Changed
    <3>2. Executing(p)
      BY <1>2, <2>4 DEF Executing, SaveCommit
    <3>3. disk'.status = result /\ disk'.owner = NoOwner
      BY <2>1, <2>2, <3>1 DEF Bump, State
    <3> QED BY <1>2, <2>4, <3>2, <3>3 DEF OwnerInv
  <2>5. CASE purpose[p] \in {"edit", "poll"}
    <3>1. Changed(p, result) = s
      BY <2>1, <2>5 DEF Changed
    <3>2. disk'.status = disk.status /\ disk'.owner = disk.owner
      BY <2>1, <2>2, <3>1 DEF Bump, State
    <3> QED BY <2>5, <3>2
  <2> QED BY <1>0, <2>3, <2>4, <2>5 DEF Purpose
<1> QED BY <1>1, <1>2

LEMMA OwnerInductive ==
  ASSUME TypeOK, TypeOK', LockInv, SnapInv, OwnerInv, [Next]_vars PROVE OwnerInv'
<1> USE DEF OwnerInv, Starting, Executing
<1>1. ASSUME NEW p \in Command, Read(p) PROVE OwnerInv'
  BY <1>1, CommandAssumption DEF Read, TypeOK, Command
<1>2. ASSUME NEW p \in Command, Probe(p) PROVE OwnerInv'
  BY <1>2, CommandAssumption DEF Probe, TypeOK, Command
<1>3. ASSUME NEW p \in Command, RecoverAndWrite(p) PROVE OwnerInv'
  <2>1. /\ UNCHANGED <<lease, purpose, recovering>>
        /\ pc' = [pc EXCEPT ![p] = "unlock"] /\ pc[p] = "write" /\ recovering[p]
    BY <1>3 DEF RecoverAndWrite
  <2>2. ASSUME NEW q \in Command, Starting(q)'
        PROVE  q \in lease /\ snap'[q].status \in {"ready", "failed"}
    <3>1. q # p /\ Starting(q)
      BY <2>1, <2>2 DEF TypeOK
    <3>2. snap'[q] = snap[q]
      BY <1>3, <3>1, RecoveryWrites DEF TypeOK
    <3> QED BY <3>1, <3>2
  <2>3. ASSUME NEW q \in Command, Executing(q)' PROVE Executing(q)
    BY <2>1, <2>3 DEF TypeOK
  <2>4. ASSUME NEW q \in Command, Executing(q)
        PROVE  disk'.status = "running" /\ disk'.owner = q
    <3>1. disk.owner = q /\ q \in lease /\ disk.status = "running" /\ q # NoOwner
      BY <2>4, CommandAssumption
    <3>2. ~SaveCommit(p)
      BY <2>1 DEF SaveCommit
    <3>3. disk'.status = disk.status /\ disk'.owner = disk.owner
      <4> HIDE DEF OwnerInv, Starting, Executing
      <4>1. disk.status = "running" /\ disk.owner \in lease /\ disk.owner # NoOwner
        BY <3>1
      <4> QED BY <1>3, <3>2, <4>1, StageWrites
    <3> QED BY <3>1, <3>3
  <2> QED BY <2>1, <2>2, <2>3, <2>4, CommandAssumption DEF TypeOK, Command
<1>4. ASSUME NEW p \in Command, SaveCommit(p) PROVE OwnerInv'
  <2>1. /\ UNCHANGED <<lease, purpose, recovering, snap>>
        /\ pc[p] = "write" /\ ~recovering[p]
        /\ \E outcome \in {"unlock", "unlockError"} : pc' = [pc EXCEPT ![p] = outcome]
    BY <1>4 DEF SaveCommit
  <2>2. ASSUME NEW q \in Command, Starting(q)' PROVE Starting(q)
    BY <2>1, <2>2 DEF TypeOK
  <2>3. ASSUME NEW q \in Command, Executing(q)'
        PROVE  q \in lease /\ disk'.status = "running" /\ disk'.owner = q
    <3>1. CASE q = p
      <4>1. purpose[p] = "start"
        BY <2>1, <2>3, <3>1 DEF TypeOK
      <4>2. p \in lease /\ disk.status \in {"ready", "failed"}
        BY <1>4, <2>1, <4>1, SaveWrites
      <4> QED BY <1>4, <3>1, <4>1, <4>2, StageWrites DEF RecoverAndWrite, SaveCommit
    <3>2. CASE q # p
      <4>1. Executing(q)
        BY <2>1, <2>3, <3>2 DEF TypeOK
      <4>2. q \in lease /\ disk.status = "running" /\ disk.owner = q
        BY <4>1
      <4> QED BY <1>4, <3>2, <4>2, StageWrites DEF RecoverAndWrite, SaveCommit
    <3> QED BY <3>1, <3>2
  <2> QED BY <2>1, <2>2, <2>3, CommandAssumption DEF TypeOK, Command
<1>5. ASSUME NEW p \in Command,
             LockCreate(p) \/ LockCreateFails(p) \/ ReadLocked(p) \/ WriteFails(p)
               \/ SaveRefused(p)
      PROVE  OwnerInv'
  BY <1>5, CommandAssumption
     DEF LockCreate, LockCreateFails, CreateThen, ReadLocked, WriteFails,
         SaveRefused, TypeOK, Command
<1>6. ASSUME NEW p \in Command, LockSeenStale(p) \/ LockReclaim(p) PROVE OwnerInv'
  BY <1>6 DEF LockSeenStale, LockReclaim, LockInv
<1>7. ASSUME NEW p \in Command, LockBusy(p) PROVE OwnerInv'
  BY <1>7, CommandAssumption DEF LockBusy, Abandon, TypeOK, Command
<1>8. ASSUME NEW p \in Command, Unlock(p) PROVE OwnerInv'
  BY <1>8, CommandAssumption DEF Unlock, Abandon, TypeOK, Command
<1>9. ASSUME NEW p \in Command, BeginSave(p) PROVE OwnerInv'
  BY <1>9, CommandAssumption DEF BeginSave, Abandon, TypeOK, Command
<1>10. ASSUME NEW p \in Command, PollAgain(p) \/ WorkDone(p) PROVE OwnerInv'
  BY <1>10, CommandAssumption DEF PollAgain, WorkDone, TypeOK, Command
<1>11. ASSUME LockAges \/ UNCHANGED vars PROVE OwnerInv'
  BY <1>11 DEF LockAges, vars
<1>12. ASSUME NEW i \in Instance, Crash(i) PROVE OwnerInv'
  BY <1>12, CommandAssumption DEF Crash, TypeOK, Command
<1> QED BY <1>1, <1>2, <1>3, <1>4, <1>5, <1>6, <1>7, <1>8, <1>9, <1>10, <1>11,
           <1>12 DEF Next, Step

LEMMA OwnerCorrect ==
  ASSUME LockReliable PROVE Spec => [](TypeOK /\ LockInv /\ SnapInv /\ OwnerInv)
<1>1. Init => OwnerInv
  BY OwnerInitial
<1>2. TypeOK /\ LockInv /\ SnapInv /\ OwnerInv /\ TypeOK' /\ [Next]_vars => OwnerInv'
  BY OwnerInductive
<1> QED BY <1>1, <1>2, SnapCorrect, PTL DEF Spec

\* A runner that executes the stage owns it, so no two runners execute it.
THEOREM WorkersOwn == ASSUME LockReliable PROVE Spec => []WorkerOwnsStage
<1>1. OwnerInv => WorkerOwnsStage
  BY DEF OwnerInv, Executing, WorkerOwnsStage
<1> QED BY <1>1, OwnerCorrect, PTL

\* The lock file and the stage have one owner each, in every reachable state.
THEOREM OwnershipIsExclusive == ASSUME LockReliable PROVE Spec => []OneOwner
BY TypeCorrect, LockIsExclusive, WorkersOwn, PTL DEF OneOwner

\* A live owner loses its stage only by recording the outcome itself.
THEOREM LiveOwnersKeep == ASSUME LockReliable PROVE Spec => LiveOwnerKeepsStage
<1>1. ASSUME TypeOK, SnapInv, OwnerInv, [Next]_vars,
             disk.status = "running" /\ disk.owner \in lease,
             <<disk'.status, disk'.owner>> # <<disk.status, disk.owner>>
      PROVE  pc[disk.owner] = "write" /\ purpose[disk.owner] = "finish"
  <2>1. PICK p \in Command : RecoverAndWrite(p) \/ SaveCommit(p)
    BY <1>1, OnlyWritersWrite
  <2>2. lease \subseteq Command
    BY <1>1 DEF TypeOK
  <2>3. disk.owner # NoOwner
    BY <1>1, <2>2, CommandAssumption
  <2>4. SaveCommit(p) /\ purpose[p] = "finish" /\ disk.owner = p
    BY <1>1, <2>1, <2>3, StageWrites
  <2> QED BY <2>4 DEF SaveCommit
<1> QED BY <1>1, OwnerCorrect, PTL DEF Spec, LiveOwnerKeepsStage

-----------------------------------------------------------------------------
(* The store implements LeasedJob.                                          *)

LEMMA JobInitial == Init => Job!Init
BY DEF Init, InitialStates, Job!Init

LEMMA JobStep ==
  ASSUME TypeOK, TypeOK', SnapInv, OwnerInv, [Next]_vars
  PROVE  [Job!Next]_(Job!vars)
<1>1. CASE disk' = disk
  <2>1. lease' \in SUBSET Command
    BY DEF TypeOK
  <2> QED BY <1>1, <2>1 DEF Job!Next, Job!LeasesChange
<1>2. ASSUME NEW p \in Command, RecoverAndWrite(p), disk' # disk
      PROVE  [Job!Next]_(Job!vars)
  <2>1. lease' = lease /\ ~SaveCommit(p)
    BY <1>2 DEF RecoverAndWrite, SaveCommit
  <2>2. disk'.applied = disk.applied
    <3>1. disk \in State
      BY DEF TypeOK
    <3> QED BY <1>2, <3>1, RecoveryWrites DEF Bump, Migrate, Recover, State
  <2>3. CASE disk'.status = disk.status /\ disk'.owner = disk.owner
    BY <2>1, <2>2, <2>3 DEF Job!vars
  <2>4. CASE ~(disk'.status = disk.status /\ disk'.owner = disk.owner)
    <3>1. \/ /\ disk.status = "running" /\ disk.owner = NoOwner
             /\ disk'.owner = MigratedOwner /\ disk'.status = "running"
          \/ /\ disk.status = "running" /\ disk.owner \notin lease
             /\ disk'.status = "failed" /\ disk'.owner = NoOwner
      BY <1>2, <2>1, <2>4, StageWrites
    <3>2. Job!Adopt \/ Job!Reclaim
      BY <2>1, <2>2, <3>1 DEF Job!Adopt, Job!Reclaim
    <3> QED BY <3>2 DEF Job!Next
  <2> QED BY <2>3, <2>4
<1>3. ASSUME NEW p \in Command, SaveCommit(p) PROVE [Job!Next]_(Job!vars)
  <2>1. lease' = lease /\ ~RecoverAndWrite(p)
    BY <1>3 DEF RecoverAndWrite, SaveCommit
  <2>2. disk'.applied = disk.applied \cup {<<p, purpose[p]>>}
    <3>1. PICK result \in {"completed", "failed"} :
            snap[p] = disk /\ disk' = Bump(Changed(p, result))
      BY <1>3, SaveWrites
    <3>2. Changed(p, result) \in State
      BY ChangedType
    <3> QED BY <3>1, <3>2, ChangedKeeps DEF Bump, State
  <2>3. CASE purpose[p] \in {"edit", "poll"}
    <3>1. disk'.status = disk.status /\ disk'.owner = disk.owner
      BY <1>3, <2>1, <2>3, StageWrites
    <3>2. Job!Edit
      BY <2>1, <2>2, <2>3, <3>1 DEF Job!Edit
    <3> QED BY <3>2 DEF Job!Next
  <2>4. CASE purpose[p] = "start"
    <3>1. Job!Start(p)
      BY <1>3, <2>1, <2>2, <2>4, StageWrites DEF Job!Start
    <3> QED BY <3>1 DEF Job!Next
  <2>5. CASE purpose[p] = "finish"
    <3>1. Job!Finish(p)
      BY <1>3, <2>1, <2>2, <2>5, StageWrites DEF Job!Finish
    <3> QED BY <3>1 DEF Job!Next
  <2> QED BY <2>3, <2>4, <2>5 DEF TypeOK, Purpose
<1> QED BY <1>1, <1>2, <1>3, OnlyWritersWrite

\* Loads, saves, recoveries and leases together are the atomic, owner-checked
\* updates of LeasedJob.
THEOREM StoreImplementsJob == ASSUME LockReliable PROVE Spec => JobSpec
<1>1. Init => Job!Init
  BY JobInitial
<1>2. TypeOK /\ SnapInv /\ OwnerInv /\ TypeOK' /\ [Next]_vars => [Job!Next]_(Job!vars)
  BY JobStep
<1> QED BY <1>1, <1>2, OwnerCorrect, PTL DEF Spec, JobSpec, Job!Spec
=============================================================================
