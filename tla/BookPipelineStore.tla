------------------------- MODULE BookPipelineStore -------------------------
(***************************************************************************)
(* The durable job state of the launcher: book_pipeline/store.rs.          *)
(*                                                                         *)
(* Every Tauri command builds a store of its own, loads jobs.json without  *)
(* a lock, works on the copy and saves it back.  A save takes the lock     *)
(* file jobs.json.lock, compares the revision it started from with the one *)
(* on disk, and replaces the file by a rename.  A command that executes a  *)
(* stage holds an OS lock (its execution lease) until its store is         *)
(* dropped; a load that finds a RUNNING stage whose owner holds no lease   *)
(* takes the lock file and turns the stage into FAILED.                    *)
(*                                                                         *)
(* The document is abstracted to one stage (status, owner), the schema it  *)
(* was written with, its revision, and the set of saves it contains        *)
(* ("applied"), which is what a lost update loses.                         *)
(***************************************************************************)
EXTENDS Integers

CONSTANTS
  Editor,         \* commands that load, change something else and save
  Runner,         \* commands that start the stage, execute it and record it
  Poller,         \* the dashboard poll, which loads for ever
  Instance,       \* launcher processes
  InstanceOf,     \* the launcher process a command runs in
  Crashable,      \* the processes that may die
  MayCrashInLock, \* TRUE: a process may die while it holds the lock file
  MayStall,       \* TRUE: a live holder may keep the lock file over 30 s
  NoLock, NoOwner, MigratedOwner

Command == Editor \cup Runner \cup Poller

ASSUME CommandAssumption ==
  /\ Editor \cap Runner = {} /\ Editor \cap Poller = {} /\ Runner \cap Poller = {}
  /\ InstanceOf \in [Command -> Instance]
  /\ Crashable \subseteq Instance
  /\ MayCrashInLock \in BOOLEAN /\ MayStall \in BOOLEAN
  /\ NoLock \notin Command
  /\ {NoOwner, MigratedOwner} \cap Command = {} /\ NoOwner # MigratedOwner

VARIABLES
  disk,       \* jobs.json
  lockFile,   \* jobs.json.lock: absent, or the command that created it
  lockOld,    \* its modification time is more than 30 seconds ago
  lease,      \* the commands whose lease file is locked
  pc,         \* where each command is
  purpose,    \* what its present load is for
  recovering, \* its present lock section is the one of load, not of save
  snap,       \* the state in its memory
  prev        \* what it read under the lock

vars == <<disk, lockFile, lockOld, lease, pc, purpose, recovering, snap, prev>>

Status  == {"ready", "running", "failed", "completed"}
Purpose == {"edit", "start", "finish", "poll"}

\* A stage has an owner exactly while it is RUNNING; before the migration a
\* RUNNING stage may lack one.
State ==
  {s \in [schema: {"legacy", "current"}, revision: Nat, status: Status,
          owner: Command \cup {NoOwner, MigratedOwner},
          applied: SUBSET (Command \X Purpose)] :
     /\ s.owner # NoOwner => s.status = "running"
     /\ s.schema = "current" /\ s.status = "running" => s.owner # NoOwner}

PC == {"load", "probe", "loaded", "lock", "reclaim", "read", "write",
       "unlock", "unlockError", "work", "done", "crashed"}

InLock(p) == pc[p] \in {"read", "write", "unlock", "unlockError"}

TypeOK ==
  /\ disk \in State
  /\ lockFile \in Command \cup {NoLock}
  /\ lockOld \in BOOLEAN
  /\ lease \subseteq Command
  /\ pc \in [Command -> PC]
  /\ purpose \in [Command -> Purpose]
  /\ recovering \in [Command -> BOOLEAN]
  /\ snap \in [Command -> State]
  /\ prev \in [Command -> State]

\* A file written by this version, or one of the previous schema that may hold
\* a RUNNING stage without an owner.
InitialStates ==
  {[schema |-> sc, revision |-> 0, status |-> st, owner |-> NoOwner,
    applied |-> {}] : sc \in {"legacy", "current"}, st \in {"ready", "running"}}

Init ==
  /\ disk \in {s \in InitialStates : s.status = "running" => s.schema = "legacy"}
  /\ lockFile = NoLock /\ lockOld = FALSE
  /\ lease = {}
  /\ pc = [p \in Command |-> "load"]
  /\ purpose = [p \in Command |-> IF p \in Editor THEN "edit"
                                  ELSE IF p \in Runner THEN "start" ELSE "poll"]
  /\ recovering = [p \in Command |-> FALSE]
  /\ snap = [p \in Command |-> disk]
  /\ prev = [p \in Command |-> disk]

-----------------------------------------------------------------------------
(* What the code computes from a state.                                    *)

NeedsUpgrade(s) == s.schema = "legacy"

\* An orphan of a previous schema gets an owner that no lease answers for.
Migrate(s) ==
  [s EXCEPT !.schema = "current",
            !.owner = IF s.status = "running" /\ s.owner = NoOwner
                      THEN MigratedOwner ELSE @]

Recover(s) == [s EXCEPT !.status = "failed", !.owner = NoOwner]

\* Mutant: the revision is written back as it was read.
NoBump(s) == s

Bump(s) == [s EXCEPT !.revision = @ + 1]

\* The rows of the transition matrix between the four statuses kept here.
AllowedTransition(from, to) ==
  \/ from = to
  \/ <<from, to>> \in {<<"ready", "running">>, <<"running", "completed">>,
                       <<"running", "failed">>, <<"failed", "running">>,
                       <<"failed", "ready">>}

\* The state a command hands to save: its snapshot with its own change.
Changed(p, result) ==
  LET s == [snap[p] EXCEPT !.applied = @ \cup {<<p, purpose[p]>>}] IN
  CASE purpose[p] = "start"  -> [s EXCEPT !.status = "running", !.owner = p]
    [] purpose[p] = "finish" -> [s EXCEPT !.status = result, !.owner = NoOwner]
    [] OTHER -> s

\* Mutant: a probe that may always lock the file.
ProbeAlwaysFree(p, owner, active) == ~active

\* A probe opens the lease file and tries to lock it.  It answers "active" for
\* a held lease, and also when another probe holds the lock for an instant.
ProbeMaySay(p, owner, active) ==
  IF active THEN \/ owner \in lease
                 \/ \E q \in Command \ {p} :
                      pc[q] = "probe" \/ (pc[q] = "write" /\ recovering[q])
  ELSE owner \notin lease

-----------------------------------------------------------------------------
(* load                                                                    *)

\* The unlocked read; the rename makes it see one complete document.
Read(p) ==
  /\ pc[p] = "load"
  /\ snap' = [snap EXCEPT ![p] = disk]
  /\ pc' = [pc EXCEPT ![p] = "probe"]
  /\ UNCHANGED <<disk, lockFile, lockOld, lease, purpose, recovering, prev>>

\* state_needs_upgrade or has_interrupted_running_stage: only then is the
\* lock taken.
Probe(p) ==
  /\ pc[p] = "probe"
  /\ \E active \in BOOLEAN :
       /\ ProbeMaySay(p, snap[p].owner, active)
       /\ LET needed == \/ NeedsUpgrade(snap[p])
                        \/ snap[p].status = "running" /\ ~active
          IN /\ recovering' = [recovering EXCEPT ![p] = needed]
             /\ pc' = [pc EXCEPT ![p] = IF needed THEN "lock" ELSE "loaded"]
  /\ UNCHANGED <<disk, lockFile, lockOld, lease, purpose, snap, prev>>

\* The locked half of load: re-read, decide again, write if anything changed.
RecoverAndWrite(p) ==
  /\ pc[p] = "write" /\ recovering[p]
  /\ \E active \in BOOLEAN :
       /\ ProbeMaySay(p, prev[p].owner, active)
       /\ LET result ==
                IF NeedsUpgrade(prev[p]) THEN Bump(Migrate(prev[p]))
                ELSE IF prev[p].status = "running" /\ ~active
                     THEN Bump(Recover(prev[p])) ELSE prev[p]
          IN /\ disk' = IF result = prev[p] THEN disk ELSE result
             /\ snap' = [snap EXCEPT ![p] = result]
  /\ pc' = [pc EXCEPT ![p] = "unlock"]
  /\ UNCHANGED <<lockFile, lockOld, lease, purpose, recovering, prev>>

-----------------------------------------------------------------------------
(* acquire_lock and the drop of its guard                                  *)

\* create_new, so only one command creates the file.
CreateThen(p, label) ==
  /\ pc[p] = "lock" /\ lockFile = NoLock
  /\ lockFile' = p /\ lockOld' = FALSE
  /\ pc' = [pc EXCEPT ![p] = label]
  /\ UNCHANGED <<disk, lease, purpose, recovering, snap, prev>>

LockCreate(p) == CreateThen(p, "read")

\* The process id could not be written: the guard is dropped at once.
LockCreateFails(p) == CreateThen(p, "unlockError")

\* Mutant: the age of the lock file is not looked at.
NeverSeenStale(p) == FALSE /\ UNCHANGED vars

\* The file exists and its age is over the threshold ...
LockSeenStale(p) ==
  /\ pc[p] = "lock" /\ lockFile # NoLock /\ lockOld
  /\ pc' = [pc EXCEPT ![p] = "reclaim"]
  /\ UNCHANGED <<disk, lockFile, lockOld, lease, purpose, recovering, snap, prev>>

\* Where a command goes when its store call returned an error: the command
\* ends and drops its store, and with it the lease; the poll comes again.
Abandon(p) ==
  /\ pc' = [pc EXCEPT ![p] = IF p \in Poller THEN "load" ELSE "done"]
  /\ lease' = lease \ {p}

\* ... so whatever file has that name now is removed.  The 200th try ends in
\* the busy error even if it removed the file.
LockReclaim(p) ==
  /\ pc[p] = "reclaim"
  /\ lockFile' = NoLock /\ lockOld' = FALSE
  /\ \/ pc' = [pc EXCEPT ![p] = "lock"] /\ UNCHANGED lease
     \/ Abandon(p)
  /\ UNCHANGED <<disk, purpose, recovering, snap, prev>>

\* 200 tries, 5 ms apart, found a young lock file.
LockBusy(p) ==
  /\ pc[p] = "lock" /\ lockFile # NoLock /\ ~lockOld
  /\ Abandon(p)
  /\ UNCHANGED <<disk, lockFile, lockOld, purpose, recovering, snap, prev>>

ReadLocked(p) ==
  /\ pc[p] = "read"
  /\ prev' = [prev EXCEPT ![p] = disk]
  /\ pc' = [pc EXCEPT ![p] = "write"]
  /\ UNCHANGED <<disk, lockFile, lockOld, lease, purpose, recovering, snap>>

\* The guard removes the path, whoever created the file that is there.
Unlock(p) ==
  /\ pc[p] \in {"unlock", "unlockError"}
  /\ lockFile' = NoLock /\ lockOld' = FALSE
  /\ \/ /\ pc[p] = "unlockError" /\ Abandon(p)
     \/ /\ pc[p] = "unlock" /\ recovering[p]
        /\ pc' = [pc EXCEPT ![p] = "loaded"] /\ UNCHANGED lease
     \/ /\ pc[p] = "unlock" /\ ~recovering[p] /\ purpose[p] = "start"
        /\ pc' = [pc EXCEPT ![p] = "work"] /\ UNCHANGED lease
     \/ /\ pc[p] = "unlock" /\ ~recovering[p] /\ purpose[p] # "start"
        /\ Abandon(p)
  /\ UNCHANGED <<disk, purpose, recovering, snap, prev>>

-----------------------------------------------------------------------------
(* save and the commands that call it                                      *)

\* Mutant: the lease is acquired when the work is recorded, not before it starts.
BeginSaveLeaseLate(p) ==
  /\ pc[p] = "loaded" /\ p \notin Poller
  /\ purpose[p] = "start" => snap[p].status \in {"ready", "failed"}
  /\ recovering' = [recovering EXCEPT ![p] = FALSE]
  /\ lease' = IF purpose[p] = "finish" THEN lease \cup {p} ELSE lease
  /\ pc' = [pc EXCEPT ![p] = "lock"]
  /\ UNCHANGED <<disk, lockFile, lockOld, purpose, snap, prev>>

\* The command has its state and goes on to save; a runner first checks that
\* the stage may start and acquires its lease.
BeginSave(p) ==
  /\ pc[p] = "loaded" /\ p \notin Poller
  /\ recovering' = [recovering EXCEPT ![p] = FALSE]
  /\ \/ /\ purpose[p] = "start" /\ snap[p].status \in {"ready", "failed"}
        /\ lease' = lease \cup {p}
        /\ pc' = [pc EXCEPT ![p] = "lock"]
     \/ /\ purpose[p] = "start" /\ snap[p].status \notin {"ready", "failed"}
        /\ Abandon(p)
     \/ /\ purpose[p] # "start"
        /\ pc' = [pc EXCEPT ![p] = "lock"] /\ UNCHANGED lease
  /\ UNCHANGED <<disk, lockFile, lockOld, purpose, snap, prev>>

PollAgain(p) ==
  /\ pc[p] = "loaded" /\ p \in Poller
  /\ pc' = [pc EXCEPT ![p] = "load"]
  /\ UNCHANGED <<disk, lockFile, lockOld, lease, purpose, recovering, snap, prev>>

\* The revision and transition checks of save refuse the write.
SaveRefused(p) ==
  /\ pc[p] = "write" /\ ~recovering[p]
  /\ \E result \in {"completed", "failed"} :
       \/ prev[p].revision # snap[p].revision
       \/ ~AllowedTransition(prev[p].status, Changed(p, result).status)
  /\ pc' = [pc EXCEPT ![p] = "unlockError"]
  /\ UNCHANGED <<disk, lockFile, lockOld, lease, purpose, recovering, snap, prev>>

\* Mutant: the revision is not compared.
SaveWithoutRevisionCheck(p) ==
  /\ pc[p] = "write" /\ ~recovering[p]
  /\ \E result \in {"completed", "failed"} :
       /\ AllowedTransition(prev[p].status, Changed(p, result).status)
       /\ disk' = Bump(Changed(p, result))
  /\ pc' = [pc EXCEPT ![p] = "unlock"]
  /\ UNCHANGED <<lockFile, lockOld, lease, purpose, recovering, snap, prev>>

\* Temporary file, fsync, rename.  The directory fsync comes after the rename,
\* so its error is reported for a write that took place.
SaveCommit(p) ==
  /\ pc[p] = "write" /\ ~recovering[p]
  /\ prev[p].revision = snap[p].revision
  /\ \E result \in {"completed", "failed"} :
       /\ AllowedTransition(prev[p].status, Changed(p, result).status)
       /\ disk' = Bump(Changed(p, result))
  /\ \E outcome \in {"unlock", "unlockError"} : pc' = [pc EXCEPT ![p] = outcome]
  /\ UNCHANGED <<lockFile, lockOld, lease, purpose, recovering, snap, prev>>

\* An I/O error before the rename, in save or in load.
WriteFails(p) ==
  /\ pc[p] = "write"
  /\ pc' = [pc EXCEPT ![p] = "unlockError"]
  /\ UNCHANGED <<disk, lockFile, lockOld, lease, purpose, recovering, snap, prev>>

\* The stage's work ends; the command loads again to record the outcome.
WorkDone(p) ==
  /\ pc[p] = "work"
  /\ purpose' = [purpose EXCEPT ![p] = "finish"]
  /\ pc' = [pc EXCEPT ![p] = "load"]
  /\ UNCHANGED <<disk, lockFile, lockOld, lease, recovering, snap, prev>>

-----------------------------------------------------------------------------
(* The environment                                                         *)

\* Thirty seconds pass for a lock file that is still there.
LockAges ==
  /\ lockFile # NoLock /\ ~lockOld
  /\ MayStall \/ ~InLock(lockFile)
  /\ lockOld' = TRUE
  /\ UNCHANGED <<disk, lockFile, lease, pc, purpose, recovering, snap, prev>>

\* A launcher process dies with all its commands: its leases are released by
\* the operating system, its lock file stays.
Crash(i) ==
  LET dead == {p \in Command : InstanceOf[p] = i /\ pc[p] \notin {"done", "crashed"}}
  IN /\ i \in Crashable /\ dead # {}
     /\ MayCrashInLock \/ \A p \in dead : ~InLock(p)
     /\ pc' = [p \in Command |-> IF p \in dead THEN "crashed" ELSE pc[p]]
     /\ lease' = lease \ dead
     /\ UNCHANGED <<disk, lockFile, lockOld, purpose, recovering, snap, prev>>

Step(p) ==
  \/ Read(p) \/ Probe(p) \/ RecoverAndWrite(p)
  \/ LockCreate(p) \/ LockCreateFails(p) \/ LockSeenStale(p) \/ LockReclaim(p) \/ LockBusy(p)
  \/ ReadLocked(p) \/ Unlock(p)
  \/ BeginSave(p) \/ PollAgain(p)
  \/ SaveRefused(p) \/ SaveCommit(p) \/ WriteFails(p) \/ WorkDone(p)

Next ==
  \/ \E p \in Command : Step(p)
  \/ LockAges
  \/ \E i \in Instance : Crash(i)

Spec == Init /\ [][Next]_vars

\* Threads are scheduled, time passes for a lock file nobody holds, and the
\* disk does not refuse the writes of the poll, which comes back for ever.
FairSpec ==
  /\ Spec
  /\ \A p \in Command : WF_vars(Step(p))
  /\ \A p \in Poller : SF_vars(LockCreate(p)) /\ SF_vars(RecoverAndWrite(p))
  /\ WF_vars(LockAges)

-----------------------------------------------------------------------------
(* Properties                                                              *)

\* At most one command is between creating the lock file and removing it.
OneHolder ==
  \A p, q \in Command : InLock(p) /\ InLock(q) => p = q

\* No save that reached the disk is undone by a later one: the revision guard
\* refuses every write computed from an older document.
NoLostUpdate == [][disk.applied \subseteq disk'.applied]_vars

\* The revision identifies the document: a command whose copy carries the
\* revision on disk has exactly that document, so comparing revisions is
\* enough (no other document was ever written with the same number).
RevisionIdentifiesState ==
  \A p \in Command : snap[p].revision = disk.revision => snap[p] = disk

\* While a runner executes its stage the file says the stage is RUNNING and
\* owned by that runner: no recovery pass, save or second runner takes a stage
\* from a live owner, so no stage is executed twice at once.
WorkerOwnsStage ==
  \A p \in Command :
    pc[p] = "work" => disk.status = "running" /\ disk.owner = p

\* Both levels of ownership are exclusive: one command holds the lock file, and
\* the stage belongs to the one command that works on it.
OneOwner == TypeOK /\ OneHolder /\ WorkerOwnsStage

\* A stage whose owner still holds its lease leaves RUNNING only by that
\* owner's own save.
LiveOwnerKeepsStage ==
  [][disk.status = "running" /\ disk.owner \in lease
     /\ <<disk'.status, disk'.owner>> # <<disk.status, disk.owner>>
     => pc[disk.owner] = "write" /\ purpose[disk.owner] = "finish"]_vars

\* The store behaves as LeasedJob: what the commands see is as if every load,
\* change and save were one step, and leases alone decided who owns the stage.
Job == INSTANCE LeasedJob WITH
  status <- disk.status, owner <- disk.owner, applied <- disk.applied,
  live <- lease

JobSpec == Job!Spec

\* A stage orphaned by a crash, or by a runner whose second save failed, does
\* not stay RUNNING: some load turns it into FAILED.
OrphanRecovered ==
  (disk.status = "running" /\ disk.owner \notin lease)
    ~> (disk.status # "running")

\* Every command other than the poll ends, whatever lock file a crash left.
CommandsEnd ==
  \A p \in Editor \cup Runner : <>(pc[p] \in {"done", "crashed"})
=============================================================================
