---------------------- MODULE ConversionDeliveryProofs ----------------------
(***************************************************************************)
(* Theorems about ConversionDelivery, for any workers, PDFs, bytes, modes  *)
(* and users, and any number of conversions, children and failures.        *)
(*                                                                         *)
(* A worker acts on what it read several steps earlier.  Knows says, label *)
(* by label, what of it still holds whatever the others did meanwhile: that*)
(* the evidence it delivers is there, of which PDF the child is that it is *)
(* about to fill, and, once it has put the file, which text the child      *)
(* holds.  It survives because a child keeps its PDF and its text until a  *)
(* user deletes it, and no row of evidence goes away (Later).              *)
(*                                                                         *)
(* RunsOwned is why a cleanup never takes a directory that the database    *)
(* refers to: evidence of a conversion that its worker has not yet flagged *)
(* as committed is the row that worker looks at.  NameRight ties a name    *)
(* that differs between disk and Zotero to the one worker that changes it. *)
(*                                                                         *)
(* Leases needs more: only if no request outlives its lease is a delivering*)
(* worker the one owner of its row, and then what it saw before it creates *)
(* a child is still so when it does (NoChildYet).                          *)
(***************************************************************************)
EXTENDS ConversionDelivery, FiniteSetTheorems, TLAPS

-----------------------------------------------------------------------------
(* The inductive invariant.                                                *)

\* The labels of a worker's program.
Label == {"idle", "pick", "rename", "patch", "twin", "commit", "flag", "reconcile", "compare",
          "claim", "match", "discover", "create", "keep", "put", "bind", "finish", "emit"}

\* The children and the conversions there have been.
Born == {k \in Child : k <= count.child}
Begun == {r \in Run : r <= count.run}

\* What is read of the evidence of a conversion, and the evidence itself.
JsonRecord == [run : Run, full : BOOLEAN, key : Child \cup {None}]
EvidenceRecord ==
  [run : Run, full : BOOLEAN, key : Child \cup {None},
   state : {"local", "uploading", "retryable", "uploaded"},
   pending : Child \cup {None}, owner : Worker \cup {None}, live : BOOLEAN]
ChildRecord == [pdf : Pdf, bytes : Content, file : Run \cup {None}]

\* None is none of them.
NoneIsApart == None \notin EvidenceRecord \cup JsonRecord \cup ChildRecord

\* A child that, while it is there, is a child of p; one that holds the text of r.
ChildOf(k, p) == k \in Born /\ (remote[k] # None => remote[k].pdf = p)
HoldsText(k, r) == k \in Born /\ (remote[k] # None => remote[k].file = r)

\* The evidence of a conversion of p: the child it is bound to is one of p and holds
\* its text, and the one it is about to fill is one of p.
EvidenceRight(p, c) ==
  LET e == evidence[p][c] IN
  /\ e \in EvidenceRecord /\ EvidenceOK(e) /\ e.run \in Begun
  /\ e.key # None => ChildOf(e.key, p) /\ HoldsText(e.key, e.run)
  /\ e.pending # None => ChildOf(e.pending, p)

\* A worker, with the mode, result and number of its work left open.
WorkerShape(r) ==
  r \in [pc : Label, mode : {r.mode}, todo : SUBSET Pdf, pdf : {r.pdf}, named : {r.named},
         bytes : {r.bytes}, run : Begun \cup {None}, full : BOOLEAN, flagged : BOOLEAN,
         raw : {r.raw}, key : {r.key}, result : {r.result}]

\* What a worker knows at each label: which PDF it is at, that the evidence it delivers is
\* there, and of which PDF the child is that it fills.
Knows(r) ==
  /\ r.pc \notin {"idle", "pick"} => r.pdf \in Pdf /\ r.bytes \in Content
  /\ r.pc \in {"commit", "flag"} => r.run # None
  /\ r.pc \notin {"commit", "flag", "finish", "emit"} => r.run = None \/ r.flagged
  /\ r.pc \in {"claim"} \cup Delivering => r.raw \in JsonRecord /\ evidence[r.pdf][r.bytes] # None
  /\ r.pc \in {"match", "keep", "put", "bind"} => ChildOf(r.key, r.pdf)
  /\ r.pc = "bind" => HoldsText(r.key, r.raw.run)
  /\ r.pc = "emit" => r.raw \in JsonRecord /\ r.raw.key # None /\ HoldsText(r.raw.key, r.raw.run)

\* Two workers never write into the directory of one conversion.
RunsApart ==
  \A v, w \in Worker : v # w /\ worker[v].run # None => worker[v].run # worker[w].run

\* Evidence that names a conversion not yet flagged as committed is the one its worker
\* looks at before it cleans up.
RunsOwned ==
  \A w \in Worker, p \in Pdf, c \in Content :
    LET me == worker[w]  e == evidence[p][c] IN
    e # None /\ me.run # None /\ ~me.flagged /\ e.run = me.run => p = me.pdf /\ c = me.bytes

\* A name is the same on disk and in Zotero, or one worker changes it, or it is torn.
NameRight(p) ==
  \/ name[p].torn
  \/ /\ name[p].disk = name[p].web
     /\ \A w \in Worker : worker[w].pc = "patch" => worker[w].pdf # p
  \/ /\ name[p].disk = "new" /\ name[p].web = "old"
     /\ \E w \in Worker :
          /\ worker[w].pc = "patch" /\ worker[w].pdf = p
          /\ \A v \in Worker : worker[v].pc = "patch" /\ worker[v].pdf = p => v = w

\* The names a file has.
NameShape(n) ==
  n \in [disk : {"old", "new"}, web : {"old", "new"}, local : {"old", "new"}, torn : BOOLEAN]

\* The shapes of the variables; what a row, the mirror and a worker hold is said below.
Shapes ==
  /\ doc = [p \in Pdf |-> [c \in Content |-> doc[p][c]]]
  /\ \A p \in Pdf, c \in Content : doc[p][c] = [status |-> doc[p][c].status, key |-> doc[p][c].key]
  /\ evidence = [p \in Pdf |-> [c \in Content |-> evidence[p][c]]]
  /\ mirror = [r \in Run |-> mirror[r]]
  /\ remote \in [Child -> ChildRecord \cup {None}]
  /\ source \in [Pdf -> Content]
  /\ name = [p \in Pdf |-> name[p]] /\ \A p \in Pdf : NameShape(name[p])
  /\ worker = [w \in Worker |-> worker[w]]
  /\ count \in [run : 0 .. RunBound, child : 0 .. ChildBound, fault : 0 .. FaultBound]

\* The inductive invariant.
DInv ==
  /\ Shapes
  /\ \A p \in Pdf, c \in Content : evidence[p][c] = None \/ EvidenceRight(p, c)
  /\ \A w \in Worker : WorkerShape(worker[w]) /\ Knows(worker[w])
  /\ RunsApart /\ RunsOwned /\ EvidenceIsKept /\ CompletedIsBound
  /\ \A p \in Pdf : NameRight(p)
  /\ \A k \in Child : k \notin Born => remote[k] = None

\* A worker that delivers is the one owner of the evidence, with a lease.
Leases ==
  \A w \in Worker :
    LET me == worker[w]  e == evidence[me.pdf][me.bytes] IN
    me.pc \in Delivering => e.state = "uploading" /\ e.owner = w /\ e.live

\* The children of p, in a library g, that were made from its bytes c.
ChildrenOf(g, p, c) == {k \in Child : g[k] # None /\ g[k].pdf = p /\ g[k].bytes = c}

\* A worker about to create a child has seen that there is none.
NoChildYet ==
  \A w \in Worker : worker[w].pc = "create" =>
    Parent[worker[w].pdf] = None \/ ChildrenOf(remote, worker[w].pdf, worker[w].bytes) = {}

\* Of the children of a PDF made from the same bytes there is one.
Siblings ==
  \A p \in Pdf, c \in Content :
    Parent[p] = None \/ \A k, l \in ChildrenOf(remote, p, c) : k = l

\* The invariant of requests that end before their leases.
LeaseInv == DInv /\ Leases /\ NoChildYet /\ Siblings

-----------------------------------------------------------------------------
(* What a step leaves alone.                                               *)

\* Numbers only grow; a child keeps its PDF, its bytes and the text it holds until it is
\* deleted; evidence stays.
Later ==
  /\ count.run <= count'.run /\ count.child <= count'.child
  /\ \A k \in Born : remote'[k] # None =>
       /\ remote[k] # None /\ remote'[k].pdf = remote[k].pdf
       /\ remote[k].file # None => remote'[k].file = remote[k].file
  /\ \A p \in Pdf, c \in Content : evidence[p][c] # None => evidence'[p][c] # None

\* A worker gives up its conversion, has committed it, or goes on with it.
RunKept(w) ==
  LET me == worker[w]  n == worker'[w] IN
  n.run # None =>
    /\ n.run = me.run
    /\ n.flagged \/ (~me.flagged /\ n.pdf = me.pdf /\ n.bytes = me.bytes)

\* Evidence that is there is of the conversion it was of.
SameRuns ==
  \A p \in Pdf, c \in Content : evidence'[p][c] # None =>
    evidence[p][c] # None /\ evidence'[p][c].run = evidence[p][c].run

\* Evidence that is bound is left alone, and so are the rows that are completed.
BoundKept ==
  \A p \in Pdf, c \in Content :
    /\ evidence[p][c] # None /\ evidence[p][c].state = "uploaded"
         => evidence'[p][c] = evidence[p][c]
    /\ doc'[p][c].status = "completed" => doc'[p][c] = doc[p][c]

\* What a worker does at a label after "patch" and before it.
NotRenaming(w) == worker[w].pc # "patch" /\ worker'[w].pc # "patch"

\* The steps of the workers.
LEMMA GoesTo ==
  ASSUME DInv, NEW w \in Worker, NEW n, Goes(w, n)
  PROVE  /\ worker' = [v \in Worker |-> worker'[v]]
         /\ worker'[w] = n
         /\ \A v \in Worker : v # w => worker'[v] = worker[v]
BY DEF DInv, Shapes, Goes

\* What DeliveryAssumption says of the constants, conjunct by conjunct.
LEMMA Assumed ==
  /\ None \notin Worker /\ None \notin Pdf /\ None \notin Content /\ None \notin Nat
  /\ RunBound \in Nat /\ ChildBound \in Nat /\ FaultBound \in Nat
  /\ None \notin Run /\ None \notin Child
<1>1. /\ None \notin Worker \cup Pdf \cup Content \cup Nat
      /\ {RunBound, ChildBound, FaultBound} \subseteq Nat
  BY DeliveryAssumption
<1>2. Run \subseteq Nat /\ Child \subseteq Nat
  BY <1>1 DEF Run, Child
<1> QED BY <1>1, <1>2

\* A worker that does not move knows what it knew, however the library and the rows grow.
LEMMA KnowsStays ==
  ASSUME DInv, Later, NEW v \in Worker, worker'[v] = worker[v], count'.run \in Nat, count'.child \in Nat
  PROVE  WorkerShape(worker[v])' /\ Knows(worker[v])'
<1>1. WorkerShape(worker[v]) /\ Knows(worker[v])
  BY DEF DInv
<1>2. count.run \in Nat /\ count.child \in Nat
  BY Assumed DEF DInv, Shapes
<1>3. Begun \subseteq Begun' /\ Born \subseteq Born'
  BY <1>2 DEF Later, Begun, Born, Run, Child
<1>4. WorkerShape(worker[v])'
  BY <1>1, <1>3 DEF WorkerShape
<1>5. ASSUME NEW k, NEW p, ChildOf(k, p) PROVE k \in Born' /\ (remote'[k] # None => remote'[k].pdf = p)
  BY <1>3, <1>5 DEF ChildOf, Later
<1>6. ASSUME NEW k, NEW r \in Run, HoldsText(k, r) PROVE k \in Born' /\ (remote'[k] # None => remote'[k].file = r)
  BY <1>3, <1>6, Assumed DEF HoldsText, Later
<1>7. worker[v].pc \in {"claim"} \cup Delivering => evidence'[worker[v].pdf][worker[v].bytes] # None
  BY <1>1 DEF Knows, Later, Delivering
<1>8. worker[v].raw \in JsonRecord => worker[v].raw.run \in Run
  BY DEF JsonRecord
<1>9. Knows(worker[v])'
  <2>1. worker[v].pc \in {"match", "keep", "put", "bind"} => ChildOf(worker[v].key, worker[v].pdf)'
    <3> SUFFICES ASSUME worker[v].pc \in {"match", "keep", "put", "bind"}
                 PROVE  ChildOf(worker[v].key, worker[v].pdf)'
      BY DEF ChildOf
    <3>1. ChildOf(worker[v].key, worker[v].pdf)
      BY <1>1 DEF Knows
    <3> QED BY <1>5, <3>1 DEF ChildOf
  <2>2. worker[v].pc = "bind" => HoldsText(worker[v].key, worker[v].raw.run)'
    <3> SUFFICES ASSUME worker[v].pc = "bind" PROVE HoldsText(worker[v].key, worker[v].raw.run)'
      BY DEF HoldsText
    <3>1. worker[v].raw \in JsonRecord
      BY <1>1 DEF Knows, Delivering
    <3>2. HoldsText(worker[v].key, worker[v].raw.run)
      BY <1>1 DEF Knows
    <3> QED BY <1>6, <1>8, <3>1, <3>2 DEF HoldsText
  <2>3. worker[v].pc = "emit" => HoldsText(worker[v].raw.key, worker[v].raw.run)'
    <3> SUFFICES ASSUME worker[v].pc = "emit" PROVE HoldsText(worker[v].raw.key, worker[v].raw.run)'
      BY DEF HoldsText
    <3>1. worker[v].raw \in JsonRecord /\ HoldsText(worker[v].raw.key, worker[v].raw.run)
      BY <1>1 DEF Knows
    <3> QED BY <1>6, <1>8, <3>1 DEF HoldsText
  <2> QED BY <1>1, <1>7, <2>1, <2>2, <2>3 DEF Knows
<1> QED BY <1>4, <1>9

\* A row of evidence that does not change is right after the step as well.
LEMMA EvidenceStays ==
  ASSUME DInv, Later, NEW p \in Pdf, NEW c \in Content, evidence'[p][c] = evidence[p][c],
         count'.run \in Nat, count'.child \in Nat
  PROVE  evidence'[p][c] = None \/ EvidenceRight(p, c)'
<1> SUFFICES ASSUME evidence[p][c] # None PROVE EvidenceRight(p, c)'
  OBVIOUS
<1> DEFINE e == evidence[p][c]
<1>1. EvidenceRight(p, c)
  BY DEF DInv
<1>2. count.run \in Nat /\ count.child \in Nat
  BY Assumed DEF DInv, Shapes
<1>3. Begun \subseteq Begun' /\ Born \subseteq Born'
  BY <1>2 DEF Later, Begun, Born, Run, Child
<1>4. e \in EvidenceRecord /\ EvidenceOK(e) /\ e.run \in Run /\ e.run \in Begun'
  BY <1>1, <1>3 DEF EvidenceRight, Begun
<1>5. e.key # None => ChildOf(e.key, p)'
  BY <1>1, <1>3 DEF EvidenceRight, ChildOf, Later
<1>6. e.key # None => HoldsText(e.key, e.run)'
  BY <1>1, <1>3, <1>4, Assumed DEF EvidenceRight, HoldsText, Later
<1>7. e.pending # None => ChildOf(e.pending, p)'
  BY <1>1, <1>3 DEF EvidenceRight, ChildOf, Later
<1> QED BY <1>4, <1>5, <1>6, <1>7 DEF EvidenceRight, EvidenceOK

\* Conversions keep their one worker, and the evidence of an uncommitted one its place.
LEMMA RunsStay ==
  ASSUME DInv, \A v \in Worker : worker'[v] = worker[v] \/ RunKept(v), SameRuns
  PROVE  RunsApart' /\ RunsOwned'
<1>1. RunsApart'
  BY DEF DInv, RunsApart, RunKept
<1>2. RunsOwned'
  <2> SUFFICES ASSUME NEW w \in Worker, NEW p \in Pdf, NEW c \in Content,
                      evidence'[p][c] # None, worker'[w].run # None, ~worker'[w].flagged,
                      evidence'[p][c].run = worker'[w].run
               PROVE  p = worker'[w].pdf /\ c = worker'[w].bytes
    BY DEF RunsOwned
  <2>1. evidence[p][c] # None /\ evidence[p][c].run = evidence'[p][c].run
    BY DEF SameRuns
  <2>2. \/ worker'[w] = worker[w]
        \/ /\ worker'[w].run = worker[w].run /\ ~worker[w].flagged
           /\ worker'[w].pdf = worker[w].pdf /\ worker'[w].bytes = worker[w].bytes
    BY DEF RunKept
  <2> QED BY <2>1, <2>2 DEF DInv, RunsOwned
<1> QED BY <1>1, <1>2

\* Completed rows go on standing for bound evidence.
LEMMA CompletedStays ==
  ASSUME DInv, BoundKept
  PROVE  CompletedIsBound'
BY DEF DInv, CompletedIsBound, BoundKept

\* Names are right as long as nobody renames.
LEMMA NamesStay ==
  ASSUME DInv, name' = name,
         \A v \in Worker : worker'[v] = worker[v] \/ NotRenaming(v)
  PROVE  \A p \in Pdf : NameRight(p)'
BY DEF DInv, NameRight, NotRenaming

\* A step that leaves what is saved and the library alone.
LEMMA Quiet ==
  ASSUME DInv, NEW w \in Worker, UNCHANGED <<store, library>>,
         count' \in [run : 0 .. RunBound, child : 0 .. ChildBound, fault : 0 .. FaultBound],
         count'.run = count.run, count'.child = count.child,
         worker' = [v \in Worker |-> worker'[v]],
         \A v \in Worker : v # w => worker'[v] = worker[v],
         WorkerShape(worker[w])', Knows(worker[w])', RunKept(w), NotRenaming(w)
  PROVE  DInv'
<1>1. /\ doc' = doc /\ evidence' = evidence /\ mirror' = mirror
      /\ remote' = remote /\ source' = source /\ name' = name
  BY DEF store, library
<1>2. Shapes'
  <2>1. Shapes BY DEF DInv
  <2> QED BY <1>1, <2>1 DEF Shapes, NameShape
<1>3. count'.run \in Nat /\ count'.child \in Nat
  BY Assumed
<1>4. Later
  BY <1>1, <1>3 DEF Later
<1>5. SameRuns /\ BoundKept
  BY <1>1 DEF SameRuns, BoundKept
<1>6. \A v \in Worker : WorkerShape(worker[v])' /\ Knows(worker[v])'
  BY <1>3, <1>4, KnowsStays
<1>7. \A p \in Pdf, c \in Content : evidence'[p][c] = None \/ EvidenceRight(p, c)'
  BY <1>1, <1>3, <1>4, EvidenceStays
<1>8. RunsApart' /\ RunsOwned'
  BY <1>5, RunsStay
<1>9. CompletedIsBound' /\ EvidenceIsKept'
  BY <1>1, <1>5, CompletedStays DEF DInv, EvidenceIsKept
<1>10. \A p \in Pdf : NameRight(p)'
  BY <1>1, NamesStay
<1>11. \A k \in Child : k \notin Born' => remote'[k] = None
  BY <1>1 DEF DInv, Born
<1> QED BY <1>2, <1>6, <1>7, <1>8, <1>9, <1>10, <1>11 DEF DInv

\* A failure is counted, and nothing else is.
LEMMA Counted ==
  ASSUME count \in [run : 0 .. RunBound, child : 0 .. ChildBound, fault : 0 .. FaultBound],
         count' = count \/ Fault
  PROVE  /\ count' \in [run : 0 .. RunBound, child : 0 .. ChildBound, fault : 0 .. FaultBound]
         /\ count'.run = count.run /\ count'.child = count.child
<1> SUFFICES ASSUME Fault
             PROVE  /\ count' \in [run : 0 .. RunBound, child : 0 .. ChildBound, fault : 0 .. FaultBound]
                    /\ count'.run = count.run /\ count'.child = count.child
  OBVIOUS
<1> DEFINE f == count.fault + 1
<1>1. f \in 0 .. FaultBound
  BY Assumed DEF Fault
<1>2. count' = [count EXCEPT !.fault = f]
  BY DEF Fault, Bump
<1> HIDE DEF f
<1> QED BY <1>1, <1>2

\* A worker goes to n, and nothing else happens but a failure.
LEMMA QuietTo ==
  ASSUME DInv, NEW w \in Worker, NEW n, Goes(w, n), UNCHANGED <<store, library>>,
         count' = count \/ Fault, WorkerShape(n), Knows(n),
         worker[w].pc # "patch", n.pc # "patch",
         n.run # None =>
           /\ n.run = worker[w].run
           /\ n.flagged \/ (~worker[w].flagged /\ n.pdf = worker[w].pdf /\ n.bytes = worker[w].bytes)
  PROVE  DInv'
<1>1. /\ worker' = [v \in Worker |-> worker'[v]] /\ worker'[w] = n
      /\ \A v \in Worker : v # w => worker'[v] = worker[v]
  BY GoesTo
<1>2. /\ count' \in [run : 0 .. RunBound, child : 0 .. ChildBound, fault : 0 .. FaultBound]
      /\ count'.run = count.run /\ count'.child = count.child
  BY Counted DEF DInv, Shapes
<1>3. WorkerShape(worker[w])'
  BY <1>1, <1>2 DEF WorkerShape, Begun
<1>4. remote' = remote /\ evidence' = evidence
  BY DEF store, library
<1>5. Knows(worker[w])'
  BY <1>1, <1>2, <1>4 DEF Knows, ChildOf, HoldsText, Born
<1>6. RunKept(w) /\ NotRenaming(w)
  BY <1>1 DEF RunKept, NotRenaming
<1> QED BY <1>1, <1>2, <1>3, <1>5, <1>6, Quiet

-----------------------------------------------------------------------------
(* The steps that only a worker notices.                                   *)

\* A worker that has nothing in hand.
LEMMA Blank ==
  ASSUME NEW pc \in {"idle", "pick"}, NEW mode, NEW todo \in SUBSET Pdf
  PROVE  LET n == [Idle EXCEPT !.pc = pc, !.mode = mode, !.todo = todo] IN
         WorkerShape(n) /\ Knows(n) /\ n.run = None /\ n.pc = pc
<1> DEFINE n == [Idle EXCEPT !.pc = pc, !.mode = mode, !.todo = todo]
<1>1. WorkerShape(n) /\ n.run = None /\ n.pc = pc
  BY DEF WorkerShape, Idle, Label
<1> HIDE DEF n
<1>2. Knows(n)
  BY <1>1 DEF Knows, Delivering
<1> QED BY <1>1, <1>2 DEF n

\* Where a worker goes that turns to its next attachment.
LEMMA Onwards ==
  ASSUME NEW w, NEW todo \in SUBSET Pdf
  PROVE  LET n == Onward(w, todo) IN
         /\ WorkerShape(n) /\ Knows(n) /\ n.run = None /\ n.pc \in {"idle", "pick"}
<1>1. CASE todo = {}
  <2>1. WorkerShape(Idle) /\ Idle.run = None /\ Idle.pc = "idle"
    BY DEF WorkerShape, Idle, Label
  <2>2. Knows(Idle)
    BY <2>1 DEF Knows, Delivering
  <2> QED BY <1>1, <2>1, <2>2 DEF Onward
<1>2. CASE todo # {}
  BY <1>2, Blank DEF Onward
<1> QED BY <1>1, <1>2

\* A worker that ends with a result.
LEMMA Ended ==
  ASSUME NEW w, WorkerShape(worker[w]), Knows(worker[w]), worker[w].pc \notin {"idle", "pick"}, NEW result
  PROVE  LET n == Ends(w, result)  me == worker[w] IN
         /\ WorkerShape(n) /\ Knows(n) /\ n.pc = "finish"
         /\ n.run = me.run /\ n.pdf = me.pdf /\ n.bytes = me.bytes /\ n.flagged = me.flagged
         /\ n.run # None =>
              /\ n.run = me.run
              /\ n.flagged \/ (~me.flagged /\ n.pdf = me.pdf /\ n.bytes = me.bytes)
<1> DEFINE n == Ends(w, result)
           me == worker[w]
<1>1. /\ WorkerShape(n) /\ n.pc = "finish"
      /\ n.run = me.run /\ n.pdf = me.pdf /\ n.bytes = me.bytes /\ n.flagged = me.flagged
  BY DEF Ends, WorkerShape, Label
<1>2. me.flagged \in BOOLEAN /\ me.pdf \in Pdf /\ me.bytes \in Content
  BY DEF WorkerShape, Knows
<1> HIDE DEF n, me
<1>3. Knows(n)
  BY <1>1, <1>2 DEF Knows, Delivering
<1> QED BY <1>1, <1>2, <1>3 DEF n, me

\* main: a worker takes up its list.
LEMMA StartWorkerOK ==
  ASSUME DInv, NEW w \in Worker, StartWorker(w)
  PROVE  DInv'
<1>1. PICK mode \in Modes, todo \in SUBSET (Pdf \ Gone) \ {{}} :
        Goes(w, [Idle EXCEPT !.pc = "pick", !.mode = mode, !.todo = todo])
  BY DEF StartWorker
<1> DEFINE n == [Idle EXCEPT !.pc = "pick", !.mode = mode, !.todo = todo]
<1>2. WorkerShape(n) /\ Knows(n) /\ n.run = None /\ n.pc # "patch"
  BY DEF WorkerShape, Knows, Idle, Label, Delivering
<1>3. UNCHANGED <<store, library>> /\ count' = count /\ worker[w].pc # "patch"
  BY DEF StartWorker, Reads, At
<1> HIDE DEF n
<1>4. Goes(w, n)
  BY <1>1 DEF n
<1> QED BY <1>2, <1>3, <1>4, QuietTo

\* An attachment whose file is not found is passed over.
LEMMA PassOverOK ==
  ASSUME DInv, NEW w \in Worker, PassOver(w)
  PROVE  DInv'
<1>1. PICK p \in worker[w].todo : Goes(w, Onward(w, worker[w].todo \ {p}))
  BY DEF PassOver
<1> DEFINE todo == worker[w].todo \ {p}
<1>2. todo \in SUBSET Pdf
  BY DEF DInv, WorkerShape
<1> HIDE DEF todo
<1>3. LET n == Onward(w, todo) IN
      WorkerShape(n) /\ Knows(n) /\ n.run = None /\ n.pc \in {"idle", "pick"}
  BY <1>2, Onwards
<1>4. UNCHANGED <<store, library>> /\ count' = count /\ worker[w].pc # "patch"
  BY DEF PassOver, Reads, At
<1>5. Goes(w, Onward(w, todo))
  BY <1>1 DEF todo
<1> QED BY <1>3, <1>4, <1>5, QuietTo

\* Where a worker goes that only changes its label.
LEMMA Labelled ==
  ASSUME NEW r, WorkerShape(r), NEW pc \in Label
  PROVE  LET n == [r EXCEPT !.pc = pc] IN
         /\ WorkerShape(n) /\ n.pc = pc /\ n.run = r.run /\ n.flagged = r.flagged
         /\ n.pdf = r.pdf /\ n.bytes = r.bytes /\ n.raw = r.raw /\ n.key = r.key
BY DEF WorkerShape

\* Where a worker goes that turns to an attachment.
LEMMA Picked ==
  ASSUME DInv, NEW w \in Worker, Pick(w)
  PROVE  \E n : /\ Goes(w, n) /\ WorkerShape(n) /\ n.run = None /\ n.pdf \in Pdf /\ n.bytes \in Content
               /\ n.pc \in {"reconcile", "twin", "rename", "finish"}
<1> DEFINE me == worker[w]
<1>1. PICK p \in me.todo :
        Goes(w, Judged([Onward(w, {p}) EXCEPT !.todo = me.todo \ {p}, !.pdf = p,
                          !.named = name[p].disk, !.bytes = source[p]]))
  BY DEF Pick
<1> DEFINE todo == me.todo \ {p}
           named == name[p].disk
           bytes == source[p]
           o == Onward(w, {p})
           m == [o EXCEPT !.todo = todo, !.pdf = p, !.named = named, !.bytes = bytes]
           n == Judged(m)
<1>2. todo \in SUBSET Pdf /\ p \in Pdf /\ bytes \in Content
  <2>1. me.todo \in SUBSET Pdf
    BY DEF DInv, WorkerShape
  <2>2. source \in [Pdf -> Content]
    BY DEF DInv, Shapes
  <2> QED BY <2>1, <2>2
<1>3. {p} \in SUBSET Pdf
  BY <1>2
<1>4. Goes(w, n)
  BY <1>1
<1> HIDE DEF todo, named, bytes, o
<1>5. WorkerShape(o) /\ o.run = None
  BY <1>3, Onwards DEF o
<1>6. WorkerShape(m) /\ m.run = None /\ m.pdf = p /\ m.bytes = bytes
  BY <1>2, <1>5 DEF WorkerShape
<1> HIDE DEF m
<1>7. \/ \E pc \in {"reconcile", "twin", "rename", "finish"} : n = [m EXCEPT !.pc = pc]
      \/ \E result : \E pc \in {"reconcile", "twin", "rename", "finish"} :
           n = [m EXCEPT !.pc = pc, !.result = result]
  BY DEF Judged
<1> HIDE DEF n
<1>8. /\ WorkerShape(n) /\ n.run = None /\ n.pdf \in Pdf /\ n.bytes \in Content
      /\ n.pc \in {"reconcile", "twin", "rename", "finish"}
  <2>1. ASSUME NEW pc \in {"reconcile", "twin", "rename", "finish"}, n = [m EXCEPT !.pc = pc]
        PROVE  WorkerShape(n) /\ n.run = m.run /\ n.pdf = m.pdf /\ n.bytes = m.bytes /\ n.pc = pc
    BY <1>6, <2>1 DEF WorkerShape, Label
  <2>2. ASSUME NEW result, NEW pc \in {"reconcile", "twin", "rename", "finish"},
               n = [m EXCEPT !.pc = pc, !.result = result]
        PROVE  WorkerShape(n) /\ n.run = m.run /\ n.pdf = m.pdf /\ n.bytes = m.bytes /\ n.pc = pc
    <3> DEFINE l == [m EXCEPT !.result = result]
    <3>1. WorkerShape(l) /\ l.run = m.run /\ l.pdf = m.pdf /\ l.bytes = m.bytes
      BY <1>6 DEF WorkerShape
    <3>2. n = [l EXCEPT !.pc = pc]
      BY <1>6, <2>2 DEF WorkerShape
    <3> HIDE DEF l
    <3>3. pc \in Label
      BY DEF Label
    <3> QED BY <3>1, <3>2, <3>3, Labelled
  <2> QED BY <1>2, <1>6, <1>7, <2>1, <2>2
<1> QED BY <1>4, <1>8

\* process_attachment up to its dispatch.
LEMMA PickOK ==
  ASSUME DInv, NEW w \in Worker, Pick(w)
  PROVE  DInv'
<1>1. PICK n : /\ Goes(w, n) /\ WorkerShape(n) /\ n.run = None /\ n.pdf \in Pdf /\ n.bytes \in Content
               /\ n.pc \in {"reconcile", "twin", "rename", "finish"}
  BY Picked
<1>2. Knows(n)
  BY <1>1 DEF Knows, Delivering
<1>3. UNCHANGED <<store, library>> /\ count' = count /\ worker[w].pc # "patch"
  BY DEF Pick, Reads, At
<1> QED BY <1>1, <1>2, <1>3, QuietTo

\* A step that ends the work on an attachment and does nothing else.
LEMMA EndsOK ==
  ASSUME DInv, NEW w \in Worker, NEW result, Goes(w, Ends(w, result)),
         UNCHANGED <<store, library>>, count' = count \/ Fault,
         worker[w].pc \notin {"idle", "pick", "patch"}
  PROVE  DInv'
<1> DEFINE n == Ends(w, result)
<1>1. LET me == worker[w] IN
      /\ WorkerShape(n) /\ Knows(n) /\ n.pc = "finish"
      /\ n.run # None =>
           /\ n.run = me.run
           /\ n.flagged \/ (~me.flagged /\ n.pdf = me.pdf /\ n.bytes = me.bytes)
  BY Ended DEF DInv
<1> HIDE DEF n
<1>2. Goes(w, n)
  BY DEF n
<1>3. n.pc # "patch"
  BY <1>1
<1> QED BY <1>1, <1>2, <1>3, QuietTo

\* A file that was renamed meanwhile ends the attachment.
LEMMA FileMovedOK ==
  ASSUME DInv, NEW w \in Worker, FileMoved(w)
  PROVE  DInv'
BY EndsOK DEF FileMoved, Reads

\* route_attachment finds no way.
LEMMA UnknownRouteOK ==
  ASSUME DInv, NEW w \in Worker, UnknownRoute(w)
  PROVE  DInv'
BY EndsOK DEF UnknownRoute, Reads, At

\* A conversion fails, or uses up its pages.
LEMMA ConversionStopsOK ==
  ASSUME DInv, NEW w \in Worker, ConversionStops(w)
  PROVE  DInv'
<1>1. PICK result \in {"error", "partial_budget_exhausted"} : Goes(w, Ends(w, result))
  BY DEF ConversionStops
<1>2. UNCHANGED <<store, library>> /\ Fault /\ worker[w].pc = "commit"
  BY DEF ConversionStops, At
<1> QED BY <1>1, <1>2, EndsOK

\* A committed conversion is flagged, so that it is not cleaned up.
LEMMA FlagOK ==
  ASSUME DInv, NEW w \in Worker, Flag(w)
  PROVE  DInv'
<1> DEFINE me == worker[w]
           local == me.mode = "local"
           n == [me EXCEPT !.flagged = TRUE, !.pc = IF local THEN "finish" ELSE "reconcile",
                           !.result = CoverageStatus(me.full, ~local)]
<1>1. WorkerShape(me) /\ Knows(me) /\ me.pc = "flag"
  BY DEF DInv, Flag, At
<1>2. /\ WorkerShape(n) /\ n.pc \in {"finish", "reconcile"} /\ n.run = me.run
      /\ n.pdf = me.pdf /\ n.bytes = me.bytes /\ n.flagged
  BY <1>1 DEF WorkerShape, Label
<1>3. Goes(w, n) /\ UNCHANGED <<store, library>> /\ count' = count
  BY DEF Flag, Reads
<1> HIDE DEF n
<1>4. Knows(n)
  BY <1>1, <1>2 DEF Knows, Delivering
<1>5. me.pc # "patch" /\ n.pc # "patch"
  BY <1>1, <1>2
<1> QED BY <1>2, <1>3, <1>4, <1>5, QuietTo

\* What evidence says, and how little of it is evidence.
LEMMA JsonFacts ==
  ASSUME NEW e \in EvidenceRecord
  PROVE  Json(e) \in JsonRecord /\ Json(e).run = e.run /\ Json(e).key = e.key /\ Json(e).full = e.full
BY DEF EvidenceRecord, JsonRecord, Json

\* Evidence that is accepted is there.
LEMMA Accepted ==
  ASSUME DInv, NEW p \in Pdf, Verdict(p) = "accepted"
  PROVE  LET e == evidence[p][source[p]] IN
         source[p] \in Content /\ e # None /\ EvidenceRight(p, source[p]) /\ e \in EvidenceRecord
<1>1. source[p] \in Content
  BY DEF DInv, Shapes
<1>2. evidence[p][source[p]] # None
  BY DEF Verdict
<1>3. EvidenceRight(p, source[p])
  BY <1>1, <1>2 DEF DInv
<1>4. evidence[p][source[p]] \in EvidenceRecord
  BY <1>3 DEF EvidenceRight
<1> QED BY <1>1, <1>2, <1>3, <1>4

\* What a worker will deliver is evidence that is there.
LEMMA ReconcileOK ==
  ASSUME DInv, NEW w \in Worker, Reconcile(w)
  PROVE  DInv'
<1> DEFINE me == worker[w]
           p == me.pdf
           e == evidence[p][source[p]]
           n == [me EXCEPT !.raw = Json(e), !.bytes = source[p], !.key = e.key,
                           !.pc = IF e.key # None THEN "compare" ELSE "claim"]
<1>1. WorkerShape(me) /\ Knows(me) /\ me.pc = "reconcile" /\ p \in Pdf
  BY DEF DInv, Reconcile, At, Knows
<1>2. UNCHANGED <<store, library>> /\ count' = count
  BY DEF Reconcile, Reads
<1>3. CASE Verdict(p) # "accepted"
  BY <1>1, <1>2, <1>3, EndsOK DEF Reconcile
<1>4. CASE Verdict(p) = "accepted"
  <2>1. source[p] \in Content /\ e # None /\ e \in EvidenceRecord
    BY <1>1, <1>4, Accepted
  <2>2. Json(e) \in JsonRecord
    BY <2>1, JsonFacts
  <2>3. /\ WorkerShape(n) /\ n.run = me.run /\ n.flagged = me.flagged /\ n.pdf = p
        /\ n.bytes = source[p] /\ n.raw = Json(e) /\ n.pc \in {"compare", "claim"}
    BY <1>1 DEF WorkerShape, Label
  <2>4. Goes(w, n)
    BY <1>4 DEF Reconcile
  <2> HIDE DEF n
  <2>5. me.run = None \/ me.flagged
    BY <1>1 DEF Knows
  <2>6. Knows(n)
    BY <1>1, <2>1, <2>2, <2>3, <2>5 DEF Knows, Delivering
  <2>7. me.pc # "patch" /\ n.pc # "patch"
    BY <1>1, <2>3
  <2> QED BY <1>2, <2>3, <2>4, <2>5, <2>6, <2>7, QuietTo
<1> QED BY <1>3, <1>4

\* verify_uploaded_conversion reads the evidence.
LEMMA VerifyOK ==
  ASSUME DInv, NEW w \in Worker, Verify(w)
  PROVE  DInv'
<1> DEFINE me == worker[w]
           p == me.pdf
           e == evidence[p][source[p]]
           n == [me EXCEPT !.raw = Json(e), !.key = e.key, !.pc = "compare"]
<1>1. WorkerShape(me) /\ Knows(me) /\ me.pc = "reconcile"
  BY DEF DInv, Verify, At
<1>2. UNCHANGED <<store, library>> /\ count' = count
  BY DEF Verify, Reads
<1>3. CASE Verdict(p) # "accepted" \/ e.key = None
  BY <1>1, <1>2, <1>3, EndsOK DEF Verify
<1>4. CASE ~(Verdict(p) # "accepted" \/ e.key = None)
  <2>3. /\ WorkerShape(n) /\ n.run = me.run /\ n.flagged = me.flagged /\ n.pdf = me.pdf
        /\ n.bytes = me.bytes /\ n.pc = "compare"
    BY <1>1 DEF WorkerShape, Label
  <2>4. Goes(w, n)
    BY <1>4 DEF Verify
  <2> HIDE DEF n
  <2>5. me.run = None \/ me.flagged
    BY <1>1 DEF Knows
  <2>6. Knows(n)
    BY <1>1, <2>3, <2>5 DEF Knows, Delivering
  <2>7. me.pc # "patch" /\ n.pc # "patch"
    BY <1>1, <2>3
  <2> QED BY <1>2, <2>3, <2>4, <2>5, <2>6, <2>7, QuietTo
<1> QED BY <1>3, <1>4

\* Bound evidence is compared with its child.
LEMMA CompareOK ==
  ASSUME DInv, NEW w \in Worker, Compare(w)
  PROVE  DInv'
<1>1. PICK result : Goes(w, Ends(w, result))
  BY DEF Compare
<1>2. UNCHANGED <<store, library>> /\ (count' = count \/ Fault) /\ worker[w].pc = "compare"
  BY DEF Compare, At
<1> QED BY <1>1, <1>2, EndsOK

\* An operator interrupts a worker.
LEMMA InterruptOK ==
  ASSUME DInv, NEW w \in Worker, Interrupt(w)
  PROVE  DInv'
<1> DEFINE me == worker[w]
           m == Ends(w, "interrupted")
           n == [m EXCEPT !.todo = {}]
<1>1. me.pc \in {"commit", "flag", "reconcile", "claim"} /\ WorkerShape(me) /\ Knows(me)
  BY DEF DInv, Interrupt
<1>2. /\ WorkerShape(m) /\ Knows(m) /\ m.pc = "finish"
      /\ m.run = me.run /\ m.pdf = me.pdf /\ m.bytes = me.bytes /\ m.flagged = me.flagged
  BY <1>1, Ended
<1> HIDE DEF m
<1>3. /\ WorkerShape(n) /\ n.pc = "finish" /\ n.run = m.run /\ n.pdf = m.pdf /\ n.bytes = m.bytes
      /\ n.flagged = m.flagged
  BY <1>2 DEF WorkerShape
<1>4. Goes(w, n) /\ UNCHANGED <<store, library>> /\ Fault
  BY DEF Interrupt, m
<1> HIDE DEF n
<1>5. Knows(n)
  BY <1>2, <1>3 DEF Knows, Delivering
<1>6. me.pc # "patch" /\ n.pc # "patch"
  BY <1>1, <1>3
<1> QED BY <1>2, <1>3, <1>4, <1>5, <1>6, QuietTo

\* The launcher has been told.
LEMMA EmitOK ==
  ASSUME DInv, NEW w \in Worker, Emit(w)
  PROVE  DInv'
<1> DEFINE todo == worker[w].todo
<1>1. todo \in SUBSET Pdf
  BY DEF DInv, WorkerShape
<1>2. Goes(w, Onward(w, todo)) /\ UNCHANGED <<store, library>> /\ count' = count /\ worker[w].pc # "patch"
  BY DEF Emit, Reads, At
<1> HIDE DEF todo
<1>3. LET n == Onward(w, todo) IN
      WorkerShape(n) /\ Knows(n) /\ n.run = None /\ n.pc \in {"idle", "pick"}
  BY <1>1, Onwards
<1> QED BY <1>2, <1>3, QuietTo

-----------------------------------------------------------------------------
(* Steps that are saved, or that the library sees.                         *)

\* What has numbers only grows, and a child is what it was.
Grows ==
  /\ count.run <= count'.run /\ count.child <= count'.child
  /\ \A k \in Born : remote'[k] # None =>
       /\ remote[k] # None /\ remote'[k].pdf = remote[k].pdf
       /\ remote[k].file # None => remote'[k].file = remote[k].file

\* A step keeps a row of evidence, or turns one that is not bound: it stays unbound, and a
\* child it is about to fill is one of the PDF.
RowStep(p, c) ==
  LET e == evidence[p][c]  n == evidence'[p][c] IN
  \/ n = e
  \/ /\ e # None /\ e.state # "uploaded"
     /\ n \in EvidenceRecord /\ EvidenceOK(n) /\ n.run = e.run /\ n.key = None
     /\ n.pending \in {None, e.pending} \/ ChildOf(n.pending, p)

\* A worker stays where it is, or keeps what it must know.
WorkerStep(v) ==
  \/ worker'[v] = worker[v]
  \/ WorkerShape(worker[v])' /\ Knows(worker[v])' /\ RunKept(v) /\ NotRenaming(v)

\* The rows of completed documents are not touched, and the directory of a committed
\* conversion is kept.
RowsKept ==
  /\ \A p \in Pdf, c \in Content : doc'[p][c].status = "completed" => doc'[p][c] = doc[p][c]
  /\ \A p \in Pdf, c \in Content :
       evidence[p][c] # None => mirror'[evidence[p][c].run] # None

\* A row that is turned is right.
LEMMA Turned ==
  ASSUME DInv, NoneIsApart, Grows, NEW p \in Pdf, NEW c \in Content, RowStep(p, c),
         count'.run \in Nat, count'.child \in Nat
  PROVE  /\ evidence'[p][c] = evidence[p][c] \/ EvidenceRight(p, c)'
         /\ evidence[p][c] # None => evidence'[p][c] # None
<1> DEFINE e == evidence[p][c]
           n == evidence'[p][c]
<1> SUFFICES ASSUME n # e PROVE EvidenceRight(p, c)' /\ n # None
  OBVIOUS
<1>1. EvidenceRight(p, c) /\ e # None /\ e.state # "uploaded"
  BY DEF DInv, RowStep
<1>2. n \in EvidenceRecord /\ EvidenceOK(n) /\ n.run = e.run /\ n.key = None
  BY DEF RowStep
<1>3. count.run \in Nat /\ count.child \in Nat
  BY Assumed DEF DInv, Shapes
<1>4. Begun \subseteq Begun' /\ Born \subseteq Born'
  BY <1>3 DEF Grows, Begun, Born, Run, Child
<1>5. n.pending # None => ChildOf(n.pending, p)
  BY <1>1 DEF RowStep, EvidenceRight
<1>6. n.pending # None =>
        n.pending \in Born' /\ (remote'[n.pending] # None => remote'[n.pending].pdf = p)
  BY <1>4, <1>5 DEF ChildOf, Grows
<1>7. n.run \in Begun'
  BY <1>1, <1>2, <1>4 DEF EvidenceRight
<1>8. EvidenceRight(p, c)'
  BY <1>2, <1>6, <1>7 DEF EvidenceRight, EvidenceOK, ChildOf
<1>9. n # None
  BY <1>2 DEF NoneIsApart
<1> QED BY <1>8, <1>9

\* A step that binds and commits nothing.
LEMMA Composed ==
  ASSUME DInv, NoneIsApart, Shapes', Grows, RowsKept,
         \A p \in Pdf, c \in Content : RowStep(p, c),
         \A v \in Worker : WorkerStep(v), name' = name,
         \A k \in Child : k \notin Born' => remote'[k] = None
  PROVE  DInv'
<1>1. count'.run \in Nat /\ count'.child \in Nat
  BY Assumed DEF Shapes
<1>2. \A p \in Pdf, c \in Content :
        /\ evidence'[p][c] = evidence[p][c] \/ EvidenceRight(p, c)'
        /\ evidence[p][c] # None => evidence'[p][c] # None
  BY <1>1, Turned
<1>3. Later
  BY <1>2 DEF Later, Grows
<1>4. \A p \in Pdf, c \in Content : evidence'[p][c] = None \/ EvidenceRight(p, c)'
  BY <1>1, <1>2, <1>3, EvidenceStays
<1>5. \A v \in Worker : WorkerShape(worker[v])' /\ Knows(worker[v])'
  BY <1>1, <1>3, KnowsStays DEF WorkerStep
<1>6. SameRuns
  BY <1>2 DEF SameRuns, RowStep
<1>7. BoundKept
  BY <1>2 DEF BoundKept, RowStep, RowsKept
<1>8. RunsApart' /\ RunsOwned'
  BY <1>6, RunsStay DEF WorkerStep
<1>9. CompletedIsBound'
  BY <1>7, CompletedStays
<1>10. EvidenceIsKept'
  BY <1>6 DEF EvidenceIsKept, SameRuns, RowsKept
<1>11. \A p \in Pdf : NameRight(p)'
  BY NamesStay DEF WorkerStep
<1> QED BY <1>4, <1>5, <1>8, <1>9, <1>10, <1>11 DEF DInv

\* Nothing saved changes.
LEMMA StoreKept ==
  ASSUME DInv, UNCHANGED <<doc, evidence, mirror>>
  PROVE  /\ RowsKept /\ \A p \in Pdf, c \in Content : RowStep(p, c)
BY DEF DInv, EvidenceIsKept, RowsKept, RowStep

\* A user replaces a PDF.
LEMMA ReplaceSourceOK ==
  ASSUME DInv, NoneIsApart, NEW p \in Pdf \ Gone, ReplaceSource(p)
  PROVE  DInv'
<1>1. PICK c \in Content \ {source[p]} : source' = [source EXCEPT ![p] = c]
  BY DEF ReplaceSource
<1>2. UNCHANGED <<doc, evidence, mirror, remote, name, worker>> /\ Fault
  BY DEF ReplaceSource, store
<1>3. /\ count' \in [run : 0 .. RunBound, child : 0 .. ChildBound, fault : 0 .. FaultBound]
      /\ count'.run = count.run /\ count'.child = count.child
  BY <1>2, Counted DEF DInv, Shapes
<1>4. source' \in [Pdf -> Content]
  BY <1>1 DEF DInv, Shapes
<1>5. Shapes'
  BY <1>2, <1>3, <1>4 DEF DInv, Shapes, NameShape
<1>6. Grows
  BY <1>2, <1>3, Assumed DEF Grows, Shapes, DInv
<1>7. \A k \in Child : k \notin Born' => remote'[k] = None
  BY <1>2, <1>3 DEF Born, DInv
<1>8. \A v \in Worker : WorkerStep(v)
  BY <1>2 DEF WorkerStep
<1> QED BY <1>2, <1>5, <1>6, <1>7, <1>8, StoreKept, Composed

\* A user deletes a child.
LEMMA DeleteChildOK ==
  ASSUME DInv, NoneIsApart, NEW k \in Child, DeleteChild(k)
  PROVE  DInv'
<1>2. UNCHANGED <<doc, evidence, mirror, source, name, worker>> /\ Fault
      /\ remote' = [remote EXCEPT ![k] = None]
  BY DEF DeleteChild, store
<1>3. /\ count' \in [run : 0 .. RunBound, child : 0 .. ChildBound, fault : 0 .. FaultBound]
      /\ count'.run = count.run /\ count'.child = count.child
  BY <1>2, Counted DEF DInv, Shapes
<1>4. remote' \in [Child -> ChildRecord \cup {None}]
  BY <1>2 DEF DInv, Shapes
<1>5. Shapes'
  BY <1>2, <1>3, <1>4 DEF DInv, Shapes, NameShape
<1>6. Grows
  BY <1>2, <1>3, Assumed DEF Grows, Shapes, DInv, Born
<1>7. \A l \in Child : l \notin Born' => remote'[l] = None
  BY <1>2, <1>3 DEF Born, DInv, Shapes
<1>8. \A v \in Worker : WorkerStep(v)
  BY <1>2 DEF WorkerStep
<1> QED BY <1>2, <1>5, <1>6, <1>7, <1>8, StoreKept, Composed

\* A table of the database, and one whose cell is replaced.
IsTable(g) == g = [q \in Pdf |-> [d \in Content |-> g[q][d]]]
SetsCell(h, g, p, c, x) == h = [g EXCEPT ![p][c] = x]

\* One cell of a table is replaced, and the others stay.
LEMMA Cell ==
  ASSUME NEW g, IsTable(g), NEW p \in Pdf, NEW c \in Content, NEW x,
         NEW h, SetsCell(h, g, p, c, x)
  PROVE  /\ IsTable(h)
         /\ h[p][c] = x
         /\ \A q \in Pdf, d \in Content : q # p \/ d # c => h[q][d] = g[q][d]
<1> DEFINE f == [g[p] EXCEPT ![c] = x]
<1>1. f = [d \in Content |-> f[d]] /\ f[c] = x /\ \A d \in Content : d # c => f[d] = g[p][d]
  BY DEF IsTable
<1>2. DOMAIN g = Pdf /\ \A q \in Pdf : g[q] = [d \in Content |-> g[q][d]]
  BY DEF IsTable
<1>3. h = [g EXCEPT ![p] = f]
  BY DEF SetsCell
<1> HIDE DEF f
<1>4. h[p] = f /\ DOMAIN h = Pdf /\ \A q \in Pdf : q # p => h[q] = g[q]
  BY <1>2, <1>3
<1>5. h = [q \in Pdf |-> h[q]]
  BY <1>2, <1>3
<1>6. h = [q \in Pdf |-> [d \in Content |-> h[q][d]]]
  BY <1>1, <1>2, <1>4, <1>5
<1> QED BY <1>1, <1>4, <1>6 DEF IsTable

\* The row of a document.
LEMMA Upserted ==
  ASSUME DInv, NEW p \in Pdf, NEW c \in Content, NEW status, Upsert(p, c, status)
  PROVE  /\ doc' = [q \in Pdf |-> [d \in Content |-> doc'[q][d]]]
         /\ \A q \in Pdf, d \in Content :
              doc'[q][d] = [status |-> doc'[q][d].status, key |-> doc'[q][d].key]
         /\ doc'[p][c] = [status |-> status, key |-> None]
         /\ \A q \in Pdf, d \in Content : q # p \/ d # c => doc'[q][d] = doc[q][d]
<1> DEFINE x == [status |-> status, key |-> None]
<1>1. x = [status |-> x.status, key |-> x.key]
  OBVIOUS
<1>2. SetsCell(doc', doc, p, c, x)
  BY DEF Upsert, SetsCell
<1>3. /\ IsTable(doc)
      /\ \A q \in Pdf, d \in Content :
           doc[q][d] = [status |-> doc[q][d].status, key |-> doc[q][d].key]
  BY DEF DInv, Shapes, IsTable
<1> HIDE DEF x
<1>4. /\ IsTable(doc')
      /\ doc'[p][c] = x
      /\ \A q \in Pdf, d \in Content : q # p \/ d # c => doc'[q][d] = doc[q][d]
  BY <1>2, <1>3, Cell
<1>5. \A q \in Pdf, d \in Content :
        doc'[q][d] = [status |-> doc'[q][d].status, key |-> doc'[q][d].key]
  BY <1>1, <1>3, <1>4
<1> QED BY <1>4, <1>5 DEF x, IsTable

\* One row of evidence.
LEMMA RowSet ==
  ASSUME DInv, NEW p \in Pdf, NEW c \in Content, NEW e, SetsCell(evidence', evidence, p, c, e)
  PROVE  /\ evidence' = [q \in Pdf |-> [d \in Content |-> evidence'[q][d]]]
         /\ evidence'[p][c] = e
         /\ \A q \in Pdf, d \in Content : q # p \/ d # c => evidence'[q][d] = evidence[q][d]
<1>1. IsTable(evidence)
  BY DEF DInv, Shapes, IsTable
<1>3. IsTable(evidence') => evidence' = [q \in Pdf |-> [d \in Content |-> evidence'[q][d]]]
  BY DEF IsTable
<1> QED BY <1>1, <1>3, Cell

\* A worker ends its work on an attachment, after the numbers have grown.
LEMMA EndsStep ==
  ASSUME DInv, NEW w \in Worker, NEW result, Goes(w, Ends(w, result)),
         worker[w].pc \notin {"idle", "pick", "patch"},
         count.run <= count'.run, count'.run \in Nat
  PROVE  /\ worker' = [v \in Worker |-> worker'[v]]
         /\ \A v \in Worker : WorkerStep(v)
<1> DEFINE n == Ends(w, result)
           me == worker[w]
<1>1. /\ WorkerShape(n) /\ Knows(n) /\ n.pc = "finish"
      /\ n.run # None =>
           /\ n.run = me.run
           /\ n.flagged \/ (~me.flagged /\ n.pdf = me.pdf /\ n.bytes = me.bytes)
  BY Ended DEF DInv
<1> HIDE DEF n
<1>2. /\ worker' = [v \in Worker |-> worker'[v]] /\ worker'[w] = n
      /\ \A v \in Worker : v # w => worker'[v] = worker[v]
  BY GoesTo DEF n
<1>3. count.run \in Nat
  BY Assumed DEF DInv, Shapes
<1>4. Begun \subseteq Begun'
  BY <1>3 DEF Begun, Run
<1>5. WorkerShape(worker[w])'
  BY <1>1, <1>2, <1>4 DEF WorkerShape
<1>6. Knows(worker[w])'
  BY <1>1, <1>2 DEF Knows, Delivering
<1>7. RunKept(w) /\ NotRenaming(w)
  BY <1>1, <1>2 DEF RunKept, NotRenaming
<1> QED BY <1>2, <1>5, <1>6, <1>7 DEF WorkerStep

\* An attachment is left, with a row that says why.
LEMMA LeftOK ==
  ASSUME DInv, NoneIsApart, NEW w \in Worker, NEW result, NEW p \in Pdf, NEW c \in Content,
         NEW status, status # "completed", Upsert(p, c, status), Goes(w, Ends(w, result)),
         UNCHANGED <<evidence, mirror, library, count>>,
         worker[w].pc \notin {"idle", "pick", "patch"}
  PROVE  DInv'
<1>1. count.run \in Nat /\ count.child \in Nat
  BY Assumed DEF DInv, Shapes
<1>2. worker' = [v \in Worker |-> worker'[v]] /\ \A v \in Worker : WorkerStep(v)
  BY <1>1, EndsStep
<1>3. UNCHANGED <<evidence, mirror, remote, source, name, count>>
  BY DEF library
<1>4. Shapes'
  <2>1. Shapes BY DEF DInv
  <2>2. /\ doc' = [q \in Pdf |-> [d \in Content |-> doc'[q][d]]]
        /\ \A q \in Pdf, d \in Content :
             doc'[q][d] = [status |-> doc'[q][d].status, key |-> doc'[q][d].key]
    BY Upserted
  <2> QED BY <1>2, <1>3, <2>1, <2>2 DEF Shapes, NameShape
<1>5. Grows /\ (\A k \in Child : k \notin Born' => remote'[k] = None)
  BY <1>1, <1>3 DEF Grows, Born, DInv
<1>6. \A q \in Pdf, d \in Content : RowStep(q, d)
  BY <1>3 DEF RowStep
<1>7. RowsKept
  <2>1. \A q \in Pdf, d \in Content : doc'[q][d].status = "completed" => doc'[q][d] = doc[q][d]
    <3>1. /\ doc'[p][c] = [status |-> status, key |-> None]
          /\ \A q \in Pdf, d \in Content : q # p \/ d # c => doc'[q][d] = doc[q][d]
      BY Upserted
    <3>2. doc'[p][c].status # "completed"
      BY <3>1
    <3> QED BY <3>1, <3>2
  <2> QED BY <1>3, <2>1 DEF RowsKept, DInv, EvidenceIsKept
<1> QED BY <1>2, <1>3, <1>4, <1>5, <1>6, <1>7, Composed

\* same_parent_source_row: a twin is skipped.
LEMMA SkipTwinOK ==
  ASSUME DInv, NoneIsApart, NEW w \in Worker, SkipTwin(w)
  PROVE  DInv'
<1> DEFINE p == worker[w].pdf
<1>1. worker[w].pc = "twin"
  BY DEF SkipTwin, At
<1>2. p \in Pdf /\ source[p] \in Content
  BY <1>1 DEF DInv, Knows, Shapes
<1> QED BY <1>1, <1>2, LeftOK DEF SkipTwin

\* A degraded text layer is left to a human.
LEMMA NeedsMineruOK ==
  ASSUME DInv, NoneIsApart, NEW w \in Worker, NeedsMineru(w)
  PROVE  DInv'
<1> DEFINE p == worker[w].pdf
<1>1. worker[w].pc = "twin"
  BY DEF NeedsMineru, At
<1>2. p \in Pdf /\ source[p] \in Content
  BY <1>1 DEF DInv, Knows, Shapes
<1> QED BY <1>1, <1>2, LeftOK DEF NeedsMineru

-----------------------------------------------------------------------------
(* The delivery.                                                           *)

\* A step that turns rows that are not bound, and moves workers.
LEMMA RowsOnly ==
  ASSUME DInv, NoneIsApart,
         evidence' = [q \in Pdf |-> [d \in Content |-> evidence'[q][d]]],
         \A p \in Pdf, c \in Content : RowStep(p, c),
         worker' = [v \in Worker |-> worker'[v]], \A v \in Worker : WorkerStep(v),
         UNCHANGED <<doc, mirror, library>>, count' = count \/ Fault
  PROVE  DInv'
<1>1. UNCHANGED <<doc, mirror, remote, source, name>>
  BY DEF library
<1>2. /\ count' \in [run : 0 .. RunBound, child : 0 .. ChildBound, fault : 0 .. FaultBound]
      /\ count'.run = count.run /\ count'.child = count.child
  BY Counted DEF DInv, Shapes
<1>3. Shapes'
  <2>1. Shapes BY DEF DInv
  <2> QED BY <1>1, <1>2, <2>1 DEF Shapes, NameShape
<1>4. Grows /\ (\A k \in Child : k \notin Born' => remote'[k] = None)
  BY <1>1, <1>2, Assumed DEF Grows, Born, DInv, Shapes
<1>5. RowsKept
  BY <1>1 DEF DInv, EvidenceIsKept, RowsKept
<1> QED BY <1>1, <1>3, <1>4, <1>5, Composed

\* The row a delivering worker writes.
LEMMA RowOf ==
  ASSUME DInv, NEW w \in Worker, worker[w].pc \in {"claim"} \cup Delivering
  PROVE  /\ worker[w].pdf \in Pdf /\ worker[w].bytes \in Content
         /\ Row(w) = evidence[worker[w].pdf][worker[w].bytes]
         /\ Row(w) # None /\ EvidenceRight(worker[w].pdf, worker[w].bytes)
         /\ Row(w) \in EvidenceRecord /\ EvidenceOK(Row(w))
<1>1. worker[w].pdf \in Pdf /\ worker[w].bytes \in Content /\ evidence[worker[w].pdf][worker[w].bytes] # None
  BY DEF DInv, Knows, Delivering
<1>2. EvidenceRight(worker[w].pdf, worker[w].bytes)
  BY <1>1 DEF DInv
<1> QED BY <1>1, <1>2 DEF EvidenceRight, Row

\* What a worker writes into its row, and nowhere else.
LEMMA Written ==
  ASSUME DInv, NEW w \in Worker, worker[w].pc \in {"claim"} \cup Delivering, NEW e, SetRow(w, e)
  PROVE  /\ evidence' = [q \in Pdf |-> [d \in Content |-> evidence'[q][d]]]
         /\ evidence'[worker[w].pdf][worker[w].bytes] = e
         /\ \A q \in Pdf, d \in Content :
              q # worker[w].pdf \/ d # worker[w].bytes => evidence'[q][d] = evidence[q][d]
<1> DEFINE p == worker[w].pdf
           c == worker[w].bytes
<1>1. p \in Pdf /\ c \in Content
  BY RowOf
<1>2. SetsCell(evidence', evidence, p, c, e)
  BY DEF SetRow, SetsCell
<1> HIDE DEF p, c
<1>3. /\ evidence' = [q \in Pdf |-> [d \in Content |-> evidence'[q][d]]]
      /\ evidence'[p][c] = e
      /\ \A q \in Pdf, d \in Content : q # p \/ d # c => evidence'[q][d] = evidence[q][d]
  BY <1>1, <1>2, RowSet
<1> QED BY <1>3 DEF p, c

\* One row is turned, and the others stay.
LEMMA OneRow ==
  ASSUME DInv, NEW w \in Worker, worker[w].pc \in {"claim"} \cup Delivering, NEW e,
         SetRow(w, e), RowStep(worker[w].pdf, worker[w].bytes)
  PROVE  /\ evidence' = [q \in Pdf |-> [d \in Content |-> evidence'[q][d]]]
         /\ \A p \in Pdf, c \in Content : RowStep(p, c)
<1> DEFINE p == worker[w].pdf
           c == worker[w].bytes
<1>1. /\ evidence' = [q \in Pdf |-> [d \in Content |-> evidence'[q][d]]]
      /\ \A q \in Pdf, d \in Content : q # p \/ d # c => evidence'[q][d] = evidence[q][d]
  BY Written
<1>2. \A q \in Pdf, d \in Content : q # p \/ d # c => RowStep(q, d)
  BY <1>1 DEF RowStep
<1> QED BY <1>1, <1>2

\* What a worker that gives up leaves behind.
LEMMA GivenUp ==
  ASSUME DInv, NEW w \in Worker, worker[w].pc \in Delivering, NEW mismatch \in BOOLEAN,
         GiveUp(w, mismatch), count.run <= count'.run, count'.run \in Nat
  PROVE  /\ evidence' = [q \in Pdf |-> [d \in Content |-> evidence'[q][d]]]
         /\ \A p \in Pdf, c \in Content : RowStep(p, c)
         /\ worker' = [v \in Worker |-> worker'[v]]
         /\ \A v \in Worker : WorkerStep(v)
<1> DEFINE p == worker[w].pdf
           c == worker[w].bytes
           e == Row(w)
           n == [e EXCEPT !.state = "retryable", !.owner = None, !.live = FALSE,
                          !.pending = IF mismatch THEN None ELSE @]
<1>1. /\ p \in Pdf /\ c \in Content /\ e = evidence[p][c] /\ e # None
      /\ e \in EvidenceRecord /\ EvidenceOK(e)
  BY RowOf DEF Delivering
<1>2. worker[w].pc \notin {"idle", "pick", "patch"}
  BY DEF Delivering
<1>3. Goes(w, Ends(w, "retryable_upload"))
  BY DEF GiveUp
<1>4. worker' = [v \in Worker |-> worker'[v]] /\ \A v \in Worker : WorkerStep(v)
  BY <1>2, <1>3, EndsStep
<1>5. CASE e.owner # w
  <2>1. evidence' = evidence
    BY <1>5 DEF GiveUp
  <2>2. evidence = [q \in Pdf |-> [d \in Content |-> evidence[q][d]]]
    BY DEF DInv, Shapes
  <2> QED BY <1>4, <2>1, <2>2 DEF RowStep
<1>6. CASE e.owner = w
  <2>1. SetRow(w, n)
    BY <1>6 DEF GiveUp
  <2>2. e.state = "uploading" /\ e.key = None
    BY <1>1, <1>6, Assumed DEF EvidenceOK
  <2>3. /\ n \in EvidenceRecord /\ EvidenceOK(n) /\ n.run = e.run /\ n.key = None
        /\ n.pending \in {None, e.pending}
    <3> HIDE DEF e
    <3>1. e \in EvidenceRecord /\ EvidenceOK(e)
      BY <1>1
    <3>2. n.pending \in {None, e.pending}
      BY <3>1 DEF EvidenceRecord
    <3> QED BY <2>2, <3>1, <3>2 DEF EvidenceRecord, EvidenceOK
  <2> HIDE DEF n, e
  <2>4. evidence'[p][c] = n
    BY <2>1, Written
  <2>5. RowStep(p, c)
    BY <1>1, <2>2, <2>3, <2>4 DEF RowStep
  <2> QED BY <1>4, <2>1, <2>5, OneRow
<1> QED BY <1>5, <1>6

\* A request to Zotero fails (record_delivery_error).
LEMMA RequestFailsOK ==
  ASSUME DInv, NoneIsApart, NEW w \in Worker, RequestFails(w)
  PROVE  DInv'
<1>1. /\ worker[w].pc \in Delivering /\ GiveUp(w, FALSE) /\ Fault
      /\ UNCHANGED <<doc, mirror, library>>
  BY DEF RequestFails, Delivering
<1>2. count'.run = count.run /\ count'.run \in Nat /\ count.run <= count'.run
  BY <1>1, Counted, Assumed DEF DInv, Shapes
<1> QED BY <1>1, <1>2, GivenUp, RowsOnly

\* A worker goes on with its delivery.
LEMMA MovesOn ==
  ASSUME DInv, NEW w \in Worker, NEW n, Goes(w, n), worker[w].pc \in {"claim"} \cup Delivering,
         WorkerShape(n), n.pc \in Delivering, n.run = worker[w].run,
         n.flagged = worker[w].flagged, n.pdf = worker[w].pdf, n.bytes = worker[w].bytes,
         n.raw = worker[w].raw,
         count.run <= count'.run, count'.run \in Nat,
         evidence'[n.pdf][n.bytes] # None,
         n.pc \in {"match", "keep", "put", "bind"} =>
           n.key \in Born' /\ (remote'[n.key] # None => remote'[n.key].pdf = n.pdf),
         n.pc = "bind" => (remote'[n.key] # None => remote'[n.key].file = n.raw.run)
  PROVE  /\ worker' = [v \in Worker |-> worker'[v]]
         /\ \A v \in Worker : WorkerStep(v)
<1>1. /\ worker' = [v \in Worker |-> worker'[v]] /\ worker'[w] = n
      /\ \A v \in Worker : v # w => worker'[v] = worker[v]
  BY GoesTo
<1>2. count.run \in Nat
  BY Assumed DEF DInv, Shapes
<1>3. Begun \subseteq Begun'
  BY <1>2 DEF Begun, Run
<1>4. WorkerShape(worker[w])'
  BY <1>1, <1>3 DEF WorkerShape
<1>5. /\ worker[w].pdf \in Pdf /\ worker[w].bytes \in Content /\ worker[w].raw \in JsonRecord
      /\ worker[w].run = None \/ worker[w].flagged
  BY DEF DInv, Knows, Delivering
<1>6. Knows(worker[w])'
  BY <1>1, <1>5 DEF Knows, ChildOf, HoldsText, Delivering
<1>7. RunKept(w) /\ NotRenaming(w)
  BY <1>1, <1>5 DEF RunKept, NotRenaming, Delivering
<1> QED BY <1>1, <1>4, <1>6, <1>7 DEF WorkerStep

\* claim_upload.
LEMMA ClaimOK ==
  ASSUME DInv, NoneIsApart, NEW w \in Worker, Claim(w)
  PROVE  DInv'
<1> DEFINE me == worker[w]
           p == me.pdf
           c == me.bytes
           e == Row(w)
           x == [e EXCEPT !.state = "uploading", !.owner = w, !.live = TRUE]
           n == [me EXCEPT !.pc = IF e.pending # None THEN "match" ELSE "discover", !.key = e.pending]
           May == Json(e) = me.raw /\ (e.state \in {"local", "retryable"} \/ (e.state = "uploading" /\ ~e.live))
<1>1. me.pc = "claim" /\ UNCHANGED <<doc, mirror, library, count>> /\ WorkerShape(me)
  BY DEF DInv, Claim, At
<1>2. /\ p \in Pdf /\ c \in Content /\ e = evidence[p][c] /\ e # None
      /\ e \in EvidenceRecord /\ EvidenceOK(e) /\ EvidenceRight(p, c)
  BY <1>1, RowOf
<1>3. count.run \in Nat /\ count'.run = count.run
  BY <1>1, Assumed DEF DInv, Shapes
<1>4. CASE ~May
  <2>1. Goes(w, Ends(w, "error")) /\ evidence' = evidence
    BY <1>4 DEF Claim
  <2> QED BY <1>1, <2>1, EndsOK DEF store
<1>5. CASE May
  <2>1. SetRow(w, x) /\ Goes(w, n)
    BY <1>5 DEF Claim
  <2>2. e.state # "uploaded" /\ e.key = None
    BY <1>2, <1>5 DEF EvidenceOK
  <2> HIDE DEF e, May
  <2>3. x \in EvidenceRecord /\ EvidenceOK(x) /\ x.run = e.run /\ x.key = None /\ x.pending = e.pending
    BY <1>2, <2>2, Assumed DEF EvidenceRecord, EvidenceOK
  <2>4. /\ WorkerShape(n) /\ n.run = me.run /\ n.flagged = me.flagged /\ n.pdf = p /\ n.bytes = c
        /\ n.raw = me.raw /\ n.key = e.pending
        /\ n.pc = IF e.pending # None THEN "match" ELSE "discover"
    BY <1>1 DEF WorkerShape, Label
  <2> HIDE DEF x, n
  <2>5. evidence'[p][c] = x
    BY <1>1, <2>1, Written
  <2>6. RowStep(p, c)
    BY <1>2, <2>2, <2>3, <2>5 DEF RowStep
  <2>7. /\ evidence' = [q \in Pdf |-> [d \in Content |-> evidence'[q][d]]]
        /\ \A q \in Pdf, d \in Content : RowStep(q, d)
    BY <1>1, <2>1, <2>6, OneRow
  <2>8. e.pending # None =>
          e.pending \in Born' /\ (remote'[e.pending] # None => remote'[e.pending].pdf = p)
    BY <1>1, <1>2 DEF EvidenceRight, ChildOf, Born, library
  <2>9. x # None
    BY <2>3 DEF NoneIsApart
  <2>10. n.pc \in {"match", "discover"} /\ {"match", "discover"} \subseteq Delivering
    BY <2>4 DEF Delivering
  <2>11. worker' = [v \in Worker |-> worker'[v]] /\ \A v \in Worker : WorkerStep(v)
    BY <1>1, <1>3, <2>1, <2>4, <2>5, <2>8, <2>9, <2>10, MovesOn
  <2> QED BY <1>1, <2>7, <2>11, RowsOnly
<1> QED BY <1>4, <1>5

\* A lease runs out.
LEMMA ExpireOK ==
  ASSUME DInv, NoneIsApart, NEW p \in Pdf, NEW c \in Content, Expire(p, c)
  PROVE  DInv'
<1> DEFINE e == evidence[p][c]
           x == [e EXCEPT !.live = FALSE]
<1>1. /\ e # None /\ e.state = "uploading" /\ UNCHANGED <<doc, mirror, library, worker, count>>
      /\ evidence' = [evidence EXCEPT ![p][c].live = FALSE]
  BY DEF Expire, LiveUpload
<1>2. e \in EvidenceRecord /\ EvidenceOK(e)
  BY <1>1 DEF DInv, EvidenceRight
<1>3. SetsCell(evidence', evidence, p, c, x)
  BY <1>1 DEF SetsCell
<1> HIDE DEF e
<1>4. x \in EvidenceRecord /\ EvidenceOK(x) /\ x.run = e.run /\ x.key = None /\ x.pending = e.pending
  BY <1>1, <1>2 DEF EvidenceRecord, EvidenceOK
<1> HIDE DEF x
<1>5. /\ evidence' = [q \in Pdf |-> [d \in Content |-> evidence'[q][d]]]
      /\ evidence'[p][c] = x
      /\ \A q \in Pdf, d \in Content : q # p \/ d # c => evidence'[q][d] = evidence[q][d]
  BY <1>3, RowSet
<1>6. RowStep(p, c)
  BY <1>1, <1>4, <1>5 DEF RowStep, e
<1>7. \A q \in Pdf, d \in Content : RowStep(q, d)
  BY <1>5, <1>6 DEF RowStep
<1>8. worker' = [v \in Worker |-> worker'[v]] /\ \A v \in Worker : WorkerStep(v)
  BY <1>1 DEF WorkerStep, DInv, Shapes
<1> QED BY <1>1, <1>5, <1>7, <1>8, RowsOnly

\* The pending child is compared with the Markdown.
LEMMA MatchOK ==
  ASSUME DInv, NoneIsApart, NEW w \in Worker, Match(w)
  PROVE  DInv'
<1> DEFINE me == worker[w]
           n == [me EXCEPT !.pc = "put"]
<1>1. me.pc = "match" /\ UNCHANGED <<doc, mirror, library, count>> /\ WorkerShape(me) /\ Knows(me)
  BY DEF DInv, Match, At
<1>2. count.run \in Nat /\ count'.run = count.run /\ count.run <= count'.run /\ count'.run \in Nat
  BY <1>1, Assumed DEF DInv, Shapes
<1>3. CASE ~Matches(me.key, me.raw.run)
  <2>1. GiveUp(w, TRUE)
    BY <1>3 DEF Match
  <2>2. me.pc \in Delivering
    BY <1>1 DEF Delivering
  <2> QED BY <1>1, <1>2, <2>1, <2>2, GivenUp, RowsOnly
<1>4. CASE Matches(me.key, me.raw.run)
  <2>1. Goes(w, n) /\ evidence' = evidence
    BY <1>4 DEF Match, To
  <2>2. /\ WorkerShape(n) /\ n.pc = "put" /\ n.run = me.run /\ n.flagged = me.flagged
        /\ n.pdf = me.pdf /\ n.bytes = me.bytes /\ n.raw = me.raw /\ n.key = me.key
    <3>1. "put" \in Label
      BY DEF Label
    <3> QED BY <1>1, <3>1, Labelled
  <2> HIDE DEF n
  <2>3. Knows(n)
    BY <1>1, <2>2 DEF Knows, Delivering
  <2>4. n.run # None => n.flagged
    BY <1>1, <2>2 DEF Knows
  <2> QED BY <1>1, <2>1, <2>2, <2>3, <2>4, QuietTo DEF store
<1> QED BY <1>3, <1>4

\* find_markdown_attachment_by_provenance.
LEMMA DiscoverOK ==
  ASSUME DInv, NoneIsApart, NEW w \in Worker, Discover(w)
  PROVE  DInv'
<1> DEFINE me == worker[w]
           found == Provenance(me.pdf)
           k == CHOOSE x \in found : TRUE
<1>1. me.pc = "discover" /\ UNCHANGED <<doc, mirror, library, count>> /\ WorkerShape(me) /\ Knows(me)
  BY DEF DInv, Discover, At
<1>2. count.run \in Nat /\ count'.run = count.run /\ count.run <= count'.run /\ count'.run \in Nat
  BY <1>1, Assumed DEF DInv, Shapes
<1>3. CASE GiveUp(w, FALSE)
  <2>2. me.pc \in Delivering
    BY <1>1 DEF Delivering
  <2> QED BY <1>1, <1>2, <1>3, <2>2, GivenUp, RowsOnly
<1>4. CASE To(w, "create") /\ evidence' = evidence
  <2> DEFINE n == [me EXCEPT !.pc = "create"]
  <2>1. Goes(w, n)
    BY <1>4 DEF To
  <2>2. /\ WorkerShape(n) /\ n.pc = "create" /\ n.run = me.run /\ n.flagged = me.flagged
        /\ n.pdf = me.pdf /\ n.bytes = me.bytes /\ n.raw = me.raw /\ n.key = me.key
    <3>1. "create" \in Label
      BY DEF Label
    <3> QED BY <1>1, <3>1, Labelled
  <2> HIDE DEF n
  <2>3. Knows(n)
    BY <1>1, <2>2 DEF Knows, Delivering
  <2>4. n.run # None => n.flagged
    BY <1>1, <2>2 DEF Knows
  <2> QED BY <1>1, <1>4, <2>1, <2>2, <2>3, <2>4, QuietTo DEF store
<1>5. CASE found # {} /\ Goes(w, [me EXCEPT !.pc = "keep", !.key = k]) /\ evidence' = evidence
  <2> DEFINE n == [me EXCEPT !.pc = "keep", !.key = k]
  <2>1. k \in found
    BY <1>5
  <2> HIDE DEF k
  <2>2. k \in Child /\ remote[k] # None /\ remote[k].pdf = me.pdf
    BY <2>1 DEF Provenance
  <2>3. k \in Born
    BY <2>2 DEF DInv
  <2>4. /\ WorkerShape(n) /\ n.pc = "keep" /\ n.run = me.run /\ n.flagged = me.flagged
        /\ n.pdf = me.pdf /\ n.bytes = me.bytes /\ n.raw = me.raw /\ n.key = k
    BY <1>1 DEF Label, WorkerShape
  <2> HIDE DEF n
  <2>5. Knows(n)
    BY <1>1, <2>2, <2>3, <2>4 DEF Knows, Delivering, ChildOf
  <2>6. n.run # None => n.flagged
    BY <1>1, <2>4 DEF Knows
  <2>7. Goes(w, n)
    BY <1>5 DEF n
  <2> QED BY <1>1, <1>5, <2>4, <2>5, <2>6, <2>7, QuietTo DEF store
<1> QED BY <1>3, <1>4, <1>5 DEF Discover

\* The child that will be filled is recorded.
LEMMA RecordPendingOK ==
  ASSUME DInv, NoneIsApart, NEW w \in Worker, RecordPending(w)
  PROVE  DInv'
<1> DEFINE me == worker[w]
           p == me.pdf
           c == me.bytes
           e == Row(w)
           x == [e EXCEPT !.pending = me.key]
           n == [me EXCEPT !.pc = "put"]
           May == e.state = "uploading" /\ e.owner = w /\ e.pending = None
<1>1. me.pc = "keep" /\ UNCHANGED <<doc, mirror, library, count>> /\ WorkerShape(me) /\ Knows(me)
  BY DEF DInv, RecordPending, At
<1>2. /\ p \in Pdf /\ c \in Content /\ e = evidence[p][c] /\ e # None
      /\ e \in EvidenceRecord /\ EvidenceOK(e)
  BY <1>1, RowOf DEF Delivering
<1>3. count.run \in Nat /\ count'.run = count.run /\ count.run <= count'.run /\ count'.run \in Nat
  BY <1>1, Assumed DEF DInv, Shapes
<1>4. me.pc \in Delivering
  BY <1>1 DEF Delivering
<1>5. CASE ~May
  <2>1. GiveUp(w, FALSE)
    BY <1>5 DEF RecordPending
  <2> QED BY <1>1, <1>3, <1>4, <2>1, GivenUp, RowsOnly
<1>6. CASE May
  <2>1. SetRow(w, x) /\ Goes(w, n)
    BY <1>6 DEF RecordPending, To
  <2>2. e.state = "uploading" /\ e.key = None
    BY <1>2, <1>6 DEF EvidenceOK
  <2>3. ChildOf(me.key, p)
    BY <1>1 DEF Knows
  <2> HIDE DEF e, May
  <2>4. x \in EvidenceRecord /\ EvidenceOK(x) /\ x.run = e.run /\ x.key = None /\ x.pending = me.key
    BY <1>2, <2>2, <2>3 DEF EvidenceRecord, EvidenceOK, ChildOf, Born
  <2>5. /\ WorkerShape(n) /\ n.pc = "put" /\ n.run = me.run /\ n.flagged = me.flagged
        /\ n.pdf = p /\ n.bytes = c /\ n.raw = me.raw /\ n.key = me.key
    <3>1. "put" \in Label
      BY DEF Label
    <3> QED BY <1>1, <3>1, Labelled
  <2> HIDE DEF x, n
  <2>6. evidence'[p][c] = x
    BY <1>4, <2>1, Written
  <2>7. RowStep(p, c)
    BY <1>2, <2>2, <2>3, <2>4, <2>6 DEF RowStep
  <2>8. /\ evidence' = [q \in Pdf |-> [d \in Content |-> evidence'[q][d]]]
        /\ \A q \in Pdf, d \in Content : RowStep(q, d)
    BY <1>4, <2>1, <2>7, OneRow
  <2>9. x # None
    BY <2>4 DEF NoneIsApart
  <2>10. me.key \in Born' /\ (remote'[me.key] # None => remote'[me.key].pdf = p)
    BY <1>1, <2>3 DEF ChildOf, Born, library
  <2>11. n.pc \in Delivering
    BY <2>5 DEF Delivering
  <2>12. worker' = [v \in Worker |-> worker'[v]] /\ \A v \in Worker : WorkerStep(v)
    BY <1>3, <1>4, <2>1, <2>5, <2>6, <2>9, <2>10, <2>11, MovesOn
  <2> QED BY <1>1, <2>8, <2>12, RowsOnly
<1> QED BY <1>5, <1>6

\* The library gets a child, or a child its file; rows and workers follow.
LEMMA LibraryGrows ==
  ASSUME DInv, NoneIsApart, Grows,
         remote' \in [Child -> ChildRecord \cup {None}],
         \A k \in Child : k \notin Born' => remote'[k] = None,
         count' \in [run : 0 .. RunBound, child : 0 .. ChildBound, fault : 0 .. FaultBound],
         evidence' = [q \in Pdf |-> [d \in Content |-> evidence'[q][d]]],
         \A p \in Pdf, c \in Content : RowStep(p, c),
         worker' = [v \in Worker |-> worker'[v]], \A v \in Worker : WorkerStep(v),
         UNCHANGED <<doc, mirror, source, name>>
  PROVE  DInv'
<1>1. Shapes'
  <2>1. Shapes BY DEF DInv
  <2> QED BY <2>1 DEF Shapes, NameShape
<1>2. RowsKept
  BY DEF DInv, EvidenceIsKept, RowsKept
<1> QED BY <1>1, <1>2, Composed

\* create_markdown_attachment_item, its reply lost or not.
LEMMA CreateOK ==
  ASSUME DInv, NoneIsApart, NEW w \in Worker, Create(w)
  PROVE  DInv'
<1> DEFINE me == worker[w]
           p == me.pdf
           k == count.child + 1
           x == [pdf |-> me.pdf, bytes |-> me.bytes, file |-> None]
           n == [me EXCEPT !.pc = "keep", !.key = k]
<1>1. /\ me.pc = "create" /\ k \in Child /\ UNCHANGED <<doc, mirror, source, name>>
      /\ remote' = [remote EXCEPT ![k] = x] /\ WorkerShape(me) /\ Knows(me)
  BY DEF DInv, Create, At
<1>2. p \in Pdf /\ me.bytes \in Content /\ evidence[p][me.bytes] # None
  BY <1>1 DEF Knows, Delivering
<1>3. /\ count' \in [run : 0 .. RunBound, child : 0 .. ChildBound, fault : 0 .. FaultBound]
      /\ count'.run = count.run /\ count'.child = k
  <2>1. count \in [run : 0 .. RunBound, child : 0 .. ChildBound, fault : 0 .. FaultBound]
    BY DEF DInv, Shapes
  <2>2. k \in 0 .. ChildBound
    BY <1>1, Assumed DEF Child
  <2>3. CASE Bump("child")
    <3> HIDE DEF k
    <3>1. count' = [count EXCEPT !.child = k]
      BY <2>3 DEF Bump, k
    <3> QED BY <2>1, <2>2, <3>1
  <2>4. CASE count.fault < FaultBound /\ count' = [count EXCEPT !.child = k, !.fault = @ + 1]
    <3> DEFINE f == count.fault + 1
    <3>1. f \in 0 .. FaultBound
      BY <2>1, <2>4, Assumed
    <3>2. count' = [count EXCEPT !.child = k, !.fault = f]
      BY <2>4
    <3> HIDE DEF f, k
    <3> QED BY <2>1, <2>2, <3>1, <3>2
  <2> QED BY <2>3, <2>4 DEF Create
<1>4. count.child \in Nat /\ count.run \in Nat
  BY Assumed DEF DInv, Shapes
<1>5. x \in ChildRecord
  BY <1>2 DEF ChildRecord
<1>6. remote' \in [Child -> ChildRecord \cup {None}] /\ remote'[k] = x
      /\ \A l \in Child : l # k => remote'[l] = remote[l]
  <2> HIDE DEF x, k
  <2> QED BY <1>1, <1>5 DEF DInv, Shapes
<1>7. Born' = Born \cup {k} /\ k \notin Born
  BY <1>1, <1>3, <1>4, Assumed DEF Born, Child
<1>8. \A l \in Child : l \notin Born' => remote'[l] = None
  BY <1>6, <1>7 DEF DInv
<1>9. Grows
  <2>1. \A l \in Born : remote'[l] = remote[l]
    BY <1>6, <1>7 DEF Born
  <2> HIDE DEF k
  <2>2. count.child <= count'.child
    BY <1>3, <1>4 DEF k
  <2> QED BY <1>3, <1>4, <2>1, <2>2 DEF Grows
<1>10. CASE Goes(w, n) /\ evidence' = evidence
  <2>1. /\ WorkerShape(n) /\ n.pc = "keep" /\ n.run = me.run /\ n.flagged = me.flagged
        /\ n.pdf = me.pdf /\ n.bytes = me.bytes /\ n.raw = me.raw /\ n.key = k
    BY <1>1 DEF Label, WorkerShape
  <2>2. k \in Born' /\ remote'[k].pdf = p
    BY <1>6, <1>7
  <2>3. me.pc \in Delivering /\ n.pc \in Delivering
    BY <1>1, <2>1 DEF Delivering
  <2> HIDE DEF n, k
  <2>4. worker' = [v \in Worker |-> worker'[v]] /\ \A v \in Worker : WorkerStep(v)
    BY <1>2, <1>3, <1>4, <1>10, <2>1, <2>2, <2>3, MovesOn
  <2>5. evidence = [q \in Pdf |-> [d \in Content |-> evidence[q][d]]]
    BY DEF DInv, Shapes
  <2>6. \A q \in Pdf, d \in Content : RowStep(q, d)
    BY <1>10 DEF RowStep
  <2> QED BY <1>1, <1>3, <1>6, <1>8, <1>9, <1>10, <2>4, <2>5, <2>6, LibraryGrows
<1>12. count.run <= count'.run /\ count'.run \in Nat
  BY <1>3, <1>4
<1>11. CASE GiveUp(w, FALSE)
  <2>1. me.pc \in Delivering
    BY <1>1 DEF Delivering
  <2> HIDE DEF k
  <2>2. /\ evidence' = [q \in Pdf |-> [d \in Content |-> evidence'[q][d]]]
        /\ \A q \in Pdf, d \in Content : RowStep(q, d)
        /\ worker' = [v \in Worker |-> worker'[v]]
        /\ \A v \in Worker : WorkerStep(v)
    BY <1>11, <1>12, <2>1, GivenUp
  <2> QED BY <1>1, <1>3, <1>6, <1>8, <1>9, <2>2, LibraryGrows
<1> QED BY <1>10, <1>11 DEF Create

\* upload_file, its reply lost or not.
LEMMA PutOK ==
  ASSUME DInv, NoneIsApart, NEW w \in Worker, Put(w)
  PROVE  DInv'
<1> DEFINE me == worker[w]
           p == me.pdf
           k == me.key
           r == me.raw.run
           n == [me EXCEPT !.pc = "bind"]
           May == remote[k] # None /\ remote[k].file \in {None, r}
<1>1. me.pc = "put" /\ UNCHANGED <<doc, mirror, source, name>> /\ WorkerShape(me) /\ Knows(me)
  BY DEF DInv, Put, At
<1>2. /\ p \in Pdf /\ me.bytes \in Content /\ evidence[p][me.bytes] # None /\ r \in Run
      /\ ChildOf(k, p) /\ k \in Born /\ k \in Child
  BY <1>1 DEF Knows, Delivering, JsonRecord, ChildOf, Born
<1>3. /\ count' \in [run : 0 .. RunBound, child : 0 .. ChildBound, fault : 0 .. FaultBound]
      /\ count'.run = count.run /\ count'.child = count.child
  BY Counted DEF Put, DInv, Shapes
<1>4. count.child \in Nat /\ count.run \in Nat
  BY Assumed DEF DInv, Shapes
<1>5. Born' = Born
  BY <1>3 DEF Born
<1>6. me.pc \in Delivering
  BY <1>1 DEF Delivering
<1>7. /\ remote' \in [Child -> ChildRecord \cup {None}]
      /\ \A l \in Child : l # k => remote'[l] = remote[l]
      /\ remote'[k] # None => remote[k] # None /\ remote'[k].pdf = remote[k].pdf
      /\ remote[k] # None /\ remote[k].file # None => remote'[k].file = remote[k].file
      /\ May => remote'[k].file = r
  <2>1. CASE ~May
    <3>1. remote' = remote
      BY <2>1 DEF Put
    <3> QED BY <2>1, <3>1 DEF DInv, Shapes
  <2>2. CASE May
    <3> DEFINE x == [remote[k] EXCEPT !.file = r]
    <3>1. remote' = [remote EXCEPT ![k] = x]
      BY <2>2 DEF Put
    <3>2. remote \in [Child -> ChildRecord \cup {None}]
      BY DEF DInv, Shapes
    <3>3. remote[k] \in ChildRecord
      BY <1>2, <2>2, <3>2
    <3>4. x \in ChildRecord /\ x.pdf = remote[k].pdf /\ x.file = r
      BY <1>2, <3>3 DEF ChildRecord
    <3>5. remote[k].file # None => remote[k].file = r
      BY <2>2
    <3>6. remote[k] # None
      BY <2>2
    <3> HIDE DEF x, k, r, May
    <3> QED BY <1>2, <3>1, <3>2, <3>4, <3>5, <3>6
  <2> QED BY <2>1, <2>2
<1>8. Grows
  <2> HIDE DEF k
  <2> QED BY <1>3, <1>4, <1>7 DEF Grows, Born
<1>9. \A l \in Child : l \notin Born' => remote'[l] = None
  BY <1>2, <1>5, <1>7 DEF DInv
<1>10. CASE To(w, "bind") /\ evidence' = evidence /\ May
  <2>1. /\ WorkerShape(n) /\ n.pc = "bind" /\ n.run = me.run /\ n.flagged = me.flagged
        /\ n.pdf = me.pdf /\ n.bytes = me.bytes /\ n.raw = me.raw /\ n.key = me.key
    <3>1. "bind" \in Label
      BY DEF Label
    <3> QED BY <1>1, <3>1, Labelled
  <2>2. k \in Born' /\ (remote'[k] # None => remote'[k].pdf = p /\ remote'[k].file = r)
    BY <1>2, <1>5, <1>7, <1>10 DEF ChildOf
  <2>3. n.pc \in Delivering /\ Goes(w, n)
    BY <1>10, <2>1 DEF Delivering, To
  <2> HIDE DEF n
  <2>4. worker' = [v \in Worker |-> worker'[v]] /\ \A v \in Worker : WorkerStep(v)
    BY <1>2, <1>3, <1>4, <1>6, <1>10, <2>1, <2>2, <2>3, MovesOn
  <2>5. evidence = [q \in Pdf |-> [d \in Content |-> evidence[q][d]]]
    BY DEF DInv, Shapes
  <2>6. \A q \in Pdf, d \in Content : RowStep(q, d)
    BY <1>10 DEF RowStep
  <2> QED BY <1>1, <1>3, <1>7, <1>8, <1>9, <1>10, <2>4, <2>5, <2>6, LibraryGrows
<1>12. count.run <= count'.run /\ count'.run \in Nat
  BY <1>3, <1>4
<1>11. CASE GiveUp(w, FALSE)
  <2>2. /\ evidence' = [q \in Pdf |-> [d \in Content |-> evidence'[q][d]]]
        /\ \A q \in Pdf, d \in Content : RowStep(q, d)
        /\ worker' = [v \in Worker |-> worker'[v]]
        /\ \A v \in Worker : WorkerStep(v)
    BY <1>6, <1>11, <1>12, GivenUp
  <2> QED BY <1>1, <1>3, <1>7, <1>8, <1>9, <2>2, LibraryGrows
<1> QED BY <1>10, <1>11 DEF Put

-----------------------------------------------------------------------------
(* Names.                                                                  *)

\* A step that moves one worker, may change one name, and nothing else.
LEMMA NameStep ==
  ASSUME DInv, NoneIsApart, UNCHANGED <<doc, evidence, mirror, remote, source>>,
         count' = count \/ Fault,
         name' = [p \in Pdf |-> name'[p]], \A p \in Pdf : NameShape(name'[p]),
         worker' = [v \in Worker |-> worker'[v]],
         \A v \in Worker : \/ worker'[v] = worker[v]
                           \/ WorkerShape(worker'[v]) /\ Knows(worker'[v]) /\ RunKept(v),
         \A p \in Pdf : NameRight(p)'
  PROVE  DInv'
<1>1. /\ count' \in [run : 0 .. RunBound, child : 0 .. ChildBound, fault : 0 .. FaultBound]
      /\ count'.run = count.run /\ count'.child = count.child
  BY Counted DEF DInv, Shapes
<1>2. count.child \in Nat /\ count.run \in Nat
  BY Assumed DEF DInv, Shapes
<1>3. Born' = Born /\ Begun' = Begun
  BY <1>1 DEF Born, Begun
<1>4. Shapes'
  <2>1. Shapes BY DEF DInv
  <2> QED BY <1>1, <2>1 DEF Shapes, NameShape
<1>5. Later
  BY <1>1, <1>2 DEF Later, Born
<1>6. \A v \in Worker : WorkerShape(worker[v])' /\ Knows(worker[v])'
  <2> SUFFICES ASSUME NEW v \in Worker PROVE WorkerShape(worker[v])' /\ Knows(worker[v])'
    OBVIOUS
  <2>1. CASE worker'[v] = worker[v]
    BY <1>1, <1>2, <1>5, <2>1, KnowsStays
  <2>2. CASE WorkerShape(worker'[v]) /\ Knows(worker'[v])
    BY <1>3, <2>2 DEF WorkerShape, Knows, ChildOf, HoldsText
  <2> QED BY <2>1, <2>2
<1>7. \A p \in Pdf, c \in Content : evidence'[p][c] = None \/ EvidenceRight(p, c)'
  BY <1>1, <1>2, <1>5, EvidenceStays
<1>8. RunsApart' /\ RunsOwned'
  <2>1. SameRuns
    BY DEF SameRuns
  <2> QED BY <2>1, RunsStay
<1>9. CompletedIsBound' /\ EvidenceIsKept'
  BY DEF DInv, CompletedIsBound, EvidenceIsKept
<1>10. \A k \in Child : k \notin Born' => remote'[k] = None
  BY <1>3 DEF DInv
<1> QED BY <1>4, <1>6, <1>7, <1>8, <1>9, <1>10 DEF DInv

\* The desktop learns of a new name.
LEMMA SyncOK ==
  ASSUME DInv, NoneIsApart, NEW p \in Pdf, Sync(p)
  PROVE  DInv'
<1> DEFINE x == [name[p] EXCEPT !.local = name[p].web]
<1>1. /\ UNCHANGED <<doc, evidence, mirror, remote, source, worker, count>>
      /\ name' = [name EXCEPT ![p] = x]
  BY DEF Sync, store
<1>2. NameShape(name[p])
  BY DEF DInv, Shapes
<1>3. NameShape(x) /\ x.disk = name[p].disk /\ x.web = name[p].web /\ x.torn = name[p].torn
  BY <1>2 DEF NameShape
<1> HIDE DEF x
<1>4. /\ name' = [q \in Pdf |-> name'[q]] /\ name'[p] = x
      /\ \A q \in Pdf : q # p => name'[q] = name[q]
  BY <1>1 DEF DInv, Shapes
<1>5. \A q \in Pdf : NameShape(name'[q])
  BY <1>3, <1>4 DEF DInv, Shapes
<1>6. \A q \in Pdf : NameRight(q)'
  BY <1>1, <1>3, <1>4 DEF NameRight, DInv
<1>7. worker' = [v \in Worker |-> worker'[v]]
  BY <1>1 DEF DInv, Shapes
<1> QED BY <1>1, <1>4, <1>5, <1>6, <1>7, NameStep

\* The file is renamed on disk.
LEMMA RenameOK ==
  ASSUME DInv, NoneIsApart, NEW w \in Worker, Rename(w)
  PROVE  DInv'
<1> DEFINE me == worker[w]
           p == me.pdf
<1>1. /\ me.pc = "rename" /\ WorkerShape(me) /\ Knows(me) /\ p \in Pdf
      /\ UNCHANGED <<doc, evidence, mirror, remote, source, count>>
  BY DEF DInv, Knows, Rename, At, store
<1>2. CASE To(w, "twin") /\ name' = name
  <2> DEFINE n == [me EXCEPT !.pc = "twin"]
  <2>1. /\ WorkerShape(n) /\ n.pc = "twin" /\ n.run = me.run /\ n.flagged = me.flagged
        /\ n.pdf = me.pdf /\ n.bytes = me.bytes /\ n.raw = me.raw /\ n.key = me.key
    <3>1. "twin" \in Label
      BY DEF Label
    <3> QED BY <1>1, <3>1, Labelled
  <2>2. Goes(w, n)
    BY <1>2 DEF To
  <2> HIDE DEF n
  <2>3. Knows(n) /\ (n.run # None => n.flagged)
    BY <1>1, <2>1 DEF Knows, Delivering
  <2> QED BY <1>1, <1>2, <2>1, <2>2, <2>3, QuietTo DEF store, library
<1>3. CASE Goes(w, Ends(w, "error")) /\ name' = name
  BY <1>1, <1>3, EndsOK DEF store, library
<1>4. CASE /\ me.named # "new" /\ ~Moved(w) /\ To(w, "patch")
           /\ name' = [name EXCEPT ![p].disk = "new"]
  <2> DEFINE n == [me EXCEPT !.pc = "patch"]
             x == [name[p] EXCEPT !.disk = "new"]
  <2>1. /\ WorkerShape(n) /\ n.pc = "patch" /\ n.run = me.run /\ n.flagged = me.flagged
        /\ n.pdf = me.pdf /\ n.bytes = me.bytes /\ n.raw = me.raw /\ n.key = me.key
    <3>1. "patch" \in Label
      BY DEF Label
    <3> QED BY <1>1, <3>1, Labelled
  <2>2. Goes(w, n)
    BY <1>4 DEF To
  <2>3. name' = [name EXCEPT ![p] = x] /\ NameShape(name[p]) /\ name[p].disk # "new"
    BY <1>1, <1>4 DEF DInv, Shapes, Moved
  <2>4. /\ NameShape(x) /\ x.disk = "new" /\ x.web = name[p].web /\ x.torn = name[p].torn
        /\ name[p].disk = "old"
    BY <2>3 DEF NameShape
  <2> HIDE DEF n, x
  <2>5. Knows(n)
    BY <1>1, <2>1 DEF Knows, Delivering
  <2>6. /\ worker' = [v \in Worker |-> worker'[v]] /\ worker'[w] = n
        /\ \A v \in Worker : v # w => worker'[v] = worker[v]
    BY <2>2, GoesTo
  <2>7. /\ name' = [q \in Pdf |-> name'[q]] /\ name'[p] = x
        /\ \A q \in Pdf : q # p => name'[q] = name[q]
    BY <1>1, <2>3 DEF DInv, Shapes
  <2>8. \A q \in Pdf : NameShape(name'[q])
    BY <2>4, <2>7 DEF DInv, Shapes
  <2>9. RunKept(w)
    BY <1>1, <2>1, <2>6 DEF RunKept, Knows
  <2>10. ASSUME NEW q \in Pdf PROVE NameRight(q)'
    <3>1. NameRight(q)
      BY DEF DInv
    <3>2. CASE q # p
      <4>1. /\ worker'[w].pdf # q /\ worker[w].pdf # q /\ name'[q] = name[q]
        BY <2>1, <2>6, <2>7, <3>2
      <4> QED BY <2>6, <3>1, <4>1 DEF NameRight
    <3>3. CASE q = p
      <4>1. name[p].torn \/ /\ name[p].web = "old"
                            /\ \A v \in Worker : worker[v].pc = "patch" => worker[v].pdf # p
        BY <2>4, <3>1, <3>3 DEF NameRight
      <4>2. \A v \in Worker : v # w => worker'[v] = worker[v]
        BY <2>6
      <4> QED BY <2>1, <2>4, <2>6, <2>7, <3>3, <4>1, <4>2 DEF NameRight
    <3> QED BY <3>2, <3>3
  <2> QED BY <1>1, <2>1, <2>5, <2>6, <2>7, <2>8, <2>9, <2>10, NameStep
<1> QED BY <1>2, <1>3, <1>4 DEF Rename

\* Zotero is told of the new name, or the file is renamed back.
LEMMA PatchOK ==
  ASSUME DInv, NoneIsApart, NEW w \in Worker, Patch(w)
  PROVE  DInv'
<1> DEFINE me == worker[w]
           p == me.pdf
           back == [name[p] EXCEPT !.disk = "old"]
<1>1. /\ me.pc = "patch" /\ WorkerShape(me) /\ Knows(me) /\ p \in Pdf
      /\ UNCHANGED <<doc, evidence, mirror, remote, source>>
  BY DEF DInv, Knows, Patch, At, store
<1>2. NameShape(name[p]) /\ NameRight(p)
  BY <1>1 DEF DInv, Shapes
<1>3. /\ name[p].torn \/ (name[p].disk = "new" /\ name[p].web = "old")
      /\ name[p].torn \/ \A v \in Worker : worker[v].pc = "patch" /\ worker[v].pdf = p => v = w
  BY <1>1, <1>2 DEF NameRight
<1>4. ASSUME NEW n, NEW x, Goes(w, n), name' = [name EXCEPT ![p] = x], count' = count \/ Fault,
             WorkerShape(n), Knows(n), n.pc # "patch", n.run = me.run, n.flagged = me.flagged,
             NameShape(x), x.torn \/ (~name[p].torn /\ x.disk = x.web)
      PROVE  DInv'
  <2>1. /\ worker' = [v \in Worker |-> worker'[v]] /\ worker'[w] = n
        /\ \A v \in Worker : v # w => worker'[v] = worker[v]
    BY <1>4, GoesTo
  <2>2. /\ name' = [q \in Pdf |-> name'[q]] /\ name'[p] = x
        /\ \A q \in Pdf : q # p => name'[q] = name[q]
    BY <1>1, <1>4 DEF DInv, Shapes
  <2>3. \A q \in Pdf : NameShape(name'[q])
    BY <1>4, <2>2 DEF DInv, Shapes
  <2>4. RunKept(w)
    BY <1>1, <1>4, <2>1 DEF RunKept, Knows
  <2>5. ASSUME NEW q \in Pdf PROVE NameRight(q)'
    <3>1. NameRight(q)
      BY DEF DInv
    <3>2. CASE q # p
      <4>1. worker[w].pdf # q /\ name'[q] = name[q] /\ worker'[w].pc # "patch"
        BY <1>4, <2>1, <2>2, <3>2
      <4> QED BY <2>1, <3>1, <4>1 DEF NameRight
    <3>3. CASE q = p
      BY <1>3, <1>4, <2>1, <2>2, <3>3 DEF NameRight
    <3> QED BY <3>2, <3>3
  <2> QED BY <1>1, <1>4, <2>1, <2>2, <2>3, <2>4, <2>5, NameStep
<1>5. CASE /\ name' = [name EXCEPT ![p].web = "new"] /\ UNCHANGED count
           /\ Goes(w, [me EXCEPT !.pc = "twin", !.named = "new"])
  <2> DEFINE n == [me EXCEPT !.pc = "twin", !.named = "new"]
             x == [name[p] EXCEPT !.web = "new"]
  <2>1. WorkerShape(n) /\ n.pc = "twin" /\ n.run = me.run /\ n.flagged = me.flagged /\ n.pdf = p /\ n.bytes = me.bytes
    BY <1>1 DEF WorkerShape, Label
  <2>2. NameShape(x) /\ x.torn = name[p].torn /\ x.web = "new" /\ x.disk = name[p].disk
    BY <1>2 DEF NameShape
  <2>3. x.torn \/ (~name[p].torn /\ x.disk = x.web)
    BY <1>2, <1>3, <2>2 DEF NameShape
  <2>4. Goes(w, n) /\ name' = [name EXCEPT ![p] = x]
    BY <1>5
  <2> HIDE DEF n, x
  <2>5. Knows(n)
    BY <1>1, <2>1 DEF Knows, Delivering
  <2>6. n.pc # "patch"
    BY <2>1
  <2> QED BY <1>4, <1>5, <2>1, <2>2, <2>3, <2>4, <2>5, <2>6
<1>6. CASE /\ Fault /\ Goes(w, Ends(w, "error"))
           /\ \/ name' = [name EXCEPT ![p] = back]
              \/ name' = [name EXCEPT ![p] = [back EXCEPT !.web = "new", !.torn = TRUE]]
  <2> DEFINE n == Ends(w, "error")
             y == [back EXCEPT !.web = "new", !.torn = TRUE]
  <2>1. WorkerShape(n) /\ Knows(n) /\ n.pc = "finish" /\ n.run = me.run /\ n.flagged = me.flagged
    BY <1>1, Ended
  <2>2. /\ NameShape(back) /\ back.torn = name[p].torn /\ back.web = name[p].web /\ back.disk = "old"
        /\ NameShape(y) /\ y.torn
    BY <1>2 DEF NameShape
  <2>3. back.torn \/ (~name[p].torn /\ back.disk = back.web)
    BY <1>2, <1>3, <2>2 DEF NameShape
  <2>4. Goes(w, n)
    BY <1>6
  <2>5. name' = [name EXCEPT ![p] = back] \/ name' = [name EXCEPT ![p] = y]
    BY <1>6
  <2> HIDE DEF n, back, y
  <2>6. n.pc # "patch"
    BY <2>1
  <2> QED BY <1>4, <1>6, <2>1, <2>2, <2>3, <2>4, <2>5, <2>6
<1> QED BY <1>5, <1>6 DEF Patch

-----------------------------------------------------------------------------
(* Conversions: made, committed, cleaned up, bound.                        *)

\* A conversion gets a number and a directory of its own.
LEMMA CreateRunOK ==
  ASSUME DInv, NoneIsApart, NEW w \in Worker, CreateRun(w)
  PROVE  DInv'
<1> DEFINE me == worker[w]
           r == count.run + 1
           p == me.pdf
           n == [me EXCEPT !.pc = "commit", !.bytes = source[me.pdf], !.run = r,
                           !.full = me.mode # "pages"]
<1>1. /\ me.pc = "twin" /\ WorkerShape(me) /\ Knows(me) /\ UNCHANGED <<store, library>>
      /\ p \in Pdf /\ source[p] \in Content
  BY DEF DInv, Knows, Shapes, CreateRun, At
<1>2. CASE r \notin Run
  BY <1>1, <1>2, EndsOK DEF CreateRun
<1>3. CASE r \in Run
  <2>1. Bump("run") /\ Goes(w, n)
    BY <1>3 DEF CreateRun
  <2>2. count.run \in Nat /\ count.child \in Nat
    BY Assumed DEF DInv, Shapes
  <2>3. /\ count' \in [run : 0 .. RunBound, child : 0 .. ChildBound, fault : 0 .. FaultBound]
        /\ count'.run = r /\ count'.child = count.child
    <3>1. count \in [run : 0 .. RunBound, child : 0 .. ChildBound, fault : 0 .. FaultBound]
      BY DEF DInv, Shapes
    <3>2. r \in 0 .. RunBound
      BY <1>3, Assumed DEF Run
    <3>3. count' = [count EXCEPT !.run = r]
      BY <2>1 DEF Bump
    <3> HIDE DEF r
    <3> QED BY <3>1, <3>2, <3>3
  <2>4. Begun' = Begun \cup {r} /\ r \notin Begun /\ Born' = Born
    BY <1>3, <2>2, <2>3, Assumed DEF Begun, Born, Run
  <2>5. r # None
    BY <1>3, Assumed
  <2> HIDE DEF r
  <2>6. n \in [pc : Label, mode : {n.mode}, todo : SUBSET Pdf, pdf : {n.pdf}, named : {n.named},
               bytes : {n.bytes}, run : {r}, full : BOOLEAN, flagged : BOOLEAN,
               raw : {n.raw}, key : {n.key}, result : {n.result}]
        /\ n.pc = "commit" /\ n.run = r /\ n.pdf = p /\ n.bytes = source[p]
    BY <1>1 DEF WorkerShape, Label
  <2> HIDE DEF n
  <2>7. /\ worker' = [v \in Worker |-> worker'[v]] /\ worker'[w] = n
        /\ \A v \in Worker : v # w => worker'[v] = worker[v]
    BY <2>1, GoesTo
  <2>8. WorkerShape(worker[w])'
    BY <2>4, <2>6, <2>7 DEF WorkerShape
  <2>9. Knows(worker[w])'
    BY <1>1, <2>5, <2>6, <2>7 DEF Knows, Delivering
  <2>10. /\ doc' = doc /\ evidence' = evidence /\ mirror' = mirror
         /\ remote' = remote /\ source' = source /\ name' = name
    BY <1>1 DEF store, library
  <2>11. Shapes'
    <3>1. Shapes BY DEF DInv
    <3> QED BY <2>3, <2>7, <2>10, <3>1 DEF Shapes, NameShape
  <2>12. Later
    BY <2>2, <2>3, <2>10 DEF Later, r
  <2>13. \A v \in Worker : WorkerShape(worker[v])' /\ Knows(worker[v])'
    <3>1. count'.run \in Nat /\ count'.child \in Nat
      BY <2>2, <2>3 DEF r
    <3> QED BY <2>7, <2>8, <2>9, <2>12, <3>1, KnowsStays
  <2>14. \A q \in Pdf, d \in Content : evidence'[q][d] = None \/ EvidenceRight(q, d)'
    <3>1. count'.run \in Nat /\ count'.child \in Nat
      BY <2>2, <2>3 DEF r
    <3> QED BY <2>10, <2>12, <3>1, EvidenceStays
  <2>15. RunsApart'
    <3>1. \A v \in Worker : worker[v].run \in Begun \cup {None}
      BY DEF DInv, WorkerShape
    <3> QED BY <2>4, <2>5, <2>6, <2>7, <3>1 DEF RunsApart, DInv
  <2>16. RunsOwned'
    <3>1. \A q \in Pdf, d \in Content : evidence[q][d] # None => evidence[q][d].run \in Begun
      BY DEF DInv, EvidenceRight
    <3> QED BY <2>4, <2>6, <2>7, <2>10, <3>1 DEF RunsOwned, DInv
  <2>17. CompletedIsBound' /\ EvidenceIsKept'
    BY <2>10 DEF DInv, CompletedIsBound, EvidenceIsKept
  <2>18. \A q \in Pdf : NameRight(q)'
    <3>1. NotRenaming(w)
      BY <1>1, <2>6, <2>7 DEF NotRenaming
    <3> QED BY <2>7, <2>10, <3>1, NamesStay
  <2>19. \A k \in Child : k \notin Born' => remote'[k] = None
    BY <2>4, <2>10 DEF DInv
  <2> QED BY <2>11, <2>13, <2>14, <2>15, <2>16, <2>17, <2>18, <2>19 DEF DInv
<1> QED BY <1>2, <1>3

\* commit_conversion_evidence.
LEMMA CommitOK ==
  ASSUME DInv, NoneIsApart, NEW w \in Worker, Commit(w)
  PROVE  DInv'
<1> DEFINE me == worker[w]
           p == me.pdf
           c == me.bytes
           x == Converted(w)
           n == [me EXCEPT !.pc = "flag"]
           refused == Moved(w) \/ source[p] # c \/ LiveUpload(evidence[p][c])
<1>1. /\ me.pc = "commit" /\ WorkerShape(me) /\ Knows(me) /\ UNCHANGED <<library, count>>
      /\ p \in Pdf /\ c \in Content /\ me.run # None /\ me.run \in Begun
  BY DEF DInv, Knows, Commit, At, WorkerShape
<1>2. CASE refused
  <2>1. Goes(w, Ends(w, "error")) /\ UNCHANGED store
    BY <1>2 DEF Commit
  <2> QED BY <1>1, <2>1, EndsOK
<1>3. CASE ~refused
  <2> DEFINE status == CoverageStatus(me.full, FALSE)
             json == Json(x)
  <2>1. /\ SetsCell(evidence', evidence, p, c, x) /\ mirror' = [mirror EXCEPT ![me.run] = json]
        /\ Upsert(p, c, status) /\ Goes(w, n)
    BY <1>3 DEF Commit, SetsCell, To
  <2>2. status # "completed"
    BY <1>1 DEF CoverageStatus, WorkerShape
  <2>3. /\ x \in EvidenceRecord /\ EvidenceOK(x) /\ x.run = me.run /\ x.key = None /\ x.pending = None
        /\ json \in JsonRecord
    BY <1>1, Assumed DEF Converted, EvidenceRecord, EvidenceOK, JsonRecord, Json, Begun, WorkerShape
  <2>4. x # None /\ json # None
    BY <2>3 DEF NoneIsApart
  <2>5. /\ WorkerShape(n) /\ n.pc = "flag" /\ n.run = me.run /\ n.flagged = me.flagged
        /\ n.pdf = p /\ n.bytes = c /\ n.raw = me.raw /\ n.key = me.key
    <3>1. "flag" \in Label
      BY DEF Label
    <3> QED BY <1>1, <3>1, Labelled
  <2> HIDE DEF x, json, status, n, refused
  <2>6. Knows(n)
    BY <1>1, <2>5 DEF Knows, Delivering
  <2>7. /\ worker' = [v \in Worker |-> worker'[v]] /\ worker'[w] = n
        /\ \A v \in Worker : v # w => worker'[v] = worker[v]
    BY <2>1, GoesTo
  <2>8. /\ evidence' = [q \in Pdf |-> [d \in Content |-> evidence'[q][d]]]
        /\ evidence'[p][c] = x
        /\ \A q \in Pdf, d \in Content : q # p \/ d # c => evidence'[q][d] = evidence[q][d]
    BY <1>1, <2>1, RowSet
  <2>9. /\ doc' = [q \in Pdf |-> [d \in Content |-> doc'[q][d]]]
        /\ \A q \in Pdf, d \in Content :
             doc'[q][d] = [status |-> doc'[q][d].status, key |-> doc'[q][d].key]
        /\ doc'[p][c] = [status |-> status, key |-> None]
        /\ \A q \in Pdf, d \in Content : q # p \/ d # c => doc'[q][d] = doc[q][d]
    BY <1>1, <2>1, Upserted
  <2>10. /\ mirror' = [r \in Run |-> mirror'[r]] /\ mirror'[me.run] = json
         /\ \A r \in Run : r # me.run => mirror'[r] = mirror[r]
    BY <1>1, <2>1 DEF DInv, Shapes, Begun
  <2>11. remote' = remote /\ source' = source /\ name' = name /\ count' = count
    BY <1>1 DEF library
  <2>12. Shapes'
    <3>1. Shapes BY DEF DInv
    <3> QED BY <2>7, <2>8, <2>9, <2>10, <2>11, <3>1 DEF Shapes, NameShape
  <2>13. count'.run \in Nat /\ count'.child \in Nat /\ Born' = Born /\ Begun' = Begun
    BY <2>11, Assumed DEF DInv, Shapes, Born, Begun
  <2>14. Later
    BY <2>4, <2>8, <2>11, <2>13 DEF Later
  <2>15. ASSUME NEW v \in Worker PROVE WorkerShape(worker[v])' /\ Knows(worker[v])'
    <3>1. CASE v # w
      BY <2>7, <2>13, <2>14, <3>1, KnowsStays
    <3>2. CASE v = w
      <4>1. WorkerShape(worker[w])'
        BY <2>5, <2>7, <2>13 DEF WorkerShape
      <4>2. Knows(worker[w])'
        BY <2>5, <2>6, <2>7 DEF Knows, Delivering
      <4> QED BY <3>2, <4>1, <4>2
    <3> QED BY <3>1, <3>2
  <2>16. ASSUME NEW q \in Pdf, NEW d \in Content
         PROVE  evidence'[q][d] = None \/ EvidenceRight(q, d)'
    <3>1. CASE q # p \/ d # c
      BY <2>8, <2>13, <2>14, <3>1, EvidenceStays
    <3>2. CASE q = p /\ d = c
      <4>1. x.run \in Begun'
        BY <1>1, <2>3, <2>13
      <4> QED BY <2>3, <2>8, <3>2, <4>1 DEF EvidenceRight, EvidenceOK
    <3> QED BY <3>1, <3>2
  <2>17. RunsApart'
    BY <2>5, <2>7 DEF DInv, RunsApart
  <2>18. RunsOwned'
    <3> SUFFICES ASSUME NEW v \in Worker, NEW q \in Pdf, NEW d \in Content,
                        evidence'[q][d] # None, worker'[v].run # None, ~worker'[v].flagged,
                        evidence'[q][d].run = worker'[v].run
                 PROVE  q = worker'[v].pdf /\ d = worker'[v].bytes
      BY DEF RunsOwned
    <3>1. /\ worker'[v].run = worker[v].run /\ worker'[v].flagged = worker[v].flagged
          /\ worker'[v].pdf = worker[v].pdf /\ worker'[v].bytes = worker[v].bytes
      BY <2>5, <2>7
    <3>2. CASE q # p \/ d # c
      BY <2>8, <3>1, <3>2 DEF DInv, RunsOwned
    <3>3. CASE q = p /\ d = c
      <4>1. worker[v].run = me.run
        BY <2>3, <2>8, <3>1, <3>3
      <4>2. v = w
        BY <1>1, <4>1 DEF DInv, RunsApart
      <4> QED BY <3>1, <3>3, <4>2
    <3> QED BY <3>2, <3>3
  <2>19. CompletedIsBound'
    BY <2>2, <2>8, <2>9 DEF DInv, CompletedIsBound
  <2>20. EvidenceIsKept'
    <3> SUFFICES ASSUME NEW q \in Pdf, NEW d \in Content, evidence'[q][d] # None
                 PROVE  mirror'[evidence'[q][d].run] # None
      BY DEF EvidenceIsKept
    <3>1. CASE q # p \/ d # c
      <4>1. evidence'[q][d] = evidence[q][d] /\ evidence[q][d].run \in Run
            /\ mirror[evidence[q][d].run] # None
        BY <2>8, <3>1 DEF DInv, EvidenceIsKept, EvidenceRight, EvidenceOK
      <4> QED BY <2>4, <2>10, <4>1
    <3>2. CASE q = p /\ d = c
      BY <2>3, <2>4, <2>8, <2>10, <3>2
    <3> QED BY <3>1, <3>2
  <2>21. \A q \in Pdf : NameRight(q)'
    <3>1. NotRenaming(w)
      BY <1>1, <2>5, <2>7 DEF NotRenaming
    <3> QED BY <2>7, <2>11, <3>1, NamesStay
  <2>22. \A k \in Child : k \notin Born' => remote'[k] = None
    BY <2>11, <2>13 DEF DInv
  <2> QED BY <2>12, <2>15, <2>16, <2>17, <2>18, <2>19, <2>20, <2>21, <2>22 DEF DInv
<1> QED BY <1>2, <1>3

\* The cleanup removes the directory of no committed conversion.
LEMMA CleanedKept ==
  ASSUME DInv, NEW w \in Worker, worker[w].pdf \in Pdf, worker[w].bytes \in Content,
         mirror' = Cleaned(w)
  PROVE  /\ mirror' = [r \in Run |-> mirror'[r]]
         /\ \A p \in Pdf, c \in Content :
              evidence[p][c] # None => mirror'[evidence[p][c].run] # None
<1> DEFINE me == worker[w]
           e == evidence[me.pdf][me.bytes]
<1>1. mirror = [r \in Run |-> mirror[r]]
  BY DEF DInv, Shapes
<1>2. \A p \in Pdf, c \in Content : evidence[p][c] # None =>
        evidence[p][c].run \in Run /\ mirror[evidence[p][c].run] # None
  BY DEF DInv, EvidenceIsKept, EvidenceRight, EvidenceOK
<1>3. CASE me.run = None \/ me.flagged \/ (e # None /\ e.run = me.run)
  <2>1. mirror' = mirror
    BY <1>3 DEF Cleaned
  <2> QED BY <1>1, <1>2, <2>1
<1>4. CASE ~(me.run = None \/ me.flagged \/ (e # None /\ e.run = me.run))
  <2>1. mirror' = [mirror EXCEPT ![me.run] = None]
    BY <1>4 DEF Cleaned
  <2>2. \A p \in Pdf, c \in Content : evidence[p][c] # None => evidence[p][c].run # me.run
    BY <1>4 DEF DInv, RunsOwned
  <2>3. me.run \in Run
    BY <1>4 DEF DInv, WorkerShape, Begun
  <2> HIDE DEF me
  <2>4. mirror' = [r \in Run |-> mirror'[r]] /\ \A r \in Run : r # me.run => mirror'[r] = mirror[r]
    BY <1>1, <2>1, <2>3
  <2> QED BY <1>2, <2>2, <2>4
<1> QED BY <1>3, <1>4

\* The finally clauses and the handlers of main.
LEMMA FinishOK ==
  ASSUME DInv, NoneIsApart, NEW w \in Worker, Finish(w)
  PROVE  DInv'
<1> DEFINE me == worker[w]
           p == me.pdf
           e == evidence[p][source[p]]
           todo == IF me.result = "partial_budget_exhausted" THEN {} ELSE me.todo
           n == IF Emits(w) THEN [me EXCEPT !.pc = "emit", !.raw = Json(e)] ELSE Onward(w, todo)
<1>1. /\ me.pc = "finish" /\ WorkerShape(me) /\ Knows(me) /\ UNCHANGED <<evidence, library, count>>
      /\ p \in Pdf /\ me.bytes \in Content /\ source[p] \in Content
      /\ mirror' = Cleaned(w) /\ Goes(w, n)
  BY DEF DInv, Knows, Shapes, Finish, At
<1>2. remote' = remote /\ source' = source /\ name' = name /\ count' = count /\ evidence' = evidence
  BY <1>1 DEF library
<1>3. /\ doc' = [q \in Pdf |-> [d \in Content |-> doc'[q][d]]]
      /\ \A q \in Pdf, d \in Content :
           /\ doc'[q][d] = [status |-> doc'[q][d].status, key |-> doc'[q][d].key]
           /\ doc'[q][d].status = "completed" => doc'[q][d] = doc[q][d]
  <2>1. CASE doc' = doc
    BY <2>1 DEF DInv, Shapes
  <2>2. CASE Upsert(p, source[p], "error")
    <3> DEFINE c == source[p]
    <3>1. c \in Content /\ Upsert(p, c, "error")
      BY <1>1, <2>2
    <3> HIDE DEF c
    <3>2. /\ doc' = [q \in Pdf |-> [d \in Content |-> doc'[q][d]]]
          /\ \A q \in Pdf, d \in Content :
               doc'[q][d] = [status |-> doc'[q][d].status, key |-> doc'[q][d].key]
          /\ doc'[p][c] = [status |-> "error", key |-> None]
          /\ \A q \in Pdf, d \in Content : q # p \/ d # c => doc'[q][d] = doc[q][d]
      BY <1>1, <3>1, Upserted
    <3> QED BY <3>2
  <2> QED BY <2>1, <2>2 DEF Finish
<1>4. /\ mirror' = [r \in Run |-> mirror'[r]]
      /\ \A q \in Pdf, c \in Content :
           evidence[q][c] # None => mirror'[evidence[q][c].run] # None
  BY <1>1, CleanedKept
<1>5. /\ WorkerShape(n) /\ Knows(n) /\ n.pc # "patch"
      /\ n.run # None => n.run = me.run /\ n.flagged = me.flagged /\ n.pdf = me.pdf /\ n.bytes = me.bytes
  <2>1. CASE Emits(w)
    <3>1. /\ Verdict(p) = "accepted" /\ e.key # None
      BY <2>1 DEF Emits
    <3>2. e # None /\ e \in EvidenceRecord /\ EvidenceRight(p, source[p])
      BY <1>1, <3>1, Accepted
    <3> DEFINE json == Json(e)
               m == [me EXCEPT !.pc = "emit", !.raw = json]
    <3>3. json \in JsonRecord /\ json.key = e.key /\ json.run = e.run
      BY <3>2, JsonFacts
    <3>4. HoldsText(e.key, e.run)
      BY <3>1, <3>2 DEF EvidenceRight
    <3>5. n = m
      BY <2>1
    <3> HIDE DEF json, n
    <3>6. /\ WorkerShape(m) /\ m.pc = "emit" /\ m.run = me.run /\ m.flagged = me.flagged
          /\ m.pdf = me.pdf /\ m.bytes = me.bytes /\ m.raw = json
      BY <1>1 DEF WorkerShape, Label
    <3> HIDE DEF m
    <3>7. Knows(m)
      BY <1>1, <3>1, <3>3, <3>4, <3>6 DEF Knows, Delivering
    <3> QED BY <3>5, <3>6, <3>7
  <2>2. CASE ~Emits(w)
    <3>1. todo \in SUBSET Pdf
      BY <1>1 DEF WorkerShape
    <3>2. n = Onward(w, todo)
      BY <2>2
    <3> HIDE DEF todo, n
    <3>3. LET m == Onward(w, todo) IN
          WorkerShape(m) /\ Knows(m) /\ m.run = None /\ m.pc \in {"idle", "pick"}
      BY <3>1, Onwards
    <3> QED BY <3>2, <3>3
  <2> QED BY <2>1, <2>2
<1> HIDE DEF n
<1>6. /\ worker' = [v \in Worker |-> worker'[v]] /\ worker'[w] = n
      /\ \A v \in Worker : v # w => worker'[v] = worker[v]
  BY <1>1, GoesTo
<1>7. Shapes'
  <2>1. Shapes BY DEF DInv
  <2> QED BY <1>2, <1>3, <1>4, <1>6, <2>1 DEF Shapes, NameShape
<1>8. Born' = Born /\ Begun' = Begun /\ Grows
  BY <1>2, Assumed DEF Born, Begun, Grows, DInv, Shapes
<1>9. WorkerStep(w)
  <2>1. WorkerShape(worker[w])' /\ Knows(worker[w])'
    BY <1>2, <1>5, <1>6, <1>8 DEF WorkerShape, Knows, ChildOf, HoldsText
  <2>2. RunKept(w) /\ NotRenaming(w)
    BY <1>1, <1>5, <1>6 DEF RunKept, NotRenaming
  <2> QED BY <2>1, <2>2 DEF WorkerStep
<1>10. \A v \in Worker : WorkerStep(v)
  BY <1>6, <1>9 DEF WorkerStep
<1>11. RowsKept
  BY <1>3, <1>4 DEF RowsKept
<1>12. \A q \in Pdf, d \in Content : RowStep(q, d)
  BY <1>2 DEF RowStep
<1>13. \A k \in Child : k \notin Born' => remote'[k] = None
  BY <1>2, <1>8 DEF DInv
<1> QED BY <1>2, <1>7, <1>8, <1>10, <1>11, <1>12, <1>13, Composed

\* What may be bound is the evidence that was read before the upload.
LEMMA Bindable ==
  ASSUME DInv, NEW w \in Worker, worker[w].pc = "bind", MayBind(w)
  PROVE  LET me == worker[w]  e == Row(w) IN
         /\ me.pdf \in Pdf /\ me.bytes \in Content /\ e = evidence[me.pdf][me.bytes] /\ e # None
         /\ e \in EvidenceRecord /\ EvidenceOK(e) /\ e.run \in Begun /\ e.run = me.raw.run
         /\ e.full = me.raw.full /\ me.raw \in JsonRecord
         /\ me.key \in Child /\ Bound(w) \in JsonRecord
         /\ ChildOf(me.key, me.pdf) /\ HoldsText(me.key, e.run)
<1> DEFINE me == worker[w]
           e == Row(w)
<1>1. /\ me.pdf \in Pdf /\ me.bytes \in Content /\ e = evidence[me.pdf][me.bytes] /\ e # None
      /\ e \in EvidenceRecord /\ EvidenceOK(e) /\ EvidenceRight(me.pdf, me.bytes)
  BY RowOf DEF Delivering
<1>2. e.run \in Begun
  BY <1>1 DEF EvidenceRight
<1>3. Json(e) = me.raw
  BY DEF MayBind
<1>4. e.run = me.raw.run /\ e.full = me.raw.full /\ me.raw \in JsonRecord
  BY <1>1, <1>3, JsonFacts
<1>5. ChildOf(me.key, me.pdf) /\ HoldsText(me.key, me.raw.run)
  BY DEF DInv, Knows
<1>6. me.key \in Child
  BY <1>5 DEF ChildOf, Born
<1>7. Bound(w) \in JsonRecord
  BY <1>4, <1>6 DEF Bound, JsonRecord
<1> QED BY <1>1, <1>2, <1>4, <1>5, <1>6, <1>7

\* bind_markdown_attachment: the row becomes completed and the evidence bound in one step.
LEMMA BindOK ==
  ASSUME DInv, NoneIsApart, NEW w \in Worker, Bind(w)
  PROVE  DInv'
<1> DEFINE me == worker[w]
           p == me.pdf
           c == me.bytes
           e == Row(w)
           status == CoverageStatus(me.raw.full, TRUE)
           x == [e EXCEPT !.key = me.key, !.state = "uploaded", !.pending = None,
                          !.owner = None, !.live = FALSE]
           json == Bound(w)
           y == [status |-> status, key |-> me.key]
<1>1. me.pc = "bind" /\ UNCHANGED <<library, count>>
  BY DEF Bind, At
<1>2. CASE ~MayBind(w)
  <2>1. Goes(w, Ends(w, "error")) /\ UNCHANGED store
    BY <1>2 DEF Bind
  <2> QED BY <1>1, <2>1, EndsOK
<1>3. CASE MayBind(w)
  <2>1. /\ SetRow(w, x) /\ mirror' = [mirror EXCEPT ![e.run] = json]
        /\ SetsCell(doc', doc, p, c, y) /\ Goes(w, Ends(w, status))
    BY <1>3 DEF Bind, SetsCell
  <2>2. /\ p \in Pdf /\ c \in Content /\ e = evidence[p][c] /\ e # None
        /\ e \in EvidenceRecord /\ EvidenceOK(e) /\ e.run \in Begun /\ e.run = me.raw.run
        /\ e.full = me.raw.full /\ me.raw \in JsonRecord
        /\ me.key \in Child /\ json \in JsonRecord
        /\ ChildOf(me.key, p) /\ HoldsText(me.key, e.run)
    BY <1>1, <1>3, Bindable
  <2>3. status = "completed" => e.full
    BY <2>2 DEF CoverageStatus, JsonRecord
  <2>4. y.status = status /\ y.key = me.key /\ y = [status |-> y.status, key |-> y.key]
    OBVIOUS
  <2>5. /\ worker' = [v \in Worker |-> worker'[v]] /\ \A v \in Worker : WorkerStep(v)
        /\ remote' = remote /\ source' = source /\ name' = name /\ count' = count
        /\ count'.run \in Nat /\ count'.child \in Nat /\ Born' = Born /\ Begun' = Begun
    <3>1. remote' = remote /\ source' = source /\ name' = name /\ count' = count
      BY <1>1 DEF library
    <3>2. count.run \in Nat /\ count.child \in Nat /\ Born' = Born /\ Begun' = Begun
      BY <3>1, Assumed DEF DInv, Shapes, Born, Begun
    <3>3. count.run <= count'.run /\ count'.run \in Nat
      BY <3>1, <3>2
    <3>4. me.pc \notin {"idle", "pick", "patch"}
      BY <1>1
    <3> HIDE DEF status
    <3>5. worker' = [v \in Worker |-> worker'[v]] /\ \A v \in Worker : WorkerStep(v)
      BY <2>1, <3>3, <3>4, EndsStep
    <3> QED BY <3>1, <3>2, <3>5
  <2> HIDE DEF e
  <2>6. /\ x \in EvidenceRecord /\ EvidenceOK(x) /\ x.run = e.run /\ x.key = me.key
        /\ x.pending = None /\ x.state = "uploaded" /\ x.full = e.full
    BY <2>2, Assumed DEF EvidenceRecord, EvidenceOK
  <2>7. x # None /\ json # None
    BY <2>2, <2>6 DEF NoneIsApart
  <2> HIDE DEF x, json, status, y
  <2>8. /\ evidence' = [q \in Pdf |-> [d \in Content |-> evidence'[q][d]]]
        /\ evidence'[p][c] = x
        /\ \A q \in Pdf, d \in Content : q # p \/ d # c => evidence'[q][d] = evidence[q][d]
    BY <1>1, <2>1, Written DEF Delivering
  <2>9. /\ doc' = [q \in Pdf |-> [d \in Content |-> doc'[q][d]]]
        /\ doc'[p][c] = y
        /\ \A q \in Pdf, d \in Content : q # p \/ d # c => doc'[q][d] = doc[q][d]
    <3>1. IsTable(doc)
      BY DEF DInv, Shapes, IsTable
    <3>2. IsTable(doc') => doc' = [q \in Pdf |-> [d \in Content |-> doc'[q][d]]]
      BY DEF IsTable
    <3>3. SetsCell(doc', doc, p, c, y) /\ p \in Pdf /\ c \in Content
      BY <2>1, <2>2
    <3> HIDE DEF p, c
    <3>4. /\ IsTable(doc') /\ doc'[p][c] = y
          /\ \A q \in Pdf, d \in Content : q # p \/ d # c => doc'[q][d] = doc[q][d]
      BY <3>1, <3>3, Cell
    <3> QED BY <3>2, <3>4
  <2>10. \A q \in Pdf, d \in Content :
           doc'[q][d] = [status |-> doc'[q][d].status, key |-> doc'[q][d].key]
    <3>1. \A q \in Pdf, d \in Content :
            doc[q][d] = [status |-> doc[q][d].status, key |-> doc[q][d].key]
      BY DEF DInv, Shapes
    <3> SUFFICES ASSUME NEW q \in Pdf, NEW d \in Content
                 PROVE  doc'[q][d] = [status |-> doc'[q][d].status, key |-> doc'[q][d].key]
      OBVIOUS
    <3>2. CASE q = p /\ d = c
      BY <2>4, <2>9, <3>2
    <3>3. CASE q # p \/ d # c
      BY <2>9, <3>1, <3>3
    <3> QED BY <3>2, <3>3
  <2>11. /\ mirror' = [r \in Run |-> mirror'[r]] /\ mirror'[e.run] = json
         /\ \A r \in Run : r # e.run => mirror'[r] = mirror[r]
    BY <2>1, <2>2 DEF DInv, Shapes, Begun
  <2>12. Shapes'
    <3>1. Shapes BY DEF DInv
    <3> QED BY <2>5, <2>8, <2>9, <2>10, <2>11, <3>1 DEF Shapes, NameShape
  <2>13. SameRuns
    BY <2>2, <2>6, <2>8 DEF SameRuns
  <2>14. Later
    BY <2>5, <2>7, <2>8 DEF Later
  <2>15. \A v \in Worker : WorkerShape(worker[v])' /\ Knows(worker[v])'
    BY <2>5, <2>14, KnowsStays DEF WorkerStep
  <2>16. ASSUME NEW q \in Pdf, NEW d \in Content
         PROVE  evidence'[q][d] = None \/ EvidenceRight(q, d)'
    <3>1. CASE q # p \/ d # c
      BY <2>5, <2>8, <2>14, <3>1, EvidenceStays
    <3>2. CASE q = p /\ d = c
      <4> DEFINE k == me.key
      <4>1. x.run \in Begun' /\ k \in Born' /\ x.key = k /\ x.pending = None
        BY <2>2, <2>5, <2>6 DEF ChildOf
      <4>2. remote'[k] # None => remote'[k].pdf = p /\ remote'[k].file = x.run
        BY <2>2, <2>5, <2>6 DEF ChildOf, HoldsText
      <4>3. evidence'[q][d] = x /\ q = p
        BY <2>8, <3>2
      <4> HIDE DEF k, p
      <4> QED BY <2>6, <4>1, <4>2, <4>3 DEF EvidenceRight, EvidenceOK, ChildOf, HoldsText
    <3> QED BY <3>1, <3>2
  <2>17. RunsApart' /\ RunsOwned'
    BY <2>5, <2>13, RunsStay DEF WorkerStep
  <2>18. CompletedIsBound'
    <3> SUFFICES ASSUME NEW q \in Pdf, NEW d \in Content, doc'[q][d].status = "completed"
                 PROVE  /\ evidence'[q][d] # None /\ evidence'[q][d].state = "uploaded"
                        /\ evidence'[q][d].full /\ evidence'[q][d].key = doc'[q][d].key
      BY DEF CompletedIsBound
    <3>1. CASE q # p \/ d # c
      BY <2>8, <2>9, <3>1 DEF DInv, CompletedIsBound
    <3>2. CASE q = p /\ d = c
      <4>1. evidence'[q][d] = x /\ doc'[q][d] = y
        BY <2>8, <2>9, <3>2
      <4>2. x.full
        BY <2>3, <2>4, <2>6, <4>1
      <4> QED BY <2>4, <2>6, <2>7, <4>1, <4>2
    <3> QED BY <3>1, <3>2
  <2>19. EvidenceIsKept'
    <3> SUFFICES ASSUME NEW q \in Pdf, NEW d \in Content, evidence'[q][d] # None
                 PROVE  mirror'[evidence'[q][d].run] # None
      BY DEF EvidenceIsKept
    <3>1. evidence[q][d] # None /\ evidence'[q][d].run = evidence[q][d].run
      BY <2>13 DEF SameRuns
    <3>2. evidence[q][d].run \in Run /\ mirror[evidence[q][d].run] # None
      BY <3>1 DEF DInv, EvidenceIsKept, EvidenceRight, EvidenceOK
    <3> QED BY <2>7, <2>11, <3>1, <3>2
  <2>20. \A q \in Pdf : NameRight(q)'
    BY <2>5, NamesStay DEF WorkerStep
  <2>21. \A k \in Child : k \notin Born' => remote'[k] = None
    BY <2>5 DEF DInv
  <2> QED BY <2>12, <2>15, <2>16, <2>17, <2>18, <2>19, <2>20, <2>21 DEF DInv
<1> QED BY <1>2, <1>3

\* A worker is killed, also between the mirror file and the commit of a binding.
LEMMA KillOK ==
  ASSUME DInv, NoneIsApart, NEW w \in Worker, Kill(w)
  PROVE  DInv'
<1> DEFINE me == worker[w]
           p == me.pdf
<1>1. /\ Fault /\ Goes(w, Idle) /\ UNCHANGED <<doc, evidence, remote, source>>
      /\ me.pc # "idle" /\ Knows(me)
  BY DEF DInv, Kill, At
<1>2. WorkerShape(Idle) /\ Knows(Idle) /\ Idle.pc = "idle" /\ Idle.run = None
  BY DEF WorkerShape, Knows, Idle, Label, Delivering
<1>3. /\ worker' = [v \in Worker |-> worker'[v]] /\ worker'[w] = Idle
      /\ \A v \in Worker : v # w => worker'[v] = worker[v]
  BY <1>1, GoesTo
<1>4. /\ count' \in [run : 0 .. RunBound, child : 0 .. ChildBound, fault : 0 .. FaultBound]
      /\ count'.run = count.run /\ count'.child = count.child
  BY <1>1, Counted DEF DInv, Shapes
<1>5. RunKept(w)
  BY <1>2, <1>3 DEF RunKept
<1>6. CASE me.pc = "patch"
  <2> DEFINE x == [name[p] EXCEPT !.torn = TRUE]
  <2>1. mirror' = mirror /\ name' = [name EXCEPT ![p] = x] /\ p \in Pdf
    BY <1>1, <1>6 DEF Kill, At, Knows
  <2>2. NameShape(name[p])
    BY <2>1 DEF DInv, Shapes
  <2>3. NameShape(x) /\ x.torn
    BY <2>2 DEF NameShape
  <2> HIDE DEF x
  <2>4. /\ name' = [q \in Pdf |-> name'[q]] /\ name'[p] = x
        /\ \A q \in Pdf : q # p => name'[q] = name[q]
    BY <2>1 DEF DInv, Shapes
  <2>5. \A q \in Pdf : NameShape(name'[q])
    BY <2>3, <2>4 DEF DInv, Shapes
  <2>6. ASSUME NEW q \in Pdf PROVE NameRight(q)'
    <3>1. NameRight(q)
      BY DEF DInv
    <3>2. CASE q # p
      <4>1. worker[w].pdf # q /\ name'[q] = name[q] /\ worker'[w].pc # "patch"
        BY <1>2, <1>3, <2>4, <3>2
      <4> QED BY <1>3, <3>1, <4>1 DEF NameRight
    <3>3. CASE q = p
      BY <2>3, <2>4, <3>3 DEF NameRight
    <3> QED BY <3>2, <3>3
  <2> QED BY <1>1, <1>2, <1>3, <1>5, <2>1, <2>4, <2>5, <2>6, NameStep
<1>7. CASE me.pc # "patch"
  <2>1. name' = name
    BY <1>7 DEF Kill, At
  <2>2. /\ mirror' = [r \in Run |-> mirror'[r]]
        /\ \A r \in Run : mirror[r] # None => mirror'[r] # None
    <3>1. CASE mirror' = mirror
      BY <3>1 DEF DInv, Shapes
    <3>2. CASE At(w, "bind") /\ MayBind(w) /\ mirror' = [mirror EXCEPT ![Row(w).run] = Bound(w)]
      <4>1. Bound(w) \in JsonRecord /\ Row(w).run \in Begun
        BY <3>2, Bindable DEF At
      <4> DEFINE r == Row(w).run
                 json == Bound(w)
      <4>2. r \in Run /\ json # None /\ mirror' = [mirror EXCEPT ![r] = json]
        BY <3>2, <4>1 DEF NoneIsApart, Begun
      <4> HIDE DEF r, json
      <4> QED BY <4>2 DEF DInv, Shapes
    <3> QED BY <3>1, <3>2 DEF Kill
  <2>3. Shapes'
    <3>1. Shapes BY DEF DInv
    <3> QED BY <1>1, <1>3, <1>4, <2>1, <2>2, <3>1 DEF Shapes, NameShape
  <2>4. Grows /\ Born' = Born /\ Begun' = Begun
    BY <1>1, <1>4, Assumed DEF Grows, Born, Begun, DInv, Shapes
  <2>5. RowsKept
    BY <1>1, <2>2 DEF RowsKept, DInv, EvidenceIsKept, EvidenceRight, EvidenceOK
  <2>6. WorkerStep(w)
    <3>1. WorkerShape(worker[w])'
      BY <1>2, <1>3, <2>4 DEF WorkerShape
    <3>2. Knows(worker[w])'
      BY <1>2, <1>3 DEF Knows, Delivering
    <3>3. NotRenaming(w)
      BY <1>2, <1>3, <1>7 DEF NotRenaming
    <3> QED BY <1>5, <3>1, <3>2, <3>3 DEF WorkerStep
  <2>7. \A v \in Worker : WorkerStep(v)
    BY <1>3, <2>6 DEF WorkerStep
  <2>8. \A q \in Pdf, d \in Content : RowStep(q, d)
    BY <1>1 DEF RowStep
  <2>9. \A k \in Child : k \notin Born' => remote'[k] = None
    BY <1>1, <2>4 DEF DInv
  <2> QED BY <2>1, <2>3, <2>4, <2>5, <2>7, <2>8, <2>9, Composed
<1> QED BY <1>6, <1>7

-----------------------------------------------------------------------------
(* The invariant holds.                                                    *)

\* The invariant holds at first.
LEMMA InitOK == ASSUME Init PROVE DInv
<1>1. source \in [Pdf -> Content] /\ Source0 \in [Pdf -> Content]
  BY DeliveryAssumption DEF Init
<1>2. doc = [p \in Pdf |-> [c \in Content |-> doc[p][c]]]
  BY DEF Init
<1>3. \A p \in Pdf, c \in Content :
        /\ doc[p][c] = [status |-> doc[p][c].status, key |-> doc[p][c].key]
        /\ doc[p][c].status # "completed"
  BY DEF Init, NoRow
<1>4. evidence = [p \in Pdf |-> [c \in Content |-> evidence[p][c]]]
      /\ \A p \in Pdf, c \in Content : evidence[p][c] = None
  BY DEF Init
<1>5. \A w \in Worker : worker[w] = Idle
  BY DEF Init
<1>6. WorkerShape(Idle) /\ Knows(Idle) /\ Idle.pc = "idle" /\ Idle.run = None
  BY DEF WorkerShape, Knows, Idle, Label, Delivering
<1>7. count \in [run : 0 .. RunBound, child : 0 .. ChildBound, fault : 0 .. FaultBound]
  BY Assumed DEF Init
<1>8. \A p \in Pdf : NameShape(name[p]) /\ name[p].disk = name[p].web
  BY DEF Init, NameShape
<1>9. /\ mirror = [r \in Run |-> mirror[r]] /\ remote \in [Child -> ChildRecord \cup {None}]
      /\ \A k \in Child : remote[k] = None
      /\ name = [p \in Pdf |-> name[p]] /\ worker = [w \in Worker |-> worker[w]]
  BY DEF Init
<1>10. Shapes
  BY <1>1, <1>2, <1>3, <1>4, <1>7, <1>8, <1>9 DEF Shapes
<1>11. \A p \in Pdf : NameRight(p)
  BY <1>5, <1>6, <1>8 DEF NameRight
<1>12. RunsApart /\ RunsOwned /\ EvidenceIsKept /\ CompletedIsBound
  BY <1>3, <1>4, <1>5, <1>6 DEF RunsApart, RunsOwned, EvidenceIsKept, CompletedIsBound
<1> QED BY <1>4, <1>5, <1>6, <1>9, <1>10, <1>11, <1>12 DEF DInv

\* It does not depend on what is not in the variables.
LEMMA StutterOK == ASSUME DInv, UNCHANGED vars PROVE DInv'
<1>1. /\ doc' = doc /\ evidence' = evidence /\ mirror' = mirror /\ remote' = remote
      /\ source' = source /\ name' = name /\ worker' = worker /\ count' = count
  BY DEF vars, store, library
<1>2. Born' = Born /\ Begun' = Begun
  BY <1>1 DEF Born, Begun
<1>3. Shapes'
  BY <1>1 DEF DInv, Shapes, NameShape
<1>4. Later
  BY <1>1, Assumed DEF Later, DInv, Shapes
<1>5. count'.run \in Nat /\ count'.child \in Nat
  BY <1>1, Assumed DEF DInv, Shapes
<1>6. \A v \in Worker : WorkerShape(worker[v])' /\ Knows(worker[v])'
  BY <1>1, <1>4, <1>5, KnowsStays
<1>7. \A p \in Pdf, c \in Content : evidence'[p][c] = None \/ EvidenceRight(p, c)'
  BY <1>1, <1>4, <1>5, EvidenceStays
<1>8. RunsApart' /\ RunsOwned' /\ EvidenceIsKept' /\ CompletedIsBound'
  BY <1>1 DEF DInv, RunsApart, RunsOwned, EvidenceIsKept, CompletedIsBound
<1>9. \A p \in Pdf : NameRight(p)'
  BY <1>1 DEF DInv, NameRight
<1>10. \A k \in Child : k \notin Born' => remote'[k] = None
  BY <1>1, <1>2 DEF DInv
<1> QED BY <1>3, <1>6, <1>7, <1>8, <1>9, <1>10 DEF DInv

\* Every step keeps it.
LEMMA NextOK == ASSUME DInv, NoneIsApart, Next PROVE DInv'
<1>1. ASSUME NEW w \in Worker, Steps(w) PROVE DInv'
  BY <1>1, PassOverOK, PickOK, FileMovedOK, RenameOK, PatchOK, SkipTwinOK, CreateRunOK, CommitOK,
     FlagOK, ReconcileOK, VerifyOK, CompareOK, ClaimOK, MatchOK, DiscoverOK, CreateOK,
     RecordPendingOK, PutOK, BindOK, FinishOK, EmitOK DEF Steps
<1>2. ASSUME NEW w \in Worker,
             StartWorker(w) \/ NeedsMineru(w) \/ UnknownRoute(w) \/ ConversionStops(w)
               \/ RequestFails(w) \/ Kill(w) \/ Interrupt(w)
      PROVE  DInv'
  BY <1>2, StartWorkerOK, NeedsMineruOK, UnknownRouteOK, ConversionStopsOK, RequestFailsOK,
     KillOK, InterruptOK
<1>3. ASSUME NEW p \in Pdf \ Gone, Sync(p) \/ ReplaceSource(p) PROVE DInv'
  BY <1>3, SyncOK, ReplaceSourceOK
<1>4. ASSUME NEW p \in Pdf, NEW c \in Content, Expire(p, c) PROVE DInv'
  BY <1>4, ExpireOK
<1>5. ASSUME NEW k \in Child, DeleteChild(k) PROVE DInv'
  BY <1>5, DeleteChildOK
<1> QED BY <1>1, <1>2, <1>3, <1>4, <1>5 DEF Next

\* The inductive invariant.
THEOREM DInvHolds == ASSUME NoneIsApart PROVE Spec => []DInv
<1>1. DInv /\ [Next]_vars => DInv'
  BY NextOK, StutterOK
<1> QED BY <1>1, InitOK, PTL DEF Spec

\* What outlives a worker is in order, for any number of workers, kills, failed requests
\* and edits: rows, the directories they name (cleanup_uncommitted) and the names of files
\* (normalize_source_pdf_attachment_name).
THEOREM DeliveryStaysOrderly == ASSUME NoneIsApart PROVE Spec => []DeliveryIsOrderly
<1>1. DInv => DeliveryIsOrderly
  <2> SUFFICES ASSUME DInv PROVE DeliveryIsOrderly
    OBVIOUS
  <2>1. TypeOK
    BY Assumed DEF DInv, Shapes, TypeOK, EvidenceRight
  <2>2. RenameIsUndone
    <3>1. \A p \in Pdf : NameRight(p)
      BY DEF DInv
    <3> QED BY <3>1 DEF RenameIsUndone, NameRight, At
  <2> QED BY <2>1, <2>2 DEF DInv, DeliveryIsOrderly
<1> QED BY <1>1, DInvHolds, PTL

\* Completed means delivered, whoever converted, claimed, uploaded or died in between:
\* the row, the evidence (bind_markdown_attachment), the child and what is printed for
\* the launcher (emit_attachment_evidence) agree.
THEOREM CompletedStaysDelivered == ASSUME NoneIsApart PROVE Spec => []CompletedIsDelivered
<1>1. DInv => CompletedIsDelivered
  <2> SUFFICES ASSUME DInv PROVE CompletedIsDelivered
    OBVIOUS
  <2>1. BoundChildHoldsIt
    BY DEF DInv, BoundChildHoldsIt, EvidenceRight, ChildOf, HoldsText, Matches
  <2>2. EmittedIsDelivered
    BY DEF DInv, EmittedIsDelivered, Knows, HoldsText, Matches, At
  <2> QED BY <2>1, <2>2 DEF DInv, CompletedIsDelivered
<1> QED BY <1>1, DInvHolds, PTL

-----------------------------------------------------------------------------
(* Who writes the evidence.                                                *)

\* No other worker moves.
Only(w) == \A v \in Worker : v # w => worker'[v] = worker[v]

\* A worker goes where it goes, and no other moves.
LEMMA OnlyOne ==
  ASSUME DInv, NEW w \in Worker, NEW n, Goes(w, n)
  PROVE  Only(w) /\ worker'[w] = n
BY GoesTo DEF Only

\* A worker that ends an attachment is at its finally clauses.
LEMMA EndsAt ==
  ASSUME DInv, NEW w \in Worker, NEW result, Goes(w, Ends(w, result))
  PROVE  Only(w) /\ worker'[w].pc = "finish"
<1>1. Ends(w, result).pc = "finish"
  BY DEF DInv, WorkerShape, Ends
<1> QED BY <1>1, OnlyOne

\* A worker writes the row it delivers, which it owns.
LEMMA OwnWrite ==
  ASSUME DInv, NEW w \in Worker, worker[w].pc \in Delivering, NEW x, SetRow(w, x), Row(w).owner = w,
         worker'[w].pc # worker[w].pc,
         NEW p \in Pdf, NEW c \in Content, evidence'[p][c] # evidence[p][c]
  PROVE  LET o == evidence[p][c].owner IN worker[o].pc \in Delivering /\ worker'[o] # worker[o]
<1>1. p = worker[w].pdf /\ c = worker[w].bytes
  BY Written
<1>2. evidence[p][c].owner = w
  BY <1>1 DEF Row
<1> QED BY <1>2

\* A worker that gives an upload back owned it.
LEMMA GiverOwns ==
  ASSUME DInv, NEW w \in Worker, worker[w].pc \in Delivering, NEW mismatch \in BOOLEAN, GiveUp(w, mismatch),
         NEW p \in Pdf, NEW c \in Content, evidence'[p][c] # evidence[p][c]
  PROVE  LET o == evidence[p][c].owner IN worker[o].pc \in Delivering /\ worker'[o] # worker[o]
<1>1. worker'[w].pc = "finish"
  BY EndsAt DEF GiveUp
<1>2. worker'[w].pc # worker[w].pc
  BY <1>1 DEF Delivering
<1>3. PICK x : SetRow(w, x) /\ Row(w).owner = w
  BY DEF GiveUp
<1> QED BY <1>2, <1>3, OwnWrite

\* The steps that leave the evidence alone.
Still(w) ==
  \/ StartWorker(w) \/ PassOver(w) \/ Pick(w) \/ FileMoved(w) \/ Rename(w) \/ Patch(w)
  \/ SkipTwin(w) \/ CreateRun(w) \/ Flag(w) \/ Reconcile(w) \/ Verify(w) \/ Compare(w)
  \/ Finish(w) \/ Emit(w) \/ NeedsMineru(w) \/ UnknownRoute(w) \/ ConversionStops(w)
  \/ Kill(w) \/ Interrupt(w)

\* They leave the library's children alone as well.
LEMMA StillEvidence ==
  ASSUME NEW w, Still(w)
  PROVE  evidence' = evidence /\ remote' = remote
<1>1. StartWorker(w) \/ PassOver(w) \/ Pick(w) \/ FileMoved(w) => evidence' = evidence /\ remote' = remote
  BY DEF StartWorker, PassOver, Pick, FileMoved, Reads, store, library
<1>2. Rename(w) \/ Patch(w) \/ SkipTwin(w) \/ CreateRun(w) => evidence' = evidence /\ remote' = remote
  BY DEF Rename, Patch, SkipTwin, CreateRun, store, library
<1>3. Flag(w) \/ Reconcile(w) \/ Verify(w) \/ Compare(w) => evidence' = evidence /\ remote' = remote
  BY DEF Flag, Reconcile, Verify, Compare, Reads, store, library
<1>4. Finish(w) \/ Emit(w) \/ NeedsMineru(w) \/ UnknownRoute(w) => evidence' = evidence /\ remote' = remote
  BY DEF Finish, Emit, NeedsMineru, UnknownRoute, Reads, store, library
<1>5. ConversionStops(w) \/ Kill(w) \/ Interrupt(w) => evidence' = evidence /\ remote' = remote
  BY DEF ConversionStops, Kill, Interrupt, store, library
<1> QED BY <1>1, <1>2, <1>3, <1>4, <1>5 DEF Still

\* The steps of a delivery.
Sends(w) ==
  Claim(w) \/ RequestFails(w) \/ Match(w) \/ Discover(w) \/ Create(w) \/ RecordPending(w) \/ Put(w) \/ Bind(w)

\* Every step is one of these.
LEMMA Kinds ==
  ASSUME Next
  PROVE  \/ \E w \in Worker : Still(w) \/ Commit(w) \/ Sends(w)
         \/ \E p \in Pdf \ Gone : Sync(p) \/ ReplaceSource(p)
         \/ \E p \in Pdf, c \in Content : Expire(p, c)
         \/ \E k \in Child : DeleteChild(k)
BY DEF Next, Steps, Still, Sends

\* A delivery changes a live upload only if it is its own.
LEMMA SendsOwn ==
  ASSUME DInv, NoneIsApart, NEW w \in Worker, Sends(w), NEW p \in Pdf, NEW c \in Content,
         LiveUpload(evidence[p][c]), evidence'[p][c] # evidence[p][c]
  PROVE  LET o == evidence[p][c].owner IN worker[o].pc \in Delivering /\ worker'[o] # worker[o]
<1>1. CASE Claim(w)
  <2> DEFINE e == Row(w)
             x == [e EXCEPT !.state = "uploading", !.owner = w, !.live = TRUE]
  <2>1. worker[w].pc = "claim"
    BY <1>1 DEF Claim, At
  <2>2. /\ e.state \in {"local", "retryable"} \/ (e.state = "uploading" /\ ~e.live)
        /\ SetRow(w, x)
    BY <1>1 DEF Claim
  <2> HIDE DEF x
  <2>3. p = worker[w].pdf /\ c = worker[w].bytes
    BY <2>1, <2>2, Written
  <2> QED BY <2>2, <2>3 DEF Row, LiveUpload
<1>2. CASE RequestFails(w)
  BY <1>2, GiverOwns DEF RequestFails, Delivering
<1>3. CASE Match(w)
  <2>1. GiveUp(w, TRUE) /\ worker[w].pc = "match"
    BY <1>3 DEF Match, At
  <2> QED BY <2>1, GiverOwns DEF Delivering
<1>4. CASE Discover(w)
  <2>1. GiveUp(w, FALSE) /\ worker[w].pc = "discover"
    BY <1>4 DEF Discover, At
  <2> QED BY <2>1, GiverOwns DEF Delivering
<1>5. CASE Create(w)
  <2>1. GiveUp(w, FALSE) /\ worker[w].pc = "create"
    BY <1>5 DEF Create, At
  <2> QED BY <2>1, GiverOwns DEF Delivering
<1>6. CASE RecordPending(w)
  <2>1. worker[w].pc = "keep" /\ WorkerShape(worker[w])
    BY <1>6 DEF RecordPending, At, DInv
  <2>2. CASE GiveUp(w, FALSE)
    BY <2>1, <2>2, GiverOwns DEF Delivering
  <2>3. CASE ~GiveUp(w, FALSE)
    <3> DEFINE x == [Row(w) EXCEPT !.pending = worker[w].key]
    <3>1. Row(w).owner = w /\ SetRow(w, x) /\ To(w, "put")
      BY <1>6, <2>3 DEF RecordPending
    <3> DEFINE n == [worker[w] EXCEPT !.pc = "put"]
    <3>3. n.pc = "put" /\ Goes(w, n)
      BY <2>1, <3>1 DEF To, WorkerShape
    <3> HIDE DEF x, n
    <3>2. worker'[w].pc = "put"
      BY <3>3, OnlyOne
    <3> QED BY <2>1, <3>1, <3>2, OwnWrite DEF Delivering
  <2> QED BY <2>2, <2>3
<1>7. CASE Put(w)
  <2>1. GiveUp(w, FALSE) /\ worker[w].pc = "put"
    BY <1>7 DEF Put, At
  <2> QED BY <2>1, GiverOwns DEF Delivering
<1>8. CASE Bind(w)
  <2>1. worker[w].pc = "bind"
    BY <1>8 DEF Bind, At
  <2>2. MayBind(w)
    BY <1>8 DEF Bind, store
  <2>3. Row(w).owner = w
    BY <2>2 DEF MayBind
  <2>4. PICK result : Goes(w, Ends(w, result))
    BY <1>8, <2>2 DEF Bind
  <2>5. PICK x : SetRow(w, x)
    BY <1>8, <2>2 DEF Bind
  <2>6. worker'[w].pc = "finish"
    BY <2>4, EndsAt
  <2> QED BY <2>1, <2>3, <2>5, <2>6, OwnWrite DEF Delivering
<1> QED BY <1>1, <1>2, <1>3, <1>4, <1>5, <1>6, <1>7, <1>8 DEF Sends

\* A conversion is not committed over a live upload.
LEMMA CommitOwn ==
  ASSUME DInv, NEW w \in Worker, Commit(w), NEW p \in Pdf, NEW c \in Content,
         LiveUpload(evidence[p][c])
  PROVE  evidence'[p][c] = evidence[p][c]
<1> DEFINE me == worker[w]
<1>1. me.pdf \in Pdf /\ me.bytes \in Content
  BY DEF DInv, Knows, Commit, At
<1>2. CASE LiveUpload(evidence[me.pdf][me.bytes])
  BY <1>2 DEF Commit, store
<1>3. CASE ~LiveUpload(evidence[me.pdf][me.bytes])
  <2> DEFINE x == Converted(w)
             q == me.pdf
             d == me.bytes
  <2>1. UNCHANGED store \/ SetsCell(evidence', evidence, q, d, x)
    BY DEF Commit, SetsCell
  <2>2. q \in Pdf /\ d \in Content /\ (p # q \/ c # d)
    BY <1>1, <1>3
  <2> HIDE DEF x, q, d
  <2> QED BY <2>1, <2>2, RowSet DEF store
<1> QED BY <1>2, <1>3

\* A live upload is let alone by all but its owner and the clock.
LEMMA OnlyTheOwner ==
  ASSUME DInv, NoneIsApart, Next, NEW p \in Pdf, NEW c \in Content,
         LiveUpload(evidence[p][c]), evidence'[p][c] # evidence[p][c]
  PROVE  \/ Expire(p, c) /\ evidence'[p][c] = [evidence[p][c] EXCEPT !.live = FALSE]
         \/ LET o == evidence[p][c].owner IN worker[o].pc \in Delivering /\ worker'[o] # worker[o]
<1>1. CASE \E w \in Worker : Still(w) \/ Commit(w) \/ Sends(w)
  BY <1>1, StillEvidence, CommitOwn, SendsOwn
<1>2. CASE \E q \in Pdf \ Gone : Sync(q) \/ ReplaceSource(q)
  BY <1>2 DEF Sync, ReplaceSource, store
<1>3. ASSUME NEW q \in Pdf, NEW d \in Content, Expire(q, d)
      PROVE  Expire(p, c) /\ evidence'[p][c] = [evidence[p][c] EXCEPT !.live = FALSE]
  <2> DEFINE x == [evidence[q][d] EXCEPT !.live = FALSE]
  <2>1. SetsCell(evidence', evidence, q, d, x)
    BY <1>3 DEF Expire, SetsCell
  <2> HIDE DEF x
  <2>2. q = p /\ d = c /\ evidence'[p][c] = x
    BY <2>1, RowSet
  <2> QED BY <1>3, <2>2 DEF x
<1>4. CASE \E k \in Child : DeleteChild(k)
  BY <1>4 DEF DeleteChild, store
<1> QED BY <1>1, <1>2, <1>3, <1>4, Kinds

\* Evidence under a live lease changes by its owner's hand only, whoever commits, claims or
\* gives up beside it (claim_upload, commit_conversion_evidence, record_delivery_error).
THEOREM LeaseStaysRespected == ASSUME NoneIsApart PROVE Spec => LeaseIsRespected
<1> DEFINE Respected ==
      \A p \in Pdf, c \in Content :
        LET e == evidence[p][c] IN
        LiveUpload(e) /\ evidence'[p][c] # e =>
          \/ evidence'[p][c] = [e EXCEPT !.live = FALSE]
          \/ worker[e.owner].pc \in Delivering /\ worker'[e.owner] # worker[e.owner]
<1>1. DInv /\ [Next]_vars => [Respected]_vars
  BY OnlyTheOwner
<1> QED BY <1>1, DInvHolds, PTL DEF Spec, LeaseIsRespected

-----------------------------------------------------------------------------
(* Requests that end before their leases.                                  *)

\* A worker that ends a step outside a delivery.
Away(w) == Only(w) /\ worker'[w].pc \notin Delivering

\* The end of an attachment is outside a delivery.
LEMMA EndsAway ==
  ASSUME DInv, NEW w \in Worker, NEW result, Goes(w, Ends(w, result))
  PROVE  Away(w)
BY EndsAt DEF Away, Delivering

\* So is every label that is not one of a delivery,
LEMMA GoesAway ==
  ASSUME DInv, NEW w \in Worker, NEW n, Goes(w, n), n.pc \notin Delivering
  PROVE  Away(w)
BY OnlyOne DEF Away

\* also when only the label changes,
LEMMA LabelledAway ==
  ASSUME DInv, NEW w \in Worker, NEW pc \in Label \ Delivering, To(w, pc)
  PROVE  Away(w)
<1> DEFINE n == [worker[w] EXCEPT !.pc = pc]
<1>1. n.pc = pc /\ Goes(w, n)
  BY DEF To, DInv, WorkerShape
<1> HIDE DEF n
<1> QED BY <1>1, GoesAway

\* or when the worker turns to its next attachment.
LEMMA OnwardAway ==
  ASSUME DInv, NEW w \in Worker, NEW todo \in SUBSET Pdf, Goes(w, Onward(w, todo))
  PROVE  Away(w)
<1>1. Onward(w, todo).pc \in {"idle", "pick"}
  BY Onwards
<1> QED BY <1>1, GoesAway DEF Delivering

\* The steps that leave the evidence alone end outside a delivery.
LEMMA StillAway ==
  ASSUME DInv, NEW w \in Worker, Still(w)
  PROVE  Away(w)
<1> DEFINE me == worker[w]
<1>1. WorkerShape(me)
  BY DEF DInv
<1>2. CASE StartWorker(w)
  <2>1. PICK mode, todo : Goes(w, [Idle EXCEPT !.pc = "pick", !.mode = mode, !.todo = todo])
    BY <1>2 DEF StartWorker
  <2> DEFINE n == [Idle EXCEPT !.pc = "pick", !.mode = mode, !.todo = todo]
  <2>2. n.pc = "pick" /\ Goes(w, n)
    BY <2>1 DEF Idle
  <2> HIDE DEF n
  <2> QED BY <2>2, GoesAway DEF Delivering
<1>3. CASE PassOver(w)
  <2>1. PICK p \in me.todo : Goes(w, Onward(w, me.todo \ {p}))
    BY <1>3 DEF PassOver
  <2>2. me.todo \ {p} \in SUBSET Pdf
    BY <1>1 DEF WorkerShape
  <2> QED BY <2>1, <2>2, OnwardAway
<1>4. CASE Pick(w)
  <2>1. PICK n : Goes(w, n) /\ n.pc \in {"reconcile", "twin", "rename", "finish"}
    BY <1>4, Picked
  <2> QED BY <2>1, GoesAway DEF Delivering
<1>5. CASE FileMoved(w) \/ SkipTwin(w) \/ NeedsMineru(w) \/ UnknownRoute(w) \/ ConversionStops(w)
             \/ Compare(w)
  BY <1>5, EndsAway DEF FileMoved, SkipTwin, NeedsMineru, UnknownRoute, ConversionStops, Compare
<1>6. CASE Rename(w)
  BY <1>6, EndsAway, LabelledAway DEF Rename, Label, Delivering
<1>7. CASE Patch(w)
  <2> DEFINE n == [me EXCEPT !.pc = "twin", !.named = "new"]
  <2>1. n.pc = "twin"
    BY <1>1 DEF WorkerShape
  <2>2. Goes(w, n) \/ Goes(w, Ends(w, "error"))
    BY <1>7 DEF Patch
  <2> HIDE DEF n
  <2> QED BY <2>1, <2>2, GoesAway, EndsAway DEF Delivering
<1>8. CASE CreateRun(w)
  <2> DEFINE n == [me EXCEPT !.pc = "commit", !.bytes = source[me.pdf], !.run = count.run + 1,
                             !.full = me.mode # "pages"]
  <2>1. n.pc = "commit"
    BY <1>1 DEF WorkerShape
  <2>2. Goes(w, n) \/ Goes(w, Ends(w, "error"))
    BY <1>8 DEF CreateRun
  <2> HIDE DEF n
  <2> QED BY <2>1, <2>2, GoesAway, EndsAway DEF Delivering
<1>9. CASE Flag(w)
  <2> DEFINE local == me.mode = "local"
             n == [me EXCEPT !.flagged = TRUE, !.pc = IF local THEN "finish" ELSE "reconcile",
                             !.result = CoverageStatus(me.full, ~local)]
  <2>1. n.pc \in {"finish", "reconcile"}
    BY <1>1 DEF WorkerShape
  <2>2. Goes(w, n)
    BY <1>9 DEF Flag
  <2> HIDE DEF n
  <2> QED BY <2>1, <2>2, GoesAway DEF Delivering
<1>10. CASE Reconcile(w)
  <2> DEFINE e == evidence[me.pdf][source[me.pdf]]
             n == [me EXCEPT !.raw = Json(e), !.bytes = source[me.pdf], !.key = e.key,
                             !.pc = IF e.key # None THEN "compare" ELSE "claim"]
  <2>1. n.pc \in {"compare", "claim"}
    BY <1>1 DEF WorkerShape
  <2>2. Goes(w, n) \/ Goes(w, Ends(w, "blocked"))
    BY <1>10 DEF Reconcile
  <2> HIDE DEF n
  <2> QED BY <2>1, <2>2, GoesAway, EndsAway DEF Delivering
<1>11. CASE Verify(w)
  <2> DEFINE e == evidence[me.pdf][source[me.pdf]]
             n == [me EXCEPT !.raw = Json(e), !.key = e.key, !.pc = "compare"]
  <2>1. n.pc = "compare"
    BY <1>1 DEF WorkerShape
  <2>2. Goes(w, n) \/ Goes(w, Ends(w, "blocked"))
    BY <1>11 DEF Verify
  <2> HIDE DEF n
  <2> QED BY <2>1, <2>2, GoesAway, EndsAway DEF Delivering
<1>12. CASE Finish(w)
  <2> DEFINE todo == IF me.result = "partial_budget_exhausted" THEN {} ELSE me.todo
             n == [me EXCEPT !.pc = "emit", !.raw = Json(evidence[me.pdf][source[me.pdf]])]
  <2>1. todo \in SUBSET Pdf /\ n.pc = "emit"
    BY <1>1 DEF WorkerShape
  <2>2. Goes(w, IF Emits(w) THEN n ELSE Onward(w, todo))
    BY <1>12 DEF Finish
  <2> HIDE DEF n, todo
  <2> QED BY <2>1, <2>2, GoesAway, OnwardAway DEF Delivering
<1>13. CASE Emit(w)
  <2>1. me.todo \in SUBSET Pdf
    BY <1>1 DEF WorkerShape
  <2> QED BY <1>13, <2>1, OnwardAway DEF Emit
<1>14. CASE Kill(w)
  <2>1. Idle.pc = "idle"
    BY DEF Idle
  <2> QED BY <1>14, <2>1, GoesAway DEF Kill, Delivering
<1>15. CASE Interrupt(w)
  <2> DEFINE m == Ends(w, "interrupted")
             n == [m EXCEPT !.todo = {}]
  <2>1. n.pc = "finish"
    BY <1>1 DEF WorkerShape, Ends
  <2>2. Goes(w, n)
    BY <1>15 DEF Interrupt
  <2> HIDE DEF n
  <2> QED BY <2>1, <2>2, GoesAway DEF Delivering
<1> QED BY <1>2, <1>3, <1>4, <1>5, <1>6, <1>7, <1>8, <1>9, <1>10, <1>11, <1>12, <1>13, <1>14, <1>15
     DEF Still

\* A conversion is committed outside a delivery.
LEMMA CommitAway ==
  ASSUME DInv, NEW w \in Worker, Commit(w)
  PROVE  Away(w)
BY EndsAway, LabelledAway DEF Commit, Label, Delivering

\* Evidence that w holds.
Holds(w, e) == e # None /\ e.state = "uploading" /\ e.owner = w /\ e.live

\* A worker that goes on with a delivery still holds its row; it creates a child only when
\* it has just seen none.
GoesOn(w) ==
  LET p == worker[w].pdf  c == worker[w].bytes IN
  /\ worker'[w].pdf = p /\ worker'[w].bytes = c /\ Holds(w, evidence'[p][c])
  /\ worker'[w].pc = "create" => Provenance(p) = {} /\ remote' = remote

\* A delivering worker that goes on holds its row.
LEMMA SendsGoOn ==
  ASSUME DInv, Leases, NoneIsApart, DInv', NEW w \in Worker, Sends(w)
  PROVE  Only(w) /\ (worker'[w].pc \in Delivering => GoesOn(w))
<1> DEFINE me == worker[w]
           p == me.pdf
           c == me.bytes
           e == Row(w)
<1>1. WorkerShape(me) /\ Knows(me)
  BY DEF DInv
<1>2. me.pc \in {"claim"} \cup Delivering
  BY DEF Sends, Claim, RequestFails, Match, Discover, Create, RecordPending, Put, Bind, At, Delivering
<1>3. /\ p \in Pdf /\ c \in Content /\ e = evidence[p][c] /\ e # None
      /\ e \in EvidenceRecord
  BY <1>2, RowOf
<1>4. me.pc \in Delivering => Holds(w, evidence[p][c])
  BY <1>3 DEF Leases, Holds
<1>5. ASSUME NEW mismatch \in BOOLEAN, GiveUp(w, mismatch)
      PROVE  Only(w) /\ worker'[w].pc \notin Delivering
  BY <1>5, EndsAway DEF GiveUp, Away
<1>6. ASSUME NEW pc \in Label, To(w, pc), me.pc \in Delivering, evidence' = evidence,
             pc = "create" => Provenance(p) = {} /\ remote' = remote
      PROVE  Only(w) /\ GoesOn(w)
  <2> DEFINE n == [me EXCEPT !.pc = pc]
  <2>1. n.pc = pc /\ n.pdf = p /\ n.bytes = c
    BY <1>1 DEF WorkerShape
  <2>2. Goes(w, n)
    BY <1>6 DEF To
  <2> HIDE DEF n
  <2>3. Only(w) /\ worker'[w] = n
    BY <2>2, OnlyOne
  <2>4. Holds(w, evidence[p][c])
    BY <1>4, <1>6
  <2> QED BY <1>6, <2>1, <2>3, <2>4 DEF GoesOn, Holds
<1>7. CASE Claim(w)
  <2> DEFINE x == [e EXCEPT !.state = "uploading", !.owner = w, !.live = TRUE]
             n == [me EXCEPT !.pc = IF e.pending # None THEN "match" ELSE "discover", !.key = e.pending]
  <2>1. CASE Goes(w, Ends(w, "error"))
    BY <2>1, EndsAway DEF Away
  <2>2. CASE SetRow(w, x) /\ Goes(w, n)
    <3>1. n.pdf = p /\ n.bytes = c /\ n.pc \in {"match", "discover"}
      BY <1>1 DEF WorkerShape
    <3>2. x.state = "uploading" /\ x.owner = w /\ x.live /\ x \in EvidenceRecord
      <4> HIDE DEF e
      <4> QED BY <1>3 DEF EvidenceRecord
    <3> HIDE DEF x, n
    <3>3. evidence'[p][c] = x
      BY <1>2, <2>2, Written
    <3>4. Only(w) /\ worker'[w] = n
      BY <2>2, OnlyOne
    <3>5. x # None
      BY <3>2 DEF NoneIsApart
    <3> HIDE DEF p, c
    <3>6. Holds(w, evidence'[p][c])
      BY <3>2, <3>3, <3>5 DEF Holds
    <3> QED BY <3>1, <3>4, <3>6 DEF GoesOn, p, c
  <2> QED BY <1>7, <2>1, <2>2 DEF Claim
<1>8. CASE RequestFails(w)
  BY <1>5, <1>8 DEF RequestFails
<1>9. CASE Match(w)
  <2>1. me.pc \in Delivering
    BY <1>9 DEF Match, At, Delivering
  <2> QED BY <1>5, <1>6, <1>9, <2>1 DEF Match, Label
<1>10. CASE Discover(w)
  <2>1. me.pc \in Delivering
    BY <1>10 DEF Discover, At, Delivering
  <2>2. CASE GiveUp(w, FALSE)
    BY <1>5, <2>2
  <2>3. CASE Provenance(p) = {} /\ To(w, "create") /\ evidence' = evidence
    <3>1. remote' = remote
      BY <1>10 DEF Discover, library
    <3> QED BY <1>6, <2>1, <2>3, <3>1 DEF Label
  <2>4. CASE Goes(w, [me EXCEPT !.pc = "keep", !.key = CHOOSE k \in Provenance(p) : TRUE]) /\ evidence' = evidence
    <3> DEFINE k == CHOOSE k \in Provenance(p) : TRUE
               n == [me EXCEPT !.pc = "keep", !.key = k]
    <3>1. Goes(w, n)
      BY <2>4
    <3> HIDE DEF k
    <3>2. n.pc = "keep" /\ n.pdf = p /\ n.bytes = c
      BY <1>1 DEF WorkerShape
    <3> HIDE DEF n
    <3>3. Only(w) /\ worker'[w] = n
      BY <3>1, OnlyOne
    <3> QED BY <1>4, <2>1, <2>4, <3>2, <3>3 DEF GoesOn, Holds
  <2> QED BY <1>10, <2>2, <2>3, <2>4 DEF Discover
<1>11. CASE Create(w)
  <2> DEFINE n == [me EXCEPT !.pc = "keep", !.key = count.child + 1]
  <2>1. me.pc \in Delivering
    BY <1>11 DEF Create, At, Delivering
  <2>2. CASE GiveUp(w, FALSE)
    BY <1>5, <2>2
  <2>3. CASE evidence' = evidence /\ Goes(w, n)
    <3>1. n.pc = "keep" /\ n.pdf = p /\ n.bytes = c
      BY <1>1 DEF WorkerShape
    <3> HIDE DEF n
    <3>2. Only(w) /\ worker'[w] = n
      BY <2>3, OnlyOne
    <3> QED BY <1>4, <2>1, <2>3, <3>1, <3>2 DEF GoesOn, Holds
  <2> QED BY <1>11, <2>2, <2>3 DEF Create
<1>12. CASE RecordPending(w)
  <2> DEFINE x == [e EXCEPT !.pending = me.key]
             n == [me EXCEPT !.pc = "put"]
  <2>1. me.pc \in Delivering
    BY <1>12 DEF RecordPending, At, Delivering
  <2>2. CASE GiveUp(w, FALSE)
    BY <1>5, <2>2
  <2>3. CASE SetRow(w, x) /\ Goes(w, n)
    <3>1. n.pc = "put" /\ n.pdf = p /\ n.bytes = c
      BY <1>1 DEF WorkerShape
    <3>2. e.state = "uploading" /\ e.owner = w /\ e.live
      BY <1>3, <1>4, <2>1 DEF Holds
    <3>3. x.state = "uploading" /\ x.owner = w /\ x.live /\ x.run = e.run
      <4> HIDE DEF e
      <4> QED BY <1>3, <3>2 DEF EvidenceRecord
    <3> HIDE DEF x, n
    <3>4. evidence'[p][c] = x
      BY <1>2, <2>3, Written
    <3>5. Only(w) /\ worker'[w] = n
      BY <2>3, OnlyOne
    <3>6. worker'[w].pdf = p /\ worker'[w].bytes = c /\ worker'[w].pc = "put"
      BY <3>1, <3>5
    <3>7. evidence'[worker'[w].pdf][worker'[w].bytes] # None
      BY <3>6 DEF DInv, Knows, Delivering
    <3>8. x # None
      BY <3>4, <3>6, <3>7
    <3> HIDE DEF p, c
    <3>9. Holds(w, evidence'[p][c])
      BY <3>3, <3>4, <3>8 DEF Holds
    <3> QED BY <3>5, <3>6, <3>9 DEF GoesOn, p, c
  <2> QED BY <1>12, <2>2, <2>3 DEF RecordPending, To
<1>13. CASE Put(w)
  <2>1. me.pc \in Delivering
    BY <1>13 DEF Put, At, Delivering
  <2> QED BY <1>5, <1>6, <1>13, <2>1 DEF Put, Label
<1>14. CASE Bind(w)
  <2>1. PICK result : Goes(w, Ends(w, result))
    BY <1>14 DEF Bind
  <2> QED BY <2>1, EndsAway DEF Away
<1> QED BY <1>7, <1>8, <1>9, <1>10, <1>11, <1>12, <1>13, <1>14 DEF Sends

\* A worker that delivers after a step was delivering, and has held its row since, or goes on.
LEMMA HoldsOn ==
  ASSUME DInv, Leases, NoneIsApart, DInv', Next, NEW v \in Worker, worker'[v].pc \in Delivering
  PROVE  worker'[v] = worker[v] \/ GoesOn(v)
<1>1. ASSUME NEW w \in Worker, Still(w) \/ Commit(w) \/ Sends(w)
      PROVE  worker'[v] = worker[v] \/ GoesOn(v)
  <2>1. CASE v # w
    BY <1>1, <2>1, StillAway, CommitAway, SendsGoOn DEF Away, Only
  <2>2. CASE v = w
    BY <1>1, <2>2, StillAway, CommitAway, SendsGoOn DEF Away
  <2> QED BY <2>1, <2>2
<1>2. CASE worker' = worker
  BY <1>2
<1>3. /\ \A p \in Pdf \ Gone : Sync(p) \/ ReplaceSource(p) => worker' = worker
      /\ \A p \in Pdf, c \in Content : Expire(p, c) => worker' = worker
      /\ \A k \in Child : DeleteChild(k) => worker' = worker
  BY DEF Sync, ReplaceSource, Expire, DeleteChild
<1> QED BY <1>1, <1>2, <1>3, Kinds

\* A lease that its owner's requests do not outlive is held to their end.
LEMMA LeasesHold ==
  ASSUME DInv, Leases, NoneIsApart, DInv', ~MayOutlive, Next
  PROVE  Leases'
<1> SUFFICES ASSUME NEW v \in Worker, worker'[v].pc \in Delivering
             PROVE  LET e == evidence'[worker'[v].pdf][worker'[v].bytes] IN
                    e.state = "uploading" /\ e.owner = v /\ e.live
  BY DEF Leases
<1>1. CASE GoesOn(v)
  <2> DEFINE p == worker[v].pdf
             c == worker[v].bytes
  <2>1. worker'[v].pdf = p /\ worker'[v].bytes = c /\ Holds(v, evidence'[p][c])
    BY <1>1 DEF GoesOn
  <2> QED BY <1>1 DEF GoesOn, Holds
<1>2. CASE worker'[v] = worker[v]
  <2> DEFINE p == worker[v].pdf
             c == worker[v].bytes
             e == evidence[p][c]
  <2>1. worker[v].pc \in Delivering
    BY <1>2
  <2>2. p \in Pdf /\ c \in Content /\ e # None
    BY <2>1, RowOf
  <2>3. e.state = "uploading" /\ e.owner = v /\ e.live
    BY <2>1 DEF Leases
  <2>4. ~Expire(p, c)
    BY <2>1, <2>3 DEF Expire, Delivering
  <2>5. LiveUpload(e)
    BY <2>2, <2>3 DEF LiveUpload
  <2>6. evidence'[p][c] = e
    BY <1>2, <2>2, <2>3, <2>4, <2>5, OnlyTheOwner
  <2> QED BY <1>2, <2>3, <2>6
<1> QED BY <1>1, <1>2, HoldsOn

\* What the children of p made from its bytes c become: no more, but for the one that a
\* worker creates that has them in hand.
LEMMA ChildrenStep ==
  ASSUME DInv, NoneIsApart, Next, NEW p \in Pdf, NEW c \in Content
  PROVE  \/ ChildrenOf(remote', p, c) \subseteq ChildrenOf(remote, p, c)
         \/ \E w \in Worker, k \in Child :
              /\ Create(w) /\ worker[w].pdf = p /\ worker[w].bytes = c
              /\ ChildrenOf(remote', p, c) \subseteq ChildrenOf(remote, p, c) \cup {k}
<1>1. ASSUME remote' = remote
      PROVE  ChildrenOf(remote', p, c) \subseteq ChildrenOf(remote, p, c)
  BY <1>1 DEF ChildrenOf
<1>2. ASSUME NEW w \in Worker, Sends(w), ~Create(w), ~Put(w)
      PROVE  remote' = remote
  BY <1>2 DEF Sends, Claim, RequestFails, Match, Discover, RecordPending, Bind, library
<1>3. remote \in [Child -> ChildRecord \cup {None}]
  BY DEF DInv, Shapes
<1>4. ASSUME NEW w \in Worker, Put(w)
      PROVE  ChildrenOf(remote', p, c) \subseteq ChildrenOf(remote, p, c)
  <2> DEFINE k == worker[w].key
             x == [remote[k] EXCEPT !.file = worker[w].raw.run]
  <2>1. CASE remote' = remote
    BY <1>1, <2>1
  <2>2. CASE remote[k] # None /\ remote' = [remote EXCEPT ![k] = x]
    <3>1. CASE k \notin Child
      <4>1. remote' = remote
        BY <1>3, <2>2, <3>1
      <4> QED BY <1>1, <4>1
    <3>2. CASE k \in Child
      <4>1. remote[k] \in ChildRecord
        BY <1>3, <2>2, <3>2
      <4>2. x.pdf = remote[k].pdf /\ x.bytes = remote[k].bytes
        BY <4>1 DEF ChildRecord
      <4> HIDE DEF x, k
      <4>3. remote'[k] = x /\ \A l \in Child : l # k => remote'[l] = remote[l]
        BY <1>3, <2>2, <3>2
      <4> QED BY <2>2, <4>2, <4>3 DEF ChildrenOf
    <3> QED BY <3>1, <3>2
  <2>3. \/ remote' = remote
        \/ remote[k] # None /\ remote' = [remote EXCEPT ![k] = x]
    BY <1>4 DEF Put
  <2> QED BY <2>1, <2>2, <2>3
<1>5. ASSUME NEW w \in Worker, Create(w)
      PROVE  LET k == count.child + 1 IN
             /\ k \in Child
             /\ ChildrenOf(remote', p, c) \subseteq ChildrenOf(remote, p, c) \cup {k}
             /\ k \in ChildrenOf(remote', p, c) => worker[w].pdf = p /\ worker[w].bytes = c
  <2> DEFINE k == count.child + 1
             x == [pdf |-> worker[w].pdf, bytes |-> worker[w].bytes, file |-> None]
  <2>1. k \in Child /\ remote' = [remote EXCEPT ![k] = x]
    BY <1>5 DEF Create
  <2>2. x.pdf = worker[w].pdf /\ x.bytes = worker[w].bytes
    OBVIOUS
  <2> HIDE DEF k, x
  <2>3. remote'[k] = x /\ \A l \in Child : l # k => remote'[l] = remote[l]
    BY <1>3, <2>1
  <2>4. ChildrenOf(remote', p, c) \subseteq ChildrenOf(remote, p, c) \cup {k}
    BY <2>3 DEF ChildrenOf
  <2>5. k \in ChildrenOf(remote', p, c) => worker[w].pdf = p /\ worker[w].bytes = c
    BY <2>2, <2>3 DEF ChildrenOf
  <2> QED BY <2>1, <2>4, <2>5 DEF k
<1>6. ASSUME NEW k \in Child, DeleteChild(k)
      PROVE  ChildrenOf(remote', p, c) \subseteq ChildrenOf(remote, p, c)
  <2>1. remote'[k] = None /\ \A l \in Child : l # k => remote'[l] = remote[l]
    BY <1>3, <1>6 DEF DeleteChild
  <2> QED BY <2>1 DEF ChildrenOf
<1>7. CASE \E w \in Worker : Create(w)
  <2>1. PICK w \in Worker : Create(w)
    BY <1>7
  <2> DEFINE k == count.child + 1
  <2>2. /\ k \in Child
        /\ ChildrenOf(remote', p, c) \subseteq ChildrenOf(remote, p, c) \cup {k}
        /\ k \in ChildrenOf(remote', p, c) => worker[w].pdf = p /\ worker[w].bytes = c
    BY <1>5, <2>1
  <2> HIDE DEF k
  <2> QED BY <2>1, <2>2
<1>8. CASE ~\E w \in Worker : Create(w)
  <2>1. ASSUME NEW w \in Worker, Still(w) \/ Commit(w) \/ Sends(w)
        PROVE  ChildrenOf(remote', p, c) \subseteq ChildrenOf(remote, p, c)
    <3>1. CASE Put(w)
      BY <1>4, <3>1
    <3>2. CASE ~Put(w)
      <4>1. Commit(w) => remote' = remote
        BY DEF Commit, library
      <4> QED BY <1>1, <1>2, <1>8, <2>1, <3>2, <4>1, StillEvidence
    <3> QED BY <3>1, <3>2
  <2>2. ASSUME \E q \in Pdf \ Gone : Sync(q) \/ ReplaceSource(q)
        PROVE  remote' = remote
    BY <2>2 DEF Sync, ReplaceSource
  <2>3. ASSUME \E q \in Pdf, d \in Content : Expire(q, d)
        PROVE  remote' = remote
    BY <2>3 DEF Expire, library
  <2> QED BY <1>1, <1>6, <2>1, <2>2, <2>3, Kinds
<1> QED BY <1>7, <1>8

\* Two workers do not deliver one row.
LEMMA OneSender ==
  ASSUME Leases, NEW v \in Worker, NEW w \in Worker,
         worker[v].pc \in Delivering, worker[w].pc \in Delivering,
         worker[v].pdf = worker[w].pdf, worker[v].bytes = worker[w].bytes
  PROVE  v = w
BY DEF Leases

\* What a worker saw before it creates a child stays so: only it could make one.
LEMMA NoChildYetStays ==
  ASSUME LeaseInv, NoneIsApart, DInv', Next
  PROVE  NoChildYet'
<1> SUFFICES ASSUME NEW v \in Worker, worker'[v].pc = "create", Parent[worker'[v].pdf] # None
             PROVE  ChildrenOf(remote', worker'[v].pdf, worker'[v].bytes) = {}
  BY DEF NoChildYet, ChildrenOf
<1> DEFINE p == worker[v].pdf
           c == worker[v].bytes
<1>1. worker'[v] = worker[v] \/ GoesOn(v)
  BY HoldsOn DEF LeaseInv, Delivering
<1>2. CASE GoesOn(v)
  <2>1. worker'[v].pdf = p /\ worker'[v].bytes = c /\ Provenance(p) = {} /\ remote' = remote
    BY <1>2 DEF GoesOn
  <2>2. \A k \in Child : remote'[k] # None => remote'[k].pdf # p
    BY <2>1 DEF Provenance
  <2> QED BY <2>1, <2>2 DEF ChildrenOf
<1>3. CASE worker'[v] = worker[v]
  <2>1. worker[v].pc = "create" /\ worker[v].pc \in Delivering
    BY <1>3 DEF Delivering
  <2>2. p \in Pdf /\ c \in Content
    BY <2>1, RowOf DEF LeaseInv
  <2>3. ChildrenOf(remote, p, c) = {}
    BY <1>3, <2>1 DEF LeaseInv, NoChildYet
  <2>4. ASSUME NEW w \in Worker, Create(w), worker[w].pdf = p, worker[w].bytes = c
        PROVE  FALSE
    <3>1. worker[w].pc = "create" /\ worker[w].pc \in Delivering
      BY <2>4 DEF Create, At, Delivering
    <3>2. w = v
      BY <2>1, <2>4, <3>1, OneSender DEF LeaseInv
    <3>3. worker'[w].pc \in {"keep", "finish"}
      <4>1. CASE GiveUp(w, FALSE)
        BY <4>1, EndsAt DEF GiveUp, LeaseInv
      <4>2. CASE Goes(w, [worker[w] EXCEPT !.pc = "keep", !.key = count.child + 1])
        <5> DEFINE n == [worker[w] EXCEPT !.pc = "keep", !.key = count.child + 1]
        <5>1. n.pc = "keep"
          BY DEF LeaseInv, DInv, WorkerShape
        <5> HIDE DEF n
        <5>2. worker'[w] = n
          BY <4>2, OnlyOne DEF LeaseInv, n
        <5> QED BY <5>1, <5>2
      <4> QED BY <2>4, <4>1, <4>2 DEF Create
    <3> QED BY <3>2, <3>3
  <2> HIDE DEF p, c
  <2>5. ChildrenOf(remote', p, c) = {}
    BY <2>2, <2>3, <2>4, ChildrenStep DEF LeaseInv
  <2> QED BY <1>3, <2>5 DEF p, c
<1> QED BY <1>1, <1>2, <1>3

\* Two children of the same bytes are one.
LEMMA SiblingsStay ==
  ASSUME LeaseInv, NoneIsApart, Next
  PROVE  Siblings'
<1> SUFFICES ASSUME NEW p \in Pdf, NEW c \in Content, Parent[p] # None,
                    NEW k \in ChildrenOf(remote', p, c), NEW l \in ChildrenOf(remote', p, c)
             PROVE  k = l
  BY DEF Siblings
<1>1. CASE ChildrenOf(remote', p, c) \subseteq ChildrenOf(remote, p, c)
  BY <1>1 DEF LeaseInv, Siblings
<1>2. ASSUME NEW w \in Worker, NEW m \in Child, Create(w), worker[w].pdf = p, worker[w].bytes = c,
             ChildrenOf(remote', p, c) \subseteq ChildrenOf(remote, p, c) \cup {m}
      PROVE  k = l
  <2>1. ChildrenOf(remote, p, c) = {}
    BY <1>2 DEF LeaseInv, NoChildYet, Create, At
  <2> QED BY <1>2, <2>1
<1> QED BY <1>1, <1>2, ChildrenStep DEF LeaseInv

\* Every step keeps the invariant of requests that end before their leases.
LEMMA LeaseInvStays ==
  ASSUME LeaseInv, NoneIsApart, ~MayOutlive, [Next]_vars
  PROVE  LeaseInv'
<1>1. DInv'
  BY NextOK, StutterOK DEF LeaseInv
<1>2. CASE Next
  BY <1>1, <1>2, LeasesHold, NoChildYetStays, SiblingsStay DEF LeaseInv
<1>3. CASE UNCHANGED vars
  BY <1>1, <1>3 DEF LeaseInv, Leases, NoChildYet, Siblings, ChildrenOf, vars, store, library
<1> QED BY <1>2, <1>3

\* It holds at first.
LEMMA LeaseInvInit == ASSUME Init PROVE LeaseInv
<1>1. DInv
  BY InitOK
<1>2. (\A w \in Worker : worker[w] = Idle) /\ (\A k \in Child : remote[k] = None) /\ Idle.pc = "idle"
  BY DEF Init, Idle
<1> QED BY <1>1, <1>2 DEF LeaseInv, Leases, NoChildYet, Siblings, ChildrenOf, Delivering

\* As long as no request outlives the lease of its upload, no number of workers, kills, lost
\* replies and retries makes a second child of the same bytes of a PDF in an item
\* (find_markdown_attachment_by_provenance before create_markdown_attachment_item).
THEOREM OneChildStays == ASSUME NoneIsApart, ~MayOutlive PROVE Spec => []OneChild
<1>1. LeaseInv => OneChild
  <2> SUFFICES ASSUME LeaseInv, NEW p \in Pdf, NEW c \in Content
               PROVE  Cardinality({k \in Provenance(p) : remote[k].bytes = c}) <= 1
    BY DEF OneChild
  <2> DEFINE S == {k \in Provenance(p) : remote[k].bytes = c}
  <2> SUFFICES Cardinality(S) <= 1
    OBVIOUS
  <2>1. \A k, l \in S : k = l
    BY DEF LeaseInv, Siblings, Provenance, ChildrenOf
  <2> HIDE DEF S
  <2>2. CASE S = {}
    BY <2>2, FS_EmptySet
  <2>3. CASE S # {}
    <3>1. PICK k : S = {k}
      BY <2>1, <2>3
    <3> QED BY <3>1, FS_Singleton
  <2> QED BY <2>2, <2>3
<1>2. LeaseInv /\ [Next]_vars => LeaseInv'
  BY LeaseInvStays
<1> QED BY <1>1, <1>2, LeaseInvInit, PTL DEF Spec

=============================================================================
