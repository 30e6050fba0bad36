---------------------------- MODULE CleanupProofs ----------------------------
(***************************************************************************)
(* Theorems about the scripts that clean up the library, for any list, any *)
(* children, books, workers, faults, edits and number of runs.             *)
(*                                                                         *)
(* MineruReplacement.  A worker that is on a job whose claim never ran out *)
(* finds the job as it claimed it, in progress and fresh, so that nobody   *)
(* else can claim it; and it comes to the deletion only when it has seen   *)
(* the row of a Paddle conversion, which nothing takes back.               *)
(*                                                                         *)
(* LawPolitics.  A PDF without a row has as many children as lapses, and   *)
(* one more while the batch is between the creation of a child and its row;*)
(* a PDF with a row has one more for good, since no batch creates a child  *)
(* for it again.                                                           *)
(*                                                                         *)
(* SourceCleanup.  The targets of a run have the policies of their rows,   *)
(* which no row loses while the run lasts; a script comes to the deletion, *)
(* or writes a Markdown attachment down, only past a conversion that was   *)
(* committed, which nothing takes back; and it converts only what has been *)
(* paid for no more often than lost, an account that the queue of the      *)
(* giant PDFs, looked at once, settles target by target.                   *)
(***************************************************************************)
EXTENDS SourceCleanup, MineruReplacement, LawPolitics,
        FiniteSetTheorems, SequenceTheorems, WellFoundedInduction, TLAPS

-----------------------------------------------------------------------------
(* MineruReplacement: the inductive invariant.                             *)

Away == {"off", "next"}
Checked == {"look", "convert", "verify", "delete"}
Job == [status: Status, fresh: BOOLEAN]
Tally == [faults: Nat, edits: Nat, stale: [Md -> BOOLEAN]]

\* A worker as a record of its own fields.
IsWorker(r) == r = [pc |-> r.pc, todo |-> r.todo, spent |-> r.spent] /\ r.pc \in Place

Types ==
  /\ child \in [Md -> BOOLEAN] /\ pdf \in [Pdfs -> BOOLEAN]
  /\ paddle \in [Pdfs -> [row : BOOLEAN, child : BOOLEAN]]
  /\ rjob \in [Md -> Job] /\ rtally \in Tally
  /\ DOMAIN rw = Worker /\ \A w \in Worker : IsWorker(rw[w])

HasPaddle(m) == Source[m] # NoPdf /\ paddle[Source[m]].row

\* What a worker has found out about its job.
Knows(w) ==
  /\ rw[w].pc \in Checked => P(w) \notin Dirty /\ M(w) \notin Mismatched
  /\ rw[w].pc \in Checked \cup {"parent"} => P(w) # NoPdf
  /\ rw[w].pc = "delete" /\ M(w) \in Md => HasPaddle(M(w))

\* A claim that has not run out.
Held(w, m) == On(w, m) /\ ~rtally.stale[m]

RInv ==
  /\ Types
  /\ \A w \in Worker : Knows(w)
  /\ \A m \in Md : rjob[m].status \in Replaced => HasPaddle(m)
  /\ \A m \in Md, w \in Worker : Held(w, m) => rjob[m] = [status |-> "in_progress", fresh |-> TRUE]
  /\ \A m \in Md, v, w \in Worker : Held(v, m) /\ Held(w, m) => v = w

-----------------------------------------------------------------------------

\* Conversions are only ever added.
PaddleGrows ==
  /\ paddle' \in [Pdfs -> [row : BOOLEAN, child : BOOLEAN]]
  /\ \A p \in Pdfs : paddle[p].row => paddle'[p].row

LEMMA PaddleStays ==
  ASSUME Types, PaddleGrows, NEW m \in Md, HasPaddle(m)
  PROVE  HasPaddle(m)'
<1>1. Source[m] \in Pdfs
  BY DEF HasPaddle, Pdfs
<1> QED BY <1>1 DEF HasPaddle, PaddleGrows

\* A worker that does not move knows what it knew.
LEMMA OthersKnow ==
  ASSUME RInv, PaddleGrows, NEW v \in Worker, rw'[v] = rw[v]
  PROVE  Knows(v)'
<1>1. Knows(v)
  BY DEF RInv
<1>2. P(v)' = P(v) /\ M(v)' = M(v)
  BY DEF P, M
<1>3. ASSUME M(v) \in Md, HasPaddle(M(v)) PROVE HasPaddle(M(v))'
  BY <1>2, <1>3, PaddleStays DEF RInv
<1> QED BY <1>1, <1>2, <1>3 DEF Knows

LEMMA UpdateTyped ==
  ASSUME Types, NEW m, NEW st \in Status, UpdateJob(m, st)
  PROVE  rjob' \in [Md -> Job]
<1> DEFINE j == [status |-> st, fresh |-> TRUE]
<1>1. j \in Job
  BY DEF Job
<1>2. rjob' = [rjob EXCEPT ![m] = j]
  BY DEF UpdateJob
<1> HIDE DEF j
<1> QED BY <1>1, <1>2 DEF Types

\* A worker leaves its job, with or without a result for it.
LEMMA LeaveOK ==
  ASSUME RInv, NEW w \in Worker, NEW r, IsWorker(r), r.pc \in Away, rw' = [rw EXCEPT ![w] = r],
         UNCHANGED <<child, pdf>>, PaddleGrows, rtally' \in Tally, rtally'.stale = rtally.stale,
         \/ UNCHANGED rjob
         \/ /\ rw[w].pc \notin Away
            /\ \E st \in Status : UpdateJob(M(w), st) /\ (st \in Replaced /\ M(w) \in Md => HasPaddle(M(w)))
  PROVE  RInv'
<1>1. rjob' \in [Md -> Job]
  BY UpdateTyped DEF RInv, Types
<1>2. Types'
  BY <1>1 DEF RInv, Types, PaddleGrows
<1>3. rw'[w] = r /\ \A v \in Worker \ {w} : rw'[v] = rw[v]
  BY DEF RInv, Types
<1>4. ASSUME NEW v \in Worker PROVE Knows(v)'
  <2>1. CASE v = w
    BY <1>3, <2>1 DEF Knows, Checked, Away
  <2>2. CASE v # w
    BY <1>3, <2>2, OthersKnow
  <2> QED BY <2>1, <2>2
<1>5. ASSUME NEW m \in Md, rjob'[m].status \in Replaced PROVE HasPaddle(m)'
  <2>1. HasPaddle(m)
    BY <1>5 DEF RInv, Types, UpdateJob
  <2> QED BY <2>1, PaddleStays DEF RInv
<1>6. ASSUME NEW m \in Md, NEW v \in Worker, Held(v, m)' PROVE Held(v, m) /\ v # w
  BY <1>3, <1>6 DEF Held, On, M, Away
<1>7. ASSUME NEW m \in Md, NEW v \in Worker, Held(v, m)'
      PROVE  rjob'[m] = [status |-> "in_progress", fresh |-> TRUE]
  <2>1. Held(v, m) /\ v # w /\ rjob[m] = [status |-> "in_progress", fresh |-> TRUE]
    BY <1>6, <1>7 DEF RInv
  <2>2. CASE UNCHANGED rjob
    BY <2>1, <2>2
  <2>3. CASE rw[w].pc \notin Away /\ \E st \in Status : UpdateJob(M(w), st)
    <3>1. M(w) # m
      BY <2>1, <2>3 DEF RInv, Held, On, Away
    <3> QED BY <2>1, <2>3, <3>1 DEF UpdateJob, RInv, Types
  <2> QED BY <2>2, <2>3
<1> QED BY <1>2, <1>4, <1>5, <1>6, <1>7 DEF RInv

\* A worker goes on with its job.
LEMMA StayOK ==
  ASSUME RInv, NEW w \in Worker, NEW r, IsWorker(r), rw' = [rw EXCEPT ![w] = r],
         rw[w].pc \notin Away, r.pc \notin Away, r.todo = rw[w].todo,
         UNCHANGED <<child, pdf>>, PaddleGrows, rtally' \in Tally, rtally'.stale = rtally.stale,
         Knows(w)', UNCHANGED rjob \/ UpdateJob(M(w), "in_progress")
  PROVE  RInv'
<1>1. rjob' \in [Md -> Job]
  BY UpdateTyped DEF RInv, Types, Status
<1>2. Types'
  BY <1>1 DEF RInv, Types, PaddleGrows
<1>3. rw'[w] = r /\ \A v \in Worker \ {w} : rw'[v] = rw[v]
  BY DEF RInv, Types
<1>4. ASSUME NEW v \in Worker PROVE Knows(v)'
  BY <1>3, OthersKnow
<1>5. ASSUME NEW m \in Md, rjob'[m].status \in Replaced PROVE HasPaddle(m)'
  <2>1. rjob[m].status \in Replaced
    <3>1. CASE UNCHANGED rjob
      BY <1>5, <3>1
    <3>2. CASE UpdateJob(M(w), "in_progress")
      <4>1. rjob \in [Md -> Job]
        BY DEF RInv, Types
      <4>2. m # M(w)
        BY <1>5, <3>2, <4>1 DEF UpdateJob, Replaced
      <4> QED BY <1>5, <3>2, <4>1, <4>2 DEF UpdateJob
    <3> QED BY <3>1, <3>2
  <2> QED BY <2>1, PaddleStays DEF RInv
<1>6. ASSUME NEW m \in Md, NEW v \in Worker, Held(v, m)' PROVE Held(v, m)
  BY <1>3, <1>6 DEF Held, On, M, Away
<1>7. ASSUME NEW m \in Md, NEW v \in Worker, Held(v, m)'
      PROVE  rjob'[m] = [status |-> "in_progress", fresh |-> TRUE]
  <2>1. rjob[m] = [status |-> "in_progress", fresh |-> TRUE]
    BY <1>6, <1>7 DEF RInv
  <2> QED BY <2>1 DEF UpdateJob, RInv, Types
<1> QED BY <1>2, <1>4, <1>5, <1>6, <1>7 DEF RInv

-----------------------------------------------------------------------------
(* The steps of a worker.                                                  *)

\* How the bookkeeping of a step comes out.
LEMMA Counting ==
  ASSUME Types, RFault \/ UNCHANGED rtally
  PROVE  rtally' \in Tally /\ rtally'.stale = rtally.stale
<1>1. rtally \in Tally
  BY DEF Types
<1>2. CASE RFault
  <2> DEFINE n == rtally.faults + 1
  <2>1. n \in Nat /\ rtally' = [rtally EXCEPT !.faults = n]
    BY <1>1, <1>2 DEF RFault, Tally
  <2> HIDE DEF n
  <2> QED BY <1>1, <2>1 DEF Tally
<1> QED BY <1>1, <1>2

\* A worker stays one whatever its fields become.
LEMMA Converts ==
  ASSUME NEW q, IsWorker(q)
  PROVE  /\ IsWorker([q EXCEPT !.pc = "verify", !.spent = TRUE])
         /\ [q EXCEPT !.pc = "verify", !.spent = TRUE].pc = "verify"
         /\ [q EXCEPT !.pc = "verify", !.spent = TRUE].todo = q.todo
<1>1. q = [pc |-> q.pc, todo |-> q.todo, spent |-> q.spent]
  BY DEF IsWorker
<1> DEFINE q1 == [q EXCEPT !.pc = "verify"]
           q2 == [q1 EXCEPT !.spent = TRUE]
<1>2. q1 = [pc |-> "verify", todo |-> q.todo, spent |-> q.spent]
  BY <1>1
<1>3. q2 = [pc |-> "verify", todo |-> q.todo, spent |-> TRUE]
  <2>1. ASSUME NEW b, NEW q0, q0 = [pc |-> "verify", todo |-> q.todo, spent |-> q.spent]
        PROVE  [q0 EXCEPT !.spent = b] = [pc |-> "verify", todo |-> q.todo, spent |-> b]
    BY <2>1
  <2> HIDE DEF q1
  <2> QED BY <1>2, <2>1, Zenon
<1>4. IsWorker(q2) /\ q2.pc = "verify" /\ q2.todo = q.todo
  <2> HIDE DEF q2
  <2> QED BY <1>3 DEF IsWorker, Place
<1> QED BY <1>4

\* A worker that goes to the next job, or rests.
LEMMA Leaves ==
  ASSUME Types, NEW w \in Worker, Onward(w) \/ Rest(w)
  PROVE  \E r : IsWorker(r) /\ r.pc \in Away /\ rw' = [rw EXCEPT ![w] = r]
<1>1. ASSUME Onward(w) PROVE \E r : IsWorker(r) /\ r.pc \in Away /\ rw' = [rw EXCEPT ![w] = r]
  <2> DEFINE r == [pc |-> "next", todo |-> Tail(rw[w].todo), spent |-> FALSE]
  <2>1. rw' = [rw EXCEPT ![w] = r]
    BY <1>1 DEF Onward
  <2>2. IsWorker(r) /\ r.pc \in Away
    BY DEF IsWorker, Away, Place
  <2> QED BY <2>1, <2>2
<1>2. ASSUME Rest(w) PROVE \E r : IsWorker(r) /\ r.pc \in Away /\ rw' = [rw EXCEPT ![w] = r]
  <2>1. IsWorker(Resting) /\ Resting.pc \in Away
    BY DEF IsWorker, Away, Place, Resting
  <2> QED BY <1>2, <2>1 DEF Rest
<1> QED BY <1>1, <1>2

LEMMA PaddleSame ==
  ASSUME Types, UNCHANGED paddle
  PROVE  PaddleGrows
BY DEF Types, PaddleGrows

LEMMA BlockOK ==
  ASSUME RInv, NEW w \in Worker, NEW st \in Status, Block(w, st), RFault \/ UNCHANGED rtally,
         rw[w].pc \notin Away, st \in Replaced /\ M(w) \in Md => HasPaddle(M(w))
  PROVE  RInv'
<1>1. PICK r : IsWorker(r) /\ r.pc \in Away /\ rw' = [rw EXCEPT ![w] = r]
  BY Leaves DEF RInv, Block
<1>2. rtally' \in Tally /\ rtally'.stale = rtally.stale
  BY Counting DEF RInv
<1>3. UNCHANGED <<child, pdf>> /\ PaddleGrows /\ UpdateJob(M(w), st)
  BY PaddleSame DEF Block, RInv
<1> QED BY <1>1, <1>2, <1>3, LeaveOK

\* The jobs that end without a result of a conversion.
LEMMA BlocksOK ==
  ASSUME RInv, NEW w \in Worker,
         MissingSource(w) \/ ParentMismatch(w) \/ DirtyText(w) \/ LookFails(w) \/ ConvertGoesWrong(w)
         \/ VerifyFails(w) \/ DeleteFails(w)
  PROVE  RInv'
<1>1. rw[w].pc \notin Away
  BY DEF MissingSource, ParentMismatch, DirtyText, LookFails, ConvertGoesWrong, VerifyFails,
         DeleteFails, WAt, Away
<1>2. RFault \/ UNCHANGED rtally
  BY DEF MissingSource, ParentMismatch, DirtyText, LookFails, ConvertGoesWrong, VerifyFails, DeleteFails
<1>3. \E st \in Status \ Replaced : Block(w, st)
  BY DEF MissingSource, ParentMismatch, DirtyText, LookFails, ConvertGoesWrong, VerifyFails,
         DeleteFails, Status, Replaced, Blocked
<1> QED BY <1>1, <1>2, <1>3, BlockOK

LEMMA DeleteOK ==
  ASSUME RInv, NEW w \in Worker, DeleteOld(w)
  PROVE  RInv'
<1>1. rw[w].pc = "delete" /\ UNCHANGED rtally
  BY DEF DeleteOld, WAt
<1>2. \E st \in Status : Block(w, st)
  <2>1. {"paddle_completed_delete_pending", "replaced", "replaced_existing_paddle"} \subseteq Status
    BY DEF Status, Replaced
  <2> QED BY <2>1 DEF DeleteOld
<1>3. M(w) \in Md => HasPaddle(M(w))
  BY <1>1 DEF RInv, Knows
<1> QED BY <1>1, <1>2, <1>3, BlockOK DEF Away

LEMMA VerifyOK ==
  ASSUME RInv, NEW w \in Worker, Verify(w)
  PROVE  RInv'
<1>1. rw[w].pc = "verify" /\ UNCHANGED rtally
  BY DEF Verify, WAt
<1>2. CASE Block(w, "failed")
  <2>1. "failed" \in Status \ Replaced
    BY DEF Status, Replaced, Blocked
  <2> QED BY <1>1, <1>2, <2>1, BlockOK DEF Away
<1>3. CASE ~Block(w, "failed")
  <2> DEFINE r == [rw[w] EXCEPT !.pc = "delete"]
  <2>1. PaddleRow(P(w)) /\ rw' = [rw EXCEPT ![w] = r] /\ UNCHANGED <<child, pdf, paddle, rjob>>
    BY <1>3, Zenon DEF Verify, WTo
  <2>2. IsWorker(r) /\ r.pc = "delete" /\ r.todo = rw[w].todo
    BY DEF RInv, Types, IsWorker, Place
  <2>3. rw'[w] = r /\ M(w)' = M(w) /\ P(w)' = P(w)
    BY <2>1, <2>2 DEF RInv, Types, M, P
  <2>4. Knows(w)'
    <3>1. Knows(w) /\ paddle[P(w)].row
      BY <2>1 DEF RInv, PaddleRow
    <3>2. P(w) \notin Dirty /\ M(w) \notin Mismatched /\ P(w) # NoPdf
      BY <1>1, <3>1 DEF Knows, Checked
    <3> QED BY <2>1, <2>2, <2>3, <3>1, <3>2 DEF Knows, Checked, HasPaddle, P, M
  <2> QED BY <1>1, <2>1, <2>2, <2>4, StayOK, PaddleSame, Counting DEF RInv, Away
<1> QED BY <1>2, <1>3

LEMMA GoesOnOK ==
  ASSUME RInv, NEW w \in Worker, ReadPdf(w) \/ Sound(w) \/ LookForPaddle(w)
  PROVE  RInv'
<1>1. /\ rw[w].pc \in {"source", "parent", "look"}
      /\ UNCHANGED <<child, pdf, paddle, rtally>>
      /\ UNCHANGED rjob \/ UpdateJob(M(w), "in_progress")
  BY DEF ReadPdf, Sound, LookForPaddle, WAt
<1>2. PICK x \in {"parent", "look", "delete", "convert"} :
        /\ WTo(w, x)
        /\ x = "parent" => P(w) # NoPdf
        /\ x = "look" => rw[w].pc = "parent" /\ M(w) \notin Mismatched /\ P(w) \notin Dirty
        /\ x \in {"delete", "convert"} => rw[w].pc = "look" /\ (x = "delete" => PaddleRow(P(w)))
  <2>1. CASE ReadPdf(w)
    BY <2>1, Zenon DEF ReadPdf
  <2>2. CASE Sound(w)
    BY <2>2 DEF Sound, WAt
  <2>3. CASE LookForPaddle(w)
    <3>1. (WTo(w, "delete") /\ PaddleRow(P(w))) \/ WTo(w, "convert")
      BY <2>3, Zenon DEF LookForPaddle
    <3>2. rw[w].pc = "look"
      BY <2>3 DEF LookForPaddle, WAt
    <3> QED BY <3>1, <3>2
  <2> QED BY <2>1, <2>2, <2>3
<1> DEFINE r == [rw[w] EXCEPT !.pc = x]
<1>3. IsWorker(r) /\ r.pc = x /\ r.todo = rw[w].todo /\ rw' = [rw EXCEPT ![w] = r]
  BY <1>2 DEF RInv, Types, IsWorker, Place, WTo
<1>4. rw'[w] = r /\ M(w)' = M(w) /\ P(w)' = P(w)
  BY <1>3 DEF RInv, Types, M, P
<1>5. Knows(w)'
  <2>1. Knows(w)
    BY DEF RInv
  <2>2. x \in Checked => P(w) \notin Dirty /\ M(w) \notin Mismatched /\ P(w) # NoPdf
    BY <1>2, <2>1 DEF Knows, Checked
  <2>3. x = "delete" => paddle[P(w)].row
    BY <1>2 DEF PaddleRow
  <2> QED BY <1>1, <1>2, <1>3, <1>4, <2>2, <2>3 DEF Knows, Checked, HasPaddle, P, M
<1> QED BY <1>1, <1>2, <1>3, <1>5, StayOK, PaddleSame, Counting DEF RInv, Away

LEMMA ConvertOK ==
  ASSUME RInv, NEW w \in Worker, ConvertPaddle(w)
  PROVE  RInv'
<1> DEFINE r == [rw[w] EXCEPT !.pc = "verify", !.spent = TRUE]
<1>1. rw[w].pc = "convert" /\ rw' = [rw EXCEPT ![w] = r] /\ UNCHANGED <<child, pdf, rjob>>
  BY DEF ConvertPaddle, WAt, RInv, Types
<1>2. IsWorker(r) /\ r.pc = "verify" /\ r.todo = rw[w].todo
  BY Converts DEF RInv, Types
<1> HIDE DEF r
<1>3. rw'[w] = r /\ M(w)' = M(w) /\ P(w)' = P(w)
  BY <1>1, <1>2 DEF RInv, Types, M, P
<1>4. Knows(w)'
  <2>1. P(w) \notin Dirty /\ M(w) \notin Mismatched /\ P(w) # NoPdf
    BY <1>1 DEF RInv, Knows, Checked
  <2> QED BY <1>2, <1>3, <2>1 DEF Knows, Checked
<1>5. PaddleGrows
  <2> DEFINE n == [row |-> TRUE, child |-> TRUE]
  <2>1. n \in [row : BOOLEAN, child : BOOLEAN] /\ n.row
    OBVIOUS
  <2>2. paddle' = [paddle EXCEPT ![P(w)] = n] \/ UNCHANGED paddle
    BY DEF ConvertPaddle
  <2> HIDE DEF n
  <2> QED BY <2>1, <2>2 DEF PaddleGrows, RInv, Types
<1>6. RFault \/ UNCHANGED rtally
  BY DEF ConvertPaddle
<1> QED BY <1>1, <1>2, <1>4, <1>5, <1>6, StayOK, Counting DEF RInv, Away

\* A run ends, or a worker passes a job by.
LEMMA RestsOK ==
  ASSUME RInv, NEW w \in Worker,
         \/ Finished(w) \/ Dies(w) \/ StopsEarly(w) \/ ConvertStopsRun(w)
         \/ Claim(w) /\ ~Claimable(M(w))
  PROVE  RInv'
<1>1. Onward(w) \/ Rest(w)
  BY Zenon DEF Finished, Dies, StopsEarly, ConvertStopsRun, Claim
<1>2. UNCHANGED <<child, pdf, paddle>> /\ (RFault \/ UNCHANGED rtally)
  BY DEF Finished, Dies, StopsEarly, ConvertStopsRun, Claim
<1>3. \/ UNCHANGED rjob
      \/ rw[w].pc \notin Away /\ UpdateJob(M(w), "stopped_quota_or_deadline")
  <2>1. CASE ConvertStopsRun(w)
    BY <2>1 DEF ConvertStopsRun, WAt, Away
  <2>2. CASE ~ConvertStopsRun(w)
    BY <2>2, Zenon DEF Finished, Dies, StopsEarly, Claim
  <2> QED BY <2>1, <2>2
<1>4. "stopped_quota_or_deadline" \in Status \ Replaced
  BY DEF Status, Replaced, Blocked
<1>5. PICK r : IsWorker(r) /\ r.pc \in Away /\ rw' = [rw EXCEPT ![w] = r]
  BY <1>1, Leaves DEF RInv
<1>6. rtally' \in Tally /\ rtally'.stale = rtally.stale /\ PaddleGrows
  BY <1>2, Counting, PaddleSame DEF RInv
<1> QED BY <1>2, <1>3, <1>4, <1>5, <1>6, LeaveOK

\* Only a job nobody holds can be claimed.
LEMMA ClaimOK ==
  ASSUME RInv, NEW w \in Worker, Claim(w), Claimable(M(w))
  PROVE  RInv'
<1> DEFINE r == [rw[w] EXCEPT !.pc = "source"]
<1>1. /\ rw[w].pc = "next" /\ rw' = [rw EXCEPT ![w] = r] /\ UpdateJob(M(w), "in_progress")
      /\ UNCHANGED <<child, pdf, paddle, rtally>>
  BY Zenon DEF Claim, WAt, WTo
<1>2. IsWorker(r) /\ r.pc = "source" /\ r.todo = rw[w].todo
  BY DEF RInv, Types, IsWorker, Place
<1>3. /\ rw'[w] = r /\ M(w)' = M(w) /\ P(w)' = P(w)
      /\ \A v \in Worker \ {w} : rw'[v] = rw[v] /\ M(v)' = M(v)
  BY <1>1, <1>2 DEF RInv, Types, M, P
<1>4. Types' /\ PaddleGrows
  <2>1. rjob' \in [Md -> Job]
    BY <1>1, UpdateTyped DEF RInv, Status
  <2> QED BY <1>1, <1>2, <2>1, PaddleSame DEF RInv, Types
<1>5. ASSUME NEW v \in Worker PROVE Knows(v)'
  <2>1. CASE v = w
    BY <1>2, <1>3, <2>1 DEF Knows, Checked
  <2>2. CASE v # w
    BY <1>3, <1>4, <2>2, OthersKnow
  <2> QED BY <2>1, <2>2
<1>6. ASSUME NEW m \in Md, rjob'[m].status \in Replaced PROVE HasPaddle(m)'
  <2>1. rjob[m].status \in Replaced
    BY <1>1, <1>6 DEF RInv, Types, UpdateJob, Replaced
  <2> QED BY <1>4, <2>1, PaddleStays DEF RInv
<1>7. ASSUME NEW m \in Md, NEW v \in Worker, Held(v, m)'
      PROVE  \/ v = w /\ m = M(w)
             \/ v # w /\ m # M(w) /\ Held(v, m)
  <2>1. v # w => Held(v, m)
    BY <1>1, <1>3, <1>7 DEF Held, On
  <2>2. v = w => m = M(w)
    BY <1>3, <1>7 DEF Held, On
  <2>3. Held(v, m) => m # M(w)
    BY DEF RInv, Claimable
  <2> QED BY <2>1, <2>2, <2>3
<1>8. ASSUME NEW m \in Md, NEW v \in Worker, Held(v, m)'
      PROVE  rjob'[m] = [status |-> "in_progress", fresh |-> TRUE]
  <2>1. CASE m = M(w)
    BY <1>1, <2>1 DEF UpdateJob, RInv, Types
  <2>2. CASE m # M(w)
    <3>1. rjob[m] = [status |-> "in_progress", fresh |-> TRUE]
      BY <1>7, <1>8, <2>2 DEF RInv
    <3> QED BY <1>1, <2>2, <3>1 DEF UpdateJob, RInv, Types
  <2> QED BY <2>1, <2>2
<1>9. ASSUME NEW m \in Md, NEW v \in Worker, NEW u \in Worker, Held(v, m)', Held(u, m)' PROVE v = u
  <2>1. CASE m = M(w)
    BY <1>7, <1>9, <2>1
  <2>2. CASE m # M(w)
    <3>1. Held(v, m) /\ Held(u, m)
      BY <1>7, <1>9, <2>2
    <3> QED BY <3>1 DEF RInv
  <2> QED BY <2>1, <2>2
<1> QED BY <1>4, <1>5, <1>6, <1>8, <1>9 DEF RInv

\* A run that starts leaves the jobs that are in progress so.
LEMMA SeedOK ==
  ASSUME RInv, NEW w \in Worker, StartReplacing(w)
  PROVE  RInv'
<1>1. PICK found : found \in SUBSET Md /\ rjob' = SeedCandidates(found)
  BY DEF StartReplacing
<1> DEFINE r == [pc |-> "next", todo |-> LoadJobs(rjob'), spent |-> FALSE]
<1>2. rw' = [rw EXCEPT ![w] = r] /\ UNCHANGED <<child, pdf, paddle, rtally>>
  BY DEF StartReplacing
<1>3. IsWorker(r) /\ r.pc = "next"
  BY DEF IsWorker, Place
<1> HIDE DEF r
<1>4. rw'[w] = r /\ \A v \in Worker \ {w} : rw'[v] = rw[v]
  BY <1>2 DEF RInv, Types
<1>5. ASSUME NEW m \in Md
      PROVE  /\ rjob'[m] \in Job
             /\ rjob'[m].status \in Replaced => rjob[m].status \in Replaced
             /\ rjob[m] = [status |-> "in_progress", fresh |-> TRUE] => rjob'[m] = rjob[m]
  <2> DEFINE st == IF rjob[m].status \in Replaced \cup Blocked \cup {"in_progress"}
                   THEN rjob[m].status ELSE "pending"
             j == [status |-> st, fresh |-> TRUE]
  <2>1. rjob'[m] = rjob[m] \/ rjob'[m] = j
    BY <1>1 DEF SeedCandidates
  <2>2. rjob[m] \in Job
    BY DEF RInv, Types
  <2>3. st \in Status /\ (st \in Replaced => rjob[m].status \in Replaced)
        /\ (rjob[m].status = "in_progress" => st = "in_progress")
    BY <2>2 DEF Job, Status, Replaced
  <2>4. j \in Job /\ j.status = st
    <3> HIDE DEF st
    <3> QED BY <2>3 DEF Job
  <2>5. rjob[m] = [status |-> "in_progress", fresh |-> TRUE] => j = rjob[m]
    BY <2>3
  <2> HIDE DEF st, j
  <2> QED BY <2>1, <2>2, <2>3, <2>4, <2>5
<1>6. Types' /\ PaddleGrows
  <2>1. rjob' \in [Md -> Job]
    <3>1. rjob' = [m \in Md |-> rjob'[m]]
      BY <1>1 DEF SeedCandidates
    <3> QED BY <1>5, <3>1
  <2> QED BY <1>2, <1>3, <1>4, <2>1, PaddleSame DEF RInv, Types
<1>7. ASSUME NEW v \in Worker PROVE Knows(v)'
  <2>1. CASE v = w
    BY <1>3, <1>4, <2>1 DEF Knows, Checked
  <2>2. CASE v # w
    BY <1>4, <1>6, <2>2, OthersKnow
  <2> QED BY <2>1, <2>2
<1>8. ASSUME NEW m \in Md, rjob'[m].status \in Replaced PROVE HasPaddle(m)'
  BY <1>5, <1>6, <1>8, PaddleStays DEF RInv
<1>9. ASSUME NEW m \in Md, NEW v \in Worker, Held(v, m)' PROVE Held(v, m)
  BY <1>2, <1>3, <1>4, <1>9 DEF Held, On, M
<1>10. ASSUME NEW m \in Md, NEW v \in Worker, Held(v, m)'
       PROVE  rjob'[m] = [status |-> "in_progress", fresh |-> TRUE]
  BY <1>5, <1>9, <1>10 DEF RInv
<1> QED BY <1>6, <1>7, <1>8, <1>9, <1>10 DEF RInv

LEMMA RunsOutOK ==
  ASSUME RInv, NEW n \in Md, RunsOut(n)
  PROVE  RInv'
<1>1. /\ rjob' = [rjob EXCEPT ![n].fresh = FALSE] /\ UNCHANGED <<child, pdf, paddle, rw>>
      /\ rtally' = [rtally EXCEPT !.stale[n] = TRUE]
  BY DEF RunsOut
<1>2. rtally' \in Tally /\ \A m \in Md : ~rtally'.stale[m] => m # n /\ ~rtally.stale[m]
  <2> DEFINE s == [rtally.stale EXCEPT ![n] = TRUE]
  <2>1. rtally \in Tally /\ rtally.stale \in [Md -> BOOLEAN]
    BY DEF RInv, Types, Tally
  <2>2. rtally' = [rtally EXCEPT !.stale = s] /\ s \in [Md -> BOOLEAN]
    BY <1>1, <2>1 DEF Tally
  <2>3. \A m \in Md : ~s[m] => m # n /\ ~rtally.stale[m]
    BY <2>1
  <2>4. rtally' \in Tally /\ rtally'.stale = s
    <3> HIDE DEF s
    <3> QED BY <2>1, <2>2 DEF Tally
  <2> QED BY <2>3, <2>4
<1>3. /\ rjob' \in [Md -> Job]
      /\ \A m \in Md : rjob'[m].status = rjob[m].status /\ (m # n => rjob'[m] = rjob[m])
  <2> DEFINE j == [rjob[n] EXCEPT !.fresh = FALSE]
  <2>1. rjob' = [rjob EXCEPT ![n] = j]
    BY <1>1
  <2>2. rjob[n] \in Job
    BY DEF RInv, Types
  <2>3. j \in Job /\ j.status = rjob[n].status
    BY <2>2 DEF Job
  <2> HIDE DEF j
  <2> QED BY <2>1, <2>3 DEF RInv, Types
<1>4. Types' /\ PaddleGrows
  BY <1>1, <1>2, <1>3, PaddleSame DEF RInv, Types
<1>5. \A v \in Worker : Knows(v)'
  BY <1>1, <1>4, OthersKnow
<1>6. \A m \in Md : rjob'[m].status \in Replaced => HasPaddle(m)'
  BY <1>3, <1>4, PaddleStays DEF RInv
<1>7. ASSUME NEW m \in Md, NEW v \in Worker, Held(v, m)' PROVE Held(v, m) /\ m # n
  BY <1>1, <1>2, <1>7 DEF Held, On, M
<1> QED BY <1>3, <1>4, <1>5, <1>6, <1>7 DEF RInv

LEMMA UserOK ==
  ASSUME RInv, UserEdits
  PROVE  RInv'
<1>1. UNCHANGED <<rjob, rw>>
  BY DEF UserEdits
<1>2. rtally' \in Tally /\ rtally'.stale = rtally.stale
  <2> DEFINE n == rtally.edits + 1
  <2>1. rtally \in Tally /\ n \in Nat /\ rtally' = [rtally EXCEPT !.edits = n]
    BY DEF RInv, Types, Tally, UserEdits
  <2> HIDE DEF n
  <2> QED BY <2>1 DEF Tally
<1>3. child' \in [Md -> BOOLEAN] /\ pdf' \in [Pdfs -> BOOLEAN]
  <2>1. UNCHANGED child \/ \E m \in Md : child' = [child EXCEPT ![m] = FALSE]
    BY DEF UserEdits
  <2>2. UNCHANGED pdf \/ \E p \in Pdfs : pdf' = [pdf EXCEPT ![p] = ~pdf[p]]
    BY DEF UserEdits
  <2> QED BY <2>1, <2>2 DEF RInv, Types
<1>4. PaddleGrows
  <2>1. UNCHANGED paddle \/ \E p \in Pdfs : paddle' = [paddle EXCEPT ![p].child = FALSE]
    BY DEF UserEdits
  <2>2. ASSUME NEW p \in Pdfs, paddle' = [paddle EXCEPT ![p].child = FALSE]
        PROVE  PaddleGrows
    <3> DEFINE c == [paddle[p] EXCEPT !.child = FALSE]
    <3>1. paddle[p] \in [row : BOOLEAN, child : BOOLEAN]
      BY DEF RInv, Types
    <3>2. c \in [row : BOOLEAN, child : BOOLEAN] /\ c.row = paddle[p].row
      BY <3>1
    <3>3. paddle' = [paddle EXCEPT ![p] = c]
      BY <2>2
    <3> HIDE DEF c
    <3> QED BY <3>2, <3>3 DEF PaddleGrows, RInv, Types
  <2> QED BY <2>1, <2>2, PaddleSame DEF RInv
<1>5. Types'
  BY <1>1, <1>2, <1>3, <1>4 DEF RInv, Types, PaddleGrows
<1>6. \A v \in Worker : Knows(v)'
  BY <1>1, <1>4, OthersKnow
<1>7. \A m \in Md : rjob'[m].status \in Replaced => HasPaddle(m)'
  BY <1>1, <1>4, PaddleStays DEF RInv
<1>8. \A m \in Md, v \in Worker : Held(v, m)' => Held(v, m)
  BY <1>1, <1>2 DEF Held, On, M
<1> QED BY <1>1, <1>5, <1>6, <1>7, <1>8 DEF RInv

-----------------------------------------------------------------------------

LEMMA WorkerOK ==
  ASSUME RInv, NEW w \in Worker, RStep(w) \/ Dies(w) \/ StopsEarly(w)
  PROVE  RInv'
<1>1. CASE Claim(w)
  BY <1>1, ClaimOK, RestsOK
<1>2. CASE ~Claim(w)
  BY <1>2, SeedOK, RestsOK, BlocksOK, DeleteOK, VerifyOK, GoesOnOK, ConvertOK DEF RStep
<1> QED BY <1>1, <1>2

LEMMA ReplacementInvariant ==
  ASSUME NoPdf \notin Replaced
  PROVE  RSpec => []RInv
<1>1. RInit => RInv
  <2> SUFFICES ASSUME RInit PROVE RInv
    OBVIOUS
  <2>1. IsWorker(Resting) /\ Resting.pc = "off"
    BY DEF IsWorker, Resting, Place
  <2>2. Types
    <3>1. [status |-> NoPdf, fresh |-> TRUE] \in Job
      BY DEF Job, Status
    <3>2. rjob \in [Md -> Job]
      BY <3>1, Zenon DEF RInit
    <3>3. rtally \in Tally
      BY DEF RInit, Tally
    <3>4. paddle \in [Pdfs -> [row : BOOLEAN, child : BOOLEAN]]
      <4>1. {[row |-> FALSE, child |-> FALSE], [row |-> TRUE, child |-> TRUE]}
              \subseteq [row : BOOLEAN, child : BOOLEAN]
        OBVIOUS
      <4> QED BY <4>1 DEF RInit
    <3> QED BY <2>1, <3>2, <3>3, <3>4 DEF RInit, Types
  <2>3. \A w \in Worker : rw[w].pc = "off"
    BY <2>1 DEF RInit
  <2>4. \A m \in Md : rjob[m].status = NoPdf
    BY DEF RInit
  <2> QED BY <2>2, <2>3, <2>4 DEF RInv, Knows, Checked, Held, On
<1>2. RInv /\ [RNext]_replaceVars => RInv'
  <2> SUFFICES ASSUME RInv, [RNext]_replaceVars PROVE RInv'
    OBVIOUS
  <2>1. CASE RNext
    BY <2>1, WorkerOK, RunsOutOK, UserOK DEF RNext
  <2>2. CASE UNCHANGED replaceVars
    <3>1. UNCHANGED <<child, pdf, paddle, rjob, rw, rtally>>
      BY <2>2 DEF replaceVars
    <3>2. Types' /\ PaddleGrows
      BY <3>1, PaddleSame DEF RInv, Types
    <3>3. \A v \in Worker : Knows(v)'
      BY <3>1, <3>2, OthersKnow
    <3>4. \A m \in Md, v \in Worker : Held(v, m)' => Held(v, m)
      BY <3>1 DEF Held, On, M
    <3> QED BY <3>1, <3>2, <3>3, <3>4, PaddleStays DEF RInv
  <2> QED BY <2>1, <2>2
<1> QED BY <1>1, <1>2, PTL DEF RSpec

\* However many workers share the jobs, whatever fails and whatever the user
\* does to the library: two workers are on one job only when a claim on it ran
\* out, and a child counts as replaced only with a Paddle conversion recorded.
THEOREM ReplacementStaysRight ==
  ASSUME NoPdf \notin Replaced
  PROVE  RSpec => []ReplacementIsRight
<1>1. RInv => ReplacementIsRight
  <2> SUFFICES ASSUME RInv PROVE ReplacementIsRight
    OBVIOUS
  <2>1. ReplacementTypeOK
    <3>1. \A w \in Worker : DOMAIN rw[w] = DOMAIN Resting /\ rw[w].pc \in Place
      BY DEF RInv, Types, IsWorker, Resting
    <3> QED BY <3>1 DEF RInv, Types, ReplacementTypeOK, Job
  <2>2. ASSUME NEW m \in Md, ~rtally.stale[m]
        PROVE  Cardinality({w \in Worker : On(w, m)}) <= 1
    <3> DEFINE S == {w \in Worker : On(w, m)}
    <3>1. \A v, w \in S : v = w
      BY <2>2 DEF RInv, Held
    <3>2. CASE S = {}
      BY <3>2, FS_EmptySet
    <3>3. CASE S # {}
      <4>1. PICK w : S = {w}
        BY <3>1, <3>3
      <4> HIDE DEF S
      <4>2. Cardinality(S) = 1
        BY <4>1, FS_Singleton
      <4> QED BY <4>2 DEF S
    <3> QED BY <3>2, <3>3
  <2>3. ReplacedHasPaddle
    BY DEF ReplacedHasPaddle, RInv, HasPaddle, Knows, Checked, WAt
  <2> QED BY <2>1, <2>2, <2>3 DEF ReplacementIsRight, ClaimsAreExclusive
<1> QED BY <1>1, ReplacementInvariant, PTL

\* A result stands: a worker writes to the job it is on, which is in progress while
\* its claim has not run out, and a run that starts leaves results alone.
THEOREM ResultsStand ==
  ASSUME NoPdf \notin Replaced
  PROVE  RSpec => ResultStands
<1> DEFINE Result == Replaced \cup Blocked
           Stands == \A m \in Md : rjob[m].status \in Result =>
                       rjob'[m].status = rjob[m].status \/ rtally.stale[m]
<1>1. ASSUME RInv, NEW w \in Worker, NEW m \in Md, NEW n, NEW st,
             rw[w].pc \notin Away, n = M(w), UpdateJob(n, st), rjob[m].status \in Result
      PROVE  rjob'[m].status = rjob[m].status \/ rtally.stale[m]
  <2>1. CASE m = n
    <3>1. On(w, m)
      BY <1>1, <2>1 DEF On, Away
    <3>2. ~rtally.stale[m] => rjob[m] = [status |-> "in_progress", fresh |-> TRUE]
      BY <1>1, <3>1 DEF RInv, Held
    <3> QED BY <1>1, <3>2 DEF Replaced, Blocked
  <2>2. CASE m # n
    BY <1>1, <2>2 DEF UpdateJob, RInv, Types
  <2> QED BY <2>1, <2>2
<1>2. ASSUME RInv, NEW w \in Worker, RStep(w) PROVE Stands
  <2>1. CASE UNCHANGED rjob
    BY <2>1
  <2>2. CASE StartReplacing(w)
    <3>1. PICK found : rjob' = SeedCandidates(found)
      BY <2>2 DEF StartReplacing
    <3> QED BY <3>1 DEF SeedCandidates
  <2>3. CASE Claim(w)
    <3>1. CASE Claimable(M(w)) /\ UpdateJob(M(w), "in_progress")
      <4>1. ASSUME NEW m \in Md, rjob[m].status \in Result PROVE rjob'[m] = rjob[m]
        BY <1>2, <3>1, <4>1 DEF Claimable, UpdateJob, RInv, Types
      <4> QED BY <4>1
    <3> QED BY <2>1, <2>3, <3>1 DEF Claim
  <2>4. CASE rw[w].pc \notin Away /\ \E st : UpdateJob(M(w), st)
    BY <1>1, <1>2, <2>4
  <2> HIDE DEF Stands
  <2> QED BY <1>2, <2>1, <2>2, <2>3, <2>4
          DEF RStep, Finished, MissingSource, ReadPdf, ParentMismatch, DirtyText, Sound,
              LookForPaddle, LookFails, ConvertPaddle, ConvertStopsRun, ConvertGoesWrong, Verify,
              VerifyFails, DeleteOld, DeleteFails, Block, WAt, Away
<1>3. ASSUME RInv, RNext PROVE Stands
  <2>1. CASE \E w \in Worker : RStep(w)
    BY <1>2, <1>3, <2>1
  <2>2. CASE UNCHANGED rjob
    BY <2>2
  <2>3. CASE \E n \in Md : RunsOut(n)
    BY <1>3, <2>3 DEF RunsOut, RInv, Types, Job
  <2> QED BY <1>3, <2>1, <2>2, <2>3 DEF RNext, Dies, StopsEarly, UserEdits
<1>4. RInv /\ [RNext]_replaceVars => [Stands]_replaceVars
  BY <1>3
<1> QED BY <1>4, ReplacementInvariant, PTL DEF RSpec, ResultStands

-----------------------------------------------------------------------------
(* LawPolitics: the inductive invariant.                                   *)

Places == {"off", "next", "look", "extract", "create", "file", "record", "complete"}
Jobs == {Absent, "pending", "skipped_parent_has_markdown", "completed", "error"}
LawTally == [faults: Nat, runs: Nat, paid: [LPdf -> Nat], lapses: [LPdf -> Nat]]

LawTypes ==
  /\ web \in [LPdf -> Seq(BOOLEAN)]
  /\ seen \in [LPdf -> Nat] /\ \A p \in LPdf : seen[p] <= Len(web[p])
  /\ ldoc \in [LPdf -> BOOLEAN] /\ ljob \in [LPdf -> Jobs]
  /\ lrun = [pc |-> lrun.pc, todo |-> lrun.todo] /\ lrun.pc \in Places
  /\ ltally \in LawTally

\* What the batch knows of the target p it works on.
LawKnows(p) ==
  /\ lrun.pc \in {"extract", "create", "file", "record"} => ~ldoc[p]
  /\ lrun.pc \in {"file", "record"} => web[p] # <<>>
  /\ lrun.pc = "record" => web[p][Len(web[p])] = TRUE
  /\ lrun.pc = "complete" => ldoc[p]

Extra(p) == IF ldoc[p] \/ (Unrecorded /\ p = T) THEN 1 ELSE 0

LawOK ==
  /\ LawTypes
  /\ \A p \in LPdf :
       /\ p = T => LawKnows(p)
       /\ Len(web[p]) <= ltally.lapses[p] + Extra(p)
       /\ ldoc[p] => TRUE \in ToSet(web[p])
       /\ ljob[p] = "completed" => ldoc[p]

-----------------------------------------------------------------------------

\* A child more, or the file of the last one, takes no file away.
LEMMA Texts ==
  ASSUME NEW S, NEW s \in Seq(S), NEW x \in S, NEW y \in S
  PROVE  /\ Append(s, x) \in Seq(S) /\ Len(Append(s, x)) = Len(s) + 1
         /\ Append(s, x) # <<>> /\ Len(s) \in Nat
         /\ y \in ToSet(s) => y \in ToSet(Append(s, x))
         /\ s # <<>> => /\ [s EXCEPT ![Len(s)] = x] \in Seq(S)
                        /\ Len([s EXCEPT ![Len(s)] = x]) = Len(s)
                        /\ [s EXCEPT ![Len(s)] = x] # <<>>
                        /\ [s EXCEPT ![Len(s)] = x][Len(s)] = x
                        /\ s[Len(s)] = y => y \in ToSet(s)
<1>1. Len(s) \in Nat /\ DOMAIN s = 1 .. Len(s) /\ (s # <<>> => Len(s) \in 1 .. Len(s))
  <2>1. Len(s) \in Nat /\ DOMAIN s = 1 .. Len(s) /\ (s # <<>> => Len(s) \in Nat \ {0})
    BY LenProperties, EmptySeq
  <2> QED BY <2>1
<1>2. /\ Append(s, x) \in Seq(S) /\ Append(s, x) # <<>>
      /\ Len(Append(s, x)) = Len(s) + 1
      /\ \A i \in 1 .. Len(s) : Append(s, x)[i] = s[i]
  BY AppendProperties
<1>3. DOMAIN s \subseteq DOMAIN Append(s, x)
  <2>1. DOMAIN Append(s, x) = 1 .. Len(Append(s, x))
    BY <1>2, LenProperties
  <2> QED BY <1>1, <1>2, <2>1
<1>4. y \in ToSet(s) => y \in ToSet(Append(s, x))
  BY <1>1, <1>2, <1>3 DEF ToSet
<1>5. ASSUME s # <<>>
      PROVE  /\ [s EXCEPT ![Len(s)] = x] \in Seq(S)
             /\ Len([s EXCEPT ![Len(s)] = x]) = Len(s)
             /\ [s EXCEPT ![Len(s)] = x] # <<>>
             /\ [s EXCEPT ![Len(s)] = x][Len(s)] = x
             /\ s[Len(s)] = y => y \in ToSet(s)
  <2>1. Len(s) \in 1 .. Len(s)
    BY <1>1, <1>5
  <2>2. [s EXCEPT ![Len(s)] = x] \in Seq(S) /\ Len([s EXCEPT ![Len(s)] = x]) = Len(s)
    BY <2>1, ExceptSeq
  <2>3. [s EXCEPT ![Len(s)] = x][Len(s)] = x
    BY <1>1, <2>1
  <2>4. Len(s) # 0 /\ Len(<<>>) = 0
    BY <2>1, EmptySeq
  <2> QED BY <1>1, <2>1, <2>2, <2>3, <2>4 DEF ToSet
<1> QED BY <1>1, <1>2, <1>4, <1>5

LEMMA Children ==
  ASSUME NEW s \in Seq(BOOLEAN)
  PROVE  /\ Append(s, FALSE) \in Seq(BOOLEAN) /\ Len(Append(s, FALSE)) = Len(s) + 1
         /\ Append(s, FALSE) # <<>> /\ Len(s) \in Nat
         /\ TRUE \in ToSet(s) => TRUE \in ToSet(Append(s, FALSE))
         /\ s # <<>> => /\ [s EXCEPT ![Len(s)] = TRUE] \in Seq(BOOLEAN)
                        /\ Len([s EXCEPT ![Len(s)] = TRUE]) = Len(s)
                        /\ [s EXCEPT ![Len(s)] = TRUE] # <<>>
                        /\ [s EXCEPT ![Len(s)] = TRUE][Len(s)] = TRUE
                        /\ s[Len(s)] = TRUE => TRUE \in ToSet(s)
<1>1. TRUE \in BOOLEAN /\ FALSE \in BOOLEAN
  OBVIOUS
<1> QED BY <1>1, Texts, Zenon

LEMMA Counted ==
  ASSUME NEW D, NEW f \in [D -> Nat], NEW k, NEW n \in Nat
  PROVE  /\ [f EXCEPT ![k] = @ + n] \in [D -> Nat]
         /\ \A d \in D : [f EXCEPT ![k] = @ + n][d] = IF d = k THEN f[d] + n ELSE f[d]
<1>1. CASE k \in D
  BY <1>1
<1>2. CASE k \notin D
  <2>1. [f EXCEPT ![k] = @ + n] = f
    BY <1>2
  <2> QED BY <1>2, <2>1
<1> QED BY <1>1, <1>2

\* The types a step keeps when it leaves children and rows alone.
LEMMA TypesStay ==
  ASSUME LawOK, UNCHANGED <<web, seen, ldoc>>, ljob' \in [LPdf -> Jobs],
         lrun' = [pc |-> lrun'.pc, todo |-> lrun'.todo], lrun'.pc \in Places, ltally' \in LawTally
  PROVE  LawTypes'
BY DEF LawOK, LawTypes

\* A step that leaves children and rows alone, and does not go on with the
\* target as if it were another.
LEMMA Rests ==
  ASSUME LawOK, UNCHANGED <<web, ldoc>>, LawTypes',
         \A p \in LPdf : ltally'.lapses[p] >= ltally.lapses[p] + Extra(p) - Extra(p)',
         \A p \in LPdf : p = T' => LawKnows(p)',
         \A p \in LPdf : ljob'[p] = "completed" => ldoc[p]
  PROVE  LawOK'
<1>1. ASSUME NEW p \in LPdf PROVE Len(web'[p]) <= ltally'.lapses[p] + Extra(p)'
  <2>1. Len(web[p]) \in Nat /\ ltally.lapses[p] \in Nat /\ ltally'.lapses[p] \in Nat
    BY Children DEF LawOK, LawTypes, LawTally
  <2>2. Extra(p) \in {0, 1} /\ Extra(p)' \in {0, 1}
    BY DEF Extra
  <2>3. Len(web[p]) <= ltally.lapses[p] + Extra(p)
    BY DEF LawOK
  <2> QED BY <2>1, <2>2, <2>3
<1> QED BY <1>1 DEF LawOK

LEMMA QuietOK ==
  ASSUME LawOK, StartBatch \/ BatchEnds \/ SkipBook \/ TakeTarget \/ LookForRow
                \/ Extract \/ Completed
  PROVE  LawOK'
<1>1. UNCHANGED <<web, seen, ldoc>>
  BY DEF StartBatch, BatchEnds, SkipBook, TakeTarget, LookForRow, Extract, Completed
<1>2. lrun' = [pc |-> lrun'.pc, todo |-> lrun'.todo] /\ lrun'.pc \in Places
      /\ lrun.pc \notin {"file", "record"} /\ lrun'.pc \notin {"file", "record"}
  BY DEF StartBatch, BatchEnds, SkipBook, TakeTarget, LookForRow, Extract, Completed,
         LawOK, LawTypes, LOff, LAt, LTo, LNext, Places
<1>3. ltally' \in LawTally /\ ltally'.lapses = ltally.lapses
  <2>0. ltally \in LawTally
    BY DEF LawOK, LawTypes
  <2>1. CASE StartBatch
    BY <2>0, <2>1 DEF StartBatch, LawTally
  <2>2. CASE LFault
    BY <2>0, <2>2 DEF LFault, LawTally
  <2>3. CASE Extract
    <3>1. [ltally.paid EXCEPT ![T] = @ + 1] \in [LPdf -> Nat]
      BY <2>0, Counted DEF LawTally
    <3>2. ltally' = [ltally EXCEPT !.paid = [ltally.paid EXCEPT ![T] = @ + 1]]
      BY <2>0, <2>3 DEF Extract, LawTally
    <3> QED BY <2>0, <3>1, <3>2 DEF LawTally
  <2>4. CASE UNCHANGED ltally
    BY <2>0, <2>4
  <2> QED BY <2>1, <2>2, <2>3, <2>4 DEF BatchEnds, SkipBook, TakeTarget, LookForRow, Completed
<1>4. ljob' \in [LPdf -> Jobs] /\ \A p \in LPdf : ljob'[p] = "completed" => ldoc[p]
  <2>1. ASSUME NEW x \in Jobs, UpdateLaw(T, x), x = "completed" => \A p \in LPdf : p = T => ldoc[p]
        PROVE  ljob' \in [LPdf -> Jobs] /\ \A p \in LPdf : ljob'[p] = "completed" => ldoc[p]
    BY <2>1 DEF UpdateLaw, LawOK, LawTypes
  <2>2. CASE StartBatch
    BY <2>2 DEF StartBatch, LawOK, LawTypes, Jobs
  <2>3. CASE SkipBook
    BY <2>1, <2>3 DEF SkipBook, Jobs
  <2>4. CASE Completed
    BY <2>1, <2>4 DEF Completed, Jobs, LAt, LawOK, LawKnows
  <2>5. CASE LookForRow
    <3>1. CASE ldoc[T]
      BY <2>1, <2>5, <3>1 DEF LookForRow, Jobs
    <3>2. CASE ~ldoc[T]
      <4>1. ljob' = ljob
        BY <2>5, <3>2, Zenon DEF LookForRow
      <4> QED BY <4>1 DEF LawOK, LawTypes
    <3> QED BY <3>1, <3>2
  <2>6. CASE UNCHANGED ljob
    BY <2>6 DEF LawOK, LawTypes
  <2> QED BY <2>2, <2>3, <2>4, <2>5, <2>6 DEF BatchEnds, TakeTarget, Extract
<1>5. ASSUME NEW p \in LPdf, p = T' PROVE LawKnows(p)'
  <2>1. CASE lrun'.pc \in {"off", "next", "look"}
    BY <2>1 DEF LawKnows
  <2>2. CASE LookForRow /\ lrun'.pc = "extract"
    <3>1. ldoc[T] => lrun'.pc = "next"
      <4>1. ldoc[T] => LNext
        BY <2>2, Zenon DEF LookForRow
      <4> QED BY <4>1 DEF LNext
    <3>2. ~ldoc[T] => T' = T
      <4>1. ~ldoc[T] => LTo("extract")
        BY <2>2, Zenon DEF LookForRow
      <4> QED BY <4>1 DEF LTo, T, LawOK, LawTypes
    <3> QED BY <1>1, <1>5, <2>2, <3>1, <3>2 DEF LawKnows
  <2>3. CASE Extract
    <3>1. lrun.pc = "extract" /\ T' = T /\ lrun'.pc = "create"
      BY <2>3 DEF Extract, LAt, LTo, T, LawOK, LawTypes
    <3> QED BY <1>1, <1>5, <3>1 DEF LawKnows, LawOK
  <2> QED BY <2>1, <2>2, <2>3 DEF StartBatch, BatchEnds, SkipBook, TakeTarget, LookForRow, Completed,
         LawOK, LawTypes, LOff, LTo, LNext
<1>6. ASSUME NEW p \in LPdf
      PROVE  ltally'.lapses[p] >= ltally.lapses[p] + Extra(p) - Extra(p)'
  BY <1>1, <1>2, <1>3 DEF Extra, Unrecorded, LawOK, LawTypes, LawTally
<1> QED BY <1>1, <1>2, <1>3, <1>4, <1>5, <1>6, TypesStay, Rests

\* The steps between the creation of a child and its row.
LEMMA CreateOK ==
  ASSUME LawOK, CreateChild
  PROVE  LawOK'
<1>1. /\ lrun.pc = "create" /\ lrun' = [lrun EXCEPT !.pc = "file"]
      /\ web' = [web EXCEPT ![T] = Append(web[T], FALSE)]
      /\ UNCHANGED <<seen, ldoc, ljob, ltally>>
  BY DEF CreateChild, LAt, LTo
<1>2. lrun'.pc = "file" /\ T' = T /\ lrun' = [pc |-> lrun'.pc, todo |-> lrun'.todo]
  BY <1>1 DEF LawOK, LawTypes, T
<1>3. ASSUME NEW p \in LPdf
      PROVE  /\ web[p] \in Seq(BOOLEAN) /\ web'[p] = IF p = T THEN Append(web[p], FALSE) ELSE web[p]
             /\ web'[p] \in Seq(BOOLEAN) /\ Len(web[p]) \in Nat
             /\ Len(web'[p]) = IF p = T THEN Len(web[p]) + 1 ELSE Len(web[p])
             /\ p = T => web'[p] # <<>>
             /\ TRUE \in ToSet(web[p]) => TRUE \in ToSet(web'[p])
  <2>1. web[p] \in Seq(BOOLEAN) /\ web'[p] = IF p = T THEN Append(web[p], FALSE) ELSE web[p]
    BY <1>1 DEF LawOK, LawTypes
  <2> QED BY <2>1, Children
<1>4. LawTypes'
  <2>1. web' \in [LPdf -> Seq(BOOLEAN)]
    <3>1. DOMAIN web' = LPdf /\ web' = [p \in LPdf |-> web'[p]]
      BY <1>1 DEF LawOK, LawTypes
    <3> QED BY <1>3, <3>1
  <2> QED BY <1>1, <1>2, <1>3, <2>1 DEF LawOK, LawTypes, Places
<1>5. ASSUME NEW p \in LPdf
      PROVE  /\ p = T' => LawKnows(p)'
             /\ Len(web'[p]) <= ltally'.lapses[p] + Extra(p)'
             /\ ldoc'[p] => TRUE \in ToSet(web'[p])
             /\ ljob'[p] = "completed" => ldoc'[p]
  <2>1. p = T => ~ldoc[p]
    BY <1>1 DEF LawOK, LawKnows
  <2>2. Len(web'[p]) <= ltally'.lapses[p] + Extra(p)'
    <3>1. Len(web[p]) <= ltally.lapses[p] + Extra(p) /\ ltally.lapses[p] \in Nat
      BY DEF LawOK, LawTypes, LawTally
    <3>2. Extra(p) = IF ldoc[p] THEN 1 ELSE 0
      BY <1>1 DEF Extra, Unrecorded
    <3>3. Extra(p)' = IF ldoc[p] \/ p = T THEN 1 ELSE 0
      BY <1>1, <1>2 DEF Extra, Unrecorded
    <3> QED BY <1>1, <1>3, <2>1, <3>1, <3>2, <3>3
  <2>3. p = T' => LawKnows(p)'
    BY <1>1, <1>2, <1>3, <2>1 DEF LawKnows
  <2> QED BY <1>1, <1>3, <2>2, <2>3 DEF LawOK
<1> QED BY <1>4, <1>5 DEF LawOK

LEMMA UploadOK ==
  ASSUME LawOK, UploadFile
  PROVE  LawOK'
<1>1. /\ lrun.pc = "file" /\ lrun' = [lrun EXCEPT !.pc = "record"]
      /\ web' = [web EXCEPT ![T] = [web[T] EXCEPT ![Len(web[T])] = TRUE]]
      /\ UNCHANGED <<seen, ldoc, ljob, ltally>>
  BY DEF UploadFile, LAt, LTo
<1>2. lrun'.pc = "record" /\ T' = T /\ lrun' = [pc |-> lrun'.pc, todo |-> lrun'.todo]
  BY <1>1 DEF LawOK, LawTypes, T
<1>3. ASSUME NEW p \in LPdf
      PROVE  /\ web'[p] \in Seq(BOOLEAN) /\ Len(web'[p]) = Len(web[p])
             /\ p = T => web'[p] # <<>> /\ web'[p][Len(web'[p])] = TRUE /\ TRUE \in ToSet(web'[p])
             /\ p # T => web'[p] = web[p]
  <2>1. web[p] \in Seq(BOOLEAN) /\ (p = T => web[p] # <<>>)
    BY <1>1 DEF LawOK, LawTypes, LawKnows
  <2>2. web'[p] = IF p = T THEN [web[p] EXCEPT ![Len(web[p])] = TRUE] ELSE web[p]
    BY <1>1 DEF LawOK, LawTypes
  <2>3. web'[p] \in Seq(BOOLEAN) /\ Len(web'[p]) = Len(web[p])
    BY <2>1, <2>2, Children
  <2>4. p = T => web'[p] # <<>> /\ web'[p][Len(web'[p])] = TRUE
    BY <2>1, <2>2, <2>3, Children
  <2>5. p = T => TRUE \in ToSet(web'[p])
    BY <2>3, <2>4, Children
  <2> QED BY <2>2, <2>3, <2>4, <2>5
<1>4. LawTypes'
  <2>1. web' \in [LPdf -> Seq(BOOLEAN)]
    <3>1. DOMAIN web' = LPdf /\ web' = [p \in LPdf |-> web'[p]]
      BY <1>1 DEF LawOK, LawTypes
    <3> QED BY <1>3, <3>1
  <2> QED BY <1>1, <1>2, <1>3, <2>1 DEF LawOK, LawTypes, Places
<1>5. ASSUME NEW p \in LPdf
      PROVE  /\ p = T' => LawKnows(p)'
             /\ Len(web'[p]) <= ltally'.lapses[p] + Extra(p)'
             /\ ldoc'[p] => TRUE \in ToSet(web'[p])
             /\ ljob'[p] = "completed" => ldoc'[p]
  <2>1. p = T => ~ldoc[p]
    BY <1>1 DEF LawOK, LawKnows
  <2>2. Extra(p)' = Extra(p)
    BY <1>1, <1>2 DEF Extra, Unrecorded
  <2>3. Len(web'[p]) <= ltally'.lapses[p] + Extra(p)'
    BY <1>1, <1>3, <2>2 DEF LawOK
  <2>4. p = T' => LawKnows(p)'
    BY <1>1, <1>2, <1>3, <2>1 DEF LawKnows
  <2> QED BY <1>1, <1>3, <2>3, <2>4 DEF LawOK
<1> QED BY <1>4, <1>5 DEF LawOK

LEMMA RecordOK ==
  ASSUME LawOK, RecordRow
  PROVE  LawOK'
<1>1. /\ lrun.pc = "record" /\ lrun' = [lrun EXCEPT !.pc = "complete"]
      /\ ldoc' = [ldoc EXCEPT ![T] = TRUE]
      /\ UNCHANGED <<web, seen, ljob, ltally>>
  BY DEF RecordRow, LAt, LTo
<1>2. lrun'.pc = "complete" /\ T' = T /\ lrun' = [pc |-> lrun'.pc, todo |-> lrun'.todo]
  BY <1>1 DEF LawOK, LawTypes, T
<1>3. \A p \in LPdf : ldoc'[p] = IF p = T THEN TRUE ELSE ldoc[p]
  BY <1>1 DEF LawOK, LawTypes
<1>4. LawTypes'
  <2>1. ldoc' \in [LPdf -> BOOLEAN]
    BY <1>1 DEF LawOK, LawTypes
  <2> QED BY <1>1, <1>2, <2>1 DEF LawOK, LawTypes, Places
<1>5. ASSUME NEW p \in LPdf
      PROVE  /\ p = T' => LawKnows(p)'
             /\ Len(web'[p]) <= ltally'.lapses[p] + Extra(p)'
             /\ ldoc'[p] => TRUE \in ToSet(web'[p])
             /\ ljob'[p] = "completed" => ldoc'[p]
  <2>1. p = T => LawKnows(p)' /\ TRUE \in ToSet(web[p])
    <3>1. p = T => web[p] \in Seq(BOOLEAN) /\ web[p] # <<>> /\ web[p][Len(web[p])] = TRUE
      BY <1>1 DEF LawOK, LawTypes, LawKnows
    <3>2. p = T => ldoc'[p]
      BY <1>3
    <3> QED BY <1>2, <3>1, <3>2, Children DEF LawKnows
  <2>2. Extra(p)' = Extra(p)
    BY <1>1, <1>2, <1>3 DEF Extra, Unrecorded
  <2>3. ldoc[p] => TRUE \in ToSet(web[p])
    BY DEF LawOK
  <2>4. ldoc'[p] => p = T \/ ldoc[p]
    BY <1>3
  <2>5. ljob[p] = "completed" => ldoc'[p]
    BY <1>3 DEF LawOK
  <2> QED BY <1>1, <1>2, <2>1, <2>2, <2>3, <2>4, <2>5 DEF LawOK
<1> QED BY <1>4, <1>5 DEF LawOK

LEMMA Faulted ==
  ASSUME NEW t \in LawTally, NEW l \in [LPdf -> Nat]
  PROVE  /\ [t EXCEPT !.faults = @ + 1, !.lapses = l] \in LawTally
         /\ [t EXCEPT !.faults = @ + 1, !.lapses = l].lapses = l
<1> DEFINE n == t.faults + 1
<1>1. n \in Nat
  BY DEF LawTally
<1>2. [t EXCEPT !.faults = n, !.lapses = l] \in LawTally /\ [t EXCEPT !.faults = n, !.lapses = l].lapses = l
  <2> HIDE DEF n
  <2> QED BY <1>1 DEF LawTally
<1> QED BY <1>2

\* A fault costs a lapse where the child is made and its row is not.
LEMMA LapseOK ==
  ASSUME LawOK, Lapse
  PROVE  /\ ltally' \in LawTally
         /\ \A p \in LPdf : ltally'.lapses[p] =
              ltally.lapses[p] + IF p = T /\ Unrecorded THEN 1 ELSE 0
<1> DEFINE n == IF Unrecorded THEN 1 ELSE 0
<1>1. ltally \in LawTally /\ n \in Nat
  BY DEF LawOK, LawTypes
<1>2. ltally' = [ltally EXCEPT !.faults = @ + 1, !.lapses = [ltally.lapses EXCEPT ![T] = @ + n]]
  BY <1>1 DEF Lapse, LawTally
<1>3. /\ [ltally.lapses EXCEPT ![T] = @ + n] \in [LPdf -> Nat]
      /\ \A p \in LPdf : [ltally.lapses EXCEPT ![T] = @ + n][p] =
           IF p = T THEN ltally.lapses[p] + n ELSE ltally.lapses[p]
  <2> HIDE DEF n
  <2>1. ltally.lapses \in [LPdf -> Nat]
    BY <1>1 DEF LawTally
  <2> QED BY <1>1, <2>1, Counted
<1>4. ltally' \in LawTally /\ ltally'.lapses = [ltally.lapses EXCEPT ![T] = @ + n]
  <2> DEFINE l == [ltally.lapses EXCEPT ![T] = @ + n]
  <2>1. l \in [LPdf -> Nat] /\ ltally' = [ltally EXCEPT !.faults = @ + 1, !.lapses = l]
    BY <1>2, <1>3
  <2>2. ltally' \in LawTally /\ ltally'.lapses = l
    <3> HIDE DEF l
    <3> QED BY <1>1, <2>1, Faulted
  <2> QED BY <2>2
<1>5. \A p \in LPdf : ltally.lapses[p] \in Nat
  BY <1>1 DEF LawTally
<1> QED BY <1>3, <1>4, <1>5

LEMMA BreakOK ==
  ASSUME LawOK, TargetFails \/ BatchDies
  PROVE  LawOK'
<1>1. UNCHANGED <<web, seen, ldoc>> /\ lrun' = [pc |-> lrun'.pc, todo |-> lrun'.todo]
      /\ lrun'.pc \in {"off", "next"}
  BY DEF TargetFails, BatchDies, LNext, LOff
<1>2. ljob' \in [LPdf -> Jobs] /\ \A p \in LPdf : ljob'[p] = "completed" => ldoc[p]
  BY DEF TargetFails, BatchDies, UpdateLaw, LawOK, LawTypes, Jobs
<1>3. ltally' \in LawTally
      /\ \A p \in LPdf : ltally'.lapses[p] = ltally.lapses[p] + IF p = T /\ Unrecorded THEN 1 ELSE 0
  <2>1. CASE Lapse
    BY <2>1, LapseOK
  <2>2. CASE lrun.pc = "next" /\ LFault
    <3>1. ltally \in LawTally /\ ~Unrecorded
      BY <2>2 DEF LawOK, LawTypes, Unrecorded
    <3>2. ltally' \in LawTally /\ ltally'.lapses = ltally.lapses
      BY <2>2, <3>1 DEF LFault, LawTally
    <3>3. \A p \in LPdf : ltally.lapses[p] \in Nat
      BY <3>1 DEF LawTally
    <3> QED BY <3>1, <3>2, <3>3
  <2> QED BY <2>1, <2>2 DEF TargetFails, BatchDies, LAt
<1>4. LawTypes'
  BY <1>1, <1>2, <1>3, TypesStay DEF Places
<1>5. \A p \in LPdf : p = T' => LawKnows(p)'
  BY <1>1 DEF LawKnows
<1>6. ASSUME NEW p \in LPdf
      PROVE  ltally'.lapses[p] >= ltally.lapses[p] + Extra(p) - Extra(p)'
  <2>1. Extra(p)' = IF ldoc[p] THEN 1 ELSE 0
    BY <1>1 DEF Extra, Unrecorded
  <2>2. Extra(p) <= (IF ldoc[p] THEN 1 ELSE 0) + IF p = T /\ Unrecorded THEN 1 ELSE 0
    BY DEF Extra
  <2>3. Extra(p) \in {0, 1} /\ ltally.lapses[p] \in Nat
    BY DEF Extra, LawOK, LawTypes, LawTally
  <2> QED BY <1>3, <2>1, <2>2, <2>3
<1> QED BY <1>1, <1>2, <1>4, <1>5, <1>6, Rests

LEMMA ReplyLostOK ==
  ASSUME LawOK, CreateReplyLost
  PROVE  LawOK'
<1>1. /\ lrun.pc = "create" /\ lrun'.pc = "next" /\ lrun' = [pc |-> lrun'.pc, todo |-> lrun'.todo]
      /\ web' = [web EXCEPT ![T] = Append(web[T], FALSE)]
      /\ UNCHANGED <<seen, ldoc>> /\ UpdateLaw(T, "error")
      /\ ltally' = [ltally EXCEPT !.faults = @ + 1, !.lapses[T] = @ + 1]
  BY DEF CreateReplyLost, LAt, LNext
<1>2. ljob' \in [LPdf -> Jobs] /\ \A p \in LPdf : ljob'[p] = "completed" => ldoc[p]
  BY <1>1 DEF UpdateLaw, LawOK, LawTypes, Jobs
<1>3. ASSUME NEW p \in LPdf
      PROVE  /\ web[p] \in Seq(BOOLEAN) /\ web'[p] = IF p = T THEN Append(web[p], FALSE) ELSE web[p]
             /\ web'[p] \in Seq(BOOLEAN) /\ Len(web[p]) \in Nat
             /\ Len(web'[p]) = IF p = T THEN Len(web[p]) + 1 ELSE Len(web[p])
             /\ TRUE \in ToSet(web[p]) => TRUE \in ToSet(web'[p])
  <2>1. web[p] \in Seq(BOOLEAN) /\ web'[p] = IF p = T THEN Append(web[p], FALSE) ELSE web[p]
    BY <1>1 DEF LawOK, LawTypes
  <2> QED BY <2>1, Children
<1>4. /\ ltally' \in LawTally
      /\ \A p \in LPdf : ltally'.lapses[p] = IF p = T THEN ltally.lapses[p] + 1 ELSE ltally.lapses[p]
  <2> DEFINE l == [ltally.lapses EXCEPT ![T] = @ + 1]
  <2>1. ltally \in LawTally /\ ltally.lapses \in [LPdf -> Nat]
    BY DEF LawOK, LawTypes, LawTally
  <2>2. ltally' = [ltally EXCEPT !.faults = @ + 1, !.lapses = l]
    BY <1>1, <2>1 DEF LawTally
  <2>3. /\ l \in [LPdf -> Nat]
        /\ \A p \in LPdf : l[p] = IF p = T THEN ltally.lapses[p] + 1 ELSE ltally.lapses[p]
    BY <2>1, Counted
  <2> HIDE DEF l
  <2>4. ltally' \in LawTally /\ ltally'.lapses = l
    BY <2>1, <2>2, <2>3, Faulted
  <2> QED BY <2>3, <2>4
<1>5. LawTypes'
  <2>1. web' \in [LPdf -> Seq(BOOLEAN)]
    <3>1. DOMAIN web' = LPdf /\ web' = [p \in LPdf |-> web'[p]]
      BY <1>1 DEF LawOK, LawTypes
    <3> QED BY <1>3, <3>1
  <2> QED BY <1>1, <1>2, <1>3, <1>4, <2>1 DEF LawOK, LawTypes, Places
<1>6. ASSUME NEW p \in LPdf
      PROVE  /\ p = T' => LawKnows(p)'
             /\ Len(web'[p]) <= ltally'.lapses[p] + Extra(p)'
             /\ ldoc'[p] => TRUE \in ToSet(web'[p])
  <2>1. Extra(p)' = Extra(p) /\ Extra(p) \in {0, 1}
    BY <1>1 DEF Extra, Unrecorded
  <2>2. Len(web[p]) <= ltally.lapses[p] + Extra(p) /\ ltally.lapses[p] \in Nat
    BY DEF LawOK, LawTypes, LawTally
  <2>3. Len(web'[p]) <= ltally'.lapses[p] + Extra(p)'
    <3>1. CASE p = T
      <4>1. Len(web'[p]) = Len(web[p]) + 1 /\ ltally'.lapses[p] = ltally.lapses[p] + 1 /\ Len(web[p]) \in Nat
        BY <1>3, <1>4, <3>1
      <4> QED BY <2>1, <2>2, <4>1
    <3>2. CASE p # T
      BY <1>3, <1>4, <2>1, <2>2, <3>2
    <3> QED BY <3>1, <3>2
  <2>4. p = T' => LawKnows(p)'
    BY <1>1 DEF LawKnows
  <2> QED BY <1>1, <1>3, <2>3, <2>4 DEF LawOK
<1> QED BY <1>1, <1>2, <1>5, <1>6 DEF LawOK

LEMMA SyncOK ==
  ASSUME LawOK, Sync
  PROVE  LawOK'
<1>1. UNCHANGED <<web, ldoc, ljob, lrun, ltally>> /\ seen' = [p \in LPdf |-> Len(web[p])]
  BY DEF Sync
<1>2. \A p \in LPdf : Len(web[p]) \in Nat
  BY Children DEF LawOK, LawTypes
<1>3. LawTypes'
  BY <1>1, <1>2 DEF LawOK, LawTypes
<1>4. \A p \in LPdf : Extra(p)' = Extra(p) /\ (LawKnows(p) => LawKnows(p)') /\ T' = T
  BY <1>1 DEF Extra, Unrecorded, LawKnows, T
<1> QED BY <1>1, <1>3, <1>4 DEF LawOK

LEMMA LawInvariant ==
  ASSUME Absent # "completed"
  PROVE  LSpec => []LawOK
<1>1. LInit => LawOK
  <2> SUFFICES ASSUME LInit PROVE LawOK
    OBVIOUS
  <2>1. <<>> \in Seq(BOOLEAN) /\ Len(<<>>) = 0
    BY EmptySeq
  <2>2. LawTypes
    BY <2>1 DEF LInit, LawTypes, Jobs, Places, LawTally, LOff
  <2>3. ASSUME NEW p \in LPdf
        PROVE  /\ p = T => LawKnows(p)
               /\ Len(web[p]) <= ltally.lapses[p] + Extra(p)
               /\ ldoc[p] => TRUE \in ToSet(web[p])
               /\ ljob[p] = "completed" => ldoc[p]
    <3>1. Extra(p) \in {0, 1} /\ ltally.lapses[p] = 0 /\ web[p] = <<>> /\ ~ldoc[p] /\ ljob[p] = Absent
          /\ lrun.pc = "off"
      BY DEF LInit, Extra, LOff
    <3>2. LawKnows(p)
      BY <3>1 DEF LawKnows
    <3>3. Len(web[p]) <= ltally.lapses[p] + Extra(p)
      BY <2>1, <3>1
    <3>4. ljob[p] # "completed"
      BY <3>1
    <3> QED BY <3>1, <3>2, <3>3, <3>4
  <2> QED BY <2>2, <2>3 DEF LawOK
<1>2. LawOK /\ [LNextState]_lawVars => LawOK'
  <2> SUFFICES ASSUME LawOK, [LNextState]_lawVars PROVE LawOK'
    OBVIOUS
  <2>1. CASE LNextState
    BY <2>1, QuietOK, CreateOK, UploadOK, RecordOK, BreakOK, ReplyLostOK, SyncOK DEF LNextState, LStep
  <2>2. CASE UNCHANGED lawVars
    <3>1. UNCHANGED <<web, seen, ldoc, ljob, lrun, ltally>>
      BY <2>2 DEF lawVars
    <3>2. LawTypes' /\ \A p \in LPdf : Extra(p)' = Extra(p) /\ (LawKnows(p) => LawKnows(p)') /\ T' = T
      BY <3>1 DEF LawOK, LawTypes, Extra, Unrecorded, LawKnows, T
    <3> QED BY <3>1, <3>2 DEF LawOK
  <2> QED BY <2>1, <2>2
<1> QED BY <1>1, <1>2, PTL DEF LSpec

\* However often the batch runs, however late the local library is and wherever
\* it fails: a PDF gets a second child only after a lapse between the creation
\* of a child and its row, and what counts as completed has its file.
THEOREM LawStaysRight ==
  ASSUME Absent # "completed"
  PROVE  LSpec => []LawIsRight
<1>1. LawOK => LawIsRight
  <2> SUFFICES ASSUME LawOK PROVE LawIsRight
    OBVIOUS
  <2>1. LawTypeOK
    <3>1. \A p \in LPdf : Len(web[p]) \in Nat
      BY Children DEF LawOK, LawTypes
    <3>2. \A p \in LPdf : seen[p] \in 0 .. Len(web[p])
      BY <3>1 DEF LawOK, LawTypes
    <3> QED BY <3>2 DEF LawOK, LawTypes, LawTypeOK, Jobs, Places
  <2>2. ASSUME NEW p \in LPdf PROVE Len(web[p]) <= 1 + ltally.lapses[p]
    <3>1. Extra(p) \in {0, 1} /\ ltally.lapses[p] \in Nat /\ Len(web[p]) \in Nat
      BY Children DEF Extra, LawOK, LawTypes, LawTally
    <3>2. Len(web[p]) <= ltally.lapses[p] + Extra(p)
      BY DEF LawOK
    <3> QED BY <3>1, <3>2
  <2>3. CompletedHasFile
    BY DEF CompletedHasFile, LawOK
  <2> QED BY <2>1, <2>2, <2>3 DEF LawIsRight, OneChildPerLapse
<1> QED BY <1>1, LawInvariant, PTL

-----------------------------------------------------------------------------
(* SourceCleanup: the inductive invariant.                                 *)

Statuses == {"completed", "skipped_completed", "partial_budget_exhausted"}
Marks == Statuses \cup {None, "source_missing_before_completed_md", "stopped",
                        "retryable_error", "failed", "skipped_existing_md"}
Fates == {None, "kept_source_pdf", "not_deleted", "delete_failed"}
Row == [there : BOOLEAN, policy : Policy \cup {None}, deleted : BOOLEAN,
        md : Marks, key : BOOLEAN, del : Fates, err : BOOLEAN]
Counts == [faults : Nat, edits : Nat, paid : [Pdf -> Nat], lost : [Pdf -> Nat]]

Proven == {"record", "post", "check", "call"}
Busy == {"read", "look", "convert", "status", "again"} \cup Proven

SourceTypes ==
  /\ script \in Scripts
  /\ zotero \in [Pdf -> [there : BOOLEAN, law : BOOLEAN]]
  /\ docs \in [Pdf -> {"none", "completed", "lost"}]
  /\ launcher \in [Pdf -> Book]
  /\ jobTable \in [Pdf -> Row]
  /\ tally \in Counts
  /\ run = [pc |-> run.pc, todo |-> run.todo, policy |-> run.policy,
            caught |-> run.caught, status |-> run.status]
  /\ run.pc \in {"off", "next"} \cup Busy

\* The policy of a script that does not read it from its table.
Fixed == script \in {"over100", "nonlaw", "giant"}
FixedPolicy(p) == IF script = "over100" THEN Policies[p]
                  ELSE IF script = "nonlaw" THEN "delete" ELSE "keep"

\* What has been paid for a PDF and what was lost of it.
Balanced(p) ==
  /\ docs[p] = "none" => tally.paid[p] = 0 /\ tally.lost[p] = 0
  /\ docs[p] = "lost" => tally.paid[p] <= tally.lost[p]
  /\ docs[p] = "completed" => tally.paid[p] <= 1 + tally.lost[p]

\* Another conversion would not be one too many.
Due(p) == docs[p] = "completed" => tally.paid[p] <= tally.lost[p]

RowOK(p) ==
  /\ jobTable[p].there => jobTable[p].policy \in Policy
  /\ Fixed => jobTable[p].policy \in {None, FixedPolicy(p)}
  /\ jobTable[p].key \/ jobTable[p].del = "kept_source_pdf" => docs[p] # "none"
  /\ script = "giant" => ~jobTable[p].deleted /\ jobTable[p].del # "kept_source_pdf"
  /\ Balanced(p)

\* A target has the policy of its row, once it has a row.
TargetOK(t) ==
  /\ t.at \in Nat /\ t.pdf \in Pdf /\ t.policy \in Policy
  /\ jobTable[t.pdf].policy \in {None, t.policy}
  /\ Fixed => t.policy = FixedPolicy(t.pdf)
  /\ t.old => docs[t.pdf] # "none"

\* What is known about the target at hand.
AtHand ==
  /\ run.todo # {}
  /\ IF script = "giant" THEN run.pc \in {"convert", "status"} ELSE run.policy = Now.policy
  /\ run.pc = "read" => ~Settled(Cur, run.policy)
  /\ run.pc = "convert" => Due(Cur)
  /\ run.pc = "status" => run.status \in Statuses
  /\ run.pc \in Proven => docs[Cur] # "none"
  /\ run.pc \in {"check", "call"} => run.policy = "delete"
  /\ run.pc = "call" => ~jobTable[Cur].deleted

SourceInv ==
  /\ SourceTypes
  /\ \A p \in Pdf : RowOK(p)
  /\ \A t \in run.todo : TargetOK(t)
  /\ \A t, u \in run.todo : t.pdf = u.pdf => t = u
  /\ run.pc \in Busy => AtHand
  /\ script = "giant" =>
       \A t \in run.todo : t.old \/ Due(t.pdf) \/ (run.pc = "status" /\ t = Now)

-----------------------------------------------------------------------------

\* The first of the targets to come is one of them: the order of the natural
\* numbers is well founded.
LEMMA NowIsComing ==
  ASSUME run.todo # {}, \A t \in run.todo : t.at \in Nat
  PROVE  Now \in run.todo
<1> DEFINE S == {t.at : t \in run.todo}
           R == {e \in Nat \X Nat : e[1] < e[2]}
<1>1. OpToRel(<, Nat) = R
  BY DEF OpToRel
<1>2. S \subseteq Nat /\ S # {}
  OBVIOUS
<1> HIDE DEF S, R
<1>3. PICK m \in S : \A k \in S : ~(<<k, m>> \in R)
  BY <1>1, <1>2, NatLessThanWellFounded, WFMin
<1> USE DEF S, R
<1>4. \A k \in S : m <= k
  <2> TAKE k \in S
  <2>1. m \in Nat /\ k \in Nat /\ ~(k < m)
    BY <1>2, <1>3
  <2> QED BY <2>1
<1>5. PICK t \in run.todo : t.at = m
  OBVIOUS
<1>6. \A u \in run.todo : t.at <= u.at
  BY <1>4, <1>5
<1> QED BY <1>6 DEF Now

LEMMA TargetAtHand ==
  ASSUME SourceInv, run.todo # {}
  PROVE  Now \in run.todo /\ TargetOK(Now) /\ Cur \in Pdf
<1>1. Now \in run.todo
  BY NowIsComing DEF SourceInv, TargetOK
<1> QED BY <1>1 DEF SourceInv, TargetOK, Cur

\* A run that ends, or is done with the target at hand, knows nothing of a target.
LEMMA RunEnds ==
  ASSUME SourceInv, SourceTypes', \A p \in Pdf : RowOK(p)', \A t \in run'.todo : TargetOK(t)',
         run'.pc \in {"off", "next"}, run'.todo \subseteq run.todo,
         script' = "giant" => \A t \in run'.todo : t.old \/ Due(t.pdf)'
  PROVE  SourceInv'
<1>1. run'.pc \notin Busy
  BY DEF Busy, Proven
<1> QED BY <1>1 DEF SourceInv

\* A write of the table that keeps to the policy of the target.
LEMMA RowIsKept ==
  ASSUME SourceInv, run.todo # {}, NEW r, r \in Row, r.policy = Now.policy,
         jobTable' = [jobTable EXCEPT ![Cur] = r],
         r.key \/ r.del = "kept_source_pdf" => docs[Cur] # "none",
         script = "giant" => ~r.deleted /\ r.del # "kept_source_pdf",
         UNCHANGED <<script, docs>>, tally' \in Counts,
         tally'.paid = tally.paid, tally'.lost = tally.lost
  PROVE  /\ jobTable' \in [Pdf -> Row] /\ jobTable'[Cur] = r
         /\ \A p \in Pdf \ {Cur} : jobTable'[p] = jobTable[p]
         /\ \A p \in Pdf : RowOK(p)' /\ (Due(p) <=> Due(p)')
         /\ \A t \in run.todo : TargetOK(t)'
<1>1. Now \in run.todo /\ TargetOK(Now) /\ Cur \in Pdf
  BY TargetAtHand
<1>2. jobTable \in [Pdf -> Row]
  BY DEF SourceInv, SourceTypes
<1>3. /\ jobTable' \in [Pdf -> Row] /\ jobTable'[Cur] = r
      /\ \A p \in Pdf \ {Cur} : jobTable'[p] = jobTable[p]
  BY <1>1, <1>2
<1>4. \A p \in Pdf : Balanced(p) <=> Balanced(p)'
  BY DEF Balanced
<1>5. \A p \in Pdf : Due(p) <=> Due(p)'
  BY DEF Due
<1>6. \A p \in Pdf : FixedPolicy(p)' = FixedPolicy(p)
  BY DEF FixedPolicy
<1>7. ASSUME NEW p \in Pdf PROVE RowOK(p)'
  <2>1. RowOK(p)
    BY DEF SourceInv
  <2>2. CASE p # Cur
    BY <1>3, <1>4, <1>6, <2>1, <2>2 DEF RowOK, Fixed
  <2>3. CASE p = Cur
    <3>1. Fixed => r.policy = FixedPolicy(p)
      BY <1>1, <2>3 DEF TargetOK, Cur
    <3>2. jobTable'[p] = r
      BY <1>3, <2>3
    <3>3. r.policy \in Policy
      BY <1>1 DEF TargetOK
    <3> QED BY <1>4, <1>6, <2>1, <2>3, <3>1, <3>2, <3>3 DEF RowOK, Fixed
  <2> QED BY <2>2, <2>3
<1>8. ASSUME NEW t \in run.todo PROVE TargetOK(t)'
  <2>1. TargetOK(t)
    BY DEF SourceInv
  <2>2. jobTable'[t.pdf].policy \in {None, t.policy}
    <3>1. CASE t.pdf = Cur
      <4>1. t = Now
        BY <1>1, <3>1 DEF SourceInv, Cur
      <4> QED BY <1>3, <3>1, <4>1
    <3>2. CASE t.pdf # Cur
      BY <1>3, <2>1, <3>2 DEF TargetOK
    <3> QED BY <3>1, <3>2
  <2> QED BY <1>6, <2>1, <2>2 DEF TargetOK, Fixed
<1> QED BY <1>3, <1>5, <1>7, <1>8

\* What a step of a script that converts nothing leaves alone.
Aside ==
  /\ UNCHANGED <<script, zotero, docs, launcher>>
  /\ tally' \in Counts /\ tally'.paid = tally.paid /\ tally'.lost = tally.lost

\* What a write of the table must leave true.
RowsStand ==
  /\ jobTable' \in [Pdf -> Row]
  /\ \A p \in Pdf : RowOK(p)' /\ (Due(p) <=> Due(p)')
  /\ \A t \in run.todo : TargetOK(t)'

LEMMA AsideOK ==
  ASSUME SourceInv, UNCHANGED <<script, zotero, docs, launcher>>, Fault \/ UNCHANGED tally
  PROVE  Aside
<1>1. tally \in Counts
  BY DEF SourceInv, SourceTypes
<1>2. CASE UNCHANGED tally
  BY <1>1, <1>2 DEF Aside
<1>3. CASE Fault
  <2>1. tally' = [tally EXCEPT !.faults = tally.faults + 1]
    BY <1>3 DEF Fault
  <2>2. tally' \in Counts /\ tally'.paid = tally.paid /\ tally'.lost = tally.lost
    BY <1>1, <2>1 DEF Counts
  <2> QED BY <2>2 DEF Aside
<1> QED BY <1>2, <1>3

LEMMA SameRows ==
  ASSUME SourceInv, Aside, UNCHANGED jobTable
  PROVE  RowsStand
<1>1. jobTable' \in [Pdf -> Row]
  BY DEF SourceInv, SourceTypes
<1>2. ASSUME NEW p \in Pdf PROVE RowOK(p)' /\ (Due(p) <=> Due(p)')
  BY DEF SourceInv, Aside, RowOK, Fixed, FixedPolicy, Balanced, Due
<1>3. ASSUME NEW t \in run.todo PROVE TargetOK(t)'
  BY DEF SourceInv, Aside, TargetOK, Fixed, FixedPolicy
<1> QED BY <1>1, <1>2, <1>3 DEF RowsStand

\* A script that is done with the target at hand, or ends.
LEMMA DoneOK ==
  ASSUME SourceInv, Aside, RowsStand, EndRun \/ (NextOne /\ run.todo # {})
  PROVE  SourceInv'
<1>1. /\ run' = [pc |-> run'.pc, todo |-> run'.todo, policy |-> run'.policy,
                 caught |-> run'.caught, status |-> run'.status]
      /\ run'.pc \in {"off", "next"} /\ run'.todo \subseteq run.todo /\ Now \notin run'.todo
  <2>1. CASE EndRun
    BY <2>1 DEF EndRun, Ended
  <2>2. CASE NextOne
    <3>1. run' = [pc |-> "next", todo |-> run.todo \ {Now}, policy |-> None, caught |-> FALSE,
                  status |-> None]
      BY <2>2 DEF NextOne, Ended
    <3> QED BY <3>1
  <2> QED BY <2>1, <2>2
<1>2. SourceTypes'
  <2>1. UNCHANGED <<script, zotero, docs, launcher>> /\ tally' \in Counts
    BY DEF Aside
  <2>2. jobTable' \in [Pdf -> Row]
    BY DEF RowsStand
  <2> QED BY <1>1, <2>1, <2>2 DEF SourceInv, SourceTypes
<1>3. ASSUME script' = "giant", NEW t \in run'.todo PROVE t.old \/ Due(t.pdf)'
  <2>1. t.old \/ Due(t.pdf)
    BY <1>1, <1>3 DEF SourceInv, Aside
  <2>2. t.pdf \in Pdf
    BY <1>1 DEF SourceInv, TargetOK
  <2> QED BY <2>1, <2>2 DEF RowsStand
<1>4. \A p \in Pdf : RowOK(p)'
  BY DEF RowsStand
<1>5. \A t \in run'.todo : TargetOK(t)'
  BY <1>1 DEF RowsStand
<1> QED BY <1>1, <1>2, <1>3, <1>4, <1>5, RunEnds

\* The value of a column that a call gives.
NewValues == [md : Marks, key : BOOLEAN, del : Fates, err : BOOLEAN]

LEMMA UpsertOK ==
  ASSUME SourceInv, Aside, run.pc \in Busy, script # "giant", NEW new \in NewValues, Upsert(new),
         new.key \/ new.del = "kept_source_pdf" => docs[Cur] # "none"
  PROVE  RowsStand /\ jobTable'[Cur].deleted = jobTable[Cur].deleted
<1> DEFINE old == jobTable[Cur]
           md == Given(new.md, old.md)
           del == Given(new.del, old.del)
           r == [there |-> TRUE, policy |-> run.policy, deleted |-> old.deleted, md |-> md,
                 key |-> new.key \/ old.key, del |-> del, err |-> new.err]
<1>1. run.todo # {} /\ run.policy = Now.policy
  BY DEF SourceInv, AtHand
<1>2. Cur \in Pdf /\ Now.policy \in Policy
  BY <1>1, TargetAtHand DEF TargetOK
<1>3. old \in Row
  BY <1>2 DEF SourceInv, SourceTypes
<1>4. md \in Marks
  BY <1>3 DEF Given, NewValues, Row
<1>5. del \in Fates /\ (del = "kept_source_pdf" => "kept_source_pdf" \in {new.del, old.del})
  BY <1>3 DEF Given, NewValues, Row
<1>6. new.key \in BOOLEAN /\ old.key \in BOOLEAN /\ new.err \in BOOLEAN /\ old.deleted \in BOOLEAN
  BY <1>3 DEF NewValues, Row
<1>7. jobTable' = [jobTable EXCEPT ![Cur] = r]
  BY DEF Upsert
<1>8. /\ r.policy = Now.policy /\ r.deleted = old.deleted /\ r.key = (new.key \/ old.key)
      /\ r.del = del
  BY <1>1
<1>9. r \in Row
  <2> HIDE DEF md, del
  <2> QED BY <1>1, <1>2, <1>4, <1>5, <1>6 DEF Row
<1>10. r.key \/ r.del = "kept_source_pdf" => docs[Cur] # "none"
  <2>1. old.key \/ old.del = "kept_source_pdf" => docs[Cur] # "none"
    BY <1>2 DEF SourceInv, RowOK
  <2> HIDE DEF old, del, r
  <2> QED BY <1>5, <1>8, <2>1
<1> HIDE DEF r
<1>11. UNCHANGED <<script, docs>> /\ tally' \in Counts /\ tally'.paid = tally.paid
       /\ tally'.lost = tally.lost
  BY DEF Aside
<1>12. jobTable'[Cur] = r /\ RowsStand
  BY <1>1, <1>7, <1>8, <1>9, <1>10, <1>11, RowIsKept DEF RowsStand
<1> QED BY <1>8, <1>12

\* A script that goes on with the target at hand.
LEMMA OnOK ==
  ASSUME SourceInv, Aside, RowsStand, run.pc \in Busy \/ (run.pc = "next" /\ run.todo # {}),
         script # "giant", run'.todo = run.todo, run'.pc \in Busy, AtHand',
         run' = [pc |-> run'.pc, todo |-> run'.todo, policy |-> run'.policy,
                 caught |-> run'.caught, status |-> run'.status]
  PROVE  SourceInv'
<1>1. SourceTypes'
  BY DEF SourceInv, SourceTypes, Aside, RowsStand
<1>2. (\A p \in Pdf : RowOK(p)') /\ (\A t \in run'.todo : TargetOK(t)')
  BY DEF RowsStand
<1>3. script' # "giant"
  BY DEF Aside
<1> QED BY <1>1, <1>2, <1>3 DEF SourceInv

LEMMA SameTarget ==
  ASSUME run'.todo = run.todo PROVE Now' = Now /\ Cur' = Cur
BY DEF Now, Cur

-----------------------------------------------------------------------------
(* SourceCleanup: the steps of the loop.                                   *)

\* A value of the run that a step sets.
LEMMA RunIs ==
  ASSUME SourceInv
  PROVE  \A pc : To(pc) =>
               /\ run'.pc = pc /\ run'.todo = run.todo /\ run'.policy = run.policy
               /\ run' = [pc |-> pc, todo |-> run.todo, policy |-> run.policy,
                          caught |-> run.caught, status |-> run.status]
<1> TAKE pc
<1>1. run = [pc |-> run.pc, todo |-> run.todo, policy |-> run.policy,
             caught |-> run.caught, status |-> run.status]
  BY DEF SourceInv, SourceTypes
<1>2. ASSUME To(pc)
      PROVE  run' = [pc |-> pc, todo |-> run.todo, policy |-> run.policy,
                     caught |-> run.caught, status |-> run.status]
  BY <1>1, <1>2 DEF To
<1> QED BY <1>2

LEMMA Sides ==
  ASSUME SourceInv, run.pc \in Busy
  PROVE  /\ run.todo # {} /\ Cur \in Pdf /\ AtHand
         /\ run.pc \notin {"convert", "status"} => script # "giant"
BY TargetAtHand DEF SourceInv, AtHand

LEMMA LeavesOK ==
  ASSUME SourceInv, Deadline \/ AllSeen
  PROVE  SourceInv'
<1>1. EndRun /\ UNCHANGED <<script, zotero, docs, launcher, jobTable>> /\ (Fault \/ UNCHANGED tally)
  BY DEF Deadline, AllSeen
<1>2. Aside
  BY <1>1, AsideOK
<1> QED BY <1>1, <1>2, SameRows, DoneOK

LEMMA SkipOK ==
  ASSUME SourceInv, run.todo # {}, NextOne,
         UNCHANGED <<script, zotero, docs, launcher, jobTable, tally>>
  PROVE  SourceInv'
<1>1. Aside
  BY AsideOK
<1> QED BY <1>1, SameRows, DoneOK

LEMMA TakeOK ==
  ASSUME SourceInv, script # "giant", At("next"), run.todo # {}, ~Settled(Cur, Now.policy),
         run' = [run EXCEPT !.pc = "read", !.policy = Now.policy],
         UNCHANGED <<script, zotero, docs, launcher, jobTable, tally>>
  PROVE  SourceInv'
<1>1. Aside /\ RowsStand
  BY AsideOK, SameRows
<1>2. run' = [pc |-> "read", todo |-> run.todo, policy |-> Now.policy, caught |-> run.caught,
              status |-> run.status]
  BY DEF SourceInv, SourceTypes
<1>3. Now' = Now /\ Cur' = Cur
  BY <1>2, SameTarget
<1>4. AtHand'
  BY <1>2, <1>3 DEF AtHand, Proven, Settled, Aside
<1> QED BY <1>1, <1>2, <1>4, OnOK DEF At, Busy

LEMMA ReadSourceOK ==
  ASSUME SourceInv, ReadSource PROVE SourceInv'
<1>1. run.pc = "read" /\ run.pc \in Busy
  BY DEF ReadSource, At, Busy
<1>2. run.todo # {} /\ AtHand /\ script # "giant"
  BY <1>1, Sides
<1>3. Aside
  BY AsideOK DEF ReadSource
<1>4. NoValue \in NewValues /\ ~NoValue.key /\ NoValue.del # "kept_source_pdf"
  BY CleanupAssumption DEF NoValue, NewValues, Marks, Fates
<1>5. RowsStand
  BY <1>1, <1>2, <1>3, <1>4, UpsertOK DEF ReadSource
<1>6. /\ run'.pc = "look" /\ run'.todo = run.todo /\ run'.policy = run.policy
      /\ run' = [pc |-> "look", todo |-> run.todo, policy |-> run.policy, caught |-> run.caught,
                 status |-> run.status]
  BY RunIs DEF ReadSource
<1>7. AtHand'
  BY <1>2, <1>3, <1>6, SameTarget DEF AtHand, Aside, Proven
<1> QED BY <1>1, <1>2, <1>3, <1>5, <1>6, <1>7, OnOK DEF Busy

LEMMA UnreadIs ==
  ASSUME SourceInv, Unread, UNCHANGED <<script, zotero, docs, launcher>>
  PROVE  Aside /\ run.pc = "read" /\ run.pc \in Busy /\ run.todo # {} /\ AtHand
         /\ script # "giant" /\ Cur \in Pdf
<1>1. run.pc = "read" /\ run.pc \in Busy /\ (Fault \/ UNCHANGED tally)
  BY DEF Unread, At, Busy
<1> QED BY <1>1, Sides, AsideOK

LEMMA UnreadOK ==
  ASSUME SourceInv, UnreadDelete \/ UnreadKeep \/ UnreadMissing PROVE SourceInv'
<1>1. Unread /\ UNCHANGED <<script, zotero, docs, launcher>>
  BY DEF UnreadDelete, UnreadKeep, UnreadMissing
<1>2. Aside /\ run.pc = "read" /\ run.pc \in Busy /\ run.todo # {} /\ AtHand
      /\ script # "giant" /\ Cur \in Pdf
  BY <1>1, UnreadIs
<1>3. CASE UnreadDelete
  <2>1. RowsStand
    BY <1>2, <1>3, SameRows DEF UnreadDelete
  <2>2. /\ run'.pc = "check" /\ run'.todo = run.todo /\ run'.policy = run.policy
        /\ run' = [pc |-> "check", todo |-> run.todo, policy |-> run.policy,
                   caught |-> run.caught, status |-> run.status]
    BY <1>3, RunIs DEF UnreadDelete
  <2>3. docs[Cur] # "none" /\ run.policy = "delete"
    BY <1>3 DEF UnreadDelete, HasMarkdown
  <2>4. AtHand'
    BY <1>2, <2>2, <2>3, SameTarget DEF AtHand, Aside, Proven
  <2> QED BY <1>2, <2>1, <2>2, <2>4, OnOK DEF Busy, Proven
<1>4. CASE UnreadKeep
  <2> DEFINE new == [NoValue EXCEPT !.md = "completed", !.key = TRUE, !.del = "kept_source_pdf"]
  <2>1. new \in NewValues /\ docs[Cur] # "none"
    BY <1>4 DEF NoValue, NewValues, Marks, Statuses, Fates, UnreadKeep, HasMarkdown
  <2>2. Upsert(new) /\ NextOne
    BY <1>4 DEF UnreadKeep
  <2> HIDE DEF new
  <2>3. RowsStand
    BY <1>2, <2>1, <2>2, UpsertOK
  <2> QED BY <1>2, <2>2, <2>3, DoneOK
<1>5. CASE UnreadMissing
  <2> DEFINE new == [NoValue EXCEPT !.md = "source_missing_before_completed_md",
                                    !.del = "not_deleted", !.err = TRUE]
  <2>1. new \in NewValues /\ ~new.key /\ new.del # "kept_source_pdf"
    BY DEF NoValue, NewValues, Marks, Fates
  <2>2. Upsert(new) /\ NextOne
    BY <1>5 DEF UnreadMissing
  <2> HIDE DEF new
  <2>3. RowsStand
    BY <1>2, <2>1, <2>2, UpsertOK
  <2> QED BY <1>2, <2>2, <2>3, DoneOK
<1> QED BY <1>3, <1>4, <1>5

LEMMA LookOK ==
  ASSUME SourceInv, Look \/ (script # "giant" /\ LookAgain) PROVE SourceInv'
<1>1. /\ run.pc \in {"look", "again"} /\ run.pc \in Busy
      /\ UNCHANGED <<script, zotero, docs, launcher, jobTable, tally>>
  BY DEF Look, LookAgain, At, Busy
<1>2. run.todo # {} /\ AtHand /\ script # "giant"
  BY <1>1, Sides
<1>3. Aside /\ RowsStand
  BY <1>1, AsideOK, SameRows
<1>4. CASE NextOne
  BY <1>2, <1>3, <1>4, DoneOK
<1>5. ASSUME NEW pc \in {"record", "convert"}, To(pc), HasMarkdown(Cur) <=> pc = "record"
      PROVE  SourceInv'
  <2>1. /\ run'.pc = pc /\ run'.todo = run.todo /\ run'.policy = run.policy
        /\ run' = [pc |-> pc, todo |-> run.todo, policy |-> run.policy,
                   caught |-> run.caught, status |-> run.status]
    BY <1>5, RunIs
  <2>2. pc = "record" => docs[Cur] # "none"
    BY <1>5 DEF HasMarkdown
  <2>3. pc = "convert" => Due(Cur)'
    BY <1>1, <1>5, <2>1, SameTarget DEF HasMarkdown, Due
  <2>4. AtHand'
    BY <1>2, <1>3, <2>1, <2>2, <2>3, SameTarget DEF AtHand, Aside, Proven
  <2>5. run'.pc \in Busy
    BY <2>1 DEF Busy, Proven
  <2> QED BY <1>1, <1>2, <1>3, <2>1, <2>4, <2>5, OnOK
<1> QED BY <1>4, <1>5 DEF Look, LookAgain

\* An answer that is only written down ends the target or the run.
LEMMA NoteOK ==
  ASSUME SourceInv, script # "giant", run.pc \in Busy, EndRun \/ NextOne,
         NEW new \in NewValues, Upsert(new), ~new.key, new.del # "kept_source_pdf",
         UNCHANGED <<script, zotero, docs, launcher>>, Fault \/ UNCHANGED tally
  PROVE  SourceInv'
<1>1. Aside /\ run.todo # {}
  BY AsideOK, Sides
<1>2. RowsStand
  BY <1>1, UpsertOK
<1> QED BY <1>1, <1>2, DoneOK

LEMMA FailsOK ==
  ASSUME SourceInv, script # "giant", ConvertStops \/ ConvertFails \/ UnreadStops PROVE SourceInv'
<1>1. PICK md \in {"stopped", "retryable_error", "failed"} :
        Upsert([NoValue EXCEPT !.md = md, !.err = TRUE])
  BY DEF ConvertStops, ConvertFails, UnreadStops
<1> DEFINE new == [NoValue EXCEPT !.md = md, !.err = TRUE]
<1>2. new \in NewValues /\ ~new.key /\ new.del # "kept_source_pdf"
  BY CleanupAssumption DEF NoValue, NewValues, Marks, Fates
<1>3. Upsert(new)
  BY <1>1
<1> HIDE DEF new
<1>4. run.pc \in Busy /\ UNCHANGED <<script, zotero, docs, launcher>> /\ Fault /\ (EndRun \/ NextOne)
  BY DEF ConvertStops, ConvertFails, UnreadStops, At, Busy
<1> QED BY <1>2, <1>3, <1>4, NoteOK

LEMMA RecordStatusOK ==
  ASSUME SourceInv, script # "giant", RecordStatus PROVE SourceInv'
<1> DEFINE new == [NoValue EXCEPT !.md = run.status]
<1>1. run.pc = "status" /\ run.pc \in Busy
  BY DEF RecordStatus, At, Busy
<1>2. run.todo # {} /\ AtHand
  BY <1>1, Sides
<1>3. new \in NewValues /\ ~new.key /\ new.del # "kept_source_pdf"
  BY <1>1, <1>2, CleanupAssumption DEF AtHand, NoValue, NewValues, Marks, Fates
<1>4. Aside
  BY AsideOK DEF RecordStatus
<1>5. Upsert(new)
  BY DEF RecordStatus
<1> HIDE DEF new
<1>6. RowsStand
  BY <1>1, <1>3, <1>4, <1>5, UpsertOK
<1>7. /\ run'.pc = "again" /\ run'.todo = run.todo /\ run'.policy = run.policy
      /\ run' = [pc |-> "again", todo |-> run.todo, policy |-> run.policy,
                 caught |-> run.caught, status |-> run.status]
  BY RunIs DEF RecordStatus
<1>8. AtHand'
  BY <1>2, <1>4, <1>7, SameTarget DEF AtHand, Aside, Proven
<1> QED BY <1>1, <1>2, <1>4, <1>6, <1>7, <1>8, OnOK DEF Busy

LEMMA SourceRecordOK ==
  ASSUME SourceInv, Record PROVE SourceInv'
<1> DEFINE new == [NoValue EXCEPT !.md = "completed", !.key = TRUE]
<1>1. run.pc = "record" /\ run.pc \in Busy
  BY DEF Record, At, Busy, Proven
<1>2. run.todo # {} /\ AtHand /\ script # "giant"
  BY <1>1, Sides
<1>3. new \in NewValues /\ docs[Cur] # "none"
  BY <1>1, <1>2 DEF AtHand, Proven, NoValue, NewValues, Marks, Statuses, Fates
<1>4. Aside
  BY AsideOK DEF Record
<1>5. Upsert(new)
  BY DEF Record
<1> HIDE DEF new
<1>6. RowsStand
  BY <1>1, <1>2, <1>3, <1>4, <1>5, UpsertOK
<1>7. run' = [pc |-> "post", todo |-> run.todo, policy |-> run.policy, caught |-> TRUE,
              status |-> run.status]
  BY DEF Record, SourceInv, SourceTypes
<1>8. AtHand'
  BY <1>2, <1>3, <1>4, <1>7, SameTarget DEF AtHand, Aside
<1> QED BY <1>1, <1>2, <1>4, <1>6, <1>7, <1>8, OnOK DEF Busy, Proven

LEMMA PostOK ==
  ASSUME SourceInv, Post PROVE SourceInv'
<1>1. run.pc = "post" /\ run.pc \in Busy
  BY DEF Post, At, Busy, Proven
<1>2. run.todo # {} /\ AtHand /\ script # "giant" /\ docs[Cur] # "none"
  BY <1>1, Sides DEF AtHand, Proven
<1>3. Aside
  BY AsideOK DEF Post
<1>4. CASE run.policy = "delete"
  <2>1. RowsStand
    BY <1>3, <1>4, SameRows DEF Post
  <2>2. /\ run'.pc = "check" /\ run'.todo = run.todo /\ run'.policy = run.policy
        /\ run' = [pc |-> "check", todo |-> run.todo, policy |-> run.policy,
                   caught |-> run.caught, status |-> run.status]
    BY <1>4, RunIs DEF Post
  <2>3. AtHand'
    BY <1>2, <1>3, <1>4, <2>2, SameTarget DEF AtHand, Aside
  <2> QED BY <1>1, <1>2, <1>3, <2>1, <2>2, <2>3, OnOK DEF Busy, Proven
<1>5. CASE run.policy # "delete"
  <2> DEFINE new == [NoValue EXCEPT !.del = "kept_source_pdf"]
  <2>1. new \in NewValues
    BY DEF NoValue, NewValues, Marks, Fates
  <2>2. NextOne /\ Upsert(new)
    BY <1>5 DEF Post
  <2> HIDE DEF new
  <2>3. RowsStand
    BY <1>1, <1>2, <1>3, <2>1, <2>2, UpsertOK
  <2> QED BY <1>2, <1>3, <2>2, <2>3, DoneOK
<1> QED BY <1>4, <1>5

LEMMA CheckOK ==
  ASSUME SourceInv, Check PROVE SourceInv'
<1>1. run.pc = "check" /\ run.pc \in Busy
  BY DEF Check, At, Busy, Proven
<1>2. run.todo # {} /\ AtHand /\ script # "giant" /\ docs[Cur] # "none"
  BY <1>1, Sides DEF AtHand, Proven
<1>3. Aside /\ RowsStand
  BY AsideOK, SameRows DEF Check
<1>4. CASE To("call") /\ ~jobTable[Cur].deleted
  <2>1. /\ run'.pc = "call" /\ run'.todo = run.todo /\ run'.policy = run.policy
        /\ run' = [pc |-> "call", todo |-> run.todo, policy |-> run.policy,
                   caught |-> run.caught, status |-> run.status]
    BY <1>4, RunIs
  <2>2. AtHand'
    BY <1>1, <1>2, <1>3, <1>4, <2>1, SameTarget DEF AtHand, Aside, Check
  <2> QED BY <1>1, <1>2, <1>3, <2>1, <2>2, OnOK DEF Busy, Proven
<1>5. CASE NextOne
  BY <1>2, <1>3, <1>5, DoneOK
<1> QED BY <1>4, <1>5 DEF Check

LEMMA DeleteItemOK ==
  ASSUME SourceInv, DeleteItem PROVE SourceInv'
<1>1. run.pc = "call" /\ run.pc \in Busy
  BY DEF DeleteItem, At, Busy, Proven
<1>2. run.todo # {} /\ script # "giant"
  BY <1>1, Sides
<1>3. CASE run.caught
  <2> DEFINE new == [NoValue EXCEPT !.del = "delete_failed", !.err = TRUE]
  <2>1. new \in NewValues /\ ~new.key /\ new.del # "kept_source_pdf"
    BY DEF NoValue, NewValues, Marks, Fates
  <2>2. NextOne /\ Upsert(new)
    BY <1>3 DEF DeleteItem
  <2> HIDE DEF new
  <2> QED BY <1>1, <1>2, <2>1, <2>2, NoteOK DEF DeleteItem
<1>4. CASE ~run.caught
  <2>1. Aside /\ RowsStand /\ EndRun
    BY <1>4, AsideOK, SameRows DEF DeleteItem
  <2> QED BY <2>1, DoneOK
<1> QED BY <1>3, <1>4

\* A conversion is paid for where none is there that still counts.
LEMMA PaidOK ==
  ASSUME SourceInv, run.pc = "convert", run.todo # {}, UNCHANGED <<script, jobTable>>,
         docs' = [docs EXCEPT ![Cur] = "completed"],
         tally' = [tally EXCEPT !.paid[Cur] = @ + 1]
  PROVE  /\ docs' \in [Pdf -> {"none", "completed", "lost"}] /\ tally' \in Counts
         /\ \A p \in Pdf : RowOK(p)' /\ (p # Cur => (Due(p) <=> Due(p)'))
         /\ \A t \in run.todo : TargetOK(t)'
<1>1. Cur \in Pdf /\ Due(Cur)
  BY TargetAtHand DEF SourceInv, AtHand, Busy
<1>2. docs \in [Pdf -> {"none", "completed", "lost"}] /\ tally \in Counts
  BY DEF SourceInv, SourceTypes
<1>3. /\ docs' \in [Pdf -> {"none", "completed", "lost"}] /\ docs'[Cur] = "completed"
      /\ \A p \in Pdf \ {Cur} : docs'[p] = docs[p]
      /\ \A p \in Pdf : docs[p] # "none" => docs'[p] # "none"
  BY <1>1, <1>2
<1> DEFINE paid == [tally.paid EXCEPT ![Cur] = @ + 1]
<1>4. paid \in [Pdf -> Nat] /\ paid[Cur] = tally.paid[Cur] + 1
      /\ \A p \in Pdf \ {Cur} : paid[p] = tally.paid[p]
  BY <1>1, <1>2 DEF Counts
<1>5. tally' \in Counts /\ tally'.paid = paid /\ tally'.lost = tally.lost
  <2>1. tally' = [faults |-> tally.faults, edits |-> tally.edits, paid |-> paid, lost |-> tally.lost]
    BY <1>2 DEF Counts
  <2> HIDE DEF paid
  <2> QED BY <1>2, <1>4, <2>1 DEF Counts
<1> HIDE DEF paid
<1>6. ASSUME NEW p \in Pdf, p # Cur PROVE (Balanced(p) <=> Balanced(p)') /\ (Due(p) <=> Due(p)')
  BY <1>3, <1>4, <1>5, <1>6 DEF Balanced, Due
<1>7. ASSUME NEW p \in Pdf, p = Cur PROVE Balanced(p)'
  <2>1. Balanced(p)
    BY DEF SourceInv, RowOK
  <2>2. tally.paid[p] \in Nat /\ tally.lost[p] \in Nat
    BY <1>2 DEF Counts
  <2>3. tally.paid[p] <= tally.lost[p]
    <3>1. docs[p] \in {"none", "completed", "lost"}
      BY <1>2
    <3> QED BY <1>1, <1>7, <2>1, <2>2, <3>1 DEF Balanced, Due
  <2>4. tally'.paid[p] <= 1 + tally'.lost[p] /\ docs'[p] = "completed"
    BY <1>3, <1>4, <1>5, <1>7, <2>2, <2>3
  <2> QED BY <2>4 DEF Balanced
<1>8. ASSUME NEW p \in Pdf PROVE RowOK(p)'
  <2>1. RowOK(p)
    BY DEF SourceInv
  <2>2. Balanced(p)'
    BY <1>6, <1>7, <2>1 DEF RowOK
  <2> QED BY <1>3, <2>1, <2>2 DEF RowOK, Fixed, FixedPolicy
<1>9. ASSUME NEW t \in run.todo PROVE TargetOK(t)'
  BY <1>3 DEF SourceInv, TargetOK, Fixed, FixedPolicy
<1> QED BY <1>3, <1>5, <1>6, <1>8, <1>9

LEMMA SourceConvertOK ==
  ASSUME SourceInv, Convert PROVE SourceInv'
<1>1. run.pc = "convert" /\ run.pc \in Busy /\ UNCHANGED <<script, zotero, launcher, jobTable>>
  BY DEF Convert, At, Busy
<1>2. run.todo # {} /\ Cur \in Pdf /\ AtHand /\ Now \in run.todo
  BY <1>1, Sides, TargetAtHand
<1>3. PICK st \in Statuses : run' = [run EXCEPT !.pc = "status", !.status = st]
  BY DEF Convert, Statuses
<1>4. run' = [pc |-> "status", todo |-> run.todo, policy |-> run.policy, caught |-> run.caught,
              status |-> st]
  BY <1>3 DEF SourceInv, SourceTypes
<1>5. Now' = Now /\ Cur' = Cur
  BY <1>4, SameTarget
<1>6. /\ docs' \in [Pdf -> {"none", "completed", "lost"}] /\ tally' \in Counts
      /\ \A p \in Pdf : RowOK(p)' /\ (p # Cur => (Due(p) <=> Due(p)'))
      /\ \A t \in run.todo : TargetOK(t)'
  <2>1. CASE docs' = [docs EXCEPT ![Cur] = "completed"] /\ tally' = [tally EXCEPT !.paid[Cur] = @ + 1]
    BY <1>1, <1>2, <2>1, PaidOK
  <2>2. CASE UNCHANGED docs /\ (Fault \/ UNCHANGED tally)
    <3>1. Aside /\ RowsStand
      BY <1>1, <2>2, AsideOK, SameRows
    <3> QED BY <3>1 DEF Aside, RowsStand, SourceInv, SourceTypes
  <2> QED BY <2>1, <2>2 DEF Convert
<1>7. SourceTypes'
  BY <1>1, <1>4, <1>6 DEF SourceInv, SourceTypes, Busy
<1>8. AtHand'
  BY <1>1, <1>2, <1>3, <1>4, <1>5 DEF AtHand, Proven
<1>9. ASSUME script' = "giant", NEW t \in run'.todo
      PROVE  t.old \/ Due(t.pdf)' \/ (run'.pc = "status" /\ t = Now')
  <2>1. CASE t = Now
    BY <1>4, <1>5, <2>1
  <2>2. CASE t # Now
    <3>1. t \in run.todo /\ t.pdf \in Pdf /\ t.pdf # Cur
      BY <1>2, <1>4, <2>2 DEF SourceInv, TargetOK, Cur
    <3>2. t.old \/ Due(t.pdf)
      BY <1>1, <1>9, <2>2, <3>1 DEF SourceInv
    <3> QED BY <1>6, <3>1, <3>2
  <2> QED BY <2>1, <2>2
<1> QED BY <1>4, <1>6, <1>7, <1>8, <1>9 DEF SourceInv

-----------------------------------------------------------------------------
(* SourceCleanup: the giant PDFs, the start of a run, and what else moves. *)

LEMMA RecordJobOK ==
  ASSUME SourceInv, Aside, script = "giant", run.todo # {}, NEW md \in Marks, NEW key \in BOOLEAN,
         NEW err \in BOOLEAN, RecordJob(Cur, md, key, err), key => docs[Cur] # "none"
  PROVE  RowsStand
<1> DEFINE r == [NoJob EXCEPT !.there = TRUE, !.policy = "keep", !.md = md, !.key = key, !.err = err]
<1>1. jobTable' = [jobTable EXCEPT ![Cur] = r]
  BY DEF RecordJob
<1>2. NoJob \in Row /\ ~NoJob.deleted /\ NoJob.del = None
  BY DEF NoJob, Row, Marks, Fates
<1>3. Now.policy = "keep"
  BY TargetAtHand DEF TargetOK, Fixed, FixedPolicy
<1>4. /\ r \in Row /\ r.policy = Now.policy /\ ~r.deleted /\ r.del = None /\ r.key = key
  BY <1>2, <1>3 DEF Row, Policy
<1> HIDE DEF r
<1>5. r.del # "kept_source_pdf"
  BY <1>4, CleanupAssumption
<1>6. UNCHANGED <<script, docs>> /\ tally' \in Counts /\ tally'.paid = tally.paid
      /\ tally'.lost = tally.lost
  BY DEF Aside
<1> QED BY <1>1, <1>4, <1>5, <1>6, RowIsKept DEF RowsStand

LEMMA GiantOK ==
  ASSUME SourceInv, script = "giant", GiantSkip \/ GiantTake \/ GiantRecord \/ GiantStops \/ GiantFails
  PROVE  SourceInv'
<1>1. Aside
  BY AsideOK DEF GiantSkip, GiantTake, GiantRecord, GiantStops, GiantFails
<1>2. run.todo # {}
  BY Sides DEF GiantSkip, GiantTake, GiantRecord, GiantStops, GiantFails, At, Busy
<1>3. Now \in run.todo /\ TargetOK(Now) /\ Cur \in Pdf
  BY <1>2, TargetAtHand
<1>4. CASE GiantSkip
  <2>1. docs[Cur] # "none"
    BY <1>3, <1>4 DEF GiantSkip, TargetOK, Cur
  <2>2. RowsStand
    BY <1>1, <1>2, <1>4, <2>1, RecordJobOK DEF GiantSkip, Marks
  <2> QED BY <1>1, <1>2, <1>4, <2>2, DoneOK DEF GiantSkip
<1>5. CASE GiantTake
  <2>1. RowsStand
    BY <1>1, <1>2, <1>5, RecordJobOK DEF GiantTake, Marks
  <2>2. /\ run'.pc = "convert" /\ run'.todo = run.todo
        /\ run' = [pc |-> "convert", todo |-> run.todo, policy |-> run.policy,
                   caught |-> run.caught, status |-> run.status]
    BY <1>5, RunIs DEF GiantTake
  <2>3. Due(Cur)
    BY <1>3, <1>5 DEF SourceInv, GiantTake, At, Cur
  <2>4. Due(Cur)' /\ script' = "giant" /\ Now' = Now
    BY <1>1, <1>3, <2>2, <2>3, SameTarget DEF RowsStand, Aside, Due
  <2>5. AtHand'
    BY <1>2, <2>2, <2>4 DEF AtHand, Proven
  <2>6. SourceTypes'
    BY <1>1, <2>1, <2>2 DEF SourceInv, SourceTypes, Aside, RowsStand, Busy
  <2>7. (\A p \in Pdf : RowOK(p)') /\ (\A t \in run'.todo : TargetOK(t)')
    BY <2>1, <2>2 DEF RowsStand
  <2>8. \A t \in run'.todo : t.old \/ Due(t.pdf)'
    <3> TAKE t \in run'.todo
    <3>1. t.old \/ Due(t.pdf)
      BY <1>5, <2>2 DEF SourceInv, GiantTake, At
    <3>2. t.pdf \in Pdf
      BY <2>2 DEF SourceInv, TargetOK
    <3> QED BY <2>1, <3>1, <3>2 DEF RowsStand
  <2> QED BY <2>2, <2>5, <2>6, <2>7, <2>8 DEF SourceInv
<1>6. CASE GiantRecord
  <2>1. run.status \in Marks
    BY <1>6, Sides DEF GiantRecord, At, Busy, AtHand, Marks
  <2>2. RowsStand
    BY <1>1, <1>2, <1>6, <2>1, RecordJobOK DEF GiantRecord
  <2> QED BY <1>1, <1>2, <1>6, <2>2, DoneOK DEF GiantRecord
<1>7. CASE GiantStops \/ GiantFails
  <2>1. PICK md \in {"stopped", "retryable_error", "failed"} : RecordJob(Cur, md, FALSE, TRUE)
    BY <1>7 DEF GiantStops, GiantFails
  <2>2. RowsStand
    BY <1>1, <1>2, <2>1, RecordJobOK DEF Marks
  <2> QED BY <1>1, <1>2, <1>7, <2>2, DoneOK DEF GiantStops, GiantFails
<1> QED BY <1>4, <1>5, <1>6, <1>7

\* The targets of a run have the policy of their rows.
LEMMA BeginOK ==
  ASSUME SourceInv, SourceTypes', Begin(run'.todo), \A p \in Pdf : RowOK(p)',
         \A t \in run'.todo : TargetOK(t)' /\ t.pdf = Order[t.at] /\ t.at \in DOMAIN Order,
         \A t \in run'.todo, u \in run'.todo : t.at = u.at => t = u,
         script = "giant" => \A t \in run'.todo : t.old \/ Due(t.pdf)
  PROVE  SourceInv'
<1>1. run'.pc = "next" /\ run'.pc \notin Busy /\ UNCHANGED <<script, docs, tally>>
  BY DEF Begin, Busy, Proven, Ended
<1>2. \A t \in run'.todo, u \in run'.todo : t.pdf = u.pdf => t = u
  BY CleanupAssumption DEF IsInjective
<1>3. \A t \in run'.todo : Due(t.pdf)' <=> Due(t.pdf)
  BY <1>1 DEF Due
<1> QED BY <1>1, <1>2, <1>3 DEF SourceInv

\* A place of the list.
LEMMA PlaceIs ==
  \A i \in DOMAIN Order : i \in Nat /\ Order[i] \in Pdf
BY CleanupAssumption

LEMMA BeginTypes ==
  ASSUME SourceInv, NEW queue, Begin(queue), jobTable' \in [Pdf -> Row]
  PROVE  SourceTypes' /\ run'.todo = queue
<1>1. run' = [pc |-> "next", todo |-> queue, policy |-> None, caught |-> FALSE, status |-> None]
  BY DEF Begin, Ended
<1> QED BY <1>1 DEF Begin, SourceInv, SourceTypes

LEMMA ListOK ==
  ASSUME SourceInv, Fixed, script # "giant", NEW pol \in [Pdf -> Policy],
         \A p \in Pdf : pol[p] = FixedPolicy(p), StartFromList(pol)
  PROVE  SourceInv'
<1>1. jobTable' = jobTable /\ jobTable \in [Pdf -> Row]
  BY DEF StartFromList, SourceInv, SourceTypes
<1> DEFINE queue == InOrder(Pdf, pol)
<1>2. Begin(queue)
  BY DEF StartFromList
<1>3. ASSUME NEW t \in queue
      PROVE  /\ t.at \in DOMAIN Order /\ t = Target(t.at, pol[Order[t.at]], FALSE)
             /\ t.pdf = Order[t.at] /\ t.at \in Nat /\ t.pdf \in Pdf /\ t.policy = pol[t.pdf]
             /\ ~t.old
  <2>1. PICK i \in DOMAIN Order : t = Target(i, pol[Order[i]], FALSE)
    BY DEF InOrder, Positions
  <2>2. /\ t.at = i /\ t.pdf = Order[i] /\ t.policy = pol[Order[i]] /\ ~t.old
        /\ i \in Nat /\ Order[i] \in Pdf
    <3> HIDE DEF queue
    <3> QED BY <2>1, PlaceIs DEF Target
  <2> HIDE DEF queue
  <2> QED BY <2>1, <2>2
<1> HIDE DEF queue
<1>4. SourceTypes' /\ run'.todo = queue
  BY <1>1, <1>2, BeginTypes
<1>5. \A p \in Pdf : RowOK(p)'
  BY <1>1, <1>2 DEF SourceInv, RowOK, Fixed, FixedPolicy, Balanced, Begin
<1>6. ASSUME NEW t \in queue PROVE TargetOK(t)'
  <2>1. jobTable[t.pdf].policy \in {None, t.policy} /\ t.policy = FixedPolicy(t.pdf)
    BY <1>3 DEF SourceInv, RowOK
  <2>2. t.policy \in Policy
    BY <1>3
  <2> QED BY <1>1, <1>2, <1>3, <2>1, <2>2 DEF TargetOK, Fixed, FixedPolicy, Begin
<1>7. \A t \in queue, u \in queue : t.at = u.at => t = u
  BY <1>3
<1> QED BY <1>2, <1>3, <1>4, <1>5, <1>6, <1>7, BeginOK

LEMMA FromZoteroOK ==
  ASSUME SourceInv, script \in {"fifty", "ten", "under_10"}, StartFromZotero
  PROVE  SourceInv'
<1> DEFINE seeded == Seed(jobTable)
           pol == [p \in Pdf |-> seeded[p].policy]
           S == {p \in Pdf : seeded[p].there}
           queue == InOrder(S, pol)
<1>1. Begin(queue) /\ jobTable' = seeded
  BY DEF StartFromZotero
<1>2. ASSUME NEW p \in Pdf
      PROVE  /\ seeded[p] \in Row /\ seeded[p].key = jobTable[p].key
             /\ seeded[p].del = jobTable[p].del
  <2>1. jobTable[p] \in Row
    BY DEF SourceInv, SourceTypes
  <2>2. seeded[p] = jobTable[p] \/ seeded[p] = [jobTable[p] EXCEPT !.there = TRUE,
                                                  !.policy = PolicyFor(p), !.err = FALSE]
    BY DEF Seed
  <2>3. PolicyFor(p) \in Policy
    BY DEF PolicyFor, Policy
  <2> HIDE DEF seeded
  <2>4. CASE seeded[p] = jobTable[p]
    BY <2>1, <2>4
  <2>5. CASE seeded[p] = [jobTable[p] EXCEPT !.there = TRUE, !.policy = PolicyFor(p), !.err = FALSE]
    <3> DEFINE q == PolicyFor(p)
    <3>1. seeded[p] = [there |-> TRUE, policy |-> q, deleted |-> jobTable[p].deleted,
                       md |-> jobTable[p].md, key |-> jobTable[p].key, del |-> jobTable[p].del,
                       err |-> FALSE]
      BY <2>1, <2>5 DEF Row
    <3>2. q \in Policy
      BY <2>3
    <3> HIDE DEF q
    <3> QED BY <2>1, <3>1, <3>2 DEF Row
  <2> QED BY <2>2, <2>4, <2>5
<1>3. seeded = [p \in Pdf |-> seeded[p]]
  BY DEF Seed
<1>4. ASSUME NEW p \in Pdf PROVE seeded[p].there => seeded[p].policy \in Policy
  <2>1. seeded[p] = jobTable[p] \/ seeded[p] = [jobTable[p] EXCEPT !.there = TRUE,
                                                  !.policy = PolicyFor(p), !.err = FALSE]
    BY DEF Seed
  <2>2. PolicyFor(p) \in Policy
    BY DEF PolicyFor, Policy
  <2>3. jobTable[p] \in Row /\ (jobTable[p].there => jobTable[p].policy \in Policy)
    BY DEF SourceInv, SourceTypes, RowOK
  <2> HIDE DEF seeded
  <2> QED BY <2>1, <2>2, <2>3 DEF Row
<1>5. ASSUME NEW t \in queue
      PROVE  /\ t.at \in DOMAIN Order /\ t = Target(t.at, pol[Order[t.at]], FALSE)
             /\ t.pdf = Order[t.at] /\ t.at \in Nat /\ t.pdf \in Pdf
             /\ t.policy = seeded[t.pdf].policy /\ seeded[t.pdf].there /\ ~t.old
  <2>1. PICK i \in DOMAIN Order : t = Target(i, pol[Order[i]], FALSE) /\ Order[i] \in S
    BY DEF InOrder, Positions
  <2>2. pol[Order[i]] = seeded[Order[i]].policy /\ seeded[Order[i]].there
    BY <2>1
  <2> HIDE DEF queue, seeded, pol, S
  <2>3. /\ t.at = i /\ t.pdf = Order[i] /\ t.policy = pol[Order[i]] /\ ~t.old
        /\ i \in Nat /\ Order[i] \in Pdf
    BY <2>1, PlaceIs DEF Target
  <2> QED BY <2>1, <2>2, <2>3
<1> HIDE DEF seeded, pol, S, queue
<1>6. jobTable' \in [Pdf -> Row]
  BY <1>1, <1>2, <1>3
<1>7. SourceTypes' /\ run'.todo = queue
  BY <1>1, <1>6, BeginTypes
<1>8. ~Fixed /\ script # "giant" /\ UNCHANGED <<script, docs, tally>>
  BY <1>1 DEF Fixed, Begin
<1>9. ASSUME NEW p \in Pdf PROVE RowOK(p)'
  <2>1. RowOK(p)
    BY DEF SourceInv
  <2> QED BY <1>1, <1>2, <1>4, <1>8, <2>1 DEF RowOK, Fixed, Balanced
<1>10. ASSUME NEW t \in queue PROVE TargetOK(t)'
  BY <1>1, <1>4, <1>5, <1>8 DEF TargetOK, Fixed
<1>11. \A t \in queue, u \in queue : t.at = u.at => t = u
  BY <1>5
<1> QED BY <1>1, <1>5, <1>7, <1>8, <1>9, <1>10, <1>11, BeginOK

\* enumerate_giant_pdfs.
LEMMA GiantStartOK ==
  ASSUME SourceInv, script = "giant", GiantStart
  PROVE  SourceInv'
<1>1. Begin(GiantQueue) /\ jobTable' = jobTable /\ jobTable \in [Pdf -> Row]
  BY DEF GiantStart, SourceInv, SourceTypes
<1>2. ASSUME NEW t \in GiantQueue
      PROVE  /\ t = Target(t.at, "keep", HasMarkdown(t.pdf)) /\ t.at \in DOMAIN Order
             /\ t.pdf = Order[t.at] /\ t.at \in Nat /\ t.pdf \in Pdf /\ t.policy = "keep"
             /\ t.old <=> HasMarkdown(t.pdf)
  <2>1. PICK i \in DOMAIN Order : t = Target(i, "keep", HasMarkdown(Order[i]))
    BY DEF GiantQueue, Positions
  <2>2. /\ t.at = i /\ t.pdf = Order[i] /\ t.policy = "keep" /\ i \in Nat /\ Order[i] \in Pdf
    BY <2>1, PlaceIs DEF Target
  <2>3. t.old <=> HasMarkdown(Order[i])
    BY <2>1 DEF Target, HasMarkdown
  <2> QED BY <2>1, <2>2, <2>3
<1>3. SourceTypes' /\ run'.todo = GiantQueue
  BY <1>1, BeginTypes
<1>4. \A p \in Pdf : RowOK(p)'
  BY <1>1 DEF SourceInv, RowOK, Fixed, FixedPolicy, Balanced, Begin
<1>5. ASSUME NEW t \in GiantQueue PROVE TargetOK(t)'
  <2>1. jobTable[t.pdf].policy \in {None, "keep"}
    BY <1>2 DEF SourceInv, RowOK, Fixed, FixedPolicy
  <2> QED BY <1>1, <1>2, <2>1 DEF TargetOK, Fixed, FixedPolicy, Begin, Policy, HasMarkdown
<1>6. \A t \in GiantQueue, u \in GiantQueue : t.at = u.at => t = u
  BY <1>2
<1>7. \A t \in GiantQueue : t.old \/ Due(t.pdf)
  BY <1>2 DEF Due, HasMarkdown
<1> QED BY <1>1, <1>2, <1>3, <1>4, <1>5, <1>6, <1>7, BeginOK

\* Zotero and the launcher change nothing that a script goes by until it looks.
LEMMA ElsewhereOK ==
  ASSUME SourceInv, SourceTypes', UNCHANGED <<script, run, jobTable, docs>>,
         tally'.paid = tally.paid, tally'.lost = tally.lost
  PROVE  SourceInv'
<1>1. Now' = Now /\ Cur' = Cur
  BY DEF Now, Cur
<1>2. ASSUME NEW p PROVE (RowOK(p) <=> RowOK(p)') /\ (Due(p) <=> Due(p)')
  BY DEF RowOK, Fixed, FixedPolicy, Balanced, Due
<1>3. \A t : TargetOK(t) <=> TargetOK(t)'
  BY DEF TargetOK, Fixed, FixedPolicy
<1>4. AtHand => AtHand'
  BY <1>1, <1>2 DEF AtHand, Settled, Due
<1> QED BY <1>1, <1>2, <1>3, <1>4 DEF SourceInv

LEMMA EditIs ==
  ASSUME SourceInv, Edit
  PROVE  tally' \in Counts /\ tally'.paid = tally.paid /\ tally'.lost = tally.lost
<1>1. tally' = [tally EXCEPT !.edits = tally.edits + 1] /\ tally \in Counts
  BY DEF Edit, SourceInv, SourceTypes
<1> QED BY <1>1 DEF Counts

LEMMA EditsOK ==
  ASSUME SourceInv, NEW p \in Pdf, EditZotero(p) \/ EditLauncher(p)
  PROVE  SourceInv'
<1>1. Edit /\ UNCHANGED <<script, docs, jobTable, run>>
  BY DEF EditZotero, EditLauncher
<1>2. tally' \in Counts /\ tally'.paid = tally.paid /\ tally'.lost = tally.lost
  BY <1>1, EditIs
<1>3. zotero' \in [Pdf -> [there : BOOLEAN, law : BOOLEAN]]
  <2> DEFINE there == [zotero[p] EXCEPT !.there = ~@]
             law == [zotero[p] EXCEPT !.law = ~@]
  <2>1. zotero \in [Pdf -> [there : BOOLEAN, law : BOOLEAN]]
    BY DEF SourceInv, SourceTypes
  <2>2. there \in [there : BOOLEAN, law : BOOLEAN] /\ law \in [there : BOOLEAN, law : BOOLEAN]
    BY <2>1
  <2>3. \/ zotero' = [zotero EXCEPT ![p] = there]
        \/ zotero' = [zotero EXCEPT ![p] = law]
        \/ zotero' = zotero
    BY DEF EditZotero, EditLauncher
  <2> HIDE DEF there, law
  <2> QED BY <2>1, <2>2, <2>3
<1>4. launcher' \in [Pdf -> Book]
  <2>1. launcher \in [Pdf -> Book]
    BY DEF SourceInv, SourceTypes
  <2>2. CASE UNCHANGED launcher
    BY <2>1, <2>2
  <2>3. CASE EditLauncher(p)
    <3> DEFINE b == launcher[p].build
    <3>1. b \in 0 .. 1
      BY <2>1 DEF Book
    <3>2. launcher' = [launcher EXCEPT ![p].build = 1 - b] \/ launcher' = [launcher EXCEPT ![p].bound = b]
      BY <2>3 DEF EditLauncher, ReadingArtifacts
    <3>3. launcher[p] \in Book
      BY <2>1
    <3>4. 1 - b \in 0 .. 1
      BY <3>1
    <3> HIDE DEF b
    <3>5. [launcher[p] EXCEPT !.build = 1 - b] \in Book /\ [launcher[p] EXCEPT !.bound = b] \in Book
      BY <3>1, <3>3, <3>4 DEF Book
    <3> QED BY <2>1, <3>2, <3>5
  <2> QED BY <2>2, <2>3 DEF EditZotero
<1>5. SourceTypes'
  BY <1>1, <1>2, <1>3, <1>4 DEF SourceInv, SourceTypes
<1> QED BY <1>1, <1>2, <1>5, ElsewhereOK

\* What becomes of one conversion elsewhere.
LEMMA DocOK ==
  ASSUME SourceInv, NEW p \in Pdf, UNCHANGED <<script, jobTable, run, zotero, launcher>>,
         docs' \in [Pdf -> {"none", "completed", "lost"}], tally' \in Counts,
         \A q \in Pdf \ {p} : /\ docs'[q] = docs[q] /\ tally'.paid[q] = tally.paid[q]
                              /\ tally'.lost[q] = tally.lost[q],
         docs'[p] # "none", Balanced(p)', Due(p)'
  PROVE  SourceInv'
<1>1. Now' = Now /\ Cur' = Cur /\ SourceTypes'
  BY DEF Now, Cur, SourceInv, SourceTypes
<1>2. ASSUME NEW q \in Pdf PROVE RowOK(q)' /\ (Due(q) => Due(q)')
  <2>1. RowOK(q)
    BY DEF SourceInv
  <2>2. CASE q = p
    BY <2>1, <2>2 DEF RowOK, Fixed, FixedPolicy
  <2>3. CASE q # p
    BY <2>1, <2>3 DEF RowOK, Fixed, FixedPolicy, Balanced, Due
  <2> QED BY <2>2, <2>3
<1>3. \A t \in run.todo : TargetOK(t)'
  BY DEF SourceInv, TargetOK, Fixed, FixedPolicy
<1>4. ASSUME run.pc \in Busy PROVE AtHand'
  <2>1. Cur \in Pdf /\ AtHand
    BY <1>4, Sides
  <2>2. Due(Cur) => Due(Cur)'
    BY <1>1, <1>2, <2>1 DEF Due
  <2> QED BY <1>1, <2>1, <2>2 DEF AtHand, Settled
<1>5. \A t \in run.todo : Due(t.pdf) => Due(t.pdf)'
  BY <1>2 DEF SourceInv, TargetOK
<1> QED BY <1>1, <1>2, <1>3, <1>4, <1>5 DEF SourceInv

LEMMA LoseOK ==
  ASSUME SourceInv, NEW p \in Pdf, LoseMarkdown(p) PROVE SourceInv'
<1>1. docs \in [Pdf -> {"none", "completed", "lost"}] /\ tally \in Counts
  BY DEF SourceInv, SourceTypes
<1>2. /\ docs' = [docs EXCEPT ![p] = "lost"] /\ UNCHANGED <<script, zotero, launcher, jobTable, run>>
      /\ tally' = [tally EXCEPT !.edits = @ + 1, !.lost[p] = @ + 1] /\ docs[p] = "completed"
  BY DEF LoseMarkdown
<1> DEFINE lost == [tally.lost EXCEPT ![p] = @ + 1]
<1>3. lost \in [Pdf -> Nat] /\ lost[p] = tally.lost[p] + 1
      /\ \A q \in Pdf \ {p} : lost[q] = tally.lost[q]
  BY <1>1 DEF Counts
<1>4. tally' \in Counts /\ tally'.paid = tally.paid /\ tally'.lost = lost
  <2>1. tally' = [faults |-> tally.faults, edits |-> tally.edits + 1, paid |-> tally.paid, lost |-> lost]
    BY <1>1, <1>2 DEF Counts
  <2> HIDE DEF lost
  <2> QED BY <1>1, <1>3, <2>1 DEF Counts
<1> HIDE DEF lost
<1>5. docs' \in [Pdf -> {"none", "completed", "lost"}] /\ docs'[p] = "lost"
      /\ \A q \in Pdf \ {p} : docs'[q] = docs[q]
  BY <1>1, <1>2
<1>6. tally.paid[p] <= 1 + tally.lost[p]
  BY <1>2 DEF SourceInv, RowOK, Balanced
<1>7. Balanced(p)' /\ Due(p)'
  <2>1. tally.paid[p] \in Nat /\ tally.lost[p] \in Nat
    BY <1>1 DEF Counts
  <2> QED BY <2>1, <1>3, <1>4, <1>5, <1>6 DEF Balanced, Due
<1> QED BY <1>2, <1>3, <1>4, <1>5, <1>7, DocOK

LEMMA WorkerConvertsOK ==
  ASSUME SourceInv, NEW p \in Pdf, WorkerConverts(p) PROVE SourceInv'
<1>1. docs \in [Pdf -> {"none", "completed", "lost"}]
  BY DEF SourceInv, SourceTypes
<1>2. /\ docs' = [docs EXCEPT ![p] = "completed"] /\ docs[p] = "none"
      /\ UNCHANGED <<script, zotero, launcher, jobTable, run>>
  BY DEF WorkerConverts
<1>3. tally' \in Counts /\ tally'.paid = tally.paid /\ tally'.lost = tally.lost
  BY EditIs DEF WorkerConverts
<1>4. docs' \in [Pdf -> {"none", "completed", "lost"}] /\ docs'[p] = "completed"
      /\ \A q \in Pdf \ {p} : docs'[q] = docs[q]
  BY <1>1, <1>2
<1>5. tally.paid[p] = 0 /\ tally.lost[p] = 0
  BY <1>2 DEF SourceInv, RowOK, Balanced
<1>6. Balanced(p)' /\ Due(p)'
  BY <1>3, <1>4, <1>5 DEF Balanced, Due
<1> QED BY <1>2, <1>3, <1>4, <1>6, DocOK

LEMMA KillOK ==
  ASSUME SourceInv, Kill PROVE SourceInv'
<1>1. Aside /\ RowsStand /\ EndRun
  BY AsideOK, SameRows DEF Kill
<1> QED BY <1>1, DoneOK

-----------------------------------------------------------------------------
(* SourceCleanup: the theorems.                                            *)

Passes == run.todo # {} /\ NextOne /\ UNCHANGED <<script, zotero, docs, launcher, jobTable, tally>>
Takes ==
  /\ At("next") /\ run.todo # {} /\ ~Settled(Cur, Now.policy)
  /\ run' = [run EXCEPT !.pc = "read", !.policy = Now.policy]
  /\ UNCHANGED <<script, zotero, docs, launcher, jobTable, tally>>

\* What a step of one of the five scripts is, whatever it calls finished.
LEMMA LoopIs ==
  ASSUME SourceInv, Over100 \/ Fifty \/ Ten \/ Under10 \/ Nonlaw
  PROVE  /\ script # "giant"
         /\ \/ script = "over100" /\ StartFromList(Policies)
            \/ script = "nonlaw" /\ StartFromList([p \in Pdf |-> "delete"])
            \/ script \in {"fifty", "ten", "under_10"} /\ StartFromZotero
            \/ Deadline \/ AllSeen \/ Passes \/ Takes \/ AfterRead \/ UnreadStops
<1>1. CASE Over100
  BY <1>1 DEF Over100, Loop, Skip, Take, Over100Done, Passes, Takes
<1>2. CASE Fifty
  BY <1>2 DEF Fifty, Loop, Skip, Take, FiftyDone, Passes, Takes
<1>3. CASE Ten
  BY <1>3 DEF Ten, Loop, Skip, Take, TenDone, Passes, Takes
<1>4. CASE Under10
  BY <1>4 DEF Under10, Loop, Skip, Take, Under10Done, Passes, Takes
<1>5. CASE Nonlaw
  <2>1. run.todo # {} /\ ~NonlawDone(Cur) => ~Settled(Cur, Now.policy)
    BY <1>5, TargetAtHand DEF Nonlaw, TargetOK, Fixed, FixedPolicy, NonlawDone, Settled
  <2> QED BY <1>5, <2>1 DEF Nonlaw, Loop, Skip, Take, Passes, Takes
<1> QED BY <1>1, <1>2, <1>3, <1>4, <1>5

LEMMA StartsOK ==
  ASSUME SourceInv,
         \/ script = "over100" /\ StartFromList(Policies)
         \/ script = "nonlaw" /\ StartFromList([p \in Pdf |-> "delete"])
  PROVE  SourceInv'
<1>1. CASE script = "over100" /\ StartFromList(Policies)
  BY <1>1, CleanupAssumption, ListOK DEF Fixed, FixedPolicy
<1>2. CASE script = "nonlaw" /\ StartFromList([p \in Pdf |-> "delete"])
  <2> DEFINE pol == [p \in Pdf |-> "delete"]
  <2>1. pol \in [Pdf -> Policy] /\ \A p \in Pdf : pol[p] = FixedPolicy(p)
    BY <1>2 DEF Policy, FixedPolicy
  <2>2. StartFromList(pol)
    BY <1>2
  <2> HIDE DEF pol
  <2> QED BY <1>2, <2>1, <2>2, ListOK DEF Fixed
<1> QED BY <1>1, <1>2

LEMMA WorksOK ==
  ASSUME SourceInv, Works PROVE SourceInv'
<1>1. CASE Over100 \/ Fifty \/ Ten \/ Under10 \/ Nonlaw
  <2>1. script # "giant"
    BY <1>1, LoopIs
  <2>2. CASE \/ script = "over100" /\ StartFromList(Policies)
             \/ script = "nonlaw" /\ StartFromList([p \in Pdf |-> "delete"])
    BY <2>2, StartsOK
  <2>3. CASE script \in {"fifty", "ten", "under_10"} /\ StartFromZotero
    BY <2>3, FromZoteroOK
  <2>4. CASE Deadline \/ AllSeen
    BY <2>4, LeavesOK
  <2>5. CASE Passes
    BY <2>5, SkipOK DEF Passes
  <2>6. CASE Takes
    BY <2>1, <2>6, TakeOK DEF Takes
  <2>7. CASE AfterRead \/ UnreadStops
    BY <2>1, <2>7, UnreadOK, ReadSourceOK, LookOK, SourceConvertOK, FailsOK, RecordStatusOK, SourceRecordOK,
       PostOK, CheckOK, DeleteItemOK
    DEF AfterRead
  <2> QED BY <1>1, <2>2, <2>3, <2>4, <2>5, <2>6, <2>7, LoopIs
<1>2. CASE Giant
  BY <1>2, GiantStartOK, LeavesOK, GiantOK, SourceConvertOK DEF Giant
<1> QED BY <1>1, <1>2 DEF Works

LEMMA WorldOK ==
  ASSUME SourceInv, World PROVE SourceInv'
BY EditsOK, LoseOK, WorkerConvertsOK DEF World

LEMMA SourceInit ==
  ASSUME Init PROVE SourceInv
<1>1. run.pc = "off" /\ run.todo = {} /\ run.pc \notin Busy
  BY DEF Init, Ended, Busy, Proven
<1>2. NoJob \in Row
  BY DEF NoJob, Row, Marks, Fates
<1>3. jobTable \in [Pdf -> Row] /\ \A p \in Pdf : jobTable[p] = NoJob
  BY <1>2 DEF Init
<1>4. tally \in Counts /\ \A p \in Pdf : tally.paid[p] = 0 /\ tally.lost[p] = 0 /\ docs[p] = "none"
  BY DEF Init, Counts
<1>5. launcher \in [Pdf -> Book]
  <2>1. \A b \in {[tracked |-> FALSE, build |-> 0, bound |-> None],
                  [tracked |-> TRUE, build |-> 1, bound |-> None],
                  [tracked |-> TRUE, build |-> 1, bound |-> 1]} : b \in Book
    <3>1. [tracked |-> FALSE, build |-> 0, bound |-> None] \in Book
      BY DEF Book
    <3>2. [tracked |-> TRUE, build |-> 1, bound |-> None] \in Book
      BY DEF Book
    <3>3. [tracked |-> TRUE, build |-> 1, bound |-> 1] \in Book
      BY DEF Book
    <3> QED BY <3>1, <3>2, <3>3
  <2> QED BY <2>1 DEF Init
<1>6. SourceTypes
  BY <1>3, <1>4, <1>5 DEF Init, SourceTypes, Ended
<1>7. ASSUME NEW p \in Pdf PROVE RowOK(p)
  <2>1. /\ ~NoJob.there /\ NoJob.policy = None /\ ~NoJob.key /\ NoJob.del # "kept_source_pdf"
        /\ ~NoJob.deleted
    BY CleanupAssumption DEF NoJob
  <2> QED BY <1>3, <1>4, <2>1 DEF RowOK, Balanced
<1> QED BY <1>1, <1>6, <1>7 DEF SourceInv

\* The inductive invariant.
LEMMA SourceInvariant ==
  Spec => []SourceInv
<1>1. ASSUME SourceInv, Next PROVE SourceInv'
  BY <1>1, WorksOK, KillOK, WorldOK DEF Next
<1>2. ASSUME SourceInv, UNCHANGED cleanupVars PROVE SourceInv'
  BY <1>2, ElsewhereOK DEF cleanupVars, SourceInv, SourceTypes
<1> QED BY <1>1, <1>2, SourceInit, PTL DEF Spec

LEMMA InvariantIsRight ==
  ASSUME SourceInv PROVE SourcesAreRight
<1>1. CleanupTypeOK
  <2>1. \A p \in Pdf : jobTable[p].policy \in Policy \cup {None} /\ DOMAIN jobTable[p] = DOMAIN NoJob
    <3> TAKE p \in Pdf
    <3>1. jobTable[p] \in Row
      BY DEF SourceInv, SourceTypes
    <3> QED BY <3>1 DEF Row, NoJob
  <2>2. DOMAIN run = DOMAIN Ended
    BY DEF SourceInv, SourceTypes, Ended
  <2> QED BY <2>1, <2>2 DEF CleanupTypeOK, SourceInv, SourceTypes, TargetOK
<1>2. DeletionIsEarned
  <2> SUFFICES ASSUME At("call")
               PROVE  docs[Cur] # "none" /\ jobTable[Cur].policy # "keep" /\ ~jobTable[Cur].deleted
    BY DEF DeletionIsEarned
  <2>1. run.pc = "call" /\ run.pc \in Busy
    BY DEF At, Busy, Proven
  <2>2. run.todo # {} /\ AtHand /\ script # "giant"
    BY <2>1, Sides
  <2>3. Now.policy = "delete"
    BY <2>1, <2>2 DEF AtHand
  <2>4. jobTable[Cur].policy \in {None, "delete"}
    BY <2>2, <2>3, TargetAtHand DEF TargetOK, Cur
  <2> QED BY <2>1, <2>2, <2>4, CleanupAssumption DEF AtHand, Proven, Policy
<1>3. ReportIsTrue
  <2> SUFFICES ASSUME NEW p \in Pdf, jobTable[p].key \/ Shown(p) = "kept_source_pdf"
               PROVE  docs[p] # "none"
    BY DEF ReportIsTrue, ReportedPresent, ReportedKept
  <2>1. jobTable[p].md \in Marks
    BY DEF SourceInv, SourceTypes, Row
  <2>2. jobTable[p].md # "kept_source_pdf"
    BY <2>1, CleanupAssumption DEF Marks, Statuses
  <2>3. Shown(p) = "kept_source_pdf" => jobTable[p].del = "kept_source_pdf"
    BY <2>2 DEF Shown
  <2> QED BY <2>3 DEF SourceInv, RowOK
<1>4. ConvertedOnce
  <2> SUFFICES ASSUME NEW p \in Pdf PROVE tally.paid[p] <= 1 + tally.lost[p]
    BY DEF ConvertedOnce
  <2>1. tally.paid[p] \in Nat /\ tally.lost[p] \in Nat /\ docs[p] \in {"none", "completed", "lost"}
    BY DEF SourceInv, SourceTypes, Counts
  <2>2. Balanced(p)
    BY DEF SourceInv, RowOK
  <2> QED BY <2>1, <2>2 DEF Balanced
<1> QED BY <1>1, <1>2, <1>3, <1>4 DEF SourcesAreRight

\* Whatever the table, the list, the failures and the edits: Zotero is asked to delete
\* only what was converted, is not to be kept and was not deleted before; the report
\* counts only what was converted; nothing is paid for twice that was not lost.
THEOREM SourcesStayRight ==
  Spec => []SourcesAreRight
BY SourceInvariant, InvariantIsRight, PTL

\* A row that a script has finished with, and a step that leaves it so.
RowFinished(r) == r.there /\ IF r.policy = "delete" THEN r.deleted ELSE r.key /\ r.del = "kept_source_pdf"
RowStands(p) ==
  RowFinished(jobTable[p]) => RowFinished(jobTable'[p]) \/ jobTable'[p].policy # jobTable[p].policy

LEMMA RowStandsIfKept ==
  ASSUME NEW p, jobTable[p].there => jobTable'[p].there,
         jobTable[p].deleted => jobTable'[p].deleted, jobTable[p].key => jobTable'[p].key,
         jobTable[p].del = "kept_source_pdf" => jobTable'[p].del = "kept_source_pdf"
  PROVE  RowStands(p)
BY DEF RowStands, RowFinished

LEMMA UpsertStands ==
  ASSUME SourceInv, run.pc \in Busy, script # "giant", NEW new, Upsert(new), NEW p \in Pdf,
         \/ new.del \in {None, "kept_source_pdf"}
         \/ run.policy = "delete"
         \/ ~Settled(Cur, run.policy)
  PROVE  RowStands(p)
<1>1. run.policy = Now.policy /\ Cur \in Pdf /\ run.todo # {}
  BY Sides DEF AtHand
<1>2. jobTable \in [Pdf -> Row]
  BY DEF SourceInv, SourceTypes
<1> DEFINE old == jobTable[Cur]
           md == Given(new.md, old.md)
           del == Given(new.del, old.del)
           r == [there |-> TRUE, policy |-> run.policy, deleted |-> old.deleted, md |-> md,
                 key |-> new.key \/ old.key, del |-> del, err |-> new.err]
<1>3. jobTable' = [jobTable EXCEPT ![Cur] = r]
  BY DEF Upsert
<1>4. /\ r.there /\ r.policy = run.policy /\ r.deleted = old.deleted /\ (old.key => r.key)
      /\ r.del = del
  BY <1>1, <1>2 DEF Row
<1>5. new.del \in {None, "kept_source_pdf"} /\ old.del = "kept_source_pdf" =>
        r.del = "kept_source_pdf"
  BY <1>4 DEF Given
<1> HIDE DEF r, del, md
<1>6. CASE p # Cur
  <2>1. jobTable'[p] = jobTable[p]
    BY <1>2, <1>3, <1>6
  <2> QED BY <2>1, RowStandsIfKept
<1>7. CASE p = Cur
  <2>1. jobTable'[p] = r /\ jobTable[p] = old
    BY <1>1, <1>2, <1>3, <1>7
  <2>2. ASSUME RowFinished(old), r.policy = old.policy PROVE RowFinished(r)
    <3>1. CASE run.policy = "delete"
      BY <1>4, <2>2, <3>1 DEF RowFinished
    <3>2. CASE run.policy # "delete"
      <4>1. old.there /\ old.key /\ old.del = "kept_source_pdf"
        BY <1>4, <2>2, <3>2 DEF RowFinished
      <4>2. Settled(Cur, run.policy)
        BY <3>2, <4>1 DEF Settled
      <4> QED BY <1>4, <1>5, <3>2, <4>1, <4>2 DEF RowFinished
    <3> QED BY <3>1, <3>2
  <2> HIDE DEF old
  <2> QED BY <2>1, <2>2 DEF RowStands
<1> QED BY <1>6, <1>7

LEMMA SeedStands ==
  ASSUME SourceInv, StartFromZotero, NEW p \in Pdf
  PROVE  RowStands(p)
<1> DEFINE new == [jobTable[p] EXCEPT !.there = TRUE, !.policy = PolicyFor(p), !.err = FALSE]
<1>1. jobTable'[p] = jobTable[p] \/ jobTable'[p] = new
  BY DEF StartFromZotero, Seed
<1>2. jobTable[p] \in Row
  BY DEF SourceInv, SourceTypes
<1>3. /\ new.there /\ new.deleted = jobTable[p].deleted /\ new.key = jobTable[p].key
      /\ new.del = jobTable[p].del
  BY <1>2 DEF Row
<1> HIDE DEF new
<1> QED BY <1>1, <1>3, RowStandsIfKept

LEMMA AfterReadStands ==
  ASSUME SourceInv, script # "giant", AfterRead \/ UnreadStops, NEW p \in Pdf
  PROVE  RowStands(p)
<1>1. CASE UNCHANGED jobTable
  BY <1>1, RowStandsIfKept
<1>2. ASSUME NEW n, run.pc \in Busy, Upsert(n), n.del \in {None, "kept_source_pdf"}
      PROVE  RowStands(p)
  BY <1>2, UpsertStands
<1>3. CASE UnreadKeep \/ UnreadMissing
  <2>1. PICK n : Upsert(n)
    BY <1>3 DEF UnreadKeep, UnreadMissing
  <2>2. run.pc = "read" /\ run.pc \in Busy /\ ~Settled(Cur, run.policy)
    BY <1>3 DEF UnreadKeep, UnreadMissing, Unread, At, Busy, SourceInv, AtHand
  <2> QED BY <2>1, <2>2, UpsertStands
<1>4. CASE ReadSource
  BY <1>2, <1>4 DEF ReadSource, NoValue, At, Busy
<1>5. CASE ConvertStops \/ UnreadStops \/ ConvertFails
  <2>1. PICK md : Upsert([NoValue EXCEPT !.md = md, !.err = TRUE])
    BY <1>5 DEF ConvertFails, ConvertStops, UnreadStops
  <2> DEFINE n == [NoValue EXCEPT !.md = md, !.err = TRUE]
  <2>2. n.del = None /\ Upsert(n)
    BY <2>1 DEF NoValue
  <2>3. run.pc \in Busy
    BY <1>5 DEF ConvertFails, ConvertStops, UnreadStops, At, Busy
  <2> HIDE DEF n
  <2> QED BY <1>2, <2>2, <2>3
<1>6. CASE RecordStatus
  BY <1>2, <1>6 DEF RecordStatus, NoValue, At, Busy
<1>7. CASE Record
  <2> DEFINE n == [NoValue EXCEPT !.md = "completed", !.key = TRUE]
  <2>1. n.del = None /\ Upsert(n)
    BY <1>7 DEF Record, NoValue
  <2>2. run.pc \in Busy
    BY <1>7 DEF Record, At, Busy, Proven
  <2> HIDE DEF n
  <2> QED BY <1>2, <2>1, <2>2
<1>8. CASE Post
  BY <1>1, <1>2, <1>8 DEF Post, NoValue, At, Busy, Proven
<1>9. CASE DeleteItem /\ run.caught
  <2>1. run.pc \in Busy /\ run.policy = "delete"
    BY <1>9 DEF DeleteItem, At, Busy, Proven, SourceInv, AtHand
  <2>2. PICK n : Upsert(n)
    BY <1>9 DEF DeleteItem
  <2> QED BY <2>1, <2>2, UpsertStands
<1> QED BY <1>1, <1>3, <1>4, <1>5, <1>6, <1>7, <1>8, <1>9
        DEF AfterRead, UnreadDelete, Look, Convert, LookAgain, Check, DeleteItem

LEMMA GiantStands ==
  ASSUME SourceInv, script = "giant", NEW p \in Pdf
  PROVE  RowStands(p)
<1>1. /\ jobTable[p].policy \in {None, "keep"} /\ ~jobTable[p].deleted
      /\ jobTable[p].del # "kept_source_pdf"
  BY DEF SourceInv, RowOK, Fixed, FixedPolicy
<1> QED BY <1>1, CleanupAssumption DEF RowStands, RowFinished, Policy

LEMMA StepStands ==
  ASSUME SourceInv, [Next]_cleanupVars, NEW p \in Pdf
  PROVE  RowStands(p)
<1>1. CASE UNCHANGED jobTable
  BY <1>1, RowStandsIfKept
<1>2. CASE Over100 \/ Fifty \/ Ten \/ Under10 \/ Nonlaw
  <2>1. CASE StartFromZotero
    BY <2>1, SeedStands
  <2>2. CASE script # "giant" /\ (AfterRead \/ UnreadStops)
    BY <2>2, AfterReadStands
  <2> QED BY <1>1, <1>2, <2>1, <2>2, LoopIs
          DEF StartFromList, Deadline, AllSeen, Passes, Takes
<1>3. CASE Giant
  BY <1>3, GiantStands DEF Giant
<1>4. CASE Kill \/ World
  BY <1>1, <1>4 DEF Kill, World, EditZotero, LoseMarkdown, WorkerConverts, EditLauncher
<1> QED BY <1>1, <1>2, <1>3, <1>4 DEF Next, Works, cleanupVars

\* A row that a script has finished with stays finished, in every run of every script and
\* through every failure and edit, until its book is classified anew.
THEOREM FinishedStays ==
  Spec => FinishedStands
<1>1. SourceInv /\ [Next]_cleanupVars =>
        [\A p \in Pdf :
           Settled(p, jobTable[p].policy) =>
             Settled(p, jobTable[p].policy)' \/ jobTable'[p].policy # jobTable[p].policy]_cleanupVars
  <2> SUFFICES ASSUME SourceInv, [Next]_cleanupVars, NEW p \in Pdf,
                      Settled(p, jobTable[p].policy), jobTable'[p].policy = jobTable[p].policy
               PROVE  Settled(p, jobTable[p].policy)'
    OBVIOUS
  <2>1. RowFinished(jobTable[p]) /\ RowStands(p)
    BY StepStands DEF Settled, RowFinished
  <2>2. RowFinished(jobTable'[p])
    BY <2>1 DEF RowStands
  <2> QED BY <2>2 DEF Settled, RowFinished
<1> QED BY <1>1, SourceInvariant, PTL DEF FinishedStands, Spec
=============================================================================
