------------------------ MODULE CollectionRunProofs ------------------------
(***************************************************************************)
(* Theorems about CollectionRun, for any number of books and commands, any *)
(* overrides, failures and edits: what is finished stands, and a book is   *)
(* extracted along the route its user asked for last, by one command.      *)
(*                                                                         *)
(* The argument: each book is one that validate_state accepts, so it has   *)
(* at most one active stage; a command at work holds that stage, or lost   *)
(* it in a way that lets nobody else take it up and the store refuse what  *)
(* the command will record.  The second half needs Calm: without it two    *)
(* commands can meet on one route, as TLC shows.  The first does not.      *)
(***************************************************************************)
EXTENDS CollectionRun, WellFoundedInduction, TLAPS

-----------------------------------------------------------------------------
(* The inductive invariant.                                                *)

\* A stage that is up next, at work or held; a child has at most one.
Active == {"ready", "running", "blocked", "failed"}
\* The statuses the stages of a durable collection take: none waits for an approval
\* and none is skipped before the handoff.
Used == {"pending", "completed"} \cup Active

\* A stage record, its hashes left open.
StageShape(st) ==
  st \in [status : Used, hashes : {st.hashes}, owner : Runner \cup {NoOwner}]

\* The stages of a book: one record for each.
StagesShape(f) ==
  /\ f = [s \in BookStages |-> f[s]]
  /\ \A s \in BookStages : StageShape(f[s])

\* A book, its route left open.
BookShape(b) ==
  /\ b \in [stages : {b.stages}, chosen : Tokens, route : {b.route}, dropped : BOOLEAN]
  /\ StagesShape(b.stages)

\* The route of a book is the one its user asked for last.
Matches(b) ==
  CASE b.chosen = "auto" -> b.route \in {"ocr", "reused"}
    [] b.chosen = "keep" -> b.route = "reused"
    [] OTHER -> b.route = b.chosen

\* One command at most.
Single == \A p, q \in Runner : p = q

\* What it takes for two commands not to meet on a stage: that a user cannot block the
\* route a command is working on.  An override to an engine without credentials, or one
\* that keeps the conversion, blocks a running route, and so does a PDF that changes; a
\* second override would make that route ready again for another command.
Calm ==
  \/ Single \/ "override" \notin Edits
  \/ Missing = {} /\ "keep" \notin Tokens /\ "pdf" \notin Edits

\* What every saved book is.
Sound(b) ==
  /\ BookShape(b) /\ ValidChild(b.stages)
  /\ Calm /\ b.stages["route"].status = "completed" => Matches(b)

\* A command, with the stage it is at.
RunShape(r) ==
  /\ r.book \in Child /\ r.stage \in Durable \cup {"none"}
  /\ r.at \in {"check", "start", "work"} => r.stage \in Durable
  /\ r \in [at : {r.at}, check : BOOLEAN, retry : BOOLEAN, book : {r.book},
            stage : {r.stage}, chosen : {r.chosen}]

\* The stage a command works on is its own, and a route is the one asked for.
Holds(p, r, b) ==
  LET s == r.stage IN
  /\ b.stages[s].status = "running" /\ b.stages[s].owner = p
  /\ s = "route" => r.chosen = b.chosen

\* The stage a command works on was taken from it, and no other command can take it up
\* before the first has tried to save.
Lost(r, b) ==
  LET s == r.stage IN
  /\ b.stages[s].status \notin {"running", "completed"}
  /\ \/ Single
     \/ s = "route" /\ "override" \notin Edits /\ b.stages[s].status = "blocked"
     \/ s \in {"index", "handoff"} /\ b.stages["extract"].status = "blocked"
     \/ s \in {"extract", "handoff"} /\ b.stages[s].status = "blocked"

\* A command at work holds its stage or has lost it.
Bound(p, r, b) == Calm => Holds(p, r, b) \/ Lost(r, b)

\* The files of a book.
DiskShape(d) ==
  /\ d \in [pdf : {d.pdf}, text : {d.text}]
  /\ d.pdf = "changed" => "pdf" \in Edits

\* The files of every book.
DiskOK == disk = [b \in Child |-> disk[b]] /\ \A b \in Child : DiskShape(disk[b])

\* Every command at work is bound to its book.
Works ==
  \A p \in Runner : run[p].at = "work" => Bound(p, run[p], books[run[p].book])

\* The inductive invariant.
CInv ==
  /\ books = [b \in Child |-> books[b]]
  /\ \A b \in Child : Sound(books[b])
  /\ run = [p \in Runner |-> run[p]]
  /\ \A p \in Runner : RunShape(run[p])
  /\ DiskOK /\ Works /\ (Calm => OneRunner)

-----------------------------------------------------------------------------
(* The order of the stages and the saves the store accepts.                *)

\* First, a CHOOSE, finds the first book of a set of books: there is one, the books
\* being numbered.
LEMMA FirstIn ==
  ASSUME NEW S, S \subseteq Child, S # {}
  PROVE  First(S) \in S
<1> DEFINE R == OpToRel(<, Nat)
<1>1. IsWellFoundedOn(R, Nat)
  BY NatLessThanWellFounded
<1>2. S \subseteq Nat
  BY CollectionAssumption DEF Child
<1>3. \A x, y \in Nat : <<y, x>> \in R <=> y < x
  BY DEF OpToRel
<1> HIDE DEF R
<1>4. \E x \in S : \A y \in S : ~(<<y, x>> \in R)
  BY <1>1, <1>2, WFMin
<1>5. PICK x \in S : \A y \in S : ~(<<y, x>> \in R)
  BY <1>4
<1>6. ASSUME NEW y \in S PROVE x <= y
  <2>1. x \in Nat /\ y \in Nat /\ ~(y < x)
    BY <1>2, <1>3, <1>5
  <2> QED BY <2>1
<1> QED BY <1>5, <1>6 DEF First

\* The stages of a book and their order.
LEMMA BookOrder ==
  /\ BookStages = {"route", "extract", "index", "handoff", "split"}
  /\ BookStages \cap Gates = {}
  /\ \A s \in BookStages :
       /\ After(s, "route") <=> s # "route"
       /\ After(s, "extract") <=> s \in {"index", "handoff", "split"}
       /\ After(s, "index") <=> s \in {"handoff", "split"}
       /\ After(s, "handoff") <=> s = "split"
       /\ ~After(s, "split")
<1>1. BookStages = {"route", "extract", "index", "handoff", "split"}
  BY DEF BookStages, Durable
<1>2. BookStages \cap Gates = {}
  BY <1>1 DEF Gates
<1>3. ASSUME NEW s \in BookStages
      PROVE  /\ After(s, "route") <=> s # "route"
             /\ After(s, "extract") <=> s \in {"index", "handoff", "split"}
             /\ After(s, "index") <=> s \in {"handoff", "split"}
             /\ After(s, "handoff") <=> s = "split"
             /\ ~After(s, "split")
  BY <1>1 DEF After, Order
<1> QED BY <1>1, <1>2, <1>3

\* What validate_state gives: behind a stage that is not completed all are pending, at
\* most one stage is active, and what does not run has no owner.
LEMMA StageOrder ==
  ASSUME NEW b, BookShape(b), ValidChild(b.stages),
         NEW s \in BookStages, NEW t \in BookStages
  PROVE  /\ b.stages[s].status \in Used
         /\ After(t, s) /\ b.stages[s].status # "completed" => b.stages[t].status = "pending"
         /\ b.stages[s].status \in Active /\ b.stages[t].status \in Active => s = t
         /\ b.stages[s].status # "running" => b.stages[s].owner = NoOwner
<1>1. DOMAIN b.stages = BookStages /\ StageShape(b.stages[s]) /\ StageShape(b.stages[t])
  BY DEF BookShape, StagesShape
<1>2. b.stages[s].status \in Used /\ b.stages[t].status \in Used
  BY <1>1 DEF StageShape
<1>3. ASSUME NEW u \in BookStages, NEW v \in BookStages,
             After(v, u), b.stages[u].status # "completed",
             b.stages[u].status \in Used, b.stages[v].status \in Used
      PROVE  b.stages[v].status = "pending"
  <2>1. b.stages[u].status \notin Done
    BY <1>3 DEF Done, Used, Active
  <2>2. b.stages[v].status \in {"pending", "skipped"}
    BY <1>1, <1>3, <2>1 DEF ValidChild
  <2> QED BY <1>3, <2>2 DEF Used, Active
<1>4. After(s, t) \/ s = t \/ After(t, s)
  BY BookOrder
<1>5. ASSUME b.stages[s].status \in Active, b.stages[t].status \in Active
      PROVE  s = t
  BY <1>2, <1>3, <1>4, <1>5 DEF Active
<1>6. ASSUME b.stages[s].status # "running" PROVE b.stages[s].owner = NoOwner
  <2>1. ValidOwner(s, b.stages[s])
    BY <1>1 DEF ValidChild
  <2> QED BY <1>6, <2>1, BookOrder DEF ValidOwner, AgentWaiting
<1> QED BY <1>2, <1>3, <1>5, <1>6

\* set_stage_status changes the status and the owner of one stage and nothing else.
LEMMA ToFacts ==
  ASSUME NEW b, BookShape(b), NEW s \in BookStages, NEW status \in Used
  PROVE  LET n == To(b, s, status) IN
         /\ BookShape(n)
         /\ n.chosen = b.chosen /\ n.route = b.route /\ n.dropped = b.dropped
         /\ n.stages[s].status = status /\ n.stages[s].hashes = b.stages[s].hashes
         /\ \A t \in BookStages \ {s} : n.stages[t] = b.stages[t]
<1> DEFINE st == [b.stages[s] EXCEPT !.status = status, !.owner = NoOwner]
           f  == [b.stages EXCEPT ![s] = st]
<1>1. StagesShape(b.stages) /\ StageShape(b.stages[s])
  BY DEF BookShape, StagesShape
<1>2. StageShape(st) /\ st.status = status /\ st.hashes = b.stages[s].hashes
  BY <1>1 DEF StageShape
<1>3. To(b, s, status) = [b EXCEPT !.stages = f]
  BY <1>1 DEF To, BookShape, StagesShape
<1> HIDE DEF st
<1>4. StagesShape(f) /\ f[s] = st /\ \A t \in BookStages \ {s} : f[t] = b.stages[t]
  BY <1>1, <1>2 DEF StagesShape
<1> HIDE DEF f
<1>5. LET n == [b EXCEPT !.stages = f] IN
        /\ BookShape(n) /\ n.stages = f
        /\ n.chosen = b.chosen /\ n.route = b.route /\ n.dropped = b.dropped
  BY <1>4 DEF BookShape
<1> QED BY <1>2, <1>3, <1>4, <1>5

\* What a save may make of a stage whose hashes stay, and of a completed one.
LEMMA Transitions ==
  ASSUME NEW s \in BookStages, NEW old, NEW new, IsAllowedTransition(s, old, new, 0),
         old.status \in Used, new.status \in Used, new.hashes = old.hashes
  PROVE  /\ new.status = "completed" => old.status \in {"completed", "running"}
         /\ old.status = "completed" => new.status = "completed"
         /\ new.status = "ready" => old.status \in {"ready", "pending", "blocked", "failed"}
         /\ new.status = "pending" => old.status = "pending"
         /\ new.status = "failed" => \/ old.status \in {"running", "failed"}
                                     \/ s = "index" /\ old.status = "ready"
<1>1. s \notin Gates /\ ~AgentWaiting(s, old)
  BY BookOrder DEF AgentWaiting
<1>2. \/ old.status = new.status
      \/ <<old.status, new.status>> \in PlainTransitions
      \/ s = "index" /\ old.status = "ready" /\ new.status = "failed"
  BY <1>1 DEF IsAllowedTransition
<1>3. ASSUME old.status = "completed" PROVE new.status = "completed"
  BY <1>3 DEF IsAllowedTransition
<1>4. ASSUME new.status = "pending" PROVE old.status = "pending"
  BY <1>2, <1>4 DEF PlainTransitions
<1> QED BY <1>2, <1>3, <1>4 DEF PlainTransitions, Used, Active

-----------------------------------------------------------------------------
(* The frame: what a step leaves alone.                                    *)

\* The invariant carries over when every command at work is as it was and still bound.
LEMMA Carried ==
  ASSUME CInv, DiskOK',
         books' = [b \in Child |-> books'[b]], \A b \in Child : Sound(books'[b]),
         run' = [p \in Runner |-> run'[p]], \A p \in Runner : RunShape(run'[p]),
         \A q \in Runner : run'[q].at = "work" =>
           run'[q] = run[q] /\ Bound(q, run[q], books'[run[q].book])
  PROVE  CInv'
<1>1. Works'
  <2>1. ASSUME NEW q \in Runner, run'[q].at = "work"
        PROVE  Bound(q, run[q], books[run[q].book])'
    <3>1. run'[q] = run[q] /\ Bound(q, run[q], books'[run[q].book])
      BY <2>1
    <3>2. Bound(q, run'[q], books'[run'[q].book])
      BY <3>1
    <3> QED BY <3>2 DEF Bound, Holds, Lost
  <2> QED BY <2>1 DEF Works
<1>2. Calm => OneRunner'
  BY DEF CInv, OneRunner
<1>3. (\A b \in Child : Sound(books[b]))'
  BY DEF Sound, BookShape, StagesShape, StageShape, Matches, ValidChild, ValidOwner, AgentWaiting
<1>4. (\A p \in Runner : RunShape(run[p]))'
  BY DEF RunShape
<1>5. /\ books' = [b \in Child |-> books'[b]] /\ run' = [p \in Runner |-> run'[p]]
      /\ DiskOK'
  OBVIOUS
<1> QED BY <1>1, <1>2, <1>3, <1>4, <1>5 DEF CInv

\* A command that moves on, and not to work, leaves the others as they were.
LEMMA NextBook ==
  ASSUME CInv, NEW p \in Runner, NEW next, RunShape(next), next.at # "work",
         run' = [run EXCEPT ![p] = next]
  PROVE  /\ run' = [q \in Runner |-> run'[q]] /\ \A q \in Runner : RunShape(run'[q])
         /\ \A q \in Runner : run'[q].at = "work" => q # p /\ run'[q] = run[q]
<1>1. run' = [q \in Runner |-> IF q = p THEN next ELSE run[q]]
  BY DEF CInv
<1>2. \A q \in Runner : RunShape(run[q])
  BY DEF CInv
<1> QED BY <1>1, <1>2

\* The two places a command returns to.
LEMMA RestShape ==
  /\ RunShape(IdleRun) /\ IdleRun.at = "idle"
  /\ RunShape(Looping) /\ Looping.at = "head"
<1>1. 1 \in Child
  BY CollectionAssumption DEF Child
<1>2. RunShape(IdleRun) /\ IdleRun.at = "idle" /\ IdleRun.stage = "none"
  BY <1>1 DEF RunShape, IdleRun
<1> HIDE DEF IdleRun
<1>3. ASSUME NEW r, RunShape(r) PROVE RunShape([r EXCEPT !.at = "head"])
  BY <1>3 DEF RunShape
<1>4. RunShape(Looping) /\ Looping.at = "head"
  BY <1>2, <1>3 DEF Looping, RunShape
<1> QED BY <1>2, <1>4

\* A step that saves nothing keeps the invariant.
LEMMA QuietKeeps ==
  ASSUME CInv, DiskOK', NEW p \in Runner, NEW next, RunShape(next), next.at # "work",
         GoesTo(p, next), books' = books
  PROVE  CInv'
<1>1. run' = [run EXCEPT ![p] = next]
  BY DEF GoesTo
<1>2. /\ books = [b \in Child |-> books[b]]
      /\ \A b \in Child : Sound(books[b])
      /\ \A q \in Runner : run[q].at = "work" => Bound(q, run[q], books[run[q].book])
  BY DEF CInv, Works
<1> QED BY <1>1, <1>2, NextBook, Carried

\* The end of a command keeps the invariant: it fails what the command was running, and
\* no other command has lost a stage to that.
LEMMA EndRunKeeps ==
  ASSUME CInv, DiskOK', NEW p \in Runner, EndRun(p)
  PROVE  CInv'
<1> DEFINE Failed(b) == [s \in BookStages |->
                           IF b.stages[s].owner = p
                           THEN [b.stages[s] EXCEPT !.status = "failed", !.owner = NoOwner]
                           ELSE b.stages[s]]
<1>1. /\ run' = [run EXCEPT ![p] = IdleRun]
      /\ books' = [b \in Child |-> [books[b] EXCEPT !.stages = Failed(books[b])]]
  BY DEF EndRun, GoesTo
<1>2. /\ books = [b \in Child |-> books[b]]
      /\ \A b \in Child : Sound(books[b])
      /\ \A q \in Runner : RunShape(run[q])
      /\ \A q \in Runner : run[q].at = "work" => Bound(q, run[q], books[run[q].book])
  BY DEF CInv, Works
<1>3. ASSUME NEW b \in Child, NEW s \in BookStages
      PROVE  /\ StageShape(Failed(books[b])[s])
             /\ \/ /\ Failed(books[b])[s] = books[b].stages[s] /\ books[b].stages[s].owner # p
                \/ /\ books[b].stages[s].status = "running" /\ books[b].stages[s].owner = p
                   /\ Failed(books[b])[s].status = "failed" /\ Failed(books[b])[s].owner = NoOwner
  <2>1. StageShape(books[b].stages[s]) /\ BookShape(books[b]) /\ ValidChild(books[b].stages)
    BY <1>2 DEF Sound, BookShape, StagesShape
  <2>2. books[b].stages[s].owner = p => books[b].stages[s].status = "running"
    BY <2>1, StageOrder, CollectionAssumption
  <2> QED BY <2>1, <2>2 DEF StageShape, Used, Active
<1>4. ASSUME NEW b \in Child
      PROVE  /\ Sound(books'[b]) /\ books'[b].stages = Failed(books[b])
             /\ books'[b].chosen = books[b].chosen
  <2> DEFINE f == Failed(books[b])
             n == [books[b] EXCEPT !.stages = f]
  <2>1. books'[b] = n
    BY <1>1
  <2>2. StagesShape(f)
    BY <1>3 DEF StagesShape
  <2>3. BookShape(books[b]) /\ ValidChild(books[b].stages)
        /\ (Calm /\ books[b].stages["route"].status = "completed" => Matches(books[b]))
    BY <1>2 DEF Sound
  <2>4. \A s \in BookStages :
          \/ f[s] = books[b].stages[s]
          \/ /\ books[b].stages[s].status = "running"
             /\ f[s].status = "failed" /\ f[s].owner = NoOwner
    BY <1>3
  <2> HIDE DEF f
  <2>5. BookShape(n) /\ n.stages = f /\ n.chosen = books[b].chosen /\ n.route = books[b].route
    BY <2>2, <2>3 DEF BookShape
  <2>6. ValidChild(f)
    <3>1. DOMAIN f = BookStages /\ DOMAIN books[b].stages = BookStages
      BY <2>2, <2>3 DEF StagesShape, BookShape
    <3>2. ASSUME NEW s \in BookStages PROVE ValidOwner(s, f[s])
      BY <2>3, <2>4, <3>1 DEF ValidChild, ValidOwner, AgentWaiting
    <3>3. ASSUME NEW s \in BookStages, NEW t \in BookStages, After(s, t), f[t].status \notin Done
          PROVE  f[s].status \in {"pending", "skipped"}
      <4>1. books[b].stages[t].status \notin Done
        BY <2>4, <3>3 DEF Done
      <4>2. books[b].stages[s].status \in {"pending", "skipped"}
        BY <2>3, <3>1, <3>3, <4>1 DEF ValidChild
      <4> QED BY <2>4, <4>2
    <3> QED BY <3>1, <3>2, <3>3 DEF ValidChild
  <2>7. "route" \in BookStages /\ (f["route"].status = "completed" =>
                                     books[b].stages["route"].status = "completed")
    BY <2>4, BookOrder
  <2> QED BY <2>1, <2>3, <2>5, <2>6, <2>7 DEF Sound, Matches, f
<1>5. ASSUME NEW q \in Runner, q # p, run[q].at = "work"
      PROVE  Bound(q, run[q], books'[run[q].book])
  <2> DEFINE b == run[q].book
             s == run[q].stage
  <2>1. b \in Child /\ {s, "extract"} \subseteq BookStages
    BY <1>2, <1>5, BookOrder DEF RunShape, BookStages
  <2>2. ASSUME NEW t \in BookStages, \/ books[b].stages[t].status # "running"
                                     \/ books[b].stages[t].owner = q
        PROVE  books'[b].stages[t] = books[b].stages[t]
    <3>1. books'[b].stages = Failed(books[b])
      BY <1>4, <2>1
    <3>2. \/ Failed(books[b])[t] = books[b].stages[t]
          \/ books[b].stages[t].status = "running" /\ books[b].stages[t].owner = p
      BY <1>3, <2>1
    <3> QED BY <1>5, <2>2, <3>1, <3>2
  <2>3. CASE Holds(q, run[q], books[b])
    <3>1. books'[b].stages[s] = books[b].stages[s]
      BY <2>1, <2>2, <2>3 DEF Holds
    <3> QED BY <1>4, <2>1, <2>3, <3>1 DEF Bound, Holds
  <2>4. CASE Lost(run[q], books[b])
    <3>1. books'[b].stages[s] = books[b].stages[s]
      BY <2>1, <2>2, <2>4 DEF Lost
    <3>2. books[b].stages["extract"].status = "blocked" =>
            books'[b].stages["extract"] = books[b].stages["extract"]
      BY <2>1, <2>2
    <3> QED BY <2>4, <3>1, <3>2 DEF Bound, Lost
  <2> QED BY <1>2, <1>5, <2>3, <2>4 DEF Bound
<1>6. books' = [b \in Child |-> books'[b]]
  BY <1>1
<1> HIDE DEF Failed
<1> QED BY <1>1, <1>4, <1>5, <1>6, NextBook, RestShape, Carried

\* A save keeps the invariant when the store refuses it, or when the new book is sound
\* and still binds the other commands.
LEMMA SaveKeeps ==
  ASSUME CInv, DiskOK', NEW p \in Runner, NEW b \in Child, NEW new,
         NEW next, RunShape(next), next.at # "work", Save(p, b, new, next),
         Acceptable([books EXCEPT ![b] = new]) =>
           /\ Sound(new)
           /\ \A q \in Runner \ {p} : run[q].at = "work" /\ run[q].book = b =>
                Bound(q, run[q], new)
  PROVE  CInv'
<1> DEFINE all == [books EXCEPT ![b] = new]
<1>1. CASE ~Acceptable(all)
  <2>1. EndRun(p)
    BY <1>1 DEF Save
  <2> QED BY <2>1, EndRunKeeps
<1>2. CASE Acceptable(all)
  <2>1. books' = all /\ run' = [run EXCEPT ![p] = next]
    BY <1>2 DEF Save, GoesTo
  <2>2. /\ books = [c \in Child |-> books[c]]
        /\ \A c \in Child : Sound(books[c])
        /\ \A q \in Runner : run[q].at = "work" => Bound(q, run[q], books[run[q].book])
        /\ \A q \in Runner : RunShape(run[q])
    BY DEF CInv, Works
  <2>3. books' = [c \in Child |-> IF c = b THEN new ELSE books[c]]
    BY <2>1, <2>2
  <2>4. books' = [c \in Child |-> books'[c]] /\ \A c \in Child : Sound(books'[c])
    BY <1>2, <2>2, <2>3
  <2>5. ASSUME NEW q \in Runner \ {p}, run[q].at = "work"
        PROVE  Bound(q, run[q], books'[run[q].book])
    <3>1. run[q].book \in Child
      BY <2>2 DEF RunShape
    <3> QED BY <1>2, <2>2, <2>3, <2>5, <3>1
  <2> QED BY <2>1, <2>4, <2>5, NextBook, Carried
<1> QED BY <1>1, <1>2

\* What a save the store accepts says of the new book.
LEMMA Accepted ==
  ASSUME CInv, NEW b \in Child, NEW new, BookShape(new),
         Acceptable([books EXCEPT ![b] = new])
  PROVE  /\ ValidChild(new.stages)
         /\ \A s \in BookStages : IsAllowedTransition(s, books[b].stages[s], new.stages[s], 0)
         /\ \A s \in BookStages : books[b].stages[s].status \in Used
                                  /\ new.stages[s].status \in Used
<1> DEFINE all == [books EXCEPT ![b] = new]
<1>1. all[b] = new
  BY DEF CInv
<1>2. ValidChild(all[b].stages)
      /\ \A s \in BookStages : IsAllowedTransition(s, books[b].stages[s], all[b].stages[s], 0)
  BY DEF Acceptable
<1>3. BookShape(books[b])
  BY DEF CInv, Sound
<1> QED BY <1>1, <1>2, <1>3 DEF BookShape, StagesShape, StageShape

\* A command at work has a book and a stage of it.
LEMMA WorkFacts ==
  ASSUME CInv, NEW q \in Runner, run[q].at = "work"
  PROVE  /\ run[q].book \in Child /\ run[q].stage \in Durable /\ run[q].stage \in BookStages
         /\ Bound(q, run[q], books[run[q].book])
BY DEF CInv, Works, RunShape, BookStages

-----------------------------------------------------------------------------
(* The steps of a command.                                                 *)

\* block_drifted_worker_evidence keeps the invariant: who works on the index or the
\* handoff of the book has lost it.
LEMMA DriftKeeps ==
  ASSUME CInv, DiskOK', NEW p \in Runner, NEW b \in HasDrifted,
         NEW next, RunShape(next), next.at # "work",
         Save(p, b, Drifted(books[b]), next)
  PROVE  CInv'
<1> DEFINE new == Drifted(books[b])
<1>1. b \in Child /\ books[b].stages["extract"].status = "completed"
  BY DEF HasDrifted, Is
<1>2. Sound(books[b]) /\ BookShape(books[b]) /\ ValidChild(books[b].stages)
  BY <1>1 DEF CInv, Sound
<1> DEFINE f == [s \in BookStages |->
                   IF s = "route" THEN books[b].stages[s]
                   ELSE [status |-> IF s = "extract" THEN "blocked" ELSE "pending",
                         hashes |-> {<<"workerEvidenceInvalidation", 0>>}, owner |-> NoOwner]]
<1>3. new = [books[b] EXCEPT !.stages = f]
  BY <1>2 DEF Drifted, BookShape
<1>4. StagesShape(f)
  <2>1. ASSUME NEW s \in BookStages PROVE StageShape(f[s])
    BY <1>2 DEF BookShape, StagesShape, StageShape, Used, Active
  <2> QED BY <2>1 DEF StagesShape
<1>5. /\ f["route"] = books[b].stages["route"] /\ f["extract"].status = "blocked"
      /\ \A s \in {"index", "handoff"} : f[s].status = "pending"
  BY BookOrder
<1> HIDE DEF f
<1>6. BookShape(new) /\ new.stages = f /\ new.chosen = books[b].chosen /\ new.route = books[b].route
  BY <1>2, <1>3, <1>4 DEF BookShape
<1> HIDE DEF new
<1>7. books[b].stages["route"].status = "completed"
  <2>1. {"route", "extract"} \subseteq BookStages
    BY BookOrder
  <2> QED BY <1>1, <1>2, <2>1, StageOrder, BookOrder
<1>8. ASSUME Acceptable([books EXCEPT ![b] = new]) PROVE Sound(new)
  <2>1. ValidChild(new.stages)
    BY <1>1, <1>6, <1>8, Accepted
  <2> QED BY <1>2, <1>5, <1>6, <2>1 DEF Sound, Matches
<1>9. ASSUME NEW q \in Runner \ {p}, run[q].at = "work", run[q].book = b
      PROVE  Bound(q, run[q], new)
  <2>1. run[q].stage \in Durable /\ Bound(q, run[q], books[b])
    BY <1>9, WorkFacts
  <2>2. SUFFICES ASSUME Calm PROVE Lost(run[q], new)
    BY DEF Bound
  <2>3. ~Single
    BY <1>9 DEF Single
  <2>4. CASE run[q].stage \in {"index", "handoff"}
    BY <1>5, <1>6, <2>4 DEF Lost
  <2>5. CASE run[q].stage \in {"route", "extract"}
    BY <1>1, <1>7, <2>1, <2>2, <2>3, <2>5 DEF Bound, Holds, Lost
  <2> QED BY <2>1, <2>4, <2>5 DEF Durable
<1> QED BY <1>1, <1>6, <1>8, <1>9, SaveKeeps DEF new

\* The validation of the evidence keeps the invariant.
LEMMA ValidationKeeps ==
  ASSUME CInv, NEW p \in Runner, NEW sound, NEW unsound, UNCHANGED disk,
         RunShape(sound), sound.at # "work", RunShape(unsound), unsound.at # "work",
         Validation(p, sound, unsound)
  PROVE  CInv'
<1>1. DiskOK'
  BY DEF CInv, DiskOK, DiskShape
<1>2. CASE GoesTo(p, sound) /\ UNCHANGED books
  BY <1>1, <1>2, QuietKeeps
<1>3. CASE GoesTo(p, unsound) /\ UNCHANGED books
  BY <1>1, <1>3, QuietKeeps
<1>4. CASE HasDrifted # {} /\ Save(p, First(HasDrifted), Drifted(books[First(HasDrifted)]), unsound)
  <2>1. First(HasDrifted) \in HasDrifted
    BY <1>4, FirstIn DEF HasDrifted
  <2> QED BY <1>1, <1>4, <2>1, DriftKeeps
<1> QED BY <1>2, <1>3, <1>4 DEF Validation

\* block_durable_collection_stage keeps the invariant: a stage that another command
\* started meanwhile is lost to it.
LEMMA BlockKeeps ==
  ASSUME CInv, DiskOK', NEW p \in Runner, NEW b \in Child,
         NEW s \in {"route", "extract", "handoff"},
         s = "route" => disk[b].pdf = "changed",
         NEW next, RunShape(next), next.at # "work",
         Save(p, b, To(books[b], s, "blocked"), next)
  PROVE  CInv'
<1> DEFINE new == To(books[b], s, "blocked")
<1>1. s \in BookStages /\ "blocked" \in Used /\ "route" \in BookStages /\ "extract" \in BookStages
  BY BookOrder DEF Used, Active
<1>2. Sound(books[b]) /\ BookShape(books[b])
  BY DEF CInv, Sound
<1>3. /\ BookShape(new) /\ new.chosen = books[b].chosen /\ new.route = books[b].route
      /\ new.stages[s].status = "blocked"
      /\ \A t \in BookStages \ {s} : new.stages[t] = books[b].stages[t]
  BY <1>1, <1>2, ToFacts
<1> HIDE DEF new
<1>4. ASSUME Acceptable([books EXCEPT ![b] = new]) PROVE Sound(new)
  <2>1. ValidChild(new.stages)
    BY <1>3, <1>4, Accepted
  <2> QED BY <1>1, <1>2, <1>3, <2>1 DEF Sound, Matches
<1>5. ASSUME NEW q \in Runner \ {p}, run[q].at = "work", run[q].book = b
      PROVE  Bound(q, run[q], new)
  <2>1. run[q].stage \in Durable /\ run[q].stage \in BookStages /\ Bound(q, run[q], books[b])
    BY <1>5, WorkFacts
  <2>2. SUFFICES ASSUME Calm PROVE Holds(q, run[q], new) \/ Lost(run[q], new)
    BY DEF Bound
  <2>3. ~Single
    BY <1>5 DEF Single
  <2>4. CASE run[q].stage = s
    <3>1. CASE s = "route"
      <4>1. "override" \notin Edits
        BY <2>2, <2>3, <3>1 DEF Calm, CInv, DiskOK, DiskShape
      <4> QED BY <1>3, <2>4, <3>1, <4>1 DEF Lost
    <3>2. CASE s \in {"extract", "handoff"}
      BY <1>3, <2>4, <3>2 DEF Lost
    <3> QED BY <3>1, <3>2
  <2>5. CASE run[q].stage # s
    <3>1. new.stages[run[q].stage] = books[b].stages[run[q].stage]
      BY <1>3, <2>1, <2>5
    <3>2. \/ new.stages["extract"].status = "blocked"
          \/ new.stages["extract"] = books[b].stages["extract"]
      BY <1>1, <1>3
    <3> QED BY <1>3, <2>1, <2>2, <2>3, <3>1, <3>2 DEF Bound, Holds, Lost
  <2> QED BY <2>4, <2>5
<1> QED BY <1>3, <1>4, <1>5, SaveKeeps DEF new

\* finish_item_index_preflight_failure keeps the invariant.
LEMMA PreflightKeeps ==
  ASSUME CInv, DiskOK', NEW p \in Runner, NEW b \in Child, Startable(b, "index"),
         NEW next, RunShape(next), next.at # "work",
         Save(p, b, To(books[b], "index", "failed"), next)
  PROVE  CInv'
<1> DEFINE s == "index"
           new == To(books[b], s, "failed")
<1>1. s \in BookStages /\ "failed" \in Used /\ "route" \in BookStages /\ "extract" \in BookStages
  BY BookOrder DEF Used, Active
<1>2. Sound(books[b]) /\ BookShape(books[b]) /\ books[b].stages[s].status \in {"ready", "failed"}
  BY DEF CInv, Sound, Startable
<1>3. /\ BookShape(new) /\ new.chosen = books[b].chosen /\ new.route = books[b].route
      /\ new.stages[s].status = "failed"
      /\ \A t \in BookStages \ {s} : new.stages[t] = books[b].stages[t]
  BY <1>1, <1>2, ToFacts
<1> HIDE DEF new
<1>4. ASSUME Acceptable([books EXCEPT ![b] = new]) PROVE Sound(new)
  <2>1. ValidChild(new.stages)
    BY <1>3, <1>4, Accepted
  <2> QED BY <1>1, <1>2, <1>3, <2>1 DEF Sound, Matches
<1>5. ASSUME NEW q \in Runner \ {p}, run[q].at = "work", run[q].book = b
      PROVE  Bound(q, run[q], new)
  <2>1. run[q].stage \in Durable /\ run[q].stage \in BookStages /\ Bound(q, run[q], books[b])
    BY <1>5, WorkFacts
  <2>2. SUFFICES ASSUME Calm PROVE Holds(q, run[q], new) \/ Lost(run[q], new)
    BY DEF Bound
  <2>3. new.stages["extract"] = books[b].stages["extract"]
    BY <1>1, <1>3
  <2>4. CASE run[q].stage = s
    BY <1>2, <1>3, <2>1, <2>2, <2>3, <2>4 DEF Bound, Holds, Lost
  <2>5. CASE run[q].stage # s
    <3>1. new.stages[run[q].stage] = books[b].stages[run[q].stage]
      BY <1>3, <2>1, <2>5
    <3> QED BY <1>3, <2>1, <2>2, <2>3, <3>1 DEF Bound, Holds, Lost
  <2> QED BY <2>4, <2>5
<1> QED BY <1>3, <1>4, <1>5, SaveKeeps DEF new

\* What a stage finds before it starts keeps the invariant.
LEMMA CheckKeeps ==
  ASSUME CInv, NEW p \in Runner, Check(p)
  PROVE  CInv'
<1> DEFINE b == run[p].book
           s == run[p].stage
<1>1. DiskOK'
  BY DEF CInv, DiskOK, DiskShape, Check
<1>2. b \in Child /\ s \in Durable /\ RunShape(run[p])
  BY DEF CInv, RunShape, Check
<1>3. CASE EndRun(p)
  BY <1>1, <1>3, EndRunKeeps
<1>4. CASE WrongFile(b, s) /\ Save(p, b, To(books[b], s, "blocked"), Looping)
  <2>1. s \in {"route", "extract", "handoff"} /\ (s = "route" => disk[b].pdf = "changed")
    BY <1>4 DEF WrongFile
  <2> HIDE DEF b, s
  <2> QED BY <1>1, <1>2, <1>4, <2>1, RestShape, BlockKeeps
<1>5. CASE s = "index" /\ Startable(b, s) /\ Save(p, b, To(books[b], s, "failed"), Looping)
  <2> HIDE DEF b, s
  <2> QED BY <1>1, <1>2, <1>5, RestShape, PreflightKeeps
<1>6. CASE GoesTo(p, [run[p] EXCEPT !.at = "start"]) /\ UNCHANGED books
  <2>1. RunShape([run[p] EXCEPT !.at = "start"]) /\ [run[p] EXCEPT !.at = "start"].at = "start"
    BY <1>2 DEF RunShape
  <2> QED BY <1>1, <1>6, <2>1, QuietKeeps
<1>7. \/ EndRun(p)
      \/ WrongFile(b, s) /\ Save(p, b, To(books[b], s, "blocked"), Looping)
      \/ s = "index" /\ Startable(b, s) /\ Save(p, b, To(books[b], s, "failed"), Looping)
      \/ GoesTo(p, [run[p] EXCEPT !.at = "start"]) /\ UNCHANGED books
  BY DEF Check
<1> QED BY <1>3, <1>4, <1>5, <1>6, <1>7

\* start_stage keeps the invariant: with the stage ready or failed no other command is at
\* work on the book.
LEMMA BeginKeeps ==
  ASSUME CInv, NEW p \in Runner, BeginStage(p)
  PROVE  CInv'
<1> DEFINE b == run[p].book
           s == run[p].stage
           st == [status |-> "running", hashes |-> {<<"input", s>>}, owner |-> p]
           new == [books[b] EXCEPT !.stages[s] = st]
           next == [run[p] EXCEPT !.at = "work", !.chosen = books[b].chosen]
           all == [books EXCEPT ![b] = new]
<1>1. DiskOK'
  BY DEF CInv, DiskOK, DiskShape, BeginStage
<1>2. /\ b \in Child /\ s \in Durable /\ s \in BookStages /\ RunShape(run[p])
      /\ "route" \in BookStages /\ "extract" \in BookStages
  BY BookOrder DEF CInv, RunShape, BeginStage, BookStages
<1>3. CASE EndRun(p)
  BY <1>1, <1>3, EndRunKeeps
<1>4. CASE Startable(b, s) /\ Acceptable(all) /\ books' = all /\ GoesTo(p, next)
  <2>1. Sound(books[b]) /\ BookShape(books[b]) /\ ValidChild(books[b].stages)
    BY <1>2 DEF CInv, Sound
  <2>2. books[b].stages[s].status \in {"ready", "failed"}
    BY <1>4 DEF Startable
  <2> DEFINE f == [books[b].stages EXCEPT ![s] = st]
  <2>3. new = [books[b] EXCEPT !.stages = f]
    BY <2>1 DEF BookShape
  <2>4. /\ StagesShape(f) /\ f[s].status = "running" /\ f[s].owner = p
        /\ \A t \in BookStages \ {s} : f[t] = books[b].stages[t]
    <3>1. StageShape(st) /\ st.status = "running" /\ st.owner = p
      BY DEF StageShape, Used, Active
    <3> HIDE DEF st
    <3> QED BY <1>2, <2>1, <3>1 DEF BookShape, StagesShape
  <2> HIDE DEF f
  <2>5. /\ BookShape(new) /\ new.stages = f
        /\ new.chosen = books[b].chosen /\ new.route = books[b].route
    BY <2>1, <2>3, <2>4 DEF BookShape
  <2> HIDE DEF new
  <2>6. ValidChild(new.stages)
    BY <1>2, <1>4, <2>5, Accepted
  <2>7. Sound(new)
    BY <1>2, <2>1, <2>4, <2>5, <2>6 DEF Sound, Matches
  <2>8. ASSUME NEW q \in Runner \ {p}, run[q].at = "work", run[q].book = b
        PROVE  ~Calm
    <3>1. SUFFICES ASSUME Calm PROVE FALSE
      OBVIOUS
    <3>2. run[q].stage \in Durable /\ run[q].stage \in BookStages
          /\ (Holds(q, run[q], books[b]) \/ Lost(run[q], books[b]))
      BY <2>8, <3>1, WorkFacts DEF Bound
    <3>3. ~Single
      BY <2>8 DEF Single
    <3>4. ASSUME NEW t \in BookStages, books[b].stages[t].status \in {"running", "blocked"}
          PROVE  FALSE
      <4>1. s = t
        BY <1>2, <2>1, <2>2, <3>4, StageOrder DEF Active
      <4> QED BY <2>2, <3>4, <4>1
    <3> QED BY <1>2, <3>2, <3>3, <3>4 DEF Holds, Lost
  <2>9. /\ RunShape(next) /\ next.at = "work" /\ next.book = b /\ next.stage = s
        /\ next.chosen = books[b].chosen
    BY <1>2 DEF RunShape
  <2> HIDE DEF next
  <2>10. Bound(p, next, new)
    BY <2>4, <2>5, <2>9 DEF Bound, Holds
  <2>11. /\ books' = [c \in Child |-> IF c = b THEN new ELSE books[c]]
         /\ run' = [q \in Runner |-> IF q = p THEN next ELSE run[q]]
    BY <1>4 DEF CInv, GoesTo
  <2> HIDE DEF b, s
  <2>12. (\A c \in Child : Sound(books[c]))'
    <3>1. \A c \in Child : Sound(books'[c])
      BY <2>7, <2>11 DEF CInv
    <3> QED BY <3>1 DEF Sound, BookShape, StagesShape, StageShape, Matches, ValidChild,
                        ValidOwner, AgentWaiting
  <2>13. (\A q \in Runner : RunShape(run[q]))'
    <3>1. \A q \in Runner : RunShape(run'[q])
      BY <2>9, <2>11 DEF CInv
    <3> QED BY <3>1 DEF RunShape
  <2>14. Works'
    <3>1. ASSUME NEW q \in Runner, run'[q].at = "work"
          PROVE  Bound(q, run'[q], books'[run'[q].book])
      <4>1. CASE q = p
        BY <1>2, <2>9, <2>10, <2>11, <4>1
      <4>2. CASE q # p /\ run[q].book = b
        <5>1. run[q].at = "work" /\ q \in Runner \ {p}
          BY <2>11, <3>1, <4>2
        <5> QED BY <2>8, <4>2, <5>1 DEF Bound
      <4>3. CASE q # p /\ run[q].book # b
        <5>1. run'[q] = run[q] /\ run[q].at = "work"
          BY <2>11, <3>1, <4>3
        <5>2. books'[run[q].book] = books[run[q].book]
          BY <2>11, <4>3, <5>1, WorkFacts
        <5> QED BY <5>1, <5>2, WorkFacts
      <4> QED BY <4>1, <4>2, <4>3
    <3> QED BY <3>1 DEF Works, Bound, Holds, Lost
  <2>15. Calm => OneRunner'
    <3>1. ASSUME Calm, NEW q \in Runner, NEW r \in Runner, q # r,
                 run'[q].at = "work", run'[r].at = "work"
          PROVE  <<run'[q].book, run'[q].stage>> # <<run'[r].book, run'[r].stage>>
      <4>1. CASE q = p
        <5>1. run'[r] = run[r] /\ run'[q].book = b /\ run[r].book # b
          BY <2>8, <2>9, <2>11, <3>1, <4>1
        <5> QED BY <5>1
      <4>2. CASE r = p
        <5>1. run'[q] = run[q] /\ run'[r].book = b /\ run[q].book # b
          BY <2>8, <2>9, <2>11, <3>1, <4>2
        <5> QED BY <5>1
      <4>3. CASE q # p /\ r # p
        <5>1. run'[q] = run[q] /\ run'[r] = run[r]
          BY <2>11, <4>3
        <5> QED BY <3>1, <5>1 DEF CInv, OneRunner
      <4> QED BY <4>1, <4>2, <4>3
    <3> QED BY <3>1 DEF OneRunner
  <2>16. /\ books' = [c \in Child |-> books'[c]] /\ run' = [q \in Runner |-> run'[q]]
         /\ DiskOK'
    BY <1>1, <2>11
  <2> QED BY <2>12, <2>13, <2>14, <2>15, <2>16 DEF CInv
<1>5. EndRun(p) \/ (Startable(b, s) /\ Acceptable(all) /\ books' = all /\ GoesTo(p, next))
  BY DEF BeginStage, Save
<1> QED BY <1>3, <1>4, <1>5

\* The four outcomes of a stage that worked: what becomes of its status and hashes, and
\* of the stages and the route it is not about.
LEMMA Outcome ==
  ASSUME NEW b, BookShape(b), NEW s \in Durable, NEW kind
  PROVE  LET n == Succeeded(b, s, kind) IN
         /\ BookShape(n) /\ n.chosen = b.chosen
         /\ n.stages[s].hashes = b.stages[s].hashes
         /\ s # "route" => /\ n.stages[s].status = "completed"
                           /\ n.stages["route"] = b.stages["route"] /\ n.route = b.route
         /\ s = "route" =>
              \/ /\ kind = "held" /\ n.stages[s].status = "blocked"
                 /\ \A t \in BookStages \ {s} : n.stages[t] = b.stages[t]
              \/ kind = "unverified" /\ n.stages[s].status = "failed"
              \/ /\ kind \notin {"held", "unverified"}
                 /\ n.stages[s].status = "completed" /\ n.route = kind
<1>1. /\ {"route", "extract", "index", "handoff", "split"} \subseteq BookStages
      /\ {"completed", "ready", "blocked", "failed"} \subseteq Used
  BY BookOrder DEF Used, Active
<1>2. ASSUME NEW x \in {"route", "extract", "index", "handoff"}, NEW y \in BookStages, x # y
      PROVE  LET n == To(To(b, x, "completed"), y, "ready") IN
             /\ BookShape(n) /\ n.chosen = b.chosen /\ n.route = b.route
             /\ n.stages[x].status = "completed" /\ n.stages[x].hashes = b.stages[x].hashes
             /\ \A t \in BookStages \ {x, y} : n.stages[t] = b.stages[t]
  <2> DEFINE m == To(b, x, "completed")
             n == To(m, y, "ready")
  <2>1. /\ BookShape(m) /\ m.chosen = b.chosen /\ m.route = b.route
        /\ m.stages[x].status = "completed" /\ m.stages[x].hashes = b.stages[x].hashes
        /\ \A t \in BookStages \ {x} : m.stages[t] = b.stages[t]
    <3>1. x \in BookStages /\ "completed" \in Used
      BY <1>1
    <3> QED BY <3>1, ToFacts
  <2> HIDE DEF m
  <2>2. /\ BookShape(n) /\ n.chosen = m.chosen /\ n.route = m.route
        /\ \A t \in BookStages \ {y} : n.stages[t] = m.stages[t]
    BY <1>1, <2>1, ToFacts
  <2> HIDE DEF n
  <2>3. x \in BookStages
    BY <1>1
  <2> QED BY <1>2, <2>1, <2>2, <2>3 DEF m, n
<1>3. ASSUME NEW x \in BookStages, NEW status \in Used
      PROVE  LET n == To(b, x, status) IN
             /\ BookShape(n) /\ n.chosen = b.chosen /\ n.route = b.route
             /\ n.stages[x].status = status /\ n.stages[x].hashes = b.stages[x].hashes
             /\ \A t \in BookStages \ {x} : n.stages[t] = b.stages[t]
  BY ToFacts
<1>4. ASSUME NEW n, BookShape(n)
      PROVE  LET m == [n EXCEPT !.route = kind] IN
             BookShape(m) /\ m.chosen = n.chosen /\ m.stages = n.stages /\ m.route = kind
  BY <1>4 DEF BookShape
<1>5. CASE s = "route" /\ kind = "held"
  <2> DEFINE n == To(b, s, "blocked")
  <2>1. Succeeded(b, s, kind) = [n EXCEPT !.route = kind]
    BY <1>5 DEF Succeeded
  <2>2. /\ BookShape(n) /\ n.chosen = b.chosen
        /\ n.stages[s].status = "blocked" /\ n.stages[s].hashes = b.stages[s].hashes
        /\ \A t \in BookStages \ {s} : n.stages[t] = b.stages[t]
    BY <1>1, <1>3, <1>5
  <2> HIDE DEF n
  <2>3. LET m == [n EXCEPT !.route = kind] IN
          BookShape(m) /\ m.chosen = n.chosen /\ m.stages = n.stages
    BY <1>4, <2>2
  <2> DEFINE r == Succeeded(b, s, kind)
  <2>4. BookShape(r) /\ r.chosen = b.chosen /\ r.stages = n.stages
    BY <2>1, <2>2, <2>3
  <2> HIDE DEF r
  <2>5. /\ r.stages[s].status = "blocked" /\ r.stages[s].hashes = b.stages[s].hashes
        /\ \A t \in BookStages \ {s} : r.stages[t] = b.stages[t]
    BY <2>2, <2>4
  <2> QED BY <1>5, <2>4, <2>5 DEF r
<1>6. CASE s = "route" /\ kind = "unverified"
  <2> DEFINE n == To(b, s, "failed")
  <2>1. Succeeded(b, s, kind) = [n EXCEPT !.route = kind]
    BY <1>6 DEF Succeeded
  <2>2. /\ BookShape(n) /\ n.chosen = b.chosen
        /\ n.stages[s].status = "failed" /\ n.stages[s].hashes = b.stages[s].hashes
    BY <1>1, <1>3, <1>6
  <2> HIDE DEF n
  <2>3. LET m == [n EXCEPT !.route = kind] IN
          BookShape(m) /\ m.chosen = n.chosen /\ m.stages = n.stages
    BY <1>4, <2>2
  <2> DEFINE r == Succeeded(b, s, kind)
  <2>4. BookShape(r) /\ r.chosen = b.chosen /\ r.stages = n.stages
    BY <2>1, <2>2, <2>3
  <2> HIDE DEF r
  <2> QED BY <1>6, <2>2, <2>4 DEF r
<1>7. CASE s = "route" /\ kind \notin {"held", "unverified"}
  <2> DEFINE n == To(To(b, s, "completed"), "extract", "ready")
  <2>1. Succeeded(b, s, kind) = [n EXCEPT !.route = kind]
    BY <1>7 DEF Succeeded
  <2>2. /\ BookShape(n) /\ n.chosen = b.chosen
        /\ n.stages[s].status = "completed" /\ n.stages[s].hashes = b.stages[s].hashes
    BY <1>1, <1>2, <1>7
  <2> HIDE DEF n
  <2> QED BY <1>4, <1>7, <2>1, <2>2
<1>8. CASE s # "route"
  <2>1. \/ Succeeded(b, s, kind) = To(b, s, "completed")
        \/ \E y \in BookStages \ {"route", s} :
             Succeeded(b, s, kind) = To(To(b, s, "completed"), y, "ready")
    <3>1. CASE s = "extract"
      BY <1>1, <3>1 DEF Succeeded
    <3>2. CASE s = "index"
      BY <1>1, <3>2 DEF Succeeded
    <3>3. CASE s = "handoff"
      BY <1>1, <3>3 DEF Succeeded
    <3> QED BY <1>8, <3>1, <3>2, <3>3 DEF Durable
  <2>2. CASE Succeeded(b, s, kind) = To(b, s, "completed")
    BY <1>1, <1>3, <1>8, <2>2 DEF Durable
  <2>3. ASSUME NEW y \in BookStages \ {"route", s},
               Succeeded(b, s, kind) = To(To(b, s, "completed"), y, "ready")
        PROVE  LET n == Succeeded(b, s, kind) IN
               /\ BookShape(n) /\ n.chosen = b.chosen /\ n.route = b.route
               /\ n.stages[s].status = "completed" /\ n.stages[s].hashes = b.stages[s].hashes
               /\ n.stages["route"] = b.stages["route"]
    <3>1. s # y /\ y \in BookStages /\ s \in {"route", "extract", "index", "handoff"}
          /\ "route" \in BookStages \ {s, y}
      BY <1>1, <1>8 DEF Durable
    <3> QED BY <1>2, <2>3, <3>1
  <2> QED BY <1>8, <2>1, <2>2, <2>3
<1> QED BY <1>5, <1>6, <1>7, <1>8

\* The record of an outcome keeps the invariant: a command that lost its stage can only
\* say that a route is held, and the one that holds it asked for the route of the book.
LEMMA RecordKeeps ==
  ASSUME CInv, DiskOK', NEW p \in Runner, run[p].at = "work",
         NEW b, b = run[p].book, NEW s, s = run[p].stage,
         NEW new, BookShape(new), new.chosen = books[b].chosen,
         new.stages[s].hashes = books[b].stages[s].hashes,
         s # "route" => /\ new.stages[s].status \in {"failed", "completed"}
                        /\ new.stages["route"] = books[b].stages["route"]
                        /\ new.route = books[b].route,
         s = "route" =>
           \/ /\ new.stages[s].status = "blocked"
              /\ \A t \in BookStages \ {s} : new.stages[t] = books[b].stages[t]
           \/ new.stages[s].status = "failed"
           \/ /\ new.stages[s].status = "completed"
              /\ \E live \in Live : /\ new.route = Routed(live, run[p].chosen)
                                    /\ new.route \notin {"held", "unverified"},
         Save(p, b, new, Looping)
  PROVE  CInv'
<1>1. /\ b \in Child /\ s \in Durable /\ s \in BookStages /\ Bound(p, run[p], books[b])
      /\ "route" \in BookStages /\ "extract" \in BookStages
  BY WorkFacts, BookOrder
<1>2. Sound(books[b]) /\ BookShape(books[b]) /\ ValidChild(books[b].stages)
  BY <1>1 DEF CInv, Sound
<1>3. SUFFICES ASSUME Acceptable([books EXCEPT ![b] = new])
               PROVE  /\ Sound(new)
                      /\ \A q \in Runner \ {p} : run[q].at = "work" /\ run[q].book = b =>
                           Bound(q, run[q], new)
  BY <1>1, RestShape, SaveKeeps
<1>4. /\ ValidChild(new.stages)
      /\ IsAllowedTransition(s, books[b].stages[s], new.stages[s], 0)
      /\ books[b].stages[s].status \in Used /\ new.stages[s].status \in Used
  BY <1>1, <1>3, Accepted
<1>5. /\ new.stages[s].status = "completed" => books[b].stages[s].status \in {"completed", "running"}
      /\ new.stages[s].status = "failed" => \/ books[b].stages[s].status \in {"running", "failed"}
                                            \/ s = "index" /\ books[b].stages[s].status = "ready"
  <2> DEFINE was == books[b].stages[s]
             now == new.stages[s]
  <2>1. IsAllowedTransition(s, was, now, 0) /\ was.status \in Used /\ now.status \in Used
    BY <1>4
  <2>2. now.hashes = was.hashes
    OBVIOUS
  <2> HIDE DEF was, now
  <2>3. /\ now.status = "completed" => was.status \in {"completed", "running"}
        /\ now.status = "failed" => \/ was.status \in {"running", "failed"}
                                    \/ s = "index" /\ was.status = "ready"
    BY <1>1, <2>1, <2>2, Transitions
  <2> QED BY <2>3 DEF was, now
<1>6. Sound(new)
  <2>1. SUFFICES ASSUME Calm, new.stages["route"].status = "completed" PROVE Matches(new)
    BY <1>4 DEF Sound
  <2>2. CASE s # "route"
    BY <1>2, <2>1, <2>2 DEF Sound, Matches
  <2>3. CASE s = "route"
    <3>1. Holds(p, run[p], books[b])
      BY <1>1, <1>5, <2>1, <2>3 DEF Bound, Lost
    <3>2. PICK live \in Live : /\ new.route = Routed(live, run[p].chosen)
                               /\ new.route \notin {"held", "unverified"}
      BY <1>1, <2>1, <2>3
    <3>3. new.chosen = run[p].chosen /\ live \in {"ocr", "held", "reused"}
      BY <2>3, <3>1, CollectionAssumption DEF Holds
    <3> QED BY <3>2, <3>3 DEF Routed, Matches
  <2> QED BY <2>2, <2>3
<1>7. ASSUME NEW q \in Runner \ {p}, run[q].at = "work", run[q].book = b
      PROVE  Bound(q, run[q], new)
  <2>1. SUFFICES ASSUME Calm PROVE Holds(q, run[q], new) \/ Lost(run[q], new)
    BY DEF Bound
  <2> DEFINE t == run[q].stage
  <2>2. /\ t \in Durable /\ t \in BookStages
        /\ (Holds(q, run[q], books[b]) \/ Lost(run[q], books[b]))
    BY <1>7, <2>1, WorkFacts DEF Bound
  <2>3. ~Single /\ t # s
    BY <1>7, <2>1 DEF Single, CInv, OneRunner
  <2>4. Holds(p, run[p], books[b]) \/ Lost(run[p], books[b])
    BY <1>1, <2>1 DEF Bound
  <2>5. ASSUME NEW u \in BookStages, NEW v \in BookStages,
               books[b].stages[u].status \in Active, books[b].stages[v].status \in Active
        PROVE  u = v
    BY <1>2, <2>5, StageOrder
  <2>6. CASE Holds(p, run[p], books[b])
    <3>1. books[b].stages[s].status = "running"
      BY <2>6 DEF Holds
    <3>2. books[b].stages[t].status \notin Active
      BY <1>1, <2>2, <2>3, <2>5, <3>1 DEF Active
    <3>3. books[b].stages["extract"].status # "blocked"
      BY <1>1, <2>5, <3>1 DEF Active
    <3> QED BY <2>2, <2>3, <3>2, <3>3 DEF Holds, Lost, Active
  <2>7. CASE Lost(run[p], books[b])
    <3>1. books[b].stages[s].status \notin {"running", "completed"}
      BY <2>7 DEF Lost
    <3>2. CASE new.stages[s].status = "blocked"
      <4>1. s = "route" /\ \A v \in BookStages \ {s} : new.stages[v] = books[b].stages[v]
        BY <3>2
      <4> QED BY <1>1, <2>2, <2>3, <4>1 DEF Holds, Lost
    <3>3. CASE new.stages[s].status = "failed"
      <4>1. books[b].stages[s].status \in {"failed", "ready"}
        BY <1>5, <3>1, <3>3
      <4>2. books[b].stages["extract"].status # "blocked"
        BY <1>1, <2>5, <4>1 DEF Active
      <4> QED BY <2>3, <2>7, <4>1, <4>2 DEF Lost
    <3> QED BY <1>5, <3>1, <3>2, <3>3
  <2> QED BY <2>4, <2>6, <2>7
<1> QED BY <1>6, <1>7

\* The end of a stage's work keeps the invariant.
LEMMA RunStageKeeps ==
  ASSUME CInv, NEW p \in Runner, RunStage(p)
  PROVE  CInv'
<1> DEFINE b == run[p].book
           s == run[p].stage
           fails == To(books[b], s, "failed")
<1>1. DiskOK'
  <2>1. disk' = disk \/ disk' = [disk EXCEPT ![b].text = "same"]
    BY DEF RunStage
  <2>2. CASE disk' = disk
    BY <2>2 DEF CInv, DiskOK, DiskShape
  <2>3. CASE disk' = [disk EXCEPT ![b].text = "same"]
    <3>1. disk = [c \in Child |-> disk[c]] /\ \A c \in Child : DiskShape(disk[c])
      BY DEF CInv, DiskOK
    <3> HIDE DEF b
    <3>2. disk' = [c \in Child |-> IF c = b THEN [disk[c] EXCEPT !.text = "same"] ELSE disk[c]]
      BY <2>3, <3>1
    <3>3. ASSUME NEW x, DiskShape(x) PROVE DiskShape([x EXCEPT !.text = "same"])
      BY <3>3 DEF DiskShape
    <3>4. \A c \in Child : DiskShape(disk'[c])
      BY <3>1, <3>2, <3>3
    <3>5. disk' = [c \in Child |-> disk'[c]]
      BY <3>2
    <3> QED BY <3>4, <3>5 DEF DiskOK, DiskShape
  <2> QED BY <2>1, <2>2, <2>3
<1>2. /\ run[p].at = "work" /\ b \in Child /\ s \in Durable /\ s \in BookStages
      /\ Sound(books[b]) /\ BookShape(books[b]) /\ "route" \in BookStages /\ "failed" \in Used
  BY WorkFacts, BookOrder DEF RunStage, CInv, Sound, Used, Active
<1>3. CASE EndRun(p)
  BY <1>1, <1>3, EndRunKeeps
<1>4. CASE Save(p, b, fails, Looping)
  <2>1. /\ BookShape(fails) /\ fails.chosen = books[b].chosen /\ fails.route = books[b].route
        /\ fails.stages[s].status = "failed" /\ fails.stages[s].hashes = books[b].stages[s].hashes
        /\ \A t \in BookStages \ {s} : fails.stages[t] = books[b].stages[t]
    <3> DEFINE was == books[b]
    <3>1. BookShape(was) /\ s \in BookStages /\ "failed" \in Used
      BY <1>2
    <3>2. fails = To(was, s, "failed")
      OBVIOUS
    <3> HIDE DEF fails, was, s, b
    <3>3. /\ BookShape(fails) /\ fails.chosen = was.chosen /\ fails.route = was.route
          /\ fails.stages[s].status = "failed" /\ fails.stages[s].hashes = was.stages[s].hashes
          /\ \A t \in BookStages \ {s} : fails.stages[t] = was.stages[t]
      BY <3>1, <3>2, ToFacts
    <3> QED BY <3>3 DEF was
  <2> HIDE DEF fails
  <2> QED BY <1>1, <1>2, <1>4, <2>1, RecordKeeps
<1>5. ASSUME NEW live \in Live,
             Save(p, b, Succeeded(books[b], s, Routed(live, run[p].chosen)), Looping)
      PROVE  CInv'
  <2> DEFINE kind == Routed(live, run[p].chosen)
             new == Succeeded(books[b], s, kind)
  <2>1. /\ BookShape(new) /\ new.chosen = books[b].chosen
        /\ new.stages[s].hashes = books[b].stages[s].hashes
        /\ s # "route" => /\ new.stages[s].status = "completed"
                          /\ new.stages["route"] = books[b].stages["route"]
                          /\ new.route = books[b].route
        /\ s = "route" =>
             \/ /\ kind = "held" /\ new.stages[s].status = "blocked"
                /\ \A t \in BookStages \ {s} : new.stages[t] = books[b].stages[t]
             \/ kind = "unverified" /\ new.stages[s].status = "failed"
             \/ /\ kind \notin {"held", "unverified"}
                /\ new.stages[s].status = "completed" /\ new.route = kind
    <3> DEFINE was == books[b]
    <3>1. BookShape(was) /\ s \in Durable
      BY <1>2
    <3>2. new = Succeeded(was, s, kind)
      OBVIOUS
    <3> HIDE DEF new, kind, was, s, b
    <3>3. /\ BookShape(new) /\ new.chosen = was.chosen
          /\ new.stages[s].hashes = was.stages[s].hashes
          /\ s # "route" => /\ new.stages[s].status = "completed"
                            /\ new.stages["route"] = was.stages["route"]
                            /\ new.route = was.route
          /\ s = "route" =>
               \/ /\ kind = "held" /\ new.stages[s].status = "blocked"
                  /\ \A t \in BookStages \ {s} : new.stages[t] = was.stages[t]
               \/ kind = "unverified" /\ new.stages[s].status = "failed"
               \/ /\ kind \notin {"held", "unverified"}
                  /\ new.stages[s].status = "completed" /\ new.route = kind
      BY <3>1, <3>2, Outcome
    <3> QED BY <3>3 DEF was
  <2>2. Save(p, b, new, Looping)
    BY <1>5
  <2> HIDE DEF new, b, s
  <2>3. s = "route" =>
           \/ /\ new.stages[s].status = "blocked"
              /\ \A t \in BookStages \ {s} : new.stages[t] = books[b].stages[t]
           \/ new.stages[s].status = "failed"
           \/ /\ new.stages[s].status = "completed"
              /\ \E l \in Live : /\ new.route = Routed(l, run[p].chosen)
                                 /\ new.route \notin {"held", "unverified"}
    BY <2>1
  <2> QED BY <1>1, <1>2, <2>1, <2>2, <2>3, RecordKeeps DEF b, s
<1>6. \/ EndRun(p) \/ Save(p, b, fails, Looping)
      \/ \E live \in Live : Save(p, b, Succeeded(books[b], s, Routed(live, run[p].chosen)), Looping)
  BY DEF RunStage
<1> QED BY <1>3, <1>4, <1>5, <1>6

-----------------------------------------------------------------------------
(* The user and the files.                                                 *)

\* A step outside the commands that changes one book.
LEMMA OneBookChanges ==
  ASSUME CInv, DiskOK', run' = run, NEW b \in Child, NEW new,
         books' = [books EXCEPT ![b] = new], Sound(new),
         \A q \in Runner : run[q].at = "work" /\ run[q].book = b => Bound(q, run[q], new)
  PROVE  CInv'
<1>1. books' = [c \in Child |-> IF c = b THEN new ELSE books[c]]
  BY DEF CInv
<1>2. books' = [c \in Child |-> books'[c]] /\ \A c \in Child : Sound(books'[c])
  BY <1>1 DEF CInv
<1>3. run' = [p \in Runner |-> run'[p]] /\ \A p \in Runner : RunShape(run'[p])
  BY DEF CInv
<1>4. ASSUME NEW q \in Runner, run'[q].at = "work"
      PROVE  run'[q] = run[q] /\ Bound(q, run[q], books'[run[q].book])
  BY <1>1, <1>4, WorkFacts
<1> QED BY <1>2, <1>3, <1>4, Carried

\* set_route_override keeps the invariant: without an engine that lacks credentials the
\* store refuses it while the route is being worked on.
LEMMA OverrideKeeps ==
  ASSUME CInv, NEW b \in Child, NEW token \in Tokens, Override(b, token)
  PROVE  CInv'
<1> DEFINE new == Overridden(b, token)
           route == CASE token = "auto" -> books[b].route
                      [] token \in Missing \cup {"keep"} -> "held"
                      [] OTHER -> token
           status == IF token # "auto" /\ route = "held" THEN "blocked" ELSE "ready"
           one == To(books[b], "route", status)
           two == To(one, "extract", "pending")
<1>1. /\ Acceptable([books EXCEPT ![b] = new]) /\ books' = [books EXCEPT ![b] = new]
      /\ "override" \in Edits /\ run' = run /\ disk' = disk
  BY DEF Override, Changes
<1>2. DiskOK'
  BY <1>1 DEF CInv, DiskOK, DiskShape
<1>3. /\ Sound(books[b]) /\ BookShape(books[b]) /\ {"route", "extract"} \subseteq BookStages
      /\ status \in Used /\ status \in {"blocked", "ready"} /\ "pending" \in Used
  BY BookOrder DEF CInv, Sound, Used, Active
<1>4. new = [two EXCEPT !.chosen = token, !.route = route]
  BY DEF Overridden
<1>5. /\ BookShape(one) /\ one.stages["route"].status = status
      /\ one.stages["route"].hashes = books[b].stages["route"].hashes
  <2> HIDE DEF status
  <2> QED BY <1>3, ToFacts
<1> HIDE DEF one
<1>6. BookShape(two) /\ two.stages["route"] = one.stages["route"]
  BY <1>3, <1>5, ToFacts
<1> HIDE DEF two, route
<1>7. BookShape(new) /\ new.stages = two.stages /\ new.chosen = token
  BY <1>4, <1>6 DEF BookShape
<1> HIDE DEF new
<1>8. /\ new.stages["route"].status = status
      /\ new.stages["route"].hashes = books[b].stages["route"].hashes
  BY <1>5, <1>6, <1>7
<1>9. /\ ValidChild(new.stages)
      /\ IsAllowedTransition("route", books[b].stages["route"], new.stages["route"], 0)
      /\ books[b].stages["route"].status \in Used
  BY <1>1, <1>3, <1>7, Accepted
<1>10. Sound(new)
  BY <1>3, <1>7, <1>8, <1>9 DEF Sound
<1>11. ASSUME NEW q \in Runner, run[q].at = "work", run[q].book = b
       PROVE  Bound(q, run[q], new)
  <2> DEFINE t == run[q].stage
  <2>1. SUFFICES ASSUME Calm PROVE Lost(run[q], new)
    BY DEF Bound
  <2>2. /\ t \in Durable /\ t \in BookStages
        /\ (Holds(q, run[q], books[b]) \/ Lost(run[q], books[b]))
    BY <1>11, <2>1, WorkFacts DEF Bound
  <2>3. CASE Single
    <3>1. t # "route" => new.stages[t].status = "pending"
      <4>1. t # "route" => After(t, "route")
        BY <2>2, BookOrder
      <4>2. new.stages["route"].status # "completed"
        BY <1>3, <1>8
      <4> QED BY <1>3, <1>7, <1>9, <2>2, <4>1, <4>2, StageOrder
    <3> QED BY <1>3, <1>8, <2>3, <3>1 DEF Lost
  <2>4. CASE ~Single
    <3>1. Missing = {} /\ "keep" \notin Tokens
      BY <1>1, <2>1, <2>4 DEF Calm
    <3>2. status = "ready"
      <4>1. token # "auto" => route # "held"
        BY <3>1, CollectionAssumption DEF route
      <4> QED BY <4>1
    <3>3. books[b].stages["route"].status \notin {"running", "completed"}
      <4>1. "route" \in BookStages /\ new.stages["route"].status = "ready" /\ "ready" \in Used
        BY <1>3, <1>8, <3>2
      <4> QED BY <1>8, <1>9, <4>1, Transitions
    <3>4. t # "route" => books[b].stages[t].status = "pending"
      <4>1. t # "route" => After(t, "route")
        BY <2>2, BookOrder
      <4> QED BY <1>3, <2>2, <3>3, <4>1, StageOrder DEF Sound
    <3>5. books[b].stages["extract"].status = "pending"
      <4>1. After("extract", "route") /\ "extract" \in BookStages
        BY BookOrder
      <4> QED BY <1>3, <3>3, <4>1, StageOrder DEF Sound
    <3> QED BY <1>1, <2>2, <2>4, <3>3, <3>4, <3>5 DEF Holds, Lost
  <2> QED BY <2>3, <2>4
<1> QED BY <1>1, <1>2, <1>10, <1>11, OneBookChanges

\* remove_books_from_shelf keeps the invariant.
LEMMA DropKeeps ==
  ASSUME CInv, NEW b \in Child, Drop(b)
  PROVE  CInv'
<1> DEFINE new == [books[b] EXCEPT !.dropped = TRUE]
<1>1. books' = [books EXCEPT ![b] = new] /\ run' = run /\ disk' = disk
  BY DEF Drop
<1>2. DiskOK'
  BY <1>1 DEF CInv, DiskOK, DiskShape
<1>3. Sound(books[b]) /\ BookShape(books[b])
  BY DEF CInv, Sound
<1>4. /\ BookShape(new) /\ new.stages = books[b].stages
      /\ new.chosen = books[b].chosen /\ new.route = books[b].route
  BY <1>3 DEF BookShape
<1> HIDE DEF new
<1>5. Sound(new)
  BY <1>3, <1>4 DEF Sound, Matches
<1>6. ASSUME NEW q \in Runner, run[q].at = "work", run[q].book = b
      PROVE  Bound(q, run[q], new)
  BY <1>4, <1>6, WorkFacts DEF Bound, Holds, Lost
<1> QED BY <1>1, <1>2, <1>5, <1>6, OneBookChanges

\* An edit of the files keeps the invariant.
LEMMA FilesKeep ==
  ASSUME CInv, NEW b \in Child, EditPdf(b) \/ EditMarkdown(b)
  PROVE  CInv'
<1>1. disk = [c \in Child |-> disk[c]] /\ \A c \in Child : DiskShape(disk[c])
  BY DEF CInv, DiskOK
<1>2. PICK new : disk' = [disk EXCEPT ![b] = new] /\ DiskShape(new)
  <2>1. CASE EditPdf(b)
    <3> DEFINE new == [disk[b] EXCEPT !.pdf = "changed"]
    <3>1. disk' = [disk EXCEPT ![b] = new] /\ "pdf" \in Edits
      BY <2>1 DEF EditPdf, Changes
    <3>2. DiskShape(new)
      BY <1>1, <3>1 DEF DiskShape
    <3> QED BY <3>1, <3>2
  <2>2. CASE EditMarkdown(b)
    <3> DEFINE new == [disk[b] EXCEPT !.text = "changed"]
    <3>1. disk' = [disk EXCEPT ![b] = new]
      BY <2>2 DEF EditMarkdown
    <3>2. DiskShape(new)
      BY <1>1 DEF DiskShape
    <3> QED BY <3>1, <3>2
  <2> QED BY <2>1, <2>2
<1>3. disk' = [c \in Child |-> disk'[c]] /\ \A c \in Child : DiskShape(disk'[c])
  BY <1>1, <1>2
<1>4. DiskOK'
  BY <1>3 DEF DiskOK, DiskShape
<1>5. books' = books /\ run' = run
  BY DEF EditPdf, EditMarkdown
<1>6. /\ books' = [c \in Child |-> books'[c]] /\ \A c \in Child : Sound(books'[c])
      /\ run' = [q \in Runner |-> run'[q]] /\ \A q \in Runner : RunShape(run'[q])
  BY <1>5 DEF CInv
<1>7. ASSUME NEW q \in Runner, run'[q].at = "work"
      PROVE  run'[q] = run[q] /\ Bound(q, run[q], books'[run[q].book])
  BY <1>5, <1>7, WorkFacts
<1> QED BY <1>4, <1>6, <1>7, Carried

\* The steps of a command before it looks at its book keep the invariant.
LEMMA TurnKeeps ==
  ASSUME CInv, NEW p \in Runner,
         (\E retry \in BOOLEAN : Call(p, retry)) \/ Head(p) \/ Validate(p) \/ Choose(p)
  PROVE  CInv'
<1>1. disk' = disk
  BY DEF Call, Head, Validate, Choose
<1>2. DiskOK' /\ RunShape(run[p])
  BY <1>1 DEF CInv, DiskOK, DiskShape
<1>3. ASSUME NEW r, RunShape(r), NEW at \in {"head", "validate", "choose"}
      PROVE  RunShape([r EXCEPT !.at = at]) /\ [r EXCEPT !.at = at].at # "work"
  BY <1>3 DEF RunShape
<1>4. CASE \E retry \in BOOLEAN : Call(p, retry)
  <2>1. PICK retry \in BOOLEAN : Call(p, retry)
    BY <1>4
  <2> DEFINE next == [IdleRun EXCEPT !.at = IF retry THEN "validate" ELSE "head",
                                     !.check = TRUE, !.retry = retry]
  <2>2. GoesTo(p, next) /\ books' = books
    BY <2>1 DEF Call
  <2>3. RunShape(next) /\ next.at # "work"
    BY RestShape DEF RunShape
  <2> HIDE DEF next
  <2> QED BY <1>2, <2>2, <2>3, QuietKeeps
<1>5. CASE Head(p)
  <2>1. \/ Validation(p, IdleRun, IdleRun)
        \/ GoesTo(p, IdleRun) /\ books' = books
        \/ GoesTo(p, [run[p] EXCEPT !.at = "validate"]) /\ books' = books
        \/ GoesTo(p, [run[p] EXCEPT !.at = "choose"]) /\ books' = books
    BY <1>5 DEF Head
  <2> QED BY <1>1, <1>2, <1>3, <2>1, RestShape, ValidationKeeps, QuietKeeps
<1>6. CASE Validate(p)
  <2>1. Validation(p, [run[p] EXCEPT !.at = "choose"], Looping)
    BY <1>6 DEF Validate
  <2> QED BY <1>1, <1>2, <1>3, <2>1, RestShape, ValidationKeeps
<1>7. CASE Choose(p)
  <2>1. \/ GoesTo(p, Looping)
        \/ \E b \in Child, s \in Durable :
             GoesTo(p, [IdleRun EXCEPT !.at = "check", !.book = b, !.stage = s])
    <3> DEFINE chosen == IF run[p].retry THEN ToRetry ELSE ToRun
    <3>1. chosen \subseteq Child
      BY DEF ToRetry, ToRun, Waiting
    <3>2. chosen # {} => First(chosen) \in Child
      BY <3>1, FirstIn
    <3> QED BY <1>7, <3>2 DEF Choose
  <2>2. books' = books
    BY <1>7 DEF Choose
  <2>3. ASSUME NEW b \in Child, NEW s \in Durable
        PROVE  LET next == [IdleRun EXCEPT !.at = "check", !.book = b, !.stage = s] IN
               RunShape(next) /\ next.at # "work"
    BY RestShape DEF RunShape
  <2> QED BY <1>2, <2>1, <2>2, <2>3, RestShape, QuietKeeps
<1> QED BY <1>4, <1>5, <1>6, <1>7

-----------------------------------------------------------------------------
(* The theorems of the invariant.                                          *)

\* The invariant holds in every behaviour.
THEOREM CInvHolds == CollectionSpec => []CInv
<1>1. CollectionInit => CInv
  <2> SUFFICES ASSUME CollectionInit PROVE CInv
    OBVIOUS
  <2>1. ASSUME NEW eligible \in BOOLEAN, NEW token \in Queued
        PROVE  Sound(NewBook(eligible, token))
    <3> DEFINE n == NewBook(eligible, token)
               status == IF eligible THEN "ready" ELSE "blocked"
    <3>1. /\ n \in [stages : {n.stages}, chosen : {token}, route : {n.route}, dropped : BOOLEAN]
          /\ n.stages = [s \in BookStages |-> IF s = "route" THEN Stage(status)
                                              ELSE Stage("pending")]
          /\ token \in Tokens
      BY CollectionAssumption DEF NewBook
    <3> HIDE DEF n
    <3>2. ASSUME NEW s \in BookStages
          PROVE  /\ StageShape(n.stages[s]) /\ ValidOwner(s, n.stages[s])
                 /\ n.stages[s].status = IF s = "route" THEN status ELSE "pending"
      BY <3>1 DEF Stage, StageShape, ValidOwner, AgentWaiting, Used, Active
    <3>3. StagesShape(n.stages)
      BY <3>1, <3>2 DEF StagesShape
    <3>4. BookShape(n)
      BY <3>1, <3>3 DEF BookShape
    <3>5. ValidChild(n.stages)
      <4>1. \A s, t \in BookStages : After(s, t) => s # "route"
        BY BookOrder
      <4> QED BY <3>1, <3>2, <4>1 DEF ValidChild
    <3>6. n.stages["route"].status # "completed"
      BY <3>2, BookOrder
    <3> QED BY <3>4, <3>5, <3>6 DEF Sound, n
  <2>2. books = [b \in Child |-> books[b]] /\ \A b \in Child : Sound(books[b])
    BY <2>1 DEF CollectionInit
  <2>3. /\ run = [p \in Runner |-> run[p]]
        /\ \A p \in Runner : RunShape(run[p]) /\ run[p].at = "idle"
    BY RestShape DEF CollectionInit
  <2>4. DiskOK
    BY DEF CollectionInit, DiskOK, DiskShape
  <2> QED BY <2>2, <2>3, <2>4 DEF CInv, Works, OneRunner
<1>2. CInv /\ [CollectionNext]_collectionVars => CInv'
  <2> SUFFICES ASSUME CInv, [CollectionNext]_collectionVars PROVE CInv'
    OBVIOUS
  <2>1. CASE UNCHANGED collectionVars
    <3>1. books' = books /\ run' = run /\ disk' = disk
      BY <2>1 DEF collectionVars
    <3>2. DiskOK'
      BY <3>1 DEF CInv, DiskOK, DiskShape
    <3>3. \A q \in Runner : run[q].at = "work" => Bound(q, run[q], books[run[q].book])
      BY WorkFacts
    <3> QED BY <3>1, <3>2, <3>3, Carried DEF CInv
  <2>2. ASSUME NEW p \in Runner, (\E retry \in BOOLEAN : Call(p, retry)) \/ Turn(p)
        PROVE  CInv'
    BY <2>2, TurnKeeps, CheckKeeps, BeginKeeps, RunStageKeeps DEF Turn
  <2>3. ASSUME NEW p \in Runner, Dies(p)
        PROVE  CInv'
    <3>1. EndRun(p) /\ disk' = disk
      BY <2>3 DEF Dies
    <3>2. DiskOK'
      BY <3>1 DEF CInv, DiskOK, DiskShape
    <3> QED BY <3>1, <3>2, EndRunKeeps
  <2>4. ASSUME NEW b \in Child,
               \/ Drop(b) \/ EditPdf(b) \/ EditMarkdown(b)
               \/ \E token \in Tokens : Override(b, token)
        PROVE  CInv'
    BY <2>4, DropKeeps, FilesKeep, OverrideKeeps
  <2> QED BY <2>1, <2>2, <2>3, <2>4 DEF CollectionNext
<1> QED BY <1>1, <1>2, PTL DEF CollectionSpec

\* The invariant gives what CollectionIsRight says.
LEMMA CInvImplies ==
  ASSUME CInv, Calm
  PROVE  CollectionIsRight
<1>1. \A b \in Child : Sound(books[b]) /\ BookShape(books[b]) /\ ValidChild(books[b].stages)
  BY DEF CInv, Sound
<1>2. CollectionTypeOK
  BY <1>1 DEF CInv, CollectionTypeOK, BookShape, RunShape
<1>3. RouteIsChosen
  <2>1. ASSUME NEW b \in Child, books[b].stages["extract"].status \in {"running", "completed"}
        PROVE  Matches(books[b])
    <3>1. /\ {"route", "extract"} \subseteq BookStages /\ After("extract", "route")
      BY BookOrder
    <3>2. books[b].stages["route"].status = "completed"
      BY <1>1, <2>1, <3>1, StageOrder
    <3> QED BY <1>1, <3>2 DEF Sound
  <2> QED BY <2>1 DEF RouteIsChosen, Matches
<1> QED BY <1>2, <1>3 DEF CollectionIsRight, CInv

\* Every saved book is one validate_state accepts, and every command is at a stage of a
\* book: without any condition.
THEOREM CollectionTypes == CollectionSpec => []CollectionTypeOK
<1>1. CInv => CollectionTypeOK
  BY DEF CInv, Sound, CollectionTypeOK, BookShape, RunShape
<1> QED BY <1>1, CInvHolds, PTL

\* A book is extracted along the route asked for last (apply_route_overrides with the
\* override start_stage read), and no two commands work on one stage of a book.
THEOREM CollectionRight ==
  ASSUME Calm
  PROVE  CollectionSpec => []CollectionIsRight
<1>1. CInv => CollectionIsRight
  BY CInvImplies
<1> QED BY <1>1, CInvHolds, PTL

-----------------------------------------------------------------------------
(* What is finished stands.                                                *)

\* No input_hashes changed.
SameHashes(n, b) == \A s \in BookStages : n.stages[s].hashes = b.stages[s].hashes

\* What FinishedStands says of a step.
Stands ==
  \A b \in Child, s \in BookStages :
    Is(b, s, "completed") /\ books'[b].stages[s].status # "completed"
      => disk[b].text = "changed" /\ books'[b].stages["extract"].status = "blocked"

\* set_stage_status keeps the hashes.
LEMMA ToHashes ==
  ASSUME NEW b, BookShape(b), NEW s \in BookStages, NEW status \in Used
  PROVE  BookShape(To(b, s, status)) /\ SameHashes(To(b, s, status), b)
<1> DEFINE n == To(b, s, status)
<1>1. /\ BookShape(n) /\ n.stages[s].hashes = b.stages[s].hashes
      /\ \A t \in BookStages \ {s} : n.stages[t] = b.stages[t]
  BY ToFacts
<1> HIDE DEF n
<1>2. SameHashes(n, b)
  BY <1>1 DEF SameHashes
<1> QED BY <1>1, <1>2 DEF n

\* And so do two of them.
LEMMA TwoHashes ==
  ASSUME NEW b, BookShape(b), NEW s \in BookStages, NEW status \in Used,
         NEW t \in BookStages, NEW other \in Used
  PROVE  LET n == To(To(b, s, status), t, other) IN BookShape(n) /\ SameHashes(n, b)
<1> DEFINE m == To(b, s, status)
           n == To(m, t, other)
<1>1. BookShape(m) /\ SameHashes(m, b)
  BY ToHashes
<1> HIDE DEF m
<1>2. BookShape(n) /\ SameHashes(n, m)
  BY <1>1, ToHashes
<1> HIDE DEF n
<1>3. SameHashes(n, b)
  BY <1>1, <1>2 DEF SameHashes
<1> QED BY <1>2, <1>3 DEF m, n

\* The record of an outcome keeps the hashes.
LEMMA OutcomeHashes ==
  ASSUME NEW b, BookShape(b), NEW s \in Durable, NEW kind
  PROVE  LET n == Succeeded(b, s, kind) IN BookShape(n) /\ SameHashes(n, b)
<1>1. /\ {"route", "extract", "index", "handoff", "split"} \subseteq BookStages
      /\ {"completed", "ready", "blocked", "failed"} \subseteq Used
  BY BookOrder DEF Used, Active
<1>2. ASSUME NEW x \in BookStages, NEW status \in Used
      PROVE  LET n == To(b, x, status) IN BookShape(n) /\ SameHashes(n, b)
  BY ToHashes
<1>3. ASSUME NEW x \in BookStages, NEW y \in BookStages
      PROVE  LET n == To(To(b, x, "completed"), y, "ready") IN BookShape(n) /\ SameHashes(n, b)
  BY <1>1, TwoHashes
<1>4. ASSUME NEW n, BookShape(n), SameHashes(n, b)
      PROVE  LET m == [n EXCEPT !.route = kind] IN BookShape(m) /\ SameHashes(m, b)
  BY <1>4 DEF BookShape, SameHashes
<1>5. s \in BookStages
  BY DEF BookStages
<1>6. \/ \E n \in {To(b, s, "blocked"), To(b, s, "failed"),
                   To(To(b, s, "completed"), "extract", "ready")} :
           Succeeded(b, s, kind) = [n EXCEPT !.route = kind]
      \/ Succeeded(b, s, kind) = To(b, s, "completed")
      \/ \E y \in BookStages : Succeeded(b, s, kind) = To(To(b, s, "completed"), y, "ready")
  BY <1>1 DEF Succeeded
<1>7. \A n \in {To(b, s, "blocked"), To(b, s, "failed"),
                To(To(b, s, "completed"), "extract", "ready")} :
        BookShape(n) /\ SameHashes(n, b)
  BY <1>1, <1>2, <1>3, <1>5
<1>8. ASSUME NEW y \in BookStages, Succeeded(b, s, kind) = To(To(b, s, "completed"), y, "ready")
      PROVE  LET n == Succeeded(b, s, kind) IN BookShape(n) /\ SameHashes(n, b)
  BY <1>3, <1>5, <1>8
<1>9. ASSUME Succeeded(b, s, kind) = To(b, s, "completed")
      PROVE  LET n == Succeeded(b, s, kind) IN BookShape(n) /\ SameHashes(n, b)
  BY <1>1, <1>2, <1>5, <1>9
<1>10. ASSUME NEW n \in {To(b, s, "blocked"), To(b, s, "failed"),
                         To(To(b, s, "completed"), "extract", "ready")},
              Succeeded(b, s, kind) = [n EXCEPT !.route = kind]
       PROVE  LET m == Succeeded(b, s, kind) IN BookShape(m) /\ SameHashes(m, b)
  BY <1>4, <1>7, <1>10
<1> QED BY <1>6, <1>8, <1>9, <1>10

\* The end of a command fails nothing that is completed.
LEMMA EndRunStands ==
  ASSUME CInv, NEW p \in Runner, EndRun(p)
  PROVE  Stands
<1>1. ASSUME NEW b \in Child, NEW s \in BookStages, Is(b, s, "completed")
      PROVE  books'[b].stages[s].status = "completed"
  <2>1. BookShape(books[b]) /\ ValidChild(books[b].stages)
    BY DEF CInv, Sound
  <2>2. books[b].stages[s].owner # p
    BY <1>1, <2>1, StageOrder, CollectionAssumption DEF Is
  <2> DEFINE f == [t \in BookStages |->
                     IF books[b].stages[t].owner = p
                     THEN [books[b].stages[t] EXCEPT !.status = "failed", !.owner = NoOwner]
                     ELSE books[b].stages[t]]
  <2>3. books'[b] = [books[b] EXCEPT !.stages = f]
    BY DEF EndRun
  <2>4. f[s] = books[b].stages[s]
    BY <2>2
  <2> HIDE DEF f
  <2>5. books'[b].stages = f
    BY <2>1, <2>3 DEF BookShape
  <2> QED BY <1>1, <2>4, <2>5 DEF Is
<1> QED BY <1>1 DEF Stands

\* The store lets nothing leave "completed" whose hashes stay.
LEMMA SavedStands ==
  ASSUME CInv, NEW b \in Child, NEW new, BookShape(new),
         Acceptable([books EXCEPT ![b] = new]), books' = [books EXCEPT ![b] = new],
         \/ \A s \in BookStages : books[b].stages[s].status = "completed" =>
              new.stages[s].hashes = books[b].stages[s].hashes
         \/ disk[b].text = "changed" /\ new.stages["extract"].status = "blocked"
  PROVE  Stands
<1>1. books' = [c \in Child |-> IF c = b THEN new ELSE books[c]]
  BY DEF CInv
<1>2. ASSUME NEW s \in BookStages, books[b].stages[s].status = "completed",
             new.stages[s].hashes = books[b].stages[s].hashes
      PROVE  new.stages[s].status = "completed"
  <2>1. /\ IsAllowedTransition(s, books[b].stages[s], new.stages[s], 0)
        /\ books[b].stages[s].status \in Used /\ new.stages[s].status \in Used
    BY Accepted
  <2> QED BY <1>2, <2>1, Transitions
<1> QED BY <1>1, <1>2 DEF Stands, Is

\* A save, refused or not, gives up nothing that is completed and keeps its hashes.
LEMMA SaveStands ==
  ASSUME CInv, NEW p \in Runner, NEW b \in Child, NEW new, NEW next, BookShape(new),
         Save(p, b, new, next),
         \/ \A s \in BookStages : books[b].stages[s].status = "completed" =>
              new.stages[s].hashes = books[b].stages[s].hashes
         \/ disk[b].text = "changed" /\ new.stages["extract"].status = "blocked"
  PROVE  Stands
BY EndRunStands, SavedStands DEF Save

\* A save of one changed status.
LEMMA ToStands ==
  ASSUME CInv, NEW p \in Runner, NEW b \in Child, NEW s \in BookStages, NEW status \in Used,
         NEW next, Save(p, b, To(books[b], s, status), next)
  PROVE  Stands
<1> DEFINE new == To(books[b], s, status)
<1>1. BookShape(new) /\ SameHashes(new, books[b]) /\ Save(p, b, new, next)
  BY ToHashes DEF CInv, Sound
<1> HIDE DEF new
<1> QED BY <1>1, SaveStands DEF SameHashes

\* A validation gives up what is completed only for a book whose evidence drifted.
LEMMA ValidationStands ==
  ASSUME CInv, NEW p \in Runner, NEW sound, NEW unsound, Validation(p, sound, unsound)
  PROVE  Stands
<1>1. CASE books' = books
  BY <1>1 DEF Stands, Is
<1>2. CASE HasDrifted # {} /\ Save(p, First(HasDrifted), Drifted(books[First(HasDrifted)]), unsound)
  <2> DEFINE b == First(HasDrifted)
             f == [s \in BookStages |->
                     IF s = "route" THEN books[b].stages[s]
                     ELSE [status |-> IF s = "extract" THEN "blocked" ELSE "pending",
                           hashes |-> {<<"workerEvidenceInvalidation", 0>>}, owner |-> NoOwner]]
             new == [books[b] EXCEPT !.stages = f]
  <2>1. b \in Child /\ b \in HasDrifted
    BY <1>2, FirstIn DEF HasDrifted
  <2> HIDE DEF b
  <2>2. disk[b].text = "changed" /\ BookShape(books[b])
    BY <2>1 DEF HasDrifted, CInv, Sound
  <2>3. Drifted(books[b]) = new
    BY <2>2 DEF Drifted, BookShape
  <2>4. StagesShape(f) /\ f["extract"].status = "blocked"
    <3>1. \A s \in BookStages : StageShape(f[s])
      BY <2>2 DEF BookShape, StagesShape, StageShape, Used, Active
    <3> QED BY <3>1, BookOrder DEF StagesShape
  <2> HIDE DEF f
  <2>5. BookShape(new) /\ new.stages["extract"].status = "blocked"
    BY <2>2, <2>4 DEF BookShape
  <2>6. Save(p, b, new, unsound)
    BY <1>2, <2>3 DEF b
  <2> HIDE DEF new
  <2> QED BY <2>1, <2>2, <2>5, <2>6, SaveStands
<1> QED BY <1>1, <1>2 DEF Validation

\* The steps of a command give up nothing else.
LEMMA TurnStands ==
  ASSUME CInv, NEW p \in Runner, Turn(p)
  PROVE  Stands
<1> DEFINE b == run[p].book
           s == run[p].stage
<1>1. ASSUME EndRun(p) PROVE Stands
  BY <1>1, EndRunStands
<1>2. ASSUME books' = books PROVE Stands
  BY <1>2 DEF Stands, Is
<1>3. CASE Head(p) \/ Validate(p) \/ Choose(p)
  BY <1>2, <1>3, ValidationStands DEF Head, Validate, Choose
<1>4. ASSUME run[p].at \in {"check", "start", "work"}
      PROVE  /\ b \in Child /\ s \in Durable /\ s \in BookStages /\ BookShape(books[b])
             /\ {"blocked", "failed"} \subseteq Used
  BY <1>4 DEF CInv, RunShape, Sound, BookStages, Used, Active
<1>5. CASE Check(p)
  <2>1. \/ EndRun(p) \/ books' = books
        \/ \E status \in {"blocked", "failed"} : Save(p, b, To(books[b], s, status), Looping)
    BY <1>5 DEF Check
  <2>2. /\ b \in Child /\ s \in BookStages /\ {"blocked", "failed"} \subseteq Used
    BY <1>4, <1>5 DEF Check
  <2> HIDE DEF b, s
  <2> QED BY <1>1, <1>2, <2>1, <2>2, ToStands
<1>6. CASE BeginStage(p)
  <2> DEFINE st == [status |-> "running", hashes |-> {<<"input", s>>}, owner |-> p]
             f == [books[b].stages EXCEPT ![s] = st]
             new == [books[b] EXCEPT !.stages = f]
             next == [run[p] EXCEPT !.at = "work", !.chosen = books[b].chosen]
  <2>1. b \in Child /\ s \in BookStages /\ BookShape(books[b])
    BY <1>4, <1>6 DEF BeginStage
  <2>2. [books[b] EXCEPT !.stages[s] = st] = new
    BY <2>1 DEF BookShape
  <2>3. EndRun(p) \/ (Startable(b, s) /\ Save(p, b, new, next))
    BY <1>6, <2>2 DEF BeginStage
  <2>4. StageShape(st)
    BY DEF StageShape, Used, Active
  <2> HIDE DEF st, b, s, next
  <2>5. StagesShape(f) /\ \A t \in BookStages \ {s} : f[t] = books[b].stages[t]
    BY <2>1, <2>4 DEF BookShape, StagesShape
  <2> HIDE DEF f
  <2>6. BookShape(new) /\ new.stages = f
    BY <2>1, <2>5 DEF BookShape
  <2> HIDE DEF new
  <2>7. Startable(b, s) => \A t \in BookStages : books[b].stages[t].status = "completed" =>
                             new.stages[t].hashes = books[b].stages[t].hashes
    BY <2>5, <2>6 DEF Startable
  <2> QED BY <1>1, <2>1, <2>3, <2>6, <2>7, SaveStands
<1>7. CASE RunStage(p)
  <2>1. \/ EndRun(p) \/ Save(p, b, To(books[b], s, "failed"), Looping)
        \/ \E live \in Live :
             Save(p, b, Succeeded(books[b], s, Routed(live, run[p].chosen)), Looping)
    BY <1>7 DEF RunStage
  <2>2. /\ b \in Child /\ s \in Durable /\ s \in BookStages /\ BookShape(books[b])
        /\ "failed" \in Used
    BY <1>4, <1>7 DEF RunStage
  <2> HIDE DEF b, s
  <2>3. ASSUME NEW kind, Save(p, b, Succeeded(books[b], s, kind), Looping)
        PROVE  Stands
    <3> DEFINE new == Succeeded(books[b], s, kind)
    <3>1. BookShape(new) /\ SameHashes(new, books[b]) /\ Save(p, b, new, Looping)
      BY <2>2, <2>3, OutcomeHashes
    <3> HIDE DEF new
    <3> QED BY <2>2, <3>1, SaveStands DEF SameHashes
  <2> QED BY <1>1, <2>1, <2>2, <2>3, ToStands
<1> QED BY <1>3, <1>5, <1>6, <1>7 DEF Turn

\* Nor does an override: the store refuses it once the book is extracted.
LEMMA OverrideStands ==
  ASSUME CInv, NEW b \in Child, NEW token \in Tokens, Override(b, token)
  PROVE  Stands
<1> DEFINE new == Overridden(b, token)
           route == CASE token = "auto" -> books[b].route
                      [] token \in Missing \cup {"keep"} -> "held"
                      [] OTHER -> token
           status == IF token # "auto" /\ route = "held" THEN "blocked" ELSE "ready"
           two == To(To(books[b], "route", status), "extract", "pending")
<1>1. Acceptable([books EXCEPT ![b] = new]) /\ books' = [books EXCEPT ![b] = new]
  BY DEF Override
<1>2. /\ BookShape(books[b]) /\ {"route", "extract"} \subseteq BookStages
      /\ status \in Used /\ "pending" \in Used
  BY BookOrder DEF CInv, Sound, Used, Active
<1>3. new = [two EXCEPT !.chosen = token, !.route = route]
  BY DEF Overridden
<1> HIDE DEF status, route
<1>4. BookShape(two) /\ SameHashes(two, books[b])
  BY <1>2, TwoHashes
<1> HIDE DEF two
<1>5. BookShape(new) /\ new.stages = two.stages
  BY <1>3, <1>4 DEF BookShape
<1> HIDE DEF new
<1> QED BY <1>1, <1>4, <1>5, SavedStands DEF SameHashes

\* What is completed is given up only by block_drifted_worker_evidence, for a book whose
\* own evidence drifted: for any number of commands, overrides and edits, calm or not.
THEOREM FinishedWorkStands == CollectionSpec => FinishedStands
<1>1. CInv /\ [CollectionNext]_collectionVars => [Stands]_collectionVars
  <2> SUFFICES ASSUME CInv, CollectionNext PROVE Stands
    OBVIOUS
  <2>1. ASSUME books' = books PROVE Stands
    BY <2>1 DEF Stands, Is
  <2>2. ASSUME NEW p \in Runner, (\E retry \in BOOLEAN : Call(p, retry)) \/ Turn(p) \/ Dies(p)
        PROVE  Stands
    BY <2>1, <2>2, TurnStands, EndRunStands DEF Call, Dies
  <2>3. ASSUME NEW b \in Child, Drop(b) PROVE Stands
    <3>1. /\ books' = [books EXCEPT ![b].dropped = TRUE]
          /\ books = [c \in Child |-> books[c]] /\ BookShape(books[b])
      BY <2>3 DEF Drop, CInv, Sound
    <3>2. \A c \in Child : books'[c].stages = books[c].stages
      BY <3>1 DEF BookShape
    <3> QED BY <3>2 DEF Stands, Is
  <2>4. ASSUME NEW b \in Child, \/ EditPdf(b) \/ EditMarkdown(b)
                                \/ \E token \in Tokens : Override(b, token)
        PROVE  Stands
    BY <2>1, <2>4, OverrideStands DEF EditPdf, EditMarkdown
  <2> QED BY <2>2, <2>3, <2>4 DEF CollectionNext
<1>2. CollectionSpec => [][Stands]_collectionVars
  BY <1>1, CInvHolds, PTL DEF CollectionSpec
<1> QED BY <1>2 DEF FinishedStands, Stands
=============================================================================
