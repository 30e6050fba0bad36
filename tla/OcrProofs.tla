----------------------------- MODULE OcrProofs -----------------------------
(* Theorems about three of the converters.                                    *)
(*                                                                            *)
(* The Paddle route of the Zotero worker, for every set of PDFs, every cut    *)
(* and any number of runs, models, failures and deaths: a conversion holds    *)
(* the pages that were asked for, no page is paid for twice without a reason, *)
(* and no run exceeds its budget.  The chunks of a PDF form a tree: what      *)
(* page_chunks cuts, and below each chunk the halves it is cut into when its  *)
(* job fails.  The inductive invariant says that the table has gone down this *)
(* tree from the top and that the queue stands below every chunk that was cut *)
(* up: a chunk of the queue that overlaps one in the table is that chunk, or  *)
(* lies in one that failed.  That is why a new job can only pay again for     *)
(* pages whose first result was of another model, or was given up.            *)
(*                                                                            *)
(* The converter of a folder, for every folder and any number of threads,     *)
(* runs, failures, deaths and edits: what lies under the name of a book is    *)
(* its own, as long as names stay with their books.                           *)
(*                                                                            *)
(* The MinerU adapter, for every set of inputs, way of running it and limit   *)
(* and any number of runs and failures: a merged document is the selection of *)
(* its own source, whole, in order and of one run, a run that fails early     *)
(* leaves the documents of earlier runs alone, and the worker commits a whole *)
(* document.                                                                  *)
EXTENDS PaddleChunks, FolderOcr, MineruBatches, SequenceTheorems, FiniteSetTheorems,
        WellFoundedInduction, TLAPS

-----------------------------------------------------------------------------
(* Chunks as intervals of pages, and sequences of them.                       *)

Within(d, c) == c[1] <= d[1] /\ d[2] <= c[2]
Apart(c, d) == c[2] < d[1] \/ d[2] < c[1]
Before(s, t) == \A i \in DOMAIN s, j \in DOMAIN t : s[i][2] < t[j][1]
Ordered(s) == \A i, j \in DOMAIN s : i < j => s[i][2] < s[j][1]
Cover(s) == UNION {Pages(s[i]) : i \in DOMAIN s}
Members(s) == {s[i] : i \in DOMAIN s}

\* What a chunk is cut into when its job fails.
Kids(b, c) == Specs(b, Halves(c))

-----------------------------------------------------------------------------
(* Sets of numbers and functions defined by recursion.                        *)

\* A set of natural numbers that is not empty has a least element.
LEMMA Least ==
  ASSUME NEW S, S \subseteq Nat, S # {}
  PROVE  \E m \in S : \A k \in S : m <= k
<1> DEFINE R == {e \in Nat \X Nat : e[1] < e[2]}
<1>1. OpToRel(<, Nat) = R
  BY DEF OpToRel
<1> HIDE DEF R
<1>2. PICK m \in S : \A k \in S : ~(<<k, m>> \in R)
  BY <1>1, NatLessThanWellFounded, WFMin
<1> USE DEF R
<1>3. \A k \in S : m <= k
  <2> TAKE k \in S
  <2>1. m \in Nat /\ k \in Nat /\ ~(k < m)
    BY <1>2
  <2> QED BY <2>1
<1> QED BY <1>3

\* The steps of a recursion over the numbers up to n, and a function that takes them.
Steps(n, T, a, g) == n \in Nat /\ a \in T /\ g \in [1 .. n -> [T -> T]]
Repeats(n, T, a, g, f) ==
  f \in [0 .. n -> T] /\ f[0] = a /\ \A i \in 1 .. n : f[i] = g[i][f[i - 1]]

\* A step on the values of a set can be repeated any number of times.
LEMMA Repeated ==
  ASSUME NEW n, NEW T, NEW a, NEW g, Steps(n, T, a, g)
  PROVE  \E f : Repeats(n, T, a, g, f)
<1> DEFINE P(k) == \E f \in [0 .. k -> T] :
                     f[0] = a /\ \A i \in 1 .. k : f[i] = g[i][f[i - 1]]
           S == {k \in 0 .. n : ~P(k)}
<1>0. n \in Nat /\ a \in T /\ g \in [1 .. n -> [T -> T]]
  BY DEF Steps
<1>1. P(0)
  <2>1. [i \in 0 .. 0 |-> a] \in [0 .. 0 -> T] /\ [i \in 0 .. 0 |-> a][0] = a /\ 1 .. 0 = {}
    BY <1>0
  <2> QED BY <2>1
<1>2. ASSUME NEW k \in 1 .. n, P(k - 1) PROVE P(k)
  <2>1. PICK f \in [0 .. k - 1 -> T] :
          f[0] = a /\ \A i \in 1 .. k - 1 : f[i] = g[i][f[i - 1]]
    BY <1>2
  <2> DEFINE h == [i \in 0 .. k |-> IF i = k THEN g[k][f[k - 1]] ELSE f[i]]
  <2>2. f[k - 1] \in T
    BY <1>0
  <2>3. g[k][f[k - 1]] \in T
    BY <2>2, <1>0
  <2>4. h \in [0 .. k -> T]
    <3>1. \A i \in 0 .. k : i # k => i \in 0 .. k - 1
      BY <1>0
    <3> QED BY <3>1, <2>3
  <2>5. h[0] = a
    BY <1>0, <2>1
  <2>6. \A i \in 1 .. k : h[i] = g[i][h[i - 1]]
    <3> TAKE i \in 1 .. k
    <3>1. i - 1 \in 0 .. k /\ i - 1 # k /\ i \in 0 .. k
      BY <1>0
    <3>2. h[i - 1] = f[i - 1]
      BY <3>1
    <3>3. CASE i = k
      BY <3>1, <3>2, <3>3
    <3>4. CASE i # k
      <4>1. i \in 1 .. k - 1 BY <3>4, <1>0
      <4>2. h[i] = f[i] BY <3>1, <3>4
      <4> QED BY <4>1, <4>2, <3>2, <2>1
    <3> QED BY <3>3, <3>4
  <2> HIDE DEF h
  <2> QED BY <2>4, <2>5, <2>6
<1> HIDE DEF P
<1>3. S = {}
  <2> SUFFICES ASSUME S # {} PROVE FALSE
    OBVIOUS
  <2>0. S \subseteq Nat
    BY <1>0
  <2> HIDE DEF S
  <2>1. PICK m \in S : \A k \in S : m <= k
    BY <2>0, Least
  <2> USE DEF S
  <2>2. m # 0 /\ m \in 1 .. n /\ ~P(m)
    BY <1>0, <1>1, <2>1
  <2>3. m - 1 \notin S /\ m - 1 \in 0 .. n
    BY <1>0, <2>1, <2>2
  <2>4. P(m - 1)
    BY <2>3
  <2> QED BY <2>2, <2>4, <1>2
<1>4. P(n)
  BY <1>0, <1>3
<1> QED BY <1>4 DEF P, Repeats

-----------------------------------------------------------------------------
(* Sequences of chunks.                                                       *)

PagePairs == Nat \X Nat
Line(S, s) == s \in Seq(S) /\ Ordered(s)

LEMMA SelectionFacts ==
  ASSUME NEW b \in Book
  PROVE  /\ PageCount[b] \in Nat /\ Chunk(b) \subseteq PagePairs
         /\ \A c \in Chunk(b) : c \in PagePairs /\ c[1] \in Nat /\ c[2] \in Nat /\ c[1] >= 1
                                /\ c[1] <= c[2] /\ c[2] <= PageCount[b] /\ c = <<c[1], c[2]>>
         /\ \A m, n \in 1 .. PageCount[b] : m <= n => <<m, n>> \in Chunk(b)
<1>1. PageCount[b] \in Nat
  BY SelectionIncreases DEF Book
<1> QED BY <1>1 DEF Chunk, PagePairs

LEMMA LineIndexes ==
  ASSUME NEW S, NEW s \in Seq(S)
  PROVE  DOMAIN s = 1 .. Len(s) /\ Len(s) \in Nat /\ \A i \in 1 .. Len(s) : s[i] \in S
OBVIOUS

LEMMA NoChunks ==
  ASSUME NEW S
  PROVE  Line(S, <<>>) /\ Members(<<>>) = {} /\ Cover(<<>>) = {}
BY DEF Line, Ordered, Members, Cover

LEMMA OneChunk ==
  ASSUME NEW S, NEW c \in S
  PROVE  Line(S, <<c>>) /\ Members(<<c>>) = {c} /\ Cover(<<c>>) = Pages(c)
<1>1. <<c>> \in Seq(S) /\ DOMAIN <<c>> = {1} /\ <<c>>[1] = c
  OBVIOUS
<1> QED BY <1>1 DEF Line, Ordered, Members, Cover

\* One line of chunks behind another is a line of what both hold.
LEMMA LinesJoin ==
  ASSUME NEW b \in Book, NEW s, NEW t, Line(Chunk(b), s), Line(Chunk(b), t), Before(s, t)
  PROVE  /\ Line(Chunk(b), s \o t)
         /\ Members(s \o t) = Members(s) \cup Members(t)
         /\ Cover(s \o t) = Cover(s) \cup Cover(t)
<1> DEFINE S == Chunk(b)
           u == s \o t
<1>1. s \in Seq(S) /\ t \in Seq(S) /\ u \in Seq(S)
  BY DEF Line
<1>2. /\ Len(s) \in Nat /\ Len(t) \in Nat /\ Len(u) = Len(s) + Len(t)
      /\ DOMAIN s = 1 .. Len(s) /\ DOMAIN t = 1 .. Len(t) /\ DOMAIN u = 1 .. Len(u)
  BY <1>1
<1>3. /\ \A i \in DOMAIN s : i \in DOMAIN u /\ u[i] = s[i]
      /\ \A i \in DOMAIN t : i + Len(s) \in DOMAIN u /\ u[i + Len(s)] = t[i]
  BY <1>1, <1>2
<1>4. \A i \in DOMAIN u : \/ i \in DOMAIN s /\ u[i] = s[i]
                          \/ i - Len(s) \in DOMAIN t /\ u[i] = t[i - Len(s)]
  BY <1>1, <1>2
<1> HIDE DEF u
<1>5. Ordered(u)
  <2> SUFFICES ASSUME NEW i \in DOMAIN u, NEW j \in DOMAIN u, i < j PROVE u[i][2] < u[j][1]
    BY DEF Ordered
  <2>1. i \in Nat /\ j \in Nat
    BY <1>2
  <2>2. CASE j \in DOMAIN s /\ u[j] = s[j]
    <3>1. i \in DOMAIN s /\ u[i] = s[i]
      BY <2>1, <2>2, <1>2, <1>3
    <3> QED BY <3>1, <2>2 DEF Line, Ordered
  <2>3. CASE j - Len(s) \in DOMAIN t /\ u[j] = t[j - Len(s)]
    <3>1. CASE i \in DOMAIN s /\ u[i] = s[i]
      BY <2>3, <3>1 DEF Before
    <3>2. CASE i - Len(s) \in DOMAIN t /\ u[i] = t[i - Len(s)]
      <4>1. i - Len(s) < j - Len(s)
        BY <2>1, <1>2
      <4> QED BY <4>1, <3>2, <2>3 DEF Line, Ordered
    <3> QED BY <3>1, <3>2, <1>4
  <2> QED BY <2>2, <2>3, <1>4
<1>6. Members(u) = Members(s) \cup Members(t)
  <2>1. \A x \in Members(u) : x \in Members(s) \cup Members(t)
    BY <1>4 DEF Members
  <2>2. \A x \in Members(s) \cup Members(t) : x \in Members(u)
    BY <1>3 DEF Members
  <2> QED BY <2>1, <2>2
<1>7. Cover(u) = Cover(s) \cup Cover(t)
  <2>1. \A x \in Cover(u) : x \in Cover(s) \cup Cover(t)
    BY <1>4 DEF Cover
  <2>2. \A x \in Cover(s) \cup Cover(t) : x \in Cover(u)
    BY <1>3 DEF Cover
  <2> QED BY <2>1, <2>2
<1> QED BY <1>1, <1>5, <1>6, <1>7 DEF u, Line

\* A line without its first chunk.
LEMMA LineTail ==
  ASSUME NEW b \in Book, NEW s, Line(Chunk(b), s), s # <<>>
  PROVE  /\ Head(s) \in Chunk(b) /\ Line(Chunk(b), Tail(s))
         /\ Members(s) = {Head(s)} \cup Members(Tail(s))
         /\ Cover(s) = Pages(Head(s)) \cup Cover(Tail(s))
         /\ \A i \in DOMAIN Tail(s) : Head(s)[2] < Tail(s)[i][1]
         /\ \A i \in DOMAIN Tail(s) : i + 1 \in DOMAIN s /\ Tail(s)[i] = s[i + 1]
         /\ 1 \in DOMAIN s /\ s[1] = Head(s)
<1> DEFINE S == Chunk(b)
           t == Tail(s)
<1>1. s \in Seq(S) /\ t \in Seq(S) /\ Len(s) \in Nat /\ Len(t) = Len(s) - 1
  BY DEF Line
<1>2. DOMAIN s = 1 .. Len(s) /\ DOMAIN t = 1 .. Len(t) /\ Len(s) > 0
  BY <1>1
<1>3. 1 \in DOMAIN s /\ s[1] = Head(s) /\ Head(s) \in S
  BY <1>1, <1>2
<1>4. \A i \in DOMAIN t : i + 1 \in DOMAIN s /\ t[i] = s[i + 1] /\ 1 < i + 1
  BY <1>1, <1>2
<1>5. \A i \in DOMAIN s : i = 1 \/ (i - 1 \in DOMAIN t /\ s[i] = t[i - 1])
  BY <1>1, <1>2
<1> HIDE DEF t
<1>6. Ordered(t)
  <2> SUFFICES ASSUME NEW i \in DOMAIN t, NEW j \in DOMAIN t, i < j PROVE t[i][2] < t[j][1]
    BY DEF Ordered
  <2>1. i + 1 < j + 1
    BY <1>1, <1>2
  <2> QED BY <2>1, <1>4 DEF Line, Ordered
<1>7. \A i \in DOMAIN t : Head(s)[2] < t[i][1]
  BY <1>3, <1>4 DEF Line, Ordered
<1>8. Members(s) = {Head(s)} \cup Members(t)
  <2>1. \A x \in Members(s) : x \in {Head(s)} \cup Members(t)
    BY <1>3, <1>5 DEF Members
  <2>2. \A x \in {Head(s)} \cup Members(t) : x \in Members(s)
    BY <1>3, <1>4 DEF Members
  <2> QED BY <2>1, <2>2
<1>9. Cover(s) = Pages(Head(s)) \cup Cover(t)
  <2>1. \A x \in Cover(s) : x \in Pages(Head(s)) \cup Cover(t)
    BY <1>3, <1>5 DEF Cover
  <2>2. \A x \in Pages(Head(s)) \cup Cover(t) : x \in Cover(s)
    BY <1>3, <1>4 DEF Cover
  <2> QED BY <2>1, <2>2
<1> QED BY <1>1, <1>3, <1>4, <1>6, <1>7, <1>8, <1>9 DEF t, Line

\* The chunks of a line do not overlap.
LEMMA LineApart ==
  ASSUME NEW b \in Book, NEW s, Line(Chunk(b), s),
         NEW c \in Members(s), NEW d \in Members(s), c # d
  PROVE  Apart(c, d)
<1>1. PICK i \in DOMAIN s, j \in DOMAIN s : c = s[i] /\ d = s[j]
  BY DEF Members
<1>2. i < j \/ j < i
  BY <1>1, LineIndexes DEF Line
<1> QED BY <1>1, <1>2 DEF Line, Ordered, Apart

-----------------------------------------------------------------------------
(* What the cuts return.                                                      *)

\* The chunks of the first pages, one page more.
ExtendCut(cs, p) ==
  IF cs # <<>> /\ p = Last(cs)[2] + 1 /\ Size(Last(cs)) < JobPages
  THEN Front(cs) \o << <<Last(cs)[1], p>> >> ELSE Append(cs, <<p, p>>)

LEMMA PageChunksRecursion ==
  ASSUME NEW n \in Nat, NEW pages \in Seq(1 .. n)
  PROVE  \E f : /\ f[0] = <<>> /\ PageChunks(pages) = f[Len(pages)]
                /\ \A k \in 1 .. Len(pages) : f[k] = ExtendCut(f[k - 1], pages[k])
<1> DEFINE T == Seq(Int \X Int)
           g == [k \in 1 .. Len(pages) |-> [cs \in T |-> ExtendCut(cs, pages[k])]]
           Eq(f) == f = [k \in 0 .. Len(pages) |->
                          IF k = 0 THEN <<>> ELSE ExtendCut(f[k - 1], pages[k])]
<1>1. Len(pages) \in Nat /\ \A k \in 1 .. Len(pages) : pages[k] \in Int
  OBVIOUS
<1>2. ASSUME NEW cs \in T, NEW p \in Int PROVE ExtendCut(cs, p) \in T
  <2>1. CASE cs # <<>>
    <3>1. Len(cs) \in Nat \ {0} /\ Last(cs) \in Int \X Int /\ Front(cs) \in T
      BY <2>1, SubSeqProperties DEF Last, Front
    <3>2. <<Last(cs)[1], p>> \in Int \X Int
      BY <3>1
    <3>3. Front(cs) \o << <<Last(cs)[1], p>> >> \in T
      BY <3>1, <3>2
    <3>4. Append(cs, <<p, p>>) \in T
      OBVIOUS
    <3> HIDE DEF T
    <3> QED BY <3>3, <3>4 DEF ExtendCut
  <2>2. CASE cs = <<>>
    BY <2>2 DEF ExtendCut
  <2> QED BY <2>1, <2>2
<1>3. g \in [1 .. Len(pages) -> [T -> T]]
  <2>1. \A k \in 1 .. Len(pages), cs \in T : ExtendCut(cs, pages[k]) \in T
    BY <1>1, <1>2
  <2> HIDE DEF T
  <2> QED BY <2>1
<1>4. <<>> \in T
  OBVIOUS
<1> HIDE DEF T, g
<1> DEFINE m == Len(pages)
           none == <<>>
<1>5. Steps(m, T, none, g)
  BY <1>1, <1>3, <1>4 DEF Steps
<1> HIDE DEF m, none
<1>6. PICK f : Repeats(m, T, none, g, f)
  BY <1>5, Repeated
<1> USE DEF m, none
<1>7. /\ f \in [0 .. Len(pages) -> T]
      /\ f[0] = <<>> /\ \A k \in 1 .. Len(pages) : f[k] = g[k][f[k - 1]]
  BY <1>6 DEF Repeats
<1>8. \A k \in 1 .. Len(pages) : f[k] = ExtendCut(f[k - 1], pages[k])
  <2> TAKE k \in 1 .. Len(pages)
  <2>1. k - 1 \in 0 .. Len(pages)
    BY <1>1
  <2>2. f[k - 1] \in T
    BY <2>1, <1>7
  <2> QED BY <2>2, <1>7 DEF g
<1>9. Eq(f)
  <2>1. \A k \in 0 .. Len(pages) :
          f[k] = IF k = 0 THEN <<>> ELSE ExtendCut(f[k - 1], pages[k])
    BY <1>1, <1>7, <1>8
  <2> HIDE DEF T
  <2> QED BY <2>1, <1>7
<1>10. PICK h : h = CHOOSE f1 : Eq(f1)
  OBVIOUS
<1>11. Eq(h)
  BY <1>9, <1>10
<1>12. PageChunks(pages) = h[Len(pages)]
  BY <1>10 DEF PageChunks, ExtendCut
<1>13. h[0] = <<>> /\ \A k \in 1 .. Len(pages) : h[k] = ExtendCut(h[k - 1], pages[k])
  <2>1. 0 \in 0 .. Len(pages) /\ \A k \in 1 .. Len(pages) : k \in 0 .. Len(pages) /\ k # 0
    BY <1>1
  <2> QED BY <2>1, <1>11
<1> QED BY <1>12, <1>13

\* A line without its last chunk, which is behind all others.
LEMMA LineFront ==
  ASSUME NEW b \in Book, NEW s, Line(Chunk(b), s), s # <<>>
  PROVE  /\ Last(s) \in Chunk(b) /\ Line(Chunk(b), Front(s))
         /\ Cover(s) = Cover(Front(s)) \cup Pages(Last(s))
         /\ \A i \in DOMAIN Front(s) : Front(s)[i][2] < Last(s)[1]
         /\ \A i \in DOMAIN s : s[i][2] <= Last(s)[2]
<1> DEFINE t == Front(s)
           n == Len(s)
<1>1. s \in Seq(Chunk(b)) /\ n \in Nat \ {0} /\ DOMAIN s = 1 .. n
  BY EmptySeq DEF Line
<1>2. t \in Seq(Chunk(b)) /\ Len(t) = n - 1 /\ \A i \in 1 .. n - 1 : t[i] = s[i]
  BY <1>1, SubSeqProperties DEF Front
<1>3. DOMAIN t = 1 .. n - 1
  BY <1>1, <1>2
<1>4. n \in DOMAIN s /\ Last(s) = s[n] /\ Last(s) \in Chunk(b)
  BY <1>1 DEF Last
<1>5. \A i \in DOMAIN t : i \in DOMAIN s /\ t[i] = s[i] /\ i < n
  BY <1>1, <1>2, <1>3
<1>6. \A i \in DOMAIN s : i = n \/ (i \in DOMAIN t /\ t[i] = s[i])
  BY <1>1, <1>2, <1>3
<1> HIDE DEF t, n
<1>7. Ordered(t)
  BY <1>5 DEF Line, Ordered
<1>8. \A i \in DOMAIN t : t[i][2] < Last(s)[1]
  BY <1>4, <1>5 DEF Line, Ordered
<1>9. Cover(s) = Cover(t) \cup Pages(Last(s))
  <2>1. \A x \in Cover(s) : x \in Cover(t) \cup Pages(Last(s))
    BY <1>4, <1>6 DEF Cover
  <2>2. \A x \in Cover(t) \cup Pages(Last(s)) : x \in Cover(s)
    BY <1>4, <1>5 DEF Cover
  <2> QED BY <2>1, <2>2
<1>10. \A i \in DOMAIN s : s[i][2] <= Last(s)[2]
  <2> TAKE i \in DOMAIN s
  <2>1. s[i] \in Chunk(b) /\ i \in Nat /\ n \in Nat /\ i <= n
    BY <1>1 DEF n
  <2>2. CASE i = n
    BY <2>1, <2>2, <1>4, SelectionFacts
  <2>3. CASE i < n
    <3>1. s[i][2] < Last(s)[1]
      BY <2>3, <1>4 DEF Line, Ordered
    <3> QED BY <3>1, <2>1, <1>4, SelectionFacts
  <2> QED BY <2>1, <2>2, <2>3
<1> QED BY <1>2, <1>4, <1>7, <1>8, <1>9, <1>10 DEF Line, t

LEMMA ExtendCutLine ==
  ASSUME NEW b \in Book, NEW cs, Line(Chunk(b), cs), NEW p \in 1 .. PageCount[b],
         cs # <<>> => Last(cs)[2] < p
  PROVE  LET es == ExtendCut(cs, p) IN
         /\ Line(Chunk(b), es) /\ es # <<>> /\ Last(es)[2] = p
         /\ Cover(es) = Cover(cs) \cup {p}
<1>1. Chunk(b) \subseteq PagePairs /\ p \in Int
  BY SelectionFacts
<1>2. ASSUME NEW s, NEW c \in Chunk(b), Line(Chunk(b), s), \A i \in DOMAIN s : s[i][2] < c[1]
      PROVE  /\ Line(Chunk(b), s \o <<c>>) /\ s \o <<c>> # <<>> /\ Last(s \o <<c>>) = c
             /\ Cover(s \o <<c>>) = Cover(s) \cup Pages(c)
  <2>1. Line(Chunk(b), <<c>>) /\ Cover(<<c>>) = Pages(c) /\ DOMAIN <<c>> = {1} /\ <<c>>[1] = c
    BY OneChunk
  <2>2. Before(s, <<c>>)
    BY <2>1, <1>2 DEF Before
  <2>3. s \in Seq(Chunk(b)) /\ <<c>> \in Seq(Chunk(b))
    BY <1>2, <2>1 DEF Line
  <2>4. s \o <<c>> # <<>> /\ Last(s \o <<c>>) = c
    <3>1. s \o <<c>> = Append(s, c)
      BY <2>3, AppendIsConcat
    <3>2. Append(s, c) # <<>> /\ Last(Append(s, c)) = c
      BY <2>3, AppendProperties DEF Last
    <3> QED BY <3>1, <3>2
  <2> QED BY <1>2, <2>1, <2>2, <2>4, LinesJoin
<1>3. CASE cs # <<>> /\ p = Last(cs)[2] + 1 /\ Size(Last(cs)) < JobPages
  <2> DEFINE l == Last(cs)
             c == <<l[1], p>>
  <2>1. /\ l \in Chunk(b) /\ Line(Chunk(b), Front(cs)) /\ Cover(cs) = Cover(Front(cs)) \cup Pages(l)
        /\ \A i \in DOMAIN Front(cs) : Front(cs)[i][2] < l[1]
    BY <1>3, LineFront
  <2>2. l[1] \in 1 .. PageCount[b] /\ l[1] <= l[2] /\ l[2] \in Int /\ PageCount[b] \in Nat
    BY <2>1, SelectionFacts
  <2>3. c \in Chunk(b) /\ c[1] = l[1] /\ c[2] = p
    BY <1>1, <1>3, <2>2, SelectionFacts
  <2>4. Pages(c) = Pages(l) \cup {p}
    BY <1>1, <1>3, <2>2, <2>3 DEF Pages
  <2>5. ExtendCut(cs, p) = Front(cs) \o <<c>>
    BY <1>3 DEF ExtendCut
  <2> HIDE DEF c, l
  <2>6. /\ Line(Chunk(b), Front(cs) \o <<c>>) /\ Front(cs) \o <<c>> # <<>>
        /\ Last(Front(cs) \o <<c>>) = c
        /\ Cover(Front(cs) \o <<c>>) = Cover(Front(cs)) \cup Pages(c)
    BY <1>2, <2>1, <2>3
  <2> QED BY <2>1, <2>3, <2>4, <2>5, <2>6
<1>4. CASE ~(cs # <<>> /\ p = Last(cs)[2] + 1 /\ Size(Last(cs)) < JobPages)
  <2> DEFINE c == <<p, p>>
  <2>1. c \in Chunk(b) /\ c[1] = p /\ c[2] = p /\ Pages(c) = {p}
    BY <1>1, SelectionFacts DEF Pages
  <2> HIDE DEF c
  <2>2. \A i \in DOMAIN cs : cs[i][2] < c[1]
    <3> TAKE i \in DOMAIN cs
    <3>1. cs # <<>>
      OBVIOUS
    <3>2. cs[i][2] <= Last(cs)[2] /\ Last(cs) \in Chunk(b) /\ cs[i] \in Chunk(b)
      BY <3>1, LineFront DEF Line
    <3>3. cs[i][2] \in Int /\ Last(cs)[2] \in Int
      BY <3>2, SelectionFacts
    <3> QED BY <1>1, <2>1, <3>1, <3>2, <3>3
  <2>3. ExtendCut(cs, p) = cs \o <<c>>
    <3>1. cs \in Seq(Chunk(b))
      BY DEF Line
    <3>2. ExtendCut(cs, p) = Append(cs, c)
      BY <1>4 DEF ExtendCut, c
    <3> QED BY <3>1, <3>2, <2>1, AppendIsConcat
  <2>4. /\ Line(Chunk(b), cs \o <<c>>) /\ cs \o <<c>> # <<>> /\ Last(cs \o <<c>>) = c
        /\ Cover(cs \o <<c>>) = Cover(cs) \cup Pages(c)
    BY <1>2, <2>1, <2>2
  <2> QED BY <2>1, <2>3, <2>4
<1> QED BY <1>3, <1>4

\* page_chunks returns the pages it was given, in chunks that stand in a line.
LEMMA PageChunksLine ==
  ASSUME NEW b \in Book
  PROVE  /\ Line(Chunk(b), PageChunks(Selection[b]))
         /\ Cover(PageChunks(Selection[b])) = Range(Selection[b])
<1> DEFINE pages == Selection[b]
           n == Len(pages)
<1>1. /\ PageCount[b] \in Nat /\ pages \in Seq(1 .. PageCount[b])
      /\ \A i, j \in DOMAIN pages : i < j => pages[i] < pages[j]
  BY SelectionIncreases, SelectionFacts DEF Book
<1>2. n \in Nat /\ DOMAIN pages = 1 .. n /\ \A i \in 1 .. n : pages[i] \in 1 .. PageCount[b]
  BY <1>1
<1>3. PICK f : /\ f[0] = <<>> /\ PageChunks(pages) = f[n]
               /\ \A k \in 1 .. n : f[k] = ExtendCut(f[k - 1], pages[k])
  BY <1>1, PageChunksRecursion
<1> HIDE DEF pages, n
<1> DEFINE P(k) == /\ Line(Chunk(b), f[k]) /\ Cover(f[k]) = {pages[i] : i \in 1 .. k}
                   /\ IF k = 0 THEN f[k] = <<>> ELSE Last(f[k])[2] = pages[k]
           S == {k \in 0 .. n : ~P(k)}
<1>4. P(0)
  <2>1. 1 .. 0 = {}
    OBVIOUS
  <2>2. {pages[i] : i \in 1 .. 0} = {}
    BY <2>1
  <2> QED BY <1>3, <2>2, NoChunks
<1>5. ASSUME NEW k \in 1 .. n, P(k - 1) PROVE P(k)
  <2> DEFINE cs == f[k - 1]
             p == pages[k]
  <2>1. p \in 1 .. PageCount[b] /\ k \in Nat /\ k # 0 /\ f[k] = ExtendCut(cs, p)
    BY <1>2, <1>3
  <2>2. cs # <<>> => Last(cs)[2] < p
    <3> SUFFICES ASSUME cs # <<>> PROVE Last(cs)[2] < p
      OBVIOUS
    <3>1. k - 1 # 0 /\ k - 1 \in 1 .. n /\ k - 1 < k
      BY <2>1, <1>2, <1>5
    <3>2. Last(cs)[2] = pages[k - 1]
      BY <3>1, <1>5
    <3> QED BY <3>1, <3>2, <1>1, <1>2
  <2>3. {pages[i] : i \in 1 .. k} = {pages[i] : i \in 1 .. k - 1} \cup {p}
    <3>1. 1 .. k = (1 .. k - 1) \cup {k}
      BY <2>1
    <3> QED BY <3>1
  <2>4. Line(Chunk(b), cs) /\ Cover(cs) = {pages[i] : i \in 1 .. k - 1}
    BY <1>5
  <2> HIDE DEF cs, p
  <2>5. /\ Line(Chunk(b), ExtendCut(cs, p)) /\ Last(ExtendCut(cs, p))[2] = p
        /\ Cover(ExtendCut(cs, p)) = Cover(cs) \cup {p}
    BY <2>1, <2>2, <2>4, ExtendCutLine
  <2>6. Last(f[k])[2] = pages[k]
    BY <2>1, <2>5 DEF p
  <2> QED BY <2>1, <2>3, <2>4, <2>5, <2>6
<1> HIDE DEF P
<1>6. S = {}
  <2> SUFFICES ASSUME S # {} PROVE FALSE
    OBVIOUS
  <2>1. S \subseteq Nat
    BY <1>2
  <2> HIDE DEF S
  <2>2. PICK m \in S : \A k \in S : m <= k
    BY <2>1, Least
  <2> USE DEF S
  <2>3. m \in 1 .. n /\ ~P(m)
    BY <1>2, <1>4, <2>2
  <2>4. m - 1 \notin S /\ m - 1 \in 0 .. n
    BY <1>2, <2>2, <2>3
  <2> QED BY <2>3, <2>4, <1>5
<1>7. P(n)
  BY <1>2, <1>6
<1>8. {pages[i] : i \in 1 .. n} = Range(pages)
  BY <1>2 DEF Range
<1> QED BY <1>3, <1>7, <1>8 DEF P, pages

\* A chunk of several pages falls into two of fewer pages.
LEMMA HalvesLine ==
  ASSUME NEW b \in Book, NEW c \in Chunk(b), Size(c) > 1
  PROVE  LET h == Halves(c) IN
         /\ Line(Chunk(b), h) /\ DOMAIN h = {1, 2} /\ Cover(h) = Pages(c)
         /\ \A i \in {1, 2} : /\ h[i] \in Chunk(b) /\ Size(h[i]) < Size(c) /\ Size(h[i]) \in Nat
                              /\ Within(h[i], c) /\ h[i] # c
         /\ h[1][2] < h[2][1]
<1> DEFINE k == Size(c) \div 2
           mid == c[1] + k
           l == <<c[1], mid - 1>>
           r == <<mid, c[2]>>
<1>1. /\ c[1] \in 1 .. PageCount[b] /\ c[2] \in 1 .. PageCount[b] /\ c[1] < c[2]
      /\ PageCount[b] \in Nat /\ Size(c) = c[2] - c[1] + 1
  BY SelectionFacts DEF Size
<1>2. k \in Int /\ k >= 1 /\ k <= c[2] - c[1]
  BY <1>1
<1> HIDE DEF k
<1>3. mid \in Int /\ c[1] < mid /\ mid <= c[2]
  BY <1>1, <1>2
<1>4. Halves(c) = <<l, r>>
  BY DEF Halves, k
<1> HIDE DEF mid
<1>5. l[1] = c[1] /\ l[2] = mid - 1 /\ r[1] = mid /\ r[2] = c[2]
  OBVIOUS
<1>6. l \in Chunk(b) /\ r \in Chunk(b)
  BY <1>1, <1>3, SelectionFacts
<1> HIDE DEF l, r
<1>7. /\ Size(l) < Size(c) /\ Size(r) < Size(c) /\ Size(l) \in Nat /\ Size(r) \in Nat
      /\ Within(l, c) /\ Within(r, c) /\ l[2] < r[1]
  BY <1>1, <1>3, <1>5 DEF Size, Within
<1>8. l # c /\ r # c
  BY <1>1, <1>3, <1>5
<1> DEFINE h == <<l, r>>
<1>9. DOMAIN h = {1, 2} /\ h[1] = l /\ h[2] = r /\ h \in Seq(Chunk(b))
  BY <1>6
<1> HIDE DEF h
<1>10. Ordered(h)
  BY <1>7, <1>9 DEF Ordered
<1>11. Pages(l) \cup Pages(r) = Pages(c)
  BY <1>1, <1>3, <1>5 DEF Pages
<1>12. Cover(h) = Pages(c)
  BY <1>9, <1>11 DEF Cover
<1> USE DEF h
<1> QED BY <1>4, <1>6, <1>7, <1>8, <1>9, <1>10, <1>12 DEF Line

\* FlattenSeq appends one sequence after the other.
LEMMA Flattened ==
  ASSUME NEW X, NEW s \in Seq(Seq(X))
  PROVE  \E f : /\ FlattenSeq(s) = f[Len(s)] /\ f[0] = <<>>
                /\ \A k \in 1 .. Len(s) : f[k] = f[k - 1] \o s[k]
<1> DEFINE n == Len(s)
           T == Seq(X)
           none == <<>>
           g == [k \in 1 .. n |-> [t \in T |-> t \o s[k]]]
           Eq(f) == f = [k \in 1 .. Len(s) |-> IF k = 1 THEN s[k] ELSE f[k - 1] \o s[k]]
<1>1. n \in Nat /\ none \in T /\ \A k \in 1 .. n : s[k] \in T
  OBVIOUS
<1>2. g \in [1 .. n -> [T -> T]]
  <2>1. \A k \in 1 .. n, t \in T : t \o s[k] \in T
    BY <1>1
  <2> HIDE DEF T, n
  <2> QED BY <2>1
<1>3. Steps(n, T, none, g)
  BY <1>1, <1>2 DEF Steps
<1> HIDE DEF n, none
<1>4. PICK f : Repeats(n, T, none, g, f)
  BY <1>3, Repeated
<1>5. f \in [0 .. n -> T] /\ f[0] = none /\ \A k \in 1 .. n : f[k] = f[k - 1] \o s[k]
  <2>1. f \in [0 .. n -> T] /\ f[0] = none /\ \A k \in 1 .. n : f[k] = g[k][f[k - 1]]
    BY <1>4 DEF Repeats
  <2>2. \A k \in 1 .. n : k - 1 \in 0 .. n
    BY <1>1
  <2> HIDE DEF T
  <2> QED BY <2>1, <2>2
<1>6. CASE n = 0
  <2>1. FlattenSeq(s) = s /\ s = none
    BY <1>6 DEF FlattenSeq, n, none
  <2> QED BY <1>5, <1>6, <2>1 DEF n, none
<1>7. CASE n # 0
  <2> DEFINE f1 == [k \in 1 .. Len(s) |-> f[k]]
  <2>1. 1 \in 1 .. n /\ f[1] = s[1]
    <3>1. 1 \in 1 .. n
      BY <1>1, <1>7
    <3>2. \A k \in 1 .. n : k = 1 => f[k] = f[0] \o s[k]
      <4> TAKE k \in 1 .. n
      <4> HAVE k = 1
      <4>1. k - 1 = 0
        OBVIOUS
      <4>2. f[k] = f[k - 1] \o s[k]
        BY <1>5
      <4> QED BY <4>1, <4>2
    <3>3. s[1] \in Seq(X)
      BY <3>1, <1>1
    <3> QED BY <3>1, <3>2, <3>3, <1>5, ConcatEmptySeq DEF none
  <2>2. Eq(f1)
    <3>1. \A k \in 1 .. Len(s) : f1[k] = IF k = 1 THEN s[k] ELSE f1[k - 1] \o s[k]
      <4> TAKE k \in 1 .. Len(s)
      <4>1. CASE k = 1
        BY <4>1, <2>1 DEF n
      <4>2. CASE k # 1
        <5>1. k - 1 \in 1 .. Len(s)
          BY <4>2, <1>1 DEF n
        <5> QED BY <4>2, <5>1, <1>5 DEF n
      <4> QED BY <4>1, <4>2
    <3> QED BY <3>1
  <2> HIDE DEF f1
  <2>3. PICK h : h = CHOOSE f2 : Eq(f2)
    OBVIOUS
  <2>4. Eq(h)
    BY <2>2, <2>3
  <2>5. FlattenSeq(s) = h[Len(s)]
    BY <1>7, <2>3 DEF FlattenSeq, n
  <2> DEFINE f0 == [k \in 0 .. n |-> IF k = 0 THEN <<>> ELSE h[k]]
  <2>6. f0[0] = <<>> /\ \A k \in 1 .. n : f0[k] = h[k]
    BY <1>1
  <2>7. \A k \in 1 .. n : f0[k] = f0[k - 1] \o s[k]
    <3> TAKE k \in 1 .. n
    <3>1. CASE k = 1
      <4>1. f0[k] = s[1]
        BY <3>1, <2>1, <2>4, <2>6 DEF n
      <4>2. s[1] \in Seq(X) /\ f0[k - 1] = <<>>
        BY <3>1, <1>1, <2>6
      <4> HIDE DEF f0
      <4> QED BY <3>1, <4>1, <4>2, ConcatEmptySeq
    <3>2. CASE k # 1
      <4>1. k - 1 \in 1 .. n
        BY <3>2, <1>1
      <4>2. h[k] = h[k - 1] \o s[k]
        BY <3>2, <2>4 DEF n
      <4> HIDE DEF f0
      <4> QED BY <4>1, <4>2, <2>6
    <3> QED BY <3>1, <3>2
  <2>8. f0[n] = FlattenSeq(s)
    BY <1>1, <1>7, <2>5, <2>6 DEF n
  <2> HIDE DEF f0
  <2> QED BY <2>6, <2>7, <2>8 DEF n
<1> QED BY <1>6, <1>7

\* A line of chunks that lie in c and cover it.
Cuts(b, c, cs) == Line(Chunk(b), cs) /\ Cover(cs) = Pages(c) /\ \A x \in Members(cs) : Within(x, c)

\* ss holds what each chunk of the line cs is cut into.
CutsEach(b, cs, ss) == /\ Line(Chunk(b), cs) /\ ss \in Seq(Seq(Chunk(b))) /\ Len(ss) = Len(cs)
                       /\ \A i \in 1 .. Len(cs) : Cuts(b, cs[i], ss[i])

\* Chunks in a line, each cut up, are a line again.
LEMMA FlattenLine ==
  ASSUME NEW b \in Book, NEW cs, NEW ss, CutsEach(b, cs, ss)
  PROVE  /\ Line(Chunk(b), FlattenSeq(ss)) /\ Cover(FlattenSeq(ss)) = Cover(cs)
         /\ \A x \in Members(FlattenSeq(ss)) : \E i \in DOMAIN cs : Within(x, cs[i])
<1> DEFINE n == Len(cs)
<1>0. /\ Line(Chunk(b), cs) /\ ss \in Seq(Seq(Chunk(b))) /\ Len(ss) = n
      /\ \A i \in 1 .. n : Cuts(b, cs[i], ss[i])
  BY DEF CutsEach
<1>1. /\ cs \in Seq(Chunk(b)) /\ n \in Nat /\ DOMAIN cs = 1 .. n
      /\ \A i \in 1 .. n : cs[i] \in Chunk(b)
  BY <1>0 DEF Line
<1>2. PICK f : /\ FlattenSeq(ss) = f[n] /\ f[0] = <<>>
               /\ \A k \in 1 .. n : f[k] = f[k - 1] \o ss[k]
  <2>1. \E f : /\ FlattenSeq(ss) = f[Len(ss)] /\ f[0] = <<>>
               /\ \A k \in 1 .. Len(ss) : f[k] = f[k - 1] \o ss[k]
    BY <1>0, Flattened
  <2> HIDE DEF n
  <2> QED BY <1>0, <2>1
<1> HIDE DEF n
<1> DEFINE P(k) == /\ Line(Chunk(b), f[k]) /\ Cover(f[k]) = UNION {Pages(cs[i]) : i \in 1 .. k}
                   /\ \A x \in Members(f[k]) : \E i \in 1 .. k : Within(x, cs[i])
           S == {k \in 0 .. n : ~P(k)}
<1>3. P(0)
  <2>1. 1 .. 0 = {}
    OBVIOUS
  <2> QED BY <1>2, <2>1, NoChunks
<1>4. ASSUME NEW k \in 1 .. n, P(k - 1) PROVE P(k)
  <2> DEFINE s == f[k - 1]
             t == ss[k]
  <2>1. /\ k \in Nat /\ cs[k] \in Chunk(b)
        /\ 1 .. k = (1 .. k - 1) \cup {k} /\ 1 .. k - 1 \subseteq 1 .. n
    BY <1>1
  <2>2. Line(Chunk(b), s) /\ Cover(s) = UNION {Pages(cs[i]) : i \in 1 .. k - 1}
    BY <1>4
  <2>3. Line(Chunk(b), t) /\ Cover(t) = Pages(cs[k]) /\ \A x \in Members(t) : Within(x, cs[k])
    BY <1>0 DEF Cuts
  <2>4. \A x \in Members(s) : \E i \in 1 .. k - 1 : Within(x, cs[i])
    BY <1>4
  <2>5. f[k] = s \o t
    BY <1>2
  <2> HIDE DEF s, t
  <2>6. Before(s, t)
    <3> SUFFICES ASSUME NEW i \in DOMAIN s, NEW j \in DOMAIN t PROVE s[i][2] < t[j][1]
      BY DEF Before
    <3>1. s[i] \in Members(s) /\ t[j] \in Members(t) /\ s[i] \in Chunk(b) /\ t[j] \in Chunk(b)
      BY <2>2, <2>3 DEF Members, Line
    <3>2. PICK m \in 1 .. k - 1 : Within(s[i], cs[m])
      BY <2>4, <3>1
    <3>3. cs[m][2] < cs[k][1]
      <4>1. m \in DOMAIN cs /\ k \in DOMAIN cs /\ m < k
        BY <1>1, <2>1
      <4> QED BY <1>0, <4>1 DEF Line, Ordered
    <3>4. Within(t[j], cs[k])
      BY <2>3, <3>1
    <3>5. cs[m] \in Chunk(b)
      BY <1>1, <2>1
    <3>6. /\ s[i][2] \in Int /\ t[j][1] \in Int /\ cs[m][2] \in Int /\ cs[k][1] \in Int
      BY <2>1, <3>1, <3>5, SelectionFacts
    <3> QED BY <3>2, <3>3, <3>4, <3>6 DEF Within
  <2>7. /\ Line(Chunk(b), s \o t) /\ Members(s \o t) = Members(s) \cup Members(t)
        /\ Cover(s \o t) = Cover(s) \cup Cover(t)
    BY <2>2, <2>3, <2>6, LinesJoin
  <2>8. Cover(s \o t) = UNION {Pages(cs[i]) : i \in 1 .. k}
    BY <2>1, <2>2, <2>3, <2>7
  <2>9. \A x \in Members(s \o t) : \E i \in 1 .. k : Within(x, cs[i])
    BY <2>1, <2>3, <2>4, <2>7
  <2> QED BY <2>5, <2>7, <2>8, <2>9
<1> HIDE DEF P
<1>5. S = {}
  <2> SUFFICES ASSUME S # {} PROVE FALSE
    OBVIOUS
  <2>1. S \subseteq Nat
    BY <1>1
  <2> HIDE DEF S
  <2>2. PICK m \in S : \A k \in S : m <= k
    BY <2>1, Least
  <2> USE DEF S
  <2>3. m \in 1 .. n /\ ~P(m)
    BY <1>1, <1>3, <2>2
  <2>4. m - 1 \notin S /\ m - 1 \in 0 .. n
    BY <1>1, <2>2, <2>3
  <2> QED BY <2>3, <2>4, <1>4
<1>6. P(n)
  BY <1>1, <1>5
<1>7. Cover(cs) = UNION {Pages(cs[i]) : i \in 1 .. n}
  BY <1>1 DEF Cover
<1> QED BY <1>1, <1>2, <1>6, <1>7 DEF P

\* ensure_chunk_under_limit cuts up a chunk and loses none of its pages.
LEMMA UnderLimitRecursion ==
  ASSUME NEW b \in Book
  PROVE  \A c \in Chunk(b) :
           UnderLimit(b)[c] = IF <<b, c[1], c[2]>> \in TooLarge /\ Size(c) > 1
                              THEN UnderLimit(b)[Halves(c)[1]] \o UnderLimit(b)[Halves(c)[2]]
                              ELSE <<c>>
<1> DEFINE Big(c) == <<b, c[1], c[2]>> \in TooLarge /\ Size(c) > 1
           Body(f, c) == IF Big(c) THEN f[Halves(c)[1]] \o f[Halves(c)[2]] ELSE <<c>>
           Eq(f) == f = [c \in Chunk(b) |-> Body(f, c)]
           P(n) == \E f : /\ f = [c \in Chunk(b) |-> f[c]]
                          /\ \A c \in Chunk(b) : Size(c) <= n => f[c] = Body(f, c)
           N == PageCount[b]
           S == {k \in 0 .. N : ~P(k)}
<1>1. N \in Nat /\ \A c \in Chunk(b) : Size(c) \in Int /\ 1 <= Size(c) /\ Size(c) <= N
  BY SelectionFacts DEF Size
<1>2. \A c \in Chunk(b) : Big(c) =>
        /\ Halves(c)[1] \in Chunk(b) /\ Size(Halves(c)[1]) < Size(c)
        /\ Halves(c)[2] \in Chunk(b) /\ Size(Halves(c)[2]) < Size(c)
  BY HalvesLine
<1> HIDE DEF Big, N
<1>3. P(0)
  <2> DEFINE f == [c \in Chunk(b) |-> <<c>>]
  <2>1. f = [c \in Chunk(b) |-> f[c]]
    OBVIOUS
  <2>2. \A c \in Chunk(b) : ~(Size(c) <= 0)
    BY <1>1
  <2> HIDE DEF f
  <2> QED BY <2>1, <2>2
<1>4. ASSUME NEW k \in 1 .. N, P(k - 1) PROVE P(k)
  <2>1. PICK f : /\ f = [c \in Chunk(b) |-> f[c]]
                 /\ \A c \in Chunk(b) : Size(c) <= k - 1 => f[c] = Body(f, c)
    BY <1>4
  <2> DEFINE g == [c \in Chunk(b) |-> Body(f, c)]
  <2>2. \A c \in Chunk(b) : g[c] = Body(f, c)
    OBVIOUS
  <2>3. \A c \in Chunk(b) : Size(c) <= k - 1 => g[c] = f[c]
    BY <2>1, <2>2
  <2>4. g = [c \in Chunk(b) |-> g[c]]
    OBVIOUS
  <2> HIDE DEF g
  <2>5. \A c \in Chunk(b) : Size(c) <= k => g[c] = Body(g, c)
    <3> TAKE c \in Chunk(b)
    <3> HAVE Size(c) <= k
    <3>1. CASE Big(c)
      <4> DEFINE l == Halves(c)[1]
                 r == Halves(c)[2]
      <4>1. l \in Chunk(b) /\ r \in Chunk(b) /\ Size(l) < Size(c) /\ Size(r) < Size(c)
        BY <3>1, <1>2
      <4>2. Size(l) <= k - 1 /\ Size(r) <= k - 1
        BY <4>1, <1>1
      <4>3. g[l] = f[l] /\ g[r] = f[r]
        BY <4>1, <4>2, <2>3
      <4> QED BY <4>3, <3>1, <2>2
    <3>2. CASE ~Big(c)
      BY <3>2, <2>2
    <3> QED BY <3>1, <3>2
  <2> QED BY <2>4, <2>5
<1> HIDE DEF P
<1>5. S = {}
  <2> SUFFICES ASSUME S # {} PROVE FALSE
    OBVIOUS
  <2>1. S \subseteq Nat
    BY <1>1
  <2> HIDE DEF S
  <2>2. PICK m \in S : \A k \in S : m <= k
    BY <2>1, Least
  <2> USE DEF S
  <2>3. m \in 1 .. N /\ ~P(m)
    BY <1>1, <1>3, <2>2
  <2>4. m - 1 \notin S /\ m - 1 \in 0 .. N
    BY <1>1, <2>2, <2>3
  <2> QED BY <2>3, <2>4, <1>4
<1>6. P(N)
  BY <1>1, <1>5
<1>7. PICK f : f = [c \in Chunk(b) |-> f[c]] /\ \A c \in Chunk(b) : f[c] = Body(f, c)
  BY <1>1, <1>6 DEF P
<1>8. Eq(f)
  BY <1>7
<1>9. PICK h : h = CHOOSE f1 : Eq(f1)
  OBVIOUS
<1>10. Eq(h)
  BY <1>8, <1>9
<1>11. UnderLimit(b) = h
  BY <1>9 DEF UnderLimit, Big
<1>12. \A c \in Chunk(b) : h[c] = Body(h, c)
  BY <1>10
<1> QED BY <1>11, <1>12 DEF Big

LEMMA UnderLimitCuts ==
  ASSUME NEW b \in Book
  PROVE  \A c \in Chunk(b) : Cuts(b, c, UnderLimit(b)[c])
<1> DEFINE u == UnderLimit(b)
           P(k) == \A c \in Chunk(b) : Size(c) <= k => Cuts(b, c, u[c])
           N == PageCount[b]
           S == {k \in 0 .. N : ~P(k)}
<1>1. N \in Nat /\ \A c \in Chunk(b) : Size(c) \in Int /\ 1 <= Size(c) /\ Size(c) <= N
  BY SelectionFacts DEF Size
<1>2. \A c \in Chunk(b) : u[c] = IF <<b, c[1], c[2]>> \in TooLarge /\ Size(c) > 1
                                 THEN u[Halves(c)[1]] \o u[Halves(c)[2]] ELSE <<c>>
  BY UnderLimitRecursion
<1> HIDE DEF u, N
<1>3. P(0)
  BY <1>1
<1>4. ASSUME NEW k \in 1 .. N, P(k - 1) PROVE P(k)
  <2> TAKE c \in Chunk(b)
  <2> HAVE Size(c) <= k
  <2>1. CASE Size(c) > 1 /\ <<b, c[1], c[2]>> \in TooLarge
    <3> DEFINE l == Halves(c)[1]
               r == Halves(c)[2]
    <3>1. /\ Line(Chunk(b), Halves(c)) /\ DOMAIN Halves(c) = {1, 2} /\ Cover(Halves(c)) = Pages(c)
          /\ \A i \in {1, 2} : /\ Halves(c)[i] \in Chunk(b) /\ Size(Halves(c)[i]) < Size(c)
                               /\ Within(Halves(c)[i], c)
          /\ l[2] < r[1]
      BY <2>1, HalvesLine
    <3>2. /\ l \in Chunk(b) /\ r \in Chunk(b) /\ Size(l) < Size(c) /\ Size(r) < Size(c)
          /\ Within(l, c) /\ Within(r, c) /\ Pages(l) \cup Pages(r) = Pages(c)
      BY <3>1 DEF Cover
    <3> HIDE DEF l, r
    <3>3. Size(l) <= k - 1 /\ Size(r) <= k - 1
      BY <3>2, <1>1
    <3>4. Cuts(b, l, u[l]) /\ Cuts(b, r, u[r])
      BY <3>2, <3>3, <1>4
    <3> DEFINE s == u[l]
               t == u[r]
    <3>5. u[c] = s \o t
      BY <1>2, <2>1 DEF l, r
    <3>6. /\ Line(Chunk(b), s) /\ Line(Chunk(b), t) /\ Cover(s) = Pages(l) /\ Cover(t) = Pages(r)
          /\ \A x \in Members(s) : x \in Chunk(b) /\ Within(x, l)
          /\ \A x \in Members(t) : x \in Chunk(b) /\ Within(x, r)
      <4>1. \A v : Line(Chunk(b), v) => \A x \in Members(v) : x \in Chunk(b)
        BY DEF Line, Members
      <4> QED BY <3>4, <4>1 DEF Cuts
    <3> HIDE DEF s, t
    <3>7. Before(s, t)
      <4> SUFFICES ASSUME NEW i \in DOMAIN s, NEW j \in DOMAIN t PROVE s[i][2] < t[j][1]
        BY DEF Before
      <4>1. s[i] \in Members(s) /\ t[j] \in Members(t)
        BY DEF Members
      <4>2. s[i] \in Chunk(b) /\ t[j] \in Chunk(b) /\ Within(s[i], l) /\ Within(t[j], r)
        BY <4>1, <3>6
      <4>3. s[i][2] \in Int /\ t[j][1] \in Int /\ l[2] \in Int /\ r[1] \in Int
        BY <4>2, <3>2, SelectionFacts
      <4>4. l[2] < r[1]
        BY <3>1 DEF l, r
      <4> QED BY <4>2, <4>3, <4>4 DEF Within
    <3>8. /\ Line(Chunk(b), s \o t) /\ Members(s \o t) = Members(s) \cup Members(t)
          /\ Cover(s \o t) = Cover(s) \cup Cover(t)
      BY <3>6, <3>7, LinesJoin
    <3>9. \A x \in Members(s \o t) : Within(x, c)
      <4> SUFFICES ASSUME NEW x \in Members(s \o t) PROVE Within(x, c)
        OBVIOUS
      <4>1. x \in Chunk(b) /\ (Within(x, l) \/ Within(x, r))
        BY <3>6, <3>8
      <4>2. /\ x[1] \in Int /\ x[2] \in Int /\ c[1] \in Int /\ c[2] \in Int
            /\ l[1] \in Int /\ l[2] \in Int /\ r[1] \in Int /\ r[2] \in Int
        BY <3>2, <4>1, SelectionFacts
      <4> QED BY <4>1, <4>2, <3>2 DEF Within
    <3> QED BY <3>2, <3>5, <3>6, <3>8, <3>9 DEF Cuts
  <2>2. CASE ~(Size(c) > 1 /\ <<b, c[1], c[2]>> \in TooLarge)
    <3>1. u[c] = <<c>>
      BY <1>2, <2>2
    <3>2. Line(Chunk(b), <<c>>) /\ Members(<<c>>) = {c} /\ Cover(<<c>>) = Pages(c)
      BY OneChunk
    <3>3. Within(c, c)
      BY SelectionFacts DEF Within
    <3> QED BY <3>1, <3>2, <3>3 DEF Cuts
  <2> QED BY <2>1, <2>2
<1> HIDE DEF P
<1>5. S = {}
  <2> SUFFICES ASSUME S # {} PROVE FALSE
    OBVIOUS
  <2>1. S \subseteq Nat
    BY <1>1
  <2> HIDE DEF S
  <2>2. PICK m \in S : \A k \in S : m <= k
    BY <2>1, Least
  <2> USE DEF S
  <2>3. m \in 1 .. N /\ ~P(m)
    BY <1>1, <1>3, <2>2
  <2>4. m - 1 \notin S /\ m - 1 \in 0 .. N
    BY <1>1, <2>2, <2>3
  <2> QED BY <2>3, <2>4, <1>4
<1>6. P(N)
  BY <1>1, <1>5
<1> QED BY <1>1, <1>6 DEF P, u

\* What is cut under the limit covers what was cut, in its order.
LEMMA SpecsLine ==
  ASSUME NEW b \in Book, NEW cs, Line(Chunk(b), cs)
  PROVE  /\ Line(Chunk(b), Specs(b, cs)) /\ Cover(Specs(b, cs)) = Cover(cs)
         /\ \A x \in Members(Specs(b, cs)) : \E i \in DOMAIN cs : Within(x, cs[i])
<1> DEFINE ss == [i \in DOMAIN cs |-> UnderLimit(b)[cs[i]]]
<1>1. cs \in Seq(Chunk(b)) /\ DOMAIN cs = 1 .. Len(cs) /\ \A i \in DOMAIN cs : cs[i] \in Chunk(b)
  BY DEF Line
<1>2. \A i \in 1 .. Len(cs) : ss[i] = UnderLimit(b)[cs[i]] /\ Cuts(b, cs[i], ss[i])
  BY <1>1, UnderLimitCuts
<1>3. \A i \in 1 .. Len(cs) : ss[i] \in Seq(Chunk(b))
  BY <1>2 DEF Cuts, Line
<1>4. ss \in Seq(Seq(Chunk(b))) /\ Len(ss) = Len(cs)
  BY <1>1, <1>3
<1>5. Specs(b, cs) = FlattenSeq(ss)
  BY DEF Specs
<1> HIDE DEF ss
<1>6. CutsEach(b, cs, ss)
  BY <1>2, <1>4 DEF CutsEach
<1> QED BY <1>5, <1>6, FlattenLine

LEMMA TopLine ==
  ASSUME NEW b \in Book
  PROVE  Line(Chunk(b), ChunkSpecs[b]) /\ Cover(ChunkSpecs[b]) = Range(Selection[b])
<1>1. ChunkSpecs[b] = Specs(b, PageChunks(Selection[b]))
  BY DEF ChunkSpecs
<1> QED BY <1>1, PageChunksLine, SpecsLine

LEMMA KidsLine ==
  ASSUME NEW b \in Book, NEW c \in Chunk(b), Size(c) > 1
  PROVE  /\ Line(Chunk(b), Kids(b, c)) /\ Cover(Kids(b, c)) = Pages(c)
         /\ \A x \in Members(Kids(b, c)) : x \in Chunk(b) /\ Within(x, c) /\ x # c
<1> DEFINE h == Halves(c)
           k == Kids(b, c)
<1>1. /\ Line(Chunk(b), h) /\ DOMAIN h = {1, 2} /\ Cover(h) = Pages(c)
      /\ \A i \in {1, 2} : h[i] \in Chunk(b) /\ Size(h[i]) < Size(c) /\ Within(h[i], c)
  BY HalvesLine
<1> HIDE DEF h
<1>2. /\ Line(Chunk(b), k) /\ Cover(k) = Cover(h)
      /\ \A x \in Members(k) : \E i \in DOMAIN h : Within(x, h[i])
  BY <1>1, SpecsLine DEF Kids, h
<1> HIDE DEF k
<1>3. ASSUME NEW x \in Members(k) PROVE x \in Chunk(b) /\ Within(x, c) /\ x # c
  <2>1. x \in Chunk(b)
    BY <1>2 DEF Line, Members
  <2>2. PICK i \in {1, 2} : Within(x, h[i])
    BY <1>1, <1>2
  <2>3. h[i] \in Chunk(b) /\ Size(h[i]) < Size(c) /\ Within(h[i], c)
    BY <1>1
  <2>4. /\ x[1] \in Int /\ x[2] \in Int /\ c[1] \in Int /\ c[2] \in Int
        /\ h[i][1] \in Int /\ h[i][2] \in Int
    BY <2>1, <2>3, SelectionFacts
  <2>5. Within(x, c)
    BY <2>2, <2>3, <2>4 DEF Within
  <2>6. Size(x) < Size(c)
    BY <2>2, <2>3, <2>4 DEF Within, Size
  <2>7. Size(c) \in Int
    BY <2>4 DEF Size
  <2>8. x # c
    BY <2>6, <2>7
  <2> QED BY <2>1, <2>5, <2>8
<1> QED BY <1>1, <1>2, <1>3 DEF k

\* FlattenSeq holds what the sequences hold.
LEMMA FlattenRange ==
  ASSUME NEW X, NEW ss \in Seq(Seq(X))
  PROVE  /\ FlattenSeq(ss) \in Seq(X)
         /\ Range(FlattenSeq(ss)) = UNION {Range(ss[i]) : i \in DOMAIN ss}
<1> DEFINE n == Len(ss)
<1>1. n \in Nat /\ DOMAIN ss = 1 .. n /\ \A i \in 1 .. n : ss[i] \in Seq(X)
  OBVIOUS
<1>2. PICK f : /\ FlattenSeq(ss) = f[n] /\ f[0] = <<>>
               /\ \A k \in 1 .. n : f[k] = f[k - 1] \o ss[k]
  BY Flattened
<1> HIDE DEF n
<1> DEFINE P(k) == f[k] \in Seq(X) /\ Range(f[k]) = UNION {Range(ss[i]) : i \in 1 .. k}
           S == {k \in 0 .. n : ~P(k)}
<1>3. P(0)
  <2>1. 1 .. 0 = {} /\ <<>> \in Seq(X) /\ Range(<<>>) = {}
    BY DEF Range
  <2> QED BY <1>2, <2>1
<1>4. ASSUME NEW k \in 1 .. n, P(k - 1) PROVE P(k)
  <2> DEFINE s == f[k - 1]
             t == ss[k]
  <2>1. 1 .. k = (1 .. k - 1) \cup {k}
    BY <1>1
  <2>2. /\ s \in Seq(X) /\ t \in Seq(X) /\ f[k] = s \o t
        /\ Range(s) = UNION {Range(ss[i]) : i \in 1 .. k - 1}
    BY <1>1, <1>2, <1>4
  <2>3. s \o t \in Seq(X) /\ Range(s \o t) = Range(s) \cup Range(t)
    BY <2>2, RangeConcatenation, ConcatProperties
  <2> QED BY <2>1, <2>2, <2>3
<1> HIDE DEF P
<1>5. S = {}
  <2> SUFFICES ASSUME S # {} PROVE FALSE
    OBVIOUS
  <2>1. S \subseteq Nat
    BY <1>1
  <2> HIDE DEF S
  <2>2. PICK m \in S : \A k \in S : m <= k
    BY <2>1, Least
  <2> USE DEF S
  <2>3. m \in 1 .. n /\ ~P(m)
    BY <1>1, <1>3, <2>2
  <2>4. m - 1 \notin S /\ m - 1 \in 0 .. n
    BY <1>1, <2>2, <2>3
  <2> QED BY <2>3, <2>4, <1>4
<1>6. P(n)
  BY <1>1, <1>5
<1> QED BY <1>1, <1>2, <1>6 DEF P

\* Two increasing sequences of the same numbers are equal.
LEMMA SameBeginning ==
  ASSUME NEW s \in Seq(Int), NEW t \in Seq(Int), Increasing(s), Increasing(t), Range(s) = Range(t),
         NEW m \in Nat \ {0}, m \in DOMAIN s, \A k \in 1 .. m - 1 : k \in DOMAIN t /\ s[k] = t[k]
  PROVE  m \in DOMAIN t /\ t[m] <= s[m]
<1>1. /\ DOMAIN s = 1 .. Len(s) /\ DOMAIN t = 1 .. Len(t) /\ Len(s) \in Nat /\ Len(t) \in Nat
      /\ \A i \in DOMAIN s : s[i] \in Int
      /\ \A i \in DOMAIN t : t[i] \in Int
  OBVIOUS
<1>2. PICK j \in DOMAIN t : t[j] = s[m]
  <2>1. s[m] \in Range(s)
    BY DEF Range
  <2> QED BY <2>1 DEF Range
<1>3. ~(j < m)
  <2> SUFFICES ASSUME j < m PROVE FALSE
    OBVIOUS
  <2>1. j \in 1 .. m - 1
    BY <1>1
  <2>2. s[j] = t[j] /\ j \in DOMAIN s
    BY <2>1, <1>1
  <2>3. s[j] < s[m]
    BY <2>2 DEF Increasing
  <2> QED BY <1>1, <1>2, <2>2, <2>3
<1>4. m <= j /\ m \in DOMAIN t
  BY <1>1, <1>3
<1>5. CASE j = m
  BY <1>1, <1>2, <1>4, <1>5
<1>6. CASE j # m
  <2>1. m < j
    BY <1>1, <1>4, <1>6
  <2>2. t[m] < t[j]
    BY <2>1, <1>4 DEF Increasing
  <2> QED BY <2>2, <1>1, <1>2, <1>4
<1> QED BY <1>5, <1>6

LEMMA IncreasingAgree ==
  ASSUME NEW s \in Seq(Int), NEW t \in Seq(Int), Increasing(s), Increasing(t), Range(s) = Range(t)
  PROVE  \A k \in DOMAIN s : k \in DOMAIN t /\ s[k] = t[k]
<1> DEFINE S == {k \in DOMAIN s : ~(k \in DOMAIN t /\ s[k] = t[k])}
<1>1. /\ DOMAIN s = 1 .. Len(s) /\ DOMAIN t = 1 .. Len(t) /\ Len(s) \in Nat /\ Len(t) \in Nat
      /\ \A i \in DOMAIN s : s[i] \in Int
      /\ \A i \in DOMAIN t : t[i] \in Int
  OBVIOUS
<1>2. S \subseteq Nat
  BY <1>1
<1>3. S = {}
  <2> SUFFICES ASSUME S # {} PROVE FALSE
    OBVIOUS
  <2> HIDE DEF S
  <2>1. PICK m \in S : \A k \in S : m <= k
    BY <1>2, Least
  <2> USE DEF S
  <2>2. m \in DOMAIN s /\ m \in Nat \ {0} /\ ~(m \in DOMAIN t /\ s[m] = t[m])
    BY <1>1, <2>1
  <2>3. \A k \in 1 .. m - 1 : k \in DOMAIN s /\ k \in DOMAIN t /\ s[k] = t[k]
    <3> TAKE k \in 1 .. m - 1
    <3>1. k \in DOMAIN s /\ ~(m <= k)
      BY <1>1, <2>2
    <3> QED BY <3>1, <2>1
  <2> HIDE DEF S
  <2>4. m \in DOMAIN t /\ t[m] <= s[m]
    BY <2>2, <2>3, SameBeginning
  <2>5. s[m] <= t[m]
    BY <2>2, <2>3, <2>4, SameBeginning
  <2> QED BY <1>1, <2>2, <2>4, <2>5
<1> QED BY <1>3

LEMMA IncreasingEqual ==
  ASSUME NEW s \in Seq(Int), NEW t \in Seq(Int), Increasing(s), Increasing(t), Range(s) = Range(t)
  PROVE  s = t
<1>1. /\ DOMAIN s = 1 .. Len(s) /\ DOMAIN t = 1 .. Len(t) /\ Len(s) \in Nat /\ Len(t) \in Nat
  OBVIOUS
<1>2. \A k \in DOMAIN s : k \in DOMAIN t /\ s[k] = t[k]
  BY IncreasingAgree
<1>3. \A k \in DOMAIN t : k \in DOMAIN s
  BY IncreasingAgree
<1>4. Len(s) = Len(t)
  <2>1. Len(s) <= Len(t)
    BY <1>1, <1>2
  <2>2. Len(t) <= Len(s)
    BY <1>1, <1>3
  <2> DEFINE m == Len(s)
             n == Len(t)
  <2>3. m \in Nat /\ n \in Nat /\ m <= n /\ n <= m
    BY <1>1, <2>1, <2>2
  <2> HIDE DEF m, n
  <2>4. m = n
    BY <2>3
  <2> QED BY <2>4 DEF m, n
<1>5. \A k \in 1 .. Len(s) : s[k] = t[k]
  BY <1>1, <1>2
<1> QED BY <1>4, <1>5, SeqEqual

-----------------------------------------------------------------------------
(* The inductive invariant.                                                   *)

Active == run.pc \in {"take", "record", "poll", "download", "written"}
AtJob == run.pc \in {"record", "poll", "download", "written"}
IsJobOf(j, b, c) == j \in DOMAIN jobs /\ jobs[j].book = b /\ jobs[j].chunk = c
Split(r, b, c) == r[b][c].st = "failed_split"

Row == [st : {"none", "submitted", "done", "failed_split"}, job : Nat]
Job == {j \in [book : Book, chunk : Nat \X Nat, model : Model, st : {"running", "done", "failed"},
               recorded : BOOLEAN, dropped : BOOLEAN] : j.chunk \in Chunk(j.book)}
Run == [pc : {"idle", "open", "take", "record", "poll", "download", "written"}, model : Model,
        book : Nat, left : Nat, pages : Nat, queue : Seq(Nat \X Nat), ready : Seq(Nat \X Nat),
        job : Nat, read : Nat, lost : Nat, inherited : BOOLEAN]

Types ==
  /\ DOMAIN row = Book /\ DOMAIN file = Book /\ DOMAIN doc = Book
  /\ \A b \in Book : /\ DOMAIN row[b] = Chunk(b) /\ DOMAIN file[b] = Chunk(b)
                     /\ \A c \in Chunk(b) : row[b][c] \in Row /\ file[b][c] \in Nat
  /\ jobs \in Seq(Job)
  /\ run \in Run
  /\ faults \in 0 .. FaultBound

\* What the row and the file of a chunk say of the jobs.
RowOK(b, c) ==
  LET r == row[b][c] IN
  /\ r.job # 0 => IsJobOf(r.job, b, c) /\ jobs[r.job].recorded
  /\ file[b][c] # 0 => IsJobOf(file[b][c], b, c)
  /\ r.st = "done" => r.job # 0 /\ file[b][c] = r.job
  /\ r.st = "submitted" => r.job # 0
  /\ r.st = "none" => r.job = 0
  /\ r.st = "failed_split" => Size(c) > 1 /\ (r.job # 0 => jobs[r.job].dropped)

\* What the run knows of the job in its hands.
AtHand ==
  /\ run.pc # "idle" => run.book \in Book
  /\ AtJob <=> run.job # 0
  /\ AtJob => /\ run.queue # <<>> /\ Size(c0) <= run.left
              /\ IsJobOf(run.job, run.book, c0)
  /\ run.pc = "record" =>
       /\ run.job = Len(jobs) /\ ~jobs[run.job].recorded /\ jobs[run.job].model = run.model
       /\ ~Split(row, run.book, c0)
       /\ TheRow.job # 0 => jobs[TheRow.job].model # run.model
  /\ run.pc \in {"poll", "download", "written"} =>
       /\ TheRow = [st |-> "submitted", job |-> run.job]
       /\ run.inherited \/ jobs[run.job].model = run.model
  /\ run.pc = "written" => file[run.book][c0] = run.job

\* The finished chunks and those to come are the pages asked for, in order, and what
\* was finished is of the model of the run unless a job was inherited.
Lined ==
  Active =>
    /\ Line(Chunk(run.book), run.ready) /\ Line(Chunk(run.book), run.queue)
    /\ Before(run.ready, run.queue)
    /\ Cover(run.ready) \cup Cover(run.queue) = Range(Selection[run.book])
    /\ run.inherited \/ \A c \in Members(run.ready) : Matches(file[run.book][c], run.model)

\* The pages that are left, and those that were read, make up the budget.
Budget ==
  IF run.pc = "idle" THEN run.left = 0 /\ run.read = 0 /\ run.lost = 0
  ELSE /\ run.left + run.read - run.lost = RunPages
       /\ run.read - run.lost >= IF Active THEN run.pages ELSE 0

\* The chunks of the table and of the queue lie on the tree of cuts.
Used(b) == {c \in Chunk(b) : row[b][c].st # "none" \/ \E j \in DOMAIN jobs : IsJobOf(j, b, c)}
Queued(b) == IF Active /\ b = run.book THEN Members(run.queue) ELSE {}
Under(r, b, d, c) == Within(d, c) /\ (d = c \/ Split(r, b, c))
OnTree(r, b, d) ==
  /\ \E t \in Members(ChunkSpecs[b]) : Under(r, b, d, t)
  /\ \A c \in Chunk(b) :
       Split(r, b, c) /\ Within(d, c) /\ d # c => \E h \in Members(Kids(b, c)) : Under(r, b, d, h)
Clear(r, U, b, q) == \A d \in U : \/ Apart(d, q) \/ Under(r, b, d, q)
                                  \/ (Within(q, d) /\ q # d /\ Split(r, b, d))
TreeOK == \A b \in Book : /\ \A d \in Used(b) \cup Queued(b) : OnTree(row, b, d)
                          /\ \A q \in Queued(b) : Clear(row, Used(b), b, q)

\* What became of a job that was written down.
Replaced(j) == \E i \in DOMAIN jobs : /\ jobs[i].recorded /\ j < i
                                      /\ IsJobOf(i, jobs[j].book, jobs[j].chunk)
                                      /\ jobs[i].model # jobs[j].model
Forgotten(j) == row[jobs[j].book][jobs[j].chunk] = [st |-> "failed_split", job |-> 0]
Followed == \A j \in DOMAIN jobs : jobs[j].recorded =>
              \/ row[jobs[j].book][jobs[j].chunk].job = j
              \/ jobs[j].dropped \/ Replaced(j) \/ Forgotten(j)

RowsOK == \A b \in Book : \A c \in Chunk(b) : RowOK(b, c)

PInv == /\ Types /\ RowsOK /\ AtHand /\ Lined /\ Budget
        /\ TreeOK /\ Followed /\ ConversionIsWhole /\ PaidOnce

-----------------------------------------------------------------------------
(* The invariant holds at first.                                              *)

LEMMA ConstantFacts ==
  /\ Model # {} /\ FaultBound \in Nat /\ RunPages \in Nat /\ JobPages \in Nat \ {0}
  /\ Book = 1 .. Len(PageCount) /\ Len(PageCount) \in Nat
  /\ Idle.model \in Model
<1>1. Model # {} /\ FaultBound \in Nat /\ RunPages \in Nat /\ JobPages \in Nat \ {0}
  BY RunsAreBounded, BudgetFits
<1>2. Book = 1 .. Len(PageCount) /\ Len(PageCount) \in Nat
  BY SelectionIncreases DEF Book
<1>3. (CHOOSE m \in Model : TRUE) \in Model
  BY <1>1
<1>4. Idle.model = CHOOSE m \in Model : TRUE
  BY DEF Idle
<1> QED BY <1>1, <1>2, <1>3, <1>4

LEMMA RunFields ==
  ASSUME run \in Run
  PROVE  /\ run.pc \in {"idle", "open", "take", "record", "poll", "download", "written"}
         /\ run.model \in Model /\ run.book \in Nat /\ run.left \in Nat /\ run.pages \in Nat
         /\ run.queue \in Seq(Nat \X Nat) /\ run.ready \in Seq(Nat \X Nat) /\ run.job \in Nat
         /\ run.read \in Nat /\ run.lost \in Nat /\ run.inherited \in BOOLEAN
BY DEF Run

LEMMA IdleRun ==
  /\ Idle \in Run /\ Idle.pc = "idle" /\ Idle.job = 0 /\ Idle.queue = <<>>
  /\ Idle.left = 0 /\ Idle.read = 0 /\ Idle.lost = 0
<1>1. <<>> \in Seq(Nat \X Nat)
  OBVIOUS
<1> QED BY <1>1, ConstantFacts DEF Idle, Run

LEMMA InitOK ==
  ASSUME Init
  PROVE  PInv
<1>1. Types
  <2>1. jobs \in Seq(Job)
    BY DEF Init
  <2>2. run \in Run /\ faults \in 0 .. FaultBound
    BY IdleRun, ConstantFacts DEF Init
  <2>3. NoRow \in Row
    BY DEF NoRow, Row
  <2> HIDE DEF NoRow
  <2>4. /\ DOMAIN row = Book /\ DOMAIN file = Book /\ DOMAIN doc = Book
        /\ \A b \in Book : /\ DOMAIN row[b] = Chunk(b) /\ DOMAIN file[b] = Chunk(b)
                           /\ \A c \in Chunk(b) : row[b][c] = NoRow /\ file[b][c] = 0
    BY DEF Init
  <2> QED BY <2>1, <2>2, <2>3, <2>4 DEF Types
<1>2. \A b \in Book : \A c \in Chunk(b) : row[b][c] = NoRow /\ file[b][c] = 0
  BY DEF Init
<1>3. DOMAIN jobs = {} /\ run = Idle
  BY DEF Init
<1>4. RowsOK
  BY <1>2 DEF RowsOK, RowOK, NoRow
<1>5. run.pc = "idle" /\ run.job = 0 /\ run.left = 0 /\ run.read = 0 /\ run.lost = 0
  BY <1>3, IdleRun
<1>6. AtHand /\ Lined /\ Budget
  BY <1>5 DEF AtHand, AtJob, Lined, Active, Budget
<1>7. TreeOK
  <2>1. \A b \in Book : Used(b) = {} /\ Queued(b) = {}
    BY <1>2, <1>3, <1>5 DEF Used, Queued, Active, IsJobOf, NoRow
  <2> QED BY <2>1 DEF TreeOK
<1>8. Followed /\ PaidOnce
  BY <1>3 DEF Followed, PaidOnce
<1>9. ConversionIsWhole
  BY DEF Init, ConversionIsWhole
<1> QED BY <1>1, <1>4, <1>6, <1>7, <1>8, <1>9 DEF PInv

-----------------------------------------------------------------------------
(* Steps of the run that leave the tables alone.                              *)

TablesStay == UNCHANGED <<row, file, jobs>>

LEMMA TablesKept ==
  ASSUME PInv, TablesStay, faults' = faults \/ Fault, run' \in Run,
         DOMAIN doc' = Book
  PROVE  /\ Types' /\ RowsOK' /\ Followed' /\ PaidOnce'
         /\ \A b \in Book : Used(b)' = Used(b)
<1>1. row' = row /\ file' = file /\ jobs' = jobs
  BY DEF TablesStay
<1>2. faults' \in 0 .. FaultBound
  BY ConstantFacts DEF PInv, Types, Fault
<1>3. Types'
  BY <1>1, <1>2 DEF PInv, Types
<1>4. RowsOK'
  BY <1>1 DEF PInv, RowsOK, RowOK, IsJobOf
<1>5. Followed'
  BY <1>1 DEF PInv, Followed, Replaced, Forgotten, IsJobOf
<1>6. PaidOnce'
  BY <1>1 DEF PInv, PaidOnce
<1>7. \A b \in Book : Used(b)' = Used(b)
  BY <1>1 DEF Used, IsJobOf
<1> QED BY <1>3, <1>4, <1>5, <1>6, <1>7

\* What is new in the queue lies on the tree and clear of the table.
LEMMA RunMoves ==
  ASSUME PInv, TablesStay, faults' = faults \/ Fault, run' \in Run,
         doc' = doc \/ (DOMAIN doc' = Book /\ ConversionIsWhole'),
         AtHand', Lined', Budget',
         \A b \in Book : \A q \in Queued(b)' :
            q \in Queued(b) \/ (OnTree(row, b, q) /\ Clear(row, Used(b), b, q))
  PROVE  PInv'
<1>1. DOMAIN doc' = Book
  BY DEF PInv, Types
<1>2. /\ Types' /\ RowsOK' /\ Followed' /\ PaidOnce' /\ \A b \in Book : Used(b)' = Used(b)
  BY <1>1, TablesKept
<1>3. row' = row
  BY DEF TablesStay
<1>4. \A b, d : (OnTree(row, b, d) <=> OnTree(row, b, d)')
  BY <1>3 DEF OnTree, Under, Split
<1>5. \A b \in Book : \A q : (Clear(row, Used(b), b, q) <=> Clear(row, Used(b), b, q)')
  BY <1>2, <1>3 DEF Clear, Under, Split
<1>6. TreeOK'
  <2> SUFFICES ASSUME NEW b \in Book
               PROVE  /\ \A d \in Used(b)' \cup Queued(b)' : OnTree(row, b, d)'
                      /\ \A q \in Queued(b)' : Clear(row, Used(b), b, q)'
    BY DEF TreeOK
  <2>1. \A d \in Used(b) \cup Queued(b) : OnTree(row, b, d)
    BY DEF PInv, TreeOK
  <2>2. \A q \in Queued(b) : Clear(row, Used(b), b, q)
    BY DEF PInv, TreeOK
  <2>3. \A d \in Used(b)' \cup Queued(b)' : OnTree(row, b, d)
    BY <1>2, <2>1
  <2>4. \A q \in Queued(b)' : Clear(row, Used(b), b, q)
    BY <2>2
  <2> QED BY <1>4, <1>5, <2>3, <2>4
<1>7. ConversionIsWhole'
  BY DEF PInv, ConversionIsWhole
<1> QED BY <1>2, <1>6, <1>7 DEF PInv

LEMMA RunRests ==
  ASSUME PInv, TablesStay, faults' = faults \/ Fault, run' \in Run,
         doc' = doc \/ (DOMAIN doc' = Book /\ ConversionIsWhole'),
         run'.pc \in {"idle", "open"}, run'.pc = "open" => run'.book \in Book, run'.job = 0,
         Budget'
  PROVE  PInv'
<1>1. AtHand' /\ Lined'
  BY DEF AtHand, AtJob, Lined, Active
<1>2. \A b \in Book : Queued(b)' = {}
  BY DEF Queued, Active
<1> QED BY <1>1, <1>2, RunMoves

LEMMA RunEndOK ==
  ASSUME run \in Run
  PROVE  /\ RunEnd \in Run /\ RunEnd.pc = "idle" /\ RunEnd.job = 0
         /\ RunEnd.left = 0 /\ RunEnd.read = 0 /\ RunEnd.lost = 0
<1>1. run.model \in Model
  BY RunFields
<1>2. /\ Idle \in Run /\ Idle.pc = "idle" /\ Idle.job = 0
      /\ Idle.left = 0 /\ Idle.read = 0 /\ Idle.lost = 0
  BY IdleRun
<1> QED BY <1>1, <1>2 DEF RunEnd, Run

LEMMA NextBookOK ==
  ASSUME run \in Run, NEW left \in Nat, NEW lost \in Nat
  PROVE  LET r == NextBook(left, lost) IN
         /\ r \in Run /\ r.job = 0
         /\ \/ r.pc = "idle" /\ r.left = 0 /\ r.read = 0 /\ r.lost = 0
            \/ /\ r.pc = "open" /\ r.book \in Book
               /\ r.left = left /\ r.lost = lost /\ r.read = run.read
<1>1. CASE run.book + 1 \in Book
  <2> DEFINE r == [run EXCEPT !.pc = "open", !.book = run.book + 1, !.left = left, !.lost = lost,
                              !.queue = <<>>, !.job = 0]
  <2>1. NextBook(left, lost) = r
    BY <1>1 DEF NextBook
  <2>2. run.book + 1 \in Nat /\ <<>> \in Seq(Nat \X Nat)
    BY RunFields
  <2>3. r \in Run
    BY <2>2 DEF Run
  <2>4. /\ r.job = 0 /\ r.pc = "open" /\ r.book = run.book + 1 /\ r.left = left /\ r.lost = lost
        /\ r.read = run.read
    BY DEF Run
  <2> HIDE DEF r
  <2> QED BY <1>1, <2>1, <2>3, <2>4
<1>2. CASE run.book + 1 \notin Book
  BY <1>2, RunEndOK DEF NextBook
<1> QED BY <1>1, <1>2

\* Going on to the next PDF, with the budget and what was lost of it.
LEMMA GoesOn ==
  ASSUME PInv, TablesStay, faults' = faults \/ Fault,
         doc' = doc \/ (DOMAIN doc' = Book /\ ConversionIsWhole'),
         run.pc # "idle", NEW more \in Nat, more <= run.pages, more = 0 \/ Active,
         run' = NextBook(run.left + more, run.lost + more)
  PROVE  PInv'
<1>1. run \in Run
  BY DEF PInv, Types
<1>2. run.left \in Nat /\ run.lost \in Nat /\ run.read \in Nat /\ run.pages \in Nat
  BY <1>1, RunFields
<1>3. run.left + more \in Nat /\ run.lost + more \in Nat
  BY <1>2
<1>4. /\ run' \in Run /\ run'.job = 0
      /\ \/ run'.pc = "idle" /\ run'.left = 0 /\ run'.read = 0 /\ run'.lost = 0
         \/ /\ run'.pc = "open" /\ run'.book \in Book /\ run'.left = run.left + more
            /\ run'.lost = run.lost + more /\ run'.read = run.read
  BY <1>1, <1>3, NextBookOK
<1>5. Budget'
  <2>1. CASE run'.pc = "idle"
    BY <2>1, <1>4 DEF Budget
  <2>2. CASE run'.pc = "open"
    <3>1. run.left + run.read - run.lost = RunPages
      BY DEF PInv, Budget
    <3>2. run.read - run.lost >= more
      <4>1. run.read - run.lost >= IF Active THEN run.pages ELSE 0
        BY DEF PInv, Budget
      <4> QED BY <4>1, <1>2
    <3>3. ~Active'
      BY <2>2 DEF Active
    <3>4. /\ run'.left = run.left + more /\ run'.lost = run.lost + more /\ run'.read = run.read
      BY <1>4, <2>2
    <3>5. RunPages \in Nat
      BY ConstantFacts
    <3>6. /\ run'.left + run'.read - run'.lost = RunPages /\ run'.read - run'.lost >= 0
      BY <1>2, <3>1, <3>2, <3>4, <3>5
    <3> QED BY <2>2, <3>3, <3>6 DEF Budget
  <2> QED BY <1>4, <2>1, <2>2
<1> QED BY <1>4, <1>5, RunRests

LEMMA EndsRun ==
  ASSUME PInv, TablesStay, faults' = faults \/ Fault, doc' = doc, run' = RunEnd
  PROVE  PInv'
<1>1. /\ run' \in Run /\ run'.pc = "idle" /\ run'.job = 0
      /\ run'.left = 0 /\ run'.read = 0 /\ run'.lost = 0
  BY RunEndOK DEF PInv, Types
<1>2. Budget'
  BY <1>1 DEF Budget
<1> QED BY <1>1, <1>2, RunRests

LEMMA StartRunOK ==
  ASSUME PInv, NEW m \in Model, StartRun(m)
  PROVE  PInv'
<1>1. TablesStay /\ doc' = doc /\ (faults' = faults \/ Fault)
  BY DEF StartRun, TablesStay
<1> DEFINE r == [Idle EXCEPT !.pc = "open", !.model = m, !.left = RunPages]
<1>2. run' = r
  BY DEF StartRun
<1>3. r \in Run
  BY IdleRun, ConstantFacts DEF Run
<1>4. /\ r.pc = "open" /\ r.left = RunPages /\ r.read = 0 /\ r.lost = 0 /\ r.job = 0 /\ r.book = 1
  BY DEF Idle
<1> HIDE DEF r
<1>5. 1 \in Book
  BY ConstantFacts DEF StartRun
<1>6. Budget'
  <2>1. ~Active'
    BY <1>2, <1>4 DEF Active
  <2> QED BY <1>2, <1>4, <2>1, ConstantFacts DEF Budget
<1> QED BY <1>1, <1>2, <1>3, <1>4, <1>5, <1>6, RunRests

LEMMA PassOverOK ==
  ASSUME PInv, PassOver
  PROVE  PInv'
<1>1. TablesStay /\ doc' = doc /\ faults' = faults /\ run.pc = "open"
  BY DEF PassOver, TablesStay, At
<1>2. run.left \in Nat /\ run.lost \in Nat /\ run.pages \in Nat
  BY RunFields DEF PInv, Types
<1>3. run' = NextBook(run.left + 0, run.lost + 0)
  BY <1>2 DEF PassOver
<1> QED BY <1>1, <1>2, <1>3, GoesOn

LEMMA AbandonOK ==
  ASSUME PInv, TablesStay, doc' = doc, faults' = faults \/ Fault, Active, Abandon
  PROVE  PInv'
<1>1. run.pages \in Nat /\ run.pc # "idle"
  BY RunFields DEF PInv, Types, Active
<1> QED BY <1>1, GoesOn DEF Abandon

LEMMA LeavesOK ==
  ASSUME PInv, Exhausted \/ Raise \/ DownloadFails \/ Stop \/ AssemblyRefused
  PROVE  PInv'
<1>1. TablesStay /\ doc' = doc
  BY DEF Exhausted, Raise, DownloadFails, Stop, AssemblyRefused, TablesStay
<1>2. CASE Exhausted
  BY <1>1, <1>2, EndsRun DEF Exhausted
<1>3. CASE Raise
  <2>1. Active /\ Abandon /\ (faults' = faults \/ Fault)
    BY <1>3 DEF Raise, JobFails, JobStalls, SubmitFails, Fresh, Takes, At, Active
  <2> QED BY <1>1, <2>1, AbandonOK
<1>4. CASE DownloadFails
  <2>1. Active /\ Abandon /\ Fault
    BY <1>4 DEF DownloadFails, At, Active
  <2> QED BY <1>1, <2>1, AbandonOK
<1>5. CASE Stop
  BY <1>1, <1>5, EndsRun DEF Stop
<1>6. CASE AssemblyRefused
  <2>1. Active /\ Abandon /\ faults' = faults
    BY <1>6 DEF AssemblyRefused, At, Active
  <2> QED BY <1>1, <2>1, AbandonOK
<1> QED BY <1>2, <1>3, <1>4, <1>5, <1>6

-----------------------------------------------------------------------------
(* The head of the queue.                                                     *)

LEMMA BeforeMembers ==
  ASSUME NEW s, NEW t
  PROVE  Before(s, t) <=> \A x \in Members(s), y \in Members(t) : x[2] < y[1]
BY DEF Before, Members

LEMMA HeadTaken ==
  ASSUME NEW b \in Book, NEW s, NEW q, Line(Chunk(b), s), Line(Chunk(b), q), Before(s, q), q # <<>>
  PROVE  LET s1 == Append(s, Head(q)) IN
         /\ Line(Chunk(b), s1) /\ Line(Chunk(b), Tail(q)) /\ Before(s1, Tail(q))
         /\ Cover(s1) \cup Cover(Tail(q)) = Cover(s) \cup Cover(q)
         /\ Members(s1) = Members(s) \cup {Head(q)}
<1> DEFINE c == Head(q)
           t == Tail(q)
           o == <<c>>
<1>1. /\ c \in Chunk(b) /\ Line(Chunk(b), t) /\ Members(q) = {c} \cup Members(t)
      /\ Cover(q) = Pages(c) \cup Cover(t) /\ \A i \in DOMAIN t : c[2] < t[i][1]
  BY LineTail
<1>2. Append(s, c) = s \o o
  BY <1>1, AppendIsConcat DEF Line
<1> HIDE DEF c, t
<1>3. Line(Chunk(b), o) /\ Members(o) = {c} /\ Cover(o) = Pages(c)
  BY <1>1, OneChunk
<1> HIDE DEF o
<1>4. \A x \in Members(s), y \in Members(q) : x[2] < y[1]
  BY BeforeMembers
<1>5. Before(s, o)
  BY <1>1, <1>3, <1>4, BeforeMembers
<1>6. /\ Line(Chunk(b), s \o o) /\ Members(s \o o) = Members(s) \cup Members(o)
      /\ Cover(s \o o) = Cover(s) \cup Cover(o)
  BY <1>3, <1>5, LinesJoin
<1>7. \A y \in Members(t) : c[2] < y[1]
  BY <1>1 DEF Members
<1>8. \A x \in Members(s \o o), y \in Members(t) : x[2] < y[1]
  BY <1>1, <1>3, <1>4, <1>6, <1>7
<1>9. Before(s \o o, t)
  BY <1>8, BeforeMembers
<1>10. /\ Line(Chunk(b), s \o o) /\ Line(Chunk(b), t) /\ Before(s \o o, t)
       /\ Cover(s \o o) \cup Cover(t) = Cover(s) \cup Cover(q)
       /\ Members(s \o o) = Members(s) \cup {c}
  BY <1>1, <1>3, <1>6, <1>9
<1> QED BY <1>2, <1>10 DEF c, t

\* The chunks k are what the head of the queue q is cut into, behind the chunks s.
CutsHead(b, s, q, k) ==
  /\ Line(Chunk(b), s) /\ Line(Chunk(b), q) /\ Line(Chunk(b), k)
  /\ Before(s, q) /\ q # <<>> /\ Cover(k) = Pages(Head(q))
  /\ \A x \in Members(k) : x \in Chunk(b) /\ Within(x, Head(q))

LEMMA HeadCut ==
  ASSUME NEW b \in Book, NEW s, NEW q, NEW k, CutsHead(b, s, q, k)
  PROVE  LET q1 == k \o Tail(q) IN
         /\ Line(Chunk(b), q1) /\ Before(s, q1) /\ Cover(q1) = Cover(q)
         /\ Members(q1) = Members(k) \cup Members(Tail(q))
<1> DEFINE c == Head(q)
           t == Tail(q)
<1>0. /\ Line(Chunk(b), s) /\ Line(Chunk(b), q) /\ Line(Chunk(b), k) /\ Before(s, q) /\ q # <<>>
  BY DEF CutsHead
<1>1. /\ c \in Chunk(b) /\ Line(Chunk(b), t) /\ Members(q) = {c} \cup Members(t)
      /\ Cover(q) = Pages(c) \cup Cover(t) /\ \A i \in DOMAIN t : c[2] < t[i][1]
  BY <1>0, LineTail
<1>2. \A x \in Members(k) : x \in Chunk(b) /\ Within(x, c)
  BY DEF CutsHead
<1>3. Cover(k) = Pages(c)
  BY DEF CutsHead
<1> HIDE DEF c, t
<1>4. /\ \A y \in Members(t) : c[2] < y[1] /\ y \in Chunk(b)
      /\ \A x \in Members(s) : x \in Chunk(b)
  BY <1>0, <1>1 DEF Members, Line
<1>5. ASSUME NEW x \in Members(k)
      PROVE  /\ \A y \in Members(t) : x[2] < y[1]
             /\ \A y \in Members(s) : y[2] < x[1]
  <2>1. x \in Chunk(b) /\ x[1] \in Int /\ x[2] \in Int /\ c[1] \in Int /\ c[2] \in Int
        /\ Within(x, c)
    BY <1>1, <1>2, <1>5, SelectionFacts
  <2>2. ASSUME NEW y \in Members(t) PROVE x[2] < y[1]
    <3>1. y[1] \in Int /\ c[2] < y[1]
      BY <1>4, SelectionFacts
    <3> QED BY <2>1, <3>1 DEF Within
  <2>3. ASSUME NEW y \in Members(s) PROVE y[2] < x[1]
    <3>1. y[2] \in Int /\ y[2] < c[1]
      BY <1>0, <1>1, <1>4, BeforeMembers, SelectionFacts
    <3> QED BY <2>1, <3>1 DEF Within
  <2> QED BY <2>2, <2>3
<1>6. Before(k, t)
  BY <1>5, BeforeMembers
<1>7. /\ Line(Chunk(b), k \o t) /\ Members(k \o t) = Members(k) \cup Members(t)
      /\ Cover(k \o t) = Cover(k) \cup Cover(t)
  BY <1>0, <1>1, <1>6, LinesJoin
<1>8. \A x \in Members(s), y \in Members(k \o t) : x[2] < y[1]
  BY <1>0, <1>1, <1>5, <1>7, BeforeMembers
<1>9. Before(s, k \o t)
  BY <1>8, BeforeMembers
<1> QED BY <1>1, <1>3, <1>7, <1>9 DEF c, t

LEMMA QueueAtHand ==
  ASSUME PInv, Active, run.queue # <<>>
  PROVE  /\ run.book \in Book /\ c0 \in Chunk(run.book)
         /\ Queued(run.book) = Members(run.queue)
         /\ Members(run.queue) = {c0} \cup Members(Tail(run.queue))
         /\ \A q \in Members(Tail(run.queue)) : q \in Chunk(run.book) /\ q # c0 /\ Apart(c0, q)
         /\ \A q \in Members(run.ready) : q \in Chunk(run.book) /\ q # c0
         /\ TheRow = row[run.book][c0] /\ TheRow \in Row /\ RowOK(run.book, c0)
         /\ OnTree(row, run.book, c0) /\ Clear(row, Used(run.book), run.book, c0)
<1> DEFINE b == run.book
<1>1. b \in Book
  BY DEF PInv, AtHand, Active
<1>2. /\ Line(Chunk(b), run.ready) /\ Line(Chunk(b), run.queue) /\ Before(run.ready, run.queue)
  BY DEF PInv, Lined
<1> HIDE DEF b
<1>3. /\ c0 \in Chunk(b) /\ Line(Chunk(b), Tail(run.queue))
      /\ Members(run.queue) = {c0} \cup Members(Tail(run.queue))
      /\ \A i \in DOMAIN Tail(run.queue) : c0[2] < Tail(run.queue)[i][1]
  BY <1>1, <1>2, LineTail DEF c0
<1>4. \A q \in Members(Tail(run.queue)) : q \in Chunk(b) /\ c0[2] < q[1]
  BY <1>3 DEF Members, Line
<1>5. \A q \in Members(Tail(run.queue)) : q # c0 /\ Apart(c0, q)
  BY <1>1, <1>3, <1>4, SelectionFacts DEF Apart
<1>6. \A q \in Members(run.ready) : q \in Chunk(b) /\ q[2] < c0[1]
  <2>1. \A q \in Members(run.ready) : q \in Chunk(b)
    BY <1>2 DEF Members, Line
  <2>2. \A q \in Members(run.ready) : q[2] < c0[1]
    BY <1>2, <1>3, BeforeMembers
  <2> QED BY <2>1, <2>2
<1>7. \A q \in Members(run.ready) : q # c0
  BY <1>1, <1>3, <1>6, SelectionFacts
<1>8. Queued(b) = Members(run.queue)
  BY DEF Queued, b
<1>9. TheRow = row[b][c0] /\ TheRow \in Row /\ RowOK(b, c0)
  BY <1>1, <1>3 DEF PInv, Types, RowsOK, TheRow, b
<1>10. OnTree(row, b, c0) /\ Clear(row, Used(b), b, c0)
  BY <1>1, <1>3, <1>8 DEF PInv, TreeOK
<1> QED BY <1>1, <1>3, <1>4, <1>5, <1>6, <1>7, <1>8, <1>9, <1>10 DEF b

LEMMA ChunksAreQueued ==
  ASSUME NEW b \in Book, NEW s, Line(Chunk(b), s)
  PROVE  s \in Seq(Nat \X Nat)
<1>1. s \in Seq(Chunk(b)) /\ Chunk(b) \subseteq Nat \X Nat
  BY SelectionFacts DEF Line, PagePairs
<1> QED BY <1>1, SeqMonotonic

LEMMA UseCachedOK ==
  ASSUME PInv, UseCached
  PROVE  PInv'
<1> DEFINE b == run.book
           t == Tail(run.queue)
           s == Append(run.ready, c0)
           r == [run EXCEPT !.queue = t, !.ready = s]
<1>1. /\ TablesStay /\ doc' = doc /\ faults' = faults /\ run' = r
      /\ run.pc = "take" /\ run.queue # <<>> /\ Active /\ run \in Run
      /\ Matches(file[b][c0], run.model)
  BY DEF UseCached, Takes, Reusable, TablesStay, At, Active, PInv, Types
<1>2. /\ b \in Book /\ Members(run.queue) = {c0} \cup Members(t)
      /\ Queued(b) = Members(run.queue)
  BY <1>1, QueueAtHand
<1>3. /\ Line(Chunk(b), run.ready) /\ Line(Chunk(b), run.queue) /\ Before(run.ready, run.queue)
      /\ Cover(run.ready) \cup Cover(run.queue) = Range(Selection[b])
      /\ run.inherited \/ \A c \in Members(run.ready) : Matches(file[b][c], run.model)
  BY <1>1 DEF PInv, Lined
<1> HIDE DEF b
<1>4. /\ Line(Chunk(b), s) /\ Line(Chunk(b), t) /\ Before(s, t)
      /\ Cover(s) \cup Cover(t) = Range(Selection[b])
      /\ Members(s) = Members(run.ready) \cup {c0}
  <2>1. c0 = Head(run.queue)
    BY DEF c0
  <2> QED BY <1>1, <1>2, <1>3, <2>1, HeadTaken
<1>5. s \in Seq(Nat \X Nat) /\ t \in Seq(Nat \X Nat)
  BY <1>2, <1>4, ChunksAreQueued
<1> HIDE DEF s, t
<1>6. /\ r \in Run /\ r.pc = run.pc /\ r.book = b /\ r.queue = t /\ r.ready = s /\ r.job = run.job
      /\ r.inherited = run.inherited /\ r.model = run.model
      /\ r.left = run.left /\ r.read = run.read /\ r.lost = run.lost /\ r.pages = run.pages
  BY <1>1, <1>5 DEF Run, b
<1> HIDE DEF r
<1>7. AtHand'
  BY <1>1, <1>2, <1>6 DEF PInv, AtHand, AtJob
<1>8. Lined'
  <2>1. file' = file /\ jobs' = jobs
    BY <1>1 DEF TablesStay
  <2>2. run.inherited \/ \A c \in Members(s) : Matches(file[b][c], run.model)
    BY <1>1, <1>3, <1>4 DEF b
  <2>3. run'.inherited \/ \A c \in Members(run'.ready) : Matches(file[run.book][c], run.model)'
    BY <1>1, <1>6, <2>1, <2>2 DEF Matches
  <2> QED BY <1>1, <1>4, <1>6, <2>1, <2>3 DEF Lined
<1>9. Budget'
  BY <1>1, <1>6 DEF PInv, Budget, Active
<1>10. \A d \in Book : \A q \in Queued(d)' : q \in Queued(d)
  BY <1>1, <1>2, <1>6 DEF Queued, Active
<1> QED BY <1>1, <1>6, <1>7, <1>8, <1>9, <1>10, RunMoves

\* A step of the run that keeps its chunks.
LEMMA RunKeepsChunks ==
  ASSUME PInv, TablesStay, doc' = doc, faults' = faults \/ Fault, Active, Active', run' \in Run,
         AtHand', run'.book = run.book, run'.queue = run.queue, run'.ready = run.ready,
         run'.model = run.model, run'.inherited \in BOOLEAN, run.inherited => run'.inherited,
         run'.left = run.left, run'.read = run.read, run'.lost = run.lost, run'.pages = run.pages
  PROVE  PInv'
<1>1. file' = file /\ jobs' = jobs
  BY DEF TablesStay
<1>2. Lined'
  BY <1>1 DEF PInv, Lined, Matches
<1>3. Budget'
  BY DEF PInv, Budget, Active
<1>4. \A b \in Book : \A q \in Queued(b)' : q \in Queued(b)
  BY DEF Queued
<1> QED BY <1>2, <1>3, <1>4, RunMoves

LEMMA ResumeOK ==
  ASSUME PInv, Resume
  PROVE  PInv'
<1> DEFINE b == run.book
           j == TheRow.job
           more == run.inherited \/ jobs[KnownRow.job].model # run.model
           r == [run EXCEPT !.pc = "poll", !.job = KnownRow.job, !.inherited = more]
<1>1. /\ TablesStay /\ doc' = doc /\ faults' = faults /\ run' = r
      /\ run.pc = "take" /\ run.queue # <<>> /\ Active /\ run \in Run
      /\ KnownRow.st # "failed_split" /\ KnownRow.job # 0 /\ Size(c0) <= run.left
  BY DEF Resume, Takes, TablesStay, At, Active, PInv, Types
<1>2. /\ b \in Book /\ c0 \in Chunk(b) /\ TheRow = row[b][c0] /\ TheRow \in Row /\ RowOK(b, c0)
  BY <1>1, QueueAtHand
<1>3. ~IsCached /\ KnownRow = TheRow
  BY <1>1 DEF KnownRow, NoRow
<1>4. j \in Nat /\ j # 0 /\ TheRow.st # "failed_split" /\ IsJobOf(j, b, c0)
      /\ TheRow.st \in {"none", "submitted", "done", "failed_split"}
  BY <1>1, <1>2, <1>3 DEF Row, RowOK
<1>5. TheRow.st = "submitted"
  BY <1>2, <1>3, <1>4 DEF RowOK, IsCached
<1>6. TheRow = [st |-> "submitted", job |-> j]
  BY <1>2, <1>5 DEF Row
<1>7. more \in BOOLEAN /\ (run.inherited => more) /\ (more \/ jobs[j].model = run.model)
  BY <1>1, <1>3, RunFields
<1> HIDE DEF more, b, j
<1>8. /\ r \in Run /\ r.pc = "poll" /\ r.job = j /\ r.inherited = more
      /\ r.book = run.book /\ r.queue = run.queue /\ r.ready = run.ready /\ r.model = run.model
      /\ r.left = run.left /\ r.read = run.read /\ r.lost = run.lost /\ r.pages = run.pages
  BY <1>1, <1>3, <1>4, <1>7 DEF Run, j
<1> HIDE DEF r
<1>9. c0' = c0 /\ TheRow' = TheRow
  <2>1. row' = row
    BY <1>1 DEF TablesStay
  <2> QED BY <1>1, <1>8, <2>1 DEF c0, TheRow
<1>10. AtHand'
  <2>1. jobs' = jobs
    BY <1>1 DEF TablesStay
  <2>2. run'.pc = "poll" /\ run'.job = j /\ run'.book = b /\ run'.queue = run.queue
        /\ run'.left = run.left /\ run'.model = run.model /\ run'.inherited = more
    BY <1>1, <1>8 DEF b
  <2>3. AtJob' /\ run'.job # 0 /\ run'.book \in Book
    BY <1>2, <1>4, <2>2 DEF AtJob
  <2>4. Size(c0)' <= run'.left
    BY <1>1, <1>9, <2>2 DEF Size
  <2>5. IsJobOf(run.job, run.book, c0)'
    BY <1>4, <1>9, <2>1, <2>2 DEF IsJobOf
  <2> QED BY <1>1, <1>6, <1>7, <1>9, <2>1, <2>2, <2>3, <2>4, <2>5 DEF AtHand
<1>11. Active'
  BY <1>1, <1>8 DEF Active
<1> QED BY <1>1, <1>7, <1>8, <1>10, <1>11, RunKeepsChunks

LEMMA PolledOK ==
  ASSUME PInv, Polled
  PROVE  PInv'
<1> DEFINE r == [run EXCEPT !.pc = "download"]
<1>1. /\ TablesStay /\ doc' = doc /\ faults' = faults /\ run' = r
      /\ run.pc = "poll" /\ Active /\ run \in Run
  BY DEF Polled, TablesStay, At, Active, PInv, Types
<1>2. /\ r \in Run /\ r.pc = "download" /\ r.job = run.job /\ r.inherited = run.inherited
      /\ r.book = run.book /\ r.queue = run.queue /\ r.ready = run.ready /\ r.model = run.model
      /\ r.left = run.left /\ r.read = run.read /\ r.lost = run.lost /\ r.pages = run.pages
  BY <1>1 DEF Run
<1> HIDE DEF r
<1>3. row' = row /\ jobs' = jobs /\ file' = file
  BY <1>1 DEF TablesStay
<1>4. c0' = c0 /\ TheRow' = TheRow
  BY <1>1, <1>2, <1>3 DEF c0, TheRow
<1>5. AtHand'
  <2>1. /\ run.book \in Book /\ run.job # 0 /\ run.queue # <<>> /\ Size(c0) <= run.left
        /\ IsJobOf(run.job, run.book, c0) /\ TheRow = [st |-> "submitted", job |-> run.job]
        /\ run.inherited \/ jobs[run.job].model = run.model
    BY <1>1 DEF PInv, AtHand, AtJob
  <2>2. IsJobOf(run.job, run.book, c0)' /\ Size(c0)' <= run'.left
    BY <1>1, <1>2, <1>3, <1>4, <2>1 DEF IsJobOf, Size
  <2> QED BY <1>1, <1>2, <1>3, <1>4, <2>1, <2>2 DEF AtHand, AtJob
<1>6. Active'
  BY <1>1, <1>2 DEF Active
<1>7. run.inherited \in BOOLEAN
  BY <1>1, RunFields
<1> QED BY <1>1, <1>2, <1>5, <1>6, <1>7, RunKeepsChunks

-----------------------------------------------------------------------------
(* The tree of cuts.                                                          *)

LEMMA Intervals ==
  ASSUME NEW b \in Book, NEW c \in Chunk(b), NEW d \in Chunk(b), NEW e \in Chunk(b)
  PROVE  /\ Within(c, c)
         /\ Within(e, d) /\ Within(d, c) => Within(e, c)
         /\ Within(d, c) /\ Within(c, d) => c = d
         /\ Within(d, c) /\ Apart(c, e) => Apart(d, e)
         /\ Within(e, d) /\ Within(e, c) => ~Apart(d, c)
         /\ Apart(c, d) => Apart(d, c) /\ c # d
<1>1. /\ c[1] \in Nat /\ c[2] \in Nat /\ c[1] <= c[2] /\ c = <<c[1], c[2]>>
      /\ d[1] \in Nat /\ d[2] \in Nat /\ d[1] <= d[2] /\ d = <<d[1], d[2]>>
      /\ e[1] \in Nat /\ e[2] \in Nat /\ e[1] <= e[2]
  BY SelectionFacts
<1>2. Within(d, c) /\ Within(c, d) => c = d
  <2>1. Within(d, c) /\ Within(c, d) => c[1] = d[1] /\ c[2] = d[2]
    BY <1>1 DEF Within
  <2> QED BY <1>1, <2>1
<1>3. /\ Within(c, c)
      /\ Within(e, d) /\ Within(d, c) => Within(e, c)
      /\ Within(d, c) /\ Apart(c, e) => Apart(d, e)
      /\ Within(e, d) /\ Within(e, c) => ~Apart(d, c)
  BY <1>1 DEF Within, Apart
<1>4. Apart(c, d) => Apart(d, c) /\ c # d
  <2>1. Apart(c, d) => c[1] # d[1]
    BY <1>1 DEF Apart
  <2> QED BY <2>1 DEF Apart
<1> QED BY <1>2, <1>3, <1>4

\* The chunks in use, U, are on the tree, and those that were cut up are in use.
Grown(r, U, b) == /\ U \subseteq Chunk(b) /\ \A d \in U : OnTree(r, b, d)
                  /\ \A c \in Chunk(b) : Split(r, b, c) => c \in U

LEMMA TopOnTree ==
  ASSUME NEW b \in Book, NEW r, NEW U, Grown(r, U, b), NEW q \in Members(ChunkSpecs[b])
  PROVE  OnTree(r, b, q) /\ Clear(r, U, b, q)
<1> DEFINE T == Members(ChunkSpecs[b])
<1>1. \A t \in T : t \in Chunk(b)
  BY TopLine DEF Line, Members
<1>2. \A t \in T : t = q \/ Apart(t, q)
  BY TopLine, LineApart
<1> HIDE DEF T
<1>3. q \in Chunk(b) /\ q \in T
  BY <1>1 DEF T
<1>4. ASSUME NEW d \in U PROVE \E t \in T : Under(r, b, d, t) /\ Within(d, t) /\ d \in Chunk(b)
  BY <1>4 DEF Grown, OnTree, Under, T
<1>5. Under(r, b, q, q)
  BY <1>3, Intervals DEF Under
<1>6. ASSUME NEW c \in Chunk(b), Split(r, b, c), Within(q, c), q # c PROVE FALSE
  <2>1. PICK t \in T : Within(c, t)
    BY <1>4, <1>6 DEF Grown
  <2>2. t \in Chunk(b) /\ Within(q, t)
    BY <1>1, <1>3, <1>6, <2>1, Intervals
  <2>3. ~Apart(t, q)
    BY <1>3, <2>2, Intervals
  <2>4. t = q
    BY <1>2, <2>3
  <2> QED BY <1>3, <1>6, <2>1, <2>4, Intervals
<1>7. OnTree(r, b, q)
  BY <1>3, <1>5, <1>6 DEF OnTree, T
<1>8. ASSUME NEW d \in U PROVE Apart(d, q) \/ Under(r, b, d, q)
  <2>1. PICK t \in T : Under(r, b, d, t) /\ Within(d, t) /\ d \in Chunk(b)
    BY <1>4
  <2>2. CASE t = q
    BY <2>1, <2>2
  <2>3. CASE Apart(t, q)
    BY <1>1, <1>3, <2>1, <2>3, Intervals
  <2> QED BY <1>2, <2>2, <2>3
<1> QED BY <1>7, <1>8 DEF Clear

LEMMA KidOnTree ==
  ASSUME NEW b \in Book, NEW r, NEW U, Grown(r, U, b),
         NEW c \in Chunk(b), Size(c) > 1, Split(r, b, c), OnTree(r, b, c), Clear(r, U, b, c),
         NEW q \in Members(Kids(b, c))
  PROVE  OnTree(r, b, q) /\ Clear(r, U, b, q)
<1> DEFINE K == Members(Kids(b, c))
<1>1. \A k \in K : k \in Chunk(b) /\ Within(k, c) /\ k # c
  BY KidsLine
<1>2. \A k \in K : k = q \/ Apart(k, q)
  BY KidsLine, LineApart
<1> HIDE DEF K
<1>3. q \in K /\ q \in Chunk(b) /\ Within(q, c) /\ q # c
  BY <1>1 DEF K
<1>4. PICK t \in Members(ChunkSpecs[b]) : Under(r, b, c, t)
  BY DEF OnTree
<1>5. t \in Chunk(b)
  BY TopLine DEF Line, Members
<1>6. Under(r, b, q, t)
  BY <1>3, <1>4, <1>5, Intervals DEF Under
\* A chunk in use below c is below one of the halves.
<1>7. ASSUME NEW d \in U, Within(d, c), d # c PROVE \E k \in K : Under(r, b, d, k)
  <2>1. OnTree(r, b, d)
    BY DEF Grown
  <2> QED BY <1>7, <2>1 DEF OnTree, K
<1>8. ASSUME NEW e \in Chunk(b), Split(r, b, e), Within(q, e), q # e
      PROVE  \E h \in Members(Kids(b, e)) : Under(r, b, q, h)
  <2>1. e \in U
    BY <1>8 DEF Grown
  <2>2. ~Apart(e, c)
    BY <1>3, <1>8, Intervals
  <2>3. Under(r, b, e, c) \/ (Within(c, e) /\ c # e)
    BY <2>1, <2>2 DEF Clear
  <2>4. CASE e = c
    <3>1. Under(r, b, q, q)
      BY <1>3, Intervals DEF Under
    <3> QED BY <1>3, <2>4, <3>1 DEF K
  <2>5. CASE Within(e, c) /\ e # c
    <3>1. PICK k \in K : Under(r, b, e, k)
      BY <1>7, <2>1, <2>5
    <3>2. k \in Chunk(b) /\ Within(e, k)
      BY <1>1, <3>1 DEF Under
    <3>3. Within(q, k)
      BY <1>3, <1>8, <3>2, Intervals
    <3>4. ~Apart(k, q)
      BY <1>3, <3>2, <3>3, Intervals
    <3>5. k = q
      BY <1>2, <3>4
    <3> QED BY <1>3, <1>8, <3>2, <3>5, Intervals
  <2>6. CASE Within(c, e) /\ c # e
    <3>1. PICK h \in Members(Kids(b, e)) : Under(r, b, c, h)
      BY <1>8, <2>6 DEF OnTree
    <3>2. Size(e) > 1
      <4>1. /\ c[1] \in Nat /\ c[2] \in Nat /\ c[1] <= c[2] /\ c = <<c[1], c[2]>>
            /\ e[1] \in Nat /\ e[2] \in Nat /\ e = <<e[1], e[2]>>
        BY SelectionFacts
      <4>2. c[1] # e[1] \/ c[2] # e[2]
        BY <2>6, <4>1
      <4> QED BY <2>6, <4>1, <4>2 DEF Within, Size
    <3>3. h \in Chunk(b)
      BY <3>2, KidsLine
    <3>4. Within(q, h)
      BY <1>3, <3>1, <3>3, Intervals DEF Under
    <3>5. Split(r, b, h)
      BY <3>1 DEF Under
    <3> QED BY <3>1, <3>4, <3>5 DEF Under
  <2> QED BY <2>3, <2>4, <2>5, <2>6 DEF Under
<1>9. OnTree(r, b, q)
  BY <1>4, <1>6, <1>8 DEF OnTree
<1>10. ASSUME NEW d \in U
       PROVE  Apart(d, q) \/ Under(r, b, d, q) \/ (Within(q, d) /\ q # d /\ Split(r, b, d))
  <2>1. d \in Chunk(b)
    BY DEF Grown
  <2>2. Apart(d, c) \/ Under(r, b, d, c) \/ (Within(c, d) /\ c # d /\ Split(r, b, d))
    BY DEF Clear
  <2>3. CASE Apart(d, c)
    BY <1>3, <2>1, <2>3, Intervals
  <2>4. CASE d = c
    BY <1>3, <2>4
  <2>5. CASE Within(d, c) /\ d # c
    <3>1. PICK k \in K : Under(r, b, d, k)
      BY <1>7, <2>5
    <3>2. k \in Chunk(b) /\ Within(d, k)
      BY <1>1, <3>1 DEF Under
    <3>3. CASE k = q
      BY <3>1, <3>3
    <3>4. CASE Apart(k, q)
      BY <1>3, <2>1, <3>2, <3>4, Intervals
    <3> QED BY <1>2, <3>3, <3>4
  <2>6. CASE Within(c, d) /\ c # d /\ Split(r, b, d)
    <3>1. Within(q, d)
      BY <1>3, <2>1, <2>6, Intervals
    <3>2. q # d
      BY <1>3, <2>1, <2>6, Intervals
    <3> QED BY <2>6, <3>1, <3>2
  <2> QED BY <2>2, <2>3, <2>4, <2>5, <2>6 DEF Under
<1> QED BY <1>9, <1>10 DEF Clear

LEMMA TreeHasGrown ==
  ASSUME PInv, NEW b \in Book
  PROVE  Grown(row, Used(b), b)
<1>1. \A c \in Chunk(b) : Split(row, b, c) => c \in Used(b)
  BY DEF Split, Used
<1> QED BY <1>1 DEF Grown, PInv, TreeOK, Used

LEMMA OpenOK ==
  ASSUME PInv, Open
  PROVE  PInv'
<1> DEFINE b == run.book
           q == ChunkSpecs[b]
           r == [run EXCEPT !.pc = "take", !.ready = <<>>, !.pages = 0, !.inherited = FALSE,
                            !.queue = q]
<1>1. /\ TablesStay /\ doc' = doc /\ faults' = faults /\ run' = r
      /\ run.pc = "open" /\ run \in Run
  BY DEF Open, TablesStay, At, PInv, Types
<1>2. b \in Book /\ run.job = 0
  BY <1>1 DEF PInv, AtHand, AtJob
<1>3. Line(Chunk(b), q) /\ Cover(q) = Range(Selection[b]) /\ Members(q) = Members(ChunkSpecs[b])
  BY <1>2, TopLine
<1>4. q \in Seq(Nat \X Nat) /\ <<>> \in Seq(Nat \X Nat)
  BY <1>2, <1>3, ChunksAreQueued
<1> HIDE DEF b, q
<1>5. /\ r \in Run /\ r.pc = "take" /\ r.book = b /\ r.queue = q /\ r.ready = <<>> /\ r.job = 0
      /\ r.left = run.left /\ r.read = run.read /\ r.lost = run.lost /\ r.pages = 0
  BY <1>1, <1>2, <1>4 DEF Run, b
<1> HIDE DEF r
<1>6. AtHand'
  BY <1>1, <1>2, <1>5 DEF AtHand, AtJob
<1>7. Lined'
  <2>1. Line(Chunk(b), <<>>) /\ Members(<<>>) = {} /\ Cover(<<>>) = {}
    BY NoChunks
  <2>2. Before(<<>>, q)
    BY <2>1, BeforeMembers
  <2>3. \A c \in Members(run'.ready) : Matches(file[run.book][c], run.model)'
    BY <1>1, <1>5, <2>1
  <2> QED BY <1>1, <1>3, <1>5, <2>1, <2>2, <2>3 DEF Lined
<1>8. Budget'
  BY <1>1, <1>5 DEF PInv, Budget, Active
<1>9. \A d \in Book : \A c \in Queued(d)' : OnTree(row, d, c) /\ Clear(row, Used(d), d, c)
  <2> SUFFICES ASSUME NEW d \in Book, NEW c \in Queued(d)'
               PROVE  OnTree(row, d, c) /\ Clear(row, Used(d), d, c)
    OBVIOUS
  <2>1. d = b /\ c \in Members(ChunkSpecs[d])
    BY <1>1, <1>3, <1>5 DEF Queued
  <2>2. Grown(row, Used(d), d)
    BY TreeHasGrown
  <2> QED BY <2>1, <2>2, TopOnTree
<1> QED BY <1>1, <1>5, <1>6, <1>7, <1>8, <1>9, RunMoves

\* The halves of the chunk at the head take its place.
LEMMA HalvesTakePlace ==
  ASSUME PInv, Active, run.queue # <<>>, Size(c0) > 1
  PROVE  LET b == run.book IN
         /\ Line(Chunk(b), InHalves) /\ Before(run.ready, InHalves)
         /\ Cover(run.ready) \cup Cover(InHalves) = Range(Selection[b])
         /\ InHalves \in Seq(Nat \X Nat)
         /\ Members(InHalves) = Members(Kids(b, c0)) \cup Members(Tail(run.queue))
<1> DEFINE b == run.book
           k == Kids(b, c0)
<1>1. b \in Book /\ c0 \in Chunk(b) /\ c0 = Head(run.queue)
  BY QueueAtHand DEF c0
<1>2. /\ Line(Chunk(b), run.ready) /\ Line(Chunk(b), run.queue) /\ Before(run.ready, run.queue)
      /\ Cover(run.ready) \cup Cover(run.queue) = Range(Selection[b])
  BY DEF PInv, Lined
<1>3. /\ Line(Chunk(b), k) /\ Cover(k) = Pages(c0)
      /\ \A x \in Members(k) : x \in Chunk(b) /\ Within(x, c0)
  BY <1>1, KidsLine
<1>4. InHalves = k \o Tail(run.queue)
  BY DEF InHalves, Kids
<1> DEFINE q == run.queue
           ready == run.ready
<1>5. CutsHead(b, ready, q, k)
  BY <1>1, <1>2, <1>3 DEF CutsHead
<1> HIDE DEF b, k, q, ready
<1>6. /\ Line(Chunk(b), k \o Tail(q)) /\ Before(ready, k \o Tail(q))
      /\ Cover(k \o Tail(q)) = Cover(q)
      /\ Members(k \o Tail(q)) = Members(k) \cup Members(Tail(q))
  BY <1>1, <1>5, HeadCut
<1>7. /\ Line(Chunk(b), InHalves) /\ Before(run.ready, InHalves)
      /\ Cover(InHalves) = Cover(run.queue)
      /\ Members(InHalves) = Members(k) \cup Members(Tail(run.queue))
  BY <1>4, <1>6 DEF q, ready
<1>8. InHalves \in Seq(Nat \X Nat)
  BY <1>1, <1>7, ChunksAreQueued
<1> QED BY <1>2, <1>7, <1>8 DEF b, k

LEMMA SplitAgainOK ==
  ASSUME PInv, SplitAgain
  PROVE  PInv'
<1> DEFINE b == run.book
           q == InHalves
           r == [run EXCEPT !.queue = q]
<1>1. /\ TablesStay /\ doc' = doc /\ faults' = faults /\ run' = r
      /\ run.pc = "take" /\ run.queue # <<>> /\ Active /\ run \in Run
      /\ KnownRow.st = "failed_split"
  BY DEF SplitAgain, Takes, TablesStay, At, Active, PInv, Types
<1>2. /\ b \in Book /\ c0 \in Chunk(b) /\ TheRow = row[b][c0] /\ RowOK(b, c0)
      /\ OnTree(row, b, c0) /\ Clear(row, Used(b), b, c0)
      /\ Queued(b) = Members(run.queue) /\ Members(run.queue) = {c0} \cup Members(Tail(run.queue))
  BY <1>1, QueueAtHand
<1>3. Split(row, b, c0) /\ Size(c0) > 1
  <2>1. TheRow.st = "failed_split"
    BY <1>1 DEF KnownRow, NoRow
  <2> QED BY <1>2, <2>1 DEF RowOK, Split
<1>4. /\ Line(Chunk(b), q) /\ Before(run.ready, q)
      /\ Cover(run.ready) \cup Cover(q) = Range(Selection[b])
      /\ q \in Seq(Nat \X Nat)
      /\ Members(q) = Members(Kids(b, c0)) \cup Members(Tail(run.queue))
  BY <1>1, <1>3, HalvesTakePlace
<1> HIDE DEF b, q
<1>5. /\ r \in Run /\ r.pc = run.pc /\ r.book = run.book /\ r.queue = q /\ r.ready = run.ready
      /\ r.job = run.job /\ r.inherited = run.inherited /\ r.model = run.model
      /\ r.left = run.left /\ r.read = run.read /\ r.lost = run.lost /\ r.pages = run.pages
  BY <1>1, <1>4 DEF Run
<1> HIDE DEF r
<1>6. AtHand'
  BY <1>1, <1>5 DEF PInv, AtHand, AtJob
<1>7. Lined'
  <2>1. file' = file /\ jobs' = jobs
    BY <1>1 DEF TablesStay
  <2>2. /\ Line(Chunk(run.book), run.ready)
        /\ run.inherited \/ \A c \in Members(run.ready) : Matches(file[run.book][c], run.model)
    BY <1>1 DEF PInv, Lined
  <2>3. run'.inherited \/ \A c \in Members(run'.ready) : Matches(file[run.book][c], run.model)'
    BY <1>1, <1>5, <2>1, <2>2 DEF Matches
  <2> QED BY <1>1, <1>4, <1>5, <2>2, <2>3 DEF Lined, b
<1>8. Budget'
  BY <1>1, <1>5 DEF PInv, Budget, Active
<1>9. \A d \in Book : \A c \in Queued(d)' :
        c \in Queued(d) \/ (OnTree(row, d, c) /\ Clear(row, Used(d), d, c))
  <2> SUFFICES ASSUME NEW d \in Book, NEW c \in Queued(d)', c \notin Queued(d)
               PROVE  OnTree(row, d, c) /\ Clear(row, Used(d), d, c)
    OBVIOUS
  <2>1. d = b /\ c \in Members(q)
    BY <1>1, <1>5 DEF Queued, b
  <2>2. c \in Members(Kids(b, c0))
    BY <1>2, <1>4, <2>1
  <2>3. Grown(row, Used(b), b)
    BY <1>2, TreeHasGrown
  <2> QED BY <1>2, <1>3, <2>1, <2>2, <2>3, KidOnTree
<1> QED BY <1>1, <1>5, <1>6, <1>7, <1>8, <1>9, RunMoves

\* A result holds the pages of its chunk, one after the other.
LEMMA EntriesOfChunk ==
  ASSUME PInv, NEW b \in Book, NEW c \in Chunk(b), NEW m, Matches(file[b][c], m)
  PROVE  Entries(file[b][c], m) \in Seq(Int) /\ Range(Entries(file[b][c], m)) = Pages(c)
<1> DEFINE n == Size(c)
           s == [i \in 1 .. n |-> c[1] + i - 1]
<1>1. IsJobOf(file[b][c], b, c)
  BY DEF PInv, RowsOK, RowOK, Matches
<1>2. Entries(file[b][c], m) = s
  BY <1>1 DEF Entries, IsJobOf
<1>3. c[1] \in Nat /\ c[2] \in Nat /\ c[1] <= c[2] /\ n = c[2] - c[1] + 1
  BY SelectionFacts DEF Size
<1> HIDE DEF n
<1>4. n \in Nat /\ s \in Seq(Int) /\ DOMAIN s = 1 .. n /\ \A i \in 1 .. n : s[i] = c[1] + i - 1
  <2>1. n \in Nat /\ DOMAIN s = 1 .. n /\ \A i \in 1 .. n : s[i] = c[1] + i - 1
    BY <1>3
  <2>2. \A i \in 1 .. n : s[i] \in Int
    BY <1>3, <2>1
  <2>3. s = [i \in 1 .. n |-> s[i]]
    OBVIOUS
  <2> HIDE DEF s
  <2>4. s \in Seq(Int)
    BY <2>1, <2>2, <2>3
  <2> QED BY <2>1, <2>4
<1> HIDE DEF s
<1>5. Range(s) = Pages(c)
  <2>1. \A x \in Range(s) : x \in Pages(c)
    BY <1>3, <1>4 DEF Range, Pages
  <2>2. ASSUME NEW x \in Pages(c) PROVE x \in Range(s)
    <3> DEFINE i == x - c[1] + 1
    <3>1. x \in Int /\ c[1] <= x /\ x <= c[2]
      BY <1>3, <2>2 DEF Pages
    <3>2. i \in 1 .. n /\ c[1] + i - 1 = x
      BY <1>3, <3>1
    <3> HIDE DEF i
    <3>3. s[i] = x
      BY <1>4, <3>2
    <3> QED BY <1>4, <3>2, <3>3 DEF Range
  <2> QED BY <2>1, <2>2
<1> QED BY <1>2, <1>4, <1>5

LEMMA AssembledIsWhole ==
  ASSUME PInv, run.pc = "take", run.queue = <<>>, Covers(Assembled), ~run.inherited
  PROVE  Assembled = Selection[run.book]
<1> DEFINE b == run.book
           ready == run.ready
           ss == [i \in DOMAIN ready |-> Entries(file[b][ready[i]], run.model)]
<1>1. b \in Book
  BY DEF PInv, AtHand
<1>2. /\ Line(Chunk(b), ready) /\ Cover(ready) = Range(Selection[b])
      /\ \A c \in Members(ready) : Matches(file[b][c], run.model)
  <2>1. Active /\ Cover(run.queue) = {}
    BY NoChunks DEF Active
  <2> QED BY <2>1 DEF PInv, Lined
<1>3. Assembled = FlattenSeq(ss)
  BY DEF Assembled
<1> HIDE DEF b, ready
<1>4. ready \in Seq(Chunk(b)) /\ DOMAIN ready = 1 .. Len(ready) /\ Len(ready) \in Nat
  BY <1>2 DEF Line
<1>5. \A i \in DOMAIN ready : ss[i] \in Seq(Int) /\ Range(ss[i]) = Pages(ready[i])
  <2> TAKE i \in DOMAIN ready
  <2>1. ready[i] \in Chunk(b) /\ Matches(file[b][ready[i]], run.model)
    BY <1>2, <1>4 DEF Members
  <2> QED BY <1>1, <2>1, EntriesOfChunk
<1>6. ss \in Seq(Seq(Int)) /\ DOMAIN ss = DOMAIN ready
  BY <1>4, <1>5
<1> HIDE DEF ss
<1>7. FlattenSeq(ss) \in Seq(Int) /\ Range(FlattenSeq(ss)) = UNION {Range(ss[i]) : i \in DOMAIN ss}
  BY <1>6, FlattenRange
<1>8. UNION {Range(ss[i]) : i \in DOMAIN ss} = Cover(ready)
  BY <1>5, <1>6 DEF Cover
<1>9. Increasing(FlattenSeq(ss))
  BY <1>3 DEF Covers, Increasing
<1>10. Selection[b] \in Seq(Int) /\ Increasing(Selection[b])
  <2>1. Selection[b] \in Seq(1 .. PageCount[b]) /\ PageCount[b] \in Nat
    BY <1>1, SelectionIncreases, SelectionFacts DEF Book
  <2>2. 1 .. PageCount[b] \subseteq Int
    BY <2>1
  <2>3. Increasing(Selection[b])
    BY <1>1, SelectionIncreases DEF Book, Increasing
  <2> QED BY <2>1, <2>2, <2>3, SeqMonotonic
<1>11. FlattenSeq(ss) = Selection[b]
  BY <1>2, <1>7, <1>8, <1>9, <1>10, IncreasingEqual
<1> QED BY <1>3, <1>11 DEF b

LEMMA AssembleOK ==
  ASSUME PInv, Assemble
  PROVE  PInv'
<1>1. /\ TablesStay /\ faults' = faults /\ run.pc = "take" /\ run.queue = <<>> /\ Covers(Assembled)
      /\ doc' = [doc EXCEPT ![run.book] = [pages |-> Assembled, model |-> run.model,
                                           inherited |-> run.inherited]]
      /\ run' = NextBook(run.left, run.lost) /\ DOMAIN doc = Book /\ run \in Run
  BY DEF Assemble, TablesStay, At, PInv, Types
<1>2. run.left \in Nat /\ run.lost \in Nat /\ run.pages \in Nat /\ run.inherited \in BOOLEAN
  BY <1>1, RunFields
<1>3. run' = NextBook(run.left + 0, run.lost + 0)
  BY <1>1, <1>2
<1>4. run.inherited \/ Assembled = Selection[run.book]
  BY <1>1, AssembledIsWhole
<1>5. DOMAIN doc' = Book
  BY <1>1
<1>6. ConversionIsWhole'
  <2> SUFFICES ASSUME NEW b \in Book
               PROVE  doc'[b].pages \in {<<>>, Selection[b]} \/ doc'[b].inherited
    BY DEF ConversionIsWhole
  <2>1. CASE b = run.book
    <3>1. doc'[b].pages = Assembled /\ doc'[b].inherited = run.inherited
      BY <1>1, <2>1
    <3> QED BY <1>4, <2>1, <3>1
  <2>2. CASE b # run.book
    <3>1. doc'[b] = doc[b]
      BY <1>1, <2>2
    <3> QED BY <3>1 DEF PInv, ConversionIsWhole
  <2> QED BY <2>1, <2>2
<1> QED BY <1>1, <1>2, <1>3, <1>5, <1>6, GoesOn

-----------------------------------------------------------------------------
(* Steps of the service and of the run that touch the jobs.                   *)

LEMMA JobsFacts ==
  ASSUME jobs \in Seq(Job)
  PROVE  /\ DOMAIN jobs = 1 .. Len(jobs) /\ Len(jobs) \in Nat
         /\ \A j \in DOMAIN jobs : /\ j \in Nat /\ j # 0 /\ j <= Len(jobs) /\ jobs[j] \in Job
                                   /\ jobs[j].book \in Book /\ jobs[j].chunk \in Chunk(jobs[j].book)
<1>1. DOMAIN jobs = 1 .. Len(jobs) /\ Len(jobs) \in Nat /\ \A j \in DOMAIN jobs : jobs[j] \in Job
  OBVIOUS
<1>2. \A x \in Job : x.book \in Book /\ x.chunk \in Chunk(x.book)
  BY DEF Job
<1> QED BY <1>1, <1>2

LEMMA JobChanged ==
  ASSUME jobs \in Seq(Job), NEW j \in DOMAIN jobs, NEW e \in Job, jobs' = [jobs EXCEPT ![j] = e]
  PROVE  /\ jobs' \in Seq(Job) /\ DOMAIN jobs' = DOMAIN jobs /\ Len(jobs') = Len(jobs)
         /\ jobs'[j] = e /\ \A i \in DOMAIN jobs : i # j => jobs'[i] = jobs[i]
<1>1. j \in 1 .. Len(jobs) /\ DOMAIN jobs = 1 .. Len(jobs)
  OBVIOUS
<1>2. /\ jobs' \in Seq(Job) /\ Len(jobs') = Len(jobs)
      /\ \A i \in 1 .. Len(jobs) : jobs'[i] = IF i = j THEN e ELSE jobs[i]
  BY <1>1, ExceptSeq
<1>3. DOMAIN jobs' = 1 .. Len(jobs)
  BY <1>2
<1> QED BY <1>1, <1>2, <1>3

\* Two jobs for the same page of the same model, both written down, and what excuses it.
Meet(i, j) == jobs[i].book = jobs[j].book /\ Pages(jobs[i].chunk) \cap Pages(jobs[j].chunk) # {}
Again(j, k) == /\ jobs[j].recorded /\ jobs[k].recorded /\ j < k
               /\ Meet(j, k) /\ jobs[j].model = jobs[k].model
Between(j, k) == \E i \in DOMAIN jobs : /\ jobs[i].recorded /\ j < i /\ i < k
                                        /\ Meet(i, k) /\ jobs[i].model # jobs[k].model
Excused(j, k) == jobs[j].dropped \/ Forgotten(j) \/ Between(j, k)

LEMMA PaidOnceMeans == PaidOnce <=> \A j, k \in DOMAIN jobs : Again(j, k) => Excused(j, k)
<1> DEFINE R == {j \in DOMAIN jobs : jobs[j].recorded}
           E(j, k) == \/ jobs[j].dropped
                      \/ row[jobs[j].book][jobs[j].chunk] = [st |-> "failed_split", job |-> 0]
                      \/ \E i \in R : j < i /\ i < k /\ Meet(i, k) /\ jobs[i].model # jobs[k].model
<1>1. PaidOnce <=> \A j, k \in R : j < k /\ Meet(j, k) /\ jobs[j].model = jobs[k].model => E(j, k)
  BY DEF PaidOnce, Meet
<1>2. \A j, k : E(j, k) <=> Excused(j, k)
  BY DEF Excused, Between, Forgotten
<1>3. \A j : j \in R <=> j \in DOMAIN jobs /\ jobs[j].recorded
  OBVIOUS
<1> HIDE DEF R, E
<1> QED BY <1>1, <1>2, <1>3 DEF Again

LEMMA PaidOnceThen == PaidOnce' <=> \A j, k \in DOMAIN jobs' : Again(j, k)' => Excused(j, k)'
<1> DEFINE P == \A j, k \in DOMAIN jobs : Again(j, k) => Excused(j, k)
<1>1. PaidOnce <=> P
  BY PaidOnceMeans
<1>2. PaidOnce' <=> P'
  <2> HIDE DEF P
  <2> QED BY <1>1, PTL
<1> QED BY <1>2 DEF P

\* A job is never taken back, and what it is for never changes.
JobsGo == \A j \in DOMAIN jobs :
            /\ j \in DOMAIN jobs'
            /\ jobs'[j].book = jobs[j].book /\ jobs'[j].chunk = jobs[j].chunk
            /\ jobs'[j].model = jobs[j].model
            /\ jobs[j].recorded => jobs'[j].recorded
            /\ jobs[j].dropped => jobs'[j].dropped

LEMMA JobsKept ==
  ASSUME JobsGo
  PROVE  /\ \A j, b, c : IsJobOf(j, b, c) => IsJobOf(j, b, c)'
         /\ \A j \in DOMAIN jobs : Replaced(j) => Replaced(j)'
         /\ \A m : \A j \in DOMAIN jobs : Matches(j, m) => Matches(j, m)'
         /\ \A j, k \in DOMAIN jobs : Meet(j, k) <=> Meet(j, k)'
         /\ \A j, k \in DOMAIN jobs : Between(j, k) => Between(j, k)'
<1>1. \A j, b, c : IsJobOf(j, b, c) => IsJobOf(j, b, c)'
  BY DEF JobsGo, IsJobOf
<1>2. ASSUME NEW j \in DOMAIN jobs, Replaced(j) PROVE Replaced(j)'
  <2>1. PICK i \in DOMAIN jobs : /\ jobs[i].recorded /\ j < i
                                 /\ IsJobOf(i, jobs[j].book, jobs[j].chunk)
                                 /\ jobs[i].model # jobs[j].model
    BY <1>2 DEF Replaced
  <2>2. IsJobOf(i, jobs[j].book, jobs[j].chunk)'
    BY <1>1, <2>1 DEF JobsGo, IsJobOf
  <2> QED BY <2>1, <2>2 DEF Replaced, JobsGo
<1>3. \A m : \A j \in DOMAIN jobs : Matches(j, m) => Matches(j, m)'
  BY DEF JobsGo, Matches
<1>4. \A j, k \in DOMAIN jobs : Meet(j, k) <=> Meet(j, k)'
  BY DEF JobsGo, Meet
<1>5. ASSUME NEW j \in DOMAIN jobs, NEW k \in DOMAIN jobs, Between(j, k) PROVE Between(j, k)'
  <2>1. PICK i \in DOMAIN jobs : /\ jobs[i].recorded /\ j < i /\ i < k
                                 /\ Meet(i, k) /\ jobs[i].model # jobs[k].model
    BY <1>5 DEF Between
  <2>2. Meet(i, k)'
    BY <1>4, <2>1
  <2> QED BY <2>1, <2>2 DEF Between, JobsGo
<1> QED BY <1>1, <1>2, <1>3, <1>4, <1>5

\* A row and a file that stay are as right as they were.
LEMMA RowKept ==
  ASSUME JobsGo, NEW b, NEW c, RowOK(b, c),
         row'[b][c] = row[b][c], file'[b][c] = file[b][c]
  PROVE  RowOK(b, c)'
<1>1. \A j : IsJobOf(j, b, c) => /\ IsJobOf(j, b, c)' /\ j \in DOMAIN jobs
                                 /\ jobs[j].recorded => jobs'[j].recorded
                                 /\ jobs[j].dropped => jobs'[j].dropped
  BY DEF JobsGo, IsJobOf
<1> QED BY <1>1 DEF RowOK

NoneRecorded == \A j \in DOMAIN jobs' : jobs'[j].recorded => j \in DOMAIN jobs /\ jobs[j].recorded
ForgottenStay == \A j \in DOMAIN jobs : Forgotten(j) => Forgotten(j)'

\* As long as no job is written down, and none that was forgotten is remembered.
LEMMA PaidOnceKept ==
  ASSUME PInv, JobsGo, NoneRecorded, ForgottenStay
  PROVE  PaidOnce'
<1> SUFFICES ASSUME NEW j \in DOMAIN jobs', NEW k \in DOMAIN jobs', Again(j, k)'
             PROVE  Excused(j, k)'
  BY PaidOnceThen
<1>1. j \in DOMAIN jobs /\ k \in DOMAIN jobs /\ jobs[j].recorded /\ jobs[k].recorded
  BY DEF Again, NoneRecorded
<1>2. Again(j, k)
  BY <1>1, JobsKept DEF Again, JobsGo
<1>3. Excused(j, k)
  BY <1>1, <1>2, PaidOnceMeans DEF PInv
<1>4. Between(j, k) => Between(j, k)'
  BY <1>1, JobsKept
<1> QED BY <1>1, <1>3, <1>4 DEF Excused, ForgottenStay, JobsGo

LEMMA FollowedKept ==
  ASSUME PInv, JobsGo, NoneRecorded, ForgottenStay,
         \A j \in DOMAIN jobs : row[jobs[j].book][jobs[j].chunk].job = j =>
            row'[jobs[j].book][jobs[j].chunk].job = j \/ jobs'[j].dropped \/ Forgotten(j)'
  PROVE  Followed'
<1> SUFFICES ASSUME NEW j \in DOMAIN jobs', jobs'[j].recorded
             PROVE  \/ row'[jobs'[j].book][jobs'[j].chunk].job = j
                    \/ jobs'[j].dropped \/ Replaced(j)' \/ Forgotten(j)'
  BY DEF Followed
<1>1. j \in DOMAIN jobs /\ jobs[j].recorded
  BY DEF NoneRecorded
<1>2. \/ row[jobs[j].book][jobs[j].chunk].job = j
      \/ jobs[j].dropped \/ Replaced(j) \/ Forgotten(j)
  BY <1>1 DEF PInv, Followed
<1>3. Replaced(j) => Replaced(j)'
  BY <1>1, JobsKept
<1> QED BY <1>1, <1>2, <1>3 DEF ForgottenStay, JobsGo

\* The chunks of the run, and what was finished of them, stand as they stood.
LEMMA LinedKept ==
  ASSUME PInv, JobsGo, Active, run'.book = run.book, run'.queue = run.queue,
         run'.ready = run.ready, run'.model = run.model, run'.inherited = run.inherited,
         \A c \in Members(run.ready) : file'[run.book][c] = file[run.book][c]
  PROVE  Lined'
<1> DEFINE b == run.book
           m == run.model
<1>1. /\ Line(Chunk(b), run.ready) /\ Line(Chunk(b), run.queue) /\ b \in Book
      /\ Before(run.ready, run.queue)
      /\ Cover(run.ready) \cup Cover(run.queue) = Range(Selection[b])
      /\ run.inherited \/ \A c \in Members(run.ready) : Matches(file[b][c], m)
  BY DEF PInv, Lined, AtHand, Active
<1> HIDE DEF b, m
<1>2. ASSUME NEW c \in Members(run.ready), Matches(file[b][c], m)
      PROVE  Matches(file[b][c], m)'
  <2>1. c \in Chunk(b)
    BY <1>1 DEF Line, Members
  <2>2. RowOK(b, c)
    BY <1>1, <2>1 DEF PInv, RowsOK
  <2> DEFINE f == file[b][c]
  <2>3. f \in DOMAIN jobs
    BY <1>2, <2>2 DEF RowOK, IsJobOf, Matches
  <2>4. file'[b'][c] = f
    BY DEF b
  <2>5. m' = m
    BY DEF m
  <2>6. f # 0 /\ jobs[f].model = m
    BY <1>2 DEF Matches
  <2> HIDE DEF f
  <2>7. jobs'[f].model = m
    BY <2>3, <2>6 DEF JobsGo
  <2> QED BY <2>4, <2>5, <2>6, <2>7 DEF Matches
<1>3. b' = b /\ m' = m
  BY DEF b, m
<1>4. run'.inherited \/ \A c \in Members(run'.ready) : Matches(file[b][c], m)'
  BY <1>1, <1>2
<1> QED BY <1>1, <1>3, <1>4 DEF Lined, b, m

\* The state of a job is all that Baidu changes.
LEMMA JobsStay ==
  ASSUME PInv, UNCHANGED <<row, file, doc, run>>, faults' = faults \/ Fault,
         jobs' \in Seq(Job), DOMAIN jobs' = DOMAIN jobs, Len(jobs') = Len(jobs),
         \A j \in DOMAIN jobs :
           /\ jobs'[j].book = jobs[j].book /\ jobs'[j].chunk = jobs[j].chunk
           /\ jobs'[j].model = jobs[j].model
           /\ jobs'[j].recorded = jobs[j].recorded /\ jobs'[j].dropped = jobs[j].dropped
  PROVE  PInv'
<1>1. row' = row /\ file' = file /\ doc' = doc /\ run' = run
  OBVIOUS
<1>2. faults' \in 0 .. FaultBound
  BY ConstantFacts DEF PInv, Types, Fault
<1>3. Types'
  BY <1>1, <1>2 DEF PInv, Types
<1>4. JobsGo /\ NoneRecorded /\ ForgottenStay
  BY <1>1 DEF JobsGo, NoneRecorded, ForgottenStay, Forgotten
<1>5. RowsOK'
  BY <1>1, <1>4, RowKept DEF PInv, RowsOK
<1>6. AtHand'
  <2>1. \A j, b, c : IsJobOf(j, b, c) =>
          /\ IsJobOf(j, b, c)' /\ jobs'[j].model = jobs[j].model
          /\ jobs'[j].recorded = jobs[j].recorded
    BY DEF IsJobOf
  <2>2. c0' = c0 /\ TheRow' = TheRow
    BY <1>1 DEF c0, TheRow
  <2>3. run.pc = "record" /\ TheRow.job # 0 => jobs'[TheRow.job].model = jobs[TheRow.job].model
    <3> SUFFICES ASSUME run.pc = "record", TheRow.job # 0 PROVE IsJobOf(TheRow.job, run.book, c0)
      BY <2>1
    <3>1. Active /\ run.queue # <<>>
      BY DEF PInv, AtHand, AtJob, Active
    <3> QED BY <3>1, QueueAtHand DEF RowOK
  <2>4. AtJob => /\ IsJobOf(run.job, run.book, c0)'
                 /\ jobs'[run.job].model = jobs[run.job].model
                 /\ jobs'[run.job].recorded = jobs[run.job].recorded
    <3>1. AtJob => IsJobOf(run.job, run.book, c0)
      BY DEF PInv, AtHand
    <3>2. IsJobOf(run.job, run.book, c0)' <=> IsJobOf(run.job, run.book, c0)
      BY <1>1, <2>2 DEF IsJobOf
    <3> QED BY <2>1, <3>1, <3>2
  <2>5. Split(row, run.book, c0)' <=> Split(row, run.book, c0)
    BY <1>1, <2>2
  <2>6. Size(c0)' = Size(c0)
    BY <2>2
  <2> QED BY <1>1, <2>2, <2>3, <2>4, <2>5, <2>6 DEF PInv, AtHand, AtJob
<1>7. Lined'
  <2>1. CASE Active
    BY <1>1, <1>4, <2>1, LinedKept
  <2>2. CASE ~Active
    BY <1>1, <2>2 DEF Lined, Active
  <2> QED BY <2>1, <2>2
<1>8. Budget'
  BY <1>1 DEF PInv, Budget, Active
<1>9. TreeOK'
  <2>1. \A b \in Book : Used(b)' = Used(b)
    BY <1>1 DEF Used, IsJobOf
  <2>2. \A b \in Book : Queued(b)' = Queued(b)
    BY <1>1 DEF Queued, Active
  <2> QED BY <1>1, <2>1, <2>2 DEF PInv, TreeOK
<1>10. Followed'
  BY <1>1, <1>4, FollowedKept
<1>11. PaidOnce'
  BY <1>4, PaidOnceKept
<1>12. ConversionIsWhole'
  BY <1>1 DEF PInv, ConversionIsWhole
<1> QED BY <1>3, <1>5, <1>6, <1>7, <1>8, <1>9, <1>10, <1>11, <1>12 DEF PInv

LEMMA BaiduOK ==
  ASSUME PInv, NEW j \in DOMAIN jobs, Finish(j) \/ Fail(j)
  PROVE  PInv'
<1>1. PICK s \in {"done", "failed"} : jobs' = [jobs EXCEPT ![j].st = s]
  BY DEF Finish, Fail
<1>2. UNCHANGED <<row, file, doc, run>> /\ (faults' = faults \/ Fault)
  BY DEF Finish, Fail
<1>3. jobs \in Seq(Job) /\ jobs[j] \in Job
  BY JobsFacts DEF PInv, Types
<1> DEFINE e == [jobs[j] EXCEPT !.st = s]
<1>4. /\ e \in Job /\ e.book = jobs[j].book /\ e.chunk = jobs[j].chunk /\ e.model = jobs[j].model
      /\ e.recorded = jobs[j].recorded /\ e.dropped = jobs[j].dropped
  BY <1>3 DEF Job
<1>5. jobs' = [jobs EXCEPT ![j] = e]
  BY <1>1
<1> HIDE DEF e
<1>6. /\ jobs' \in Seq(Job) /\ DOMAIN jobs' = DOMAIN jobs /\ Len(jobs') = Len(jobs)
      /\ jobs'[j] = e /\ \A i \in DOMAIN jobs : i # j => jobs'[i] = jobs[i]
  BY <1>3, <1>4, <1>5, JobChanged
<1>7. \A i \in DOMAIN jobs :
        /\ jobs'[i].book = jobs[i].book /\ jobs'[i].chunk = jobs[i].chunk
        /\ jobs'[i].model = jobs[i].model
        /\ jobs'[i].recorded = jobs[i].recorded /\ jobs'[i].dropped = jobs[i].dropped
  BY <1>4, <1>6
<1> QED BY <1>2, <1>6, <1>7, JobsStay


-----------------------------------------------------------------------------
(* A job is posted.                                                           *)

LEMMA CutInTwo ==
  ASSUME NEW b \in Book, NEW c \in Chunk(b), NEW d \in Chunk(b), Within(d, c), d # c
  PROVE  Size(c) > 1
<1>1. /\ c[1] \in Nat /\ c[2] \in Nat /\ c = <<c[1], c[2]>>
      /\ d[1] \in Nat /\ d[2] \in Nat /\ d[1] <= d[2] /\ d = <<d[1], d[2]>>
  BY SelectionFacts
<1>2. c[1] # d[1] \/ c[2] # d[2]
  BY <1>1
<1> QED BY <1>1, <1>2 DEF Within, Size

\* A table with more chunks cut up, none of them above d.
LEMMA OnTreeMoves ==
  ASSUME NEW b \in Book, NEW r, NEW s, NEW d \in Chunk(b), OnTree(r, b, d),
         \A c \in Chunk(b) : Split(r, b, c) => Split(s, b, c),
         \A c \in Chunk(b) : Split(s, b, c) /\ Within(d, c) /\ d # c => Split(r, b, c)
  PROVE  OnTree(s, b, d)
<1>1. \A c \in Chunk(b) : Under(r, b, d, c) => Under(s, b, d, c)
  BY DEF Under
<1>2. \E t \in Members(ChunkSpecs[b]) : Under(s, b, d, t)
  <2>1. PICK t \in Members(ChunkSpecs[b]) : Under(r, b, d, t)
    BY DEF OnTree
  <2>2. t \in Chunk(b)
    BY TopLine DEF Line, Members
  <2> QED BY <1>1, <2>1, <2>2
<1>3. ASSUME NEW c \in Chunk(b), Split(s, b, c), Within(d, c), d # c
      PROVE  \E h \in Members(Kids(b, c)) : Under(s, b, d, h)
  <2>1. Split(r, b, c)
    BY <1>3
  <2>2. PICK h \in Members(Kids(b, c)) : Under(r, b, d, h)
    BY <1>3, <2>1 DEF OnTree
  <2>3. h \in Chunk(b)
    BY <1>3, CutInTwo, KidsLine
  <2> QED BY <1>1, <2>2, <2>3
<1> QED BY <1>2, <1>3 DEF OnTree

LEMMA ClearMoves ==
  ASSUME NEW b, NEW r, NEW s, NEW U, U \subseteq Chunk(b), NEW q \in Chunk(b), Clear(r, U, b, q),
         \A c \in Chunk(b) : Split(r, b, c) => Split(s, b, c)
  PROVE  Clear(s, U, b, q)
BY DEF Clear, Under

\* At most the chunk at the head of the queue comes into use, or is cut up.
OnlyHead(b) ==
  /\ \A c \in Chunk(b) : Split(row, b, c) => Split(row', b, c)
  /\ \A c \in Chunk(b) : Split(row', b, c) /\ ~Split(row, b, c) => b = run.book /\ c = c0
  /\ Used(b)' \subseteq Chunk(b) /\ \A c \in Used(b)' : c \in Used(b) \/ (b = run.book /\ c = c0)

LEMMA TreeMoves ==
  ASSUME PInv, Active, run.queue # <<>>, NEW b \in Book, OnlyHead(b)
  PROVE  /\ \A d \in Used(b)' \cup Queued(b) : OnTree(row', b, d)
         /\ \A q \in Queued(b) : Clear(row', Used(b)', b, q)
<1>1. /\ \A d \in Used(b) \cup Queued(b) : OnTree(row, b, d)
      /\ \A q \in Queued(b) : Clear(row, Used(b), b, q)
  BY DEF PInv, TreeOK
<1>2. ASSUME b = run.book
      PROVE  /\ c0 \in Queued(b) /\ c0 \in Chunk(b)
             /\ \A q \in Queued(b) : q \in Chunk(b) /\ (q = c0 \/ Apart(c0, q))
  BY <1>2, QueueAtHand
<1>3. \A q \in Queued(b) : q \in Chunk(b)
  BY <1>2 DEF Queued
<1>4. Used(b) \subseteq Chunk(b)
  BY DEF Used
<1>5. ASSUME NEW d \in Used(b)' \cup Queued(b) PROVE OnTree(row', b, d)
  <2>1. d \in Used(b) \cup Queued(b) /\ d \in Chunk(b)
    BY <1>2, <1>3, <1>4, <1>5 DEF OnlyHead
  <2>2. ASSUME NEW c \in Chunk(b), Split(row', b, c), Within(d, c), d # c PROVE Split(row, b, c)
    <3> SUFFICES ASSUME ~Split(row, b, c) PROVE FALSE
      OBVIOUS
    <3>1. b = run.book /\ c = c0
      BY <2>2 DEF OnlyHead
    <3>2. ~Apart(d, c) /\ ~Apart(c, d)
      BY <2>1, <2>2, Intervals
    <3>3. d \in Used(b)
      BY <1>2, <2>1, <2>2, <3>1, <3>2
    <3>4. Clear(row, Used(b), b, c)
      BY <1>1, <1>2, <3>1
    <3>5. Within(c, d)
      BY <2>2, <3>2, <3>3, <3>4 DEF Clear, Under
    <3> QED BY <2>1, <2>2, <3>5, Intervals
  <2>3. OnTree(row, b, d)
    BY <1>1, <2>1
  <2> QED BY <2>1, <2>2, <2>3, OnTreeMoves DEF OnlyHead
<1>6. ASSUME NEW q \in Queued(b) PROVE Clear(row', Used(b)', b, q)
  <2>1. Clear(row', Used(b), b, q)
    BY <1>1, <1>3, <1>4, <1>6, ClearMoves DEF OnlyHead
  <2>2. ASSUME b = run.book PROVE Apart(c0, q) \/ Under(row', b, c0, q)
    <3>1. CASE q = c0
      BY <1>2, <2>2, <3>1, Intervals DEF Under
    <3>2. CASE q # c0
      BY <1>2, <1>6, <2>2, <3>2
    <3> QED BY <3>1, <3>2
  <2> QED BY <2>1, <2>2 DEF Clear, OnlyHead
<1> QED BY <1>5, <1>6

\* The table in the next state.
LEMMA TreeThen ==
  ASSUME \A b \in Book : /\ \A d \in Used(b)' \cup Queued(b)' : OnTree(row', b, d)
                         /\ \A q \in Queued(b)' : Clear(row', Used(b)', b, q)
  PROVE  TreeOK'
<1>1. \A b, d : OnTree(row', b, d) <=> OnTree(row, b, d)'
  BY DEF OnTree, Under, Split
<1>2. \A b, q : Clear(row', Used(b)', b, q) <=> Clear(row, Used(b), b, q)'
  BY DEF Clear, Under, Split
<1> QED BY <1>1, <1>2 DEF TreeOK

LEMMA JobAppended ==
  ASSUME jobs \in Seq(Job), NEW e \in Job, jobs' = Append(jobs, e)
  PROVE  LET n == Len(jobs) + 1 IN
         /\ jobs' \in Seq(Job) /\ DOMAIN jobs' = DOMAIN jobs \cup {n} /\ Len(jobs') = n
         /\ n \notin DOMAIN jobs /\ jobs'[n] = e
         /\ \A j \in DOMAIN jobs : jobs'[j] = jobs[j]
<1> DEFINE n == Len(jobs) + 1
<1>1. DOMAIN jobs = 1 .. Len(jobs) /\ Len(jobs) \in Nat
  OBVIOUS
<1>2. /\ jobs' \in Seq(Job) /\ Len(jobs') = n /\ jobs'[n] = e
      /\ \A j \in 1 .. Len(jobs) : jobs'[j] = jobs[j]
  OBVIOUS
<1>3. DOMAIN jobs' = 1 .. n
  BY <1>2
<1>4. 1 .. n = (1 .. Len(jobs)) \cup {n} /\ n \notin 1 .. Len(jobs)
  BY <1>1
<1> QED BY <1>1, <1>2, <1>3, <1>4

\* The new job: it is not written down yet.
LEMMA JobAdded ==
  ASSUME PInv, Fresh, jobs' = Append(jobs, NewJob), UNCHANGED <<row, file, doc>>,
         faults' = faults \/ Fault, run' \in Run, AtHand', Active',
         run'.book = run.book, run'.queue = run.queue, run'.ready = run.ready,
         run'.model = run.model, run'.inherited = run.inherited,
         run'.left = run.left, run'.read = run.read, run'.lost = run.lost, run'.pages = run.pages
  PROVE  PInv'
<1> DEFINE b == run.book
<1>1. row' = row /\ file' = file /\ doc' = doc /\ Active /\ run.queue # <<>>
  BY DEF Fresh, Takes, At, Active
<1>2. /\ b \in Book /\ c0 \in Chunk(b) /\ c0 \in Nat \X Nat /\ run.model \in Model
  BY <1>1, QueueAtHand, SelectionFacts, RunFields DEF PInv, Types, PagePairs
<1>3. NewJob \in Job /\ ~NewJob.recorded
  BY <1>2 DEF NewJob, Job
<1>4. NewJob.book = b /\ NewJob.chunk = c0
  BY DEF NewJob
<1> HIDE DEF NewJob, b
<1>5. PICK n \in Nat :
        /\ jobs' \in Seq(Job) /\ DOMAIN jobs' = DOMAIN jobs \cup {n} /\ n \notin DOMAIN jobs
        /\ jobs'[n] = NewJob /\ \A j \in DOMAIN jobs : jobs'[j] = jobs[j]
  BY <1>3, JobsFacts, JobAppended DEF PInv, Types
<1>6. JobsGo /\ NoneRecorded /\ ForgottenStay
  BY <1>1, <1>3, <1>5 DEF JobsGo, NoneRecorded, ForgottenStay, Forgotten
<1>7. Types'
  <2>1. faults' \in 0 .. FaultBound
    BY ConstantFacts DEF PInv, Types, Fault
  <2> QED BY <1>1, <1>5, <2>1 DEF PInv, Types
<1>8. RowsOK'
  BY <1>1, <1>6, RowKept DEF PInv, RowsOK
<1>9. Lined'
  BY <1>1, <1>6, LinedKept
<1>10. Budget'
  BY <1>1 DEF PInv, Budget, Active
<1>11. TreeOK'
  <2>1. \A a \in Book : Queued(a)' = Queued(a)
    BY <1>1 DEF Queued
  <2>2. ASSUME NEW a \in Book, NEW d \in Used(a)', d \notin Used(a) PROVE a = b /\ d = c0
    <3>1. \E j \in DOMAIN jobs' : IsJobOf(j, a, d)' /\ ~IsJobOf(j, a, d)
      BY <1>1, <2>2 DEF Used, IsJobOf
    <3>2. IsJobOf(n, a, d)'
      BY <1>5, <3>1 DEF IsJobOf
    <3> QED BY <1>4, <1>5, <3>2 DEF IsJobOf
  <2>3. \A a \in Book : OnlyHead(a)
    BY <1>1, <2>2 DEF OnlyHead, Used, b
  <2> QED BY <1>1, <2>1, <2>3, TreeMoves, TreeThen
<1>12. Followed'
  BY <1>1, <1>6, FollowedKept
<1>13. PaidOnce'
  BY <1>6, PaidOnceKept
<1>14. ConversionIsWhole'
  BY <1>1 DEF PInv, ConversionIsWhole
<1> QED BY <1>7, <1>8, <1>9, <1>10, <1>11, <1>12, <1>13, <1>14 DEF PInv

\* A result of this model would have been taken from the cache, a recorded job resumed.
LEMMA FreshChunk ==
  ASSUME PInv, Fresh
  PROVE  ~Split(row, run.book, c0) /\ (TheRow.job # 0 => jobs[TheRow.job].model # run.model)
<1>1. /\ run.queue # <<>> /\ Active /\ ~Reusable /\ KnownRow.st # "failed_split" /\ KnownRow.job = 0
  BY DEF Fresh, Takes, At, Active
<1>2. TheRow = row[run.book][c0] /\ RowOK(run.book, c0)
  BY <1>1, QueueAtHand
<1>3. CASE IsCached
  <2>1. TheRow.st = "done" /\ file[run.book][c0] # 0 /\ ~Matches(file[run.book][c0], run.model)
    BY <1>1, <1>3 DEF IsCached, Reusable
  <2>2. file[run.book][c0] = TheRow.job
    BY <1>2, <2>1 DEF RowOK
  <2> QED BY <1>2, <2>1, <2>2 DEF Matches, Split
<1>4. CASE ~IsCached
  <2>1. KnownRow = TheRow
    BY <1>4 DEF KnownRow
  <2> QED BY <1>1, <1>2, <2>1 DEF Split
<1> QED BY <1>3, <1>4

LEMMA SubmitOK ==
  ASSUME PInv, Submit
  PROVE  PInv'
<1> DEFINE r == [run EXCEPT !.pc = "record", !.job = Len(jobs) + 1]
<1>1. /\ Fresh /\ jobs' = Append(jobs, NewJob) /\ UNCHANGED <<row, file, doc>> /\ faults' = faults
      /\ run' = r /\ run.pc = "take" /\ run.queue # <<>> /\ Active /\ run \in Run
      /\ Size(c0) <= run.left /\ ~Reusable /\ KnownRow.st # "failed_split" /\ KnownRow.job = 0
  BY DEF Submit, Fresh, Takes, At, Active, PInv, Types
<1>2. /\ run.book \in Book /\ c0 \in Chunk(run.book) /\ c0 \in Nat \X Nat /\ run.model \in Model
      /\ TheRow = row[run.book][c0] /\ TheRow \in Row /\ RowOK(run.book, c0)
  BY <1>1, QueueAtHand, SelectionFacts, RunFields DEF PagePairs
<1>3. NewJob \in Job /\ ~NewJob.recorded /\ NewJob.book = run.book /\ NewJob.chunk = c0
      /\ NewJob.model = run.model
  BY <1>2 DEF NewJob, Job
<1> HIDE DEF NewJob
<1>4. PICK n : n = Len(jobs) + 1
  OBVIOUS
<1>5. n \in Nat /\ n # 0
  BY <1>4, JobsFacts DEF PInv, Types
<1>6. /\ jobs' \in Seq(Job) /\ DOMAIN jobs' = DOMAIN jobs \cup {n} /\ Len(jobs') = n
      /\ jobs'[n] = NewJob /\ \A j \in DOMAIN jobs : jobs'[j] = jobs[j]
  BY <1>1, <1>3, <1>4, JobAppended DEF PInv, Types
<1>7. r = [run EXCEPT !.pc = "record", !.job = n]
  BY <1>4
<1> HIDE DEF r
<1>8. /\ r \in Run /\ r.pc = "record" /\ r.job = n /\ r.inherited = run.inherited
      /\ r.book = run.book /\ r.queue = run.queue /\ r.ready = run.ready /\ r.model = run.model
      /\ r.left = run.left /\ r.read = run.read /\ r.lost = run.lost /\ r.pages = run.pages
  BY <1>1, <1>5, <1>7 DEF Run
<1>9. c0' = c0 /\ TheRow' = TheRow
  BY <1>1, <1>8 DEF c0, TheRow
<1>10. ~Split(row, run.book, c0) /\ (TheRow.job # 0 => jobs[TheRow.job].model # run.model)
  BY <1>1, FreshChunk
<1>11. AtHand'
  <2>1. IsJobOf(n, run.book, c0)'
    BY <1>1, <1>3, <1>6, <1>8, <1>9 DEF IsJobOf
  <2>2. TheRow.job # 0 => TheRow.job \in DOMAIN jobs
    BY <1>2 DEF RowOK, IsJobOf
  <2>3. TheRow'.job # 0 => jobs'[TheRow'.job].model # run'.model
    BY <1>1, <1>6, <1>8, <1>9, <1>10, <2>2
  <2>4. ~Split(row, run.book, c0)' /\ Size(c0)' <= run'.left
    BY <1>1, <1>8, <1>9, <1>10 DEF Split, Size
  <2>5. ~jobs'[n].recorded /\ jobs'[n].model = run'.model
    BY <1>1, <1>3, <1>6, <1>8
  <2> QED BY <1>1, <1>2, <1>6, <1>5, <1>8, <2>1, <2>3, <2>4, <2>5 DEF AtHand, AtJob
<1>12. Active'
  BY <1>1, <1>8 DEF Active
<1> QED BY <1>1, <1>8, <1>11, <1>12, JobAdded

LEMMA SubmitReplyLostOK ==
  ASSUME PInv, SubmitReplyLost
  PROVE  PInv'
<1>1. /\ Fresh /\ jobs' = Append(jobs, NewJob) /\ UNCHANGED <<row, file, doc>> /\ Fault
      /\ run' = run /\ run.pc = "take" /\ Active /\ run \in Run
  BY DEF SubmitReplyLost, Fresh, Takes, At, Active, PInv, Types
<1>2. AtHand'
  <2>1. run.job = 0 /\ run.book \in Book
    BY <1>1 DEF PInv, AtHand, AtJob
  <2> QED BY <1>1, <2>1 DEF AtHand, AtJob
<1>3. Active'
  BY <1>1 DEF Active
<1> QED BY <1>1, <1>2, <1>3, JobAdded

-----------------------------------------------------------------------------
(* A row is written.                                                          *)

LEMMA RowWritten ==
  ASSUME PInv, NEW b \in Book, NEW c \in Chunk(b), NEW v \in Row, Write(b, c, v)
  PROVE  /\ DOMAIN row' = Book /\ row'[b][c] = v
         /\ \A a \in Book : DOMAIN row'[a] = Chunk(a) /\ \A d \in Chunk(a) : row'[a][d] \in Row
         /\ \A a \in Book : \A d \in Chunk(a) : a # b \/ d # c => row'[a][d] = row[a][d]
<1>1. row' = [row EXCEPT ![b] = [row[b] EXCEPT ![c] = v]]
  BY DEF Write
<1>2. /\ DOMAIN row = Book /\ \A a \in Book : DOMAIN row[a] = Chunk(a)
      /\ \A a \in Book : \A d \in Chunk(a) : row[a][d] \in Row
  BY DEF PInv, Types
<1>3. /\ DOMAIN row' = Book /\ row'[b] = [row[b] EXCEPT ![c] = v]
      /\ \A a \in Book : a # b => row'[a] = row[a]
  BY <1>1, <1>2
<1>4. /\ DOMAIN row'[b] = Chunk(b) /\ row'[b][c] = v
      /\ \A d \in Chunk(b) : d # c => row'[b][d] = row[b][d]
  BY <1>2, <1>3
<1> QED BY <1>2, <1>3, <1>4

\* A flag is put on the job in hand.
LEMMA JobFlagged ==
  ASSUME PInv, NEW k \in DOMAIN jobs, NEW e \in Job, jobs' = [jobs EXCEPT ![k] = e],
         e.book = jobs[k].book, e.chunk = jobs[k].chunk, e.model = jobs[k].model,
         jobs[k].recorded => e.recorded, jobs[k].dropped => e.dropped
  PROVE  JobsGo /\ jobs' \in Seq(Job) /\ DOMAIN jobs' = DOMAIN jobs /\ Len(jobs') = Len(jobs)
         /\ jobs'[k] = e /\ \A j \in DOMAIN jobs : j # k => jobs'[j] = jobs[j]
<1>1. /\ jobs' \in Seq(Job) /\ DOMAIN jobs' = DOMAIN jobs /\ Len(jobs') = Len(jobs)
      /\ jobs'[k] = e /\ \A j \in DOMAIN jobs : j # k => jobs'[j] = jobs[j]
  BY JobChanged DEF PInv, Types
<1> QED BY <1>1 DEF JobsGo

\* The row of the chunk at the head of the queue, with the job in hand.
LEMMA HeadWritten ==
  ASSUME PInv, Active, run.queue # <<>>, NEW v \in Row, Write(run.book, c0, v),
         JobsGo, DOMAIN jobs' = DOMAIN jobs, v.st # "none",
         Split(row, run.book, c0) => v.st = "failed_split"
  PROVE  \A b \in Book : OnlyHead(b)
<1> DEFINE b == run.book
<1>1. b \in Book /\ c0 \in Chunk(b)
  BY QueueAtHand
<1>2. /\ row'[b][c0] = v
      /\ \A a \in Book : \A d \in Chunk(a) : a # b \/ d # c0 => row'[a][d] = row[a][d]
  BY <1>1, RowWritten
<1> HIDE DEF b
<1>3. \A j, a, d : IsJobOf(j, a, d)' => IsJobOf(j, a, d)
  BY DEF IsJobOf, JobsGo
<1>4. ASSUME NEW a \in Book, NEW c \in Used(a)'
      PROVE  c \in Chunk(a) /\ (c \in Used(a) \/ (a = b /\ c = c0))
  <2>1. c \in Chunk(a) /\ (row'[a][c].st # "none" \/ \E j \in DOMAIN jobs' : IsJobOf(j, a, c)')
    BY <1>4 DEF Used
  <2> QED BY <1>2, <1>3, <2>1 DEF Used
<1>5. ASSUME NEW a \in Book, NEW c \in Chunk(a), Split(row, a, c) PROVE Split(row', a, c)
  BY <1>2, <1>5 DEF Split, b
<1>6. ASSUME NEW a \in Book, NEW c \in Chunk(a), Split(row', a, c), ~Split(row, a, c)
      PROVE  a = b /\ c = c0
  BY <1>2, <1>6 DEF Split
<1> QED BY <1>4, <1>5, <1>6 DEF OnlyHead, b

LEMMA RecordOK ==
  ASSUME PInv, Record
  PROVE  PInv'
<1> DEFINE v == [st |-> "submitted", job |-> run.job]
           r == [run EXCEPT !.pc = "poll"]
           e == [jobs[run.job] EXCEPT !.recorded = TRUE]
<1>1. PICK b, k, c : b = run.book /\ k = run.job /\ c = c0
  OBVIOUS
<1>2. /\ run.pc = "record" /\ Active /\ AtJob /\ run \in Run /\ run.queue # <<>>
      /\ Write(b, c, v) /\ jobs' = [jobs EXCEPT ![k] = e] /\ run' = r
      /\ file' = file /\ doc' = doc /\ faults' = faults
  <2>1. /\ run.pc = "record" /\ run' = r /\ file' = file /\ doc' = doc /\ faults' = faults
        /\ Write(run.book, c0, v) /\ jobs' = [jobs EXCEPT ![run.job] = e]
    BY DEF Record, At
  <2>2. Active /\ AtJob /\ run \in Run
    BY <2>1 DEF Active, AtJob, PInv, Types
  <2>3. run.queue # <<>>
    BY <2>2 DEF PInv, AtHand
  <2> HIDE DEF e, r, v
  <2> QED BY <1>1, <2>1, <2>2, <2>3
<1>3. /\ b \in Book /\ c \in Chunk(b) /\ TheRow = row[b][c] /\ RowOK(b, c)
      /\ Clear(row, Used(b), b, c)
  BY <1>1, <1>2, QueueAtHand
<1>4. /\ k # 0 /\ IsJobOf(k, b, c) /\ k = Len(jobs) /\ ~jobs[k].recorded
      /\ jobs[k].model = run.model /\ ~Split(row, b, c) /\ Size(c) <= run.left
      /\ row[b][c].job # 0 => jobs[row[b][c].job].model # run.model
  BY <1>1, <1>2, <1>3 DEF PInv, AtHand
<1>5. k \in DOMAIN jobs /\ k \in Nat /\ jobs[k] \in Job /\ jobs[k].book = b /\ jobs[k].chunk = c
  BY <1>4, JobsFacts DEF PInv, Types, IsJobOf
<1>6. v \in Row /\ v.st = "submitted" /\ v.job = k
  BY <1>1, <1>5 DEF Row
<1>7. /\ e \in Job /\ e.book = b /\ e.chunk = c /\ e.model = run.model /\ e.recorded
      /\ e.dropped = jobs[k].dropped
  BY <1>1, <1>4, <1>5 DEF Job
<1>8. /\ r \in Run /\ r.pc = "poll" /\ r.job = k /\ r.inherited = run.inherited
      /\ r.book = b /\ r.queue = run.queue /\ r.ready = run.ready /\ r.model = run.model
      /\ r.left = run.left /\ r.read = run.read /\ r.lost = run.lost /\ r.pages = run.pages
  BY <1>1, <1>2 DEF Run
<1> HIDE DEF e, r, v
<1>9. /\ JobsGo /\ jobs' \in Seq(Job) /\ DOMAIN jobs' = DOMAIN jobs
      /\ jobs'[k] = e /\ \A j \in DOMAIN jobs : j # k => jobs'[j] = jobs[j]
  BY <1>2, <1>4, <1>5, <1>7, JobFlagged
<1>10. /\ DOMAIN row' = Book /\ row'[b][c] = v
       /\ \A a \in Book : DOMAIN row'[a] = Chunk(a) /\ \A d \in Chunk(a) : row'[a][d] \in Row
       /\ \A a \in Book : \A d \in Chunk(a) : a # b \/ d # c => row'[a][d] = row[a][d]
  BY <1>2, <1>3, <1>6, RowWritten
<1>11. Types'
  BY <1>2, <1>8, <1>9, <1>10 DEF PInv, Types
<1>12. RowsOK'
  <2> SUFFICES ASSUME NEW a \in Book, NEW d \in Chunk(a) PROVE RowOK(a, d)'
    BY DEF RowsOK
  <2>1. RowOK(a, d)
    BY DEF PInv, RowsOK
  <2>2. CASE a # b \/ d # c
    BY <1>2, <1>9, <1>10, <2>1, <2>2, RowKept
  <2>3. CASE a = b /\ d = c
    <3>1. \A j : IsJobOf(j, b, c) => IsJobOf(j, b, c)'
      BY <1>9, JobsKept
    <3> QED BY <1>2, <1>3, <1>4, <1>6, <1>7, <1>9, <1>10, <2>3, <3>1 DEF RowOK
  <2> QED BY <2>2, <2>3
<1>13. c0' = c /\ TheRow' = [st |-> "submitted", job |-> k]
  BY <1>1, <1>2, <1>8, <1>10 DEF c0, TheRow, v
<1>14. AtHand'
  <2>1. IsJobOf(k, b, c)'
    BY <1>4, <1>9, JobsKept
  <2>2. jobs'[k].model = run.model
    BY <1>7, <1>9
  <2> QED BY <1>2, <1>3, <1>4, <1>8, <1>13, <2>1, <2>2 DEF AtHand, AtJob, Size
<1>15. Lined'
  BY <1>1, <1>2, <1>8, <1>9, LinedKept
<1>16. Budget'
  BY <1>2, <1>8 DEF PInv, Budget, Active
<1>17. TreeOK'
  <2>1. \A a \in Book : OnlyHead(a)
    BY <1>1, <1>2, <1>4, <1>6, <1>9, HeadWritten
  <2>2. \A a \in Book : Queued(a)' = Queued(a)
    BY <1>1, <1>2, <1>8 DEF Queued, Active
  <2> QED BY <1>2, <2>1, <2>2, TreeMoves, TreeThen
\* Whoever had the row before is of another model.
<1>18. ASSUME NEW j \in DOMAIN jobs, jobs[j].recorded
       PROVE  /\ j \in Nat /\ j < k
              /\ \/ row[jobs[j].book][jobs[j].chunk].job = j
                 \/ jobs[j].dropped \/ Replaced(j) \/ Forgotten(j)
              /\ jobs[j].book \in Book /\ jobs[j].chunk \in Chunk(jobs[j].book)
              /\ IsJobOf(j, b, c) => ~Forgotten(j)
              /\ Forgotten(j) => Forgotten(j)'
  <2>1. j \in Nat /\ j <= k /\ jobs[j].book \in Book /\ jobs[j].chunk \in Chunk(jobs[j].book)
    BY <1>4, JobsFacts DEF PInv, Types
  <2>2. j # k
    BY <1>4, <1>18
  <2>3. \/ row[jobs[j].book][jobs[j].chunk].job = j
        \/ jobs[j].dropped \/ Replaced(j) \/ Forgotten(j)
    BY <1>18 DEF PInv, Followed
  <2>4. IsJobOf(j, b, c) => ~Forgotten(j)
    BY <1>4 DEF IsJobOf, Forgotten, Split
  <2>5. ASSUME Forgotten(j) PROVE Forgotten(j)'
    <3>1. jobs[j].book # b \/ jobs[j].chunk # c
      BY <2>4, <2>5 DEF IsJobOf
    <3>2. row'[jobs[j].book][jobs[j].chunk] = row[jobs[j].book][jobs[j].chunk]
      BY <1>10, <2>1, <3>1
    <3>3. jobs'[j].book = jobs[j].book /\ jobs'[j].chunk = jobs[j].chunk
      BY <1>9 DEF JobsGo
    <3> QED BY <2>5, <3>2, <3>3 DEF Forgotten
  <2> QED BY <1>5, <2>1, <2>2, <2>3, <2>4, <2>5
<1>19. Followed'
  <2> SUFFICES ASSUME NEW j \in DOMAIN jobs', jobs'[j].recorded
               PROVE  \/ row'[jobs'[j].book][jobs'[j].chunk].job = j
                      \/ jobs'[j].dropped \/ Replaced(j)' \/ Forgotten(j)'
    BY DEF Followed
  <2>1. j \in DOMAIN jobs /\ jobs'[j].book = jobs[j].book /\ jobs'[j].chunk = jobs[j].chunk
        /\ (jobs[j].dropped => jobs'[j].dropped)
    BY <1>9 DEF JobsGo
  <2>2. CASE j = k
    BY <1>6, <1>7, <1>9, <1>10, <2>2
  <2>3. CASE j # k
    <3>1. jobs'[j] = jobs[j] /\ jobs[j].recorded
      BY <1>9, <2>1, <2>3
    <3>2. Replaced(j) => Replaced(j)'
      BY <1>9, <2>1, JobsKept
    <3>3. ASSUME row[jobs[j].book][jobs[j].chunk].job = j, IsJobOf(j, b, c) PROVE Replaced(j)'
      <4>1. row[b][c].job = j /\ jobs[j].model # run.model
        BY <1>4, <1>18, <2>1, <3>1, <3>3, JobsFacts DEF IsJobOf, PInv, Types
      <4>2. IsJobOf(k, b, c)'
        BY <1>4, <1>9, JobsKept
      <4>3. jobs'[j].book = b /\ jobs'[j].chunk = c /\ jobs'[j].model # jobs'[k].model
        BY <1>7, <1>9, <2>1, <3>1, <3>3, <4>1 DEF IsJobOf
      <4>4. k \in DOMAIN jobs' /\ jobs'[k].recorded /\ j < k
        BY <1>5, <1>7, <1>9, <1>18, <2>1, <3>1
      <4> QED BY <4>2, <4>3, <4>4 DEF Replaced, IsJobOf
    <3>4. ASSUME row[jobs[j].book][jobs[j].chunk].job = j, ~IsJobOf(j, b, c)
          PROVE  row'[jobs[j].book][jobs[j].chunk].job = j
      BY <1>10, <1>18, <2>1, <3>1, <3>4 DEF IsJobOf
    <3> QED BY <1>18, <2>1, <3>1, <3>2, <3>3, <3>4
  <2> QED BY <2>2, <2>3
<1>20. PaidOnce'
  <2> SUFFICES ASSUME NEW j \in DOMAIN jobs', NEW i \in DOMAIN jobs', Again(j, i)'
               PROVE  Excused(j, i)'
    BY PaidOnceThen
  <2>1. j \in DOMAIN jobs /\ i \in DOMAIN jobs /\ i \in Nat /\ i <= k /\ j < i /\ j # k
    BY <1>4, <1>9, JobsFacts DEF Again, PInv, Types
  <2>2. jobs'[j] = jobs[j] /\ jobs[j].recorded
    BY <1>9, <2>1 DEF Again
  <2>3. CASE i # k
    <3>1. jobs'[i] = jobs[i] /\ jobs[i].recorded
      BY <1>9, <2>1, <2>3 DEF Again
    <3>2. Again(j, i)
      BY <1>9, <2>1, <2>2, <3>1, JobsKept DEF Again
    <3>3. Excused(j, i)
      BY <2>1, <3>2, PaidOnceMeans DEF PInv
    <3>4. Between(j, i) => Between(j, i)'
      BY <1>9, <2>1, JobsKept
    <3> QED BY <1>18, <2>1, <2>2, <3>3, <3>4 DEF Excused
  <2>4. CASE i = k
    <3>1. PICK d : d = jobs[j].chunk
      OBVIOUS
    <3>2. /\ jobs[j].book = b /\ d \in Chunk(b) /\ Pages(d) \cap Pages(c) # {}
          /\ jobs[j].model = run.model
      BY <1>5, <1>7, <1>9, <1>18, <2>1, <2>2, <2>4, <3>1 DEF Again, Meet
    <3>3. d \in Used(b)
      BY <2>1, <3>1, <3>2 DEF Used, IsJobOf
    <3>4. ~Apart(d, c)
      BY <1>3, <3>2, SelectionFacts DEF Apart, Pages
    <3>5. d = c \/ (d # c /\ Split(row, b, d))
      BY <1>3, <1>4, <3>3, <3>4 DEF Clear, Under
    <3>6. Replaced(j) => Between(j, k)
      <4> SUFFICES ASSUME Replaced(j) PROVE Between(j, k)
        OBVIOUS
      <4>1. PICK l \in DOMAIN jobs : /\ jobs[l].recorded /\ j < l /\ IsJobOf(l, b, d)
                                     /\ jobs[l].model # run.model
        BY <3>1, <3>2 DEF Replaced
      <4>2. Meet(l, k)
        BY <1>5, <3>2, <4>1 DEF Meet, IsJobOf
      <4>3. l < k
        BY <1>18, <4>1
      <4> QED BY <1>4, <4>1, <4>2, <4>3 DEF Between
    <3>7. Between(j, k) => Between(j, k)'
      BY <1>5, <1>9, <2>1, JobsKept
    <3>8. row[b][d].job = j => jobs[j].dropped
      <4>1. ASSUME d = c PROVE row[b][d].job # j
        BY <1>4, <2>1, <3>2, <4>1, JobsFacts DEF PInv, Types
      <4>2. ASSUME Split(row, b, d), row[b][d].job = j PROVE jobs[j].dropped
        <5>1. RowOK(b, d) /\ j # 0
          BY <1>3, <2>1, <3>2, JobsFacts DEF PInv, RowsOK, Types
        <5> QED BY <4>2, <5>1 DEF RowOK, Split
      <4> QED BY <3>5, <4>1, <4>2
    <3> QED BY <1>18, <2>1, <2>2, <2>4, <3>1, <3>2, <3>6, <3>7, <3>8 DEF Excused
  <2> QED BY <2>3, <2>4
<1>21. ConversionIsWhole'
  BY <1>2 DEF PInv, ConversionIsWhole
<1> QED BY <1>11, <1>12, <1>14, <1>15, <1>16, <1>17, <1>19, <1>20, <1>21 DEF PInv

-----------------------------------------------------------------------------
(* A result is downloaded, a chunk is finished or cut up.                     *)

LEMMA DownloadOK ==
  ASSUME PInv, Download
  PROVE  PInv'
<1> DEFINE r == [run EXCEPT !.pc = "written"]
<1>1. PICK b, k, c : b = run.book /\ k = run.job /\ c = c0
  OBVIOUS
<1>2. /\ run.pc = "download" /\ Active /\ AtJob /\ run \in Run /\ run.queue # <<>>
      /\ file' = [file EXCEPT ![b][c] = k] /\ run' = r
      /\ row' = row /\ jobs' = jobs /\ doc' = doc /\ faults' = faults
  <2>1. /\ run.pc = "download" /\ run' = r /\ row' = row /\ jobs' = jobs /\ doc' = doc
        /\ faults' = faults /\ file' = [file EXCEPT ![run.book][c0] = run.job]
    BY DEF Download, At
  <2>2. Active /\ AtJob /\ run \in Run
    BY <2>1 DEF Active, AtJob, PInv, Types
  <2>3. run.queue # <<>>
    BY <2>2 DEF PInv, AtHand
  <2> HIDE DEF r
  <2> QED BY <1>1, <2>1, <2>2, <2>3
<1>3. /\ b \in Book /\ c \in Chunk(b) /\ TheRow = row[b][c] /\ RowOK(b, c)
      /\ \A q \in Members(run.ready) : q \in Chunk(b) /\ q # c
  BY <1>1, <1>2, QueueAtHand
<1>4. /\ k # 0 /\ IsJobOf(k, b, c) /\ Size(c) <= run.left
      /\ row[b][c] = [st |-> "submitted", job |-> k]
      /\ run.inherited \/ jobs[k].model = run.model
  BY <1>1, <1>2, <1>3 DEF PInv, AtHand
<1>5. k \in Nat
  BY <1>4, JobsFacts DEF PInv, Types, IsJobOf
<1>6. /\ r \in Run /\ r.pc = "written" /\ r.job = k /\ r.inherited = run.inherited
      /\ r.book = b /\ r.queue = run.queue /\ r.ready = run.ready /\ r.model = run.model
      /\ r.left = run.left /\ r.read = run.read /\ r.lost = run.lost /\ r.pages = run.pages
  BY <1>1, <1>2 DEF Run
<1> HIDE DEF r
<1>7. /\ DOMAIN file' = Book /\ \A a \in Book : DOMAIN file'[a] = Chunk(a)
      /\ file'[b][c] = k
      /\ \A a \in Book : \A d \in Chunk(a) : a # b \/ d # c => file'[a][d] = file[a][d]
  <2>1. /\ DOMAIN file = Book /\ \A a \in Book : DOMAIN file[a] = Chunk(a)
    BY DEF PInv, Types
  <2>2. file' = [file EXCEPT ![b] = [file[b] EXCEPT ![c] = k]]
    BY <1>2
  <2>3. /\ DOMAIN file' = Book /\ file'[b] = [file[b] EXCEPT ![c] = k]
        /\ \A a \in Book : a # b => file'[a] = file[a]
    BY <1>3, <2>1, <2>2
  <2> QED BY <1>3, <2>1, <2>3
<1>8. JobsGo /\ NoneRecorded /\ ForgottenStay
  BY <1>2 DEF JobsGo, NoneRecorded, ForgottenStay, Forgotten
<1>9. Types'
  <2>1. \A a \in Book : \A d \in Chunk(a) : file'[a][d] \in Nat
    BY <1>5, <1>7 DEF PInv, Types
  <2> QED BY <1>2, <1>6, <1>7, <2>1 DEF PInv, Types
<1>10. RowsOK'
  <2> SUFFICES ASSUME NEW a \in Book, NEW d \in Chunk(a) PROVE RowOK(a, d)'
    BY DEF RowsOK
  <2>1. RowOK(a, d)
    BY DEF PInv, RowsOK
  <2>2. CASE a # b \/ d # c
    BY <1>2, <1>7, <1>8, <2>1, <2>2, RowKept
  <2>3. CASE a = b /\ d = c
    BY <1>2, <1>3, <1>4, <1>7, <2>3 DEF RowOK, IsJobOf
  <2> QED BY <2>2, <2>3
<1>11. c0' = c /\ TheRow' = [st |-> "submitted", job |-> k]
  BY <1>1, <1>2, <1>3, <1>4, <1>6 DEF c0, TheRow
<1>12. AtHand'
  <2>1. IsJobOf(k, b, c)'
    BY <1>4, <1>8, JobsKept
  <2> QED BY <1>2, <1>3, <1>4, <1>6, <1>7, <1>11, <2>1 DEF AtHand, AtJob, Size
<1>13. Lined'
  BY <1>1, <1>2, <1>3, <1>6, <1>7, <1>8, LinedKept
<1>14. Budget'
  BY <1>2, <1>6 DEF PInv, Budget, Active
<1>15. TreeOK'
  <2>1. \A a \in Book : OnlyHead(a)
    BY <1>2 DEF OnlyHead, Used, IsJobOf
  <2>2. \A a \in Book : Queued(a)' = Queued(a)
    BY <1>1, <1>2, <1>6 DEF Queued, Active
  <2> QED BY <1>2, <2>1, <2>2, TreeMoves, TreeThen
<1>16. Followed' /\ PaidOnce'
  BY <1>2, <1>8, FollowedKept, PaidOnceKept
<1>17. ConversionIsWhole'
  BY <1>2 DEF PInv, ConversionIsWhole
<1> QED BY <1>9, <1>10, <1>12, <1>13, <1>14, <1>15, <1>16, <1>17 DEF PInv

LEMMA RecordDoneOK ==
  ASSUME PInv, RecordDone
  PROVE  PInv'
<1> DEFINE v == [st |-> "done", job |-> run.job]
           t == Tail(run.queue)
           s == Append(run.ready, c0)
           z == Size(c0)
           r == [run EXCEPT !.pc = "take", !.queue = t, !.ready = s, !.job = 0,
                            !.pages = run.pages + z, !.left = run.left - z, !.read = run.read + z]
<1>1. PICK b, k, c : b = run.book /\ k = run.job /\ c = c0
  OBVIOUS
<1>2. /\ run.pc = "written" /\ Active /\ AtJob /\ run \in Run /\ run.queue # <<>>
      /\ Write(b, c, v) /\ run' = r
      /\ file' = file /\ jobs' = jobs /\ doc' = doc /\ faults' = faults
  <2>1. /\ run.pc = "written" /\ run' = r /\ file' = file /\ jobs' = jobs /\ doc' = doc
        /\ faults' = faults /\ Write(run.book, c0, v)
    BY DEF RecordDone, At
  <2>2. Active /\ AtJob /\ run \in Run
    BY <2>1 DEF Active, AtJob, PInv, Types
  <2>3. run.queue # <<>>
    BY <2>2 DEF PInv, AtHand
  <2> HIDE DEF r, v
  <2> QED BY <1>1, <2>1, <2>2, <2>3
<1>3. /\ b \in Book /\ c \in Chunk(b) /\ TheRow = row[b][c] /\ RowOK(b, c)
      /\ Queued(b) = Members(run.queue) /\ Members(run.queue) = {c} \cup Members(t)
  BY <1>1, <1>2, QueueAtHand
<1>4. /\ k # 0 /\ IsJobOf(k, b, c) /\ z <= run.left /\ file[b][c] = k
      /\ row[b][c] = [st |-> "submitted", job |-> k]
      /\ run.inherited \/ jobs[k].model = run.model
  BY <1>1, <1>2, <1>3 DEF PInv, AtHand
<1>5. k \in Nat
  BY <1>4, JobsFacts DEF PInv, Types, IsJobOf
<1>6. v \in Row /\ v.st = "done" /\ v.job = k
  BY <1>1, <1>5 DEF Row
<1>7. /\ Line(Chunk(b), run.ready) /\ Line(Chunk(b), run.queue) /\ Before(run.ready, run.queue)
      /\ Cover(run.ready) \cup Cover(run.queue) = Range(Selection[b])
      /\ run.inherited \/ \A q \in Members(run.ready) : Matches(file[b][q], run.model)
  BY <1>1, <1>2 DEF PInv, Lined
<1>8. /\ Line(Chunk(b), s) /\ Line(Chunk(b), t) /\ Before(s, t)
      /\ Cover(s) \cup Cover(t) = Range(Selection[b])
      /\ Members(s) = Members(run.ready) \cup {c}
  <2>1. c = Head(run.queue)
    BY <1>1 DEF c0
  <2> QED BY <1>1, <1>2, <1>3, <1>7, <2>1, HeadTaken
<1>9. s \in Seq(Nat \X Nat) /\ t \in Seq(Nat \X Nat)
  BY <1>3, <1>8, ChunksAreQueued
<1>10. /\ z \in Nat /\ run.pages \in Nat /\ run.left \in Nat /\ run.read \in Nat /\ run.lost \in Nat
  <2>1. c[1] \in Nat /\ c[2] \in Nat /\ c[1] <= c[2]
    BY <1>3, SelectionFacts
  <2>2. z \in Nat
    BY <1>1, <2>1 DEF Size
  <2> HIDE DEF z
  <2> QED BY <1>2, <2>2, RunFields
<1> HIDE DEF s, t, z
<1>11. /\ run.pages + z \in Nat /\ run.left - z \in Nat /\ run.read + z \in Nat
  BY <1>4, <1>10
<1>12. /\ r \in Run /\ r.pc = "take" /\ r.job = 0 /\ r.inherited = run.inherited
       /\ r.book = b /\ r.queue = t /\ r.ready = s /\ r.model = run.model /\ r.lost = run.lost
       /\ r.left = run.left - z /\ r.read = run.read + z /\ r.pages = run.pages + z
  BY <1>1, <1>2, <1>9, <1>11 DEF Run
<1> HIDE DEF r, v
<1>13. /\ DOMAIN row' = Book /\ row'[b][c] = v
       /\ \A a \in Book : DOMAIN row'[a] = Chunk(a) /\ \A d \in Chunk(a) : row'[a][d] \in Row
       /\ \A a \in Book : \A d \in Chunk(a) : a # b \/ d # c => row'[a][d] = row[a][d]
  BY <1>2, <1>3, <1>6, RowWritten
<1>14. JobsGo /\ NoneRecorded
  BY <1>2 DEF JobsGo, NoneRecorded
<1>15. ASSUME NEW j \in DOMAIN jobs
       PROVE  LET a == jobs[j].book  d == jobs[j].chunk IN
              /\ row'[a][d].job = row[a][d].job
              /\ Forgotten(j) => Forgotten(j)'
  <2> DEFINE a == jobs[j].book
             d == jobs[j].chunk
  <2>1. a \in Book /\ d \in Chunk(a)
    BY JobsFacts DEF PInv, Types
  <2>2. row'[a][d] = row[a][d] \/ (row'[a][d] = v /\ row[a][d] = [st |-> "submitted", job |-> k])
    BY <1>4, <1>13, <2>1
  <2>3. row'[a][d].job = row[a][d].job
    BY <1>6, <2>2
  <2>4. Forgotten(j) => Forgotten(j)'
    BY <1>2, <2>2 DEF Forgotten
  <2> QED BY <2>3, <2>4
<1>16. Types'
  BY <1>2, <1>12, <1>13 DEF PInv, Types
<1>17. RowsOK'
  <2> SUFFICES ASSUME NEW a \in Book, NEW d \in Chunk(a) PROVE RowOK(a, d)'
    BY DEF RowsOK
  <2>1. RowOK(a, d)
    BY DEF PInv, RowsOK
  <2>2. CASE a # b \/ d # c
    BY <1>2, <1>13, <1>14, <2>1, <2>2, RowKept
  <2>3. CASE a = b /\ d = c
    BY <1>2, <1>3, <1>4, <1>6, <1>13, <2>3 DEF RowOK, IsJobOf
  <2> QED BY <2>2, <2>3
<1>18. AtHand'
  BY <1>2, <1>3, <1>12 DEF AtHand, AtJob
<1>19. Lined'
  <2>1. run.inherited \/ \A q \in Members(s) : Matches(file[b][q], run.model)
    BY <1>4, <1>7, <1>8 DEF Matches
  <2>2. run'.inherited \/ \A q \in Members(run'.ready) : Matches(file[run.book][q], run.model)'
    BY <1>2, <1>12, <2>1 DEF Matches
  <2> QED BY <1>2, <1>8, <1>12, <2>2 DEF Lined
<1>20. Budget'
  <2>1. run.left + run.read - run.lost = RunPages /\ run.read - run.lost >= run.pages
    BY <1>2 DEF PInv, Budget
  <2>2. /\ (run.left - z) + (run.read + z) - run.lost = RunPages
        /\ (run.read + z) - run.lost >= run.pages + z
    BY <1>10, <2>1
  <2> QED BY <1>2, <1>12, <2>2 DEF Budget, Active
<1>21. TreeOK'
  <2>1. \A a \in Book : OnlyHead(a)
    BY <1>1, <1>2, <1>4, <1>6, <1>14, HeadWritten DEF Split
  <2>2. \A a \in Book : Queued(a)' \subseteq Queued(a)
    BY <1>1, <1>2, <1>3, <1>12 DEF Queued, Active
  <2> QED BY <1>2, <2>1, <2>2, TreeMoves, TreeThen
<1>22. Followed' /\ PaidOnce'
  BY <1>14, <1>15, FollowedKept, PaidOnceKept DEF ForgottenStay
<1>23. ConversionIsWhole'
  BY <1>2 DEF PInv, ConversionIsWhole
<1> QED BY <1>16, <1>17, <1>18, <1>19, <1>20, <1>21, <1>22, <1>23 DEF PInv

\* What is known of the chunk whose job failed, stalled or was not accepted.
LEMMA CutUp ==
  ASSUME PInv, SplitFailed
  PROVE  /\ Active /\ run.queue # <<>> /\ Size(c0) > 1 /\ ~Split(row, run.book, c0)
         /\ run.inherited \in BOOLEAN /\ (faults' = faults \/ Fault)
         /\ \/ run.job = 0 /\ jobs' = jobs
            \/ /\ run.job # 0 /\ IsJobOf(run.job, run.book, c0) /\ jobs[run.job].recorded
               /\ TheRow.job = run.job
               /\ jobs' = [jobs EXCEPT ![run.job] = [jobs[run.job] EXCEPT !.dropped = TRUE]]
<1>1. Size(c0) > 1 /\ (run.pc = "poll" \/ Fresh) /\ (faults' = faults \/ Fault)
  BY DEF SplitFailed, JobFails, JobStalls, SubmitFails, MaySplit, At
<1>2. Active /\ run.inherited \in BOOLEAN
  BY <1>1, RunFields DEF Fresh, Takes, At, Active, PInv, Types
<1>3. CASE run.pc = "poll"
  <2>1. /\ run.queue # <<>> /\ run.job # 0 /\ IsJobOf(run.job, run.book, c0)
        /\ TheRow = [st |-> "submitted", job |-> run.job]
    BY <1>3 DEF PInv, AtHand, AtJob
  <2>2. TheRow = row[run.book][c0] /\ RowOK(run.book, c0)
    BY <1>2, <2>1, QueueAtHand
  <2>3. ~Split(row, run.book, c0) /\ TheRow.job = run.job /\ jobs[run.job].recorded
    BY <2>1, <2>2 DEF Split, RowOK
  <2>4. jobs' = [jobs EXCEPT ![run.job] = [jobs[run.job] EXCEPT !.dropped = TRUE]]
    BY <2>1 DEF SplitFailed
  <2> QED BY <1>1, <1>2, <2>1, <2>3, <2>4
<1>4. CASE Fresh
  <2>1. run.queue # <<>> /\ run.pc = "take"
    BY <1>4 DEF Fresh, Takes, At
  <2>2. run.job = 0
    BY <2>1 DEF PInv, AtHand, AtJob
  <2>3. jobs' = jobs
    BY <2>2 DEF SplitFailed
  <2> QED BY <1>1, <1>2, <1>4, <2>1, <2>2, <2>3, FreshChunk
<1> QED BY <1>1, <1>3, <1>4

LEMMA SplitFailedOK ==
  ASSUME PInv, SplitFailed
  PROVE  PInv'
<1> DEFINE v == [st |-> "failed_split", job |-> run.job]
           q == InHalves
           r == [run EXCEPT !.pc = "take", !.queue = q, !.job = 0]
<1>1. PICK b, k, c : b = run.book /\ k = run.job /\ c = c0
  OBVIOUS
<1>2. /\ Active /\ run \in Run /\ run.queue # <<>> /\ Size(c) > 1 /\ ~Split(row, b, c)
      /\ Write(b, c, v) /\ run' = r /\ file' = file /\ doc' = doc
      /\ faults' = faults \/ Fault
  <2>1. run' = r /\ file' = file /\ doc' = doc /\ Write(run.book, c0, v)
    BY DEF SplitFailed
  <2>2. run \in Run
    BY DEF PInv, Types
  <2> HIDE DEF r, v
  <2> QED BY <1>1, <2>1, <2>2, CutUp
<1>3. /\ b \in Book /\ c \in Chunk(b) /\ TheRow = row[b][c] /\ RowOK(b, c)
      /\ Queued(b) = Members(run.queue)
      /\ Members(run.queue) = {c} \cup Members(Tail(run.queue))
  BY <1>1, <1>2, QueueAtHand
<1>4. \/ k = 0 /\ jobs' = jobs
      \/ /\ k # 0 /\ IsJobOf(k, b, c) /\ jobs[k].recorded /\ row[b][c].job = k
         /\ jobs' = [jobs EXCEPT ![k] = [jobs[k] EXCEPT !.dropped = TRUE]]
  BY <1>1, <1>3, CutUp
<1>5. k \in Nat /\ v \in Row /\ v.st = "failed_split" /\ v.job = k
  BY <1>1, <1>2, RunFields DEF Row
<1>6. /\ Line(Chunk(b), q) /\ Before(run.ready, q)
      /\ Cover(run.ready) \cup Cover(q) = Range(Selection[b]) /\ q \in Seq(Nat \X Nat)
      /\ Members(q) = Members(Kids(b, c)) \cup Members(Tail(run.queue))
  BY <1>1, <1>2, HalvesTakePlace
<1> HIDE DEF q
<1>7. /\ r \in Run /\ r.pc = "take" /\ r.job = 0 /\ r.inherited = run.inherited
      /\ r.book = b /\ r.queue = q /\ r.ready = run.ready /\ r.model = run.model
      /\ r.left = run.left /\ r.read = run.read /\ r.lost = run.lost /\ r.pages = run.pages
  BY <1>1, <1>2, <1>6 DEF Run
<1> HIDE DEF r
<1>8. /\ JobsGo /\ jobs' \in Seq(Job) /\ DOMAIN jobs' = DOMAIN jobs
      /\ \A j \in DOMAIN jobs : jobs'[j].recorded = jobs[j].recorded
      /\ k # 0 => k \in DOMAIN jobs' /\ jobs'[k].dropped
  <2>1. CASE k = 0 /\ jobs' = jobs
    BY <2>1 DEF JobsGo, PInv, Types
  <2>2. CASE /\ k # 0 /\ IsJobOf(k, b, c)
             /\ jobs' = [jobs EXCEPT ![k] = [jobs[k] EXCEPT !.dropped = TRUE]]
    <3> DEFINE e == [jobs[k] EXCEPT !.dropped = TRUE]
    <3>1. k \in DOMAIN jobs /\ jobs[k] \in Job
      BY <2>2, JobsFacts DEF IsJobOf, PInv, Types
    <3>2. /\ e \in Job /\ e.book = jobs[k].book /\ e.chunk = jobs[k].chunk
          /\ e.model = jobs[k].model /\ e.recorded = jobs[k].recorded /\ e.dropped
      BY <3>1 DEF Job
    <3>3. jobs' = [jobs EXCEPT ![k] = e]
      BY <2>2
    <3> HIDE DEF e
    <3> QED BY <2>2, <3>1, <3>2, <3>3, JobFlagged
  <2> QED BY <1>4, <2>1, <2>2
<1>9. NoneRecorded
  BY <1>8 DEF NoneRecorded
<1>10. /\ DOMAIN row' = Book /\ row'[b][c] = v
       /\ \A a \in Book : DOMAIN row'[a] = Chunk(a) /\ \A d \in Chunk(a) : row'[a][d] \in Row
       /\ \A a \in Book : \A d \in Chunk(a) : a # b \/ d # c => row'[a][d] = row[a][d]
  BY <1>2, <1>3, <1>5, RowWritten
\* A job the row forgets; every other one is where it was.
<1>11. ASSUME NEW j \in DOMAIN jobs
       PROVE  /\ Forgotten(j) => Forgotten(j)'
              /\ row[jobs[j].book][jobs[j].chunk].job = j =>
                   \/ row'[jobs[j].book][jobs[j].chunk].job = j \/ jobs'[j].dropped \/ Forgotten(j)'
  <2> DEFINE a == jobs[j].book
             d == jobs[j].chunk
  <2>1. a \in Book /\ d \in Chunk(a)
    BY JobsFacts DEF PInv, Types
  <2>2. jobs'[j].book = a /\ jobs'[j].chunk = d
    BY <1>8 DEF JobsGo
  <2>3. CASE a # b \/ d # c
    <3>1. row'[a][d] = row[a][d]
      BY <1>10, <2>1, <2>3
    <3> QED BY <2>2, <3>1 DEF Forgotten
  <2>4. CASE a = b /\ d = c
    <3>1. ~Forgotten(j)
      BY <1>2, <2>4 DEF Forgotten, Split
    <3>2. k = 0 => Forgotten(j)'
      BY <1>1, <1>10, <2>2, <2>4 DEF Forgotten
    <3>3. k # 0 /\ row[a][d].job = j => jobs'[j].dropped
      BY <1>4, <1>8, <2>4
    <3> QED BY <3>1, <3>2, <3>3
  <2> QED BY <2>3, <2>4
<1> HIDE DEF v
<1>12. ForgottenStay
  BY <1>11 DEF ForgottenStay
<1>13. Types'
  <2>1. faults' \in 0 .. FaultBound
    BY <1>2, ConstantFacts DEF PInv, Types, Fault
  <2> QED BY <1>2, <1>7, <1>8, <1>10, <2>1 DEF PInv, Types
<1>14. RowsOK'
  <2> SUFFICES ASSUME NEW a \in Book, NEW d \in Chunk(a) PROVE RowOK(a, d)'
    BY DEF RowsOK
  <2>1. RowOK(a, d)
    BY DEF PInv, RowsOK
  <2>2. CASE a # b \/ d # c
    BY <1>2, <1>8, <1>10, <2>1, <2>2, RowKept
  <2>3. CASE a = b /\ d = c
    <3>1. \A j : IsJobOf(j, b, c) => IsJobOf(j, b, c)'
      BY <1>8, JobsKept
    <3>2. k # 0 => IsJobOf(k, b, c)' /\ jobs'[k].recorded /\ jobs'[k].dropped
      BY <1>4, <1>8, <3>1 DEF IsJobOf
    <3> QED BY <1>2, <1>3, <1>5, <1>10, <2>3, <3>1, <3>2 DEF RowOK
  <2> QED BY <2>2, <2>3
<1>15. AtHand'
  BY <1>2, <1>3, <1>7 DEF AtHand, AtJob
<1>16. Lined'
  <2>1. \/ run.inherited
        \/ \A x \in Members(run.ready) : x \in Chunk(b) /\ Matches(file[b][x], run.model)
    BY <1>1, <1>2 DEF PInv, Lined, Line, Members
  <2>2. ASSUME NEW x \in Chunk(b), Matches(file[b][x], run.model)
        PROVE  Matches(file[run.book][x], run.model)'
    <3>1. RowOK(b, x)
      BY <1>3 DEF PInv, RowsOK
    <3>2. file[b][x] \in DOMAIN jobs /\ file[b][x] # 0 /\ jobs[file[b][x]].model = run.model
      BY <2>2, <3>1 DEF RowOK, IsJobOf, Matches
    <3>3. jobs'[file[b][x]].model = run.model
      BY <1>8, <3>2 DEF JobsGo
    <3> QED BY <1>2, <1>7, <3>2, <3>3 DEF Matches
  <2>3. run'.inherited \/ \A x \in Members(run'.ready) : Matches(file[run.book][x], run.model)'
    <3> SUFFICES ASSUME ~run'.inherited, NEW x \in Members(run'.ready)
                 PROVE  Matches(file[run.book][x], run.model)'
      OBVIOUS
    <3>1. ~run.inherited /\ x \in Members(run.ready)
      BY <1>2, <1>7
    <3> QED BY <2>1, <2>2, <3>1
  <2>4. Line(Chunk(b), run.ready)
    BY <1>1, <1>2 DEF PInv, Lined
  <2> QED BY <1>2, <1>6, <1>7, <2>3, <2>4 DEF Lined
<1>17. Budget'
  <2>1. Active'
    BY <1>2, <1>7 DEF Active
  <2> QED BY <1>2, <1>7, <2>1 DEF PInv, Budget, Active
<1>18. TreeOK'
  <2>1. \A a \in Book : OnlyHead(a)
    BY <1>1, <1>2, <1>5, <1>8, HeadWritten
  <2>2. ASSUME NEW a \in Book
        PROVE  /\ \A d \in Used(a)' \cup Queued(a) : OnTree(row', a, d)
               /\ \A x \in Queued(a) : Clear(row', Used(a)', a, x)
    BY <1>2, <2>1, TreeMoves
  <2>3. Split(row', b, c) /\ c \in Queued(b)
    BY <1>3, <1>5, <1>10 DEF Split
  <2>4. Grown(row', Used(b)', b)
    <3>1. \A d \in Chunk(b) : Split(row', b, d) => d \in Used(b)'
      BY DEF Split, Used
    <3>2. Used(b)' \subseteq Chunk(b)
      BY <1>3, <2>1 DEF OnlyHead
    <3> QED BY <1>3, <2>2, <3>1, <3>2 DEF Grown
  <2>5. ASSUME NEW x \in Members(Kids(b, c))
        PROVE  OnTree(row', b, x) /\ Clear(row', Used(b)', b, x)
    BY <1>2, <1>3, <2>2, <2>3, <2>4, KidOnTree
  <2>6. \A a \in Book : \A x \in Queued(a)' :
           x \in Queued(a) \/ (a = b /\ x \in Members(Kids(b, c)))
    BY <1>1, <1>2, <1>3, <1>6, <1>7 DEF Queued, Active
  <2>7. ASSUME NEW a \in Book
        PROVE  /\ \A d \in Used(a)' \cup Queued(a)' : OnTree(row', a, d)
               /\ \A x \in Queued(a)' : Clear(row', Used(a)', a, x)
    BY <2>2, <2>5, <2>6
  <2> QED BY <2>7, TreeThen
<1>19. Followed' /\ PaidOnce'
  BY <1>8, <1>9, <1>11, <1>12, FollowedKept, PaidOnceKept
<1>20. ConversionIsWhole'
  BY <1>2 DEF PInv, ConversionIsWhole
<1> QED BY <1>13, <1>14, <1>15, <1>16, <1>17, <1>18, <1>19, <1>20 DEF PInv

-----------------------------------------------------------------------------
(* Every step, and what the invariant says.                                   *)

\* Init establishes the invariant and every step of a run, of Baidu or of the calendar
\* keeps it.
LEMMA NextOK ==
  ASSUME PInv, [Next]_vars
  PROVE  PInv'
<1>1. CASE \E m \in Model : StartRun(m)
  BY <1>1, StartRunOK
<1>2. CASE PassOver \/ Exhausted \/ Raise \/ DownloadFails \/ Stop \/ AssemblyRefused
  BY <1>2, PassOverOK, LeavesOK
<1>3. CASE Open \/ UseCached \/ SplitAgain \/ Resume \/ Polled \/ Assemble
  BY <1>3, OpenOK, UseCachedOK, SplitAgainOK, ResumeOK, PolledOK, AssembleOK
<1>4. CASE Submit \/ SubmitReplyLost
  BY <1>4, SubmitOK, SubmitReplyLostOK
<1>5. CASE Record \/ Download \/ RecordDone \/ SplitFailed
  BY <1>5, RecordOK, DownloadOK, RecordDoneOK, SplitFailedOK
<1>6. CASE \E j \in DOMAIN jobs : Finish(j) \/ Fail(j)
  BY <1>6, BaiduOK
<1>7. CASE UNCHANGED vars
  <2>1. /\ UNCHANGED <<row, file, doc, run>> /\ faults' = faults /\ jobs' = jobs
    BY <1>7 DEF vars
  <2>2. jobs \in Seq(Job)
    BY DEF PInv, Types
  <2> QED BY <2>1, <2>2, JobsStay
<1> QED BY <1>1, <1>2, <1>3, <1>4, <1>5, <1>6, <1>7 DEF Next, Step

LEMMA InvariantIsRight ==
  ASSUME PInv
  PROVE  PaddleIsRight
<1>1. TypeOK
  <2>1. DOMAIN jobs = 1 .. Len(jobs) /\ Len(jobs) \in Nat
    BY JobsFacts DEF PInv, Types
  <2>2. ASSUME NEW b \in Book, NEW c \in Chunk(b)
        PROVE  /\ row[b][c].st \in {"none", "submitted", "done", "failed_split"}
               /\ row[b][c].job \in 0 .. Len(jobs) /\ file[b][c] \in 0 .. Len(jobs)
               /\ row[b][c].st \in {"submitted", "done"} => row[b][c].job # 0
               /\ row[b][c].st = "done" => file[b][c] = row[b][c].job
               /\ file[b][c] # 0 => jobs[file[b][c]].book = b /\ jobs[file[b][c]].chunk = c
    <3>1. row[b][c] \in Row /\ file[b][c] \in Nat
      BY DEF PInv, Types
    <3>2. RowOK(b, c)
      BY DEF PInv, RowsOK
    <3> QED BY <2>1, <3>1, <3>2 DEF Row, RowOK, IsJobOf
  <2>3. /\ run.pc \in {"idle", "open", "take", "record", "poll", "download", "written"}
        /\ run.left \in Nat /\ run.read \in Nat /\ run.lost \in Nat /\ run.pages \in Nat
    BY RunFields DEF PInv, Types
  <2>4. run.pc \in {"record", "poll", "download", "written"} <=> run.job # 0
    BY DEF PInv, AtHand, AtJob
  <2>5. run.left \in 0 .. RunPages
    BY <2>3, ConstantFacts DEF PInv, Budget
  <2>6. faults \in 0 .. FaultBound
    BY DEF PInv, Types
  <2> QED BY <2>2, <2>3, <2>4, <2>5, <2>6 DEF TypeOK
<1>2. BudgetKept
  <2>1. run.left \in Nat /\ run.read \in Nat /\ run.lost \in Nat
    BY RunFields DEF PInv, Types
  <2> QED BY <2>1, ConstantFacts DEF PInv, Budget, BudgetKept
<1> QED BY <1>1, <1>2 DEF PInv, PaddleIsRight

\* The inductive invariant of the Paddle route.
THEOREM PaddleInvariant == Spec => []PInv
<1>1. Init => PInv
  BY InitOK
<1>2. PInv /\ [Next]_vars => PInv'
  BY NextOK
<1> QED BY <1>1, <1>2, PTL DEF Spec

\* The conversion of a PDF holds the pages that were asked for, once and in order, no page
\* is paid for twice, and no run reads more than its budget: for any PDFs, any upload limit,
\* and runs of any models that fail, lose replies or die between any two steps.
THEOREM PaddleStaysRight == Spec => []PaddleIsRight
<1>1. PInv => PaddleIsRight
  BY InvariantIsRight
<1> QED BY <1>1, PaddleInvariant, PTL
-----------------------------------------------------------------------------
(* The folder converter.  As long as no file that is added takes the plain    *)
(* name from one behind it, every book keeps one name, and what lies under    *)
(* that name is its own: the invariant says so of each book alone, and a step *)
(* of one book leaves the others' names alone.                                *)

Known == Early \cup Late

\* The name a book has in every run.
NameOf(f) == IF \E h \in Early : Base[h] = Base[f] /\ Rank(h) < Rank(f)
             THEN <<Base[f], f>> ELSE <<Base[f], None>>
Out(f) == dir[NameOf(f)]
Scratch(f) == temp[NameOf(f)]

Piece == (File \X Nat) \cup {None}
Output == [done : SUBSET ChunkNo, owner : File \cup {None}, text : Seq(Piece),
           route : {"text", "ocr", None}, assets : BOOLEAN]
Work == [pdf : [ChunkNo -> Piece], jsonl : [ChunkNo -> Piece]]
Texts == {"text", "write", "state"}
Posting == {"chunk", "poll", "save", "drop"}
Cli == [on : BOOLEAN, name : [File -> Name \cup {None}], route : [File -> {"text", "ocr", None}],
        pc : [File -> {"off", "queued", "open", "done", "failed"} \cup Texts \cup Posting],
        c : [File -> Nat], bytes : [File -> Piece], done : [File -> SUBSET ChunkNo]]
Count == [faults : Nat, edits : Nat, jobs : [File -> Nat], routes : [File -> Nat]]

FolderTypes ==
  /\ folder \in [File -> [here : BOOLEAN, route : {"text", "ocr"}]]
  /\ dir \in [Name -> Output] /\ temp \in [Name -> Work] /\ cli \in Cli /\ count \in Count

\* What is on disk under the name of f.
OnDisk(f) ==
  /\ Out(f).owner \in {None, f} /\ (Out(f).owner = None => Out(f).done = {})
  /\ Out(f).done \subseteq 1 .. Chunks[f]
  /\ \A c \in Out(f).done : Scratch(f).jsonl[c] = <<f, c>>
  /\ \A c \in 1 .. Chunks[f] : Scratch(f).pdf[c] \in {None, <<f, c>>}

\* What the run knows of f.
InRun(f) ==
  cli.pc[f] # "off" =>
    /\ f \in Present /\ cli.name[f] = NameOf(f) /\ cli.route[f] = folder[f].route
    /\ cli.pc[f] \in Texts => cli.route[f] = "text"
    /\ cli.pc[f] \in Posting \cup {"open"} => cli.route[f] = "ocr"

\* What holds at each label of the text route ...
Reading(f) ==
  /\ cli.pc[f] \in {"write", "state"} => ~Out(f).assets
  /\ cli.pc[f] = "state" => Out(f).text = << <<f, 0>> >>
  /\ cli.pc[f] = "done" =>
       /\ Out(f).text = IF cli.route[f] = "text" THEN << <<f, 0>> >> ELSE Own(f)
       /\ Out(f).route = cli.route[f] /\ (cli.route[f] = "text" => ~Out(f).assets)

\* ... and of the OCR route.
OutForOcr(f) == cli.pc[f] \in {"poll", "save"}
Chunking(f) ==
  /\ cli.done[f] \subseteq 1 .. Chunks[f]
  /\ cli.pc[f] \in Posting =>
       /\ Out(f).owner = f /\ cli.done[f] = Out(f).done
       /\ \A c \in Pending(f) : Scratch(f).pdf[c] = <<f, c>>
  /\ OutForOcr(f) => cli.c[f] \in Pending(f) /\ cli.bytes[f] = <<f, cli.c[f]>>
  /\ cli.pc[f] = "save" => Scratch(f).jsonl[cli.c[f]] = <<f, cli.c[f]>>
  /\ cli.pc[f] = "drop" => cli.c[f] \in cli.done[f]

\* What has been posted, and what there is to show for it.
Earned(f) == IF folder[f].route = "text" THEN 0
             ELSE Cardinality(Out(f).done) + IF OutForOcr(f) THEN 1 ELSE 0
Paid(f) == count.jobs[f] <= Earned(f) + Chunks[f] * count.routes[f] + count.faults

BookOK(f) == OnDisk(f) /\ InRun(f) /\ Reading(f) /\ Chunking(f) /\ Paid(f)

FolderInv ==
  /\ FolderTypes
  /\ Early \subseteq Present /\ Present \subseteq Known
  /\ cli.on \/ cli = Off
  /\ \A f \in Known : BookOK(f)
  /\ \A f \in File \ Known : count.jobs[f] = 0 /\ cli.pc[f] = "off"
  /\ \A n \in Name : (\E f \in Known : n = NameOf(f)) \/ dir[n].done = {}
  /\ Cardinality(Busy) <= Workers

LEMMA FolderConstants ==
  /\ Order \in Seq(File) /\ Early \cup Late \subseteq File /\ None \notin File
  /\ Known \subseteq File
  /\ \A f \in File : Chunks[f] \in Nat
  /\ Workers \in Nat /\ FolderFaults \in Nat /\ EditBound \in Nat
BY FilesAreListed, FolderIsBounded DEF Known

\* The least of a set of numbers is what Min chooses.
LEMMA MinIsLeast ==
  ASSUME NEW S, S \subseteq Nat, S # {}
  PROVE  Min(S) \in S /\ \A k \in S : Min(S) <= k
<1>1. \E m \in S : \A k \in S : m <= k
  BY Least
<1> QED BY <1>1 DEF Min

\* A file has a place in the order of the folder, and no two files have the same.
LEMMA Ranks ==
  ASSUME NEW f \in File
  PROVE  Rank(f) \in 1 .. Len(Order) /\ Order[Rank(f)] = f
<1> DEFINE I == {i \in 1 .. Len(Order) : Order[i] = f}
<1>1. Order \in Seq(File) /\ DOMAIN Order = 1 .. Len(Order) /\ Len(Order) \in Nat
  BY FolderConstants
<1>2. PICK i \in DOMAIN Order : Order[i] = f
  BY DEF File, ToSet
<1>3. I # {} /\ I \subseteq Nat
  BY <1>1, <1>2
<1>4. Rank(f) = Min(I)
  BY <1>3 DEF Rank, SelectInSeq
<1> HIDE DEF I
<1>5. Rank(f) \in I
  BY <1>3, <1>4, MinIsLeast
<1> QED BY <1>5 DEF I

LEMMA RanksDiffer ==
  ASSUME NEW f \in File, NEW g \in File, f # g
  PROVE  Rank(f) \in Nat /\ Rank(g) \in Nat /\ (Rank(f) < Rank(g) \/ Rank(g) < Rank(f))
<1>1. Rank(f) \in Nat /\ Rank(g) \in Nat
  BY Ranks
<1>2. Rank(f) # Rank(g)
  BY Ranks
<1> QED BY <1>1, <1>2

\* Every file that may come has one name, and a name of its own.
LEMMA NamesDiffer ==
  ASSUME NamesStay, NEW f \in Known, NEW g \in Known, f # g
  PROVE  NameOf(f) # NameOf(g)
<1>1. f \in File /\ g \in File /\ f # None /\ g # None
  BY FolderConstants
<1>2. ASSUME NEW x \in Known, NEW y \in Known, Rank(x) < Rank(y), Base[x] = Base[y]
      PROVE  NameOf(x) # NameOf(y)
  <2>1. x \in File /\ y \in File /\ x # None /\ y # None
    BY FolderConstants
  <2>2. NameOf(y) = <<Base[y], y>>
    <3>1. CASE x \in Early
      BY <1>2, <3>1 DEF NameOf
    <3>2. CASE x \in Late
      <4>1. PICK h \in Early : Base[h] = Base[x] /\ Rank(h) < Rank(x)
        BY <1>2, <2>1, <3>2 DEF NamesStay
      <4>2. Rank(h) \in Nat /\ Rank(x) \in Nat /\ Rank(y) \in Nat
        <5>1. h \in File
          BY FilesAreListed
        <5>2. Rank(h) \in 1 .. Len(Order) /\ Rank(x) \in 1 .. Len(Order)
              /\ Rank(y) \in 1 .. Len(Order)
          BY <2>1, <5>1, Ranks
        <5> QED BY <5>2
      <4>3. Rank(h) < Rank(y)
        BY <1>2, <4>1, <4>2
      <4> QED BY <1>2, <4>1, <4>3 DEF NameOf
    <3> QED BY <3>1, <3>2 DEF Known
  <2>3. x # y
    BY <1>2, <2>1, Ranks
  <2> QED BY <2>1, <2>2, <2>3 DEF NameOf
<1>3. CASE Base[f] = Base[g]
  BY <1>1, <1>2, <1>3, RanksDiffer
<1>4. CASE Base[f] # Base[g]
  BY <1>4 DEF NameOf
<1> QED BY <1>3, <1>4

LEMMA NameIsName ==
  ASSUME NEW f \in File
  PROVE  NameOf(f) \in Name
BY DEF NameOf, Name

\* What assign_output_names gives a file is the name it always has.
LEMMA AssignedNames ==
  ASSUME NamesStay, Early \subseteq Present, Present \subseteq Known, NEW f \in Present
  PROVE  AssignNames[f] = NameOf(f)
<1> DEFINE before == {g \in Present : Base[g] = Base[f] /\ Rank(g) < Rank(f)}
<1>1. AssignNames[f] = IF before = {} THEN <<Base[f], None>> ELSE <<Base[f], f>>
  BY DEF AssignNames
<1>2. ASSUME NEW g \in before PROVE \E h \in Early : Base[h] = Base[f] /\ Rank(h) < Rank(f)
  <2>0. g \in Known /\ f \in File /\ g \in File
    BY FolderConstants
  <2>1. CASE g \in Early
    BY <2>1
  <2>2. CASE g \in Late
    <3>1. PICK h \in Early : Base[h] = Base[g] /\ Rank(h) < Rank(g)
      BY <2>0, <2>2 DEF NamesStay
    <3>2. Rank(h) \in Nat /\ Rank(g) \in Nat /\ Rank(f) \in Nat
      BY <2>0, Ranks, FolderConstants
    <3> QED BY <3>1, <3>2
  <2> QED BY <2>0, <2>1, <2>2 DEF Known
<1>3. ASSUME NEW h \in Early, Base[h] = Base[f], Rank(h) < Rank(f) PROVE h \in before
  BY <1>3
<1>4. before # {} <=> \E h \in Early : Base[h] = Base[f] /\ Rank(h) < Rank(f)
  BY <1>2, <1>3
<1> HIDE DEF before
<1> QED BY <1>1, <1>4 DEF NameOf

LEMMA FilesAreFinite == IsFiniteSet(File)
<1>1. Order \in Seq(File) /\ Len(Order) \in Nat
  BY FolderConstants
<1>2. IsFiniteSet(1 .. Len(Order))
  BY <1>1, FS_Interval
<1>3. Order \in Surjection(1 .. Len(Order), File)
  <2>1. Order \in [1 .. Len(Order) -> File]
    BY <1>1
  <2>2. \A f \in File : \E i \in 1 .. Len(Order) : Order[i] = f
    BY <1>1 DEF File, ToSet
  <2> QED BY <2>1, <2>2 DEF Surjection
<1> QED BY <1>2, <1>3, FS_Surjection

LEMMA BusyIsFinite ==
  /\ IsFiniteSet(Busy) /\ Cardinality(Busy) \in Nat
  /\ \A f \in File : Cardinality(Busy \cup {f}) <= Cardinality(Busy) + 1
<1>1. Busy \subseteq File
  BY DEF Busy
<1>2. IsFiniteSet(Busy)
  BY <1>1, FilesAreFinite, FS_Subset
<1>3. Cardinality(Busy) \in Nat
  BY <1>2, FS_CardinalityType
<1>4. ASSUME NEW f \in File PROVE Cardinality(Busy \cup {f}) <= Cardinality(Busy) + 1
  <2>1. Cardinality(Busy \cup {f}) = IF f \in Busy THEN Cardinality(Busy) ELSE Cardinality(Busy) + 1
    BY <1>2, FS_AddElement
  <2> QED BY <1>3, <2>1
<1> QED BY <1>2, <1>3, <1>4

\* The chunks of a book are numbered.
LEMMA ChunkNumbers ==
  ASSUME NEW f \in File, NEW D, D \subseteq 1 .. Chunks[f]
  PROVE  /\ Chunks[f] \in Nat /\ 1 .. Chunks[f] \subseteq ChunkNo /\ 1 .. Chunks[f] \subseteq Nat
         /\ IsFiniteSet(D) /\ Cardinality(D) \in Nat /\ Cardinality(D) <= Chunks[f]
         /\ \A c \in (1 .. Chunks[f]) \ D : /\ Cardinality(D \cup {c}) = Cardinality(D) + 1
                                            /\ Cardinality(D) + 1 <= Chunks[f]
<1>1. Chunks[f] \in Nat
  BY FolderIsBounded
<1>2. 1 .. Chunks[f] \subseteq ChunkNo
  BY DEF ChunkNo
<1>3. IsFiniteSet(1 .. Chunks[f]) /\ Cardinality(1 .. Chunks[f]) = Chunks[f]
  <2>1. /\ IsFiniteSet(1 .. Chunks[f])
        /\ Cardinality(1 .. Chunks[f]) = IF 1 > Chunks[f] THEN 0 ELSE Chunks[f] - 1 + 1
    BY <1>1, FS_Interval, SMTT(30)
  <2> QED BY <1>1, <2>1
<1>4. IsFiniteSet(D) /\ Cardinality(D) <= Chunks[f]
  <2>1. IsFiniteSet(D) /\ Cardinality(D) <= Cardinality(1 .. Chunks[f])
    BY <1>3, FS_Subset
  <2> QED BY <1>3, <2>1
<1>5. Cardinality(D) \in Nat
  BY <1>4, FS_CardinalityType
<1>6. ASSUME NEW c \in (1 .. Chunks[f]) \ D
      PROVE  Cardinality(D \cup {c}) = Cardinality(D) + 1 /\ Cardinality(D) + 1 <= Chunks[f]
  <2>1. Cardinality(D \cup {c}) = Cardinality(D) + 1
    BY <1>4, FS_AddElement
  <2>2. D \cup {c} \subseteq 1 .. Chunks[f]
    OBVIOUS
  <2>3. Cardinality(D \cup {c}) <= Chunks[f]
    BY <1>3, <2>2, FS_Subset
  <2> QED BY <2>1, <2>3
<1> QED BY <1>1, <1>2, <1>4, <1>5, <1>6

-----------------------------------------------------------------------------
(* A step of one book.                                                        *)

\* What a step of another book leaves alone.
Same(g) ==
  /\ Out(g)' = Out(g) /\ Scratch(g)' = Scratch(g) /\ folder' = folder
  /\ cli'.pc[g] = cli.pc[g] /\ cli'.name[g] = cli.name[g] /\ cli'.route[g] = cli.route[g]
  /\ cli'.c[g] = cli.c[g] /\ cli'.bytes[g] = cli.bytes[g] /\ cli'.done[g] = cli.done[g]
  /\ count'.jobs[g] = count.jobs[g] /\ count'.routes[g] = count.routes[g]
  /\ count'.faults \in Nat /\ count.faults <= count'.faults

LEMMA EarnedFacts ==
  ASSUME FolderTypes, NEW g \in Known, OnDisk(g)
  PROVE  /\ Earned(g) \in Nat /\ count.jobs[g] \in Nat /\ count.faults \in Nat
         /\ Chunks[g] * count.routes[g] \in Nat /\ Cardinality(Out(g).done) \in Nat
<1>1. g \in File /\ Chunks[g] \in Nat
  BY FolderConstants
<1>2. /\ count.jobs[g] \in Nat /\ count.faults \in Nat /\ count.routes[g] \in Nat
  BY <1>1 DEF FolderTypes, Count
<1>3. Cardinality(Out(g).done) \in Nat
  BY <1>1, ChunkNumbers DEF OnDisk
<1> QED BY <1>1, <1>2, <1>3 DEF Earned

\* A book that nothing happens to stays as it is.
LEMMA BookStays ==
  ASSUME FolderTypes, NEW g \in Known, BookOK(g), Same(g)
  PROVE  BookOK(g)'
<1>1. OnDisk(g)'
  BY DEF BookOK, OnDisk, Same
<1>2. InRun(g)'
  BY DEF BookOK, InRun, Same, Present
<1>3. Reading(g)'
  BY DEF BookOK, Reading, Same
<1>4. Pending(g)' = Pending(g)
  BY DEF Pending, Same
<1>5. OutForOcr(g)' <=> OutForOcr(g)
  BY DEF OutForOcr, Same
<1>6. Chunking(g)'
  BY <1>4, <1>5 DEF BookOK, Chunking, Same
<1>7. Earned(g)' = Earned(g)
  BY <1>5 DEF Earned, Same
<1>8. Paid(g)'
  BY <1>7, EarnedFacts DEF BookOK, Paid, Same
<1> QED BY <1>1, <1>2, <1>3, <1>6, <1>8 DEF BookOK

\* A step of f alone: under its own name, in its own part of the run.
BookMoves(f) ==
  /\ folder' = folder
  /\ dir' \in [Name -> Output] /\ temp' \in [Name -> Work] /\ cli' \in Cli /\ count' \in Count
  /\ \A n \in Name : n # NameOf(f) => dir'[n] = dir[n] /\ temp'[n] = temp[n]
  /\ cli'.on = cli.on /\ cli'.name = cli.name /\ cli'.route = cli.route
  /\ \A g \in File : g # f => /\ cli'.pc[g] = cli.pc[g] /\ cli'.c[g] = cli.c[g]
                              /\ cli'.bytes[g] = cli.bytes[g] /\ cli'.done[g] = cli.done[g]
                              /\ count'.jobs[g] = count.jobs[g]
  /\ count'.routes = count.routes /\ count.faults <= count'.faults
  /\ cli.pc[f] # "off" /\ (f \in Busy \/ Cardinality(Busy) < Workers)

LEMMA BookMovesOK ==
  ASSUME NamesStay, FolderInv, NEW f \in Known, BookMoves(f), BookOK(f)'
  PROVE  FolderInv'
<1>1. f \in File
  BY FolderConstants
<1>2. FolderTypes'
  BY DEF FolderTypes, FolderInv, BookMoves
<1>3. Present' = Present
  BY DEF Present, BookMoves
<1>4. cli'.on \/ cli' = Off
  <2>1. cli.on
    BY <1>1 DEF FolderInv, BookMoves, Off
  <2> QED BY <2>1 DEF BookMoves
<1>5. ASSUME NEW g \in Known, g # f PROVE BookOK(g)'
  <2>1. g \in File /\ NameOf(g) \in Name /\ NameOf(g) # NameOf(f)
    BY <1>5, FolderConstants, NameIsName, NamesDiffer
  <2>2. count'.faults \in Nat
    BY DEF BookMoves, Count
  <2>3. Same(g)
    BY <1>5, <2>1, <2>2 DEF Same, BookMoves, Out, Scratch
  <2> QED BY <2>3, BookStays DEF FolderInv
<1>6. \A g \in File \ Known : count'.jobs[g] = 0 /\ cli'.pc[g] = "off"
  BY DEF FolderInv, BookMoves
<1>7. \A n \in Name : (\E g \in Known : n = NameOf(g)) \/ dir'[n].done = {}
  BY DEF FolderInv, BookMoves
<1>8. Cardinality(Busy') <= Workers
  <2>1. Busy' \subseteq Busy \cup {f}
    BY DEF Busy, BookMoves
  <2>2. /\ IsFiniteSet(Busy) /\ Cardinality(Busy) \in Nat
        /\ Cardinality(Busy \cup {f}) <= Cardinality(Busy) + 1
    BY <1>1, BusyIsFinite
  <2>3. IsFiniteSet(Busy \cup {f})
    BY <2>2, FS_AddElement
  <2>4. Cardinality(Busy') <= Cardinality(Busy \cup {f}) /\ IsFiniteSet(Busy')
    BY <2>1, <2>3, FS_Subset
  <2>5. Cardinality(Busy') \in Nat /\ Cardinality(Busy \cup {f}) \in Nat /\ Workers \in Nat
    BY <2>3, <2>4, FS_CardinalityType, FolderConstants
  <2>6. Cardinality(Busy) <= Workers
    BY DEF FolderInv
  <2>7. CASE f \in Busy
    <3>1. Busy \cup {f} = Busy
      BY <2>7
    <3> QED BY <2>4, <2>5, <2>6, <3>1
  <2>8. CASE Cardinality(Busy) < Workers
    BY <2>2, <2>4, <2>5, <2>8
  <2> QED BY <2>7, <2>8 DEF BookMoves
<1> QED BY <1>2, <1>3, <1>4, <1>5, <1>6, <1>7, <1>8 DEF FolderInv

\* What is known of a book in a run, and where its step writes.
LEMMA BookInRun ==
  ASSUME FolderInv, NEW f \in File, cli.pc[f] # "off"
  PROVE  /\ f \in Known /\ BookOK(f) /\ FolderTypes /\ f \in Present
         /\ Dir(f) = NameOf(f) /\ NameOf(f) \in Name /\ cli.route[f] = folder[f].route
         /\ Out(f) = dir[NameOf(f)] /\ Scratch(f) = temp[NameOf(f)]
         /\ Out(f) \in Output /\ Scratch(f) \in Work /\ Chunks[f] \in Nat
         /\ cli \in Cli /\ count \in Count
<1>1. f \in Known /\ BookOK(f) /\ FolderTypes
  BY DEF FolderInv
<1>2. f \in Present /\ Dir(f) = NameOf(f) /\ NameOf(f) \in Name /\ cli.route[f] = folder[f].route
  BY <1>1, NameIsName DEF BookOK, InRun, Dir
<1>3. Out(f) \in Output /\ Scratch(f) \in Work
  BY <1>1, <1>2 DEF Out, Scratch, FolderTypes
<1> QED BY <1>1, <1>2, <1>3, FolderConstants DEF Out, Scratch, FolderTypes

LEMMA StartBookOK ==
  ASSUME NamesStay, FolderInv, NEW f \in File, StartBook(f)
  PROVE  FolderInv'
<1> DEFINE p == IF cli.route[f] = "text" THEN "text" ELSE "open"
<1>1. /\ cli.pc[f] = "queued" /\ Cardinality(Busy) < Workers /\ cli' = [cli EXCEPT !.pc[f] = p]
      /\ folder' = folder /\ dir' = dir /\ temp' = temp /\ count' = count
  BY DEF StartBook, BookAt, To
<1>2. /\ f \in Known /\ BookOK(f) /\ FolderTypes /\ f \in Present
      /\ cli.name[f] = NameOf(f) /\ cli.route[f] = folder[f].route /\ cli \in Cli
  BY <1>1, BookInRun DEF Dir
<1>3. /\ cli' \in Cli /\ cli'.on = cli.on /\ cli'.name = cli.name /\ cli'.route = cli.route
      /\ cli'.pc[f] = p /\ \A g \in File : g # f => cli'.pc[g] = cli.pc[g]
      /\ cli'.c = cli.c /\ cli'.bytes = cli.bytes /\ cli'.done = cli.done
  <2>1. p \in {"text", "open"}
    OBVIOUS
  <2> HIDE DEF p
  <2> QED BY <1>1, <1>2, <2>1 DEF Cli, Texts
<1>4. count.faults <= count'.faults
  BY <1>1, <1>2 DEF FolderTypes, Count
<1>5. BookMoves(f)
  BY <1>1, <1>2, <1>3, <1>4 DEF BookMoves, FolderTypes
<1>6. folder[f].route \in {"text", "ocr"}
  BY <1>2 DEF FolderTypes
<1>7. OnDisk(f)' /\ Out(f)' = Out(f) /\ Scratch(f)' = Scratch(f)
  BY <1>1, <1>2 DEF BookOK, OnDisk, Out, Scratch
<1>8. InRun(f)'
  BY <1>1, <1>2, <1>3, <1>6 DEF InRun, Texts, Posting, Present
<1>9. Reading(f)' /\ ~OutForOcr(f)' /\ ~OutForOcr(f)
  BY <1>1, <1>3 DEF Reading, OutForOcr
<1>10. Chunking(f)'
  BY <1>1, <1>2, <1>3, <1>9 DEF BookOK, Chunking, Posting
<1>11. Paid(f)'
  BY <1>1, <1>2, <1>7, <1>9 DEF BookOK, Paid, Earned
<1> QED BY <1>2, <1>5, <1>7, <1>8, <1>9, <1>10, <1>11, BookMovesOK DEF BookOK

LEMMA DropAssetsOK ==
  ASSUME NamesStay, FolderInv, NEW f \in File, DropAssets(f)
  PROVE  FolderInv'
<1> DEFINE n == NameOf(f)
<1>1. /\ cli.pc[f] = "text" /\ cli' = [cli EXCEPT !.pc[f] = "write"]
      /\ folder' = folder /\ temp' = temp /\ count' = count
      /\ dir' = [dir EXCEPT ![Dir(f)].assets = FALSE]
  BY DEF DropAssets, BookAt, To
<1>2. /\ f \in Known /\ BookOK(f) /\ FolderTypes /\ f \in Present
      /\ Dir(f) = n /\ n \in Name /\ cli.route[f] = folder[f].route
      /\ Out(f) = dir[n] /\ Out(f) \in Output /\ cli \in Cli
  BY <1>1, BookInRun
<1>3. /\ cli' \in Cli /\ cli'.on = cli.on /\ cli'.name = cli.name /\ cli'.route = cli.route
      /\ cli'.pc[f] = "write" /\ \A g \in File : g # f => cli'.pc[g] = cli.pc[g]
      /\ cli'.c = cli.c /\ cli'.bytes = cli.bytes /\ cli'.done = cli.done
  BY <1>1, <1>2 DEF Cli, Texts
<1>4. dir' \in [Name -> Output] /\ \A m \in Name : m # n => dir'[m] = dir[m]
  <2>1. [Out(f) EXCEPT !.assets = FALSE] \in Output
    BY <1>2 DEF Output
  <2>2. dir' = [dir EXCEPT ![n] = [Out(f) EXCEPT !.assets = FALSE]]
    BY <1>1, <1>2
  <2> HIDE DEF n
  <2> QED BY <1>2, <2>1, <2>2 DEF FolderTypes
<1>5. /\ Out(f)'.assets = FALSE /\ Out(f)'.done = Out(f).done /\ Out(f)'.owner = Out(f).owner
      /\ Scratch(f)' = Scratch(f)
  BY <1>1, <1>2 DEF Out, Scratch, FolderTypes, Output
<1>6. f \in Busy /\ count.faults <= count'.faults
  BY <1>1, <1>2 DEF Busy, FolderTypes, Count
<1>7. BookMoves(f)
  BY <1>1, <1>2, <1>3, <1>4, <1>6 DEF BookMoves, FolderTypes
<1>8. OnDisk(f)'
  BY <1>2, <1>5 DEF BookOK, OnDisk
<1>9. cli.route[f] = "text"
  BY <1>1, <1>2 DEF BookOK, InRun, Texts
<1>10. InRun(f)'
  BY <1>1, <1>2, <1>3, <1>9 DEF InRun, Texts, Posting, Present, Dir
<1>11. Reading(f)'
  BY <1>3, <1>5 DEF Reading
<1>12. Chunking(f)'
  BY <1>2, <1>3, <1>5 DEF BookOK, Chunking, Posting, OutForOcr
<1>13. Paid(f)'
  BY <1>1, <1>2, <1>9 DEF BookOK, Paid, Earned
<1> QED BY <1>2, <1>7, <1>8, <1>10, <1>11, <1>12, <1>13, BookMovesOK DEF BookOK

LEMMA WriteTextOK ==
  ASSUME NamesStay, FolderInv, NEW f \in File, WriteText(f)
  PROVE  FolderInv'
<1> DEFINE n == NameOf(f)
           text == << <<f, 0>> >>
<1>1. /\ cli.pc[f] = "write" /\ cli' = [cli EXCEPT !.pc[f] = "state"]
      /\ folder' = folder /\ temp' = temp /\ count' = count
      /\ dir' = [dir EXCEPT ![Dir(f)].text = text]
  BY DEF WriteText, BookAt, To
<1>2. /\ f \in Known /\ BookOK(f) /\ FolderTypes /\ f \in Present
      /\ Dir(f) = n /\ n \in Name /\ cli.route[f] = folder[f].route
      /\ Out(f) = dir[n] /\ Out(f) \in Output /\ cli \in Cli
  BY <1>1, BookInRun
<1>3. /\ cli' \in Cli /\ cli'.on = cli.on /\ cli'.name = cli.name /\ cli'.route = cli.route
      /\ cli'.pc[f] = "state" /\ \A g \in File : g # f => cli'.pc[g] = cli.pc[g]
      /\ cli'.c = cli.c /\ cli'.bytes = cli.bytes /\ cli'.done = cli.done
  BY <1>1, <1>2 DEF Cli, Texts
<1>4. text \in Seq(Piece)
  BY DEF Piece
<1> HIDE DEF text
<1>5. dir' \in [Name -> Output] /\ \A m \in Name : m # n => dir'[m] = dir[m]
  <2>1. [Out(f) EXCEPT !.text = text] \in Output
    BY <1>2, <1>4 DEF Output
  <2>2. dir' = [dir EXCEPT ![n] = [Out(f) EXCEPT !.text = text]]
    BY <1>1, <1>2
  <2> HIDE DEF n
  <2> QED BY <1>2, <2>1, <2>2 DEF FolderTypes
<1>6. /\ Out(f)'.text = text /\ Out(f)'.done = Out(f).done /\ Out(f)'.owner = Out(f).owner
      /\ Out(f)'.assets = Out(f).assets /\ Scratch(f)' = Scratch(f)
  BY <1>1, <1>2 DEF Out, Scratch, FolderTypes, Output
<1>7. f \in Busy /\ count.faults <= count'.faults
  BY <1>1, <1>2 DEF Busy, FolderTypes, Count
<1>8. BookMoves(f)
  BY <1>1, <1>2, <1>3, <1>5, <1>7 DEF BookMoves, FolderTypes
<1>9. OnDisk(f)'
  BY <1>2, <1>6 DEF BookOK, OnDisk
<1>10. cli.route[f] = "text" /\ ~Out(f).assets
  BY <1>1, <1>2 DEF BookOK, InRun, Reading, Texts
<1>11. InRun(f)'
  BY <1>1, <1>2, <1>3, <1>10 DEF InRun, Texts, Posting, Present, Dir
<1>12. Reading(f)'
  BY <1>3, <1>6, <1>10 DEF Reading, text
<1>13. Chunking(f)'
  BY <1>2, <1>3, <1>6 DEF BookOK, Chunking, Posting, OutForOcr
<1>14. Paid(f)'
  BY <1>1, <1>2, <1>10 DEF BookOK, Paid, Earned
<1> QED BY <1>2, <1>8, <1>9, <1>11, <1>12, <1>13, <1>14, BookMovesOK DEF BookOK

LEMMA TextStateOK ==
  ASSUME NamesStay, FolderInv, NEW f \in File, TextState(f)
  PROVE  FolderInv'
<1> DEFINE n == NameOf(f)
           o == [dir[n] EXCEPT !.owner = f, !.done = {}, !.route = "text"]
<1>1. /\ cli.pc[f] = "state" /\ cli' = [cli EXCEPT !.pc[f] = "done"]
      /\ folder' = folder /\ temp' = temp /\ count' = count
      /\ dir' = [dir EXCEPT ![Dir(f)].owner = f, ![Dir(f)].done = {}, ![Dir(f)].route = "text"]
  BY DEF TextState, BookAt, To
<1>2. /\ f \in Known /\ BookOK(f) /\ FolderTypes /\ f \in Present
      /\ Dir(f) = n /\ n \in Name /\ cli.route[f] = folder[f].route
      /\ Out(f) = dir[n] /\ Out(f) \in Output /\ cli \in Cli
  BY <1>1, BookInRun
<1>3. /\ cli' \in Cli /\ cli'.on = cli.on /\ cli'.name = cli.name /\ cli'.route = cli.route
      /\ cli'.pc[f] = "done" /\ \A g \in File : g # f => cli'.pc[g] = cli.pc[g]
      /\ cli'.c = cli.c /\ cli'.bytes = cli.bytes /\ cli'.done = cli.done
  BY <1>1, <1>2 DEF Cli
<1>4. /\ o \in Output /\ o.owner = f /\ o.done = {} /\ o.route = "text"
      /\ o.text = Out(f).text /\ o.assets = Out(f).assets
  BY <1>2 DEF Output
<1>5. dir' = [dir EXCEPT ![n] = o]
  BY <1>1, <1>2 DEF FolderTypes
<1> HIDE DEF n, o
<1>6. dir' \in [Name -> Output] /\ dir'[n] = o /\ \A m \in Name : m # n => dir'[m] = dir[m]
  BY <1>2, <1>4, <1>5 DEF FolderTypes
<1>7. Out(f)' = o /\ Scratch(f)' = Scratch(f)
  BY <1>1, <1>6 DEF Out, Scratch, n
<1>8. f \in Busy /\ count.faults <= count'.faults
  BY <1>1, <1>2 DEF Busy, FolderTypes, Count
<1>9. BookMoves(f)
  BY <1>1, <1>2, <1>3, <1>6, <1>8 DEF BookMoves, FolderTypes, n
<1>10. OnDisk(f)'
  BY <1>2, <1>4, <1>7 DEF BookOK, OnDisk
<1>11. /\ cli.route[f] = "text" /\ ~Out(f).assets /\ Out(f).text = << <<f, 0>> >>
  BY <1>1, <1>2 DEF BookOK, InRun, Reading, Texts
<1>12. InRun(f)'
  BY <1>1, <1>2, <1>3, <1>11 DEF InRun, Texts, Posting, Present, Dir, n
<1>13. Reading(f)'
  BY <1>3, <1>4, <1>7, <1>11 DEF Reading
<1>14. Chunking(f)'
  BY <1>2, <1>3 DEF BookOK, Chunking, Posting, OutForOcr
<1>15. Paid(f)'
  BY <1>1, <1>2, <1>11 DEF BookOK, Paid, Earned
<1> QED BY <1>2, <1>9, <1>10, <1>12, <1>13, <1>14, <1>15, BookMovesOK DEF BookOK

\* At each label of the OCR route.
LEMMA OpenBookOK ==
  ASSUME NamesStay, FolderInv, NEW f \in File, OpenBook(f)
  PROVE  FolderInv'
<1> DEFINE n == NameOf(f)
           o == [dir[n] EXCEPT !.owner = f, !.done = Resumed(f)]
           t == [temp[n] EXCEPT !.pdf = Cut(f)]
<1>1. /\ cli.pc[f] = "open"
      /\ cli' = [cli EXCEPT !.pc[f] = "chunk", !.done[f] = Resumed(f)]
      /\ folder' = folder /\ count' = count
      /\ dir' = [dir EXCEPT ![Dir(f)].owner = f, ![Dir(f)].done = Resumed(f)]
      /\ temp' = [temp EXCEPT ![Dir(f)].pdf = Cut(f)]
  BY DEF OpenBook, BookAt
<1>2. /\ f \in Known /\ BookOK(f) /\ FolderTypes /\ f \in Present
      /\ Dir(f) = n /\ n \in Name /\ cli.route[f] = folder[f].route
      /\ Out(f) = dir[n] /\ Out(f) \in Output /\ Scratch(f) = temp[n] /\ Scratch(f) \in Work
      /\ cli \in Cli /\ Chunks[f] \in Nat
  BY <1>1, BookInRun
<1>3. Resumed(f) = Out(f).done
  BY <1>2 DEF Resumed, BookOK, OnDisk
<1>4. Out(f).done \subseteq 1 .. Chunks[f] /\ Out(f).done \subseteq ChunkNo
  BY <1>2, ChunkNumbers DEF BookOK, OnDisk
<1>5. /\ cli' \in Cli /\ cli'.on = cli.on /\ cli'.name = cli.name /\ cli'.route = cli.route
      /\ cli'.pc[f] = "chunk" /\ cli'.done[f] = Out(f).done
      /\ \A g \in File : g # f => cli'.pc[g] = cli.pc[g] /\ cli'.done[g] = cli.done[g]
      /\ cli'.c = cli.c /\ cli'.bytes = cli.bytes
  BY <1>1, <1>2, <1>3, <1>4 DEF Cli, Posting
<1>6. /\ o \in Output /\ o.owner = f /\ o.done = Out(f).done /\ o.text = Out(f).text
      /\ o.route = Out(f).route /\ o.assets = Out(f).assets
  BY <1>2, <1>3 DEF Output
<1>7. /\ Cut(f) \in [ChunkNo -> Piece]
      /\ \A c \in 1 .. Chunks[f] : Cut(f)[c] = <<f, c>>
  <2>1. /\ \A c \in ChunkNo : Scratch(f).pdf[c] \in Piece
        /\ \A c \in 1 .. Chunks[f] : c \in ChunkNo /\ <<f, c>> \in Piece
    BY <1>2, ChunkNumbers DEF Work, Piece
  <2>2. \A c \in 1 .. Chunks[f] : Scratch(f).pdf[c] \in {None, <<f, c>>}
    BY <1>2 DEF BookOK, OnDisk
  <2> QED BY <1>2, <2>1, <2>2 DEF Cut
<1>8. t \in Work /\ t.pdf = Cut(f) /\ t.jsonl = Scratch(f).jsonl
  BY <1>2, <1>7 DEF Work
<1>9. dir' = [dir EXCEPT ![n] = o] /\ temp' = [temp EXCEPT ![n] = t]
  BY <1>1, <1>2 DEF FolderTypes
<1> HIDE DEF n, o, t
<1>10. /\ dir' \in [Name -> Output] /\ dir'[n] = o /\ temp' \in [Name -> Work] /\ temp'[n] = t
       /\ \A m \in Name : m # n => dir'[m] = dir[m] /\ temp'[m] = temp[m]
  BY <1>2, <1>6, <1>8, <1>9 DEF FolderTypes
<1>11. Out(f)' = o /\ Scratch(f)' = t
  BY <1>10 DEF Out, Scratch, n
<1>12. f \in Busy /\ count.faults <= count'.faults
  <2>1. f \in Busy
    BY <1>1 DEF Busy
  <2>2. count.faults \in Nat
    BY <1>2 DEF FolderTypes, Count
  <2> QED BY <1>1, <2>1, <2>2
<1>13. BookMoves(f)
  BY <1>1, <1>2, <1>5, <1>10, <1>12 DEF BookMoves, FolderTypes, n
<1>14. OnDisk(f)'
  <2>1. o.owner = f /\ o.done \subseteq 1 .. Chunks[f]
    BY <1>4, <1>6
  <2>2. \A c \in o.done : t.jsonl[c] = <<f, c>>
    BY <1>2, <1>6, <1>8 DEF BookOK, OnDisk
  <2>3. \A c \in 1 .. Chunks[f] : t.pdf[c] = <<f, c>>
    BY <1>7, <1>8
  <2>4. f # None
    BY FilesAreListed, <1>2 DEF Known
  <2> QED BY <1>11, <2>1, <2>2, <2>3, <2>4 DEF OnDisk
<1>15. cli.route[f] = "ocr"
  BY <1>1, <1>2 DEF BookOK, InRun
<1>16. InRun(f)'
  BY <1>1, <1>2, <1>5, <1>15 DEF InRun, Texts, Posting, Present, Dir, n
<1>17. Reading(f)' /\ ~OutForOcr(f) /\ ~OutForOcr(f)'
  BY <1>1, <1>5 DEF Reading, OutForOcr
<1>18. Chunking(f)'
  BY <1>4, <1>5, <1>6, <1>7, <1>8, <1>11, <1>17 DEF Chunking, Pending
<1>19. Paid(f)'
  BY <1>1, <1>2, <1>6, <1>11, <1>17 DEF BookOK, Paid, Earned
<1> QED BY <1>2, <1>13, <1>14, <1>16, <1>17, <1>18, <1>19, BookMovesOK DEF BookOK

LEMMA NextPending ==
  ASSUME FolderInv, NEW f \in File, cli.pc[f] = "chunk", Pending(f) # {}
  PROVE  Min(Pending(f)) \in Pending(f) /\ Pending(f) \subseteq Nat /\ Pending(f) \subseteq ChunkNo
<1>1. Pending(f) \subseteq Nat /\ Pending(f) \subseteq ChunkNo
  BY ChunkNumbers DEF Pending
<1> QED BY <1>1, MinIsLeast

\* A job that was posted is one job more, and one result more to come.
LEMMA PostedOK ==
  ASSUME FolderTypes, NEW f \in Known, Paid(f), OnDisk(f), folder' = folder,
         folder[f].route = "ocr", ~OutForOcr(f), OutForOcr(f)', Out(f)' = Out(f),
         count'.jobs[f] = count.jobs[f] + 1, count'.routes = count.routes,
         count'.faults \in Nat, count.faults <= count'.faults
  PROVE  Paid(f)'
<1>1. /\ Earned(f) \in Nat /\ count.jobs[f] \in Nat /\ count.faults \in Nat
      /\ Chunks[f] * count.routes[f] \in Nat /\ Cardinality(Out(f).done) \in Nat
  BY EarnedFacts
<1>2. Earned(f) = Cardinality(Out(f).done) /\ Earned(f)' = Cardinality(Out(f).done) + 1
  BY <1>1 DEF Earned
<1>3. count.jobs[f] <= Cardinality(Out(f).done) + Chunks[f] * count.routes[f] + count.faults
  BY <1>2 DEF Paid
<1>4. count.jobs[f] + 1
        <= Cardinality(Out(f).done) + 1 + Chunks[f] * count.routes[f] + count'.faults
  BY <1>1, <1>3
<1> QED BY <1>2, <1>4 DEF Paid

LEMMA SubmitChunkOK ==
  ASSUME NamesStay, FolderInv, NEW f \in File, SubmitChunk(f)
  PROVE  FolderInv'
<1>0. PICK c : c = Min(Pending(f))
  OBVIOUS
<1>1. /\ cli.pc[f] = "chunk" /\ Pending(f) # {}
      /\ cli' = [cli EXCEPT !.pc[f] = "poll", !.c[f] = c, !.bytes[f] = temp[Dir(f)].pdf[c]]
      /\ folder' = folder /\ dir' = dir /\ temp' = temp
      /\ count' = [count EXCEPT !.jobs[f] = @ + 1]
  BY <1>0 DEF SubmitChunk, BookAt
<1>2. /\ f \in Known /\ BookOK(f) /\ FolderTypes /\ f \in Present
      /\ Dir(f) = NameOf(f) /\ cli.route[f] = folder[f].route /\ Scratch(f) = temp[NameOf(f)]
      /\ cli \in Cli /\ count \in Count
  BY <1>1, BookInRun
<1>3. c \in Pending(f) /\ c \in Nat /\ c \in 1 .. Chunks[f]
  BY <1>0, <1>1, NextPending DEF Pending
<1>4. temp[Dir(f)].pdf[c] = <<f, c>> /\ <<f, c>> \in Piece
  BY <1>1, <1>2, <1>3 DEF BookOK, Chunking, Posting, Piece
<1>5. /\ cli' \in Cli /\ cli'.on = cli.on /\ cli'.name = cli.name /\ cli'.route = cli.route
      /\ cli'.pc[f] = "poll" /\ cli'.c[f] = c /\ cli'.bytes[f] = <<f, c>>
      /\ \A g \in File : g # f => /\ cli'.pc[g] = cli.pc[g] /\ cli'.c[g] = cli.c[g]
                                  /\ cli'.bytes[g] = cli.bytes[g]
      /\ cli'.done = cli.done
  BY <1>1, <1>2, <1>3, <1>4 DEF Cli, Posting
<1>6. /\ count' \in Count /\ count'.routes = count.routes /\ count'.faults = count.faults
      /\ count'.jobs[f] = count.jobs[f] + 1 /\ count.faults \in Nat
      /\ \A g \in File : g # f => count'.jobs[g] = count.jobs[g]
  BY <1>1, <1>2 DEF Count
<1>7. Out(f)' = Out(f) /\ Scratch(f)' = Scratch(f)
  BY <1>1 DEF Out, Scratch
<1>8. f \in Busy
  BY <1>1 DEF Busy
<1>9. BookMoves(f)
  BY <1>1, <1>2, <1>5, <1>6, <1>8 DEF BookMoves, FolderTypes
<1>10. OnDisk(f)'
  BY <1>2, <1>7 DEF BookOK, OnDisk
<1>11. cli.route[f] = "ocr" /\ ~OutForOcr(f) /\ OutForOcr(f)'
  BY <1>1, <1>2, <1>5 DEF BookOK, InRun, Posting, OutForOcr
<1>12. InRun(f)'
  BY <1>1, <1>2, <1>5, <1>11 DEF InRun, Texts, Posting, Present, Dir
<1>13. Reading(f)'
  BY <1>5 DEF Reading
<1>14. Pending(f)' = Pending(f)
  BY <1>5 DEF Pending
<1>15. Chunking(f)'
  BY <1>1, <1>2, <1>3, <1>5, <1>7, <1>14 DEF BookOK, Chunking, Posting
<1>16. Paid(f)'
  <2>1. Paid(f) /\ OnDisk(f) /\ folder[f].route = "ocr"
    BY <1>2, <1>11 DEF BookOK
  <2>2. count.faults <= count'.faults /\ count'.faults \in Nat
    BY <1>6
  <2> QED BY <1>1, <1>2, <1>6, <1>7, <1>11, <2>1, <2>2, PostedOK
<1> QED BY <1>2, <1>9, <1>10, <1>12, <1>13, <1>15, <1>16, BookMovesOK DEF BookOK

LEMMA SubmitAgainOK ==
  ASSUME NamesStay, FolderInv, NEW f \in File, SubmitAgain(f)
  PROVE  FolderInv'
<1> DEFINE n == NameOf(f)
<1>0. PICK c : c = Min(Pending(f))
  OBVIOUS
<1>1. /\ cli.pc[f] = "chunk" /\ Pending(f) # {}
      /\ cli' = [cli EXCEPT !.pc[f] = "poll", !.c[f] = c, !.bytes[f] = <<f, c>>]
      /\ folder' = folder /\ dir' = dir
      /\ temp' = [temp EXCEPT ![Dir(f)].pdf[c] = <<f, c>>]
      /\ count' = [count EXCEPT !.jobs[f] = @ + 1, !.faults = @ + 1]
  BY <1>0 DEF SubmitAgain, BookAt
<1>2. /\ f \in Known /\ BookOK(f) /\ FolderTypes /\ f \in Present
      /\ Dir(f) = n /\ n \in Name /\ cli.route[f] = folder[f].route
      /\ Scratch(f) = temp[n] /\ Scratch(f) \in Work /\ cli \in Cli /\ count \in Count
  BY <1>1, BookInRun
<1>3. c \in Pending(f) /\ c \in Nat /\ c \in 1 .. Chunks[f] /\ c \in ChunkNo
  BY <1>0, <1>1, NextPending DEF Pending
<1>4. <<f, c>> \in Piece
  BY <1>3 DEF Piece
<1>5. /\ cli' \in Cli /\ cli'.on = cli.on /\ cli'.name = cli.name /\ cli'.route = cli.route
      /\ cli'.pc[f] = "poll" /\ cli'.c[f] = c /\ cli'.bytes[f] = <<f, c>>
      /\ \A g \in File : g # f => /\ cli'.pc[g] = cli.pc[g] /\ cli'.c[g] = cli.c[g]
                                  /\ cli'.bytes[g] = cli.bytes[g]
      /\ cli'.done = cli.done
  BY <1>1, <1>2, <1>3, <1>4 DEF Cli, Posting
<1>6. /\ count' \in Count /\ count'.routes = count.routes /\ count'.faults = count.faults + 1
      /\ count'.jobs[f] = count.jobs[f] + 1 /\ count.faults \in Nat
      /\ \A g \in File : g # f => count'.jobs[g] = count.jobs[g]
  <2> DEFINE j == [count.jobs EXCEPT ![f] = @ + 1]
  <2>1. /\ count.jobs \in [File -> Nat] /\ count.faults \in Nat /\ count.faults + 1 \in Nat
        /\ count.routes \in [File -> Nat]
    BY <1>2 DEF Count
  <2>2. /\ j \in [File -> Nat] /\ j[f] = count.jobs[f] + 1
        /\ \A g \in File : g # f => j[g] = count.jobs[g]
    BY <2>1
  <2>3. count' = [count EXCEPT !.jobs = j, !.faults = @ + 1]
    BY <1>1
  <2> HIDE DEF j
  <2> QED BY <1>2, <2>1, <2>2, <2>3 DEF Count
<1>7. /\ temp' \in [Name -> Work] /\ \A m \in Name : m # n => temp'[m] = temp[m]
      /\ temp'[n].jsonl = Scratch(f).jsonl /\ temp'[n].pdf = [Scratch(f).pdf EXCEPT ![c] = <<f, c>>]
  <2> DEFINE t == [Scratch(f) EXCEPT !.pdf = [Scratch(f).pdf EXCEPT ![c] = <<f, c>>]]
  <2>1. /\ t \in Work /\ t.jsonl = Scratch(f).jsonl
        /\ t.pdf = [Scratch(f).pdf EXCEPT ![c] = <<f, c>>]
    BY <1>2, <1>3, <1>4 DEF Work
  <2>2. temp' = [temp EXCEPT ![n] = t]
    BY <1>1, <1>2
  <2> HIDE DEF n, t
  <2> QED BY <1>2, <2>1, <2>2 DEF FolderTypes
<1>8. /\ Out(f)' = Out(f) /\ Scratch(f)'.jsonl = Scratch(f).jsonl
      /\ Scratch(f)'.pdf[c] = <<f, c>>
      /\ \A k \in ChunkNo : k # c => Scratch(f)'.pdf[k] = Scratch(f).pdf[k]
  BY <1>1, <1>2, <1>3, <1>7 DEF Out, Scratch, Work
<1>9. f \in Busy /\ count.faults <= count'.faults
  BY <1>1, <1>6 DEF Busy
<1>10. BookMoves(f)
  BY <1>1, <1>2, <1>5, <1>6, <1>7, <1>9 DEF BookMoves, FolderTypes
<1>11. OnDisk(f)'
  <2>1. OnDisk(f) /\ 1 .. Chunks[f] \subseteq ChunkNo
    BY <1>2, ChunkNumbers DEF BookOK
  <2>2. \A k \in 1 .. Chunks[f] : Scratch(f)'.pdf[k] \in {None, <<f, k>>}
    BY <1>8, <2>1 DEF OnDisk
  <2> QED BY <1>8, <2>1, <2>2 DEF OnDisk
<1>12. cli.route[f] = "ocr" /\ ~OutForOcr(f) /\ OutForOcr(f)'
  BY <1>1, <1>2, <1>5 DEF BookOK, InRun, Posting, OutForOcr
<1>13. InRun(f)'
  BY <1>1, <1>2, <1>5, <1>12 DEF InRun, Texts, Posting, Present, Dir
<1>14. Reading(f)'
  BY <1>5 DEF Reading
<1>15. Pending(f)' = Pending(f) /\ Pending(f) \subseteq ChunkNo
  BY <1>1, <1>5, NextPending DEF Pending
<1>16. Chunking(f)'
  BY <1>1, <1>2, <1>3, <1>5, <1>8, <1>15 DEF BookOK, Chunking, Posting
<1>17. Paid(f)'
  <2>1. Paid(f) /\ OnDisk(f) /\ folder[f].route = "ocr"
    BY <1>2, <1>12 DEF BookOK
  <2>2. count.faults <= count'.faults /\ count'.faults \in Nat
    BY <1>6
  <2> QED BY <1>1, <1>2, <1>6, <1>8, <1>12, <2>1, <2>2, PostedOK
<1> QED BY <1>2, <1>10, <1>11, <1>13, <1>14, <1>16, <1>17, BookMovesOK DEF BookOK

LEMMA DownloadChunkOK ==
  ASSUME NamesStay, FolderInv, NEW f \in File, DownloadChunk(f)
  PROVE  FolderInv'
<1> DEFINE n == NameOf(f)
<1>0. PICK c : c = cli.c[f]
  OBVIOUS
<1>1. /\ cli.pc[f] = "poll" /\ cli' = [cli EXCEPT !.pc[f] = "save"]
      /\ folder' = folder /\ dir' = dir /\ count' = count
      /\ temp' = [temp EXCEPT ![Dir(f)].jsonl[c] = cli.bytes[f]]
  BY <1>0 DEF DownloadChunk, BookAt, To
<1>2. /\ f \in Known /\ BookOK(f) /\ FolderTypes /\ f \in Present
      /\ Dir(f) = n /\ n \in Name /\ cli.route[f] = folder[f].route
      /\ Scratch(f) = temp[n] /\ Scratch(f) \in Work /\ cli \in Cli /\ count \in Count
  BY <1>1, BookInRun
<1>3. /\ c \in Pending(f) /\ cli.bytes[f] = <<f, c>> /\ cli.done[f] = Out(f).done
  BY <1>0, <1>1, <1>2 DEF BookOK, Chunking, OutForOcr, Posting
<1>4. c \in ChunkNo /\ c \notin Out(f).done /\ <<f, c>> \in Piece
  BY <1>2, <1>3, ChunkNumbers DEF Pending, Piece
<1>5. /\ cli' \in Cli /\ cli'.on = cli.on /\ cli'.name = cli.name /\ cli'.route = cli.route
      /\ cli'.pc[f] = "save" /\ \A g \in File : g # f => cli'.pc[g] = cli.pc[g]
      /\ cli'.c = cli.c /\ cli'.bytes = cli.bytes /\ cli'.done = cli.done
  BY <1>1, <1>2 DEF Cli, Posting
<1>6. /\ temp' \in [Name -> Work] /\ \A m \in Name : m # n => temp'[m] = temp[m]
      /\ temp'[n].pdf = Scratch(f).pdf /\ temp'[n].jsonl = [Scratch(f).jsonl EXCEPT ![c] = <<f, c>>]
  <2> DEFINE t == [Scratch(f) EXCEPT !.jsonl = [Scratch(f).jsonl EXCEPT ![c] = <<f, c>>]]
  <2>1. /\ t \in Work /\ t.pdf = Scratch(f).pdf
        /\ t.jsonl = [Scratch(f).jsonl EXCEPT ![c] = <<f, c>>]
    BY <1>2, <1>4 DEF Work
  <2>2. temp' = [temp EXCEPT ![n] = t]
    BY <1>1, <1>2, <1>3
  <2> HIDE DEF n, t
  <2> QED BY <1>2, <2>1, <2>2 DEF FolderTypes
<1>7. /\ Out(f)' = Out(f) /\ Scratch(f)'.pdf = Scratch(f).pdf
      /\ Scratch(f)'.jsonl[c] = <<f, c>>
      /\ \A k \in Out(f).done : Scratch(f)'.jsonl[k] = Scratch(f).jsonl[k]
  <2>1. Out(f).done \subseteq ChunkNo
    BY <1>2, ChunkNumbers DEF BookOK, OnDisk
  <2> QED BY <1>1, <1>2, <1>4, <1>6, <2>1 DEF Out, Scratch, Work
<1>8. f \in Busy /\ count.faults <= count'.faults
  BY <1>1, <1>2 DEF Busy, Count
<1>9. BookMoves(f)
  BY <1>1, <1>2, <1>5, <1>6, <1>8 DEF BookMoves, FolderTypes
<1>10. OnDisk(f)'
  BY <1>2, <1>7 DEF BookOK, OnDisk
<1>11. cli.route[f] = "ocr" /\ OutForOcr(f) /\ OutForOcr(f)'
  BY <1>1, <1>2, <1>5 DEF BookOK, InRun, Posting, OutForOcr
<1>12. InRun(f)'
  BY <1>1, <1>2, <1>5, <1>11 DEF InRun, Texts, Posting, Present, Dir
<1>13. Reading(f)'
  BY <1>5 DEF Reading
<1>14. Pending(f)' = Pending(f)
  BY <1>5 DEF Pending
<1>15. Chunking(f)'
  BY <1>0, <1>1, <1>2, <1>3, <1>5, <1>7, <1>14 DEF BookOK, Chunking, Posting
<1>16. Paid(f)'
  BY <1>1, <1>2, <1>7, <1>11 DEF BookOK, Paid, Earned
<1> QED BY <1>2, <1>9, <1>10, <1>12, <1>13, <1>15, <1>16, BookMovesOK DEF BookOK

LEMMA SaveOK ==
  ASSUME NamesStay, FolderInv, NEW f \in File, Save(f)
  PROVE  FolderInv'
<1> DEFINE n == NameOf(f)
<1>0. PICK c : c = cli.c[f]
  OBVIOUS
<1> DEFINE o == [dir[n] EXCEPT !.done = @ \cup {c}]
<1>1. /\ cli.pc[f] = "save"
      /\ cli' = [cli EXCEPT !.pc[f] = "drop", !.done[f] = @ \cup {c}]
      /\ folder' = folder /\ temp' = temp /\ count' = count
      /\ dir' = [dir EXCEPT ![Dir(f)].done = @ \cup {c}]
  BY <1>0 DEF Save, BookAt
<1>2. /\ f \in Known /\ BookOK(f) /\ FolderTypes /\ f \in Present
      /\ Dir(f) = n /\ n \in Name /\ cli.route[f] = folder[f].route
      /\ Out(f) = dir[n] /\ Out(f) \in Output /\ cli \in Cli /\ count \in Count
  BY <1>1, BookInRun
<1>3. /\ c \in Pending(f) /\ cli.done[f] = Out(f).done /\ Out(f).owner = f
      /\ Scratch(f).jsonl[c] = <<f, c>>
  BY <1>0, <1>1, <1>2 DEF BookOK, Chunking, OutForOcr, Posting
<1>4. /\ c \in 1 .. Chunks[f] /\ c \in ChunkNo /\ c \notin Out(f).done
      /\ Out(f).done \subseteq 1 .. Chunks[f] /\ Out(f).done \subseteq ChunkNo
  BY <1>2, <1>3, ChunkNumbers DEF BookOK, OnDisk, Pending
<1>5. /\ o \in Output /\ o.done = Out(f).done \cup {c} /\ o.owner = f
  BY <1>2, <1>3, <1>4 DEF Output
<1>6. dir' = [dir EXCEPT ![n] = o]
  BY <1>1, <1>2
<1>7. /\ cli' \in Cli /\ cli'.on = cli.on /\ cli'.name = cli.name /\ cli'.route = cli.route
      /\ cli'.pc[f] = "drop" /\ cli'.done[f] = Out(f).done \cup {c}
      /\ \A g \in File : g # f => cli'.pc[g] = cli.pc[g] /\ cli'.done[g] = cli.done[g]
      /\ cli'.c = cli.c /\ cli'.bytes = cli.bytes
  BY <1>1, <1>2, <1>3, <1>4 DEF Cli, Posting
<1> HIDE DEF n, o
<1>8. dir' \in [Name -> Output] /\ dir'[n] = o /\ \A m \in Name : m # n => dir'[m] = dir[m]
  BY <1>2, <1>5, <1>6 DEF FolderTypes
<1>9. /\ Out(f)'.done = Out(f).done \cup {c} /\ Out(f)'.owner = f
      /\ Scratch(f)' = Scratch(f)
  BY <1>1, <1>5, <1>8 DEF Out, Scratch, n
<1>10. f \in Busy /\ count.faults <= count'.faults
  BY <1>1, <1>2 DEF Busy, Count
<1>11. BookMoves(f)
  BY <1>1, <1>2, <1>7, <1>8, <1>10 DEF BookMoves, FolderTypes, n
<1>12. OnDisk(f)'
  <2>1. \A k \in Out(f).done \cup {c} : Scratch(f).jsonl[k] = <<f, k>>
    BY <1>2, <1>3 DEF BookOK, OnDisk
  <2>2. Out(f).done \cup {c} \subseteq 1 .. Chunks[f] /\ f # None
    BY <1>4, FolderConstants
  <2> QED BY <1>2, <1>9, <2>1, <2>2 DEF BookOK, OnDisk
<1>13. cli.route[f] = "ocr" /\ OutForOcr(f) /\ ~OutForOcr(f)'
  BY <1>1, <1>2, <1>7 DEF BookOK, InRun, Posting, OutForOcr
<1>14. InRun(f)'
  BY <1>1, <1>2, <1>7, <1>13 DEF InRun, Texts, Posting, Present, Dir, n
<1>15. Reading(f)'
  BY <1>7 DEF Reading
<1>16. Pending(f)' \subseteq Pending(f)
  BY <1>3, <1>7 DEF Pending
<1>17. Chunking(f)'
  <2>1. \A k \in Pending(f)' : Scratch(f).pdf[k] = <<f, k>>
    BY <1>1, <1>2, <1>16 DEF BookOK, Chunking, Posting
  <2>2. cli'.done[f] \subseteq 1 .. Chunks[f]
    BY <1>4, <1>7
  <2>3. cli'.c[f] \in cli'.done[f]
    BY <1>0, <1>7
  <2> QED BY <1>7, <1>9, <1>13, <2>1, <2>2, <2>3 DEF Chunking
<1>18. Paid(f)'
  <2>1. Cardinality(Out(f).done \cup {c}) = Cardinality(Out(f).done) + 1
    BY <1>2, <1>4, ChunkNumbers
  <2>2. Earned(f)' = Earned(f)
    <3>1. Earned(f) = Cardinality(Out(f).done) + 1
      BY <1>2, <1>13 DEF Earned
    <3>2. Earned(f)' = Cardinality(Out(f).done \cup {c}) + 0
      BY <1>1, <1>2, <1>9, <1>13 DEF Earned
    <3>3. Cardinality(Out(f).done) \in Nat
      BY <1>2, EarnedFacts DEF BookOK
    <3> QED BY <2>1, <3>1, <3>2, <3>3
  <2> QED BY <1>1, <1>2, <2>2 DEF BookOK, Paid
<1> QED BY <1>2, <1>11, <1>12, <1>14, <1>15, <1>17, <1>18, BookMovesOK DEF BookOK

LEMMA DropChunkOK ==
  ASSUME NamesStay, FolderInv, NEW f \in File, DropChunk(f)
  PROVE  FolderInv'
<1> DEFINE n == NameOf(f)
<1>0. PICK c : c = cli.c[f]
  OBVIOUS
<1>1. /\ cli.pc[f] = "drop" /\ cli' = [cli EXCEPT !.pc[f] = "chunk"]
      /\ folder' = folder /\ dir' = dir /\ count' = count
      /\ temp' = [temp EXCEPT ![Dir(f)].pdf[c] = None]
  BY <1>0 DEF DropChunk, BookAt, To
<1>2. /\ f \in Known /\ BookOK(f) /\ FolderTypes /\ f \in Present
      /\ Dir(f) = n /\ n \in Name /\ cli.route[f] = folder[f].route
      /\ Scratch(f) = temp[n] /\ Scratch(f) \in Work /\ cli \in Cli /\ count \in Count
  BY <1>1, BookInRun
<1>3. c \in cli.done[f] /\ cli.done[f] = Out(f).done /\ Out(f).done \subseteq 1 .. Chunks[f]
  BY <1>0, <1>1, <1>2 DEF BookOK, Chunking, Posting, OnDisk
<1>4. c \in ChunkNo /\ c \notin Pending(f) /\ 1 .. Chunks[f] \subseteq ChunkNo
  BY <1>2, <1>3, ChunkNumbers DEF Pending
<1>5. /\ cli' \in Cli /\ cli'.on = cli.on /\ cli'.name = cli.name /\ cli'.route = cli.route
      /\ cli'.pc[f] = "chunk" /\ \A g \in File : g # f => cli'.pc[g] = cli.pc[g]
      /\ cli'.c = cli.c /\ cli'.bytes = cli.bytes /\ cli'.done = cli.done
  BY <1>1, <1>2 DEF Cli, Posting
<1>6. /\ temp' \in [Name -> Work] /\ \A m \in Name : m # n => temp'[m] = temp[m]
      /\ temp'[n].jsonl = Scratch(f).jsonl /\ temp'[n].pdf = [Scratch(f).pdf EXCEPT ![c] = None]
  <2> DEFINE t == [Scratch(f) EXCEPT !.pdf = [Scratch(f).pdf EXCEPT ![c] = None]]
  <2>1. /\ t \in Work /\ t.jsonl = Scratch(f).jsonl
        /\ t.pdf = [Scratch(f).pdf EXCEPT ![c] = None]
    BY <1>2, <1>4 DEF Work, Piece
  <2>2. temp' = [temp EXCEPT ![n] = t]
    BY <1>1, <1>2
  <2> HIDE DEF n, t
  <2> QED BY <1>2, <2>1, <2>2 DEF FolderTypes
<1>7. /\ Out(f)' = Out(f) /\ Scratch(f)'.jsonl = Scratch(f).jsonl
      /\ Scratch(f)'.pdf[c] = None
      /\ \A k \in ChunkNo : k # c => Scratch(f)'.pdf[k] = Scratch(f).pdf[k]
  BY <1>1, <1>2, <1>4, <1>6 DEF Out, Scratch, Work
<1>8. f \in Busy /\ count.faults <= count'.faults
  BY <1>1, <1>2 DEF Busy, Count
<1>9. BookMoves(f)
  BY <1>1, <1>2, <1>5, <1>6, <1>8 DEF BookMoves, FolderTypes
<1>10. OnDisk(f)'
  <2>1. \A k \in 1 .. Chunks[f] : Scratch(f)'.pdf[k] \in {None, <<f, k>>}
    BY <1>2, <1>4, <1>7 DEF BookOK, OnDisk
  <2> QED BY <1>2, <1>7, <2>1 DEF BookOK, OnDisk
<1>11. cli.route[f] = "ocr" /\ ~OutForOcr(f) /\ ~OutForOcr(f)'
  BY <1>1, <1>2, <1>5 DEF BookOK, InRun, Posting, OutForOcr
<1>12. InRun(f)'
  BY <1>1, <1>2, <1>5, <1>11 DEF InRun, Texts, Posting, Present, Dir
<1>13. Reading(f)'
  BY <1>5 DEF Reading
<1>14. Pending(f)' = Pending(f) /\ Pending(f) \subseteq ChunkNo
  BY <1>4, <1>5 DEF Pending
<1>15. Chunking(f)'
  BY <1>1, <1>2, <1>4, <1>5, <1>7, <1>11, <1>14 DEF BookOK, Chunking, Posting
<1>16. Paid(f)'
  BY <1>1, <1>2, <1>7, <1>11 DEF BookOK, Paid, Earned
<1> QED BY <1>2, <1>9, <1>10, <1>12, <1>13, <1>15, <1>16, BookMovesOK DEF BookOK

LEMMA AssembleBookOK ==
  ASSUME NamesStay, FolderInv, NEW f \in File, AssembleBook(f)
  PROVE  FolderInv'
<1> DEFINE n == NameOf(f)
           o == [dir[n] EXCEPT !.text = Own(f), !.route = "ocr", !.assets = TRUE]
<1>1. /\ cli.pc[f] = "chunk" /\ cli' = [cli EXCEPT !.pc[f] = "done"] /\ Pending(f) = {}
      /\ folder' = folder /\ temp' = temp /\ count' = count
      /\ dir' = [dir EXCEPT ![Dir(f)].text = [c \in 1 .. Chunks[f] |-> temp[Dir(f)].jsonl[c]],
                            ![Dir(f)].route = "ocr", ![Dir(f)].assets = TRUE]
  BY DEF AssembleBook, BookAt, To
<1>2. /\ f \in Known /\ BookOK(f) /\ FolderTypes /\ f \in Present
      /\ Dir(f) = n /\ n \in Name /\ cli.route[f] = folder[f].route
      /\ Out(f) = dir[n] /\ Out(f) \in Output /\ Scratch(f) = temp[n]
      /\ cli \in Cli /\ count \in Count /\ Chunks[f] \in Nat
  BY <1>1, BookInRun
<1>3. \A c \in 1 .. Chunks[f] : temp[n].jsonl[c] = <<f, c>>
  <2>1. cli.done[f] = Out(f).done /\ 1 .. Chunks[f] \subseteq cli.done[f]
    BY <1>1, <1>2 DEF BookOK, Chunking, Posting, Pending
  <2> QED BY <1>2, <2>1 DEF BookOK, OnDisk
<1>4. [c \in 1 .. Chunks[f] |-> temp[Dir(f)].jsonl[c]] = Own(f)
  BY <1>2, <1>3 DEF Own
<1>5. Own(f) \in Seq(Piece)
  <2>1. \A c \in 1 .. Chunks[f] : <<f, c>> \in Piece
    BY <1>2 DEF Piece
  <2>2. Own(f) \in [1 .. Chunks[f] -> Piece]
    BY <2>1 DEF Own
  <2> QED BY <1>2, <2>2
<1>6. /\ o \in Output /\ o.owner = Out(f).owner /\ o.done = Out(f).done /\ o.route = "ocr"
      /\ o.text = Own(f)
  BY <1>2, <1>5 DEF Output
<1>7. dir' = [dir EXCEPT ![n] = o]
  BY <1>1, <1>2, <1>4 DEF FolderTypes
<1>8. /\ cli' \in Cli /\ cli'.on = cli.on /\ cli'.name = cli.name /\ cli'.route = cli.route
      /\ cli'.pc[f] = "done" /\ \A g \in File : g # f => cli'.pc[g] = cli.pc[g]
      /\ cli'.c = cli.c /\ cli'.bytes = cli.bytes /\ cli'.done = cli.done
  BY <1>1, <1>2 DEF Cli
<1> HIDE DEF n, o
<1>9. dir' \in [Name -> Output] /\ dir'[n] = o /\ \A m \in Name : m # n => dir'[m] = dir[m]
  BY <1>2, <1>6, <1>7 DEF FolderTypes
<1>10. Out(f)' = o /\ Scratch(f)' = Scratch(f)
  BY <1>1, <1>9 DEF Out, Scratch, n
<1>11. f \in Busy /\ count.faults <= count'.faults
  <2>1. f \in Busy
    BY <1>1 DEF Busy
  <2>2. count.faults \in Nat
    BY <1>2 DEF Count
  <2>3. count' = count
    BY <1>1
  <2> QED BY <2>1, <2>2, <2>3
<1>12. BookMoves(f)
  BY <1>1, <1>2, <1>8, <1>9, <1>11 DEF BookMoves, FolderTypes, n
<1>13. OnDisk(f)'
  BY <1>2, <1>6, <1>10 DEF BookOK, OnDisk
<1>14. cli.route[f] = "ocr" /\ ~OutForOcr(f) /\ ~OutForOcr(f)'
  BY <1>1, <1>2, <1>8 DEF BookOK, InRun, Posting, OutForOcr
<1>15. InRun(f)'
  BY <1>1, <1>2, <1>8, <1>14 DEF InRun, Texts, Posting, Present, Dir, n
<1>16. Reading(f)'
  BY <1>6, <1>8, <1>10, <1>14 DEF Reading, Own
<1>17. Chunking(f)'
  BY <1>2, <1>8, <1>14 DEF BookOK, Chunking, Posting
<1>18. Paid(f)'
  BY <1>1, <1>2, <1>6, <1>10, <1>14 DEF BookOK, Paid, Earned
<1> QED BY <1>2, <1>12, <1>13, <1>15, <1>16, <1>17, <1>18, BookMovesOK DEF BookOK

\* A job that is lost is one failure more.
LEMMA LostOK ==
  ASSUME FolderTypes, NEW f \in Known, Paid(f), OnDisk(f), folder' = folder, ~OutForOcr(f)',
         Out(f)' = Out(f), count'.jobs[f] = count.jobs[f], count'.routes = count.routes,
         count'.faults = count.faults + 1
  PROVE  Paid(f)'
<1>1. /\ Earned(f) \in Nat /\ count.jobs[f] \in Nat /\ count.faults \in Nat
      /\ Chunks[f] * count.routes[f] \in Nat /\ Cardinality(Out(f).done) \in Nat
  BY EarnedFacts
<1>2. Earned(f)' \in Nat /\ Earned(f) <= Earned(f)' + 1
  BY <1>1 DEF Earned
<1>3. count.jobs[f] <= Earned(f) + Chunks[f] * count.routes[f] + count.faults
  BY DEF Paid
<1>4. count.jobs[f] <= Earned(f)' + Chunks[f] * count.routes[f] + (count.faults + 1)
  BY <1>1, <1>2, <1>3
<1> QED BY <1>4 DEF Paid

LEMMA BookFailsOK ==
  ASSUME NamesStay, FolderInv, NEW f \in File, BookFails(f)
  PROVE  FolderInv'
<1>1. /\ f \in Busy /\ cli' = [cli EXCEPT !.pc[f] = "failed"] /\ folder' = folder
      /\ dir' = dir /\ temp' = temp /\ count' = [count EXCEPT !.faults = @ + 1]
  BY DEF BookFails, To
<1>2. cli.pc[f] # "off"
  BY <1>1 DEF Busy
<1>3. /\ f \in Known /\ BookOK(f) /\ FolderTypes /\ f \in Present
      /\ Dir(f) = NameOf(f) /\ cli.route[f] = folder[f].route /\ cli \in Cli /\ count \in Count
  BY <1>2, BookInRun
<1>4. /\ cli' \in Cli /\ cli'.on = cli.on /\ cli'.name = cli.name /\ cli'.route = cli.route
      /\ cli'.pc[f] = "failed" /\ \A g \in File : g # f => cli'.pc[g] = cli.pc[g]
      /\ cli'.c = cli.c /\ cli'.bytes = cli.bytes /\ cli'.done = cli.done
  BY <1>1, <1>3 DEF Cli
<1>5. /\ count' \in Count /\ count'.faults = count.faults + 1 /\ count.faults <= count'.faults
      /\ count'.jobs = count.jobs /\ count'.routes = count.routes
  BY <1>1, <1>3 DEF Count
<1>6. Out(f)' = Out(f) /\ Scratch(f)' = Scratch(f)
  BY <1>1 DEF Out, Scratch
<1>7. BookMoves(f)
  BY <1>1, <1>2, <1>3, <1>4, <1>5 DEF BookMoves, FolderTypes
<1>8. OnDisk(f)' /\ Reading(f)' /\ ~OutForOcr(f)'
  BY <1>3, <1>4, <1>6 DEF BookOK, OnDisk, Reading, OutForOcr
<1>9. InRun(f)'
  BY <1>1, <1>3, <1>4 DEF InRun, Texts, Posting, Present, Dir
<1>10. Chunking(f)'
  BY <1>3, <1>4, <1>8 DEF BookOK, Chunking, Posting
<1>11. Paid(f)'
  <2>1. Paid(f) /\ OnDisk(f)
    BY <1>3 DEF BookOK
  <2> QED BY <1>1, <1>3, <1>5, <1>6, <1>8, <2>1, LostOK
<1> QED BY <1>3, <1>7, <1>8, <1>9, <1>10, <1>11, BookMovesOK DEF BookOK

-----------------------------------------------------------------------------
(* Runs begin and end, and the user edits the folder between them.            *)

LEMMA OffFacts ==
  /\ Off \in Cli /\ ~Off.on
  /\ \A f \in File : Off.pc[f] = "off" /\ Off.done[f] = {}
BY DEF Off, Cli, Piece

\* When no book is in hand no thread works.
LEMMA NobodyBusy ==
  ASSUME \A f \in File : cli.pc[f] \in {"off", "queued", "done", "failed"}
  PROVE  Cardinality(Busy) <= Workers
<1>1. Busy = {}
  BY DEF Busy
<1> QED BY <1>1, FS_EmptySet, FolderConstants

LEMMA NoRunBusy ==
  ASSUME cli = Off
  PROVE  Cardinality(Busy) <= Workers
BY OffFacts, NobodyBusy

LEMMA StartFolderOK ==
  ASSUME NamesStay, FolderInv, StartFolder
  PROVE  FolderInv'
<1>1. /\ cli = Off /\ folder' = folder /\ dir' = dir /\ temp' = temp /\ count' = count
      /\ FolderTypes /\ Early \subseteq Present /\ Present \subseteq Known
      /\ \A f \in Known : BookOK(f)
  BY DEF FolderInv, StartFolder
<1>2. cli' = [Off EXCEPT !.on = TRUE,
                !.name = [f \in File |-> IF f \in Present THEN AssignNames[f] ELSE None],
                !.route = [f \in File |-> folder[f].route],
                !.pc = [f \in File |-> IF f \in Present THEN "queued" ELSE "off"]]
  BY DEF StartFolder
<1>3. /\ cli'.on = TRUE /\ cli'.c = Off.c /\ cli'.bytes = Off.bytes /\ cli'.done = Off.done
      /\ cli'.name = [f \in File |-> IF f \in Present THEN AssignNames[f] ELSE None]
      /\ cli'.route = [f \in File |-> folder[f].route]
      /\ cli'.pc = [f \in File |-> IF f \in Present THEN "queued" ELSE "off"]
  BY <1>2 DEF Off
<1>4. \A f \in Present : AssignNames[f] = NameOf(f) /\ NameOf(f) \in Name
  BY <1>1, AssignedNames, NameIsName DEF Present
<1>5. cli' \in Cli
  <2>1. \A f \in File : folder[f].route \in {"text", "ocr"}
    BY <1>1 DEF FolderTypes
  <2>2. /\ [f \in File |-> IF f \in Present THEN AssignNames[f] ELSE None]
             \in [File -> Name \cup {None}]
        /\ [f \in File |-> folder[f].route] \in [File -> {"text", "ocr", None}]
        /\ [f \in File |-> IF f \in Present THEN "queued" ELSE "off"]
             \in [File -> {"off", "queued", "open", "done", "failed"} \cup Texts \cup Posting]
    BY <1>4, <2>1
  <2> QED BY <1>2, <2>2, OffFacts DEF Cli
<1>6. FolderTypes' /\ Present' = Present
  BY <1>1, <1>5 DEF FolderTypes, Present
<1>7. ASSUME NEW f \in Known PROVE BookOK(f)'
  <2>1. f \in File /\ BookOK(f) /\ Out(f)' = Out(f) /\ Scratch(f)' = Scratch(f)
    BY <1>1, FolderConstants DEF Out, Scratch
  <2>2. cli'.pc[f] \in {"off", "queued"} /\ (cli'.pc[f] # "off" => f \in Present)
    BY <1>3, <2>1
  <2>3. cli.pc[f] = "off" /\ cli'.done[f] = {}
    BY <1>1, <1>3, <2>1, OffFacts
  <2>4. OnDisk(f)'
    BY <2>1 DEF BookOK, OnDisk
  <2>5. InRun(f)'
    BY <1>1, <1>3, <1>4, <1>6, <2>1, <2>2 DEF InRun, Texts, Posting
  <2>6. Reading(f)' /\ ~OutForOcr(f)' /\ ~OutForOcr(f)
    BY <2>2, <2>3 DEF Reading, OutForOcr
  <2>7. Chunking(f)'
    BY <2>2, <2>3, <2>6 DEF Chunking, Posting
  <2>8. Paid(f)'
    BY <1>1, <2>1, <2>6 DEF BookOK, Paid, Earned
  <2> QED BY <2>4, <2>5, <2>6, <2>7, <2>8 DEF BookOK
<1>8. \A f \in File \ Known : count'.jobs[f] = 0 /\ cli'.pc[f] = "off"
  BY <1>1, <1>3 DEF FolderInv
<1>9. Cardinality(Busy)' <= Workers
  <2>1. \A f \in File : cli'.pc[f] \in {"off", "queued", "done", "failed"}
    BY <1>3
  <2>2. Busy' = {}
    BY <2>1 DEF Busy
  <2> QED BY <2>2, FS_EmptySet, FolderConstants
<1>10. \A n \in Name : (\E f \in Known : n = NameOf(f)) \/ dir'[n].done = {}
  BY <1>1 DEF FolderInv
<1> QED BY <1>1, <1>3, <1>6, <1>7, <1>8, <1>9, <1>10 DEF FolderInv

\* Nothing is left of a run that is over but what it left on disk.
LEMMA RunIsOver ==
  ASSUME FolderInv, cli' = Off, folder' = folder, dir' = dir, temp' = temp, count' \in Count,
         \A f \in Known : Paid(f)', count'.jobs = count.jobs
  PROVE  FolderInv'
<1>1. FolderTypes' /\ Present' = Present
  BY OffFacts DEF FolderInv, FolderTypes, Present
<1>2. ASSUME NEW f \in Known PROVE BookOK(f)'
  <2>1. f \in File /\ BookOK(f) /\ Out(f)' = Out(f) /\ Scratch(f)' = Scratch(f)
    BY FolderConstants DEF FolderInv, Out, Scratch
  <2>2. cli'.pc[f] = "off" /\ cli'.done[f] = {}
    BY <2>1, OffFacts
  <2>3. OnDisk(f)'
    BY <2>1 DEF BookOK, OnDisk
  <2>4. InRun(f)' /\ Reading(f)' /\ Chunking(f)'
    BY <2>2 DEF InRun, Reading, Chunking, OutForOcr, Posting
  <2> QED BY <2>3, <2>4 DEF BookOK
<1>3. \A f \in File \ Known : count'.jobs[f] = 0 /\ cli'.pc[f] = "off"
  BY OffFacts DEF FolderInv
<1>4. Cardinality(Busy)' <= Workers
  <2>1. Busy' = {}
    BY OffFacts DEF Busy
  <2> QED BY <2>1, FS_EmptySet, FolderConstants
<1> QED BY <1>1, <1>2, <1>3, <1>4 DEF FolderInv

LEMMA EndRunOK ==
  ASSUME FolderInv, EndRun
  PROVE  FolderInv'
<1>1. /\ cli' = Off /\ folder' = folder /\ dir' = dir /\ temp' = temp /\ count' = count
      /\ \A f \in File : cli.pc[f] \in {"off", "done", "failed"}
      /\ count \in Count
  BY DEF EndRun, FolderInv, FolderTypes
<1>2. ASSUME NEW f \in Known PROVE Paid(f)'
  <2>1. f \in File /\ Paid(f) /\ Out(f)' = Out(f)
    BY <1>1, FolderConstants DEF FolderInv, BookOK, Out
  <2>2. ~OutForOcr(f)' /\ ~OutForOcr(f)
    BY <1>1, <2>1, OffFacts DEF OutForOcr
  <2> QED BY <1>1, <2>1, <2>2 DEF Paid, Earned
<1> QED BY <1>1, <1>2, RunIsOver

LEMMA DieOK ==
  ASSUME FolderInv, Die
  PROVE  FolderInv'
<1>1. /\ cli' = Off /\ folder' = folder /\ dir' = dir /\ temp' = temp
      /\ count' = [count EXCEPT !.faults = @ + 1] /\ count \in Count
  BY DEF Die, FolderInv, FolderTypes
<1>2. /\ count' \in Count /\ count'.faults = count.faults + 1
      /\ count'.jobs = count.jobs /\ count'.routes = count.routes
  BY <1>1 DEF Count
<1>3. ASSUME NEW f \in Known PROVE Paid(f)'
  <2>1. f \in File /\ Paid(f) /\ OnDisk(f) /\ FolderTypes /\ Out(f)' = Out(f)
    BY <1>1, FolderConstants DEF FolderInv, BookOK, Out
  <2>2. ~OutForOcr(f)'
    BY <1>1, <2>1, OffFacts DEF OutForOcr
  <2> QED BY <1>1, <1>2, <2>1, <2>2, LostOK
<1> QED BY <1>1, <1>2, <1>3, RunIsOver

LEMMA AddOK ==
  ASSUME FolderInv, NEW f \in File, Add(f)
  PROVE  FolderInv'
<1>1. /\ cli = Off /\ f \in Late /\ folder' = [folder EXCEPT ![f].here = TRUE]
      /\ dir' = dir /\ temp' = temp /\ cli' = cli /\ count' = count /\ FolderTypes
  BY DEF Add, FolderInv
<1>2. /\ folder' \in [File -> [here : BOOLEAN, route : {"text", "ocr"}]]
      /\ \A g \in File : folder'[g].route = folder[g].route
      /\ \A g \in File : folder'[g].here = (g = f \/ folder[g].here)
  BY <1>1 DEF FolderTypes
<1>3. Present' = Present \cup {f}
  BY <1>2 DEF Present
<1>4. FolderTypes'
  BY <1>1, <1>2 DEF FolderTypes
<1>5. ASSUME NEW g \in Known PROVE BookOK(g)'
  <2>1. g \in File /\ BookOK(g) /\ Out(g)' = Out(g) /\ Scratch(g)' = Scratch(g)
    BY <1>1, FolderConstants DEF FolderInv, Out, Scratch
  <2>2. cli'.pc[g] = "off" /\ cli'.done[g] = {}
    BY <1>1, <2>1, OffFacts
  <2>3. OnDisk(g)'
    BY <2>1 DEF BookOK, OnDisk
  <2>4. InRun(g)' /\ Reading(g)' /\ Chunking(g)'
    BY <2>2 DEF InRun, Reading, Chunking, OutForOcr, Posting
  <2>5. OutForOcr(g)' <=> OutForOcr(g)
    BY <1>1 DEF OutForOcr
  <2>6. Paid(g)'
    BY <1>1, <1>2, <2>1, <2>5 DEF BookOK, Paid, Earned
  <2> QED BY <2>3, <2>4, <2>6 DEF BookOK
<1>6. Busy' = Busy
  BY <1>1 DEF Busy
<1> QED BY <1>1, <1>3, <1>4, <1>5, <1>6 DEF FolderInv, Known

\* A change of route may cost a book all its chunks, once.
LEMMA ReroutedOK ==
  ASSUME FolderTypes, NEW f \in Known, Paid(f), OnDisk(f), ~OutForOcr(f), ~OutForOcr(f)',
         folder[f].route = "text" => folder'[f].route = "ocr",
         folder[f].route = "ocr" => folder'[f].route = "text",
         Out(f)' = Out(f), count'.jobs = count.jobs, count'.faults = count.faults,
         count'.routes[f] = count.routes[f] + 1
  PROVE  Paid(f)'
<1>1. /\ count.jobs[f] \in Nat /\ count.faults \in Nat /\ count.routes[f] \in Nat
      /\ Chunks[f] * count.routes[f] \in Nat /\ Chunks[f] \in Nat
      /\ Cardinality(Out(f).done) \in Nat /\ folder[f].route \in {"text", "ocr"}
  BY EarnedFacts, FolderConstants DEF FolderTypes, Count
<1>2. Cardinality(Out(f).done) <= Chunks[f]
  <2>1. f \in File /\ Out(f).done \subseteq 1 .. Chunks[f]
    BY FolderConstants DEF OnDisk
  <2> QED BY <2>1, ChunkNumbers
<1>3. Earned(f) <= Earned(f)' + Chunks[f] /\ Earned(f) \in Nat /\ Earned(f)' \in Nat
  BY <1>1, <1>2 DEF Earned
<1>4. Chunks[f] * (count.routes[f] + 1) = Chunks[f] * count.routes[f] + Chunks[f]
  BY <1>1
<1>5. count.jobs[f] <= Earned(f) + Chunks[f] * count.routes[f] + count.faults
  BY DEF Paid
<1>6. count.jobs[f] <= Earned(f)' + Chunks[f] * (count.routes[f] + 1) + count.faults
  <2> DEFINE x == Chunks[f] * count.routes[f]
             y == Chunks[f] * (count.routes[f] + 1)
  <2>1. x \in Nat /\ y = x + Chunks[f] /\ count.jobs[f] <= Earned(f) + x + count.faults
    BY <1>1, <1>4, <1>5
  <2> HIDE DEF x, y
  <2>2. count.jobs[f] <= Earned(f)' + y + count.faults
    BY <1>1, <1>3, <2>1
  <2> QED BY <2>2 DEF y
<1> QED BY <1>6 DEF Paid

LEMMA RerouteOK ==
  ASSUME FolderInv, NEW f \in File, Reroute(f)
  PROVE  FolderInv'
<1> DEFINE r == IF folder[f].route = "text" THEN "ocr" ELSE "text"
<1>1. /\ cli = Off /\ f \in Present /\ folder' = [folder EXCEPT ![f].route = r]
      /\ dir' = dir /\ temp' = temp /\ cli' = cli /\ FolderTypes /\ count \in Count
      /\ count' = [count EXCEPT !.edits = @ + 1, !.routes[f] = @ + 1]
  BY DEF Reroute, FolderInv, FolderTypes
<1>2. /\ folder' \in [File -> [here : BOOLEAN, route : {"text", "ocr"}]]
      /\ folder'[f].route = r
      /\ \A g \in File : g # f => folder'[g].route = folder[g].route
      /\ \A g \in File : folder'[g].here = folder[g].here
  BY <1>1 DEF FolderTypes
<1>3. /\ count' \in Count /\ count'.jobs = count.jobs /\ count'.faults = count.faults
      /\ count'.routes[f] = count.routes[f] + 1
      /\ \A g \in File : g # f => count'.routes[g] = count.routes[g]
  <2>1. /\ count.edits + 1 \in Nat /\ count.routes[f] + 1 \in Nat
        /\ count.routes \in [File -> Nat]
    BY <1>1 DEF Count
  <2> QED BY <1>1, <2>1 DEF Count
<1>4. Present' = Present
  BY <1>2 DEF Present
<1>5. FolderTypes'
  BY <1>1, <1>2, <1>3 DEF FolderTypes
<1>6. ASSUME NEW g \in Known PROVE BookOK(g)'
  <2>1. g \in File /\ BookOK(g) /\ Out(g)' = Out(g) /\ Scratch(g)' = Scratch(g)
    BY <1>1, FolderConstants DEF FolderInv, Out, Scratch
  <2>2. cli'.pc[g] = "off" /\ cli'.done[g] = {}
    BY <1>1, <2>1, OffFacts
  <2>3. OnDisk(g)'
    BY <2>1 DEF BookOK, OnDisk
  <2>4. InRun(g)' /\ Reading(g)' /\ Chunking(g)'
    BY <2>2 DEF InRun, Reading, Chunking, OutForOcr, Posting
  <2>5. ~OutForOcr(g)' /\ ~OutForOcr(g)
    BY <1>1, <2>2 DEF OutForOcr
  <2>6. Paid(g)'
    <3>1. CASE g = f
      <4>1. Paid(f) /\ OnDisk(f)
        BY <2>1, <3>1 DEF BookOK
      <4>2. /\ folder[f].route = "text" => folder'[f].route = "ocr"
            /\ folder[f].route = "ocr" => folder'[f].route = "text"
        BY <1>2
      <4> QED BY <1>1, <1>3, <2>1, <2>5, <3>1, <4>1, <4>2, ReroutedOK
    <3>2. CASE g # f
      BY <1>2, <1>3, <2>1, <2>5, <3>2 DEF BookOK, Paid, Earned
    <3> QED BY <3>1, <3>2
  <2> QED BY <2>3, <2>4, <2>6 DEF BookOK
<1>7. Busy' = Busy
  BY <1>1 DEF Busy
<1> QED BY <1>1, <1>3, <1>4, <1>5, <1>6, <1>7 DEF FolderInv

LEMMA FolderInitOK ==
  ASSUME FolderInit
  PROVE  FolderInv
<1>1. PICK r \in [File -> {"text", "ocr"}] :
        folder = [f \in File |-> [here |-> f \in Early, route |-> r[f]]]
  BY DEF FolderInit
<1>2. /\ dir = [n \in Name |-> NewDir] /\ temp = [n \in Name |-> NoTemp] /\ cli = Off
      /\ count = [faults |-> 0, edits |-> 0,
                  jobs |-> [f \in File |-> 0], routes |-> [f \in File |-> 0]]
  BY DEF FolderInit
<1>3. folder \in [File -> [here : BOOLEAN, route : {"text", "ocr"}]]
  BY <1>1
<1>4. Present = Early
  BY <1>1, FolderConstants DEF Present
<1>5. NewDir \in Output /\ NoTemp \in Work
  <2>1. <<>> \in Seq(Piece) /\ None \in Piece
    BY DEF Piece
  <2> QED BY <2>1 DEF NewDir, NoTemp, Output, Work
<1>6. FolderTypes
  BY <1>2, <1>3, <1>5, OffFacts DEF FolderTypes, Count
<1>7. ASSUME NEW f \in Known PROVE BookOK(f)
  <2>1. f \in File /\ NameOf(f) \in Name
    BY FolderConstants, NameIsName
  <2>2. Out(f) = NewDir /\ Scratch(f) = NoTemp
    BY <1>2, <2>1 DEF Out, Scratch
  <2>3. cli.pc[f] = "off" /\ cli.done[f] = {}
    BY <1>2, <2>1, OffFacts
  <2>4. \A c \in 1 .. Chunks[f] : NoTemp.pdf[c] = None
    BY <2>1, ChunkNumbers DEF NoTemp
  <2>5. OnDisk(f)
    BY <2>2, <2>4 DEF OnDisk, NewDir
  <2>6. InRun(f) /\ Reading(f) /\ Chunking(f)
    BY <2>3 DEF InRun, Reading, Chunking, OutForOcr, Posting
  <2>7. Paid(f)
    <3>1. count.jobs[f] = 0 /\ Earned(f) + Chunks[f] * count.routes[f] + count.faults \in Nat
      BY <1>2, <1>6, <2>1, <2>5, EarnedFacts DEF Count, FolderTypes
    <3> QED BY <3>1 DEF Paid
  <2> QED BY <2>5, <2>6, <2>7 DEF BookOK
<1>8. Cardinality(Busy) <= Workers
  BY <1>2, NoRunBusy
<1>9. \A f \in File \ Known : count.jobs[f] = 0 /\ cli.pc[f] = "off"
  BY <1>2, OffFacts
<1>10. \A n \in Name : dir[n].done = {}
  BY <1>2 DEF NewDir
<1> QED BY <1>2, <1>4, <1>6, <1>7, <1>8, <1>9, <1>10 DEF FolderInv, Known

LEMMA FolderNextOK ==
  ASSUME NamesStay, FolderInv, [FolderNext]_folderVars
  PROVE  FolderInv'
<1>1. CASE StartFolder
  BY <1>1, StartFolderOK
<1>2. CASE EndRun
  BY <1>2, EndRunOK
<1>3. CASE Die
  BY <1>3, DieOK
<1>4. ASSUME NEW f \in File, BookStep(f) PROVE FolderInv'
  BY <1>4, StartBookOK, DropAssetsOK, WriteTextOK, TextStateOK, OpenBookOK, SubmitChunkOK,
     DownloadChunkOK, SaveOK, DropChunkOK, AssembleBookOK DEF BookStep
<1>5. ASSUME NEW f \in File, SubmitAgain(f) PROVE FolderInv'
  BY <1>5, SubmitAgainOK
<1>6. ASSUME NEW f \in File, BookFails(f) PROVE FolderInv'
  BY <1>6, BookFailsOK
<1>7. ASSUME NEW f \in File, Add(f) PROVE FolderInv'
  BY <1>7, AddOK
<1>8. ASSUME NEW f \in File, Reroute(f) PROVE FolderInv'
  BY <1>8, RerouteOK
<1>9. CASE UNCHANGED folderVars
  <2>1. folder' = folder /\ dir' = dir /\ temp' = temp /\ cli' = cli /\ count' = count
    BY <1>9 DEF folderVars
  <2>2. Present' = Present /\ Busy' = Busy /\ FolderTypes'
    BY <2>1 DEF FolderInv, FolderTypes, Present, Busy
  <2>3. ASSUME NEW f \in Known PROVE BookOK(f)'
    <3>1. count.faults \in Nat
      BY DEF FolderInv, FolderTypes, Count
    <3>2. Same(f)
      BY <2>1, <3>1 DEF Same, Out, Scratch
    <3> QED BY <3>2, BookStays DEF FolderInv
  <2> QED BY <2>1, <2>2, <2>3 DEF FolderInv
<1> QED BY <1>1, <1>2, <1>3, <1>4, <1>5, <1>6, <1>7, <1>8, <1>9 DEF FolderNext

\* What the invariant says of the directories and of what was paid.
LEMMA FolderInvIsRight ==
  ASSUME FolderInv
  PROVE  FolderIsRight
<1>1. FolderTypes /\ \A f \in Known : BookOK(f)
  BY DEF FolderInv
<1>2. FolderTypeOK
  <2>1. ASSUME NEW n \in Name
        PROVE  /\ dir[n].owner \in File \cup {None} /\ dir[n].done \subseteq ChunkNo
               /\ dir[n].done # {} => dir[n].owner # None
               /\ \A c \in dir[n].done : temp[n].jsonl[c] # None
    <3>1. dir[n] \in Output
      BY <1>1 DEF FolderTypes
    <3>2. CASE dir[n].done = {}
      BY <3>1, <3>2 DEF Output
    <3>3. ASSUME NEW f \in Known, n = NameOf(f)
          PROVE  /\ dir[n].done # {} => dir[n].owner # None
                 /\ \A c \in dir[n].done : temp[n].jsonl[c] # None
      <4>1. /\ Out(f) = dir[n] /\ Scratch(f) = temp[n] /\ OnDisk(f)
        BY <1>1, <3>3 DEF Out, Scratch, BookOK
      <4>2. f \in File
        BY FolderConstants
      <4>3. \A c \in dir[n].done : temp[n].jsonl[c] = <<f, c>> /\ <<f, c>> \in File \X Nat
        BY <4>1, <4>2, ChunkNumbers DEF OnDisk
      <4>4. dir[n].done # {} => dir[n].owner # None
        BY <4>1 DEF OnDisk
      <4>5. \A c \in dir[n].done : temp[n].jsonl[c] # None
        BY <4>3, FilesAreListed
      <4> QED BY <4>4, <4>5
    <3> QED BY <3>1, <3>2, <3>3 DEF FolderInv, Output
  <2>2. ASSUME NEW f \in Busy PROVE Dir(f) \in Name /\ cli.done[f] \subseteq 1 .. Chunks[f]
    <3>1. f \in File /\ cli.pc[f] # "off"
      BY DEF Busy
    <3> QED BY <3>1, BookInRun DEF BookOK, Chunking
  <2> QED BY <2>1, <2>2 DEF FolderTypeOK, FolderInv
<1>3. ASSUME NEW f \in File, BookAt(f, "done")
      PROVE  /\ dir[Dir(f)].text = IF cli.route[f] = "text" THEN << <<f, 0>> >> ELSE Own(f)
             /\ dir[Dir(f)].route = cli.route[f] /\ (cli.route[f] = "text" => ~dir[Dir(f)].assets)
  <2>1. cli.pc[f] = "done"
    BY <1>3 DEF BookAt
  <2>2. BookOK(f) /\ dir[Dir(f)] = Out(f)
    BY <2>1, BookInRun
  <2> QED BY <2>1, <2>2 DEF BookOK, Reading
<1>4. TextIsItsOwn /\ SidecarBelongsToText
  BY <1>3 DEF TextIsItsOwn, SidecarBelongsToText
<1>5. ChunksPaidOnce
  <2> SUFFICES ASSUME NEW f \in File
               PROVE  count.jobs[f] <= Chunks[f] * (1 + count.routes[f]) + count.faults
    BY DEF ChunksPaidOnce
  <2>1. Chunks[f] \in Nat /\ count.routes[f] \in Nat /\ count.faults \in Nat
    BY <1>1, FolderConstants DEF FolderTypes, Count
  <2>2. Chunks[f] * (1 + count.routes[f]) = Chunks[f] + Chunks[f] * count.routes[f]
        /\ Chunks[f] * count.routes[f] \in Nat
    BY <2>1
  <2>3. CASE f \in Known
    <3>1. BookOK(f)
      BY <1>1, <2>3
    <3>2. Earned(f) <= Chunks[f] /\ Earned(f) \in Nat /\ count.jobs[f] \in Nat
      <4>1. Earned(f) \in Nat /\ count.jobs[f] \in Nat /\ Cardinality(Out(f).done) \in Nat
        BY <1>1, <2>3, <3>1, EarnedFacts DEF BookOK
      <4>2. Out(f).done \subseteq 1 .. Chunks[f]
        BY <3>1 DEF BookOK, OnDisk
      <4>3. CASE OutForOcr(f)
        <5>1. cli.c[f] \in (1 .. Chunks[f]) \ Out(f).done
          BY <3>1, <4>3 DEF BookOK, Chunking, OutForOcr, Posting, Pending
        <5>2. Cardinality(Out(f).done) + 1 <= Chunks[f]
          BY <4>2, <5>1, ChunkNumbers
        <5> QED BY <2>1, <4>1, <5>2 DEF Earned
      <4>4. CASE ~OutForOcr(f)
        <5>1. Cardinality(Out(f).done) <= Chunks[f]
          BY <4>2, ChunkNumbers
        <5> QED BY <2>1, <4>1, <4>4, <5>1 DEF Earned
      <4> QED BY <4>1, <4>3, <4>4
    <3>3. count.jobs[f] <= Earned(f) + Chunks[f] * count.routes[f] + count.faults
      BY <3>1 DEF BookOK, Paid
    <3> DEFINE x == Chunks[f] * count.routes[f]
               y == Chunks[f] * (1 + count.routes[f])
    <3>4. x \in Nat /\ y = Chunks[f] + x /\ count.jobs[f] <= Earned(f) + x + count.faults
      BY <2>2, <3>3
    <3> HIDE DEF x, y
    <3>5. count.jobs[f] <= y + count.faults
      BY <2>1, <3>2, <3>4
    <3> QED BY <3>5 DEF y
  <2>4. CASE f \notin Known
    <3>1. count.jobs[f] = 0
      BY <2>4 DEF FolderInv
    <3> DEFINE y == Chunks[f] * (1 + count.routes[f])
    <3>2. y \in Nat
      BY <2>1, <2>2
    <3> HIDE DEF y
    <3>3. 0 <= y + count.faults
      BY <2>1, <3>2
    <3> QED BY <3>1, <3>3 DEF y
  <2> QED BY <2>3, <2>4
<1> QED BY <1>2, <1>4, <1>5 DEF FolderIsRight

\* As long as no file that is added takes the plain name from one that sorts behind it,
\* the invariant holds, for any folder, any number of threads, failures, deaths, added
\* files and changes of route (assign_output_names, process_book, extract_book_text).
THEOREM FolderInvariant == NamesStay => (FolderSpec => []FolderInv)
<1> SUFFICES ASSUME NamesStay PROVE FolderSpec => []FolderInv
  OBVIOUS
<1>1. FolderInit => FolderInv
  BY FolderInitOK
<1>2. FolderInv /\ [FolderNext]_folderVars => FolderInv'
  BY FolderNextOK
<1> QED BY <1>1, <1>2, PTL DEF FolderSpec

\* Under the same condition a book that a run reports as done has its own text, all of
\* it, by the planned route, and no pictures of another; a chunk is paid for once, but
\* for one job a failure costs a book and the chunks a change of route costs it; and no
\* more books are in hand than there are threads.
THEOREM FolderStaysRight == NamesStay => (FolderSpec => []FolderIsRight)
<1> SUFFICES ASSUME NamesStay PROVE FolderSpec => []FolderIsRight
  OBVIOUS
<1>1. FolderSpec => []FolderInv
  BY FolderInvariant
<1>2. FolderInv => FolderIsRight
  BY FolderInvIsRight
<1> QED BY <1>1, <1>2, PTL

-----------------------------------------------------------------------------
(* The MinerU adapter.  A document is cut into parts, the parts travel in    *)
(* batches and come back one by one: what joins the parts again is that the  *)
(* groups of pages tile the selection, that a part is known by its number    *)
(* and by its name, and that a result which is matched is the item's own.    *)
(* Groups of pages, and what is picked from a sequence.                      *)

\* What holds of 0, and goes from each number to the next, holds of the numbers up to n.
LEMMA Climbs ==
  ASSUME NEW n \in Nat, NEW S, 0 \in S, \A k \in 1 .. n : k - 1 \in S => k \in S
  PROVE  \A k \in 0 .. n : k \in S
<1> DEFINE U == {k \in 0 .. n : k \notin S}
<1> SUFFICES ASSUME U # {} PROVE FALSE
  OBVIOUS
<1>1. U \subseteq Nat
  OBVIOUS
<1> HIDE DEF U
<1>2. PICK m \in U : \A k \in U : m <= k
  BY <1>1, Least
<1> USE DEF U
<1>3. m \in 1 .. n /\ m \notin S
  BY <1>2
<1>4. m - 1 \notin U /\ m - 1 \in 0 .. n
  BY <1>2, <1>3
<1> QED BY <1>3, <1>4

\* What is picked from a sequence, element by element, is of the sequence.
Picks(s, ss) == /\ DOMAIN ss = DOMAIN s
                /\ \A i \in DOMAIN s : ss[i] = <<>> \/ ss[i] = <<s[i]>>
PickedFrom(s, ss) == \A x \in Range(FlattenSeq(ss)) : \E i \in DOMAIN s : x = s[i] /\ ss[i] = <<s[i]>>

LEMMA Picked ==
  ASSUME NEW X, NEW s \in Seq(X), NEW ss, ss = [i \in DOMAIN s |-> ss[i]], Picks(s, ss)
  PROVE  FlattenSeq(ss) \in Seq(X) /\ PickedFrom(s, ss)
<1>1. DOMAIN s = 1 .. Len(s) /\ Len(s) \in Nat /\ \A i \in DOMAIN s : s[i] \in X
  OBVIOUS
<1>2. ASSUME NEW i \in DOMAIN s PROVE ss[i] \in Seq(X)
  <2>1. s[i] \in X
    BY <1>1
  <2>2. <<s[i]>> \in Seq(X) /\ <<>> \in Seq(X)
    BY <2>1
  <2>3. ss[i] = <<>> \/ ss[i] = <<s[i]>>
    BY DEF Picks
  <2> QED BY <2>2, <2>3
<1>3. ss \in Seq(Seq(X)) /\ DOMAIN ss = DOMAIN s
  <2>1. ss \in [1 .. Len(s) -> Seq(X)]
    BY <1>1, <1>2
  <2> QED BY <2>1, <1>1, SeqDef
<1>4. /\ FlattenSeq(ss) \in Seq(X)
      /\ Range(FlattenSeq(ss)) = UNION {Range(ss[i]) : i \in DOMAIN ss}
  BY <1>3, FlattenRange
<1>5. ASSUME NEW i \in DOMAIN s, NEW x \in Range(ss[i]) PROVE x = s[i] /\ ss[i] = <<s[i]>>
  <2>1. ss[i] = <<>> \/ ss[i] = <<s[i]>>
    BY DEF Picks
  <2>2. Range(<<>>) = {} /\ Range(<<s[i]>>) = {s[i]}
    BY DEF Range
  <2> QED BY <2>1, <2>2
<1> QED BY <1>3, <1>4, <1>5 DEF PickedFrom

\* The intervals cs follow one another from a to b.
Tiles(cs, a, b) ==
  /\ cs \in Seq(Nat \X Nat) /\ Len(cs) # 0 /\ cs[1][1] = a /\ cs[Len(cs)][2] = b
  /\ \A i \in 1 .. Len(cs) : cs[i][1] <= cs[i][2]
  /\ \A i \in 2 .. Len(cs) : cs[i][1] = cs[i - 1][2] + 1

LEMMA TilesJoin ==
  ASSUME NEW s, NEW t, NEW a \in Nat, NEW b \in Nat, NEW m \in Nat, Tiles(s, a, m), Tiles(t, m + 1, b)
  PROVE  Tiles(s \o t, a, b)
<1> DEFINE u == s \o t
           I == Nat \X Nat
<1> HIDE DEF I
<1>1. s \in Seq(I) /\ t \in Seq(I) /\ Len(s) \in Nat \ {0} /\ Len(t) \in Nat \ {0}
  <2>1. s \in Seq(I) /\ t \in Seq(I) /\ Len(s) # 0 /\ Len(t) # 0
    BY DEF Tiles, I
  <2> QED BY <2>1
<1>2. /\ u \in Seq(I) /\ Len(u) = Len(s) + Len(t)
      /\ \A i \in 1 .. Len(s) : u[i] = s[i]
      /\ \A i \in 1 .. Len(t) : u[i + Len(s)] = t[i]
  <2>1. \A i \in 1 .. Len(u) : u[i] = IF i <= Len(s) THEN s[i] ELSE t[i - Len(s)]
    BY <1>1
  <2>2. u \in Seq(I) /\ Len(u) = Len(s) + Len(t)
    BY <1>1
  <2> HIDE DEF u
  <2>3. \A i \in 1 .. Len(s) : u[i] = s[i]
    BY <1>1, <2>1, <2>2
  <2>4. ASSUME NEW i \in 1 .. Len(t) PROVE u[i + Len(s)] = t[i]
    <3>1. i + Len(s) \in 1 .. Len(u) /\ ~(i + Len(s) <= Len(s)) /\ (i + Len(s)) - Len(s) = i
      BY <1>1, <2>2
    <3> QED BY <2>1, <3>1
  <2> QED BY <2>2, <2>3, <2>4
<1>3. u[Len(u)] = t[Len(t)] /\ u[1] = s[1]
  <2>1. Len(t) \in 1 .. Len(t) /\ 1 \in 1 .. Len(s) /\ Len(u) = Len(t) + Len(s)
    BY <1>1, <1>2
  <2> HIDE DEF u
  <2> QED BY <2>1, <1>2
<1> HIDE DEF u, I
<1>4. ASSUME NEW i \in 1 .. Len(u)
      PROVE  (i \in 1 .. Len(s) /\ u[i] = s[i])
             \/ (i - Len(s) \in 1 .. Len(t) /\ u[i] = t[i - Len(s)])
  <2>1. CASE i <= Len(s)
    BY <2>1, <1>1, <1>2
  <2>2. CASE i > Len(s)
    <3>1. i - Len(s) \in 1 .. Len(t) /\ (i - Len(s)) + Len(s) = i
      BY <2>2, <1>1, <1>2
    <3> QED BY <3>1, <1>2
  <2> QED BY <2>1, <2>2, <1>1
<1>5. \A i \in 1 .. Len(u) : u[i][1] <= u[i][2]
  BY <1>4 DEF Tiles
<1>6. ASSUME NEW i \in 2 .. Len(u) PROVE u[i][1] = u[i - 1][2] + 1
  <2>1. i \in 1 .. Len(u) /\ i - 1 \in 1 .. Len(u)
    BY <1>1, <1>2
  <2>2. CASE i <= Len(s)
    <3>1. i \in 2 .. Len(s) /\ i \in 1 .. Len(s) /\ i - 1 \in 1 .. Len(s)
      BY <2>2, <1>1
    <3> QED BY <3>1, <1>2 DEF Tiles
  <2>3. CASE i = Len(s) + 1
    <3>1. i = 1 + Len(s) /\ 1 \in 1 .. Len(t) /\ i - 1 = Len(s) /\ Len(s) \in 1 .. Len(s)
      BY <2>3, <1>1
    <3>2. u[i] = t[1] /\ u[i - 1] = s[Len(s)]
      BY <3>1, <1>2
    <3> QED BY <3>2 DEF Tiles
  <2>4. CASE i > Len(s) + 1
    <3> DEFINE j == i - Len(s)
    <3>1. j \in 2 .. Len(t) /\ j \in 1 .. Len(t) /\ j - 1 \in 1 .. Len(t)
          /\ i = j + Len(s) /\ i - 1 = (j - 1) + Len(s)
      BY <2>4, <1>1, <1>2
    <3> HIDE DEF j
    <3>2. u[i] = t[j] /\ u[i - 1] = t[j - 1]
      BY <3>1, <1>2
    <3> QED BY <3>1, <3>2 DEF Tiles
  <2> QED BY <2>2, <2>3, <2>4, <1>1
<1>7. Len(u) # 0
  BY <1>1, <1>2
<1>8. u[1][1] = a /\ u[Len(u)][2] = b
  BY <1>3 DEF Tiles
<1> QED BY <1>2, <1>5, <1>6, <1>7, <1>8 DEF Tiles, u, I

LEMMA TileBounds ==
  ASSUME NEW cs, NEW a \in Nat, NEW b \in Nat, Tiles(cs, a, b)
  PROVE  /\ a <= b /\ Len(cs) \in Nat \ {0} /\ DOMAIN cs = 1 .. Len(cs)
         /\ \A i \in 1 .. Len(cs) : /\ cs[i][1] \in Nat /\ cs[i][2] \in Nat
                                    /\ cs[i] = <<cs[i][1], cs[i][2]>>
                                    /\ a <= cs[i][1] /\ cs[i][1] <= cs[i][2] /\ cs[i][2] <= b
<1> DEFINE n == Len(cs)
<1>1. n \in Nat \ {0} /\ DOMAIN cs = 1 .. n
      /\ \A i \in 1 .. n : cs[i] \in Nat \X Nat
  BY DEF Tiles
<1>2. \A i \in 1 .. n : /\ cs[i][1] \in Nat /\ cs[i][2] \in Nat /\ cs[i] = <<cs[i][1], cs[i][2]>>
                        /\ cs[i][1] <= cs[i][2]
  BY <1>1 DEF Tiles
<1>3. /\ cs[1][1] = a /\ cs[n][2] = b
      /\ \A i \in 2 .. n : cs[i][1] = cs[i - 1][2] + 1
  BY DEF Tiles
<1> HIDE DEF n
<1>4. \A i \in 1 .. n : a <= cs[i][1]
  <2> DEFINE S == {k \in 0 .. n : k = 0 \/ a <= cs[k][1]}
  <2>1. 0 \in S
    BY <1>1
  <2>2. ASSUME NEW k \in 1 .. n, k - 1 \in S PROVE k \in S
    <3>1. CASE k = 1
      BY <3>1, <1>1, <1>2, <1>3
    <3>2. CASE k # 1
      <4>1. k \in 2 .. n /\ k - 1 \in 1 .. n /\ k - 1 # 0
        BY <3>2, <1>1
      <4>2. a <= cs[k - 1][1] /\ cs[k - 1][1] <= cs[k - 1][2] /\ cs[k][1] = cs[k - 1][2] + 1
        BY <4>1, <2>2, <1>2, <1>3
      <4>3. a <= cs[k][1]
        BY <4>1, <4>2, <1>2
      <4> QED BY <4>3
    <3> QED BY <3>1, <3>2
  <2> HIDE DEF S
  <2>3. \A k \in 0 .. n : k \in S
    BY <2>1, <2>2, <1>1, Climbs
  <2> QED BY <2>3, <1>1 DEF S
<1>5. \A i \in 1 .. n : cs[i][2] <= b
  <2> DEFINE S == {k \in 0 .. n : k = n \/ cs[n - k][2] <= b}
  <2>1. 0 \in S
    BY <1>1, <1>2, <1>3
  <2>2. ASSUME NEW k \in 1 .. n, k - 1 \in S PROVE k \in S
    <3>1. CASE k = n
      BY <3>1, <1>1
    <3>2. CASE k # n
      <4> DEFINE i == n - k
      <4>1. i \in 1 .. n /\ i + 1 \in 2 .. n /\ i + 1 \in 1 .. n /\ n - (k - 1) = i + 1 /\ k - 1 # n
        BY <3>2, <1>1
      <4>2. cs[n - (k - 1)][2] <= b
        BY <4>1, <2>2
      <4> HIDE DEF i
      <4>3. (i + 1) - 1 = i
        BY <4>1
      <4>4. cs[i + 1][1] = cs[i][2] + 1 /\ cs[i + 1][1] <= cs[i + 1][2] /\ cs[i + 1][2] <= b
        BY <4>1, <4>2, <4>3, <1>2, <1>3
      <4>5. cs[i][2] <= b
        BY <4>1, <4>4, <1>2
      <4> QED BY <4>5 DEF i
    <3> QED BY <3>1, <3>2
  <2> HIDE DEF S
  <2>3. \A k \in 0 .. n : k \in S
    BY <2>1, <2>2, <1>1, Climbs
  <2> TAKE i \in 1 .. n
  <2>4. n - i \in 0 .. n /\ n - i # n /\ n - (n - i) = i
    BY <1>1
  <2> QED BY <2>3, <2>4 DEF S
<1>6. a <= b
  <2>1. 1 \in 1 .. n
    BY <1>1
  <2> QED BY <2>1, <1>2, <1>4, <1>5
<1> QED BY <1>1, <1>2, <1>4, <1>5, <1>6 DEF n

LEMMA DivBounds ==
  ASSUME NEW a \in Nat, NEW b \in Nat \ {0}
  PROVE  (a \div b) \in Nat /\ (a \div b) * b \in Nat /\ (a \div b) * b <= a /\ a < (a \div b) * b + b
OBVIOUS

\* n things in groups of at most size: how many there are, and where each begins and ends.
Grouping(cs, n, size, m) ==
  /\ cs \in [1 .. m -> (Nat \ {0}) \X (0 .. n)]
  /\ m * size \in Nat /\ n <= m * size /\ m * size < n + size
  /\ \A i \in 1 .. m : /\ cs[i][1] = (i - 1) * size + 1
                       /\ cs[i][2] = IF i * size < n THEN i * size ELSE n

LEMMA GroupBounds ==
  ASSUME NEW n \in Nat, NEW size \in Nat \ {0}
  PROVE  \E m \in Nat : Grouping(InGroups(n, size), n, size, m)
<1>1. PICK m : m = (n + size - 1) \div size
  OBVIOUS
<1>2. n + size - 1 \in Nat
  OBVIOUS
<1>3. m \in Nat /\ m * size \in Nat /\ m * size <= n + size - 1 /\ n + size - 1 < m * size + size
  <2> DEFINE a == n + size - 1
  <2>1. (a \div size) \in Nat /\ (a \div size) * size \in Nat /\ (a \div size) * size <= a
        /\ a < (a \div size) * size + size
    <3> HIDE DEF a
    <3> QED BY <1>2, DivBounds DEF a
  <2> HIDE DEF a
  <2>2. m = a \div size
    BY <1>1 DEF a
  <2>3. m \in Nat /\ m * size \in Nat /\ m * size <= a /\ a < m * size + size
    BY <2>1, <2>2
  <2> QED BY <2>3 DEF a
<1>4. ASSUME NEW i \in 1 .. m
      PROVE  (i - 1) * size + 1 \in Nat \ {0} /\ i * size \in Nat
  <2>1. i - 1 \in Nat /\ i \in Nat /\ size \in Nat
    BY <1>3
  <2>2. (i - 1) * size \in Nat /\ i * size \in Nat
    BY <2>1
  <2> QED BY <2>2
<1>5. \A i \in 1 .. m : (IF i * size < n THEN i * size ELSE n) \in 0 .. n
  BY <1>4
<1> DEFINE cs == InGroups(n, size)
<1>6. cs = [i \in 1 .. m |-> <<(i - 1) * size + 1, IF i * size < n THEN i * size ELSE n>>]
  BY <1>1 DEF InGroups
<1> HIDE DEF cs
<1>7. cs \in [1 .. m -> (Nat \ {0}) \X (0 .. n)]
  BY <1>4, <1>5, <1>6
<1>8. n <= m * size /\ m * size < n + size
  BY <1>3
<1>9. Grouping(cs, n, size, m)
  BY <1>3, <1>6, <1>7, <1>8 DEF Grouping
<1> QED BY <1>3, <1>9 DEF cs

LEMMA GroupsTile ==
  ASSUME NEW n \in Nat, NEW size \in Nat \ {0}
  PROVE  IF n = 0 THEN InGroups(n, size) = <<>> ELSE Tiles(InGroups(n, size), 1, n)
<1> DEFINE cs == InGroups(n, size)
<1>1. PICK m \in Nat : Grouping(cs, n, size, m)
  BY GroupBounds
<1> HIDE DEF cs
<1>2. /\ cs \in [1 .. m -> (Nat \ {0}) \X (0 .. n)]
      /\ m * size \in Nat /\ n <= m * size /\ m * size < n + size
      /\ \A i \in 1 .. m : /\ cs[i][1] = (i - 1) * size + 1
                           /\ cs[i][2] = IF i * size < n THEN i * size ELSE n
  BY <1>1 DEF Grouping
<1>3. cs \in Seq(Nat \X Nat) /\ Len(cs) = m
  <2>1. cs \in [1 .. m -> Nat \X Nat]
    BY <1>2
  <2> QED BY <2>1, SeqDef
<1>4. CASE n = 0
  <2>1. m = 0
    <3> SUFFICES ASSUME m >= 1 PROVE FALSE
      BY <1>1
    <3>1. m * size >= size
      BY <1>1
    <3> QED BY <3>1, <1>2, <1>4
  <2>2. cs = <<>>
    BY <2>1, <1>3
  <2> QED BY <2>2, <1>4 DEF cs
<1>5. CASE n # 0
  <2>1. m >= 1
    <3> SUFFICES ASSUME m = 0 PROVE FALSE
      BY <1>1
    <3>1. m * size = 0
      OBVIOUS
    <3> QED BY <3>1, <1>2, <1>5
  <2>2. m * size >= n /\ (m - 1) * size < n
    <3>1. (m - 1) * size = m * size - size
      BY <1>1
    <3> QED BY <3>1, <1>2
  <2>3. ASSUME NEW i \in 1 .. m, i # m PROVE i * size < n /\ i * size \in Nat
    <3>1. i \in Nat /\ i <= m - 1 /\ m - 1 \in Nat
      BY <2>3, <1>1
    <3>2. i * size <= (m - 1) * size /\ i * size \in Nat /\ (m - 1) * size \in Nat
      BY <3>1
    <3> QED BY <3>2, <2>2
  <2>4. ASSUME NEW i \in 1 .. m
        PROVE  cs[i][1] = (i - 1) * size + 1 /\ (i - 1) * size < n /\ (i - 1) * size \in Nat
    <3>1. CASE i = 1
      <4>1. (i - 1) * size = 0
        BY <3>1
      <4> QED BY <4>1, <1>1, <1>2, <1>5
    <3>2. CASE i # 1
      <4>1. i - 1 \in 1 .. m /\ i - 1 # m
        BY <3>2, <1>1
      <4> QED BY <4>1, <2>3, <1>1, <1>2
    <3> QED BY <3>1, <3>2
  <2>5. cs[1][1] = 1
    <3>1. 1 \in 1 .. m /\ (1 - 1) * size = 0
      BY <2>1, <1>1
    <3>2. \A i \in 1 .. m : cs[i][1] = (i - 1) * size + 1
      BY <2>4
    <3>3. cs[1][1] = (1 - 1) * size + 1
      BY <3>1, <3>2
    <3> QED BY <3>1, <3>3
  <2>6. cs[m][2] = n
    <3>1. m \in 1 .. m /\ ~(m * size < n)
      BY <2>1, <2>2, <1>1
    <3> QED BY <3>1, <1>1, <1>2
  <2>7. \A i \in 1 .. m : i # m => cs[i][2] = i * size
    BY <2>3, <1>1, <1>2
  <2>8. ASSUME NEW i \in 1 .. m PROVE cs[i][1] <= cs[i][2]
    <3>1. CASE i = m
      BY <3>1, <2>4, <2>6
    <3>2. CASE i # m
      <4>1. i * size = (i - 1) * size + size
        BY <1>1
      <4> QED BY <4>1, <3>2, <2>4, <2>7
    <3> QED BY <3>1, <3>2
  <2>9. ASSUME NEW i \in 2 .. m PROVE cs[i][1] = cs[i - 1][2] + 1
    <3>1. i \in 1 .. m /\ i - 1 \in 1 .. m /\ i - 1 # m
      BY <1>1
    <3> QED BY <3>1, <2>4, <2>7
  <2> QED BY <1>3, <1>5, <2>1, <2>5, <2>6, <2>8, <2>9 DEF Tiles, cs
<1> QED BY <1>4, <1>5 DEF cs

\* split_pdf_groups: what halving leaves of a group follows one another over the group.
TooLargeGroup(s, g) == ~(Bytes(s, g) <= MaxBytes \/ g[1] >= g[2])
Middle(g) == g[1] + (g[2] - g[1] + 1) \div 2

LEMMA GroupHalves ==
  ASSUME NEW n \in Nat, NEW s, NEW g \in (1 .. n) \X (1 .. n), TooLargeGroup(s, g)
  PROVE  /\ <<g[1], Middle(g) - 1>> \in (1 .. n) \X (1 .. n)
         /\ <<Middle(g), g[2]>> \in (1 .. n) \X (1 .. n)
         /\ g[1] <= Middle(g) - 1 /\ Middle(g) <= g[2] /\ Middle(g) \in Int
         /\ (Middle(g) - 1) - g[1] < g[2] - g[1] /\ g[2] - Middle(g) < g[2] - g[1]
<1>1. g[1] \in 1 .. n /\ g[2] \in 1 .. n /\ g[1] < g[2]
  BY DEF TooLargeGroup
<1> DEFINE a == g[1]
           b == g[2]
<1>2. a + (b - a + 1) \div 2 \in Int /\ a + 1 <= a + (b - a + 1) \div 2 /\ a + (b - a + 1) \div 2 <= b
  <2> HIDE DEF a, b
  <2> QED BY <1>1 DEF a, b
<1>3. Middle(g) \in Int /\ g[1] + 1 <= Middle(g) /\ Middle(g) <= g[2]
  BY <1>2 DEF Middle
<1> QED BY <1>1, <1>3

LEMMA HalvedRecursion ==
  ASSUME NEW j, NEW s, Len(Selected(j, s)) \in Nat
  PROVE  \A g \in (1 .. Len(Selected(j, s))) \X (1 .. Len(Selected(j, s))) :
           Halved(j, s)[g] = IF TooLargeGroup(s, g)
                             THEN Halved(j, s)[<<g[1], Middle(g) - 1>>] \o Halved(j, s)[<<Middle(g), g[2]>>]
                             ELSE <<g>>
<1> DEFINE n == Len(Selected(j, s))
           D == (1 .. n) \X (1 .. n)
           Body(f, g) == IF TooLargeGroup(s, g) THEN f[<<g[1], Middle(g) - 1>>] \o f[<<Middle(g), g[2]>>]
                         ELSE <<g>>
           Eq(f) == f = [g \in D |-> Body(f, g)]
           P(k) == \E f : /\ f = [g \in D |-> f[g]]
                          /\ \A g \in D : g[2] - g[1] <= k => f[g] = Body(f, g)
           S == {k \in 0 .. n : P(k)}
<1>1. n \in Nat /\ \A g \in D : g[1] \in Int /\ g[2] \in Int /\ g[2] - g[1] <= n
  OBVIOUS
<1>2. \A g \in D : TooLargeGroup(s, g) =>
        LET l == <<g[1], Middle(g) - 1>>  r == <<Middle(g), g[2]>>
        IN /\ l \in D /\ r \in D /\ l[2] - l[1] < g[2] - g[1] /\ r[2] - r[1] < g[2] - g[1]
           /\ 0 < g[2] - g[1]
  <2> SUFFICES ASSUME NEW g \in D, TooLargeGroup(s, g)
               PROVE  LET l == <<g[1], Middle(g) - 1>>  r == <<Middle(g), g[2]>>
                      IN /\ l \in D /\ r \in D /\ l[2] - l[1] < g[2] - g[1] /\ r[2] - r[1] < g[2] - g[1]
                         /\ 0 < g[2] - g[1]
    OBVIOUS
  <2>1. /\ <<g[1], Middle(g) - 1>> \in D /\ <<Middle(g), g[2]>> \in D
        /\ g[1] <= Middle(g) - 1 /\ Middle(g) <= g[2] /\ Middle(g) \in Int
        /\ (Middle(g) - 1) - g[1] < g[2] - g[1] /\ g[2] - Middle(g) < g[2] - g[1]
    BY <1>1, GroupHalves
  <2> QED BY <2>1, <1>1
<1> HIDE DEF n, D
<1>3. 0 \in S
  <2> DEFINE f == [g \in D |-> <<g>>]
  <2>1. f = [g \in D |-> f[g]]
    OBVIOUS
  <2>2. \A g \in D : g[2] - g[1] <= 0 => ~TooLargeGroup(s, g)
    <3> SUFFICES ASSUME NEW g \in D, g[2] - g[1] <= 0, TooLargeGroup(s, g) PROVE FALSE
      OBVIOUS
    <3>1. 0 < g[2] - g[1]
      BY <1>2
    <3> QED BY <3>1, <1>1
  <2>3. \A g \in D : f[g] = <<g>>
    OBVIOUS
  <2> HIDE DEF f
  <2>4. P(0)
    BY <2>1, <2>2, <2>3
  <2> HIDE DEF P
  <2> QED BY <2>4, <1>1
<1>4. ASSUME NEW k \in 1 .. n, k - 1 \in S PROVE k \in S
  <2>1. PICK f : /\ f = [g \in D |-> f[g]]
                 /\ \A g \in D : g[2] - g[1] <= k - 1 => f[g] = Body(f, g)
    BY <1>4
  <2> DEFINE h == [g \in D |-> Body(f, g)]
  <2>2. \A g \in D : h[g] = Body(f, g)
    OBVIOUS
  <2>3. \A g \in D : g[2] - g[1] <= k - 1 => h[g] = f[g]
    BY <2>1, <2>2
  <2>4. h = [g \in D |-> h[g]]
    OBVIOUS
  <2> HIDE DEF h
  <2>5. \A g \in D : g[2] - g[1] <= k => h[g] = Body(h, g)
    <3> TAKE g \in D
    <3> HAVE g[2] - g[1] <= k
    <3>1. CASE TooLargeGroup(s, g)
      <4> DEFINE l == <<g[1], Middle(g) - 1>>
                 r == <<Middle(g), g[2]>>
      <4>1. l \in D /\ r \in D /\ l[2] - l[1] < g[2] - g[1] /\ r[2] - r[1] < g[2] - g[1]
        BY <3>1, <1>2
      <4>2. h[g] = f[l] \o f[r]
        BY <3>1, <2>2
      <4> HIDE DEF l, r
      <4>3. l[2] - l[1] <= k - 1 /\ r[2] - r[1] <= k - 1
        BY <4>1, <1>1
      <4>4. h[l] = f[l] /\ h[r] = f[r]
        BY <4>1, <4>3, <2>3
      <4> QED BY <4>2, <4>4, <3>1 DEF l, r
    <3>2. CASE ~TooLargeGroup(s, g)
      BY <3>2, <2>2
    <3> QED BY <3>1, <3>2
  <2>6. P(k)
    BY <2>4, <2>5
  <2> HIDE DEF P
  <2> QED BY <2>6, <1>1
<1>5. n \in S
  <2> HIDE DEF S
  <2>1. \A k \in 0 .. n : k \in S
    BY <1>1, <1>3, <1>4, Climbs
  <2> QED BY <2>1, <1>1
<1>6. PICK f : f = [g \in D |-> f[g]] /\ \A g \in D : f[g] = Body(f, g)
  BY <1>1, <1>5
<1>7. Eq(f)
  BY <1>6
<1>8. PICK h : h = CHOOSE f1 : Eq(f1)
  OBVIOUS
<1>9. Eq(h)
  BY <1>7, <1>8
<1>10. Halved(j, s) = h
  <2>1. Halved(j, s) = CHOOSE cut : cut = [g \in D |->
          IF Bytes(s, g) <= MaxBytes \/ g[1] >= g[2] THEN <<g>>
          ELSE cut[<<g[1], Middle(g) - 1>>] \o cut[<<Middle(g), g[2]>>]]
    BY DEF Halved, D, n, Middle
  <2>2. \A cut : Eq(cut) <=> cut = [g \in D |->
          IF Bytes(s, g) <= MaxBytes \/ g[1] >= g[2] THEN <<g>>
          ELSE cut[<<g[1], Middle(g) - 1>>] \o cut[<<Middle(g), g[2]>>]]
    BY DEF TooLargeGroup
  <2> HIDE DEF Eq
  <2> QED BY <2>1, <2>2, <1>8
<1>11. \A g \in D : h[g] = Body(h, g)
  BY <1>9
<1> QED BY <1>10, <1>11 DEF D, n

LEMMA HalvedTiles ==
  ASSUME NEW j, NEW s, Len(Selected(j, s)) \in Nat,
         NEW g \in (1 .. Len(Selected(j, s))) \X (1 .. Len(Selected(j, s))), g[1] <= g[2]
  PROVE  Tiles(Halved(j, s)[g], g[1], g[2])
<1> DEFINE n == Len(Selected(j, s))
           h == Halved(j, s)
           D == (1 .. n) \X (1 .. n)
           P(k) == \A c \in D : c[1] <= c[2] /\ c[2] - c[1] <= k => Tiles(h[c], c[1], c[2])
           S == {k \in 0 .. n : P(k)}
<1>1. n \in Nat /\ \A c \in D : /\ c[1] \in Nat /\ c[2] \in Nat /\ c[2] - c[1] <= n
                               /\ c = <<c[1], c[2]>>
  <2>1. n \in Nat
    OBVIOUS
  <2> HIDE DEF n
  <2>2. \A c \in D : c[1] \in 1 .. n /\ c[2] \in 1 .. n /\ c = <<c[1], c[2]>>
    OBVIOUS
  <2>3. \A a, b \in 1 .. n : a \in Nat /\ b \in Nat /\ b - a <= n
    BY <2>1
  <2> HIDE DEF D
  <2> QED BY <2>1, <2>2, <2>3
<1>2. \A c \in D : h[c] = IF TooLargeGroup(s, c) THEN h[<<c[1], Middle(c) - 1>>] \o h[<<Middle(c), c[2]>>]
                          ELSE <<c>>
  BY HalvedRecursion, ZenonT(60)
<1>3. \A c \in D : TooLargeGroup(s, c) =>
        /\ <<c[1], Middle(c) - 1>> \in D /\ <<Middle(c), c[2]>> \in D
        /\ c[1] <= Middle(c) - 1 /\ Middle(c) <= c[2] /\ Middle(c) \in Int
        /\ (Middle(c) - 1) - c[1] < c[2] - c[1] /\ c[2] - Middle(c) < c[2] - c[1]
  <2> SUFFICES ASSUME NEW c \in D, TooLargeGroup(s, c)
               PROVE  /\ <<c[1], Middle(c) - 1>> \in D /\ <<Middle(c), c[2]>> \in D
                      /\ c[1] <= Middle(c) - 1 /\ Middle(c) <= c[2] /\ Middle(c) \in Int
                      /\ (Middle(c) - 1) - c[1] < c[2] - c[1] /\ c[2] - Middle(c) < c[2] - c[1]
    OBVIOUS
  <2> QED BY <1>1, GroupHalves
<1> HIDE DEF n, h, D
<1>4. ASSUME NEW c \in D, c[1] <= c[2], ~TooLargeGroup(s, c), c[1] = c[1]
      PROVE  Tiles(h[c], c[1], c[2])
  <2>1. h[c] = <<c>>
    BY <1>2, <1>4
  <2>2. c \in Nat \X Nat /\ c[1] <= c[2]
    BY <1>1, <1>4
  <2>3. \A x \in Nat \X Nat : x[1] <= x[2] => Tiles(<<x>>, x[1], x[2])
    BY DEF Tiles
  <2> QED BY <2>1, <2>2, <2>3
<1>5. 0 \in S
  <2>1. ASSUME NEW c \in D, c[1] <= c[2], c[2] - c[1] <= 0 PROVE Tiles(h[c], c[1], c[2])
    <3>1. ~TooLargeGroup(s, c)
      <4> SUFFICES ASSUME TooLargeGroup(s, c) PROVE FALSE
        OBVIOUS
      <4>1. c[1] <= Middle(c) - 1 /\ Middle(c) <= c[2] /\ Middle(c) \in Int
        BY <1>3
      <4> QED BY <4>1, <2>1, <1>1
    <3> QED BY <3>1, <2>1, <1>4
  <2>2. P(0)
    BY <2>1
  <2> HIDE DEF P
  <2> QED BY <2>2, <1>1
<1>6. ASSUME NEW k \in 1 .. n, k - 1 \in S PROVE k \in S
  <2>1. ASSUME NEW c \in D, c[1] <= c[2], c[2] - c[1] <= k PROVE Tiles(h[c], c[1], c[2])
    <3>1. CASE TooLargeGroup(s, c)
      <4> DEFINE l == <<c[1], Middle(c) - 1>>
                 r == <<Middle(c), c[2]>>
                 m == Middle(c) - 1
      <4>1. /\ l \in D /\ r \in D /\ c[1] <= m /\ Middle(c) <= c[2] /\ Middle(c) \in Int
            /\ m - c[1] < c[2] - c[1] /\ c[2] - Middle(c) < c[2] - c[1]
        BY <3>1, <1>3
      <4>2. h[c] = h[l] \o h[r]
        BY <3>1, <1>2
      <4>3. l[1] = c[1] /\ l[2] = m /\ r[1] = m + 1 /\ r[2] = c[2] /\ m \in Nat
        BY <4>1, <1>1
      <4> HIDE DEF l, r, m
      <4>4. l[1] <= l[2] /\ r[1] <= r[2] /\ l[2] - l[1] <= k - 1 /\ r[2] - r[1] <= k - 1
        <5>1. /\ l[1] <= l[2] /\ r[1] <= r[2]
              /\ l[2] - l[1] < c[2] - c[1] /\ r[2] - r[1] < c[2] - c[1]
          BY <4>1, <4>3 DEF m
        <5>2. /\ l[1] \in Int /\ l[2] \in Int /\ r[1] \in Int /\ r[2] \in Int
              /\ c[1] \in Int /\ c[2] \in Int /\ k \in Int
          BY <4>3, <1>1 DEF m
        <5> DEFINE x == l[2] - l[1]
                   y == r[2] - r[1]
                   z == c[2] - c[1]
        <5>3. x \in Int /\ y \in Int /\ z \in Int
          <6>1. \A a, b \in Int : a - b \in Int
            OBVIOUS
          <6> QED BY <5>2, <6>1, Zenon
        <5>4. x < z /\ y < z /\ z <= k
          BY <5>1, <2>1, Zenon
        <5> HIDE DEF x, y, z
        <5>5. x <= k - 1 /\ y <= k - 1
          BY <5>2, <5>3, <5>4
        <5> QED BY <5>1, <5>5 DEF x, y
      <4>5. Tiles(h[l], l[1], l[2]) /\ Tiles(h[r], r[1], r[2])
        BY <4>1, <4>4, <1>6
      <4>6. Tiles(h[l], c[1], m) /\ Tiles(h[r], m + 1, c[2])
        BY <4>3, <4>5
      <4>7. c[1] \in Nat /\ c[2] \in Nat
        BY <1>1
      <4>8. Tiles(h[l] \o h[r], c[1], c[2])
        BY <4>3, <4>6, <4>7, TilesJoin
      <4> QED BY <4>2, <4>8
    <3>2. CASE ~TooLargeGroup(s, c)
      BY <3>2, <2>1, <1>4
    <3> QED BY <3>1, <3>2
  <2>2. P(k)
    BY <2>1
  <2> HIDE DEF P
  <2> QED BY <2>2, <1>1
<1>7. n \in S
  <2> HIDE DEF S
  <2>1. \A k \in 0 .. n : k \in S
    BY <1>1, <1>5, <1>6, Climbs
  <2> QED BY <2>1, <1>1
<1> QED BY <1>1, <1>7 DEF D, n, h

\* Intervals that follow one another, each cut into intervals that follow one another.
TilesEach(cs, ss) == /\ Len(ss) = Len(cs) /\ ss \in Seq(Seq(Nat \X Nat))
                     /\ \A i \in 1 .. Len(cs) : Tiles(ss[i], cs[i][1], cs[i][2])

LEMMA TilesFlat ==
  ASSUME NEW cs, NEW a \in Nat, NEW b \in Nat, Tiles(cs, a, b), NEW ss, TilesEach(cs, ss)
  PROVE  Tiles(FlattenSeq(ss), a, b)
<1> DEFINE n == Len(cs)
           I == Nat \X Nat
<1>1. n \in Nat \ {0} /\ ss \in Seq(Seq(I)) /\ Len(ss) = n
      /\ \A i \in 1 .. n : cs[i][1] \in Nat /\ cs[i][2] \in Nat /\ Tiles(ss[i], cs[i][1], cs[i][2])
  BY TileBounds DEF TilesEach
<1>2. cs[1][1] = a /\ cs[n][2] = b /\ \A i \in 2 .. n : cs[i][1] = cs[i - 1][2] + 1
  BY DEF Tiles
<1> HIDE DEF n, I
<1>3. PICK f : /\ FlattenSeq(ss) = f[n] /\ f[0] = <<>>
               /\ \A k \in 1 .. n : f[k] = f[k - 1] \o ss[k]
  BY <1>1, Flattened
<1> DEFINE S == {k \in 0 .. n : k # 0 => Tiles(f[k], a, cs[k][2])}
<1>4. 0 \in S
  BY <1>1
<1>5. ASSUME NEW k \in 1 .. n, k - 1 \in S PROVE k \in S
  <2>1. f[k] = f[k - 1] \o ss[k] /\ Tiles(ss[k], cs[k][1], cs[k][2])
        /\ cs[k][1] \in Nat /\ cs[k][2] \in Nat
    BY <1>1, <1>3
  <2>2. CASE k = 1
    <3>1. f[k - 1] = <<>> /\ cs[k][1] = a
      BY <2>2, <1>2, <1>3
    <3>2. ss[k] \in Seq(I)
      BY <2>1 DEF Tiles, I
    <3>3. f[k] = ss[k]
      BY <3>1, <3>2, <2>1, ConcatEmptySeq
    <3>4. Tiles(f[k], a, cs[k][2])
      BY <3>1, <3>3, <2>1
    <3> QED BY <3>4, <1>1
  <2>3. CASE k # 1
    <3>1. k - 1 \in 1 .. n /\ k \in 2 .. n /\ k - 1 # 0
      BY <2>3, <1>1
    <3>2. Tiles(f[k - 1], a, cs[k - 1][2]) /\ cs[k][1] = cs[k - 1][2] + 1 /\ cs[k - 1][2] \in Nat
      BY <3>1, <1>1, <1>2, <1>5
    <3>3. Tiles(f[k - 1] \o ss[k], a, cs[k][2])
      BY <3>2, <2>1, TilesJoin
    <3>4. Tiles(f[k], a, cs[k][2])
      BY <3>3, <2>1
    <3> QED BY <3>4, <1>1
  <2> QED BY <2>2, <2>3
<1>6. n \in S
  <2> HIDE DEF S
  <2>0. n \in Nat
    BY <1>1
  <2>1. \A k \in 0 .. n : k \in S
    BY <2>0, <1>4, <1>5, Climbs
  <2> QED BY <2>1, <2>0
<1> QED BY <1>1, <1>2, <1>3, <1>6

\* A sequence cut along intervals that follow one another is those pieces in a row.
LEMMA CutAlong ==
  ASSUME NEW X, NEW h \in Seq(X), NEW cs, Tiles(cs, 1, Len(h)),
         NEW ss, ss = [i \in DOMAIN cs |-> SubSeq(h, cs[i][1], cs[i][2])]
  PROVE  ss \in Seq(Seq(X)) /\ FlattenSeq(ss) = h
<1> DEFINE n == Len(cs)
           l == Len(h)
<1>0. l \in Nat /\ 1 \in Nat
  OBVIOUS
<1>1. /\ n \in Nat \ {0} /\ DOMAIN cs = 1 .. n
      /\ \A i \in 1 .. n : /\ cs[i][1] \in Nat /\ cs[i][2] \in Nat
                           /\ 1 <= cs[i][1] /\ cs[i][1] <= cs[i][2] /\ cs[i][2] <= l
  BY <1>0, TileBounds
<1>2. cs[1][1] = 1 /\ cs[n][2] = l /\ \A i \in 2 .. n : cs[i][1] = cs[i - 1][2] + 1
  BY DEF Tiles
<1> HIDE DEF n
<1>3. \A i \in 1 .. n : ss[i] = SubSeq(h, cs[i][1], cs[i][2])
  BY <1>1
<1>4. ASSUME NEW p \in Int, NEW q \in Int, 1 <= p, q <= l
      PROVE  SubSeq(h, p, q) \in Seq(X)
  <2>1. \A k \in p .. q : h[k] \in X
    BY <1>4
  <2> QED BY <2>1, SubSeqProperties
<1>5. ss \in Seq(Seq(X)) /\ Len(ss) = n
  <2>1. \A i \in 1 .. n : SubSeq(h, cs[i][1], cs[i][2]) \in Seq(X)
    BY <1>1, <1>4
  <2>2. ss \in [1 .. n -> Seq(X)]
    BY <2>1, <1>1
  <2> QED BY <2>2, <1>1, SeqDef
<1>6. PICK f : /\ FlattenSeq(ss) = f[n] /\ f[0] = <<>>
               /\ \A k \in 1 .. n : f[k] = f[k - 1] \o ss[k]
  BY <1>5, Flattened
<1>7. ASSUME NEW p \in Nat, NEW q \in Nat, 1 <= p, p <= q, q <= l
      PROVE  SubSeq(h, 1, p - 1) \o SubSeq(h, p, q) = SubSeq(h, 1, q)
  <2> DEFINE u == SubSeq(h, 1, p - 1)
             v == SubSeq(h, p, q)
             w == SubSeq(h, 1, q)
  <2>1. /\ u \in Seq(X) /\ v \in Seq(X) /\ w \in Seq(X)
        /\ Len(u) = p - 1 /\ Len(v) = q - p + 1 /\ Len(w) = q
        /\ \A i \in 1 .. p - 1 : u[i] = h[i]
        /\ \A i \in 1 .. q - p + 1 : v[i] = h[p + i - 1]
        /\ \A i \in 1 .. q : w[i] = h[i]
    BY <1>7
  <2> HIDE DEF u, v, w
  <2>2. /\ u \o v \in Seq(X) /\ Len(u \o v) = Len(u) + Len(v)
        /\ \A i \in 1 .. Len(u) + Len(v) : (u \o v)[i] = IF i <= Len(u) THEN u[i] ELSE v[i - Len(u)]
    BY <2>1, ConcatProperties
  <2>3. Len(u \o v) = q /\ \A i \in 1 .. q : (u \o v)[i] = IF i <= p - 1 THEN u[i] ELSE v[i - (p - 1)]
    <3>1. Len(u) + Len(v) = q
      BY <2>1
    <3> QED BY <3>1, <2>1, <2>2
  <2>4. ASSUME NEW i \in 1 .. q PROVE (u \o v)[i] = w[i]
    <3>1. CASE i <= p - 1
      <4>1. i \in 1 .. p - 1
        BY <3>1
      <4> QED BY <4>1, <3>1, <2>1, <2>3
    <3>2. CASE ~(i <= p - 1)
      <4>1. i - (p - 1) \in 1 .. q - p + 1 /\ p + (i - (p - 1)) - 1 = i /\ ~(i <= p - 1)
        BY <3>2
      <4>2. v[i - (p - 1)] = h[p + (i - (p - 1)) - 1]
        BY <4>1, <2>1
      <4> QED BY <4>1, <4>2, <2>1, <2>3
    <3> QED BY <3>1, <3>2
  <2>5. u \o v = w
    BY <2>1, <2>2, <2>3, <2>4, SeqEqual
  <2> QED BY <2>5 DEF u, v, w
<1> DEFINE S == {k \in 0 .. n : k # 0 => f[k] = SubSeq(h, 1, cs[k][2])}
<1>8. 0 \in S
  BY <1>1
<1>9. ASSUME NEW k \in 1 .. n, k - 1 \in S PROVE k \in S
  <2> DEFINE p == cs[k][1]
             q == cs[k][2]
  <2>1. f[k] = f[k - 1] \o SubSeq(h, p, q) /\ p \in Nat /\ q \in Nat /\ 1 <= p /\ p <= q /\ q <= l
    BY <1>1, <1>3, <1>6
  <2>2. f[k - 1] = SubSeq(h, 1, p - 1)
    <3>1. CASE k = 1
      <4>1. f[k - 1] = <<>> /\ p = 1
        BY <3>1, <1>2, <1>6
      <4>2. SubSeq(h, 1, 0) = <<>>
        BY SubSeqEmpty
      <4> QED BY <4>1, <4>2
    <3>2. CASE k # 1
      <4>1. k - 1 \in 1 .. n /\ k \in 2 .. n /\ k - 1 # 0
        BY <3>2, <1>1
      <4>2. f[k - 1] = SubSeq(h, 1, cs[k - 1][2]) /\ p = cs[k - 1][2] + 1 /\ cs[k - 1][2] \in Nat
        BY <4>1, <1>1, <1>2, <1>9
      <4>3. p - 1 = cs[k - 1][2]
        BY <4>2
      <4> QED BY <4>2, <4>3
    <3> QED BY <3>1, <3>2
  <2>3. f[k] = SubSeq(h, 1, q)
    BY <2>1, <2>2, <1>7
  <2> QED BY <2>3, <1>1
<1>10. n \in S
  <2> HIDE DEF S
  <2>0. n \in Nat
    BY <1>1
  <2>1. \A k \in 0 .. n : k \in S
    BY <2>0, <1>8, <1>9, Climbs
  <2> QED BY <2>1, <2>0
<1>11. f[n] = SubSeq(h, 1, l)
  BY <1>1, <1>2, <1>10
<1>12. SubSeq(h, 1, l) = h
  BY SubSeqFull
<1> QED BY <1>5, <1>6, <1>11, <1>12

-----------------------------------------------------------------------------
(* The pages of the parts of a document, joined again.                       *)

LEMMA FlattenOne ==
  ASSUME NEW X, NEW x \in Seq(X)
  PROVE  FlattenSeq(<<x>>) = x
<1>1. <<x>> \in Seq(Seq(X)) /\ Len(<<x>>) = 1 /\ <<x>>[1] = x
  OBVIOUS
<1>2. PICK f : /\ FlattenSeq(<<x>>) = f[1] /\ f[0] = <<>>
               /\ \A k \in 1 .. 1 : f[k] = f[k - 1] \o <<x>>[k]
  BY <1>1, Flattened
<1>3. 1 \in 1 .. 1 /\ 1 - 1 = 0
  OBVIOUS
<1>4. f[1] = <<>> \o x
  BY <1>1, <1>2, <1>3
<1> QED BY <1>2, <1>4, ConcatEmptySeq

\* parse_page_ranges: the pages selected are a sequence of page numbers.
LEMMA SelectedSeq ==
  ASSUME NEW j \in Jobs, NEW s \in Src
  PROVE  Selected(j, s) \in Seq(Int)
<1>1. Sources[s].pages \in Nat /\ j.ranges \in Seq(Int \X Int)
  <2>1. Sources[s].pages \in Nat
    BY SourcesAreFiles DEF Src
  <2>2. j.ranges \in Seq(Int \X Int)
    BY JobsAreCalls
  <2> QED BY <2>1, <2>2
<1>2. \A v \in Int : PageNumber(v, Sources[s].pages) \in Int
  BY <1>1 DEF PageNumber
<1>3. ParseRanges(j, s) \in Seq(Int)
  <2> DEFINE ss == [n \in DOMAIN j.ranges |->
                      LET b == Bounds(j.ranges[n], Sources[s].pages)
                      IN [i \in 1 .. b[2] - b[1] + 1 |-> b[1] + i - 1]]
             asked == FlattenSeq(ss)
             picked == [i \in DOMAIN asked |->
                          IF \E k \in 1 .. i - 1 : asked[k] = asked[i] THEN <<>> ELSE <<asked[i]>>]
  <2>1. \A n \in DOMAIN j.ranges : ss[n] \in Seq(Int)
    <3> SUFFICES ASSUME NEW n \in DOMAIN j.ranges PROVE ss[n] \in Seq(Int)
      OBVIOUS
    <3> DEFINE b == Bounds(j.ranges[n], Sources[s].pages)
    <3>1. j.ranges[n][1] \in Int /\ j.ranges[n][2] \in Int
      BY <1>1
    <3>2. b[1] \in Int /\ b[2] \in Int
      BY <3>1, <1>2 DEF Bounds
    <3>3. ss[n] = [i \in 1 .. b[2] - b[1] + 1 |-> b[1] + i - 1]
      OBVIOUS
    <3> HIDE DEF b, ss
    <3>4. \A m \in Int : 1 .. m = 1 .. (IF m > 0 THEN m ELSE 0) /\ (IF m > 0 THEN m ELSE 0) \in Nat
      OBVIOUS
    <3>5. \E m \in Nat : ss[n] \in [1 .. m -> Int]
      <4> DEFINE d == b[2] - b[1] + 1
                 m == IF d > 0 THEN d ELSE 0
      <4>1. d \in Int /\ m \in Nat /\ 1 .. d = 1 .. m
        BY <3>2, <3>4
      <4>2. ss[n] \in [1 .. d -> Int]
        BY <3>2, <3>3
      <4> HIDE DEF m, d
      <4> QED BY <4>1, <4>2
    <3> QED BY <3>5, SeqDef
  <2>2. ss \in Seq(Seq(Int))
    <3>1. DOMAIN ss = 1 .. Len(j.ranges) /\ Len(j.ranges) \in Nat
      BY <1>1
    <3>2. ss \in [1 .. Len(j.ranges) -> Seq(Int)]
      BY <1>1, <2>1, <3>1
    <3> HIDE DEF ss
    <3> QED BY <3>1, <3>2, SeqDef
  <2>3. asked \in Seq(Int)
    <3> HIDE DEF ss
    <3> QED BY <2>2, FlattenRange
  <2>4. ParseRanges(j, s) = FlattenSeq(picked)
    BY DEF ParseRanges
  <2> HIDE DEF asked
  <2>5. Picks(asked, picked)
    BY DEF Picks
  <2>6. picked = [i \in DOMAIN asked |-> picked[i]]
    OBVIOUS
  <2> HIDE DEF picked
  <2>7. FlattenSeq(picked) \in Seq(Int)
    BY <2>3, <2>5, <2>6, Picked
  <2> QED BY <2>4, <2>7
<1>4. [p \in 1 .. Sources[s].pages |-> p] \in Seq(Int)
  <2>1. [p \in 1 .. Sources[s].pages |-> p] \in [1 .. Sources[s].pages -> Int]
    BY <1>1
  <2> QED BY <1>1, <2>1, SeqDef
<1> QED BY <1>3, <1>4 DEF Selected

\* split_pdf_groups: the groups of a document follow one another over its pages.
LEMMA GroupsFollow ==
  ASSUME NEW j \in Jobs, NEW s \in Src
  PROVE  IF Selected(j, s) = <<>> THEN Groups(j, s) = <<>>
         ELSE Tiles(Groups(j, s), 1, Len(Selected(j, s)))
<1> DEFINE sel == Selected(j, s)
           n == Len(sel)
           whole == InGroups(n, MaxPages)
           ss == [i \in DOMAIN whole |-> Halved(j, s)[whole[i]]]
<1>1. sel \in Seq(Int)
  BY SelectedSeq
<1>2. n \in Nat /\ MaxPages \in Nat \ {0} /\ (n = 0 <=> sel = <<>>)
  <2> HIDE DEF sel
  <2> QED BY <1>1, LimitsArePositive DEF n
<1>3. Groups(j, s) = FlattenSeq(ss)
  BY DEF Groups
<1> HIDE DEF ss
<1>4. CASE n = 0
  <2>1. whole = <<>>
    <3> HIDE DEF n
    <3> QED BY <1>2, <1>4, GroupsTile
  <2> HIDE DEF whole
  <2>2. ss = <<>>
    BY <2>1 DEF ss
  <2>3. FlattenSeq(<<>>) = <<>>
    BY DEF FlattenSeq
  <2> QED BY <1>2, <1>3, <1>4, <2>2, <2>3
<1>5. CASE n # 0
  <2>1. Tiles(whole, 1, n)
    <3> HIDE DEF n
    <3> QED BY <1>2, <1>5, GroupsTile
  <2>2. /\ Len(whole) \in Nat \ {0} /\ DOMAIN whole = 1 .. Len(whole)
        /\ \A i \in 1 .. Len(whole) : /\ whole[i][1] \in Nat /\ whole[i][2] \in Nat
                                      /\ whole[i] = <<whole[i][1], whole[i][2]>>
                                      /\ 1 <= whole[i][1] /\ whole[i][1] <= whole[i][2] /\ whole[i][2] <= n
    <3> HIDE DEF n, whole
    <3>1. 1 \in Nat
      OBVIOUS
    <3> QED BY <1>2, <2>1, <3>1, TileBounds
  <2>3. ASSUME NEW i \in 1 .. Len(whole) PROVE Tiles(ss[i], whole[i][1], whole[i][2])
    <3>1. ss[i] = Halved(j, s)[whole[i]]
      BY <2>2 DEF ss
    <3>2. whole[i] \in (1 .. n) \X (1 .. n) /\ whole[i][1] <= whole[i][2]
      <4> HIDE DEF whole, n
      <4>1. whole[i][1] \in 1 .. n /\ whole[i][2] \in 1 .. n /\ whole[i] = <<whole[i][1], whole[i][2]>>
        BY <2>2, <1>2
      <4> QED BY <4>1, <2>2
    <3> HIDE DEF whole
    <3>3. Tiles(Halved(j, s)[whole[i]], whole[i][1], whole[i][2])
      BY <1>2, <3>2, HalvedTiles
    <3> QED BY <3>1, <3>3
  <2> HIDE DEF whole
  <2>4. ss \in Seq(Seq(Nat \X Nat)) /\ Len(ss) = Len(whole)
    <3>1. \A i \in 1 .. Len(whole) : ss[i] \in Seq(Nat \X Nat)
      BY <2>3 DEF Tiles
    <3>2. ss \in [1 .. Len(whole) -> Seq(Nat \X Nat)]
      BY <3>1, <2>2 DEF ss
    <3>3. Len(whole) \in Nat
      BY <2>2
    <3>4. \A m \in Nat : \A q \in [1 .. m -> Seq(Nat \X Nat)] : q \in Seq(Seq(Nat \X Nat)) /\ Len(q) = m
      BY SeqDef
    <3> QED BY <3>2, <3>3, <3>4
  <2>5. TilesEach(whole, ss)
    BY <2>3, <2>4 DEF TilesEach
  <2>6. Tiles(FlattenSeq(ss), 1, n)
    <3> HIDE DEF n
    <3> QED BY <1>2, <2>1, <2>5, TilesFlat
  <2> QED BY <1>2, <1>3, <1>5, <2>6
<1> QED BY <1>4, <1>5

\* The pages of each part of a document.
PageCuts(j, s) == IF NeedsSplit(s)
                  THEN [i \in DOMAIN Groups(j, s) |->
                          SubSeq(Selected(j, s), Groups(j, s)[i][1], Groups(j, s)[i][2])]
                  ELSE <<Selected(j, s)>>

\* What the service makes, in run r, of the pages of s.
PagesText(s, pages, r) == IF pages = <<>> THEN << <<s, 0, r>> >> ELSE [k \in DOMAIN pages |-> <<s, pages[k], r>>]

LEMMA PageCutsJoin ==
  ASSUME NEW j \in Jobs, NEW s \in Src
  PROVE  /\ PageCuts(j, s) \in Seq(Seq(Int)) /\ FlattenSeq(PageCuts(j, s)) = Selected(j, s)
         /\ ~NeedsSplit(s) => Len(PageCuts(j, s)) = 1
         /\ \A r : PageCuts(j, s) # <<>> =>
              FlattenSeq([i \in DOMAIN PageCuts(j, s) |-> PagesText(s, PageCuts(j, s)[i], r)])
              = PagesText(s, Selected(j, s), r)
<1> DEFINE sel == Selected(j, s)
           gs == Groups(j, s)
           ss == PageCuts(j, s)
           Mapped(q, r) == [k \in DOMAIN q |-> <<s, q[k], r>>]
<1>1. sel \in Seq(Int)
  BY SelectedSeq
<1>2. IF sel = <<>> THEN gs = <<>> ELSE Tiles(gs, 1, Len(sel))
  BY GroupsFollow
<1>3. ss = IF NeedsSplit(s) THEN [i \in DOMAIN gs |-> SubSeq(sel, gs[i][1], gs[i][2])] ELSE <<sel>>
  BY DEF PageCuts
<1> HIDE DEF sel, gs, ss
<1>4. ASSUME NEW r PROVE Mapped(sel, r) \in Seq({s} \X Int \X {r}) /\ Len(Mapped(sel, r)) = Len(sel)
  <2>1. DOMAIN sel = 1 .. Len(sel) /\ Len(sel) \in Nat /\ \A k \in DOMAIN sel : sel[k] \in Int
    BY <1>1
  <2>2. Mapped(sel, r) \in [1 .. Len(sel) -> {s} \X Int \X {r}]
    BY <2>1
  <2> HIDE DEF Mapped
  <2> QED BY <2>1, <2>2, SeqDef
<1>5. CASE ~NeedsSplit(s)
  <2>1. ss = <<sel>> /\ ss \in Seq(Seq(Int)) /\ Len(ss) = 1 /\ FlattenSeq(ss) = sel
    BY <1>1, <1>3, <1>5, FlattenOne
  <2>2. ASSUME NEW r
        PROVE  FlattenSeq([i \in DOMAIN ss |-> PagesText(s, ss[i], r)]) = PagesText(s, sel, r)
    <3> DEFINE t == PagesText(s, sel, r)
    <3>1. t \in Seq({s} \X Int \X {r})
      <4>1. << <<s, 0, r>> >> \in Seq({s} \X Int \X {r})
        OBVIOUS
      <4> QED BY <1>4, <4>1 DEF PagesText
    <3>2. [i \in DOMAIN ss |-> PagesText(s, ss[i], r)] = <<t>>
      <4> HIDE DEF t
      <4>1. DOMAIN ss = 1 .. 1 /\ ss[1] = sel /\ 1 .. 1 = {1}
        BY <2>1
      <4>2. \A i \in 1 .. 1 : PagesText(s, ss[i], r) = t
        BY <4>1 DEF t
      <4>3. [i \in 1 .. 1 |-> t] = <<t>>
        OBVIOUS
      <4>4. [i \in DOMAIN ss |-> PagesText(s, ss[i], r)] = [i \in 1 .. 1 |-> t]
        BY <4>1, <4>2
      <4> QED BY <4>3, <4>4
    <3> HIDE DEF t
    <3>3. FlattenSeq(<<t>>) = t
      BY <3>1, FlattenOne
    <3> QED BY <3>2, <3>3 DEF t
  <2> QED BY <2>1, <2>2, <1>5 DEF ss, sel
<1>6. CASE NeedsSplit(s) /\ sel = <<>>
  <2>1. ss = <<>>
    BY <1>2, <1>3, <1>6
  <2>2. FlattenSeq(<<>>) = <<>> /\ <<>> \in Seq(Seq(Int))
    BY DEF FlattenSeq
  <2> QED BY <2>1, <2>2, <1>6 DEF ss, sel
<1>7. CASE NeedsSplit(s) /\ sel # <<>>
  <2>1. Tiles(gs, 1, Len(sel)) /\ ss = [i \in DOMAIN gs |-> SubSeq(sel, gs[i][1], gs[i][2])]
    BY <1>2, <1>3, <1>7
  <2>2. ss \in Seq(Seq(Int)) /\ FlattenSeq(ss) = sel
    BY <1>1, <2>1, CutAlong
  <2>3. Len(sel) \in Nat /\ DOMAIN sel = 1 .. Len(sel) /\ 1 \in Nat
    BY <1>1
  <2>4. /\ DOMAIN gs = 1 .. Len(gs) /\ DOMAIN ss = DOMAIN gs
        /\ \A i \in DOMAIN gs : /\ gs[i][1] \in Nat /\ gs[i][2] \in Nat
                                /\ 1 <= gs[i][1] /\ gs[i][1] <= gs[i][2] /\ gs[i][2] <= Len(sel)
    BY <2>1, <2>3, TileBounds
  <2>5. ASSUME NEW r
        PROVE  FlattenSeq([i \in DOMAIN ss |-> PagesText(s, ss[i], r)]) = PagesText(s, sel, r)
    <3> DEFINE t == Mapped(sel, r)
               ts == [i \in DOMAIN gs |-> SubSeq(t, gs[i][1], gs[i][2])]
    <3>1. t \in Seq({s} \X Int \X {r}) /\ Len(t) = Len(sel)
      BY <1>4
    <3>2. \A k \in 1 .. Len(sel) : t[k] = <<s, sel[k], r>>
      BY <2>3
    <3> HIDE DEF t, Mapped
    <3>3. FlattenSeq(ts) = t
      <4>1. Tiles(gs, 1, Len(t))
        BY <2>1, <3>1
      <4> QED BY <4>1, <3>1, CutAlong
    <3>4. ASSUME NEW i \in DOMAIN gs PROVE PagesText(s, ss[i], r) = SubSeq(t, gs[i][1], gs[i][2])
      <4> DEFINE p == SubSeq(sel, gs[i][1], gs[i][2])
                 q == SubSeq(t, gs[i][1], gs[i][2])
                 m == gs[i][2] - gs[i][1] + 1
                 a == gs[i][1]
      <4>0. a \in Nat /\ gs[i][2] \in Nat /\ 1 <= a /\ a <= gs[i][2] /\ gs[i][2] <= Len(sel)
            /\ m \in Nat \ {0}
        BY <2>4
      <4>1. /\ p \in Seq(Int) /\ Len(p) = m
            /\ \A k \in 1 .. m : p[k] = sel[a + k - 1]
        <5> HIDE DEF sel
        <5>1. \A k \in gs[i][1] .. gs[i][2] : sel[k] \in Int
          BY <4>0, <1>1, <2>3
        <5>2. gs[i][1] \in Int /\ gs[i][2] \in Int /\ gs[i][1] <= gs[i][2]
          BY <4>0
        <5> QED BY <5>1, <5>2, SubSeqProperties
      <4>2. /\ q \in Seq({s} \X Int \X {r}) /\ Len(q) = m
            /\ \A k \in 1 .. m : q[k] = t[a + k - 1]
        <5>1. \A k \in gs[i][1] .. gs[i][2] : t[k] \in {s} \X Int \X {r}
          BY <4>0, <3>1, <2>3
        <5> QED BY <5>1, <4>0, SubSeqProperties
      <4>3. ss[i] = p
        BY <2>1
      <4>4. m \in Nat \ {0} /\ \A k \in 1 .. m : a + k - 1 \in 1 .. Len(sel)
        BY <4>0, <2>3
      <4> HIDE DEF p, q, m, a
      <4>5. p # <<>> /\ DOMAIN p = 1 .. m /\ q = [k \in 1 .. m |-> q[k]]
        BY <4>1, <4>2, <4>4
      <4>6. \A k \in 1 .. m : q[k] = <<s, p[k], r>>
        BY <4>1, <4>2, <4>4, <3>2
      <4>7. PagesText(s, p, r) = [k \in 1 .. m |-> <<s, p[k], r>>]
        BY <4>5 DEF PagesText
      <4>8. PagesText(s, p, r) = q
        BY <4>5, <4>6, <4>7
      <4> QED BY <4>3, <4>8 DEF q
    <3>5. [i \in DOMAIN ss |-> PagesText(s, ss[i], r)] = ts
      BY <2>4, <3>4
    <3>6. PagesText(s, sel, r) = t
      BY <1>7 DEF PagesText, t, Mapped
    <3> HIDE DEF ts
    <3> QED BY <3>3, <3>5, <3>6
  <2> QED BY <2>2, <2>5, <1>7 DEF ss, sel
<1> QED BY <1>5, <1>6, <1>7

-----------------------------------------------------------------------------
(* Parts, items and what is sent.                                            *)

\* prepare_local_items: the parts of a document, each known by its number and by its name.
PartsAre(j, s, q, m) ==
  /\ m \in Nat /\ Len(q) = m /\ DOMAIN q = 1 .. m /\ Len(PageCuts(j, s)) = m /\ DOMAIN PageCuts(j, s) = 1 .. m
  /\ \A i \in 1 .. m : /\ q[i].src = s /\ q[i].part = i /\ q[i].parts = m
                       /\ q[i].pages = PageCuts(j, s)[i] /\ q[i].pages \in Seq(Int)
  /\ \A i, k \in 1 .. m : q[i].name = q[k].name => i = k
  /\ ~NeedsSplit(s) => m = 1

LEMMA PartsFacts ==
  ASSUME NEW j \in Jobs, NEW s \in Src
  PROVE  \E m : PartsAre(j, s, Parts(j, s), m)
<1> DEFINE pages == PageCuts(j, s)
           m == Len(pages)
           q == Parts(j, s)
<1>1. pages \in Seq(Seq(Int)) /\ (~NeedsSplit(s) => m = 1)
  BY PageCutsJoin
<1>2. q = [i \in DOMAIN pages |->
             [src |-> s, part |-> i, parts |-> m, pages |-> pages[i],
              name |-> IF NeedsSplit(s) THEN <<Sources[s].name, i>> ELSE <<Sources[s].name>>]]
  BY DEF Parts, PageCuts
<1> HIDE DEF pages, q
<1>3. m \in Nat /\ DOMAIN pages = 1 .. m /\ \A i \in 1 .. m : pages[i] \in Seq(Int)
  BY <1>1
<1> HIDE DEF m
<1>4. DOMAIN q = 1 .. m /\ Len(q) = m
  BY <1>2, <1>3
<1>5. \A i \in 1 .. m : q[i] =
          [src |-> s, part |-> i, parts |-> m, pages |-> pages[i],
           name |-> IF NeedsSplit(s) THEN <<Sources[s].name, i>> ELSE <<Sources[s].name>>]
  BY <1>2, <1>3
<1>6. \A i \in 1 .. m : /\ q[i].src = s /\ q[i].part = i /\ q[i].parts = m
                        /\ q[i].pages = pages[i]
                        /\ q[i].name = IF NeedsSplit(s) THEN <<Sources[s].name, i>> ELSE <<Sources[s].name>>
  <2> TAKE i \in 1 .. m
  <2> DEFINE name == IF NeedsSplit(s) THEN <<Sources[s].name, i>> ELSE <<Sources[s].name>>
  <2>1. q[i] = [src |-> s, part |-> i, parts |-> m, pages |-> pages[i], name |-> name]
    BY <1>5
  <2> HIDE DEF name
  <2>2. /\ q[i].src = s /\ q[i].part = i /\ q[i].parts = m /\ q[i].pages = pages[i]
        /\ q[i].name = name
    BY <2>1
  <2> QED BY <2>2 DEF name
<1>7. ASSUME NEW i \in 1 .. m, NEW k \in 1 .. m, q[i].name = q[k].name PROVE i = k
  <2>1. CASE NeedsSplit(s)
    <3>1. <<Sources[s].name, i>> = <<Sources[s].name, k>>
      BY <1>6, <1>7, <2>1
    <3> QED BY <3>1
  <2>2. CASE ~NeedsSplit(s)
    <3>1. m = 1
      BY <1>1, <2>2 DEF m
    <3> QED BY <3>1
  <2> QED BY <2>1, <2>2
<1>8. PartsAre(j, s, q, m)
  BY <1>1, <1>3, <1>4, <1>6, <1>7 DEF PartsAre, m, pages
<1> QED BY <1>8 DEF q

Item(j) == UNION {Range(Parts(j, s)) : s \in Range(j.inputs)}

LEMMA ItemFacts ==
  ASSUME NEW j \in Jobs, NEW it \in Item(j)
  PROVE  /\ it.src \in Range(j.inputs) /\ it.src \in Src
         /\ it \in Range(Parts(j, it.src)) /\ it.part \in DOMAIN Parts(j, it.src)
         /\ it = Parts(j, it.src)[it.part] /\ it.parts = Len(Parts(j, it.src))
         /\ it.part \in Nat \ {0} /\ it.pages \in Seq(Int)
<1>1. PICK s \in Range(j.inputs) : it \in Range(Parts(j, s))
  BY DEF Item
<1>2. s \in Src
  BY JobsAreCalls DEF Range, Src
<1>3. PICK m : PartsAre(j, s, Parts(j, s), m)
  BY <1>2, PartsFacts
<1>4. PICK i \in 1 .. m : it = Parts(j, s)[i]
  BY <1>1, <1>3 DEF Range, PartsAre
<1>5. it.src = s /\ it.part = i /\ it.parts = m /\ it.pages \in Seq(Int) /\ m \in Nat
      /\ DOMAIN Parts(j, s) = 1 .. m /\ Len(Parts(j, s)) = m
  BY <1>3, <1>4 DEF PartsAre
<1> QED BY <1>1, <1>2, <1>4, <1>5

\* A part is the only one of its document by its number, and by its name.
LEMMA SamePart ==
  ASSUME NEW j \in Jobs, NEW x \in Item(j), NEW y \in Item(j), x.src = y.src,
         x.part = y.part \/ x.name = y.name
  PROVE  x = y
<1> DEFINE s == x.src
           q == Parts(j, s)
<1>1. s \in Src /\ x.part \in DOMAIN q /\ x = q[x.part] /\ y.part \in DOMAIN q /\ y = q[y.part]
  BY ItemFacts
<1>2. PICK m : PartsAre(j, s, q, m)
  BY <1>1, PartsFacts
<1> HIDE DEF s, q
<1>3. \A i, k \in DOMAIN q : q[i].name = q[k].name => i = k
  BY <1>2 DEF PartsAre
<1>4. x.part = y.part
  BY <1>1, <1>3
<1> QED BY <1>1, <1>4

LEMMA WorkerSource ==
  ASSUME NEW j \in Jobs, j.worker, NEW s \in Range(j.inputs), NEW t \in Range(j.inputs)
  PROVE  s = t /\ s = j.inputs[1]
<1>1. j.inputs \in Seq(Src) /\ Len(j.inputs) = 1
  BY JobsAreCalls DEF Src
<1>2. DOMAIN j.inputs = {1}
  BY <1>1
<1> QED BY <1>2 DEF Range

\* model_batches: nothing is sent that was not to be sent.
LEMMA ModelBatchesSeq ==
  ASSUME NEW I, NEW items \in Seq(I)
  PROVE  ModelBatches(items) \in Seq(Seq(I))
<1> DEFINE Html(it) == Sources[it.src].html
           ss == [i \in DOMAIN items |-> IF Html(items[i]) THEN <<items[i]>> ELSE <<>>]
           tt == [i \in DOMAIN items |-> IF ~Html(items[i]) THEN <<items[i]>> ELSE <<>>]
           one == FlattenSeq(ss)
           two == FlattenSeq(tt)
           Group(its) == [i \in DOMAIN InGroups(Len(its), BatchSize) |->
                            SubSeq(its, InGroups(Len(its), BatchSize)[i][1], InGroups(Len(its), BatchSize)[i][2])]
<1>1. one \in Seq(I)
  <2>1. Picks(items, ss) /\ ss = [i \in DOMAIN items |-> ss[i]]
    BY DEF Picks
  <2> HIDE DEF ss
  <2> QED BY <2>1, Picked
<1>2. two \in Seq(I)
  <2>1. Picks(items, tt) /\ tt = [i \in DOMAIN items |-> tt[i]]
    BY DEF Picks
  <2> HIDE DEF tt
  <2> QED BY <2>1, Picked
<1>3. ModelBatches(items) = IF items # <<>> /\ Html(items[1]) THEN Group(one) \o Group(two)
                            ELSE Group(two) \o Group(one)
  BY DEF ModelBatches, Those
<1> HIDE DEF one, two, Html
<1>4. ASSUME NEW its \in Seq(I) PROVE Group(its) \in Seq(Seq(I))
  <2> DEFINE n == Len(its)
             gs == InGroups(n, BatchSize)
  <2>1. n \in Nat /\ BatchSize \in Nat \ {0} /\ \A k \in 1 .. n : its[k] \in I
    BY LimitsArePositive
  <2>2. PICK m \in Nat : Grouping(gs, n, BatchSize, m)
    <3> HIDE DEF n
    <3> QED BY <2>1, GroupBounds
  <2> HIDE DEF gs
  <2>3. DOMAIN gs = 1 .. m /\ \A i \in 1 .. m : gs[i][1] \in Nat \ {0} /\ gs[i][2] \in 0 .. n
    BY <2>2 DEF Grouping
  <2>4. \A i \in 1 .. m : SubSeq(its, gs[i][1], gs[i][2]) \in Seq(I)
    <3> SUFFICES ASSUME NEW i \in 1 .. m PROVE SubSeq(its, gs[i][1], gs[i][2]) \in Seq(I)
      OBVIOUS
    <3>1. gs[i][1] \in Int /\ gs[i][2] \in Int
      BY <2>1, <2>3
    <3>2. \A k \in gs[i][1] .. gs[i][2] : its[k] \in I
      BY <2>1, <2>3
    <3> QED BY <3>1, <3>2, SubSeqProperties
  <2>5. Group(its) = [i \in 1 .. m |-> SubSeq(its, gs[i][1], gs[i][2])]
    BY <2>3 DEF gs
  <2> HIDE DEF Group
  <2>6. Group(its) \in [1 .. m -> Seq(I)]
    BY <2>4, <2>5
  <2> QED BY <2>6, SeqDef
<1> HIDE DEF Group
<1> QED BY <1>1, <1>2, <1>3, <1>4, ConcatProperties

LEMMA InputsPicked ==
  ASSUME NEW j \in Jobs
  PROVE  /\ Locals(j) \in Seq(Range(j.inputs)) /\ Urls(j) \in Seq(Range(j.inputs))
         /\ Range(j.inputs) \subseteq Src /\ j.inputs \in Seq(Range(j.inputs))
         /\ \A i \in DOMAIN Urls(j) : IsUrl(Urls(j)[i])
<1>1. j.inputs \in Seq(Src)
  BY JobsAreCalls DEF Src
<1>2. j.inputs \in Seq(Range(j.inputs)) /\ Range(j.inputs) \subseteq Src
  BY <1>1 DEF Range
<1> DEFINE ss == [i \in DOMAIN j.inputs |-> IF ~IsUrl(j.inputs[i]) THEN <<j.inputs[i]>> ELSE <<>>]
           tt == [i \in DOMAIN j.inputs |-> IF IsUrl(j.inputs[i]) THEN <<j.inputs[i]>> ELSE <<>>]
<1>3. Locals(j) \in Seq(Range(j.inputs))
  <2>1. Picks(j.inputs, ss) /\ ss = [i \in DOMAIN j.inputs |-> ss[i]]
    BY DEF Picks
  <2>2. Locals(j) = FlattenSeq(ss)
    BY DEF Locals, Those
  <2> HIDE DEF ss
  <2> QED BY <1>2, <2>1, <2>2, Picked
<1>4. Urls(j) \in Seq(Range(j.inputs)) /\ \A i \in DOMAIN Urls(j) : IsUrl(Urls(j)[i])
  <2>1. Picks(j.inputs, tt) /\ tt = [i \in DOMAIN j.inputs |-> tt[i]]
    BY DEF Picks
  <2>2. Urls(j) = FlattenSeq(tt)
    BY DEF Urls, Those
  <2>3. \A i \in DOMAIN j.inputs : tt[i] = <<j.inputs[i]>> => IsUrl(j.inputs[i])
    BY <1>2
  <2> HIDE DEF tt
  <2>4. /\ FlattenSeq(tt) \in Seq(Range(j.inputs))
        /\ \A x \in Range(FlattenSeq(tt)) : \E i \in DOMAIN j.inputs : x = j.inputs[i] /\ tt[i] = <<j.inputs[i]>>
    <3>1. FlattenSeq(tt) \in Seq(Range(j.inputs)) /\ PickedFrom(j.inputs, tt)
      BY <1>2, <2>1, Picked
    <3> QED BY <3>1 DEF PickedFrom
  <2>5. \A x \in Range(FlattenSeq(tt)) : IsUrl(x)
    BY <2>3, <2>4
  <2> QED BY <2>2, <2>4, <2>5 DEF Range
<1> QED BY <1>2, <1>3, <1>4

LEMMA ItemsOf ==
  ASSUME NEW j \in Jobs, NEW ls \in Seq(Range(j.inputs))
  PROVE  /\ [i \in DOMAIN ls |-> Parts(j, ls[i])] \in Seq(Seq(Item(j)))
         /\ FlattenSeq([i \in DOMAIN ls |-> Parts(j, ls[i])]) \in Seq(Item(j))
<1> DEFINE ps == [i \in DOMAIN ls |-> Parts(j, ls[i])]
<1>1. DOMAIN ls = 1 .. Len(ls) /\ Len(ls) \in Nat /\ \A i \in DOMAIN ls : ls[i] \in Range(j.inputs)
  OBVIOUS
<1>2. ASSUME NEW s \in Range(j.inputs) PROVE Parts(j, s) \in Seq(Item(j))
  <2>1. s \in Src
    BY InputsPicked
  <2>2. PICK m : PartsAre(j, s, Parts(j, s), m)
    BY <2>1, PartsFacts
  <2>3. m \in Nat /\ DOMAIN Parts(j, s) = 1 .. m
    BY <2>2 DEF PartsAre
  <2>4. \A i \in 1 .. m : Parts(j, s)[i] \in Item(j)
    BY <2>3 DEF Item, Range
  <2>5. Parts(j, s) = [i \in 1 .. m |-> Parts(j, s)[i]]
    BY <2>3 DEF Parts
  <2>6. Parts(j, s) \in [1 .. m -> Item(j)]
    BY <2>4, <2>5
  <2> QED BY <2>3, <2>6, SeqDef
<1>3. ps \in [1 .. Len(ls) -> Seq(Item(j))]
  BY <1>1, <1>2
<1> HIDE DEF ps
<1>4. ps \in Seq(Seq(Item(j)))
  BY <1>1, <1>3, SeqDef
<1>5. FlattenSeq(ps) \in Seq(Item(j))
  BY <1>4, FlattenRange
<1> QED BY <1>4, <1>5 DEF ps

LEMMA ItemsSent ==
  ASSUME NEW j \in Jobs
  PROVE  LocalItems(j) \in Seq(Item(j)) /\ UrlItems(j) \in Seq(Item(j))
BY InputsPicked, ItemsOf DEF LocalItems, UrlItems

\* A single URL is one part of itself.
LEMMA SingleUrl ==
  ASSUME NEW j \in Jobs, Len(Urls(j)) = 1
  PROVE  /\ Urls(j)[1] \in Range(j.inputs) /\ Urls(j)[1] \in Src
         /\ UrlItems(j) \in Seq(Item(j)) /\ Len(UrlItems(j)) = 1 /\ UrlItems(j)[1] \in Item(j)
<1> DEFINE us == Urls(j)
           u == us[1]
<1>1. us \in Seq(Range(j.inputs)) /\ Range(j.inputs) \subseteq Src /\ \A i \in DOMAIN us : IsUrl(us[i])
  BY InputsPicked
<1>2. DOMAIN us = {1} /\ us = <<u>> /\ u \in Range(j.inputs) /\ u \in Src /\ IsUrl(u)
  BY <1>1
<1>3. ~NeedsSplit(u)
  BY <1>2 DEF NeedsSplit, IsPdf, IsUrl
<1> HIDE DEF us, u
<1>4. PICK m : PartsAre(j, u, Parts(j, u), m)
  BY <1>2, PartsFacts
<1>5. Len(Parts(j, u)) = 1
  BY <1>3, <1>4 DEF PartsAre
<1>6. [i \in DOMAIN us |-> Parts(j, us[i])] = <<Parts(j, u)>>
  <2>1. \A i \in {1} : Parts(j, us[i]) = Parts(j, u)
    BY <1>2
  <2> DEFINE p == Parts(j, u)
  <2>2. [i \in DOMAIN us |-> Parts(j, us[i])] = [i \in {1} |-> p]
    BY <1>2, <2>1
  <2> HIDE DEF p
  <2>3. [i \in {1} |-> p] = <<p>>
    OBVIOUS
  <2> QED BY <2>2, <2>3 DEF p
<1>7. UrlItems(j) = FlattenSeq(<<Parts(j, u)>>)
  BY <1>6 DEF UrlItems, us
<1>8. <<Parts(j, u)>> \in Seq(Seq(Item(j)))
  BY <1>1, <1>6, ItemsOf
<1>9. Parts(j, u) \in Seq(Item(j))
  <2> DEFINE p == Parts(j, u)
  <2>1. <<p>> \in Seq(Seq(Item(j)))
    BY <1>8
  <2> HIDE DEF p
  <2>2. p \in Seq(Item(j))
    BY <2>1
  <2> QED BY <2>2 DEF p
<1>10. UrlItems(j) = Parts(j, u)
  BY <1>7, <1>9, FlattenOne
<1>11. UrlItems(j)[1] \in Item(j)
  <2> DEFINE p == Parts(j, u)
  <2>1. p \in Seq(Item(j)) /\ Len(p) = 1
    BY <1>5, <1>9
  <2> HIDE DEF p
  <2>2. p[1] \in Item(j)
    BY <2>1
  <2> QED BY <2>2, <1>10 DEF p
<1> QED BY <1>2, <1>5, <1>9, <1>10, <1>11 DEF us, u

\* The parts of a document, and what the service makes of them in a run, in their order.
LEMMA PartsJoin ==
  ASSUME job \in Jobs, NEW s \in Src, NEW q, q = Parts(job, s), q # <<>>
  PROVE  /\ FlattenSeq([i \in DOMAIN q |-> q[i].pages]) = Selected(job, s)
         /\ FlattenSeq([i \in DOMAIN q |-> TextOf(q[i])]) = Expected(s, tally.runs)
<1>1. PICK j : j = job
  OBVIOUS
<1>2. PICK r : r = tally.runs
  OBVIOUS
<1>3. j \in Jobs
  BY <1>1
<1>4. PICK m : PartsAre(j, s, q, m)
  BY <1>1, <1>3, PartsFacts
<1> DEFINE pages == PageCuts(j, s)
<1>5. /\ DOMAIN q = 1 .. m /\ DOMAIN pages = 1 .. m /\ m \in Nat /\ Len(q) = m
      /\ \A i \in 1 .. m : q[i].src = s /\ q[i].pages = pages[i]
  BY <1>4 DEF PartsAre
<1>6. /\ FlattenSeq(pages) = Selected(j, s) /\ pages \in Seq(Seq(Int))
      /\ pages # <<>> => FlattenSeq([i \in DOMAIN pages |-> PagesText(s, pages[i], r)])
                         = PagesText(s, Selected(j, s), r)
  BY <1>3, PageCutsJoin
<1> HIDE DEF pages
<1>7. [i \in DOMAIN q |-> q[i].pages] = pages
  <2>1. pages = [i \in 1 .. m |-> pages[i]]
    BY <1>5, <1>6
  <2>2. [i \in DOMAIN q |-> q[i].pages] = [i \in 1 .. m |-> pages[i]]
    BY <1>5
  <2> QED BY <2>1, <2>2
<1>8. pages # <<>>
  <2>1. m # 0
    <3>1. q \in Seq(Item(j)) \/ q = <<>> \/ m # 0
      BY <1>1, <1>5 DEF Parts
    <3>2. m = 0 => q = <<>>
      <4>1. q = [i \in DOMAIN q |-> q[i]]
        BY <1>1 DEF Parts
      <4> QED BY <4>1, <1>5
    <3> QED BY <3>2
  <2> QED BY <2>1, <1>5
<1>9. [i \in DOMAIN q |-> TextOf(q[i])] = [i \in DOMAIN pages |-> PagesText(s, pages[i], r)]
  <2>1. \A i \in 1 .. m : TextOf(q[i]) = PagesText(s, pages[i], r)
    BY <1>2, <1>5 DEF TextOf, PagesText
  <2> QED BY <1>5, <2>1
<1>10. Expected(s, tally.runs) = PagesText(s, Selected(j, s), r)
  BY <1>1, <1>2 DEF Expected, PagesText
<1> QED BY <1>1, <1>6, <1>7, <1>8, <1>9, <1>10

\* The whole of a document's parts, sorted by their numbers, is the document's parts.
LEMMA PartsSorted ==
  ASSUME NEW j \in Jobs, NEW s \in Src, NEW parts, parts = Range(Parts(j, s))
  PROVE  /\ IsFiniteSet(parts) /\ Cardinality(parts) = Len(Parts(j, s))
         /\ (CHOOSE q \in [1 .. Cardinality(parts) -> parts] :
               \A i, k \in DOMAIN q : i < k => q[i].part < q[k].part) = Parts(j, s)
<1> DEFINE p == Parts(j, s)
           n == Cardinality(parts)
           Asc(q) == \A i, k \in DOMAIN q : i < k => q[i].part < q[k].part
<1>1. PICK m : PartsAre(j, s, p, m)
  BY PartsFacts
<1>2. /\ m \in Nat /\ Len(p) = m /\ DOMAIN p = 1 .. m /\ \A i \in 1 .. m : p[i].part = i
  BY <1>1 DEF PartsAre
<1>3. p = [i \in 1 .. m |-> p[i]]
  BY <1>2 DEF Parts
<1> HIDE DEF p
<1>4. parts = {p[i] : i \in 1 .. m}
  BY <1>2 DEF Range, p
<1>5. \A x \in parts : x.part \in 1 .. m /\ x = p[x.part]
  BY <1>2, <1>4
<1>6. IsFiniteSet(parts) /\ Cardinality(parts) = m
  <2>1. p \in Surjection(1 .. m, parts)
    BY <1>2, <1>3, <1>4 DEF Surjection
  <2>2. p \in Injection(1 .. m, parts)
    BY <1>2, <1>3, <1>4 DEF Injection, IsInjective
  <2>3. p \in Bijection(1 .. m, parts)
    BY <2>1, <2>2 DEF Bijection
  <2>4. ExistsBijection(1 .. m, parts)
    BY <2>3 DEF ExistsBijection
  <2>5. IsFiniteSet(1 .. m) /\ Cardinality(1 .. m) = m
    BY <1>2, FS_Interval
  <2> QED BY <2>4, <2>5, FS_Bijection
<1>7. n = m
  BY <1>6
<1> HIDE DEF n
<1>8. p \in [1 .. n -> parts] /\ Asc(p)
  BY <1>2, <1>3, <1>4, <1>7
<1>9. ASSUME NEW q \in [1 .. n -> parts], Asc(q) PROVE q = p
  <2>1. \A i \in 1 .. n : q[i].part \in 1 .. n /\ q[i] = p[q[i].part]
    BY <1>5, <1>7
  <2>2. \A i \in 1 .. n : i <= q[i].part
    <3> DEFINE S == {k \in 0 .. n : k = 0 \/ k <= q[k].part}
    <3>1. 0 \in S
      BY <1>2, <1>7
    <3>2. ASSUME NEW k \in 1 .. n, k - 1 \in S PROVE k \in S
      <4>1. CASE k = 1
        BY <4>1, <2>1, <1>2, <1>7
      <4>2. CASE k # 1
        <5>1. k - 1 \in 1 .. n /\ k - 1 < k /\ k - 1 # 0
          BY <4>2, <1>2, <1>7
        <5>2. k - 1 <= q[k - 1].part /\ q[k - 1].part < q[k].part
          BY <5>1, <3>2, <1>9
        <5> QED BY <5>1, <5>2, <2>1
      <4> QED BY <4>1, <4>2
    <3> HIDE DEF S
    <3>3. \A k \in 0 .. n : k \in S
      BY <3>1, <3>2, <1>2, <1>7, Climbs
    <3> QED BY <3>3, <1>2, <1>7 DEF S
  <2>3. \A i \in 1 .. n : q[i].part <= i
    <3> DEFINE S == {k \in 0 .. n : k = n \/ q[n - k].part <= n - k}
    <3>1. 0 \in S
      <4>1. n = 0 \/ n \in 1 .. n
        BY <1>2, <1>7
      <4>2. n \in 1 .. n => q[n].part <= n
        BY <2>1, <1>2, <1>7
      <4>3. n - 0 = n /\ 0 \in 0 .. n
        BY <1>2, <1>7
      <4> QED BY <4>1, <4>2, <4>3
    <3>2. ASSUME NEW k \in 1 .. n, k - 1 \in S PROVE k \in S
      <4>1. CASE k = n
        BY <4>1
      <4>2. CASE k # n
        <5> DEFINE i == n - k
        <5>1. i \in 1 .. n /\ i + 1 \in 1 .. n /\ i < i + 1 /\ n - (k - 1) = i + 1 /\ k - 1 # n
          BY <4>2, <1>2, <1>7
        <5>2. q[n - (k - 1)].part <= n - (k - 1)
          BY <5>1, <3>2
        <5> HIDE DEF i
        <5>3. q[i].part < q[i + 1].part /\ q[i + 1].part <= i + 1
          BY <5>1, <5>2, <1>9
        <5>4. q[i].part <= i
          BY <5>1, <5>3, <2>1
        <5> QED BY <5>4 DEF i
      <4> QED BY <4>1, <4>2
    <3> HIDE DEF S
    <3>3. \A k \in 0 .. n : k \in S
      BY <3>1, <3>2, <1>2, <1>7, Climbs
    <3> TAKE i \in 1 .. n
    <3>4. n - i \in 0 .. n /\ n - i # n /\ n - (n - i) = i
      BY <1>2, <1>7
    <3> QED BY <3>3, <3>4 DEF S
  <2>4. \A i \in 1 .. n : q[i] = p[i]
    <3> TAKE i \in 1 .. n
    <3>1. q[i].part = i
      BY <2>1, <2>2, <2>3, <1>2, <1>7
    <3> QED BY <3>1, <2>1
  <2> QED BY <2>4, <1>3, <1>7
<1> DEFINE c == CHOOSE q \in [1 .. n -> parts] : Asc(q)
<1>10. c \in [1 .. n -> parts] /\ Asc(c)
  BY <1>8
<1>11. c = p
  BY <1>9, <1>10
<1> QED BY <1>2, <1>6, <1>7, <1>11 DEF p, n

-----------------------------------------------------------------------------
(* The inductive invariant.                                                   *)

Places == {"off", "batch", "upload", "poll", "download", "merge", "evidence", "task", "await",
           "done", "failed"}
States == {"waiting", "running", "done", "failed"}
Stamp(r) == Src \X Int \X (0 .. r)

\* Nothing has been mistaken for something else: no batch was taken too early, or it is the
\* worker's, whose one document has parts of different names.
Sure == ~tally.late \/ job.worker

AdapterType(j, a) ==
  a \in [pc : Places, batches : Seq(Seq(Item(j))), todo : Seq(Nat), got : SUBSET Item(j),
         merge : Seq(Range(j.inputs)), match : Seq(Nat), phase : {"local", "url"}]
ServiceType(j, v) == v \in [items : Seq(Item(j)), st : Seq(States), listed : SUBSET Nat]
DiskType(r, d) == d \in [part : [Src -> Seq(Seq(Stamp(r)))], full : [Src -> Seq(Stamp(r))],
                         ev : [Src -> Seq(Int)]]
AdoptedType(r, a) == a \in [pages : Seq(Int), text : Seq(Stamp(r))]
MineruTypes ==
  /\ job \in Jobs /\ AdapterType(job, adapter) /\ ServiceType(job, service)
  /\ DiskType(tally.runs, disk) /\ AdoptedType(tally.runs, adopted)
  /\ tally \in [runs : Nat, faults : Nat, late : BOOLEAN]

\* What each place of the adapter has at hand.
AdapterHas ==
  /\ Listed \subseteq DOMAIN service.items /\ Range(adapter.todo) \subseteq DOMAIN service.items
  /\ adapter.pc \notin {"upload", "download"} => adapter.todo = <<>>
  /\ adapter.pc \in {"off", "failed", "done", "task", "await"} => adapter.got = {}
  /\ adapter.pc \in {"task", "await"} => Len(Urls(job)) = 1 /\ adapter.phase = "url"
  /\ adapter.pc \in {"merge", "evidence"} /\ adapter.phase = "local" => adapter.batches = <<>>
  /\ adapter.pc # "off" => tally.runs # 0

\* A document is merged when something of it came; its evidence is of all of its parts.
Received(s) == {it \in adapter.got : it.src = s}
MergeHas ==
  /\ adapter.pc \in {"merge", "evidence"} => \A s \in Range(adapter.merge) : Received(s) # {}
  /\ adapter.pc = "evidence" => /\ adapter.merge # <<>>
                                /\ Received(Head(adapter.merge)) = Range(Parts(job, Head(adapter.merge)))

\* The result matched with an item is listed, and is that item's.
MatchIsRight ==
  adapter.pc = "download" =>
    \A x \in DOMAIN service.items :
      /\ adapter.match[x] \in Listed
      /\ Sure => service.items[adapter.match[x]] = service.items[x]

\* What was downloaded lies in its part's directory, and is that part's.
GotIsThere ==
  \A it \in adapter.got : /\ it.part \in DOMAIN disk.part[it.src]
                          /\ Sure => disk.part[it.src][it.part] = TextOf(it)

DocumentsAreWhole ==
  \A s \in Src : /\ disk.full[s] = <<>> \/ ~Sure \/ \E r \in 1 .. tally.runs : disk.full[s] = Expected(s, r)
                 /\ disk.ev[s] = <<>> \/ disk.ev[s] = Selected(job, s)

\* Until the local documents are merged, all that lies there is of earlier runs.
OldDocuments ==
  adapter.pc \in {"batch", "upload", "poll", "download"} /\ adapter.phase = "local" =>
    \A s \in Src : disk.full[s] \in Seq(Stamp(tally.runs - 1))

MineruInv == /\ MineruTypes /\ AdapterHas /\ MergeHas /\ MatchIsRight /\ GotIsThere
             /\ DocumentsAreWhole /\ OldDocuments /\ AdoptedIsWhole

-----------------------------------------------------------------------------
(* Each action keeps it.                                                      *)

\* The adapter's own state is right, whatever lies on the disk and was committed.
AdapterRight == /\ AdapterType(job, adapter) /\ ServiceType(job, service) /\ AdapterHas /\ MergeHas
                /\ MatchIsRight /\ GotIsThere /\ OldDocuments
DocumentsRight == /\ job \in Jobs /\ tally \in [runs : Nat, faults : Nat, late : BOOLEAN]
                  /\ DiskType(tally.runs, disk) /\ AdoptedType(tally.runs, adopted)
                  /\ DocumentsAreWhole /\ AdoptedIsWhole

LEMMA MineruInvParts == MineruInv <=> AdapterRight /\ DocumentsRight
BY DEF MineruInv, MineruTypes, AdapterRight, DocumentsRight

LEMMA AdapterFields ==
  ASSUME NEW j, NEW a, AdapterType(j, a)
  PROVE  /\ a.pc \in Places /\ a.batches \in Seq(Seq(Item(j))) /\ a.todo \in Seq(Nat)
         /\ a.got \subseteq Item(j) /\ a.merge \in Seq(Range(j.inputs)) /\ a.match \in Seq(Nat)
         /\ a.phase \in {"local", "url"}
BY DEF AdapterType

LEMMA ServiceFields ==
  ASSUME NEW j, NEW v, ServiceType(j, v)
  PROVE  v.items \in Seq(Item(j)) /\ v.st \in Seq(States) /\ v.listed \subseteq Nat
BY DEF ServiceType

LEMMA DiskFields ==
  ASSUME NEW r, NEW d, DiskType(r, d)
  PROVE  /\ d.part \in [Src -> Seq(Seq(Stamp(r)))] /\ d.full \in [Src -> Seq(Stamp(r))]
         /\ d.ev \in [Src -> Seq(Int)]
BY DEF DiskType

LEMMA TallyFields ==
  ASSUME DocumentsRight
  PROVE  job \in Jobs /\ tally.runs \in Nat /\ tally.faults \in Nat /\ tally.late \in BOOLEAN
BY DEF DocumentsRight

LEMMA SameTexts ==
  ASSUME job' = job
  PROVE  /\ \A s, r : Expected(s, r)' = Expected(s, r)
         /\ tally'.runs = tally.runs => \A it : TextOf(it)' = TextOf(it)
BY DEF Expected, TextOf

\* A step that leaves the documents alone and starts no run.
Quiet == /\ UNCHANGED <<job, disk, adopted>> /\ tally'.runs = tally.runs
         /\ tally' \in [runs : Nat, faults : Nat, late : BOOLEAN] /\ (tally.late => tally'.late)

LEMMA SureBefore == ASSUME Quiet, Sure' PROVE Sure
BY DEF Quiet, Sure

LEMMA DocumentsStay ==
  ASSUME DocumentsRight, Quiet
  PROVE  DocumentsRight'
<1>1. \A s, r : Expected(s, r)' = Expected(s, r)
  BY SameTexts DEF Quiet
<1>2. Sure' => Sure
  BY SureBefore
<1>3. DocumentsAreWhole'
  BY <1>1, <1>2 DEF DocumentsRight, DocumentsAreWhole, Quiet
<1>4. AdoptedIsWhole'
  BY <1>1 DEF DocumentsRight, AdoptedIsWhole, Quiet
<1> QED BY <1>3, <1>4 DEF DocumentsRight, Quiet

LEMMA GotStays ==
  ASSUME GotIsThere, Quiet, adapter'.got \subseteq adapter.got
  PROVE  GotIsThere'
<1>1. \A it : TextOf(it)' = TextOf(it)
  BY SameTexts DEF Quiet
<1>2. Sure' => Sure
  BY SureBefore
<1> QED BY <1>1, <1>2 DEF GotIsThere, Quiet

LEMMA OffType ==
  ASSUME NEW j, NEW code \in Places
  PROVE  AdapterType(j, [AdapterOff EXCEPT !.pc = code])
<1>1. /\ <<>> \in Seq(Seq(Item(j))) /\ <<>> \in Seq(Nat) /\ {} \subseteq Item(j)
      /\ <<>> \in Seq(Range(j.inputs))
  OBVIOUS
<1> QED BY <1>1 DEF AdapterType, AdapterOff

\* The adapter ends, breaks or is done with, and has nothing at hand.
LEMMA Exits ==
  ASSUME ServiceType(job, service)', Listed' \subseteq DOMAIN service'.items,
         NEW code \in {"off", "failed", "done"}, adapter' = [AdapterOff EXCEPT !.pc = code],
         code = "off" \/ tally'.runs # 0
  PROVE  AdapterRight'
<1>1. /\ adapter'.pc = code /\ adapter'.batches = <<>> /\ adapter'.todo = <<>> /\ adapter'.got = {}
      /\ adapter'.merge = <<>> /\ adapter'.match = <<>> /\ adapter'.phase = "local"
  BY DEF AdapterOff
<1>2. AdapterType(job, adapter)'
  <2>1. code \in Places
    BY DEF Places
  <2> QED BY <2>1, OffType
<1>3. ServiceType(job, service)'
  OBVIOUS
<1>4. AdapterHas'
  <2>1. Range(<<>>) = {}
    BY DEF Range
  <2> QED BY <1>1, <2>1 DEF AdapterHas
<1>5. MergeHas' /\ MatchIsRight' /\ GotIsThere' /\ OldDocuments'
  BY <1>1 DEF MergeHas, MatchIsRight, GotIsThere, OldDocuments
<1> QED BY <1>2, <1>3, <1>4, <1>5 DEF AdapterRight

LEMMA BreaksOK ==
  ASSUME AdapterRight, DocumentsRight, Breaks
  PROVE  AdapterRight' /\ DocumentsRight'
<1>1. /\ adapter.pc # "off" /\ UNCHANGED <<job, service, disk, adopted>> /\ Exit("failed")
      /\ tally' = [tally EXCEPT !.faults = @ + 1]
  BY DEF Breaks, MineruFault
<1>2. tally \in [runs : Nat, faults : Nat, late : BOOLEAN]
  BY DEF DocumentsRight
<1>3. tally'.runs = tally.runs /\ tally'.late = tally.late
      /\ tally' \in [runs : Nat, faults : Nat, late : BOOLEAN]
  BY <1>1, <1>2
<1>4. tally'.runs # 0
  BY <1>1, <1>3 DEF AdapterRight, AdapterHas
<1>5. AdapterRight'
  BY <1>1, <1>4, Exits DEF Exit, AdapterRight, AdapterHas, Listed
<1>6. Quiet
  BY <1>1, <1>3 DEF Quiet
<1> QED BY <1>5, <1>6, DocumentsStay

LEMMA BatchFailedOK ==
  ASSUME AdapterRight, DocumentsRight, BatchFailed
  PROVE  AdapterRight' /\ DocumentsRight'
<1>1. adapter.pc # "off" /\ UNCHANGED <<job, service, disk, adopted, tally>> /\ Exit("failed")
  BY DEF BatchFailed, AdapterAt
<1>2. tally'.runs # 0
  BY <1>1 DEF AdapterRight, AdapterHas
<1>3. AdapterRight'
  BY <1>1, <1>2, Exits DEF Exit, AdapterRight, AdapterHas, Listed
<1>4. Quiet
  BY <1>1 DEF Quiet, DocumentsRight
<1> QED BY <1>3, <1>4, DocumentsStay

LEMMA UploadedOK ==
  ASSUME AdapterRight, DocumentsRight, Uploaded
  PROVE  AdapterRight' /\ DocumentsRight'
<1>1. /\ adapter.pc = "upload" /\ adapter.todo = <<>> /\ adapter' = [adapter EXCEPT !.pc = "poll"]
      /\ UNCHANGED <<job, service, disk, adopted, tally>>
  BY DEF Uploaded, AdapterAt
<1>2. Quiet
  BY <1>1 DEF Quiet, DocumentsRight
<1>3. AdapterType(job, adapter)
  BY DEF AdapterRight
<1>4. /\ adapter'.pc = "poll" /\ adapter'.todo = adapter.todo /\ adapter'.got = adapter.got
      /\ adapter'.batches = adapter.batches /\ adapter'.phase = adapter.phase
  BY <1>1, <1>3 DEF AdapterType
<1>5. AdapterType(job, adapter)'
  BY <1>1, <1>3 DEF AdapterType, Places
<1>6. AdapterHas'
  BY <1>1, <1>4 DEF AdapterRight, AdapterHas, Listed
<1>7. MergeHas' /\ MatchIsRight'
  BY <1>4 DEF MergeHas, MatchIsRight
<1>8. GotIsThere'
  BY <1>2, <1>4, GotStays DEF AdapterRight
<1>9. OldDocuments'
  BY <1>1, <1>4 DEF AdapterRight, OldDocuments
<1>10. ServiceType(job, service)'
  BY <1>1 DEF AdapterRight
<1> QED BY <1>2, <1>5, <1>6, <1>7, <1>8, <1>9, <1>10, DocumentsStay DEF AdapterRight

LEMMA SubmitBatchOK ==
  ASSUME AdapterRight, DocumentsRight, SubmitBatch
  PROVE  AdapterRight' /\ DocumentsRight'
<1> DEFINE items == Head(adapter.batches)
           all == [x \in DOMAIN items |-> x]
<1>1. /\ adapter.pc = "batch" /\ adapter.batches # <<>>
      /\ service' = [items |-> items, listed |-> {},
                     st |-> [x \in DOMAIN items |-> IF adapter.phase = "local" THEN "waiting" ELSE "running"]]
      /\ adapter' = [adapter EXCEPT !.pc = "upload", !.batches = Tail(@),
                       !.todo = IF adapter.phase = "local" THEN all ELSE <<>>]
      /\ UNCHANGED <<job, disk, adopted, tally>>
  BY DEF SubmitBatch, AdapterAt
<1>2. Quiet
  BY <1>1 DEF Quiet, DocumentsRight
<1>3. AdapterType(job, adapter)
  BY DEF AdapterRight
<1>4. adapter.batches \in Seq(Seq(Item(job)))
  BY <1>3, AdapterFields
<1>5. items \in Seq(Item(job)) /\ Tail(adapter.batches) \in Seq(Seq(Item(job)))
  BY <1>1, <1>4, HeadTailProperties
<1> HIDE DEF items
<1>6. DOMAIN items = 1 .. Len(items) /\ Len(items) \in Nat
  BY <1>5
<1>7. all \in Seq(Nat) /\ Range(all) = DOMAIN items /\ <<>> \in Seq(Nat) /\ Range(<<>>) = {}
  <2>1. all \in [1 .. Len(items) -> Nat]
    BY <1>6
  <2>2. Range(all) = DOMAIN items
    BY DEF Range
  <2>3. Range(<<>>) = {} /\ <<>> \in Seq(Nat)
    BY DEF Range
  <2> HIDE DEF all
  <2>4. all \in Seq(Nat)
    BY <1>6, <2>1, SeqDef
  <2> QED BY <2>2, <2>3, <2>4
<1> HIDE DEF all
<1>8. /\ adapter'.pc = "upload" /\ adapter'.todo \in {all, <<>>} /\ adapter'.got = adapter.got
      /\ adapter'.phase = adapter.phase
  BY <1>1, <1>3 DEF AdapterType
<1>9. service'.items = items /\ service'.listed = {}
  BY <1>1
<1>10. AdapterType(job, adapter)'
  <2>1. (IF adapter.phase = "local" THEN all ELSE <<>>) \in Seq(Nat)
    BY <1>7
  <2> QED BY <1>1, <1>3, <1>5, <2>1 DEF AdapterType, Places
<1>11. ServiceType(job, service)'
  <2> DEFINE st == [x \in DOMAIN items |-> IF adapter.phase = "local" THEN "waiting" ELSE "running"]
  <2>1. st \in [1 .. Len(items) -> States]
    BY <1>6 DEF States
  <2> HIDE DEF st
  <2>2. st \in Seq(States)
    BY <2>1, <1>6, SeqDef
  <2>3. service' = [items |-> items, listed |-> {}, st |-> st]
    BY <1>1 DEF st
  <2> QED BY <2>2, <2>3, <1>1, <1>5 DEF ServiceType
<1>12. AdapterHas'
  <2>1. Range(adapter'.todo) \subseteq DOMAIN service'.items /\ service'.listed = {}
    BY <1>7, <1>8, <1>9
  <2>2. adapter'.pc = "upload" /\ tally'.runs # 0
    BY <1>1, <1>8 DEF AdapterRight, AdapterHas
  <2> QED BY <2>1, <2>2 DEF AdapterHas, Listed
<1>13. MergeHas' /\ MatchIsRight'
  BY <1>8 DEF MergeHas, MatchIsRight
<1>14. GotIsThere'
  BY <1>2, <1>8, GotStays DEF AdapterRight
<1>15. OldDocuments'
  BY <1>1, <1>8 DEF AdapterRight, OldDocuments
<1> QED BY <1>2, <1>10, <1>11, <1>12, <1>13, <1>14, <1>15, DocumentsStay DEF AdapterRight

LEMMA UploadOK ==
  ASSUME AdapterRight, DocumentsRight, Upload
  PROVE  AdapterRight' /\ DocumentsRight'
<1>1. /\ adapter.pc = "upload" /\ adapter.todo # <<>>
      /\ service' = [service EXCEPT !.st[Head(adapter.todo)] = "running"]
      /\ adapter' = [adapter EXCEPT !.todo = Tail(@)]
      /\ UNCHANGED <<job, disk, adopted, tally>>
  BY DEF Upload, AdapterAt
<1>2. Quiet
  BY <1>1 DEF Quiet, DocumentsRight
<1>3. AdapterType(job, adapter) /\ ServiceType(job, service)
  BY DEF AdapterRight
<1>4. adapter.todo \in Seq(Nat) /\ service.st \in Seq(States)
  BY <1>3, AdapterFields, ServiceFields
<1>5. Tail(adapter.todo) \in Seq(Nat) /\ Range(Tail(adapter.todo)) \subseteq Range(adapter.todo)
  <2> DEFINE q == adapter.todo
  <2>1. q \in Seq(Nat) /\ q # <<>>
    BY <1>1, <1>4
  <2> HIDE DEF q
  <2>2. /\ Tail(q) \in Seq(Nat) /\ Len(Tail(q)) = Len(q) - 1
        /\ \A i \in 1 .. Len(Tail(q)) : Tail(q)[i] = q[i + 1]
    BY <2>1, HeadTailProperties
  <2>3. \A i \in DOMAIN Tail(q) : Tail(q)[i] = q[i + 1] /\ i + 1 \in DOMAIN q
    BY <2>1, <2>2
  <2>4. Range(Tail(q)) \subseteq Range(q)
    BY <2>3 DEF Range
  <2> QED BY <2>2, <2>4 DEF q
<1>6. /\ adapter'.pc = "upload" /\ adapter'.todo = Tail(adapter.todo) /\ adapter'.got = adapter.got
      /\ adapter'.phase = adapter.phase
  BY <1>1, <1>3 DEF AdapterType
<1>7. service'.items = service.items /\ service'.listed = service.listed
  BY <1>1, <1>3 DEF ServiceType
<1>8. AdapterType(job, adapter)'
  BY <1>1, <1>3, <1>5 DEF AdapterType, Places
<1>9. ServiceType(job, service)'
  <2> DEFINE st == [service.st EXCEPT ![Head(adapter.todo)] = "running"]
  <2>1. st \in Seq(States)
    <3>1. "running" \in States /\ \E n \in Nat : service.st \in [1 .. n -> States]
      BY <1>4, SeqDef DEF States
    <3>2. PICK n \in Nat : service.st \in [1 .. n -> States]
      BY <3>1
    <3>3. st \in [1 .. n -> States]
      BY <3>1, <3>2
    <3> HIDE DEF st
    <3> QED BY <3>2, <3>3, SeqDef
  <2> HIDE DEF st
  <2>2. service' = [service EXCEPT !.st = st]
    BY <1>1, <1>3 DEF ServiceType, st
  <2> QED BY <2>1, <2>2, <1>1, <1>3 DEF ServiceType
<1>10. AdapterHas'
  BY <1>1, <1>5, <1>6, <1>7 DEF AdapterRight, AdapterHas, Listed
<1>11. MergeHas' /\ MatchIsRight'
  BY <1>6 DEF MergeHas, MatchIsRight
<1>12. GotIsThere'
  BY <1>2, <1>6, GotStays DEF AdapterRight
<1>13. OldDocuments'
  BY <1>1, <1>6 DEF AdapterRight, OldDocuments
<1> QED BY <1>2, <1>8, <1>9, <1>10, <1>11, <1>12, <1>13, DocumentsStay DEF AdapterRight

-----------------------------------------------------------------------------
(* A batch is polled and downloaded.                                         *)

\* matched_batch_results: what is matched with an item is listed, and is the item's when the
\* service has listed everything or when only one document was sent.
LEMMA MatchFound ==
  ASSUME AdapterRight, DocumentsRight, NEW x \in DOMAIN service.items, Match(service.items[x]) # 0
  PROVE  /\ Match(service.items[x]) \in Listed
         /\ job.worker \/ Listed = DOMAIN service.items =>
              service.items[Match(service.items[x])] = service.items[x]
<1> DEFINE it == service.items[x]
<1>1. service.items \in Seq(Item(job)) /\ Listed \subseteq DOMAIN service.items
  BY ServiceFields DEF AdapterRight, AdapterHas
<1>2. job \in Jobs /\ it \in Item(job)
  BY <1>1 DEF DocumentsRight
<1>3. CASE ById(it) # {}
  <2>1. Match(it) \in ById(it)
    BY <1>3 DEF Match
  <2> QED BY <2>1 DEF ById
<1>4. CASE ById(it) = {}
  <2>1. Cardinality(SameName(it)) = 1 /\ Match(it) = CHOOSE y \in SameName(it) : TRUE
    BY <1>4 DEF Match
  <2>2. IsFiniteSet(SameName(it))
    <3>1. DOMAIN service.items = 1 .. Len(service.items) /\ Len(service.items) \in Nat
      BY <1>1
    <3>2. IsFiniteSet(1 .. Len(service.items))
      BY <3>1, FS_Interval
    <3>3. SameName(it) \subseteq 1 .. Len(service.items)
      BY <1>1, <3>1 DEF SameName
    <3> QED BY <3>2, <3>3, FS_Subset
  <2>3. PICK y : SameName(it) = {y}
    BY <2>1, <2>2, FS_Singleton
  <2>4. Match(it) = y /\ y \in Listed /\ service.items[y].name = it.name
    BY <2>1, <2>3 DEF SameName
  <2>5. CASE job.worker
    <3>1. service.items[y] \in Item(job)
      BY <1>1, <2>4
    <3>2. service.items[y].src = it.src
      <4>1. service.items[y].src \in Range(job.inputs) /\ it.src \in Range(job.inputs)
        BY <1>2, <3>1, ItemFacts
      <4> QED BY <4>1, <1>2, <2>5, WorkerSource
    <3> QED BY <1>2, <2>4, <3>1, <3>2, SamePart
  <2>6. CASE Listed = DOMAIN service.items
    <3>1. x \in SameName(it)
      BY <2>6 DEF SameName
    <3> QED BY <2>3, <2>4, <3>1
  <2> QED BY <2>4, <2>5, <2>6
<1> QED BY <1>3, <1>4

LEMMA BatchPolledOK ==
  ASSUME AdapterRight, DocumentsRight, BatchPolled
  PROVE  AdapterRight' /\ DocumentsRight'
<1> DEFINE items == service.items
           all == [x \in DOMAIN items |-> x]
           matched == Matched
<1>1. /\ adapter.pc = "poll" /\ Complete
      /\ adapter' = [adapter EXCEPT !.pc = "download", !.match = matched, !.todo = all]
      /\ tally' = [tally EXCEPT !.late = @ \/ Listed # DOMAIN service.items]
      /\ UNCHANGED <<job, service, disk, adopted>>
  BY DEF BatchPolled, AdapterAt
<1>2. tally \in [runs : Nat, faults : Nat, late : BOOLEAN]
  BY DEF DocumentsRight
<1>3. /\ tally'.runs = tally.runs /\ tally' \in [runs : Nat, faults : Nat, late : BOOLEAN]
      /\ tally'.late <=> tally.late \/ Listed # DOMAIN service.items
  <2> DEFINE l == tally.late \/ Listed # DOMAIN service.items
  <2>1. l \in BOOLEAN /\ tally' = [tally EXCEPT !.late = l]
    BY <1>1
  <2> HIDE DEF l
  <2>2. tally'.runs = tally.runs /\ tally' \in [runs : Nat, faults : Nat, late : BOOLEAN] /\ tally'.late = l
    BY <1>2, <2>1
  <2> QED BY <2>2 DEF l
<1>4. Quiet
  BY <1>1, <1>3 DEF Quiet
<1>5. AdapterType(job, adapter) /\ ServiceType(job, service)
  BY DEF AdapterRight
<1>6. items \in Seq(Item(job)) /\ Listed \subseteq DOMAIN items
  BY <1>5, ServiceFields DEF AdapterRight, AdapterHas
<1>7. \A x \in DOMAIN items :
        /\ matched[x] \in Listed
        /\ job.worker \/ Listed = DOMAIN items => items[matched[x]] = items[x]
  <2> SUFFICES ASSUME NEW x \in DOMAIN items
               PROVE  /\ matched[x] \in Listed
                      /\ job.worker \/ Listed = DOMAIN items => items[matched[x]] = items[x]
    OBVIOUS
  <2>1. matched[x] = Match(items[x]) /\ matched[x] # 0
    BY <1>1 DEF Matched, Complete
  <2> QED BY <2>1, MatchFound
<1>8. matched = [x \in DOMAIN items |-> matched[x]]
  BY DEF Matched
<1> HIDE DEF matched, items
<1>9. DOMAIN items = 1 .. Len(items) /\ Len(items) \in Nat
  BY <1>6
<1>10. all \in Seq(Nat) /\ Range(all) = DOMAIN items
  <2>1. all \in [1 .. Len(items) -> Nat]
    BY <1>9
  <2>2. Range(all) = DOMAIN items
    BY DEF Range
  <2> HIDE DEF all
  <2> QED BY <1>9, <2>1, <2>2, SeqDef
<1> HIDE DEF all
<1>11. matched \in Seq(Nat)
  <2>1. matched \in [1 .. Len(items) -> Nat]
    BY <1>6, <1>7, <1>8, <1>9
  <2> QED BY <1>9, <2>1, SeqDef
<1>12. /\ adapter'.pc = "download" /\ adapter'.todo = all /\ adapter'.got = adapter.got
       /\ adapter'.match = matched /\ adapter'.phase = adapter.phase
  BY <1>1, <1>5 DEF AdapterType
<1>13. AdapterType(job, adapter)'
  BY <1>1, <1>5, <1>10, <1>11 DEF AdapterType, Places
<1>14. ServiceType(job, service)'
  BY <1>1, <1>5
<1>15. AdapterHas'
  <2>1. Range(adapter'.todo) \subseteq DOMAIN service'.items
    BY <1>1, <1>10, <1>12 DEF items
  <2>2. Listed' \subseteq DOMAIN service'.items /\ tally'.runs # 0
    BY <1>1, <1>3 DEF AdapterRight, AdapterHas, Listed
  <2> QED BY <1>12, <2>1, <2>2 DEF AdapterHas
<1>16. MergeHas'
  BY <1>12 DEF MergeHas
<1>17. MatchIsRight'
  <2>1. Sure' => job.worker \/ Listed = DOMAIN items
    BY <1>1, <1>3 DEF Sure, items
  <2>2. /\ service'.items = items /\ Listed' = Listed
    BY <1>1 DEF items, Listed
  <2> QED BY <1>7, <1>12, <2>1, <2>2 DEF MatchIsRight
<1>18. GotIsThere'
  BY <1>4, <1>12, GotStays DEF AdapterRight
<1>19. OldDocuments'
  BY <1>1, <1>3, <1>12 DEF AdapterRight, OldDocuments
<1> QED BY <1>4, <1>13, <1>14, <1>15, <1>16, <1>17, <1>18, <1>19, DocumentsStay DEF AdapterRight

LEMMA TextType ==
  ASSUME DocumentsRight, NEW it \in Item(job)
  PROVE  TextOf(it) \in Seq(Stamp(tally.runs))
<1>1. job \in Jobs /\ tally.runs \in Nat
  BY DEF DocumentsRight
<1>2. it.src \in Src /\ it.pages \in Seq(Int)
  BY <1>1, ItemFacts
<1> DEFINE r == tally.runs
           p == it.pages
           s == it.src
<1>3. r \in 0 .. r
  BY <1>1
<1> HIDE DEF r, p, s
<1>4. << <<s, 0, r>> >> \in Seq(Stamp(r))
  <2>1. <<s, 0, r>> \in Stamp(r)
    BY <1>2, <1>3 DEF Stamp, s
  <2> QED BY <2>1
<1>5. [k \in DOMAIN p |-> <<s, p[k], r>>] \in Seq(Stamp(r))
  <2>1. DOMAIN p = 1 .. Len(p) /\ Len(p) \in Nat /\ \A k \in DOMAIN p : p[k] \in Int
    BY <1>2 DEF p
  <2>2. \A k \in 1 .. Len(p) : <<s, p[k], r>> \in Stamp(r)
    BY <1>2, <1>3, <2>1 DEF Stamp, s
  <2>3. [k \in DOMAIN p |-> <<s, p[k], r>>] \in [1 .. Len(p) -> Stamp(r)]
    BY <2>1, <2>2
  <2> DEFINE q == [k \in DOMAIN p |-> <<s, p[k], r>>]
  <2> HIDE DEF q
  <2>4. q \in [1 .. Len(p) -> Stamp(r)]
    BY <2>3 DEF q
  <2>5. q \in Seq(Stamp(r))
    BY <2>1, <2>4, SeqDef
  <2> QED BY <2>5 DEF q
<1>6. TextOf(it) = IF p = <<>> THEN << <<s, 0, r>> >> ELSE [k \in DOMAIN p |-> <<s, p[k], r>>]
  BY DEF TextOf, p, s, r
<1> QED BY <1>4, <1>5, <1>6 DEF r

LEMMA LargerOfTwo ==
  ASSUME NEW a \in Nat, NEW b \in Nat
  PROVE  Max({a, b}) \in {a, b} /\ a <= Max({a, b}) /\ b <= Max({a, b})
<1>1. \E x \in {a, b} : \A y \in {a, b} : x >= y
  OBVIOUS
<1>2. Max({a, b}) \in {a, b} /\ \A y \in {a, b} : Max({a, b}) >= y
  BY <1>1 DEF Max
<1> QED BY <1>2

\* A part's text is put in its place among the others.
InPlace(old, k, text) == [i \in 1 .. Max({k, Len(old)}) |->
                            IF i = k THEN text ELSE IF i \in DOMAIN old THEN old[i] ELSE <<>>]
IsInPlace(new, T, old, k, text) ==
  /\ new \in Seq(Seq(T)) /\ k \in DOMAIN new /\ new[k] = text
  /\ \A i \in DOMAIN old : i \in DOMAIN new /\ (i # k => new[i] = old[i])

LEMMA PutInPlace ==
  ASSUME NEW T, NEW old \in Seq(Seq(T)), NEW k \in Nat \ {0}, NEW text \in Seq(T)
  PROVE  IsInPlace(InPlace(old, k, text), T, old, k, text)
<1> DEFINE n == Max({k, Len(old)})
           new == InPlace(old, k, text)
<1>1. Len(old) \in Nat /\ DOMAIN old = 1 .. Len(old) /\ \A i \in DOMAIN old : old[i] \in Seq(T)
  OBVIOUS
<1>2. n \in Nat /\ k <= n /\ Len(old) <= n
  BY <1>1, LargerOfTwo
<1> HIDE DEF n
<1>3. new = [i \in 1 .. n |-> IF i = k THEN text ELSE IF i \in DOMAIN old THEN old[i] ELSE <<>>]
  BY DEF n, InPlace
<1> HIDE DEF new
<1>4. <<>> \in Seq(T)
  OBVIOUS
<1>5. new \in [1 .. n -> Seq(T)]
  BY <1>1, <1>3, <1>4
<1>6. new \in Seq(Seq(T)) /\ DOMAIN new = 1 .. n
  <2>1. \A q \in [1 .. n -> Seq(T)] : q \in Seq(Seq(T)) /\ DOMAIN q = 1 .. n
    BY <1>2, SeqDef
  <2> QED BY <1>5, <2>1
<1>7. k \in 1 .. n /\ \A i \in DOMAIN old : i \in 1 .. n
  BY <1>1, <1>2
<1> QED BY <1>3, <1>6, <1>7 DEF new, IsInPlace

LEMMA DownloadPartOK ==
  ASSUME AdapterRight, DocumentsRight, DownloadPart
  PROVE  AdapterRight' /\ DocumentsRight'
<1> DEFINE d == Head(adapter.todo)
           it == service.items[d]
           src == service.items[adapter.match[d]]
           text == TextOf(src)
           old == disk.part[it.src]
           new == InPlace(old, it.part, text)
<1>1. /\ adapter.pc = "download" /\ adapter.todo # <<>>
      /\ disk' = [disk EXCEPT !.part[it.src] = new]
      /\ adapter' = [adapter EXCEPT !.todo = Tail(@), !.got = @ \cup {it}]
      /\ UNCHANGED <<job, service, adopted, tally>>
  BY DEF DownloadPart, AdapterAt, InPlace
<1>2. AdapterType(job, adapter) /\ ServiceType(job, service) /\ DiskType(tally.runs, disk)
      /\ job \in Jobs
  BY DEF AdapterRight, DocumentsRight
<1>3. /\ adapter.todo \in Seq(Nat) /\ service.items \in Seq(Item(job)) /\ adapter.got \subseteq Item(job)
      /\ disk.part \in [Src -> Seq(Seq(Stamp(tally.runs)))]
  BY <1>2, AdapterFields, ServiceFields, DiskFields
<1>4. d \in Range(adapter.todo) /\ Tail(adapter.todo) \in Seq(Nat)
      /\ Range(Tail(adapter.todo)) \subseteq Range(adapter.todo)
  <2> DEFINE q == adapter.todo
  <2>1. q \in Seq(Nat) /\ q # <<>>
    BY <1>1, <1>3
  <2> HIDE DEF q
  <2>2. /\ Tail(q) \in Seq(Nat) /\ Len(Tail(q)) = Len(q) - 1
        /\ \A i \in 1 .. Len(Tail(q)) : Tail(q)[i] = q[i + 1]
    BY <2>1, HeadTailProperties
  <2>3. \A i \in DOMAIN Tail(q) : Tail(q)[i] = q[i + 1] /\ i + 1 \in DOMAIN q
    BY <2>1, <2>2
  <2>4. Range(Tail(q)) \subseteq Range(q)
    BY <2>3 DEF Range
  <2>5. Head(q) = q[1] /\ 1 \in DOMAIN q
    BY <2>1
  <2>6. Head(q) \in Range(q)
    BY <2>5 DEF Range
  <2> QED BY <2>2, <2>4, <2>6 DEF q
<1>5. d \in DOMAIN service.items /\ adapter.match[d] \in DOMAIN service.items
      /\ (Sure => src = it)
  BY <1>1, <1>4 DEF AdapterRight, AdapterHas, MatchIsRight
<1>6. it \in Item(job) /\ src \in Item(job)
  BY <1>3, <1>5
<1>7. it.src \in Src /\ it.part \in Nat \ {0}
  BY <1>2, <1>6, ItemFacts
<1>8. text \in Seq(Stamp(tally.runs)) /\ old \in Seq(Seq(Stamp(tally.runs)))
  BY <1>3, <1>6, <1>7, TextType
<1> HIDE DEF d, it, src, text, old
<1>9. /\ new \in Seq(Seq(Stamp(tally.runs))) /\ it.part \in DOMAIN new /\ new[it.part] = text
      /\ \A i \in DOMAIN old : i \in DOMAIN new /\ (i # it.part => new[i] = old[i])
  <2>1. IsInPlace(new, Stamp(tally.runs), old, it.part, text)
    BY <1>7, <1>8, PutInPlace
  <2> QED BY <2>1 DEF IsInPlace
<1> HIDE DEF new
<1>10. /\ disk'.full = disk.full /\ disk'.ev = disk.ev /\ disk'.part = [disk.part EXCEPT ![it.src] = new]
       /\ DiskType(tally.runs, disk')
  <2> DEFINE p == [disk.part EXCEPT ![it.src] = new]
  <2>1. p \in [Src -> Seq(Seq(Stamp(tally.runs)))]
    BY <1>3, <1>7, <1>9
  <2>2. disk' = [disk EXCEPT !.part = p]
    BY <1>1, <1>2 DEF DiskType
  <2> HIDE DEF p
  <2>3. disk'.full = disk.full /\ disk'.ev = disk.ev /\ disk'.part = p /\ DiskType(tally.runs, disk')
    BY <1>2, <2>1, <2>2 DEF DiskType
  <2> QED BY <2>3 DEF p
<1>11. /\ adapter'.pc = "download" /\ adapter'.todo = Tail(adapter.todo) /\ adapter'.match = adapter.match
       /\ adapter'.phase = adapter.phase /\ adapter'.got = adapter.got \cup {it}
  BY <1>1, <1>2 DEF AdapterType
<1>12. AdapterType(job, adapter)'
  <2>1. adapter.got \cup {it} \in SUBSET Item(job)
    BY <1>3, <1>6
  <2> QED BY <1>1, <1>2, <1>4, <2>1 DEF AdapterType
<1>13. ServiceType(job, service)'
  BY <1>1, <1>2
<1>14. AdapterHas'
  BY <1>1, <1>4, <1>11 DEF AdapterRight, AdapterHas, Listed
<1>15. MergeHas'
  BY <1>11 DEF MergeHas
<1>16. MatchIsRight'
  BY <1>1, <1>11 DEF AdapterRight, MatchIsRight, Sure, Listed
<1>17. GotIsThere'
  <2> SUFFICES ASSUME NEW e \in adapter'.got
               PROVE  /\ e.part \in DOMAIN disk'.part[e.src]
                      /\ Sure' => disk'.part[e.src][e.part] = TextOf(e)'
    BY DEF GotIsThere
  <2>1. TextOf(e)' = TextOf(e) /\ (Sure' => Sure)
    BY <1>1, SameTexts DEF Sure
  <2>2. e \in Item(job) /\ (e \in adapter.got \/ e = it)
    BY <1>3, <1>6, <1>11
  <2>3. e.src \in Src
    BY <1>2, <2>2, ItemFacts
  <2>4. CASE e = it
    <3>1. disk'.part[e.src] = new
      BY <1>3, <1>7, <1>10, <2>4
    <3>2. Sure => text = TextOf(e)
      BY <1>5, <2>4 DEF text
    <3> QED BY <1>9, <2>1, <2>4, <3>1, <3>2
  <2>5. CASE e # it
    <3>1. e \in adapter.got
      BY <2>2, <2>5
    <3>2. e.part \in DOMAIN disk.part[e.src] /\ (Sure => disk.part[e.src][e.part] = TextOf(e))
      BY <3>1 DEF AdapterRight, GotIsThere
    <3>3. CASE e.src = it.src
      <4>1. e.part # it.part
        BY <1>2, <1>6, <2>2, <2>5, <3>3, SamePart
      <4>2. disk'.part[e.src] = new /\ disk.part[e.src] = old
        BY <1>3, <1>7, <1>10, <3>3 DEF old
      <4> QED BY <1>9, <2>1, <3>2, <4>1, <4>2
    <3>4. CASE e.src # it.src
      <4>1. disk'.part[e.src] = disk.part[e.src]
        BY <1>3, <1>10, <2>3, <3>4
      <4> QED BY <2>1, <3>2, <4>1
    <3> QED BY <3>3, <3>4
  <2> QED BY <2>4, <2>5
<1>18. OldDocuments'
  BY <1>1, <1>10, <1>11 DEF AdapterRight, OldDocuments
<1>19. DocumentsRight'
  <2>1. \A s, r : Expected(s, r)' = Expected(s, r)
    BY <1>1, SameTexts
  <2>2. DocumentsAreWhole'
    BY <1>1, <1>10, <2>1 DEF DocumentsRight, DocumentsAreWhole, Sure
  <2>3. AdoptedIsWhole'
    BY <1>1, <2>1 DEF DocumentsRight, AdoptedIsWhole
  <2> QED BY <1>1, <1>10, <2>2, <2>3 DEF DocumentsRight
<1> QED BY <1>12, <1>13, <1>14, <1>15, <1>16, <1>17, <1>18, <1>19 DEF AdapterRight

-----------------------------------------------------------------------------
(* A batch is done, and its documents are merged.                            *)

LEMMA BatchDoneOK ==
  ASSUME AdapterRight, DocumentsRight, BatchDone
  PROVE  AdapterRight' /\ DocumentsRight'
<1> DEFINE some == Those(job.inputs, LAMBDA s : \E it \in adapter.got : it.src = s)
           more == adapter.phase = "local" /\ adapter.batches # <<>>
<1>1. /\ adapter.pc = "download" /\ adapter.todo = <<>>
      /\ adapter' = IF more THEN [adapter EXCEPT !.pc = "batch"]
                    ELSE [adapter EXCEPT !.pc = "merge", !.merge = some]
      /\ UNCHANGED <<job, service, disk, adopted, tally>>
  BY DEF BatchDone, AdapterAt
<1>2. Quiet
  BY <1>1 DEF Quiet, DocumentsRight
<1>3. AdapterType(job, adapter) /\ job \in Jobs
  BY DEF AdapterRight, DocumentsRight
<1>4. some \in Seq(Range(job.inputs)) /\ \A s \in Range(some) : Received(s) # {}
  <2> DEFINE ss == [i \in DOMAIN job.inputs |->
                      IF \E it \in adapter.got : it.src = job.inputs[i] THEN <<job.inputs[i]>> ELSE <<>>]
  <2>1. some = FlattenSeq(ss)
    BY DEF Those
  <2>2. Picks(job.inputs, ss) /\ ss = [i \in DOMAIN job.inputs |-> ss[i]]
    BY DEF Picks
  <2>3. \A i \in DOMAIN job.inputs : ss[i] = <<job.inputs[i]>> => Received(job.inputs[i]) # {}
    <3> TAKE i \in DOMAIN job.inputs
    <3>1. ss[i] = IF \E it \in adapter.got : it.src = job.inputs[i] THEN <<job.inputs[i]>> ELSE <<>>
      OBVIOUS
    <3> HIDE DEF ss
    <3>2. <<job.inputs[i]>> # <<>>
      OBVIOUS
    <3> QED BY <3>1, <3>2 DEF Received
  <2>4. job.inputs \in Seq(Range(job.inputs))
    BY <1>3, InputsPicked
  <2> HIDE DEF ss
  <2>5. FlattenSeq(ss) \in Seq(Range(job.inputs)) /\ PickedFrom(job.inputs, ss)
    BY <2>2, <2>4, Picked
  <2> HIDE DEF some
  <2> QED BY <2>1, <2>3, <2>5 DEF PickedFrom
<1> HIDE DEF some
<1>5. /\ adapter'.pc = IF more THEN "batch" ELSE "merge"
      /\ adapter'.todo = adapter.todo /\ adapter'.got = adapter.got
      /\ adapter'.batches = adapter.batches /\ adapter'.phase = adapter.phase
      /\ ~more => adapter'.merge = some
  BY <1>1, <1>3 DEF AdapterType
<1>6. AdapterType(job, adapter)'
  BY <1>1, <1>3, <1>4 DEF AdapterType, Places
<1>7. ServiceType(job, service)'
  BY <1>1 DEF AdapterRight
<1>8. AdapterHas'
  BY <1>1, <1>5 DEF AdapterRight, AdapterHas, Listed
<1>9. MergeHas'
  <2>1. \A s : Received(s)' = Received(s)
    BY <1>5 DEF Received
  <2> QED BY <1>4, <1>5, <2>1 DEF MergeHas
<1>10. MatchIsRight'
  BY <1>5 DEF MatchIsRight
<1>11. GotIsThere'
  BY <1>2, <1>5, GotStays DEF AdapterRight
<1>12. OldDocuments'
  BY <1>1, <1>5 DEF AdapterRight, OldDocuments
<1> QED BY <1>2, <1>6, <1>7, <1>8, <1>9, <1>10, <1>11, <1>12, DocumentsStay DEF AdapterRight

\* All of a document's parts have come when there are as many as each of them says.
LEMMA AllReceived ==
  ASSUME AdapterRight, DocumentsRight, NEW s \in Src, Received(s) # {},
         \A it \in Received(s) : Cardinality(Received(s)) = it.parts
  PROVE  /\ Received(s) = Range(Parts(job, s)) /\ Parts(job, s) # <<>>
         /\ Cardinality(Received(s)) = Len(Parts(job, s))
<1>1. job \in Jobs /\ adapter.got \subseteq Item(job)
  BY AdapterFields DEF AdapterRight, DocumentsRight
<1>2. \A it \in Received(s) : it \in Range(Parts(job, s)) /\ it.parts = Len(Parts(job, s))
  <2> SUFFICES ASSUME NEW it \in Received(s)
               PROVE  it \in Range(Parts(job, s)) /\ it.parts = Len(Parts(job, s))
    OBVIOUS
  <2>1. it \in Item(job) /\ it.src = s
    BY <1>1 DEF Received
  <2> QED BY <1>1, <2>1, ItemFacts
<1> DEFINE all == Range(Parts(job, s))
<1>3. IsFiniteSet(all) /\ Cardinality(all) = Len(Parts(job, s))
  BY <1>1, PartsSorted
<1>4. Cardinality(Received(s)) = Len(Parts(job, s))
  BY <1>2
<1>5. Received(s) \in SUBSET all
  BY <1>2
<1> HIDE DEF all
<1>6. Received(s) = all
  BY <1>3, <1>4, <1>5, FS_Subset
<1>7. Parts(job, s) # <<>>
  <2>1. Range(<<>>) = {}
    BY DEF Range
  <2> QED BY <1>6, <2>1 DEF all
<1> QED BY <1>4, <1>6, <1>7 DEF all

\* merge_downloaded_parts: what lies in the directories of all the parts of a document.
LEMMA MergedText ==
  ASSUME AdapterRight, DocumentsRight, NEW s \in Src, Received(s) = Range(Parts(job, s)),
         Parts(job, s) # <<>>, NEW n, n = Len(Parts(job, s))
  PROVE  /\ FlattenSeq(SubSeq(disk.part[s], 1, n)) \in Seq(Stamp(tally.runs))
         /\ Sure => FlattenSeq(SubSeq(disk.part[s], 1, n)) = Expected(s, tally.runs)
<1> DEFINE P == Parts(job, s)
           old == disk.part[s]
           q == SubSeq(old, 1, n)
           T == Stamp(tally.runs)
<1>1. job \in Jobs /\ old \in Seq(Seq(T))
  BY DiskFields DEF DocumentsRight
<1>2. PICK m : PartsAre(job, s, P, m)
  BY <1>1, PartsFacts
<1>3. /\ n \in Nat /\ DOMAIN P = 1 .. n /\ \A i \in 1 .. n : P[i].src = s /\ P[i].part = i
  BY <1>2 DEF PartsAre
<1>4. P = [i \in 1 .. n |-> P[i]] /\ n # 0
  <2>1. P = [i \in 1 .. n |-> P[i]]
    BY <1>3 DEF Parts
  <2> QED BY <1>3, <2>1
<1>5. \A i \in 1 .. n : P[i] \in adapter.got
  BY <1>3 DEF Received, Range
<1> HIDE DEF P, old, T
<1>6. \A i \in 1 .. n : i \in DOMAIN old /\ (Sure => old[i] = TextOf(P[i]))
  BY <1>3, <1>5 DEF AdapterRight, GotIsThere, old
<1>7. /\ q \in Seq(Seq(T)) /\ Len(q) = n /\ \A i \in 1 .. n : q[i] = old[i]
  <2>1. \A i \in 1 .. n : old[i] \in Seq(T)
    BY <1>1, <1>6
  <2>2. /\ q \in Seq(Seq(T)) /\ Len(q) = n - 1 + 1
        /\ \A i \in 1 .. n - 1 + 1 : q[i] = old[1 + i - 1]
    BY <1>3, <1>4, <2>1, SubSeqProperties
  <2> HIDE DEF q
  <2>3. n - 1 + 1 = n /\ \A i \in 1 .. n : 1 + i - 1 = i
    BY <1>3
  <2> QED BY <2>2, <2>3
<1> HIDE DEF q
<1>8. FlattenSeq(q) \in Seq(T)
  BY <1>7, FlattenRange
<1>9. ASSUME Sure PROVE FlattenSeq(q) = Expected(s, tally.runs)
  <2>1. q = [i \in 1 .. n |-> q[i]]
    BY <1>3, <1>7
  <2>2. \A i \in 1 .. n : q[i] = TextOf(P[i])
    BY <1>6, <1>7, <1>9
  <2>3. q = [i \in DOMAIN P |-> TextOf(P[i])]
    BY <1>3, <2>1, <2>2
  <2>4. P = Parts(job, s) /\ P # <<>>
    BY DEF P
  <2> QED BY <1>1, <2>3, <2>4, PartsJoin
<1> QED BY <1>8, <1>9 DEF q, old, T

LEMMA MergeOK ==
  ASSUME AdapterRight, DocumentsRight, Merge
  PROVE  AdapterRight' /\ DocumentsRight'
<1> DEFINE s == Head(adapter.merge)
           full == FlattenSeq(SubSeq(disk.part[s], 1, Cardinality(Received(s))))
<1>1. /\ adapter.pc = "merge" /\ adapter.merge # <<>> /\ UNCHANGED <<job, service, adopted, tally>>
      /\ IF \A it \in Received(s) : Cardinality(Received(s)) = it.parts
         THEN disk' = [disk EXCEPT !.full[s] = full] /\ adapter' = [adapter EXCEPT !.pc = "evidence"]
         ELSE Exit("failed") /\ UNCHANGED disk
  BY DEF Merge, AdapterAt, Received
<1>2. AdapterType(job, adapter) /\ job \in Jobs /\ DiskType(tally.runs, disk)
  BY DEF AdapterRight, DocumentsRight
<1>3. tally'.runs # 0 /\ tally.runs \in Nat
  BY <1>1, TallyFields DEF AdapterRight, AdapterHas
<1>4. s \in Src /\ Received(s) # {}
  <2>1. adapter.merge \in Seq(Range(job.inputs))
    BY <1>2, AdapterFields
  <2>2. s \in Range(adapter.merge) /\ s \in Range(job.inputs)
    BY <1>1, <2>1 DEF Range
  <2> QED BY <1>1, <1>2, <2>2, InputsPicked DEF AdapterRight, MergeHas
<1>5. CASE \A it \in Received(s) : Cardinality(Received(s)) = it.parts
  <2>1. disk' = [disk EXCEPT !.full[s] = full] /\ adapter' = [adapter EXCEPT !.pc = "evidence"]
    BY <1>1, <1>5
  <2>2. /\ Received(s) = Range(Parts(job, s)) /\ Parts(job, s) # <<>>
        /\ Cardinality(Received(s)) = Len(Parts(job, s))
    BY <1>4, <1>5, AllReceived
  <2>3. full \in Seq(Stamp(tally.runs)) /\ (Sure => full = Expected(s, tally.runs))
    BY <1>4, <2>2, MergedText
  <2> HIDE DEF full
  <2>4. /\ adapter'.pc = "evidence" /\ adapter'.todo = adapter.todo /\ adapter'.got = adapter.got
        /\ adapter'.batches = adapter.batches /\ adapter'.phase = adapter.phase
        /\ adapter'.merge = adapter.merge
    BY <1>2, <2>1 DEF AdapterType
  <2>5. AdapterType(job, adapter)'
    BY <1>1, <1>2, <2>1 DEF AdapterType, Places
  <2>6. /\ disk'.part = disk.part /\ disk'.ev = disk.ev /\ disk'.full = [disk.full EXCEPT ![s] = full]
        /\ DiskType(tally.runs, disk')
    <3> DEFINE f == [disk.full EXCEPT ![s] = full]
    <3>1. f \in [Src -> Seq(Stamp(tally.runs))]
      BY <1>2, <1>4, <2>3, DiskFields
    <3>2. disk' = [disk EXCEPT !.full = f]
      BY <1>2, <2>1 DEF DiskType
    <3> HIDE DEF f
    <3>3. disk'.part = disk.part /\ disk'.ev = disk.ev /\ disk'.full = f /\ DiskType(tally.runs, disk')
      BY <1>2, <3>1, <3>2 DEF DiskType
    <3> QED BY <3>3 DEF f
  <2>7. AdapterHas'
    BY <1>1, <2>4 DEF AdapterRight, AdapterHas, Listed
  <2>8. MergeHas'
    <3>1. \A x : Received(x)' = Received(x)
      BY <2>4 DEF Received
    <3>2. Head(adapter'.merge) = s /\ adapter'.merge # <<>>
      BY <1>1, <2>4
    <3>3. Parts(job, s)' = Parts(job, s)
      BY <1>1, <2>4
    <3>4. \A x \in Range(adapter.merge) : Received(x) # {}
      BY <1>1 DEF AdapterRight, MergeHas
    <3> HIDE DEF s
    <3> QED BY <1>1, <2>2, <2>4, <3>1, <3>2, <3>4 DEF MergeHas
  <2>9. MatchIsRight' /\ OldDocuments'
    BY <2>4 DEF MatchIsRight, OldDocuments
  <2>10. GotIsThere'
    <3>1. \A it : TextOf(it)' = TextOf(it)
      BY <1>1, SameTexts
    <3> QED BY <1>1, <2>4, <2>6, <3>1 DEF AdapterRight, GotIsThere, Sure
  <2>11. DocumentsRight'
    <3>1. \A x, r : Expected(x, r)' = Expected(x, r)
      BY <1>1, SameTexts
    <3>2. tally.runs \in 1 .. tally.runs
      BY <1>1, <1>3
    <3> HIDE DEF s
    <3>3. DocumentsAreWhole'
      <4> SUFFICES ASSUME NEW x \in Src
                   PROVE  /\ disk'.full[x] = <<>> \/ ~Sure'
                             \/ \E r \in 1 .. tally'.runs : disk'.full[x] = Expected(x, r)'
                          /\ disk'.ev[x] = <<>> \/ disk'.ev[x] = Selected(job', x)
        BY DEF DocumentsAreWhole
      <4>1. Sure' => Sure
        BY <1>1 DEF Sure
      <4>2. /\ disk.full[x] = <<>> \/ ~Sure \/ \E r \in 1 .. tally.runs : disk.full[x] = Expected(x, r)
            /\ disk.ev[x] = <<>> \/ disk.ev[x] = Selected(job, x)
        BY DEF DocumentsRight, DocumentsAreWhole
      <4>3. CASE x = s
        <5>1. disk'.full[x] = full
          BY <1>2, <2>6, <4>3, DiskFields
        <5> QED BY <1>1, <2>3, <2>6, <3>1, <3>2, <4>1, <4>2, <4>3, <5>1
      <4>4. CASE x # s
        <5>1. disk'.full[x] = disk.full[x]
          BY <1>2, <2>6, <4>4, DiskFields
        <5> QED BY <1>1, <2>6, <3>1, <4>1, <4>2, <5>1
      <4> QED BY <4>3, <4>4
    <3>4. AdoptedIsWhole'
      BY <1>1, <3>1 DEF DocumentsRight, AdoptedIsWhole
    <3> QED BY <1>1, <2>6, <3>3, <3>4 DEF DocumentsRight
  <2> QED BY <1>1, <2>5, <2>7, <2>8, <2>9, <2>10, <2>11 DEF AdapterRight
<1>6. CASE ~\A it \in Received(s) : Cardinality(Received(s)) = it.parts
  <2>1. Exit("failed") /\ UNCHANGED disk
    BY <1>1, <1>6
  <2>2. AdapterRight'
    BY <1>1, <1>3, <2>1, Exits DEF Exit, AdapterRight, AdapterHas, Listed
  <2>3. Quiet
    BY <1>1, <2>1 DEF Quiet, DocumentsRight
  <2> QED BY <2>2, <2>3, DocumentsStay
<1> QED BY <1>5, <1>6

LEMMA WriteEvidenceOK ==
  ASSUME AdapterRight, DocumentsRight, WriteEvidence
  PROVE  AdapterRight' /\ DocumentsRight'
<1> DEFINE s == Head(adapter.merge)
           sorted == CHOOSE q \in [1 .. Cardinality(Received(s)) -> Received(s)] :
                       \A i, k \in DOMAIN q : i < k => q[i].part < q[k].part
           ev == FlattenSeq([i \in DOMAIN sorted |-> sorted[i].pages])
<1>1. /\ adapter.pc = "evidence" /\ UNCHANGED <<job, service, adopted, tally>>
      /\ disk' = [disk EXCEPT !.ev[s] = ev]
      /\ adapter' = [adapter EXCEPT !.pc = "merge", !.merge = Tail(@)]
  BY DEF WriteEvidence, AdapterAt, Received
<1>2. AdapterType(job, adapter) /\ job \in Jobs /\ DiskType(tally.runs, disk)
  BY DEF AdapterRight, DocumentsRight
<1>3. adapter.merge # <<>> /\ Received(s) = Range(Parts(job, s))
  BY <1>1 DEF AdapterRight, MergeHas
<1>4. /\ Tail(adapter.merge) \in Seq(Range(job.inputs))
      /\ Range(Tail(adapter.merge)) \subseteq Range(adapter.merge)
      /\ s \in Range(adapter.merge) /\ s \in Range(job.inputs)
  <2> DEFINE q == adapter.merge
             R == Range(job.inputs)
  <2>1. q \in Seq(R) /\ q # <<>>
    BY <1>2, <1>3, AdapterFields
  <2> HIDE DEF q, R
  <2>2. /\ Tail(q) \in Seq(R) /\ Len(Tail(q)) = Len(q) - 1
        /\ \A i \in 1 .. Len(Tail(q)) : Tail(q)[i] = q[i + 1]
    BY <2>1, HeadTailProperties
  <2>3. \A i \in DOMAIN Tail(q) : Tail(q)[i] = q[i + 1] /\ i + 1 \in DOMAIN q
    BY <2>1, <2>2
  <2>4. Range(Tail(q)) \subseteq Range(q)
    BY <2>3 DEF Range
  <2>5. Head(q) \in R /\ Head(q) = q[1] /\ 1 \in DOMAIN q
    BY <2>1
  <2>6. Head(q) \in Range(q)
    BY <2>5 DEF Range
  <2> QED BY <2>2, <2>4, <2>5, <2>6 DEF q, R
<1>5. s \in Src /\ Received(s) # {}
  BY <1>1, <1>2, <1>4, InputsPicked DEF AdapterRight, MergeHas
<1>6. ev = Selected(job, s)
  <2>2. sorted = Parts(job, s)
    BY <1>2, <1>3, <1>5, PartsSorted
  <2>3. Parts(job, s) # <<>>
    <3>1. Range(<<>>) = {}
      BY DEF Range
    <3> QED BY <1>3, <1>5, <3>1
  <2> HIDE DEF sorted, s
  <2>4. FlattenSeq([i \in DOMAIN Parts(job, s) |-> Parts(job, s)[i].pages]) = Selected(job, s)
    BY <1>2, <1>5, <2>3, PartsJoin
  <2>5. ev = FlattenSeq([i \in DOMAIN Parts(job, s) |-> Parts(job, s)[i].pages])
    BY <2>2
  <2> QED BY <2>4, <2>5
<1> HIDE DEF sorted, ev
<1>7. Selected(job, s) \in Seq(Int)
  BY <1>2, <1>5, SelectedSeq
<1>8. /\ adapter'.pc = "merge" /\ adapter'.todo = adapter.todo /\ adapter'.got = adapter.got
      /\ adapter'.batches = adapter.batches /\ adapter'.phase = adapter.phase
      /\ adapter'.merge = Tail(adapter.merge)
  BY <1>1, <1>2 DEF AdapterType
<1>9. AdapterType(job, adapter)'
  BY <1>1, <1>2, <1>4 DEF AdapterType, Places
<1>10. /\ disk'.part = disk.part /\ disk'.full = disk.full /\ disk'.ev = [disk.ev EXCEPT ![s] = ev]
       /\ DiskType(tally.runs, disk')
  <2> DEFINE f == [disk.ev EXCEPT ![s] = ev]
  <2>1. f \in [Src -> Seq(Int)]
    BY <1>2, <1>5, <1>6, <1>7, DiskFields
  <2>2. disk' = [disk EXCEPT !.ev = f]
    BY <1>1, <1>2 DEF DiskType
  <2> HIDE DEF f
  <2>3. disk'.part = disk.part /\ disk'.full = disk.full /\ disk'.ev = f /\ DiskType(tally.runs, disk')
    BY <1>2, <2>1, <2>2 DEF DiskType
  <2> QED BY <2>3 DEF f
<1>11. AdapterHas'
  BY <1>1, <1>8 DEF AdapterRight, AdapterHas, Listed
<1>12. MergeHas'
  <2>1. \A x : Received(x)' = Received(x)
    BY <1>8 DEF Received
  <2>2. \A x \in Range(adapter.merge) : Received(x) # {}
    BY <1>1 DEF AdapterRight, MergeHas
  <2> QED BY <1>4, <1>8, <2>1, <2>2 DEF MergeHas
<1>13. MatchIsRight' /\ OldDocuments'
  BY <1>8 DEF MatchIsRight, OldDocuments
<1>14. GotIsThere'
  <2>1. \A it : TextOf(it)' = TextOf(it)
    BY <1>1, SameTexts
  <2> QED BY <1>1, <1>8, <1>10, <2>1 DEF AdapterRight, GotIsThere, Sure
<1>15. DocumentsRight'
  <2>1. \A x, r : Expected(x, r)' = Expected(x, r)
    BY <1>1, SameTexts
  <2> HIDE DEF s
  <2>2. DocumentsAreWhole'
    <3> SUFFICES ASSUME NEW x \in Src
                 PROVE  /\ disk'.full[x] = <<>> \/ ~Sure'
                           \/ \E r \in 1 .. tally'.runs : disk'.full[x] = Expected(x, r)'
                        /\ disk'.ev[x] = <<>> \/ disk'.ev[x] = Selected(job', x)
      BY DEF DocumentsAreWhole
    <3>1. Sure' => Sure
      BY <1>1 DEF Sure
    <3>2. /\ disk.full[x] = <<>> \/ ~Sure \/ \E r \in 1 .. tally.runs : disk.full[x] = Expected(x, r)
          /\ disk.ev[x] = <<>> \/ disk.ev[x] = Selected(job, x)
      BY DEF DocumentsRight, DocumentsAreWhole
    <3>3. disk'.ev[x] = <<>> \/ disk'.ev[x] = Selected(job', x)
      <4>1. CASE x = s
        <5>1. disk'.ev[x] = ev
          BY <1>2, <1>10, <4>1, DiskFields
        <5> QED BY <1>1, <1>6, <4>1, <5>1
      <4>2. CASE x # s
        <5>1. disk'.ev[x] = disk.ev[x]
          BY <1>2, <1>10, <4>2, DiskFields
        <5> QED BY <1>1, <3>2, <5>1
      <4> QED BY <4>1, <4>2
    <3> QED BY <1>1, <1>10, <2>1, <3>1, <3>2, <3>3
  <2>3. AdoptedIsWhole'
    BY <1>1, <2>1 DEF DocumentsRight, AdoptedIsWhole
  <2> QED BY <1>1, <1>10, <2>2, <2>3 DEF DocumentsRight
<1> QED BY <1>1, <1>9, <1>11, <1>12, <1>13, <1>14, <1>15 DEF AdapterRight

LEMMA MergedOK ==
  ASSUME AdapterRight, DocumentsRight, Merged
  PROVE  AdapterRight' /\ DocumentsRight'
<1>1. /\ UNCHANGED <<job, service, disk, adopted, tally>> /\ adapter.pc \in {"merge", "batch"}
      /\ adapter.pc = "batch" => adapter.batches = <<>> /\ adapter.phase = "local"
  BY DEF Merged, AdapterAt
<1>2. Quiet
  BY <1>1 DEF Quiet, DocumentsRight
<1>3. AdapterType(job, adapter) /\ job \in Jobs
  BY DEF AdapterRight, DocumentsRight
<1>4. tally'.runs # 0
  BY <1>1 DEF AdapterRight, AdapterHas
<1>5. CASE adapter.batches = <<>> /\ Exit("done")
  <2>1. AdapterRight'
    BY <1>1, <1>4, <1>5, Exits DEF Exit, AdapterRight, AdapterHas, Listed
  <2> QED BY <1>2, <2>1, DocumentsStay
<1>6. ASSUME adapter'.pc \in {"task", "batch"}, adapter'.phase = "url", adapter'.got = {},
             adapter'.todo = adapter.todo, AdapterType(job, adapter'),
             adapter'.pc = "task" => Len(Urls(job)) = 1
      PROVE  AdapterRight' /\ DocumentsRight'
  <2>1. AdapterHas'
    BY <1>1, <1>4, <1>6 DEF AdapterRight, AdapterHas, Listed
  <2>2. MergeHas' /\ MatchIsRight' /\ GotIsThere' /\ OldDocuments'
    BY <1>6 DEF MergeHas, MatchIsRight, GotIsThere, OldDocuments
  <2>3. AdapterType(job, adapter)' /\ ServiceType(job, service)'
    BY <1>1, <1>6 DEF AdapterRight
  <2> QED BY <1>2, <2>1, <2>2, <2>3, DocumentsStay DEF AdapterRight
<1>7. CASE adapter.batches # <<>> /\ adapter' = [adapter EXCEPT !.pc = "batch", !.got = {}]
  <2>1. adapter.phase = "url"
    BY <1>1, <1>3, <1>7, AdapterFields DEF AdapterRight, AdapterHas
  <2>2. /\ adapter'.pc = "batch" /\ adapter'.got = {} /\ adapter'.phase = "url"
        /\ adapter'.todo = adapter.todo
    BY <1>3, <1>7, <2>1 DEF AdapterType
  <2>3. AdapterType(job, adapter')
    BY <1>3, <1>7 DEF AdapterType, Places
  <2> QED BY <1>6, <2>2, <2>3
<1>8. CASE /\ adapter.batches = <<>> /\ Urls(job) # <<>>
           /\ adapter' = [adapter EXCEPT !.pc = IF UrlMode(job) = "single" THEN "task" ELSE "batch",
                            !.phase = "url", !.got = {}, !.batches = ModelBatches(UrlItems(job))]
  <2>1. ModelBatches(UrlItems(job)) \in Seq(Seq(Item(job)))
    <3> DEFINE I == Item(job)
    <3>1. UrlItems(job) \in Seq(I)
      BY <1>3, ItemsSent
    <3> HIDE DEF I
    <3>2. ModelBatches(UrlItems(job)) \in Seq(Seq(I))
      BY <3>1, ModelBatchesSeq
    <3> QED BY <3>2 DEF I
  <2> DEFINE code == IF UrlMode(job) = "single" THEN "task" ELSE "batch"
             bs == ModelBatches(UrlItems(job))
  <2>2. code \in {"task", "batch"} /\ (code = "task" => Len(Urls(job)) = 1)
    BY DEF UrlMode
  <2> HIDE DEF code, bs
  <2>3. adapter' = [adapter EXCEPT !.pc = code, !.phase = "url", !.got = {}, !.batches = bs]
    BY <1>8 DEF code, bs
  <2>4. /\ adapter'.pc = code /\ adapter'.got = {} /\ adapter'.phase = "url"
        /\ adapter'.todo = adapter.todo
    BY <1>3, <2>3 DEF AdapterType
  <2>5. AdapterType(job, adapter')
    BY <1>3, <2>1, <2>2, <2>3 DEF AdapterType, Places, bs
  <2> QED BY <1>6, <2>2, <2>4, <2>5
<1> QED BY <1>5, <1>7, <1>8 DEF Merged

LEMMA SubmitTaskOK ==
  ASSUME AdapterRight, DocumentsRight, SubmitTask
  PROVE  AdapterRight' /\ DocumentsRight'
<1>1. /\ adapter.pc = "task" /\ UNCHANGED <<job, disk, adopted, tally>>
      /\ service' = [items |-> UrlItems(job), st |-> <<"running">>, listed |-> {1}]
      /\ adapter' = [adapter EXCEPT !.pc = "await"]
  BY DEF SubmitTask, AdapterAt
<1>2. Quiet
  BY <1>1 DEF Quiet, DocumentsRight
<1>3. AdapterType(job, adapter) /\ job \in Jobs
  BY DEF AdapterRight, DocumentsRight
<1>4. /\ Len(Urls(job)) = 1 /\ adapter.phase = "url" /\ adapter.todo = <<>> /\ adapter.got = {}
      /\ tally.runs # 0
  BY <1>1 DEF AdapterRight, AdapterHas
<1>5. /\ adapter'.pc = "await" /\ adapter'.todo = <<>> /\ adapter'.got = {} /\ adapter'.phase = "url"
  BY <1>1, <1>3, <1>4 DEF AdapterType
<1>6. AdapterType(job, adapter)'
  BY <1>1, <1>3 DEF AdapterType, Places
<1>7. UrlItems(job) \in Seq(Item(job)) /\ DOMAIN UrlItems(job) = {1}
  BY <1>3, <1>4, SingleUrl
<1>8. ServiceType(job, service)'
  <2>1. <<"running">> \in Seq(States)
    BY DEF States
  <2> QED BY <1>1, <1>7, <2>1 DEF ServiceType
<1>9. AdapterHas'
  <2>1. Range(<<>>) = {}
    BY DEF Range
  <2>2. service'.listed = {1} /\ DOMAIN service'.items = {1} /\ job' = job
    BY <1>1, <1>7
  <2> QED BY <1>1, <1>4, <1>5, <2>1, <2>2 DEF AdapterHas, Listed
<1>10. MergeHas' /\ MatchIsRight' /\ GotIsThere' /\ OldDocuments'
  BY <1>5 DEF MergeHas, MatchIsRight, GotIsThere, OldDocuments
<1> QED BY <1>2, <1>6, <1>8, <1>9, <1>10, DocumentsStay DEF AdapterRight

LEMMA EndTaskOK ==
  ASSUME AdapterRight, DocumentsRight, EndTask
  PROVE  AdapterRight' /\ DocumentsRight'
<1>1. adapter.pc = "await" /\ UNCHANGED <<job, service, adopted, tally>>
  BY DEF EndTask, AdapterAt
<1>2. tally.runs # 0 /\ Len(Urls(job)) = 1
  BY <1>1 DEF AdapterRight, AdapterHas
<1>3. job \in Jobs /\ DiskType(tally.runs, disk)
  BY DEF DocumentsRight
<1>4. ASSUME NEW code \in {"failed", "done"}, Exit(code)
      PROVE  AdapterRight'
  BY <1>1, <1>2, <1>4, Exits DEF Exit, AdapterRight, AdapterHas, Listed
<1>5. CASE Exit("failed") /\ UNCHANGED disk
  <2>1. AdapterRight'
    BY <1>4, <1>5
  <2>2. Quiet
    BY <1>1, <1>5 DEF Quiet, DocumentsRight
  <2> QED BY <2>1, <2>2, DocumentsStay
<1>6. CASE /\ Exit("done")
           /\ disk' = [disk EXCEPT !.part[Urls(job)[1]] = <<TextOf(UrlItems(job)[1])>>]
  <2>1. AdapterRight'
    BY <1>4, <1>6
  <2> DEFINE u == Urls(job)[1]
             text == TextOf(UrlItems(job)[1])
             T == Stamp(tally.runs)
  <2>2. u \in Src /\ text \in Seq(T)
    BY <1>2, <1>3, SingleUrl, TextType
  <2>3. <<text>> \in Seq(Seq(T))
    <3> HIDE DEF text, T
    <3> QED BY <2>2
  <2> HIDE DEF u, text
  <2>4. disk' = [disk EXCEPT !.part[u] = <<text>>]
    BY <1>6 DEF u, text
  <2>5. DiskType(tally.runs, disk') /\ disk'.full = disk.full /\ disk'.ev = disk.ev
    <3> DEFINE f == [disk.part EXCEPT ![u] = <<text>>]
    <3>1. f \in [Src -> Seq(Seq(T))]
      BY <1>3, <2>2, <2>3, DiskFields
    <3>2. disk' = [disk EXCEPT !.part = f]
      BY <1>3, <2>4 DEF DiskType
    <3> HIDE DEF f
    <3> QED BY <1>3, <3>1, <3>2 DEF DiskType
  <2>6. \A s, r : Expected(s, r)' = Expected(s, r)
    BY <1>1, SameTexts
  <2>7. DocumentsAreWhole' /\ AdoptedIsWhole'
    BY <1>1, <2>5, <2>6 DEF DocumentsRight, DocumentsAreWhole, AdoptedIsWhole, Sure
  <2> QED BY <1>1, <2>1, <2>5, <2>7 DEF DocumentsRight
<1> QED BY <1>5, <1>6 DEF EndTask

-----------------------------------------------------------------------------
(* The service, the worker and a new run; and what the invariant says.       *)

LEMMA ListOK ==
  ASSUME AdapterRight, DocumentsRight, NEW x \in DOMAIN service.items, List(x)
  PROVE  AdapterRight' /\ DocumentsRight'
<1>1. /\ service' = [service EXCEPT !.listed = @ \cup {x}]
      /\ UNCHANGED <<job, adapter, disk, adopted, tally>>
  BY DEF List
<1>2. ServiceType(job, service) /\ Listed \subseteq DOMAIN service.items
  BY DEF AdapterRight, AdapterHas
<1>3. service.items \in Seq(Item(job)) /\ x \in Nat
  BY <1>2, ServiceFields
<1>4. service'.items = service.items /\ Listed' = Listed \cup {x}
  BY <1>1, <1>2 DEF ServiceType, Listed
<1>5. ServiceType(job, service)'
  BY <1>1, <1>2, <1>3 DEF ServiceType
<1>6. Quiet
  BY <1>1 DEF Quiet, DocumentsRight
<1>7. AdapterHas' /\ MergeHas'
  BY <1>1, <1>4 DEF AdapterRight, AdapterHas, MergeHas, Received
<1>8. MatchIsRight'
  BY <1>1, <1>4 DEF AdapterRight, MatchIsRight, Sure
<1>9. GotIsThere'
  BY <1>1, <1>6, GotStays DEF AdapterRight
<1>10. OldDocuments' /\ AdapterType(job, adapter)'
  BY <1>1 DEF AdapterRight, OldDocuments
<1> QED BY <1>5, <1>6, <1>7, <1>8, <1>9, <1>10, DocumentsStay DEF AdapterRight

LEMMA ExtractOK ==
  ASSUME AdapterRight, DocumentsRight, NEW x \in DOMAIN service.items, Extract(x)
  PROVE  AdapterRight' /\ DocumentsRight'
<1>1. PICK st \in {"done", "failed"} :
        /\ service' = [service EXCEPT !.st[x] = st]
        /\ UNCHANGED <<job, adapter, disk, adopted>>
        /\ tally' = tally \/ tally' = [tally EXCEPT !.faults = @ + 1]
  BY DEF Extract, MineruFault
<1>2. ServiceType(job, service) /\ tally \in [runs : Nat, faults : Nat, late : BOOLEAN]
  BY DEF AdapterRight, DocumentsRight
<1>3. service'.items = service.items /\ Listed' = Listed
  BY <1>1, <1>2 DEF ServiceType, Listed
<1>4. ServiceType(job, service)'
  <2> DEFINE q == [service.st EXCEPT ![x] = st]
  <2>1. q \in Seq(States)
    <3>1. st \in States /\ service.st \in Seq(States)
      BY <1>2, ServiceFields DEF States
    <3>2. PICK n \in Nat : service.st \in [1 .. n -> States]
      BY <3>1, SeqDef
    <3>3. q \in [1 .. n -> States]
      BY <3>1, <3>2
    <3> HIDE DEF q
    <3> QED BY <3>2, <3>3, SeqDef
  <2>2. service' = [service EXCEPT !.st = q]
    BY <1>1, <1>2 DEF ServiceType
  <2> HIDE DEF q
  <2> QED BY <2>1, <2>2, <1>1, <1>2 DEF ServiceType
<1>5. /\ tally'.runs = tally.runs /\ tally'.late = tally.late
      /\ tally' \in [runs : Nat, faults : Nat, late : BOOLEAN]
  BY <1>1, <1>2
<1>6. Quiet
  BY <1>1, <1>5 DEF Quiet
<1>7. AdapterHas' /\ MergeHas'
  BY <1>1, <1>3, <1>5 DEF AdapterRight, AdapterHas, MergeHas, Received
<1>8. MatchIsRight'
  BY <1>1, <1>3, <1>5 DEF AdapterRight, MatchIsRight, Sure
<1>9. GotIsThere'
  BY <1>1, <1>6, GotStays DEF AdapterRight
<1>10. OldDocuments' /\ AdapterType(job, adapter)'
  BY <1>1, <1>5 DEF AdapterRight, OldDocuments
<1> QED BY <1>4, <1>6, <1>7, <1>8, <1>9, <1>10, DocumentsStay DEF AdapterRight

\* _process_mineru_route: what the worker finds was made from all of its one document.
LEMMA AdoptOK ==
  ASSUME AdapterRight, DocumentsRight, Adopt
  PROVE  AdapterRight' /\ DocumentsRight'
<1> DEFINE s == job.inputs[1]
           found == /\ disk.full[s] # <<>> /\ disk.ev[s] # <<>>
                    /\ Increasing(disk.ev[s]) /\ ToSet(disk.ev[s]) \subseteq ToSet(Selected(job, s))
<1>1. /\ job.worker /\ adapter' = AdapterOff /\ disk' = NoDisk /\ UNCHANGED <<job, service, tally>>
      /\ adopted' = IF found THEN [pages |-> disk.ev[s], text |-> disk.full[s]] ELSE adopted
  BY DEF Adopt
<1>2. job \in Jobs /\ DiskType(tally.runs, disk) /\ AdoptedType(tally.runs, adopted)
  BY DEF DocumentsRight
<1>3. Sure
  BY <1>1 DEF Sure
<1>4. s \in Src
  BY <1>1, <1>2, JobsAreCalls DEF Src
<1>5. AdapterRight'
  <2>1. adapter' = [AdapterOff EXCEPT !.pc = "off"]
    BY <1>1 DEF AdapterOff
  <2> QED BY <1>1, <2>1, Exits DEF AdapterRight, AdapterHas, Listed
<1> HIDE DEF s
<1>6. \A x, r : Expected(x, r)' = Expected(x, r)
  BY <1>1, SameTexts
<1>7. AdoptedType(tally.runs, adopted')
  BY <1>1, <1>2, <1>4, DiskFields DEF AdoptedType
<1>8. DiskType(tally.runs, disk') /\ \A x \in Src : disk'.full[x] = <<>> /\ disk'.ev[x] = <<>>
  BY <1>1 DEF DiskType, NoDisk
<1>9. DocumentsAreWhole'
  BY <1>8 DEF DocumentsAreWhole
<1>10. AdoptedIsWhole'
  <2>1. CASE found
    <3>1. adopted'.pages = disk.ev[s] /\ adopted'.text = disk.full[s] /\ disk.full[s] # <<>> /\ disk.ev[s] # <<>>
      BY <1>1, <2>1
    <3>2. disk.ev[s] = Selected(job, s) /\ \E r \in 1 .. tally.runs : disk.full[s] = Expected(s, r)
      BY <1>3, <1>4, <3>1 DEF DocumentsRight, DocumentsAreWhole
    <3> QED BY <1>1, <1>6, <3>1, <3>2 DEF AdoptedIsWhole, s
  <2>2. CASE ~found
    BY <1>1, <1>6, <2>2 DEF DocumentsRight, AdoptedIsWhole
  <2> QED BY <2>1, <2>2
<1> QED BY <1>1, <1>2, <1>5, <1>7, <1>8, <1>9, <1>10 DEF DocumentsRight

LEMMA StartAdapterOK ==
  ASSUME AdapterRight, DocumentsRight, StartAdapter
  PROVE  AdapterRight' /\ DocumentsRight'
<1> DEFINE r == tally.runs
           bs == ModelBatches(LocalItems(job))
<1>1. /\ tally' = [tally EXCEPT !.runs = @ + 1] /\ disk' = IF job.worker THEN NoDisk ELSE disk
      /\ service' = NoService /\ UNCHANGED <<job, adopted>>
      /\ \/ adapter' = [AdapterOff EXCEPT !.pc = "batch", !.batches = bs]
         \/ Exit("failed")
  BY DEF StartAdapter
<1>2. /\ job \in Jobs /\ DiskType(r, disk) /\ AdoptedType(r, adopted)
      /\ tally \in [runs : Nat, faults : Nat, late : BOOLEAN]
  BY DEF DocumentsRight
<1>3. /\ r \in Nat /\ tally'.runs = r + 1 /\ tally'.late = tally.late
      /\ tally' \in [runs : Nat, faults : Nat, late : BOOLEAN]
  BY <1>1, <1>2
<1> HIDE DEF r
<1>4. Seq(Stamp(r)) \subseteq Seq(Stamp(r + 1))
  <2>1. Stamp(r) \subseteq Stamp(r + 1)
    BY <1>3 DEF Stamp
  <2> DEFINE A == Stamp(r)
             B == Stamp(r + 1)
  <2> HIDE DEF A, B
  <2>2. A \subseteq B => Seq(A) \subseteq Seq(B)
    OBVIOUS
  <2> QED BY <2>1, <2>2 DEF A, B
<1>5. Seq(Seq(Stamp(r))) \subseteq Seq(Seq(Stamp(r + 1)))
  <2> DEFINE A == Seq(Stamp(r))
             B == Seq(Stamp(r + 1))
  <2> HIDE DEF A, B
  <2>1. A \subseteq B => Seq(A) \subseteq Seq(B)
    OBVIOUS
  <2> QED BY <1>4, <2>1 DEF A, B
<1>6. DiskType(r, disk') /\ \A x \in Src : disk'.full[x] \in {<<>>, disk.full[x]} /\ disk'.ev[x] \in {<<>>, disk.ev[x]}
  <2>1. DiskType(r, NoDisk) /\ \A x \in Src : NoDisk.full[x] = <<>> /\ NoDisk.ev[x] = <<>>
    BY DEF DiskType, NoDisk
  <2> QED BY <1>1, <1>2, <2>1
<1>7. /\ disk'.full \in [Src -> Seq(Stamp(r))]
      /\ DiskType(r + 1, disk') /\ AdoptedType(r + 1, adopted')
  <2> DEFINE A == Seq(Stamp(r))
             B == Seq(Stamp(r + 1))
             AA == Seq(A)
             BB == Seq(B)
  <2>1. A \subseteq B /\ AA \subseteq BB
    BY <1>4, <1>5
  <2>2. disk' \in [part : [Src -> AA], full : [Src -> A], ev : [Src -> Seq(Int)]]
        /\ adopted' \in [pages : Seq(Int), text : A]
    BY <1>1, <1>2, <1>6 DEF DiskType, AdoptedType
  <2> HIDE DEF A, AA, B, BB
  <2>3. /\ disk' \in [part : [Src -> BB], full : [Src -> B], ev : [Src -> Seq(Int)]]
        /\ adopted' \in [pages : Seq(Int), text : B] /\ disk'.full \in [Src -> A]
    BY <2>1, <2>2
  <2> QED BY <2>3 DEF DiskType, AdoptedType, A, AA, B, BB
<1>8. \A x, k : Expected(x, k)' = Expected(x, k)
  BY <1>1, SameTexts
<1>9. DocumentsRight'
  <2>1. 1 .. r \subseteq 1 .. r + 1
    BY <1>3
  <2>2. Sure' => Sure
    BY <1>1, <1>3 DEF Sure
  <2>3. DocumentsAreWhole'
    <3> SUFFICES ASSUME NEW x \in Src
                 PROVE  /\ disk'.full[x] = <<>> \/ ~Sure'
                           \/ \E k \in 1 .. tally'.runs : disk'.full[x] = Expected(x, k)'
                        /\ disk'.ev[x] = <<>> \/ disk'.ev[x] = Selected(job', x)
      BY DEF DocumentsAreWhole
    <3>1. /\ disk.full[x] = <<>> \/ ~Sure \/ \E k \in 1 .. r : disk.full[x] = Expected(x, k)
          /\ disk.ev[x] = <<>> \/ disk.ev[x] = Selected(job, x)
      BY DEF DocumentsRight, DocumentsAreWhole, r
    <3>2. disk'.full[x] \in {<<>>, disk.full[x]} /\ disk'.ev[x] \in {<<>>, disk.ev[x]}
      BY <1>6
    <3> QED BY <1>1, <1>3, <1>8, <2>1, <2>2, <3>1, <3>2
  <2>4. AdoptedIsWhole'
    <3>1. adopted.pages # <<>> =>
            /\ adopted.pages = Selected(job, job.inputs[1])
            /\ \E k \in 1 .. r : adopted.text = Expected(job.inputs[1], k)
      BY DEF DocumentsRight, AdoptedIsWhole, r
    <3> QED BY <1>1, <1>3, <1>8, <2>1, <3>1 DEF AdoptedIsWhole
  <2> QED BY <1>1, <1>2, <1>3, <1>7, <2>3, <2>4 DEF DocumentsRight
<1>10. ServiceType(job, service)' /\ service'.listed = {} /\ DOMAIN service'.items = {}
  BY <1>1 DEF ServiceType, NoService
<1>11. CASE Exit("failed")
  <2>1. AdapterRight'
    BY <1>3, <1>10, <1>11, Exits DEF Exit, Listed
  <2> QED BY <1>9, <2>1
<1>12. CASE adapter' = [AdapterOff EXCEPT !.pc = "batch", !.batches = bs]
  <2>1. bs \in Seq(Seq(Item(job)))
    <3> DEFINE I == Item(job)
    <3>1. LocalItems(job) \in Seq(I)
      BY <1>2, ItemsSent
    <3> HIDE DEF I
    <3>2. bs \in Seq(Seq(I))
      BY <3>1, ModelBatchesSeq
    <3> QED BY <3>2 DEF I
  <2> HIDE DEF bs
  <2>2. /\ adapter'.pc = "batch" /\ adapter'.todo = <<>> /\ adapter'.got = {}
        /\ adapter'.merge = <<>> /\ adapter'.phase = "local"
    BY <1>12 DEF AdapterOff
  <2>3. AdapterType(job, adapter)'
    <3>1. /\ <<>> \in Seq(Nat) /\ {} \subseteq Item(job) /\ <<>> \in Seq(Range(job.inputs))
      OBVIOUS
    <3>2. AdapterType(job, adapter')
      BY <1>12, <2>1, <3>1 DEF AdapterType, AdapterOff, Places
    <3> QED BY <1>1, <3>2
  <2>4. AdapterHas'
    <3>1. Range(<<>>) = {}
      BY DEF Range
    <3> QED BY <1>3, <1>10, <2>2, <3>1 DEF AdapterHas, Listed
  <2>5. MergeHas' /\ MatchIsRight' /\ GotIsThere'
    BY <2>2 DEF MergeHas, MatchIsRight, GotIsThere
  <2>6. OldDocuments'
    <3>1. tally'.runs - 1 = r
      BY <1>3
    <3> QED BY <1>7, <3>1 DEF OldDocuments
  <2> QED BY <1>9, <1>10, <2>3, <2>4, <2>5, <2>6 DEF AdapterRight
<1> QED BY <1>1, <1>11, <1>12

LEMMA MineruInitOK ==
  ASSUME MineruInit
  PROVE  AdapterRight /\ DocumentsRight
<1>1. /\ job \in Jobs /\ adapter = AdapterOff /\ service = NoService /\ disk = NoDisk
      /\ adopted = [pages |-> <<>>, text |-> <<>>]
      /\ tally = [runs |-> 0, faults |-> 0, late |-> FALSE]
  BY DEF MineruInit
<1>2. AdapterType(job, adapter)
  <2>1. adapter = [AdapterOff EXCEPT !.pc = "off"] /\ "off" \in Places
    BY <1>1 DEF AdapterOff, Places
  <2> QED BY <2>1, OffType
<1>3. ServiceType(job, service) /\ Listed = {} /\ DOMAIN service.items = {}
  BY <1>1 DEF ServiceType, NoService, Listed
<1>4. adapter.pc = "off" /\ adapter.todo = <<>> /\ adapter.got = {}
  BY <1>1 DEF AdapterOff
<1>5. AdapterHas
  <2>1. Range(<<>>) = {}
    BY DEF Range
  <2> QED BY <1>3, <1>4, <2>1 DEF AdapterHas
<1>6. MergeHas /\ MatchIsRight /\ GotIsThere /\ OldDocuments
  BY <1>4 DEF MergeHas, MatchIsRight, GotIsThere, OldDocuments
<1>7. DiskType(tally.runs, disk) /\ AdoptedType(tally.runs, adopted) /\ AdoptedIsWhole
  BY <1>1 DEF DiskType, NoDisk, AdoptedType, AdoptedIsWhole
<1>8. DocumentsAreWhole
  BY <1>1 DEF DocumentsAreWhole, NoDisk
<1>9. tally \in [runs : Nat, faults : Nat, late : BOOLEAN]
  BY <1>1
<1> QED BY <1>1, <1>2, <1>3, <1>5, <1>6, <1>7, <1>8, <1>9 DEF AdapterRight, DocumentsRight

LEMMA MineruNextOK ==
  ASSUME MineruInv, [MineruNext]_mineruVars
  PROVE  MineruInv'
<1>1. AdapterRight /\ DocumentsRight
  BY MineruInvParts
<1> SUFFICES AdapterRight' /\ DocumentsRight'
  BY MineruInvParts DEF MineruInv, MineruTypes, AdapterRight, DocumentsRight
<1>2. CASE StartAdapter
  BY <1>1, <1>2, StartAdapterOK
<1>3. CASE MineruStep
  BY <1>1, <1>3, SubmitBatchOK, UploadOK, UploadedOK, BatchPolledOK, BatchFailedOK, DownloadPartOK,
     BatchDoneOK, MergeOK, WriteEvidenceOK, MergedOK, SubmitTaskOK, EndTaskOK, AdoptOK DEF MineruStep
<1>4. CASE Breaks
  BY <1>1, <1>4, BreaksOK
<1>5. CASE \E x \in DOMAIN service.items : List(x) \/ Extract(x)
  BY <1>1, <1>5, ListOK, ExtractOK
<1>6. CASE UNCHANGED mineruVars
  <2>1. UNCHANGED <<job, adapter, service, disk, adopted, tally>>
    BY <1>6 DEF mineruVars
  <2>2. Quiet
    BY <1>1, <2>1 DEF Quiet, DocumentsRight
  <2>3. AdapterHas' /\ MergeHas'
    BY <1>1, <2>1 DEF AdapterRight, AdapterHas, MergeHas, Received, Listed
  <2>4. MatchIsRight' /\ OldDocuments' /\ AdapterType(job, adapter)' /\ ServiceType(job, service)'
    BY <1>1, <2>1 DEF AdapterRight, MatchIsRight, OldDocuments, Sure, Listed
  <2>5. GotIsThere'
    BY <1>1, <2>1, <2>2, GotStays DEF AdapterRight
  <2> QED BY <1>1, <2>2, <2>3, <2>4, <2>5, DocumentsStay DEF AdapterRight
<1> QED BY <1>2, <1>3, <1>4, <1>5, <1>6 DEF MineruNext

LEMMA MineruInvSuffices ==
  ASSUME MineruInv
  PROVE  MineruIsRight
<1>1. AdapterRight /\ DocumentsRight
  BY MineruInvParts
<1>2. /\ AdapterType(job, adapter) /\ DiskType(tally.runs, disk) /\ job \in Jobs /\ tally.runs \in Nat
  BY <1>1, TallyFields DEF AdapterRight, DocumentsRight
<1>3. MineruTypeOK
  <2>1. adapter.pc \in Places /\ adapter.merge \in Seq(Range(job.inputs))
    BY <1>2, AdapterFields
  <2>2. ToSet(adapter.todo) = Range(adapter.todo) /\ ToSet(adapter.merge) = Range(adapter.merge)
        /\ ToSet(job.inputs) = Range(job.inputs)
    BY DEF ToSet, Range
  <2>3. Range(adapter.merge) \subseteq Range(job.inputs)
    BY <2>1 DEF Range
  <2>4. Range(adapter.todo) \subseteq DOMAIN service.items /\ Listed \subseteq DOMAIN service.items
    BY <1>1 DEF AdapterRight, AdapterHas
  <2>5. adapter.pc = "download" => \A x \in DOMAIN service.items : adapter.match[x] \in Listed
    BY <1>1 DEF AdapterRight, MatchIsRight
  <2>6. \A it \in adapter.got : it.part \in DOMAIN disk.part[it.src]
    BY <1>1 DEF AdapterRight, GotIsThere
  <2> QED BY <2>1, <2>2, <2>3, <2>4, <2>5, <2>6 DEF MineruTypeOK, Places
<1>4. DocumentIsItsOwn
  BY <1>1 DEF DocumentsRight, DocumentsAreWhole, DocumentIsItsOwn, Sure
<1>5. FailedRunIsClean
  <2> SUFFICES ASSUME adapter.pc \in {"batch", "upload", "poll", "download"}, adapter.phase = "local",
                      NEW s \in Range(Locals(job)), NEW k \in DOMAIN disk.full[s]
               PROVE  disk.full[s][k][3] < tally.runs
    BY DEF FailedRunIsClean
  <2>1. s \in Src
    <3>1. Locals(job) \in Seq(Range(job.inputs)) /\ Range(job.inputs) \subseteq Src
      BY <1>2, InputsPicked
    <3> QED BY <3>1 DEF Range
  <2>2. disk.full[s] \in Seq(Stamp(tally.runs - 1))
    BY <1>1, <2>1 DEF AdapterRight, OldDocuments
  <2>3. disk.full[s][k] \in Stamp(tally.runs - 1)
    <3> DEFINE A == Stamp(tally.runs - 1)
               q == disk.full[s]
    <3> HIDE DEF A, q
    <3>1. q \in Seq(A) => \A i \in DOMAIN q : q[i] \in A
      OBVIOUS
    <3> QED BY <2>2, <3>1 DEF A, q
  <2> QED BY <1>2, <2>3 DEF Stamp
<1>6. AdoptedIsWhole
  BY <1>1 DEF DocumentsRight
<1> QED BY <1>3, <1>4, <1>5, <1>6 DEF MineruIsRight

\* The invariant of the MinerU adapter, for every set of inputs, way of running it and limit.
THEOREM MineruInvariant == MineruSpec => []MineruInv
<1>1. MineruInit => MineruInv
  BY MineruInitOK, MineruInvParts
<1>2. MineruInv /\ [MineruNext]_mineruVars => MineruInv'
  BY MineruNextOK
<1> QED BY <1>1, <1>2, PTL DEF MineruSpec

\* A merged document is its own source's, a run that fails before its last local batch is in
\* leaves the documents of earlier runs alone, and the worker commits the whole of a document.
THEOREM MineruStaysRight == MineruSpec => []MineruIsRight
<1>1. MineruInv => MineruIsRight
  BY MineruInvSuffices
<1> QED BY <1>1, MineruInvariant, PTL
=============================================================================
