--------------------------- MODULE SearchRanking ---------------------------
(***************************************************************************)
(* A search over the index: query, query_fulltext (search.py), on the two  *)
(* queries of the store (vector_store.py) and the filter read from Zotero  *)
(* (zotero_db.py).  Each of them is a transaction of its own, and a sync   *)
(* or a pipeline may replace the rows of an item between any two.          *)
(*                                                                         *)
(* A row is <<item, 0>>, its metadata, or <<item, k>>, its k-th chunk.     *)
(* How near a row is to the query, and which rows contain its words, is    *)
(* chosen anew; the distance and the score of a hit are its rank.  The     *)
(* reordering of the outcome by a provider's reranker is left out.         *)
(***************************************************************************)
EXTENDS Naturals, FiniteSets, Sequences, SequencesExt

CONSTANTS
  Parents,     \* the items, which are the parents of their chunks
  ChunkBound,  \* chunks of an item
  Changes,     \* replacements of an item's rows
  TopK, Pool   \* the results wanted, and the rows asked of a channel

RRFK == 60

VARIABLES
  store,    \* the rows of an item: the version of its text, chunks, a tag
  tagged,   \* Zotero: the items with the tag
  query,    \* the search
  changes

rankVars == <<store, tagged, query, changes>>

Modes == {"vector", "keyword", "hybrid"}

RankInit ==
  /\ store \in [Parents -> [version : {0}, chunks : 0 .. ChunkBound, tag : BOOLEAN]]
  /\ tagged = {i \in Parents : store[i].tag} /\ changes = 0
  /\ query \in [at : {"filter"}, mode : Modes, fulltext : BOOLEAN, filter : BOOLEAN,
                allowed : {Parents}, vector : {<<>>}, keyword : {<<>>},
                results : {<<>>}]

Fulltext == query.fulltext
Search(q) == query' = q /\ UNCHANGED <<store, tagged, changes>>

-----------------------------------------------------------------------------
(* The channels.                                                           *)

\* filtered_item_keys: the items that pass, as Zotero has them now; none, and
\* the search is over.
Filter ==
  LET allowed == IF query.filter THEN tagged ELSE Parents IN
  /\ query.at = "filter"
  /\ Search([query EXCEPT !.allowed = allowed,
       !.at = IF allowed = {} THEN "done" ELSE IF query.mode = "keyword" THEN "keyword" ELSE "vector"])

RowsOf(only) ==
  {<<i, k>> : i \in query.allowed, k \in 0 .. ChunkBound} \cap
  UNION {{<<i, k>> : k \in (IF only THEN 1 ELSE 0) .. store[i].chunks} : i \in Parents}

\* The first so many rows in an order; a hit carries the row's metadata.
Hits(order, n) ==
  [k \in 1 .. (IF Len(order) < n THEN Len(order) ELSE n) |->
     [item |-> order[k][1], chunk |-> order[k][2],
      version |-> store[order[k][1]].version, tag |-> store[order[k][1]].tag]]

\* The elements of a set in an order in which one of any two precedes the other.
InOrder(S, Precedes(_, _)) ==
  CHOOSE q \in [1 .. Cardinality(S) -> S] : \A m, n \in DOMAIN q : m < n => Precedes(q[m], q[n])

\* The hits at some positions, in their order.
Kept(hits, positions) ==
  LET at == InOrder(positions, LAMBDA a, b : a < b) IN [n \in DOMAIN at |-> hits[at[n]]]

\* _matches_filters, on the metadata in the index; query_fulltext keeps chunks.
Matching(hits) ==
  Kept(hits, {k \in DOMAIN hits : /\ query.filter => hits[k].tag
                                  /\ Fulltext => hits[k].chunk > 0})

\* The best hit of each parent, in the order the parents are first met.
ByParent(hits) ==
  Kept(hits, {k \in DOMAIN hits : \A j \in 1 .. k - 1 : hits[j].item # hits[k].item})

\* A search for items by vector alone, without a filter, asks for as many rows
\* as it wants items.
VectorPool ==
  IF query.mode = "hybrid" \/ query.filter \/ Fulltext THEN Pool ELSE TopK

VectorQuery ==
  /\ query.at = "vector"
  /\ \E order \in SetToSeqs(RowsOf(FALSE)) :
       Search([query EXCEPT !.vector = ByParent(Matching(Hits(order, VectorPool))),
                          !.at = IF query.mode = "vector" THEN "rank" ELSE "keyword"])

\* The rows that contain the words; of query_fulltext, among the chunks only.
KeywordQuery ==
  /\ query.at = "keyword"
  /\ \E found \in SUBSET RowsOf(Fulltext) : \E order \in SetToSeqs(found) :
       Search([query EXCEPT !.keyword = ByParent(Matching(Hits(order, Pool))), !.at = "rank"])

-----------------------------------------------------------------------------
(* Ranking.                                                                *)

Found(hits, i) == \E k \in DOMAIN hits : hits[k].item = i
Rank(hits, i) == CHOOSE k \in DOMAIN hits : hits[k].item = i

\* 1 / (RRF_K + rank), and the sum of two of them, as <<numerator, denominator>>.
Share(hits, i) == IF Found(hits, i) THEN <<1, RRFK + Rank(hits, i)>> ELSE <<0, 1>>
Score(v, k, i) ==
  LET x == Share(v, i)  y == Share(k, i) IN <<x[1] * y[2] + y[1] * x[2], x[2] * y[2]>>
Less(x, y) == x[1] * y[2] < y[1] * x[2]

\* _fuse_parent_results: by score, then keyword hits first, then as met.
Ahead(v, k, i, j) ==
  \/ Less(Score(v, k, j), Score(v, k, i))
  \/ /\ ~Less(Score(v, k, i), Score(v, k, j))
     /\ \/ Found(k, i) /\ ~Found(k, j)
        \/ /\ Found(k, i) = Found(k, j)
           /\ IF Found(v, i) /\ Found(v, j) THEN Rank(v, i) < Rank(v, j)
              ELSE Found(v, i) \/ (~Found(v, j) /\ Rank(k, i) < Rank(k, j))

\* The entry of an item found by both is the keyword's.
Fused(v, k) ==
  LET items == {v[n].item : n \in DOMAIN v} \cup {k[n].item : n \in DOMAIN k}
      order == InOrder(items, LAMBDA i, j : Ahead(v, k, i, j))
  IN [n \in DOMAIN order |->
        IF Found(k, order[n]) THEN k[Rank(k, order[n])] ELSE v[Rank(v, order[n])]]

Ranked ==
  CASE query.mode = "vector" -> query.vector
    [] query.mode = "keyword" -> query.keyword
    [] OTHER -> Fused(query.vector, query.keyword)

Top(s) == SubSeq(s, 1, IF Len(s) < TopK THEN Len(s) ELSE TopK)

\* The results; a search for passages looks around each of them, still to do.
RankResults ==
  /\ query.at = "rank"
  /\ Search([query EXCEPT !.results = Top(Ranked), !.at = IF Fulltext THEN "context" ELSE "done"])

\* The neighbours of every hit, from the chunks the item has by now; the text
\* of the hit itself is the one in its metadata.
Context ==
  /\ query.at = "context"
  /\ Search([query EXCEPT !.at = "done",
       !.results = [n \in DOMAIN query.results |->
          [hit |-> query.results[n], around |-> store[query.results[n].item].version]]])

\* A sync or a pipeline stores another text of an item, or a retagged item.
Reindex ==
  /\ changes < Changes /\ changes' = changes + 1 /\ query.at # "done"
  /\ \E i \in Parents, n \in 0 .. ChunkBound, t \in BOOLEAN :
       /\ store' = [store EXCEPT ![i] = [version |-> @.version + 1, chunks |-> n, tag |-> t]]
       /\ tagged' = IF t THEN tagged \cup {i} ELSE tagged \ {i}
  /\ UNCHANGED query

RankNext == Filter \/ VectorQuery \/ KeywordQuery \/ RankResults \/ Context \/ Reindex
RankSpec == RankInit /\ [][RankNext]_rankVars

-----------------------------------------------------------------------------

\* Among the hits a contribution of which, with another of them, outweighs any
\* single contribution.
High(hits, i) == Found(hits, i) /\ Rank(hits, i) <= RRFK + 1

\* No item is listed twice although its metadata and its chunks are hits of
\* their own, and of two items in a hybrid result, one that is High in both
\* channels and one that a single channel found, the former comes first,
\* whatever their ranks: a fused entry keeps both contributions.
RankingIsRight ==
  query.at \in {"context", "done"} /\ ~(query.at = "done" /\ Fulltext) =>
    LET r == query.results IN
    \A m, n \in DOMAIN r : m < n =>
      /\ r[m].item # r[n].item
      /\ query.mode = "hybrid" /\ High(query.vector, r[n].item) /\ High(query.keyword, r[n].item)
           => Found(query.vector, r[m].item) /\ Found(query.keyword, r[m].item)
=============================================================================
