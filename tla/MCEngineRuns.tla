---------------------------- MODULE MCEngineRuns ----------------------------
(* The runs of the engine over a book, the calls of its threads to a           *)
(* provider, and what is made of the answers in a chapter, each from initial   *)
(* states of its own.                                                         *)
EXTENDS TranslationEngine, CredentialPool, ChunkTranslation
VARIABLE part

CONSTANT Parts

\* Cut behind a heading, beside an atom, between blank lines, and (the last)
\* inside a heading.
MCChapters ==
  {<<"#", "w", "n", "n", "w">>, <<"w", "c", "n", "n", "w">>, <<"w", "n", "n", "#", "n">>,
   <<"#", "w", "w", "n", "w">>}

PartsInit == part \in Parts /\ Init /\ PoolInit /\ ChunkInit

PartsNext ==
  /\ UNCHANGED part
  /\ \/ part = "book" /\ Next /\ UNCHANGED <<poolVars, chunkVars>>
     \/ part = "pool" /\ PoolNext /\ UNCHANGED <<vars, chunkVars>>
     \/ part = "chapter" /\ ChunkNext /\ UNCHANGED <<vars, poolVars>>

partsVars == <<part, vars, poolVars, chunkVars>>

\* Threads are scheduled, requests and file operations return, and time passes.
PartsSpec ==
  /\ PartsInit /\ [][PartsNext]_partsVars
  /\ \A e \in Engine, u \in Unit :
       WF_partsVars(part = "book" /\ UnitStep(e, u) /\ UNCHANGED <<part, poolVars, chunkVars>>)
  /\ \A e \in Engine :
       WF_partsVars(part = "book" /\ Gather(e) /\ UNCHANGED <<part, poolVars, chunkVars>>)
  /\ \A c \in Caller :
       WF_partsVars(part = "pool" /\ CallStep(c) /\ UNCHANGED <<part, vars, chunkVars>>)
  /\ WF_partsVars(part = "pool" /\ Tick /\ UNCHANGED <<part, vars, chunkVars>>)

\* The calls of all threads together respect the keys they share (see
\* CredentialPool), and what is made of the answers keeps the chapter, by
\* checks that compute what they are for (ChunkTranslation, CandidateChecks).
CallsAreRight ==
  []RequestsAreBounded /\ ParkedKeysRest /\ []ChapterKeepsShape /\ []ChecksAreRight

\* Every run of the engine ends, and every call of a thread.
WorkEnds == RunEnds /\ CallsEnd
=============================================================================
