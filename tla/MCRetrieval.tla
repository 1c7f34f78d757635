----------------------------- MODULE MCRetrieval -----------------------------
(***************************************************************************)
(* The two chunked retrievals, side by side: the lightning indexer over a  *)
(* compressed history, and the readers of a global memory.                 *)
(*                                                                         *)
(* Histories of ratio 2: none, one entry, chunks that are one sub-chunk,   *)
(* less, more and not a multiple of it; queries before, at and after the   *)
(* end of a group, in one block and in two.  Of the scores one is negative *)
(* and equal scores occur everywhere.  Memories of one to four positions   *)
(* over three contents, so that equal scores occur; one query or two, one  *)
(* row or two.                                                             *)
(***************************************************************************)
EXTENDS LightningIndexer, GlobalMemory

VARIABLE part  \* which of the two this behaviour is of; the other one stays as it began

MCNegInf == -9
MCScores == {-1, 0, 1}

Call(positions, queries) == [positions |-> positions, queries |-> queries]

MCInputs ==
  {Call(<<>>, <<0, 1, 2>>),
   Call(<<<<1>>>>, <<0, 1, 2>>),
   Call(<<<<1, 3>>, <<5>>>>, <<4, 5, 6>>),
   Call(<<<<1, 3, 5>>, <<7>>>>, <<7>>),
   Call(<<<<1>>, <<3>>, <<5, 7>>>>, <<6>>),
   Call(<<<<1, 3>>, <<5, 7, 9>>>>, <<9>>),
   Call(<<<<1, 3, 5, 7>>>>, <<4, 8>>)}

MCCadences ==
  {<<"full", "reuse", "reindex", "reuse">>, <<"reuse", "full", "reindex">>,
   <<"reindex", "full">>}

\* "x" and "y" prefer opposite contents, and a layer may prefer what an earlier one did not
MCAffinity ==
  [l \in 1 .. 4 |->
     "x" :> ("p" :> 2 @@ "q" :> (l % 2) @@ "r" :> 0)
     @@ "y" :> ("p" :> 2 * (l \div 3) @@ "q" :> 1 @@ "r" :> (l % 3))]

MCCoarse ==
  "x" :> ("p" :> 1 @@ "q" :> 1 @@ "r" :> 0) @@ "y" :> ("p" :> 0 @@ "q" :> 2 @@ "r" :> 1)

MCFine ==
  "x" :> ("p" :> 1 @@ "q" :> 2 @@ "r" :> 2) @@ "y" :> ("p" :> 0 @@ "q" :> 1 @@ "r" :> 2)

One(hidden, memory) == [hidden |-> <<hidden>>, memory |-> <<memory>>]

MCCalls ==
  {One(h, m) : h \in {<<"x">>, <<"y", "x">>},
               m \in {<<"q">>, <<"r", "p", "p">>, <<"q", "q", "q">>, <<"r", "r", "q", "p">>}}
  \cup {[hidden |-> <<<<"x">>, <<"y">>>>, memory |-> <<<<"r", "q", "r">>, <<"p", "q", "p">>>>]}

MCIndexPools == {[pool |-> 3, top |-> 2], [pool |-> 4, top |-> 2]}

RetrievalInit ==
  /\ IndexerInit
  /\ Init
  /\ \/ /\ part = "indexer"
        /\ cadence = <<"reindex", "full">> /\ chunk = 1
     \/ /\ part = "memory"
        /\ input = Call(<<>>, <<0, 1, 2>>)

RetrievalNext ==
  /\ \/ part = "indexer" /\ IndexerNext /\ UNCHANGED vars
     \/ part = "memory" /\ Next /\ UNCHANGED indexerVars
  /\ UNCHANGED part

RetrievalSpec == RetrievalInit /\ [][RetrievalNext]_<<vars, indexerVars, part>>

=============================================================================
