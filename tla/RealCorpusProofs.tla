-------------------------- MODULE RealCorpusProofs --------------------------
(***************************************************************************)
(* The governed stream, for every corpus, cycle, block and batch length:   *)
(* its composition, that no token is lost or repeated, that no text is     *)
(* used twice, and that a position trained again gets the same token, over *)
(* any number of launches, resumes and faults.                             *)
(***************************************************************************)
EXTENDS RealCorpus, DataLemmas

-----------------------------------------------------------------------------
(* Slots                                                                   *)

LEMMA SourceTyped == ASSUME NEW n \in Nat PROVE SourceAt(n) \in Sources
<1>1. PICK m \in Nat \ {0} : m = Len(Cycle) /\ \A i \in 1 .. m : Cycle[i] \in Sources
  BY CycleAssumption
<1>2. BlockTokens \in Nat \ {0}
  BY LengthAssumption
<1>3. PICK q \in Nat : q = n \div BlockTokens
  BY <1>2, DivMod
<1>4. (q % m) + 1 \in 1 .. m
  OBVIOUS
<1> QED BY <1>1, <1>3, <1>4 DEF SourceAt

\* The positions up to the end of a block have one source.
LEMMA SameBlock ==
  ASSUME NEW a \in Nat, NEW j \in Nat, j < BlockTokens - (a % BlockTokens)
  PROVE  SourceAt(a + j) = SourceAt(a)
<1>1. PICK b \in Nat \ {0} : b = BlockTokens
  BY LengthAssumption
<1>2. PICK q \in Nat, r \in 0 .. b - 1 : q = a \div b /\ r = a % b /\ a = q * b + r
  BY DivMod
<1>3. j < b - r
  BY <1>1, <1>2
<1>4. q * b <= a + j /\ a + j < (q + 1) * b
  BY <1>2, <1>3
<1>5. (a + j) \div b = q
  BY <1>4, DivUnique
<1> QED BY <1>1, <1>2, <1>5 DEF SourceAt

LEMMA Remaining == ASSUME NEW a \in Nat PROVE BlockTokens - (a % BlockTokens) \in Nat \ {0}
<1>1. PICK b \in Nat \ {0} : b = BlockTokens
  BY LengthAssumption
<1>2. a % b \in 0 .. b - 1
  BY DivMod
<1> QED BY <1>1, <1>2

-----------------------------------------------------------------------------
(* The tokens of a source                                                  *)

Token == [source : Sources, row : Nat, k : Nat, sample : Nat]
Row == [source : Sources, row : Nat]

LEMMA EncodedTyped ==
  ASSUME rows \in Corpora, NEW s \in Sources, NEW r \in DOMAIN rows[s], r \in Nat, NEW n \in Nat
  PROVE  /\ Encoded(s, r, n) \in Seq(Token)
         /\ \A i \in DOMAIN Encoded(s, r, n) : Encoded(s, r, n)[i].source = s
<1>1. PICK m \in Nat : m = rows[s][r].tokens
  BY CorporaAssumption DEF Range
<1>2. Encoded(s, r, n) = [k \in 1 .. m |-> [source |-> s, row |-> r, k |-> k, sample |-> n]]
  BY <1>1 DEF Encoded
<1>3. \A k \in 1 .. m : [source |-> s, row |-> r, k |-> k, sample |-> n] \in Token
  BY DEF Token
<1>4. Encoded(s, r, n) \in [1 .. m -> Token]
  BY ONLY <1>2, <1>3, Zenon
<1>5. Encoded(s, r, n) \in Seq(Token)
  BY <1>4
<1>6. \A k \in 1 .. m : Encoded(s, r, n)[k].source = s
  BY <1>2
<1> QED BY <1>4, <1>5, <1>6

Mine(s, t) == IF t.source = s THEN <<t>> ELSE <<>>

LEMMA MineTyped == ASSUME NEW s, NEW t \in Token PROVE Mine(s, t) \in Seq(Token)
BY DEF Mine

\* OfSource takes one token more.
LEMMA OfSourceLast ==
  ASSUME NEW s, NEW tokens \in Seq(Token), NEW t \in Token
  PROVE  OfSource(s, Append(tokens, t)) = OfSource(s, tokens) \o Mine(s, t)
<1>1. PICK n \in Nat : n = Len(tokens) /\ DOMAIN tokens = 1 .. n
  OBVIOUS
<1>2. PICK more \in Seq(Token) :
        /\ more = Append(tokens, t) /\ DOMAIN more = 1 .. n + 1 /\ more[n + 1] = t
        /\ \A i \in 1 .. n : more[i] = tokens[i]
  <2>1. PICK more \in Seq(Token) : more = Append(tokens, t)
    <3>1. Append(tokens, t) \in Seq(Token)
      OBVIOUS
    <3> QED BY <3>1
  <2>2. DOMAIN more = 1 .. n + 1 /\ more[n + 1] = t /\ \A i \in 1 .. n : more[i] = tokens[i]
    BY <1>1, <2>1
  <2> QED BY <2>1, <2>2
<1> DEFINE front == [i \in 1 .. n |-> Mine(s, tokens[i])]
           seqs == [i \in 1 .. n + 1 |-> Mine(s, more[i])]
<1>3. FrontOf(Token, front, seqs, n)
  <2>1. Len(seqs) = n + 1 /\ Len(front) = n
    OBVIOUS
  <2>2. n = 0 => front = <<>>
    OBVIOUS
  <2>3. ASSUME NEW i \in 1 .. n + 1 PROVE seqs[i] \in Seq(Token)
    BY <1>2, MineTyped
  <2>4. ASSUME NEW i \in 1 .. n PROVE front[i] = seqs[i]
    BY <1>2
  <2> HIDE DEF front, seqs
  <2> QED BY <2>1, <2>2, <2>3, <2>4 DEF FrontOf
<1>4. seqs[n + 1] = Mine(s, t)
  BY <1>2
<1>5. OfSource(s, tokens) = FlattenSeq(front) /\ OfSource(s, more) = FlattenSeq(seqs)
  BY <1>1, <1>2 DEF OfSource, Mine
<1> HIDE DEF front, seqs
<1>6. FlattenSeq(seqs) = FlattenSeq(front) \o seqs[n + 1]
  BY ONLY <1>3, FlattenLast
<1> QED BY ONLY <1>2, <1>4, <1>5, <1>6, Zenon

LEMMA OfSourceTyped ==
  ASSUME NEW s, NEW tokens \in Seq(Token) PROVE OfSource(s, tokens) \in Seq(Token)
<1> DEFINE T == {n \in Nat : \A u \in Seq(Token) : Len(u) = n => OfSource(s, u) \in Seq(Token)}
<1>1. 0 \in T
  <2>1. ASSUME NEW u \in Seq(Token), Len(u) = 0 PROVE OfSource(s, u) \in Seq(Token)
    <3>1. [n \in DOMAIN u |-> IF u[n].source = s THEN <<u[n]>> ELSE <<>>] = <<>>
      BY <2>1
    <3>2. <<>> \in Seq(Token)
      OBVIOUS
    <3> QED BY <3>1, <3>2, FlattenEmpty DEF OfSource
  <2> QED BY <2>1
<1>2. ASSUME NEW n \in Nat, n \in T PROVE n + 1 \in T
  <2>1. ASSUME NEW u \in Seq(Token), Len(u) = n + 1 PROVE OfSource(s, u) \in Seq(Token)
    <3>1. PICK v \in Seq(Token), t \in Token : u = Append(v, t) /\ Len(v) = n
      <4>1. SubSeq(u, 1, n) \in Seq(Token) /\ Len(SubSeq(u, 1, n)) = n /\ u[n + 1] \in Token
        BY <2>1
      <4>2. u = Append(SubSeq(u, 1, n), u[n + 1])
        BY <2>1
      <4> QED BY <4>1, <4>2, Zenon
    <3>2. OfSource(s, v) \in Seq(Token)
      BY <1>2, <3>1
    <3>3. OfSource(s, u) = OfSource(s, v) \o Mine(s, t)
      BY <3>1, OfSourceLast
    <3>4. Mine(s, t) \in Seq(Token)
      BY MineTyped
    <3> QED BY <3>2, <3>3, <3>4
  <2> QED BY <2>1
<1>3. PICK n \in Nat : n = Len(tokens)
  OBVIOUS
<1>4. n \in T
  <2> HIDE DEF T
  <2> QED BY <1>1, <1>2, Induction
<1> QED BY <1>3, <1>4

Gives(s, u) == IF \A i \in DOMAIN u : u[i].source = s THEN u ELSE <<>>
Uniform(s, u) == (\A i \in DOMAIN u : u[i].source = s) \/ (\A i \in DOMAIN u : u[i].source # s)

\* A run of tokens of one source adds all of them to that source and none to another.
LEMMA OfSourceRun ==
  ASSUME NEW s, NEW tokens \in Seq(Token), NEW run \in Seq(Token), Uniform(s, run)
  PROVE  OfSource(s, tokens \o run) = OfSource(s, tokens) \o Gives(s, run)
<1> DEFINE Adds(u) == OfSource(s, tokens \o u) = OfSource(s, tokens) \o Gives(s, u)
           T == {n \in Nat : \A u \in Seq(Token) : Len(u) = n /\ Uniform(s, u) => Adds(u)}
<1>0. OfSource(s, tokens) \in Seq(Token)
  BY OfSourceTyped
<1>1. 0 \in T
  <2>1. ASSUME NEW u \in Seq(Token), Len(u) = 0 PROVE Adds(u)
    <3>1. u = <<>> /\ Gives(s, u) = <<>>
      BY <2>1 DEF Gives
    <3>2. tokens \o <<>> = tokens /\ OfSource(s, tokens) \o <<>> = OfSource(s, tokens)
      BY <1>0
    <3> QED BY <3>1, <3>2
  <2> QED BY <2>1
<1>2. ASSUME NEW n \in Nat, n \in T PROVE n + 1 \in T
  <2>1. ASSUME NEW u \in Seq(Token), Len(u) = n + 1, Uniform(s, u) PROVE Adds(u)
    <3>1. PICK v \in Seq(Token), t \in Token : u = Append(v, t) /\ Len(v) = n
      <4>1. SubSeq(u, 1, n) \in Seq(Token) /\ Len(SubSeq(u, 1, n)) = n /\ u[n + 1] \in Token
        BY <2>1
      <4>2. u = Append(SubSeq(u, 1, n), u[n + 1])
        BY <2>1
      <4> QED BY <4>1, <4>2, Zenon
    <3>2. /\ DOMAIN u = 1 .. n + 1 /\ DOMAIN v = 1 .. n /\ u[n + 1] = t
          /\ \A i \in 1 .. n : u[i] = v[i]
      BY <3>1
    <3>3. Uniform(s, v)
      BY <2>1, <3>2 DEF Uniform
    <3>4. Adds(v)
      BY <1>2, <3>1, <3>3
    <3>5. PICK w \in Seq(Token) : w = tokens \o v
      <4>1. tokens \o v \in Seq(Token)
        BY ConcatPieces
      <4> QED BY <4>1
    <3>6. tokens \o u = Append(w, t)
      BY <3>1, <3>5
    <3>7. OfSource(s, Append(w, t)) = OfSource(s, w) \o Mine(s, t)
      BY OfSourceLast
    <3>8. Gives(s, u) = Gives(s, v) \o Mine(s, t) /\ Gives(s, v) \in Seq(Token) /\ Mine(s, t) \in Seq(Token)
      <4>1. CASE \A i \in DOMAIN u : u[i].source = s
        <5>1. Gives(s, u) = u /\ Gives(s, v) = v /\ Mine(s, t) = <<t>>
          BY <3>2, <4>1 DEF Gives, Mine
        <5>2. u = v \o <<t>>
          BY <3>1
        <5> QED BY <5>1, <5>2
      <4>2. CASE \A i \in DOMAIN u : u[i].source # s
        <5>1. n + 1 \in DOMAIN u /\ t.source # s
          <6>1. n + 1 \in 1 .. n + 1
            OBVIOUS
          <6> QED BY ONLY <3>2, <4>2, <6>1, Zenon
        <5>2. Gives(s, u) = <<>> /\ Mine(s, t) = <<>>
          BY <4>2, <5>1 DEF Gives, Mine
        <5>3. Gives(s, v) = <<>>
          <6>1. CASE n = 0
            BY <3>1, <6>1 DEF Gives
          <6>2. CASE n # 0
            <7>1. 1 \in DOMAIN v /\ v[1].source # s
              <8>1. 1 \in 1 .. n /\ 1 \in 1 .. n + 1
                BY <6>2
              <8> QED BY ONLY <3>2, <4>2, <8>1, Zenon
            <7> QED BY <7>1 DEF Gives
          <6> QED BY <6>1, <6>2
        <5> QED BY <5>2, <5>3
      <4> QED BY <2>1, <4>1, <4>2 DEF Uniform
    <3>9. OfSource(s, w) = OfSource(s, tokens) \o Gives(s, v)
      BY <3>4, <3>5
    <3>10. (OfSource(s, tokens) \o Gives(s, v)) \o Mine(s, t) = OfSource(s, tokens) \o (Gives(s, v) \o Mine(s, t))
      BY <1>0, <3>8
    <3> QED BY ONLY <3>6, <3>7, <3>8, <3>9, <3>10, Zenon DEF Adds
  <2> HIDE DEF Adds
  <2> QED BY <2>1
<1>3. PICK n \in Nat : n = Len(run)
  OBVIOUS
<1>4. n \in T
  <2> HIDE DEF T
  <2> QED BY <1>1, <1>2, Induction
<1> HIDE DEF Adds
<1>5. Adds(run)
  BY <1>3, <1>4
<1> QED BY <1>5 DEF Adds

-----------------------------------------------------------------------------
(* The invariant                                                           *)

\* A corpus, live or in a checkpoint: its parts fit together, every token has the
\* source of its position, or of its buffer.
CorpusOK(d) ==
  /\ d.cursors \in [Sources -> Nat]
  /\ d.accepted \in Nat /\ d.cursor \in Nat
  /\ d.taken \in Seq(Row) /\ d.accepted <= Len(d.taken)
  /\ d.buffers \in [Sources -> Seq(Token)]
  /\ \A s \in Sources : \A i \in DOMAIN d.buffers[s] : d.buffers[s][i].source = s
  /\ d.delivered \in Seq(Token) /\ Len(d.delivered) = d.cursor
  /\ \A n \in 1 .. d.cursor : d.delivered[n].source = SourceAt(n - 1)

\* The index has the texts of the rows taken, which are all different.
Text(R, x) == R[x.source][x.row].text
Fresh(R, d) ==
  /\ \A i \in DOMAIN d.taken : d.taken[i].row \in DOMAIN R[d.taken[i].source]
  /\ d.index = {Text(R, d.taken[i]) : i \in DOMAIN d.taken}
  /\ \A i, j \in DOMAIN d.taken :
       i < j => <<Text(R, d.taken[i]), Text(R, d.taken[j])>> \notin Similar

\* Each source has handed out, or holds, the tokens of the rows taken from it.
TokensOf(R, s, r, n) ==
  [k \in 1 .. R[s][r].tokens |-> [source |-> s, row |-> r, k |-> k, sample |-> n]]
RowTokens(R, s, x, n) == IF x.source = s THEN TokensOf(R, s, x.row, n) ELSE <<>>
Accepted(d, i) == d.taken[(Len(d.taken) - d.accepted) + i]
Encodings(R, d, s) ==
  FlattenSeq([i \in 1 .. d.accepted |-> RowTokens(R, s, Accepted(d, i), i - 1)])
Conserved(R, d, out) ==
  \A s \in Sources : OfSource(s, d.delivered \o out) \o d.buffers[s] = Encodings(R, d, s)

\* A batch under way goes on where the stream is.
BatchOK ==
  /\ want \in Nat /\ output \in Seq(Token)
  /\ pc = "fill" => Len(output) <= want
  /\ pc \in {"train", "validate", "done"} => output = <<>>
  /\ \A n \in 1 .. Len(output) : output[n].source = SourceAt(cursor + (n - 1))

SavedOK ==
  saved # NONE =>
    /\ saved.trained \in Nat
    /\ CorpusOK(saved.corpus) /\ Fresh(rows, saved.corpus) /\ Conserved(rows, saved.corpus, <<>>)

StreamInv ==
  /\ rows \in Corpora /\ trained \in Nat
  /\ pc \in {"down", "train", "fill", "validate", "done"}
  /\ BatchOK
  /\ CorpusOK(StateDict) /\ Fresh(rows, StateDict)
  /\ pc # "down" => Conserved(rows, StateDict, output)
  /\ SavedOK

\* A new corpus, or one reset for evaluation that still knows the texts taken.
LEMMA EmptyCorpus ==
  ASSUME NEW d, d.cursors = NewState.cursors, d.accepted = 0, d.buffers = NewState.buffers,
         d.cursor = 0, d.delivered = <<>>, d.taken \in Seq(Row)
  PROVE  CorpusOK(d) /\ Conserved(rows, d, <<>>)
<1>1. <<>> \in Seq(Token) /\ Len(<<>>) = 0 /\ DOMAIN <<>> = {} /\ Len(d.taken) \in Nat
  OBVIOUS
<1>2. d.buffers = [s \in Sources |-> <<>>] /\ d.cursors = [s \in Sources |-> 0]
  BY DEF NewState
<1>3. CorpusOK(d)
  BY <1>1, <1>2 DEF CorpusOK
<1>4. ASSUME NEW s \in Sources PROVE OfSource(s, d.delivered \o <<>>) \o d.buffers[s] = Encodings(rows, d, s)
  <2>1. d.delivered \o <<>> = <<>> /\ d.buffers[s] = <<>>
    BY <1>2
  <2>2. OfSource(s, <<>>) = <<>>
    <3>1. [n \in DOMAIN <<>> |-> IF <<>>[n].source = s THEN <<<<>>[n]>> ELSE <<>>] = <<>>
      OBVIOUS
    <3> QED BY <3>1, FlattenEmpty DEF OfSource
  <2>3. Encodings(rows, d, s) = <<>>
    <3>1. [i \in 1 .. d.accepted |-> RowTokens(rows, s, Accepted(d, i), i - 1)] = <<>>
      OBVIOUS
    <3> QED BY <3>1, FlattenEmpty DEF Encodings
  <2> QED BY <2>1, <2>2, <2>3
<1> QED BY <1>3, <1>4 DEF Conserved

LEMMA StreamInitial == Init => StreamInv
<1> SUFFICES ASSUME Init PROVE StreamInv
  OBVIOUS
<1> USE DEF Init
<1>1. /\ StateDict.cursors = NewState.cursors /\ StateDict.accepted = 0
      /\ StateDict.buffers = NewState.buffers /\ StateDict.cursor = 0
      /\ StateDict.delivered = <<>> /\ StateDict.taken = <<>> /\ StateDict.index = {}
  BY DEF StateDict
<1>2. <<>> \in Seq(Row) /\ <<>> \in Seq(Token) /\ DOMAIN <<>> = {}
  OBVIOUS
<1>3. CorpusOK(StateDict) /\ Conserved(rows, StateDict, <<>>)
  BY <1>1, <1>2, EmptyCorpus
<1>4. Fresh(rows, StateDict)
  BY <1>1, <1>2 DEF Fresh
<1>5. BatchOK
  BY <1>2 DEF BatchOK
<1> QED BY <1>3, <1>4, <1>5 DEF StreamInv, SavedOK

\* A corpus with the parts of d.
SameParts(d) ==
  /\ cursors' = d.cursors /\ index' = d.index /\ accepted' = d.accepted
  /\ buffers' = d.buffers /\ cursor' = d.cursor
  /\ delivered' = d.delivered /\ taken' = d.taken

LEMMA LoadsParts ==
  ASSUME NEW d, CorpusOK(d), Fresh(rows, d), rows' = rows, SameParts(d)
  PROVE  /\ CorpusOK(StateDict)' /\ Fresh(rows, StateDict)'
         /\ \A out : Conserved(rows, d, out) => Conserved(rows', StateDict', out)
<1>1. /\ StateDict'.cursors = d.cursors /\ StateDict'.index = d.index
      /\ StateDict'.accepted = d.accepted /\ StateDict'.buffers = d.buffers
      /\ StateDict'.cursor = d.cursor /\ StateDict'.delivered = d.delivered
      /\ StateDict'.taken = d.taken
  BY DEF StateDict, SameParts
<1>2. PICK e : e = StateDict'
  OBVIOUS
<1>3. CorpusOK(e)
  BY <1>1, <1>2 DEF CorpusOK
<1>4. Fresh(rows, e)
  BY <1>1, <1>2 DEF Fresh
<1>5. \A out : Conserved(rows, d, out) => Conserved(rows, e, out)
  BY <1>1, <1>2, Zenon DEF Conserved, Encodings, Accepted
<1> QED BY <1>2, <1>3, <1>4, <1>5

LEMMA SameStateDict ==
  ASSUME UNCHANGED corpus PROVE StateDict' = StateDict /\ SameParts(StateDict)
BY DEF corpus, StateDict, SameParts

LEMMA LaunchKeeps == ASSUME StreamInv, Launch PROVE StreamInv'
<1> USE DEF StreamInv
<1>1. /\ rows' = rows /\ saved' = saved /\ pc' = "train" /\ want' = 0 /\ output' = <<>>
  BY DEF Launch
<1>2. SavedOK'
  BY <1>1 DEF SavedOK
<1>3. BatchOK'
  <2>1. <<>> \in Seq(Token) /\ Len(<<>>) = 0
    OBVIOUS
  <2> QED BY <1>1, <2>1 DEF BatchOK
<1>4. PICK d : /\ CorpusOK(d) /\ Fresh(rows, d) /\ Conserved(rows, d, <<>>)
               /\ SameParts(d) /\ trained' \in Nat
  <2>1. CASE saved = NONE
    <3>1. SameParts(NewState) /\ trained' = 0
      BY <2>1 DEF Launch, LoadStateDict, SameParts
    <3>2. <<>> \in Seq(Row) /\ DOMAIN <<>> = {}
      OBVIOUS
    <3>3. CorpusOK(NewState) /\ Conserved(rows, NewState, <<>>)
      <4>1. /\ NewState.accepted = 0 /\ NewState.cursor = 0 /\ NewState.delivered = <<>>
            /\ NewState.taken = <<>>
        BY DEF NewState
      <4> QED BY <3>2, <4>1, EmptyCorpus
    <3>4. Fresh(rows, NewState)
      BY <3>2 DEF Fresh, NewState
    <3> QED BY <3>1, <3>3, <3>4
  <2>2. CASE saved # NONE
    <3>1. SameParts(saved.corpus) /\ trained' = saved.trained
      BY <2>2 DEF Launch, LoadStateDict, SameParts
    <3> QED BY <2>2, <3>1 DEF SavedOK
  <2> QED BY <2>1, <2>2
<1>5. CorpusOK(StateDict)' /\ Fresh(rows, StateDict)' /\ Conserved(rows', StateDict', <<>>)
  BY <1>1, <1>4, LoadsParts
<1> QED BY <1>1, <1>2, <1>3, <1>4, <1>5

\* A request for a batch; want is a length.
LEMMA RequestKeeps ==
  ASSUME StreamInv, NEW at, NEW n \in Nat, NEW s, Request(at, n, s), pc \in {"train", "validate"}
  PROVE  StreamInv'
<1> USE DEF StreamInv
<1>1. /\ rows' = rows /\ saved' = saved /\ trained' = trained /\ UNCHANGED corpus
      /\ want' = n /\ output' = <<>> /\ pc' \in {"down", "fill"}
  BY DEF Request
<1>2. output = <<>>
  BY DEF BatchOK
<1>3. StateDict' = StateDict /\ SameParts(StateDict)
  BY <1>1, SameStateDict
<1>4. CorpusOK(StateDict)' /\ Fresh(rows, StateDict)' /\ Conserved(rows, StateDict, output)'
  BY <1>1, <1>2, <1>3, LoadsParts
<1>5. BatchOK'
  <2>1. <<>> \in Seq(Token) /\ Len(<<>>) = 0
    OBVIOUS
  <2> QED BY <1>1, <2>1 DEF BatchOK
<1>6. SavedOK'
  BY <1>1 DEF SavedOK
<1> QED BY <1>1, <1>4, <1>5, <1>6

LEMMA TrainBatchKeeps == ASSUME StreamInv, TrainBatch PROVE StreamInv'
<1>1. TrainLength \in Nat /\ pc = "train"
  BY LengthAssumption DEF TrainBatch, TrainLength, Least, StreamInv
<1>2. Request(trained, TrainLength, "train")
  BY DEF TrainBatch
<1> QED BY <1>1, <1>2, RequestKeeps

LEMMA ValidationBatchKeeps == ASSUME StreamInv, ValidationBatch PROVE StreamInv'
<1>1. SequenceLength \in Nat /\ pc = "validate"
  BY LengthAssumption DEF ValidationBatch
<1>2. Request(cursor, SequenceLength, "architecture_validation")
  BY DEF ValidationBatch
<1> QED BY <1>1, <1>2, RequestKeeps

LEMMA EvaluateKeeps == ASSUME StreamInv, Evaluate PROVE StreamInv'
<1> USE DEF StreamInv
<1>1. /\ rows' = rows /\ saved' = saved /\ trained' = trained /\ want' = want /\ output' = output
      /\ pc' = "validate" /\ cursors' = NewState.cursors /\ buffers' = NewState.buffers
      /\ index' = index /\ taken' = taken /\ accepted' = 0 /\ cursor' = 0 /\ delivered' = <<>>
      /\ output = <<>>
  BY DEF Evaluate, BatchOK
<1>2. PICK e : e = StateDict'
  OBVIOUS
<1>3. /\ e.cursors = NewState.cursors /\ e.accepted = 0 /\ e.buffers = NewState.buffers
      /\ e.cursor = 0 /\ e.delivered = <<>> /\ e.taken = taken /\ e.index = index
  BY <1>1, <1>2 DEF StateDict
<1>4. taken \in Seq(Row)
  BY DEF CorpusOK, StateDict
<1>5. CorpusOK(e) /\ Conserved(rows, e, <<>>)
  BY <1>3, <1>4, EmptyCorpus
<1>6. Fresh(rows, e)
  BY <1>3 DEF Fresh, StateDict
<1>7. BatchOK'
  <2>1. <<>> \in Seq(Token) /\ Len(<<>>) = 0
    OBVIOUS
  <2> QED BY <1>1, <2>1 DEF BatchOK
<1>8. SavedOK'
  BY <1>1 DEF SavedOK
<1> QED BY <1>1, <1>2, <1>5, <1>6, <1>7, <1>8

LEMMA CheckpointKeeps ==
  ASSUME StreamInv, rows' = rows, UNCHANGED <<corpus, output, trained, want>>,
         pc \in {"train", "validate"}, pc' \in {pc, "done", "down"},
         saved' \in {saved, [trained |-> trained, corpus |-> StateDict]}
  PROVE  StreamInv'
<1> USE DEF StreamInv
<1>1. output = <<>>
  BY DEF BatchOK
<1>2. SameParts(StateDict) /\ StateDict' = StateDict /\ cursor' = cursor
  BY SameStateDict DEF corpus
<1>3. CorpusOK(StateDict)' /\ Fresh(rows, StateDict)' /\ Conserved(rows, StateDict, output)'
  BY <1>2, LoadsParts
<1>4. BatchOK'
  BY <1>1, <1>2 DEF BatchOK
<1>5. SavedOK'
  <2>1. CASE saved' = saved
    BY <2>1 DEF SavedOK
  <2>2. CASE saved' = [trained |-> trained, corpus |-> StateDict]
    <3>1. saved'.trained = trained /\ saved'.corpus = StateDict
      BY <2>2
    <3>2. Conserved(rows, StateDict, <<>>)
      BY <1>1
    <3> QED BY <3>1, <3>2 DEF SavedOK
  <2> QED BY <2>1, <2>2
<1> QED BY <1>3, <1>4, <1>5

LEMMA DieKeeps == ASSUME StreamInv, Die PROVE StreamInv'
<1> USE DEF StreamInv
<1>1. /\ rows' = rows /\ saved' = saved /\ UNCHANGED <<corpus, output, trained, want>> /\ pc' = "down"
  BY DEF Die
<1>2. SameParts(StateDict) /\ StateDict' = StateDict /\ cursor' = cursor
  BY <1>1, SameStateDict DEF corpus
<1>3. CorpusOK(StateDict)' /\ Fresh(rows, StateDict)'
  BY <1>1, <1>2, LoadsParts
<1>4. BatchOK' /\ SavedOK'
  BY <1>1, <1>2 DEF BatchOK, SavedOK
<1> QED BY <1>1, <1>3, <1>4

\* A whole batch joins what was delivered.
LEMMA EndBatchKeeps == ASSUME StreamInv, EndBatch PROVE StreamInv'
<1> USE DEF StreamInv
<1>1. /\ pc = "fill" /\ Len(output) >= want /\ rows' = rows /\ saved' = saved
      /\ cursors' = cursors /\ index' = index /\ accepted' = accepted /\ buffers' = buffers
      /\ taken' = taken /\ cursor' = cursor + want /\ delivered' = delivered \o output
      /\ output' = <<>> /\ want' = 0 /\ pc' \in {"train", "validate"}
      /\ trained' \in {trained, trained + want}
  BY DEF EndBatch
<1>2. output \in Seq(Token) /\ want \in Nat /\ Len(output) = want
      /\ \A n \in 1 .. want : output[n].source = SourceAt(cursor + (n - 1))
  BY <1>1 DEF BatchOK
<1>3. trained' \in Nat
  BY <1>1, <1>2
<1>4. PICK e : e = StateDict'
  OBVIOUS
<1>5. /\ e.cursors = cursors /\ e.accepted = accepted /\ e.buffers = buffers /\ e.taken = taken
      /\ e.index = index /\ e.cursor = cursor + want /\ e.delivered = delivered \o output
  BY <1>1, <1>4 DEF StateDict
<1>6. /\ delivered \in Seq(Token) /\ cursor \in Nat /\ Len(delivered) = cursor
      /\ \A n \in 1 .. cursor : delivered[n].source = SourceAt(n - 1)
  BY DEF CorpusOK, StateDict
<1>7. e.delivered \in Seq(Token) /\ Len(e.delivered) = e.cursor /\ e.cursor \in Nat
  <2>0. delivered \in Seq(Token) /\ output \in Seq(Token)
    BY <1>2, <1>6
  <2>1. delivered \o output \in Seq(Token) /\ Len(delivered \o output) = Len(delivered) + Len(output)
    BY ONLY <2>0, ConcatPieces, Zenon
  <2>2. cursor + want \in Nat
    BY <1>2, <1>6
  <2> QED BY ONLY <1>2, <1>5, <1>6, <2>1, <2>2, Zenon
<1>8. ASSUME NEW n \in 1 .. e.cursor PROVE e.delivered[n].source = SourceAt(n - 1)
  <2>1. CASE n <= cursor
    <3>1. n \in 1 .. cursor /\ (delivered \o output)[n] = delivered[n]
      BY <1>2, <1>5, <1>6, <2>1
    <3> QED BY <1>5, <1>6, <3>1
  <2>2. CASE n > cursor
    <3>1. PICK m \in 1 .. want : m = n - cursor
      BY <1>2, <1>5, <1>6, <2>2
    <3>2. (delivered \o output)[n] = output[m] /\ cursor + (m - 1) = n - 1
      <4>1. n = Len(delivered) + m /\ cursor + (m - 1) = n - 1
        BY <1>2, <1>5, <1>6, <3>1
      <4>2. (delivered \o output)[Len(delivered) + m] = output[m]
        BY <1>2, <1>6, ConcatElements
      <4> QED BY <4>1, <4>2
    <3> QED BY <1>2, <1>5, <3>1, <3>2
  <2> QED BY <1>2, <1>6, <2>1, <2>2
<1>9. CorpusOK(e)
  BY <1>5, <1>7, <1>8 DEF CorpusOK, StateDict
<1>10. Fresh(rows, e)
  BY <1>5 DEF Fresh, StateDict
<1>11. Conserved(rows, e, <<>>)
  <2>1. e.delivered \o <<>> = delivered \o output
    BY <1>2, <1>5, <1>6
  <2>2. Conserved(rows, StateDict, output)
    BY <1>1
  <2>3. \A s : Encodings(rows, e, s) = Encodings(rows, StateDict, s)
    BY <1>5, Zenon DEF Encodings, Accepted, StateDict
  <2>4. StateDict.delivered = delivered /\ StateDict.buffers = buffers
    BY DEF StateDict
  <2> QED BY ONLY <1>5, <2>1, <2>2, <2>3, <2>4, Zenon DEF Conserved
<1>12. BatchOK'
  <2>1. <<>> \in Seq(Token) /\ Len(<<>>) = 0
    OBVIOUS
  <2> QED BY <1>1, <2>1 DEF BatchOK
<1>13. SavedOK'
  BY <1>1 DEF SavedOK
<1> QED BY <1>1, <1>3, <1>4, <1>9, <1>10, <1>11, <1>12, <1>13

-----------------------------------------------------------------------------
(* Filling a batch                                                         *)

\* What a batch under way knows of its place.
LEMMA Filling ==
  ASSUME StreamInv, Short
  PROVE  /\ want \in Nat /\ output \in Seq(Token) /\ Len(output) < want /\ pc = "fill"
         /\ Absolute \in Nat /\ Current \in Sources
         /\ Buffer \in Seq(Token) /\ \A i \in DOMAIN Buffer : Buffer[i].source = Current
<1> USE DEF StreamInv
<1>1. want \in Nat /\ output \in Seq(Token) /\ Len(output) < want /\ pc = "fill"
  BY DEF Short, BatchOK
<1>2. cursor \in Nat /\ Len(output) \in Nat
  BY <1>1 DEF CorpusOK, StateDict
<1>3. Absolute \in Nat
  BY <1>2 DEF Absolute
<1>4. Current \in Sources
  BY <1>3, SourceTyped DEF Current
<1>5. /\ buffers \in [Sources -> Seq(Token)]
      /\ \A s \in Sources : \A i \in DOMAIN buffers[s] : buffers[s][i].source = s
  BY DEF CorpusOK, StateDict
<1> QED BY <1>1, <1>3, <1>4, <1>5 DEF Buffer

LEMMA TakeKeeps == ASSUME StreamInv, Take PROVE StreamInv'
<1> USE DEF StreamInv
<1> DEFINE n == Least(Least(want - Len(output), BlockRemaining), Len(Buffer))
           piece == SubSeq(Buffer, 1, n)
           rest == SubSeq(Buffer, n + 1, Len(Buffer))
<1>1. /\ Short /\ rows' = rows /\ saved' = saved /\ trained' = trained /\ pc' = pc
      /\ cursors' = cursors /\ index' = index /\ accepted' = accepted
      /\ taken' = taken /\ cursor' = cursor /\ delivered' = delivered /\ want' = want
      /\ output' = output \o piece /\ buffers' = [buffers EXCEPT ![Current] = rest]
  BY DEF Take
<1>2. /\ want \in Nat /\ output \in Seq(Token) /\ Len(output) < want /\ pc = "fill"
      /\ Absolute \in Nat /\ Current \in Sources
      /\ Buffer \in Seq(Token) /\ \A i \in DOMAIN Buffer : Buffer[i].source = Current
  BY <1>1, Filling
<1>3. PICK k \in Nat : k = n /\ k <= want - Len(output) /\ k <= BlockRemaining /\ k <= Len(Buffer)
  <2>1. BlockRemaining \in Nat
    BY <1>2, Remaining DEF BlockRemaining
  <2>2. Len(output) \in Nat /\ Len(Buffer) \in Nat
    BY <1>2
  <2>3. n \in Nat /\ n <= want - Len(output) /\ n <= BlockRemaining /\ n <= Len(Buffer)
    BY <1>2, <2>1, <2>2 DEF Least
  <2> QED BY <2>3
<1>4. /\ piece \in Seq(Token) /\ Len(piece) = k /\ rest \in Seq(Token) /\ Buffer = piece \o rest
      /\ \A i \in 1 .. k : piece[i].source = Current
      /\ \A i \in DOMAIN rest : rest[i].source = Current
  <2>1. PICK b \in Seq(Token) : b = Buffer
    BY <1>2
  <2>2. PICK t \in Seq(Token), u \in Seq(Token) :
          /\ t = SubSeq(b, 1, k) /\ u = SubSeq(b, k + 1, Len(b))
          /\ Len(t) = k /\ b = t \o u
          /\ \A i \in 1 .. k : t[i] = b[i] /\ i \in DOMAIN b
          /\ \A i \in DOMAIN u : u[i] = b[k + i] /\ k + i \in DOMAIN b
    <3>1. b \in Seq(Token) /\ k \in Nat /\ k <= Len(b)
      BY <1>3, <2>1
    <3> QED BY ONLY <3>1, SplitAt, Zenon
  <2>3. piece = t /\ rest = u
    BY ONLY <1>3, <2>1, <2>2, Zenon DEF piece, rest
  <2> QED BY ONLY <1>2, <2>1, <2>2, <2>3, Zenon
<1> HIDE DEF n, piece, rest
<1>5. output' \in Seq(Token) /\ Len(output') = Len(output) + k /\ Len(output') <= want
  <2>0. output \in Seq(Token) /\ piece \in Seq(Token)
    BY <1>2, <1>4
  <2>1. output \o piece \in Seq(Token) /\ Len(output \o piece) = Len(output) + Len(piece)
    BY ONLY <2>0, ConcatPieces, Zenon
  <2> QED BY <1>1, <1>2, <1>3, <1>4, <2>1
<1>6. ASSUME NEW i \in 1 .. Len(output') PROVE output'[i].source = SourceAt(cursor' + (i - 1))
  <2>1. CASE i <= Len(output)
    <3>1. i \in 1 .. Len(output) /\ (output \o piece)[i] = output[i]
      BY <1>2, <1>4, <1>5, <2>1, ConcatElements
    <3> QED BY <1>1, <3>1 DEF BatchOK
  <2>2. CASE i > Len(output)
    <3>1. PICK j \in 1 .. k : j = i - Len(output) /\ i = Len(output) + j
      <4>1. i - Len(output) \in 1 .. k
        BY <1>2, <1>5, <2>2
      <4> QED BY <1>2, <4>1
    <3>2. (output \o piece)[Len(output) + j] = piece[j]
      BY <1>2, <1>4, ConcatElements
    <3>3. piece[j].source = SourceAt(Absolute)
      BY <1>4 DEF Current
    <3>4. SourceAt(Absolute + (j - 1)) = SourceAt(Absolute)
      <4>1. j - 1 \in Nat /\ j - 1 < BlockTokens - (Absolute % BlockTokens)
        BY <1>3, Remaining, <1>2 DEF BlockRemaining
      <4> QED BY <1>2, <4>1, SameBlock
    <3>5. cursor' + (i - 1) = Absolute + (j - 1)
      BY <1>1, <1>2, <3>1 DEF Absolute, CorpusOK, StateDict
    <3> QED BY <1>1, <3>1, <3>2, <3>3, <3>4, <3>5
  <2> QED BY <1>2, <1>5, <2>1, <2>2
<1>7. BatchOK'
  BY <1>1, <1>2, <1>5, <1>6 DEF BatchOK
<1>8. PICK e : e = StateDict'
  OBVIOUS
<1>9. /\ e.cursors = cursors /\ e.accepted = accepted /\ e.taken = taken /\ e.index = index
      /\ e.cursor = cursor /\ e.delivered = delivered
      /\ e.buffers = [buffers EXCEPT ![Current] = rest]
  BY <1>1, <1>8 DEF StateDict
<1>10. /\ buffers \in [Sources -> Seq(Token)]
       /\ \A s \in Sources : \A i \in DOMAIN buffers[s] : buffers[s][i].source = s
       /\ delivered \in Seq(Token)
  BY DEF CorpusOK, StateDict
<1>11. /\ e.buffers \in [Sources -> Seq(Token)] /\ e.buffers[Current] = rest
       /\ \A s \in Sources : s # Current => e.buffers[s] = buffers[s]
  BY <1>2, <1>4, <1>9, <1>10
<1>12. \A s \in Sources : \A i \in DOMAIN e.buffers[s] : e.buffers[s][i].source = s
  BY <1>4, <1>10, <1>11
<1>13. CorpusOK(e)
  BY <1>9, <1>11, <1>12 DEF CorpusOK, StateDict
<1>14. Fresh(rows, e)
  BY <1>9 DEF Fresh, StateDict
<1>15. Conserved(rows, e, output')
  <2> SUFFICES ASSUME NEW s \in Sources
               PROVE  OfSource(s, e.delivered \o output') \o e.buffers[s] = Encodings(rows, e, s)
    BY DEF Conserved
  <2>1. PICK given \in Seq(Token) : given = delivered \o output
    <3>1. delivered \o output \in Seq(Token)
      BY <1>2, <1>10, ConcatPieces
    <3> QED BY <3>1
  <2>2. e.delivered \o output' = given \o piece
    <3>1. (delivered \o output) \o piece = delivered \o (output \o piece)
      <4>1. delivered \in Seq(Token) /\ output \in Seq(Token) /\ piece \in Seq(Token)
        BY <1>2, <1>4, <1>10
      <4>2. \A t, u, v \in Seq(Token) : (t \o u) \o v = t \o (u \o v)
        BY ConcatAssoc
      <4> QED BY ONLY <4>1, <4>2
    <3> QED BY ONLY <1>1, <1>9, <2>1, <3>1, Zenon
  <2>3. OfSource(s, given) \o buffers[s] = Encodings(rows, StateDict, s)
    <3>1. Conserved(rows, StateDict, output)
      BY <1>2
    <3> QED BY <2>1, <3>1 DEF Conserved, StateDict
  <2>4. Encodings(rows, e, s) = Encodings(rows, StateDict, s)
    BY <1>9, Zenon DEF Encodings, Accepted, StateDict
  <2>5. Uniform(s, piece) /\ (k # 0 \/ s = Current => Gives(s, piece) = IF s = Current THEN piece ELSE <<>>)
    <3>1. DOMAIN piece = 1 .. k /\ (k # 0 => 1 \in 1 .. k)
      BY <1>4
    <3> QED BY ONLY <1>4, <3>1, Zenon DEF Uniform, Gives
  <2>6. OfSource(s, given \o piece) = OfSource(s, given) \o Gives(s, piece)
    BY <1>4, <2>1, <2>5, OfSourceRun
  <2>7. OfSource(s, given) \in Seq(Token) /\ buffers[s] \in Seq(Token)
    BY <1>10, OfSourceTyped
  <2>8. CASE s = Current
    <3>1. Gives(s, piece) = piece /\ e.buffers[s] = rest /\ buffers[s] = piece \o rest
      BY <1>4, <1>11, <2>5, <2>8 DEF Buffer
    <3>2. (OfSource(s, given) \o piece) \o rest = OfSource(s, given) \o (piece \o rest)
      BY <1>4, <2>7
    <3> QED BY ONLY <2>2, <2>3, <2>4, <2>6, <3>1, <3>2, Zenon
  <2>9. CASE s # Current
    <3>1. Gives(s, piece) = <<>>
      <4>1. CASE k = 0
        <5>1. piece = <<>>
          BY <1>4, <4>1
        <5> QED BY <5>1 DEF Gives
      <4>2. CASE k # 0
        BY <2>5, <2>9, <4>2
      <4> QED BY <4>1, <4>2
    <3>2. e.buffers[s] = buffers[s] /\ OfSource(s, given) \o <<>> = OfSource(s, given)
      BY <1>11, <2>7, <2>9
    <3> QED BY ONLY <2>2, <2>3, <2>4, <2>6, <3>1, <3>2, Zenon
  <2> QED BY <2>8, <2>9
<1>16. SavedOK'
  BY <1>1 DEF SavedOK
<1> QED BY <1>1, <1>7, <1>8, <1>13, <1>14, <1>15, <1>16

-----------------------------------------------------------------------------
(* The next record                                                         *)

\* A row is passed over, or the search is given up.
LEMMA SkipKeeps ==
  ASSUME StreamInv, Short, rows' = rows, saved' = saved, trained' = trained,
         cursors' \in [Sources -> Nat], pc' \in {pc, "down"},
         UNCHANGED <<index, accepted, buffers, cursor, delivered, taken, output, want>>
  PROVE  StreamInv'
<1> USE DEF StreamInv
<1>1. /\ index' = index /\ accepted' = accepted /\ buffers' = buffers /\ cursor' = cursor
      /\ delivered' = delivered /\ taken' = taken /\ output' = output /\ want' = want
  OBVIOUS
<1>2. PICK e : e = StateDict'
  OBVIOUS
<1>3. /\ e.cursors = cursors' /\ e.index = index /\ e.accepted = accepted /\ e.buffers = buffers
      /\ e.cursor = cursor /\ e.delivered = delivered /\ e.taken = taken
  BY <1>1, <1>2 DEF StateDict
<1>4. CorpusOK(e)
  BY <1>3 DEF CorpusOK, StateDict
<1>5. Fresh(rows, e)
  BY <1>3 DEF Fresh, StateDict
<1>6. pc = "fill" /\ Conserved(rows, StateDict, output)
  BY DEF Short
<1>7. Conserved(rows, e, output)
  <2>1. /\ StateDict.delivered = delivered /\ StateDict.buffers = buffers
        /\ StateDict.taken = taken /\ StateDict.accepted = accepted
    BY DEF StateDict
  <2> QED BY ONLY <1>3, <1>6, <2>1, Zenon DEF Conserved, Encodings, Accepted
<1>8. BatchOK'
  BY <1>1, <1>6 DEF BatchOK
<1>9. SavedOK'
  BY <1>1 DEF SavedOK
<1> QED BY <1>1, <1>2, <1>4, <1>5, <1>6, <1>7, <1>8, <1>9

\* One more row joins the encodings of its source.
LEMMA EncodingsGrow ==
  ASSUME rows \in Corpora, NEW d, CorpusOK(d), Fresh(rows, d), NEW e,
         NEW x \in Row, x.row \in DOMAIN rows[x.source],
          e.taken = Append(d.taken, x), e.accepted = d.accepted + 1, NEW s \in Sources
  PROVE  Encodings(rows, e, s) = Encodings(rows, d, s) \o RowTokens(rows, s, x, d.accepted)
<1>1. PICK n \in Nat, m \in Nat, taken0 \in Seq(Row) :
        n = d.accepted /\ taken0 = d.taken /\ m = Len(taken0) /\ n <= m
  <2>1. d.accepted \in Nat /\ d.taken \in Seq(Row)
        /\ Len(d.taken) \in Nat /\ d.accepted <= Len(d.taken)
    BY DEF CorpusOK
  <2> QED BY ONLY <2>1, Zenon
<1>0. /\ \A i \in 1 .. n : /\ (m - n) + i \in 1 .. m /\ i - 1 \in Nat /\ i \in 1 .. n + 1
                           /\ ((m + 1) - (n + 1)) + i = (m - n) + i
      /\ DOMAIN taken0 = 1 .. m /\ \A j \in 1 .. m : taken0[j] \in Row
  <2>1. n <= m
    BY <1>1, Zenon
  <2>2. DOMAIN taken0 = 1 .. m /\ \A j \in 1 .. m : taken0[j] \in Row
    <3>1. m = Len(taken0) /\ taken0 \in Seq(Row)
      BY <1>1, Zenon
    <3> QED BY ONLY <3>1
  <2> QED BY ONLY <2>1, <2>2, n \in Nat, m \in Nat
<1>2. /\ \A i \in 1 .. m : e.taken[i] = taken0[i]
      /\ e.taken[m + 1] = x /\ Len(e.taken) = m + 1
  BY <1>1
<1>3. ASSUME NEW i \in 1 .. n PROVE Accepted(e, i) = Accepted(d, i)
  <2>1. (m - n) + i \in 1 .. m /\ ((m + 1) - (n + 1)) + i = (m - n) + i
    BY ONLY <1>0
  <2>2. Accepted(e, i) = e.taken[((m + 1) - (n + 1)) + i] /\ Accepted(d, i) = taken0[(m - n) + i]
    BY <1>1, <1>2 DEF Accepted
  <2> QED BY ONLY <1>2, <2>1, <2>2, Zenon
<1>4. Accepted(e, n + 1) = x
  <2>1. ((m + 1) - (n + 1)) + (n + 1) = m + 1
    BY <1>1
  <2> QED BY <1>1, <1>2, <2>1 DEF Accepted
<1>5. ASSUME NEW y \in Row, y.row \in DOMAIN rows[y.source], NEW k \in Nat
      PROVE  RowTokens(rows, s, y, k) \in Seq(Token)
  <2>1. CASE y.source = s
    <3>1. y.row \in Nat /\ y.row \in DOMAIN rows[s]
      BY <1>5, <2>1 DEF Row
    <3>2. Encoded(s, y.row, k) \in Seq(Token)
      BY <3>1, EncodedTyped
    <3> QED BY <2>1, <3>2 DEF RowTokens, TokensOf, Encoded
  <2>2. CASE y.source # s
    BY <2>2 DEF RowTokens
  <2> QED BY <2>1, <2>2
<1> DEFINE front == [i \in 1 .. n |-> RowTokens(rows, s, Accepted(d, i), i - 1)]
           seqs == [i \in 1 .. n + 1 |-> RowTokens(rows, s, Accepted(e, i), i - 1)]
<1>6. FrontOf(Token, front, seqs, n)
  <2>1. Len(seqs) = n + 1 /\ Len(front) = n
    OBVIOUS
  <2>2. n = 0 => front = <<>>
    OBVIOUS
  <2>3. ASSUME NEW i \in 1 .. n PROVE front[i] = seqs[i] /\ seqs[i] \in Seq(Token)
    <3>1. i \in 1 .. n + 1 /\ i - 1 \in Nat /\ (m - n) + i \in 1 .. m
      BY ONLY <1>0
    <3>2. /\ front[i] = RowTokens(rows, s, Accepted(d, i), i - 1)
          /\ seqs[i] = RowTokens(rows, s, Accepted(d, i), i - 1)
      BY <1>3, <3>1
    <3>3. /\ Accepted(d, i) \in Row
          /\ Accepted(d, i).row \in DOMAIN rows[Accepted(d, i).source]
      <4>1. Accepted(d, i) = taken0[(m - n) + i]
        BY <1>1 DEF Accepted
      <4>2. DOMAIN taken0 = 1 .. m /\ \A j \in 1 .. m : taken0[j] \in Row
        BY <1>0, Zenon
      <4>3. \A j \in DOMAIN taken0 : taken0[j].row \in DOMAIN rows[taken0[j].source]
        BY <1>1 DEF Fresh
      <4> QED BY ONLY <3>1, <4>1, <4>2, <4>3, Zenon
    <3> HIDE DEF front, seqs
    <3> QED BY <1>5, <3>1, <3>2, <3>3
  <2>4. seqs[n + 1] = RowTokens(rows, s, x, n) /\ seqs[n + 1] \in Seq(Token)
    <3>1. n + 1 \in 1 .. n + 1 /\ (n + 1) - 1 = n
      OBVIOUS
    <3>2. seqs[n + 1] = RowTokens(rows, s, x, n)
      BY <1>4, <3>1
    <3> QED BY <1>5, <3>2
  <2>5. \A i \in 1 .. n + 1 : i \in 1 .. n \/ i = n + 1
    OBVIOUS
  <2> HIDE DEF front, seqs
  <2> QED BY <2>1, <2>2, <2>3, <2>4, <2>5 DEF FrontOf
<1>7. seqs[n + 1] = RowTokens(rows, s, x, n)
  <2>1. n + 1 \in 1 .. n + 1 /\ (n + 1) - 1 = n
    OBVIOUS
  <2> QED BY <1>4, <2>1
<1>8. Encodings(rows, d, s) = FlattenSeq(front) /\ Encodings(rows, e, s) = FlattenSeq(seqs)
  BY <1>1 DEF Encodings
<1> HIDE DEF front, seqs
<1>9. FlattenSeq(seqs) = FlattenSeq(front) \o seqs[n + 1]
  <2>1. \A X, f, g, l : FrontOf(X, f, g, l) => FlattenSeq(g) = FlattenSeq(f) \o g[l + 1]
    BY ONLY FlattenLast, Zenon
  <2> QED BY ONLY <1>6, <2>1
<1> QED BY ONLY <1>1, <1>7, <1>8, <1>9, Zenon

\* The index after one more row that duplicates none of it.
LEMMA FreshGrows ==
  ASSUME NEW d, CorpusOK(d), Fresh(rows, d), NEW e,
         NEW x \in Row, x.row \in DOMAIN rows[x.source],
         e.taken = Append(d.taken, x), e.index = d.index \cup {Text(rows, x)},
         \A t \in d.index : <<t, Text(rows, x)>> \notin Similar
  PROVE  Fresh(rows, e)
<1>1. PICK m \in Nat, taken0 \in Seq(Row) :
        taken0 = d.taken /\ m = Len(taken0) /\ DOMAIN taken0 = 1 .. m
  <2>1. d.taken \in Seq(Row)
    BY DEF CorpusOK
  <2>2. Len(d.taken) \in Nat /\ DOMAIN d.taken = 1 .. Len(d.taken)
    BY ONLY <2>1
  <2> QED BY ONLY <2>1, <2>2, Zenon
<1>2. PICK taken1 : taken1 = e.taken /\ DOMAIN taken1 = 1 .. m + 1 /\ taken1[m + 1] = x
                    /\ \A i \in 1 .. m : taken1[i] = taken0[i]
  <2>1. /\ DOMAIN Append(taken0, x) = 1 .. m + 1 /\ Append(taken0, x)[m + 1] = x
        /\ \A i \in 1 .. m : Append(taken0, x)[i] = taken0[i]
    BY <1>1
  <2>2. e.taken = Append(taken0, x)
    BY <1>1
  <2> QED BY ONLY <2>1, <2>2, Zenon
<1>3. \A i \in 1 .. m + 1 : i \in 1 .. m \/ i = m + 1
  OBVIOUS
<1>4. \A i \in 1 .. m + 1 : taken1[i].row \in DOMAIN rows[taken1[i].source]
  BY <1>1, <1>2, <1>3 DEF Fresh
<1>5. e.index = {Text(rows, taken1[i]) : i \in 1 .. m + 1}
  <2>1. d.index = {Text(rows, taken0[i]) : i \in 1 .. m}
    BY <1>1 DEF Fresh
  <2>2. m + 1 \in 1 .. m + 1 /\ \A i \in 1 .. m : i \in 1 .. m + 1
    OBVIOUS
  <2> QED BY <1>2, <1>3, <2>1, <2>2
<1>6. ASSUME NEW i \in 1 .. m + 1, NEW j \in 1 .. m + 1, i < j
      PROVE  <<Text(rows, taken1[i]), Text(rows, taken1[j])>> \notin Similar
  <2>1. i \in 1 .. m
    BY <1>6
  <2>2. CASE j \in 1 .. m
    BY <1>1, <1>2, <1>6, <2>1, <2>2 DEF Fresh
  <2>3. CASE j = m + 1
    <3>1. Text(rows, taken0[i]) \in d.index
      BY <1>1, <2>1 DEF Fresh
    <3> QED BY <1>2, <2>1, <2>3, <3>1
  <2> QED BY <1>3, <2>2, <2>3
<1> QED BY <1>2, <1>4, <1>5, <1>6 DEF Fresh

\* A row is taken, counted and indexed; what has text fills the empty buffer.
LEMMA AcceptKeeps ==
  ASSUME StreamInv, Short, Buffer = <<>>, rows' = rows, saved' = saved, trained' = trained,
         cursors' \in [Sources -> Nat], NextIndex \in DOMAIN rows[Current], NextIndex \in Nat,
         ~ Duplicate(rows[Current][NextIndex].text),
         index' = index \cup {rows[Current][NextIndex].text}, accepted' = accepted + 1,
         taken' = Append(taken, [source |-> Current, row |-> NextIndex]),
         \/ /\ buffers' = [buffers EXCEPT ![Current] = Encoded(Current, NextIndex, accepted)]
            /\ pc' = pc
         \/ buffers' = buffers /\ pc' = "down",
         UNCHANGED <<cursor, delivered, output, want>>
  PROVE  StreamInv'
<1> USE DEF StreamInv
<1> DEFINE x == [source |-> Current, row |-> NextIndex]
           fresh == Encoded(Current, NextIndex, accepted)
<1>1. /\ cursor' = cursor /\ delivered' = delivered /\ output' = output /\ want' = want
      /\ pc = "fill" /\ pc' \in {"fill", "down"}
  BY DEF Short
<1>2. /\ output \in Seq(Token) /\ Current \in Sources
  BY Filling
<1>3. PICK d : d = StateDict
  OBVIOUS
<1>4. PICK e : e = StateDict'
  OBVIOUS
<1>5. /\ d.buffers = buffers /\ d.accepted = accepted /\ d.taken = taken /\ d.index = index
      /\ d.cursor = cursor /\ d.delivered = delivered
      /\ e.buffers = buffers' /\ e.accepted = accepted + 1 /\ e.taken = Append(taken, x)
      /\ e.index = index \cup {rows[Current][NextIndex].text}
      /\ e.cursor = cursor /\ e.delivered = delivered /\ e.cursors = cursors'
  BY <1>1, <1>3, <1>4 DEF StateDict
<1>6. CorpusOK(d) /\ Fresh(rows, d) /\ Conserved(rows, d, output)
  BY <1>1, <1>3
<1>7. /\ x \in Row /\ x.source = Current /\ x.row = NextIndex
      /\ Text(rows, x) = rows[Current][NextIndex].text
  BY <1>2 DEF Row, Text
<1>8. /\ accepted \in Nat /\ taken \in Seq(Row) /\ accepted <= Len(taken)
      /\ delivered \in Seq(Token) /\ buffers \in [Sources -> Seq(Token)]
      /\ \A s \in Sources : \A i \in DOMAIN buffers[s] : buffers[s][i].source = s
  BY <1>5, <1>6 DEF CorpusOK
<1>9. /\ fresh \in Seq(Token) /\ \A i \in DOMAIN fresh : fresh[i].source = Current
  BY <1>2, <1>8, EncodedTyped
<1> HIDE DEF x, fresh
<1>10. /\ e.buffers \in [Sources -> Seq(Token)]
       /\ \A s \in Sources : \A i \in DOMAIN e.buffers[s] : e.buffers[s][i].source = s
  <2>1. CASE buffers' = [buffers EXCEPT ![Current] = fresh]
    <3>1. /\ buffers' \in [Sources -> Seq(Token)] /\ buffers'[Current] = fresh
          /\ \A s \in Sources : s # Current => buffers'[s] = buffers[s]
      BY <1>2, <1>8, <1>9, <2>1
    <3>2. e.buffers = buffers'
      BY ONLY <1>5, Zenon
    <3>3. ASSUME NEW s \in Sources, NEW i \in DOMAIN buffers'[s] PROVE buffers'[s][i].source = s
      BY <1>8, <1>9, <3>1
    <3> QED BY ONLY <3>1, <3>2, <3>3, Zenon
  <2>2. CASE buffers' = buffers
    <3>1. e.buffers = buffers
      BY ONLY <1>5, <2>2, Zenon
    <3> QED BY ONLY <1>8, <3>1, Zenon
  <2> QED BY <2>1, <2>2 DEF fresh
<1>11. CorpusOK(e)
  <2>1. Append(taken, x) \in Seq(Row) /\ Len(Append(taken, x)) = Len(taken) + 1 /\ Len(taken) \in Nat
    BY <1>7, <1>8
  <2>2. accepted + 1 \in Nat /\ accepted + 1 <= Len(Append(taken, x))
    BY <1>8, <2>1
  <2>3. /\ cursor \in Nat /\ Len(delivered) = cursor
        /\ \A n \in 1 .. cursor : delivered[n].source = SourceAt(n - 1)
    BY <1>5, <1>6 DEF CorpusOK
  <2> QED BY <1>5, <1>8, <1>10, <2>1, <2>2, <2>3 DEF CorpusOK
<1>12. Fresh(rows, e)
  <2>1. e.taken = Append(d.taken, x) /\ e.index = d.index \cup {Text(rows, x)} /\ x \in Row
        /\ x.row \in DOMAIN rows[x.source]
    BY <1>5, <1>7
  <2>2. \A t \in d.index : <<t, Text(rows, x)>> \notin Similar
    BY <1>5, <1>7 DEF Duplicate
  <2> QED BY <1>6, <2>1, <2>2, FreshGrows
<1>13. pc' # "down" => Conserved(rows, e, output)
  <2> SUFFICES ASSUME pc' # "down", NEW s \in Sources
               PROVE  OfSource(s, e.delivered \o output) \o e.buffers[s] = Encodings(rows, e, s)
    BY DEF Conserved
  <2>1. buffers' = [buffers EXCEPT ![Current] = fresh]
    BY DEF fresh
  <2>2. PICK given \in Seq(Token) : given = OfSource(s, delivered \o output)
    <3>1. delivered \in Seq(Token) /\ output \in Seq(Token)
      BY <1>2, <1>8
    <3>2. delivered \o output \in Seq(Token)
      BY ONLY <3>1, ConcatPieces, Zenon
    <3> QED BY <3>2, OfSourceTyped
  <2>3. given \o buffers[s] = Encodings(rows, d, s)
    BY ONLY <1>5, <1>6, <2>2, s \in Sources, Zenon DEF Conserved
  <2>4. Encodings(rows, e, s) = Encodings(rows, d, s) \o RowTokens(rows, s, x, accepted)
    <3>1. e.taken = Append(d.taken, x) /\ e.accepted = d.accepted + 1 /\ x \in Row
          /\ x.row \in DOMAIN rows[x.source]
      BY <1>5, <1>7
    <3>2. rows \in Corpora /\ s \in Sources
      OBVIOUS
    <3>3. Encodings(rows, e, s) = Encodings(rows, d, s) \o RowTokens(rows, s, x, d.accepted)
      BY ONLY <1>6, <3>1, <3>2, EncodingsGrow, Zenon
    <3> QED BY <1>5, <3>3, Zenon
  <2>5. CASE s = Current
    <3>1. buffers[s] = <<>> /\ e.buffers[s] = fresh
      BY <1>2, <1>5, <1>8, <2>1, <2>5 DEF Buffer
    <3>2. RowTokens(rows, s, x, accepted) = fresh
      BY <1>7, <2>5 DEF RowTokens, TokensOf, Encoded, fresh
    <3>3. given \o <<>> = given
      OBVIOUS
    <3> QED BY ONLY <1>5, <2>2, <2>3, <2>4, <3>1, <3>2, <3>3, Zenon
  <2>6. CASE s # Current
    <3>1. e.buffers[s] = buffers[s]
      BY <1>5, <1>8, <2>1, <2>6
    <3>2. RowTokens(rows, s, x, accepted) = <<>>
      BY <1>7, <2>6 DEF RowTokens
    <3>3. given \o buffers[s] \in Seq(Token)
      <4>1. given \in Seq(Token) /\ buffers[s] \in Seq(Token)
        BY <1>8
      <4> QED BY ONLY <4>1, ConcatPieces, Zenon
    <3>4. (given \o buffers[s]) \o <<>> = given \o buffers[s]
      BY ONLY <3>3
    <3> QED BY ONLY <1>5, <2>2, <2>3, <2>4, <3>1, <3>2, <3>4, Zenon
  <2> QED BY <2>5, <2>6
<1>14. BatchOK'
  BY <1>1 DEF BatchOK
<1>15. SavedOK'
  BY DEF SavedOK
<1> QED BY <1>1, <1>4, <1>11, <1>12, <1>13, <1>14, <1>15

LEMMA NextRecordKeeps == ASSUME StreamInv, NextRecord PROVE StreamInv'
<1>1. /\ Short /\ Buffer = <<>> /\ rows' = rows /\ saved' = saved /\ trained' = trained
      /\ UNCHANGED <<output, want>>
  BY DEF NextRecord
<1>2. cursors \in [Sources -> Nat] /\ Current \in Sources /\ rows \in Corpora
  <2>1. Current \in Sources
    BY <1>1, Filling
  <2> QED BY <2>1 DEF StreamInv, CorpusOK, StateDict
<1>3. CASE rows[Current] = <<>>
  <2>1. pc' = "down" /\ UNCHANGED corpus
    BY <1>3 DEF NextRecord
  <2> QED BY <1>1, <1>2, <2>1, SkipKeeps DEF corpus
<1>4. CASE rows[Current] # <<>>
  <2> DEFINE row == rows[Current][NextIndex]
             mine == row.split = split
             good == /\ mine /\ row.verdict # "filtered" /\ row.verdict # "missing"
                     /\ ~ Duplicate(row.text)
  <2>1. NextIndex \in DOMAIN rows[Current] /\ NextIndex \in Nat
    <3>1. rows[Current] \in Seq(Range(rows[Current])) /\ cursors[Current] \in Nat
      BY <1>2, CorporaAssumption
    <3>2. PICK n \in Nat \ {0} : n = Len(rows[Current]) /\ DOMAIN rows[Current] = 1 .. n
      <4>1. \A X : \A q \in Seq(X) : q # <<>> => Len(q) \in Nat \ {0} /\ DOMAIN q = 1 .. Len(q)
        OBVIOUS
      <4> QED BY ONLY <1>4, <3>1, <4>1, Zenon
    <3> QED BY <3>1, <3>2 DEF NextIndex
  <2>2. cursors' = [cursors EXCEPT ![Current] = NextIndex] /\ UNCHANGED <<cursor, delivered>>
    BY <1>4 DEF NextRecord
  <2>3. cursors' \in [Sources -> Nat]
    BY <1>2, <2>1, <2>2
  <2>4. CASE good
    <3>1. /\ index' = index \cup {row.text} /\ accepted' = accepted + 1
          /\ taken' = Append(taken, [source |-> Current, row |-> NextIndex])
          /\ \/ /\ buffers' = [buffers EXCEPT ![Current] = Encoded(Current, NextIndex, accepted)]
                /\ pc' = pc
             \/ buffers' = buffers /\ pc' = "down"
      BY <1>4, <2>4 DEF NextRecord
    <3> QED BY <1>1, <2>1, <2>2, <2>3, <2>4, <3>1, AcceptKeeps
  <2>5. CASE ~ good
    <3>1. pc' \in {pc, "down"} /\ UNCHANGED <<index, accepted, taken, buffers>>
      BY <1>4, <2>5 DEF NextRecord
    <3> QED BY <1>1, <2>2, <2>3, <3>1, SkipKeeps
  <2> QED BY <2>4, <2>5
<1> QED BY <1>3, <1>4

-----------------------------------------------------------------------------
(* The theorems                                                            *)

LEMMA StreamStep == ASSUME StreamInv, [Next]_vars PROVE StreamInv'
<1>1. CASE Launch
  BY <1>1, LaunchKeeps
<1>2. CASE TrainBatch
  BY <1>2, TrainBatchKeeps
<1>3. CASE Take
  BY <1>3, TakeKeeps
<1>4. CASE NextRecord
  BY <1>4, NextRecordKeeps
<1>5. CASE EndBatch
  BY <1>5, EndBatchKeeps
<1>6. CASE Checkpoint
  <2>1. /\ rows' = rows /\ UNCHANGED <<corpus, output, trained, want>> /\ pc = "train" /\ pc' = pc
        /\ saved' = [trained |-> trained, corpus |-> StateDict]
    BY <1>6 DEF Checkpoint
  <2> QED BY <2>1, CheckpointKeeps
<1>7. CASE Evaluate
  BY <1>7, EvaluateKeeps
<1>8. CASE ValidationBatch
  BY <1>8, ValidationBatchKeeps
<1>9. CASE Finish
  <2>1. /\ rows' = rows /\ UNCHANGED <<corpus, output, trained, want>> /\ pc = "validate"
        /\ pc' \in {"down", "done"} /\ saved' \in {saved, [trained |-> trained, corpus |-> StateDict]}
    BY <1>9 DEF Finish
  <2> QED BY <2>1, CheckpointKeeps
<1>10. CASE Die
  BY <1>10, DieKeeps
<1>11. CASE UNCHANGED vars
  <2>1. PICK d : d = StateDict
    OBVIOUS
  <2>2. UNCHANGED corpus /\ rows' = rows /\ output' = output /\ saved' = saved /\ trained' = trained
        /\ pc' = pc /\ want' = want /\ cursor' = cursor
    BY <1>11 DEF vars, corpus
  <2>3. StateDict' = StateDict
    BY <2>2, SameStateDict
  <2>4. BatchOK' = BatchOK /\ SavedOK' = SavedOK
    BY <2>2 DEF BatchOK, SavedOK
  <2> QED BY <2>2, <2>3, <2>4 DEF StreamInv
<1> QED BY <1>1, <1>2, <1>3, <1>4, <1>5, <1>6, <1>7, <1>8, <1>9, <1>10, <1>11 DEF Next, Process

\* The invariant of the stream: its parts fit together, live and in the last
\* checkpoint, through every launch, batch, row, evaluation and crash.
THEOREM StreamInvariant == Spec => []StreamInv
<1>1. Init => StreamInv
  BY StreamInitial
<1>2. StreamInv /\ [Next]_vars => StreamInv'
  BY StreamStep
<1> QED BY <1>1, <1>2, PTL DEF Spec

\* Every position of the stream holds a token of the source whose slot of the
\* cycle it is in, whatever the batches, the rows and the resumes.
THEOREM CompositionAlwaysExact == Spec => []CompositionExact
<1>1. StreamInv => CompositionExact
  <2> SUFFICES ASSUME StreamInv, NEW n \in DOMAIN (delivered \o output)
               PROVE  (delivered \o output)[n].source = SourceAt(n - 1)
    BY DEF CompositionExact
  <2>1. /\ delivered \in Seq(Token) /\ cursor \in Nat /\ Len(delivered) = cursor
        /\ \A i \in 1 .. cursor : delivered[i].source = SourceAt(i - 1)
    BY DEF StreamInv, CorpusOK, StateDict
  <2>2. /\ output \in Seq(Token)
        /\ \A i \in 1 .. Len(output) : output[i].source = SourceAt(cursor + (i - 1))
    BY DEF StreamInv, BatchOK
  <2>3. PICK l \in Nat : l = Len(output) /\ DOMAIN (delivered \o output) = 1 .. cursor + l
    <3>1. delivered \o output \in Seq(Token) /\ Len(delivered \o output) = cursor + Len(output)
      BY <2>1, <2>2, ConcatPieces
    <3> QED BY <2>2, <3>1
  <2>4. CASE n \in 1 .. cursor
    BY <2>1, <2>2, <2>4, ConcatElements
  <2>5. CASE n \notin 1 .. cursor
    <3>1. PICK m \in 1 .. l : n = cursor + m /\ n - 1 = cursor + (m - 1)
      <4>1. n - cursor \in 1 .. l
        BY <2>1, <2>3, <2>5
      <4> QED BY <2>1, <2>3, <4>1
    <3>2. (delivered \o output)[cursor + m] = output[m]
      BY <2>1, <2>2, <2>3, ConcatElements
    <3> QED BY <2>2, <2>3, <3>1, <3>2
  <2> QED BY <2>4, <2>5
<1> QED BY <1>1, StreamInvariant, PTL

\* No two rows ever taken, in training or in validation, before or after a
\* resume, have texts that the duplicate index takes for similar.
THEOREM NoTextEverTwice == Spec => []NoTextTwice
<1>1. StreamInv => NoTextTwice
  BY DEF StreamInv, Fresh, StateDict, Text, NoTextTwice, TextOf
<1> QED BY <1>1, StreamInvariant, PTL

\* What a source has handed out since the last reset, and what waits in its
\* buffer, are the tokens of the rows taken from it, all of them, in order and
\* under their own sample index.
THEOREM TokensAlwaysConserved == Spec => []TokensConserved
<1>1. StreamInv => TokensConserved
  <2> SUFFICES ASSUME StreamInv, pc # "down", NEW s \in Sources
               PROVE  OfSource(s, delivered \o output) \o buffers[s] =
                        FlattenSeq([i \in 1 .. accepted |->
                                      IF Samples[i].row.source = s
                                        THEN Encoded(s, Samples[i].row.row, Samples[i].sample)
                                        ELSE <<>>])
    BY DEF TokensConserved
  <2>1. OfSource(s, delivered \o output) \o buffers[s] = Encodings(rows, StateDict, s)
    BY DEF StreamInv, Conserved, StateDict
  <2>2. ASSUME NEW i \in 1 .. accepted
        PROVE  RowTokens(rows, s, Accepted(StateDict, i), i - 1) =
                 IF Samples[i].row.source = s
                   THEN Encoded(s, Samples[i].row.row, Samples[i].sample) ELSE <<>>
    <3>1. Samples[i].row = Accepted(StateDict, i) /\ Samples[i].sample = i - 1
      BY DEF Samples, Accepted, StateDict
    <3> QED BY <3>1, Zenon DEF RowTokens, TokensOf, Encoded
  <2>3. StateDict.accepted = accepted
    BY DEF StateDict
  <2>4. [i \in 1 .. accepted |-> RowTokens(rows, s, Accepted(StateDict, i), i - 1)] =
          [i \in 1 .. accepted |-> IF Samples[i].row.source = s
                                     THEN Encoded(s, Samples[i].row.row, Samples[i].sample)
                                     ELSE <<>>]
    BY <2>2, Zenon
  <2> QED BY <2>1, <2>3, <2>4, Zenon DEF Encodings
<1> QED BY <1>1, StreamInvariant, PTL


-----------------------------------------------------------------------------
(* Replay: training is a function of the corpus and of how far it has come *)

\* A point of training: the corpus, and the batch under way if there is one.
At(d, out, length, phase) == [corpus |-> d, output |-> out, want |-> length, phase |-> phase]
Begin == At(NewState, <<>>, 0, "train")
Here == At(StateDict, output, want, pc)

Position(p) == p.corpus.cursor + Len(p.output)
SourceOf(p) == SourceAt(Position(p))
BufferOf(p) == p.corpus.buffers[SourceOf(p)]

\* The one step that can be next: TrainBatch, Take, NextRecord and EndBatch for training.
AskStep(p) == At(p.corpus, <<>>, Least(SequenceLength, TrainTokens - p.corpus.cursor), "fill")

TakenNow(p) ==
  Least(Least(p.want - Len(p.output), BlockTokens - (Position(p) % BlockTokens)), Len(BufferOf(p)))
TakeStep(p) ==
  At([cursors |-> p.corpus.cursors, index |-> p.corpus.index, accepted |-> p.corpus.accepted,
      buffers |-> [p.corpus.buffers EXCEPT ![SourceOf(p)] =
                     SubSeq(BufferOf(p), TakenNow(p) + 1, Len(BufferOf(p)))],
      cursor |-> p.corpus.cursor, delivered |-> p.corpus.delivered, taken |-> p.corpus.taken],
     p.output \o SubSeq(BufferOf(p), 1, TakenNow(p)), p.want, "fill")

RowNow(R, p) ==
  IF p.corpus.cursors[SourceOf(p)] >= Len(R[SourceOf(p)]) THEN 1
  ELSE p.corpus.cursors[SourceOf(p)] + 1
Accepts(R, p) ==
  LET row == R[SourceOf(p)][RowNow(R, p)]
  IN  /\ row.split = "train" /\ row.verdict = "text"
      /\ ~ \E t \in p.corpus.index : <<t, row.text>> \in Similar
RecordStep(R, p) ==
  LET s == SourceOf(p)
      row == R[s][RowNow(R, p)]
      d == p.corpus
      moved == [d.cursors EXCEPT ![s] = RowNow(R, p)]
  IN  At(IF Accepts(R, p)
           THEN [cursors |-> moved, index |-> d.index \cup {row.text}, accepted |-> d.accepted + 1,
                 buffers |-> [d.buffers EXCEPT ![s] = TokensOf(R, s, RowNow(R, p), d.accepted)],
                 cursor |-> d.cursor, delivered |-> d.delivered,
                 taken |-> Append(d.taken, [source |-> s, row |-> RowNow(R, p)])]
           ELSE [cursors |-> moved, index |-> d.index, accepted |-> d.accepted,
                 buffers |-> d.buffers, cursor |-> d.cursor, delivered |-> d.delivered,
                 taken |-> d.taken],
         p.output, p.want, "fill")

EndStep(p) ==
  At([cursors |-> p.corpus.cursors, index |-> p.corpus.index, accepted |-> p.corpus.accepted,
      buffers |-> p.corpus.buffers, cursor |-> p.corpus.cursor + p.want,
      delivered |-> p.corpus.delivered \o p.output, taken |-> p.corpus.taken],
     <<>>, 0, "train")

StepFrom(R, p) ==
  IF p.phase = "train" THEN AskStep(p)
  ELSE IF Len(p.output) >= p.want THEN EndStep(p)
  ELSE IF BufferOf(p) # <<>> THEN TakeStep(p)
  ELSE RecordStep(R, p)

\* A training that was never interrupted, as far as n steps.
Pointed(p) == p.corpus.delivered \in Seq(Token) /\ p.output \in Seq(Token)
Trace(R, g, n) ==
  /\ n \in Nat /\ g[0] = Begin
  /\ \A i \in 0 .. n : Pointed(g[i])
  /\ \A i \in Nat : i < n => g[i + 1] = StepFrom(R, g[i])
OnTrace(g, n, p) == \E k \in 0 .. n : g[k] = p

\* What is delivered later begins with what was delivered before.
Begins(longer, shorter) == \E t \in Seq(Token) : longer = shorter \o t

LEMMA StepDelivers ==
  ASSUME NEW R, NEW p, Pointed(p)
  PROVE  Begins(StepFrom(R, p).corpus.delivered, p.corpus.delivered)
<1>1. PICK d, out : d = p.corpus.delivered /\ out = p.output /\ d \in Seq(Token) /\ out \in Seq(Token)
  BY DEF Pointed
<1>2. <<>> \in Seq(Token) /\ d \o <<>> = d
  BY <1>1
<1>3. Begins(d, d) /\ Begins(d \o out, d)
  BY <1>1, <1>2 DEF Begins
<1>4. /\ AskStep(p).corpus.delivered = d /\ TakeStep(p).corpus.delivered = d
      /\ EndStep(p).corpus.delivered = d \o out
  BY <1>1 DEF AskStep, TakeStep, EndStep, At
<1>5. RecordStep(R, p).corpus.delivered = d
  BY <1>1 DEF RecordStep, At
<1> QED BY <1>1, <1>3, <1>4, <1>5 DEF StepFrom

LEMMA TraceDelivers ==
  ASSUME NEW R, NEW g, NEW n, Trace(R, g, n), NEW i \in 0 .. n, NEW j \in 0 .. n, i <= j
  PROVE  Begins(g[j].corpus.delivered, g[i].corpus.delivered)
<1> DEFINE T == {m \in Nat : i + m <= n => Begins(g[i + m].corpus.delivered, g[i].corpus.delivered)}
<1>0. n \in Nat
  BY DEF Trace
<1>1. 0 \in T
  <2>1. g[i].corpus.delivered \in Seq(Token) /\ <<>> \in Seq(Token)
    BY DEF Trace, Pointed
  <2>2. g[i].corpus.delivered \o <<>> = g[i].corpus.delivered
    BY <2>1
  <2>3. i + 0 = i
    OBVIOUS
  <2> QED BY <2>1, <2>2, <2>3 DEF Begins
<1>2. ASSUME NEW m \in Nat, m \in T PROVE m + 1 \in T
  <2> SUFFICES ASSUME i + (m + 1) <= n
               PROVE  Begins(g[i + (m + 1)].corpus.delivered, g[i].corpus.delivered)
    OBVIOUS
  <2>1. PICK k \in Nat : k = i + m /\ k < n /\ i + (m + 1) = k + 1 /\ k \in 0 .. n
    BY <1>0
  <2>2. Begins(g[k].corpus.delivered, g[i].corpus.delivered)
    BY <1>2, <2>1
  <2>3. g[k + 1] = StepFrom(R, g[k]) /\ Pointed(g[k]) /\ Pointed(g[i])
    BY <2>1 DEF Trace
  <2>4. Begins(g[k + 1].corpus.delivered, g[k].corpus.delivered)
    BY <2>3, StepDelivers
  <2>5. PICK a, b, c : a = g[i].corpus.delivered /\ b = g[k].corpus.delivered
                       /\ c = g[k + 1].corpus.delivered /\ a \in Seq(Token)
    BY <2>3 DEF Pointed
  <2>6. PICK t \in Seq(Token), u \in Seq(Token) : b = a \o t /\ c = b \o u
    BY <2>2, <2>4, <2>5 DEF Begins
  <2>7. c = a \o (t \o u) /\ t \o u \in Seq(Token)
    <3>0. a \in Seq(Token) /\ t \in Seq(Token) /\ u \in Seq(Token)
      BY <2>5, <2>6
    <3>1. (a \o t) \o u = a \o (t \o u)
      BY ONLY <3>0, ConcatAssoc
    <3>2. t \o u \in Seq(Token)
      BY ONLY <3>0, ConcatPieces
    <3>3. c = (a \o t) \o u
      BY ONLY <2>6
    <3> QED BY ONLY <3>1, <3>2, <3>3
  <2> QED BY <2>1, <2>5, <2>7 DEF Begins
<1>3. Nat \subseteq T
  <2> HIDE DEF T
  <2> QED BY <1>1, <1>2, Induction
<1>4. j - i \in Nat /\ i + (j - i) = j
  OBVIOUS
<1>5. j - i \in T
  <2> HIDE DEF T
  <2> QED BY <1>3, <1>4
<1> QED BY <1>4, <1>5

\* A step from a point of a trace is on it, or makes it longer.
LEMMA TraceGoesOn ==
  ASSUME NEW R, NEW g, NEW n, Trace(R, g, n), NEW k \in 0 .. n, NEW p, Pointed(p),
         p = StepFrom(R, g[k])
  PROVE  \E h, m : /\ Trace(R, h, m) /\ OnTrace(h, m, p)
                   /\ \A q : OnTrace(g, n, q) => OnTrace(h, m, q)
                   /\ \/ k < n /\ m = n /\ h = g /\ g[k + 1] = p
                      \/ k = n /\ h[m] = p
<1>0. n \in Nat /\ k \in Nat
  BY DEF Trace
<1>1. CASE k < n
  <2>1. g[k + 1] = p /\ k + 1 \in 0 .. n
    BY <1>0, <1>1 DEF Trace
  <2> QED BY <1>1, <2>1 DEF OnTrace
<1>2. CASE k = n
  <2>1. PICK h : h = [i \in 0 .. n + 1 |-> IF i = n + 1 THEN p ELSE g[i]]
    OBVIOUS
  <2>2. h[n + 1] = p /\ \A i \in 0 .. n : h[i] = g[i]
    BY <1>0, <2>1
  <2>3. Trace(R, h, n + 1)
    <3>1. h[0] = Begin /\ n + 1 \in Nat
      BY <1>0, <2>2 DEF Trace
    <3>2. \A i \in 0 .. n + 1 : Pointed(h[i])
      BY <1>0, <2>2 DEF Trace
    <3>3. ASSUME NEW i \in Nat, i < n + 1 PROVE h[i + 1] = StepFrom(R, h[i])
      <4>1. CASE i < n
        <5>1. i \in 0 .. n /\ i + 1 \in 0 .. n
          BY <1>0, <4>1
        <5>2. h[i + 1] = g[i + 1] /\ h[i] = g[i]
          BY <2>2, <5>1
        <5> QED BY <4>1, <5>2 DEF Trace
      <4>2. CASE i = n
        <5>1. h[i + 1] = p /\ h[i] = g[n]
          BY <1>0, <2>2, <4>2
        <5> QED BY <1>2, <5>1
      <4> QED BY <1>0, <3>3, <4>1, <4>2
    <3> QED BY <3>1, <3>2, <3>3 DEF Trace
  <2>4. OnTrace(h, n + 1, p)
    BY <1>0, <2>2 DEF OnTrace
  <2>5. \A q : OnTrace(g, n, q) => OnTrace(h, n + 1, q)
    BY <1>0, <2>2 DEF OnTrace
  <2> QED BY <1>2, <2>2, <2>3, <2>4, <2>5
<1> QED BY <1>0, <1>1, <1>2

\* Training that is not at its end: another batch can be asked for.
Training(t) == TrainTokens - t >= 2
Live == (pc = "train" /\ Training(trained)) \/ (pc = "fill" /\ split = "train")

LEMMA AskIs ==
  ASSUME StreamInv, TrainBatch, pc' = "fill", cursor = trained
  PROVE  Here' = StepFrom(rows, Here)
<1>1. StateDict' = StateDict
  BY SameStateDict DEF TrainBatch, Request
<1>2. /\ pc = "train" /\ want' = TrainLength /\ output' = <<>> /\ StateDict.cursor = cursor
  BY DEF TrainBatch, Request, StateDict
<1>3. TrainLength = Least(SequenceLength, TrainTokens - StateDict.cursor)
  BY <1>2 DEF TrainLength
<1> QED BY <1>1, <1>2, <1>3 DEF Here, At, StepFrom, AskStep

LEMMA HereFilling ==
  ASSUME StreamInv, Short
  PROVE  /\ Here.corpus = StateDict /\ Here.output = output /\ Here.want = want
         /\ Here.phase # "train" /\ ~ (Len(Here.output) >= Here.want)
         /\ SourceOf(Here) = Current /\ BufferOf(Here) = Buffer
         /\ BlockTokens - (Position(Here) % BlockTokens) = BlockRemaining
<1>1. Here.corpus = StateDict /\ Here.output = output /\ Here.want = want /\ Here.phase = "fill"
  BY DEF Here, At, Short
<1>2. StateDict.cursor = cursor /\ StateDict.buffers = buffers
  BY DEF StateDict
<1>3. Position(Here) = Absolute
  BY <1>1, <1>2 DEF Position, Absolute
<1>4. SourceOf(Here) = Current
  BY <1>3 DEF SourceOf, Current
<1>5. BufferOf(Here) = Buffer
  BY <1>1, <1>2, <1>4 DEF BufferOf, Buffer
<1>6. ~ (Len(output) >= want)
  <2>1. PICK l \in Nat : l = Len(output)
    BY DEF StreamInv, BatchOK
  <2>2. want \in Nat
    BY DEF StreamInv, BatchOK
  <2>3. l < want
    BY <2>1 DEF Short
  <2> QED BY ONLY <2>1, <2>2, <2>3
<1> QED BY <1>1, <1>3, <1>4, <1>5, <1>6 DEF BlockRemaining

LEMMA TakeIs == ASSUME StreamInv, Take PROVE Here' = StepFrom(rows, Here)
<1>1. Short /\ Buffer # <<>>
  BY DEF Take
<1>2. PICK n : n = Least(Least(want - Len(output), BlockRemaining), Len(Buffer))
  OBVIOUS
<1>3. /\ output' = output \o SubSeq(Buffer, 1, n)
      /\ buffers' = [buffers EXCEPT ![Current] = SubSeq(Buffer, n + 1, Len(Buffer))]
      /\ UNCHANGED <<pc, cursors, index, accepted, cursor, want, delivered, taken>>
  BY <1>2 DEF Take
<1>4. TakenNow(Here) = n
  BY <1>1, <1>2, HereFilling DEF TakenNow
<1>5. StepFrom(rows, Here) = TakeStep(Here)
  BY <1>1, HereFilling DEF StepFrom
<1>6. /\ StateDict.cursors = cursors /\ StateDict.index = index /\ StateDict.accepted = accepted
      /\ StateDict.buffers = buffers /\ StateDict.cursor = cursor
      /\ StateDict.delivered = delivered /\ StateDict.taken = taken
  BY DEF StateDict
<1>7. TakeStep(Here) =
        At([cursors |-> cursors, index |-> index, accepted |-> accepted,
            buffers |-> [buffers EXCEPT ![Current] = SubSeq(Buffer, n + 1, Len(Buffer))],
            cursor |-> cursor, delivered |-> delivered, taken |-> taken],
           output \o SubSeq(Buffer, 1, n), want, "fill")
  BY <1>1, <1>4, <1>6, HereFilling DEF TakeStep
<1>8. pc = "fill"
  BY <1>1 DEF Short
<1> QED BY <1>3, <1>5, <1>7, <1>8 DEF Here, StateDict

LEMMA RecordIs ==
  ASSUME StreamInv, NextRecord, pc' = "fill", split = "train" PROVE Here' = StepFrom(rows, Here)
<1>1. Short /\ Buffer = <<>> /\ pc = "fill"
  BY DEF NextRecord, Short
<1>2. PICK s, r, row : s = Current /\ r = NextIndex /\ row = rows[s][r]
  OBVIOUS
<1>3. /\ rows[s] # <<>> /\ cursors' = [cursors EXCEPT ![s] = r]
      /\ IF row.split = "train" /\ row.verdict # "filtered" /\ row.verdict # "missing"
            /\ ~ Duplicate(row.text)
           THEN /\ index' = index \cup {row.text} /\ accepted' = accepted + 1
                /\ taken' = Append(taken, [source |-> s, row |-> r])
                /\ row.verdict = "text" /\ buffers' = [buffers EXCEPT ![s] = Encoded(s, r, accepted)]
           ELSE UNCHANGED <<index, accepted, taken, buffers>>
      /\ UNCHANGED <<cursor, delivered, want, output>>
  BY <1>1, <1>2 DEF NextRecord
<1>4. StepFrom(rows, Here) = RecordStep(rows, Here)
  BY <1>1, HereFilling DEF StepFrom
<1>5. /\ StateDict.cursors = cursors /\ StateDict.index = index /\ StateDict.accepted = accepted
      /\ StateDict.buffers = buffers /\ StateDict.cursor = cursor
      /\ StateDict.delivered = delivered /\ StateDict.taken = taken
  BY DEF StateDict
<1>6. SourceOf(Here) = s /\ RowNow(rows, Here) = r
  BY <1>1, <1>2, <1>5, HereFilling DEF RowNow, NextIndex
<1>7. Accepts(rows, Here) <=>
        row.split = "train" /\ row.verdict = "text" /\ ~ Duplicate(row.text)
  BY <1>1, <1>2, <1>5, <1>6, HereFilling DEF Accepts, Duplicate
<1>8. Encoded(s, r, accepted) = TokensOf(rows, s, r, accepted)
  BY DEF Encoded, TokensOf
<1>9. RecordStep(rows, Here) =
        At(IF Accepts(rows, Here)
             THEN [cursors |-> [cursors EXCEPT ![s] = r], index |-> index \cup {row.text},
                   accepted |-> accepted + 1,
                   buffers |-> [buffers EXCEPT ![s] = TokensOf(rows, s, r, accepted)],
                   cursor |-> cursor, delivered |-> delivered,
                   taken |-> Append(taken, [source |-> s, row |-> r])]
             ELSE [cursors |-> [cursors EXCEPT ![s] = r], index |-> index, accepted |-> accepted,
                   buffers |-> buffers, cursor |-> cursor, delivered |-> delivered, taken |-> taken],
           output, want, "fill")
  BY <1>1, <1>2, <1>5, <1>6, HereFilling DEF RecordStep
<1>10. CASE Accepts(rows, Here)
  <2>1. StateDict' = [cursors |-> [cursors EXCEPT ![s] = r], index |-> index \cup {row.text},
                      accepted |-> accepted + 1,
                      buffers |-> [buffers EXCEPT ![s] = TokensOf(rows, s, r, accepted)],
                      cursor |-> cursor, delivered |-> delivered,
                      taken |-> Append(taken, [source |-> s, row |-> r])]
    <3>1. /\ index' = index \cup {row.text} /\ accepted' = accepted + 1
          /\ taken' = Append(taken, [source |-> s, row |-> r])
          /\ buffers' = [buffers EXCEPT ![s] = TokensOf(rows, s, r, accepted)]
      BY <1>3, <1>7, <1>8, <1>10
    <3> QED BY <1>3, <3>1 DEF StateDict
  <2> QED BY <1>3, <1>4, <1>9, <1>10, <2>1 DEF Here
<1>11. CASE ~ Accepts(rows, Here)
  <2>1. UNCHANGED <<index, accepted, taken, buffers>>
    BY <1>3, <1>7, <1>11
  <2>2. StateDict' = [cursors |-> [cursors EXCEPT ![s] = r], index |-> index, accepted |-> accepted,
                      buffers |-> buffers, cursor |-> cursor, delivered |-> delivered,
                      taken |-> taken]
    BY <1>3, <2>1 DEF StateDict
  <2> QED BY <1>3, <1>4, <1>9, <1>11, <2>2 DEF Here
<1> QED BY <1>10, <1>11

LEMMA EndIs ==
  ASSUME StreamInv, EndBatch, split = "train" PROVE Here' = StepFrom(rows, Here)
<1>1. /\ pc = "fill" /\ Len(output) >= want /\ pc' = "train" /\ output' = <<>> /\ want' = 0
      /\ cursor' = cursor + want /\ delivered' = delivered \o output
      /\ UNCHANGED <<cursors, index, accepted, buffers, taken>>
  BY DEF EndBatch
<1>2. /\ StateDict.cursors = cursors /\ StateDict.index = index /\ StateDict.accepted = accepted
      /\ StateDict.buffers = buffers /\ StateDict.cursor = cursor
      /\ StateDict.delivered = delivered /\ StateDict.taken = taken
  BY DEF StateDict
<1>3. Here.corpus = StateDict /\ Here.output = output /\ Here.want = want /\ Here.phase = "fill"
  BY <1>1 DEF Here, At
<1>4. StepFrom(rows, Here) = EndStep(Here)
  BY <1>1, <1>3 DEF StepFrom
<1>5. EndStep(Here) =
        At([cursors |-> cursors, index |-> index, accepted |-> accepted, buffers |-> buffers,
            cursor |-> cursor + want, delivered |-> delivered \o output, taken |-> taken],
           <<>>, 0, "train")
  BY <1>2, <1>3 DEF EndStep
<1> QED BY <1>1, <1>4, <1>5 DEF Here, StateDict

-----------------------------------------------------------------------------
(* The trace holds what is live and what can be resumed                    *)

SavedPoint == At(saved.corpus, <<>>, 0, "train")
Resumable == saved # NONE /\ Training(saved.trained)

Record(d) == [cursors |-> d.cursors, index |-> d.index, accepted |-> d.accepted,
              buffers |-> d.buffers, cursor |-> d.cursor, delivered |-> d.delivered,
              taken |-> d.taken]

\* Training is where the stream is, and it is over before evaluation begins.
Control ==
  /\ pc = "train" => want = 0
  /\ Live => cursor = trained
  /\ pc = "fill" /\ split = "train" => Training(trained)
  /\ pc = "validate" \/ (pc = "fill" /\ split # "train") => ~ Training(trained)
  /\ Resumable => saved.corpus.cursor = saved.trained
  /\ saved # NONE => saved.corpus = Record(saved.corpus)

Replays ==
  \E g, n : /\ Trace(rows, g, n) /\ stream = g[n].corpus.delivered
            /\ Live => OnTrace(g, n, Here)
            /\ Resumable => OnTrace(g, n, SavedPoint)

ReplayInv == StreamInv /\ Control /\ Replays

LEMMA LongEnough == ASSUME NEW t \in Nat PROVE Least(SequenceLength, TrainTokens - t) >= 2 <=> Training(t)
BY LengthAssumption DEF Least, Training

LEMMA HerePointedNext == ASSUME StreamInv' PROVE Pointed(Here')
<1>1. delivered' \in Seq(Token) /\ output' \in Seq(Token)
  BY DEF StreamInv, CorpusOK, BatchOK, StateDict
<1> QED BY <1>1 DEF StateDict, Here, At, Pointed

LEMMA ReplayInitial == Init => ReplayInv
<1> SUFFICES ASSUME Init PROVE ReplayInv
  OBVIOUS
<1>1. StreamInv
  BY StreamInitial
<1>2. Control
  BY DEF Init, Control, Live, Resumable
<1>3. PICK g : g = [i \in 0 .. 0 |-> Begin]
  OBVIOUS
<1>4. <<>> \in Seq(Token)
  OBVIOUS
<1>5. Begin.corpus.delivered = <<>> /\ Begin.output = <<>>
  BY DEF Begin, At, NewState
<1>6. Trace(rows, g, 0)
  BY <1>3, <1>4, <1>5 DEF Trace, Pointed
<1>7. Replays
  BY <1>3, <1>5, <1>6 DEF Replays, Init, Live, Resumable
<1> QED BY <1>1, <1>2, <1>7 DEF ReplayInv

\* Nothing is added: what is live, or can be resumed, was on the trace before.
LEMMA Stays ==
  ASSUME Replays, rows' = rows, stream' = stream,
         Live' => Here' = Begin \/ (Live /\ Here' = Here) \/ (Resumable /\ Here' = SavedPoint),
         Resumable' => (Resumable /\ SavedPoint' = SavedPoint) \/ (Live /\ SavedPoint' = Here)
  PROVE  Replays'
<1>1. PICK g, n : /\ Trace(rows, g, n) /\ stream = g[n].corpus.delivered
                  /\ Live => OnTrace(g, n, Here)
                  /\ Resumable => OnTrace(g, n, SavedPoint)
  BY DEF Replays
<1>2. OnTrace(g, n, Begin)
  <2>1. g[0] = Begin /\ 0 \in 0 .. n
    BY <1>1 DEF Trace
  <2> QED BY <2>1 DEF OnTrace
<1>3. Live' => OnTrace(g, n, Here')
  BY <1>1, <1>2
<1>4. Resumable' => OnTrace(g, n, SavedPoint')
  BY <1>1
<1>5. Trace(rows', g, n) /\ stream' = g[n].corpus.delivered
  BY <1>1
<1> QED BY <1>3, <1>4, <1>5 DEF Replays

\* A batch under way goes along the trace, or makes it longer.
LEMMA Advances ==
  ASSUME Replays, Live, rows' = rows, stream' = stream, saved' = saved, delivered' = delivered,
         Pointed(Here'), Here' = StepFrom(rows, Here)
  PROVE  Replays'
<1>1. PICK g, n : /\ Trace(rows, g, n) /\ stream = g[n].corpus.delivered
                  /\ OnTrace(g, n, Here)
                  /\ Resumable => OnTrace(g, n, SavedPoint)
  BY DEF Replays
<1>2. PICK k \in 0 .. n : g[k] = Here
  BY <1>1 DEF OnTrace
<1>3. PICK p : p = Here'
  OBVIOUS
<1>4. PICK h, m : /\ Trace(rows, h, m) /\ OnTrace(h, m, p)
                  /\ \A q : OnTrace(g, n, q) => OnTrace(h, m, q)
                  /\ \/ k < n /\ m = n /\ h = g /\ g[k + 1] = p
                     \/ k = n /\ h[m] = p
  <2>1. Trace(rows, g, n) /\ Pointed(p) /\ p = StepFrom(rows, g[k])
    BY <1>1, <1>2, <1>3
  <2> QED BY ONLY <2>1, k \in 0 .. n, TraceGoesOn
<1>5. p.corpus.delivered = delivered /\ Here.corpus.delivered = delivered
  BY <1>3 DEF Here, At, StateDict
<1>6. stream = h[m].corpus.delivered
  BY <1>1, <1>2, <1>4, <1>5
<1>7. Resumable' => OnTrace(h, m, SavedPoint')
  BY <1>1, <1>4 DEF Resumable, SavedPoint
<1>8. Trace(rows', h, m) /\ stream' = h[m].corpus.delivered /\ OnTrace(h, m, Here')
  BY <1>3, <1>4, <1>6
<1> QED BY <1>7, <1>8 DEF Replays

\* Writing a batch over the stream: what the trace already has, it has again.
Written(st, at, length, out) ==
  [n \in 1 .. (IF Len(st) < at + length THEN at + length ELSE Len(st)) |->
     IF at < n /\ n <= at + length THEN out[n - at] ELSE st[n]]

LEMMA AsFunction ==
  ASSUME NEW X, NEW s \in Seq(X) PROVE s = [n \in 1 .. Len(s) |-> s[n]] /\ DOMAIN s = 1 .. Len(s)
<1>1. s \in [1 .. Len(s) -> X]
  OBVIOUS
<1> QED BY ONLY <1>1, Zenon

LEMMA WrittenAgain ==
  ASSUME NEW d \in Seq(Token), NEW out \in Seq(Token), NEW t \in Seq(Token)
  PROVE  Written((d \o out) \o t, Len(d), Len(out), out) = (d \o out) \o t
<1>1. PICK a \in Nat, b \in Nat, c \in Nat : a = Len(d) /\ b = Len(out) /\ c = Len(t)
  OBVIOUS
<1>2. PICK u \in Seq(Token) : u = d \o out /\ Len(u) = a + b
  <2>1. d \o out \in Seq(Token) /\ Len(d \o out) = Len(d) + Len(out)
    BY ONLY d \in Seq(Token), out \in Seq(Token), ConcatPieces
  <2> QED BY ONLY <1>1, <2>1, Zenon
<1>3. PICK st \in Seq(Token) : st = u \o t /\ Len(st) = (a + b) + c
  <2>1. u \o t \in Seq(Token) /\ Len(u \o t) = Len(u) + Len(t)
    BY ONLY u \in Seq(Token), t \in Seq(Token), ConcatPieces
  <2> QED BY ONLY <1>1, <1>2, <2>1, Zenon
<1>4. PICK w : w = Written(st, a, b, out)
  OBVIOUS
<1>5. (IF Len(st) < a + b THEN a + b ELSE Len(st)) = (a + b) + c
  BY <1>3
<1>6. w = [n \in 1 .. (a + b) + c |-> IF a < n /\ n <= a + b THEN out[n - a] ELSE st[n]]
  BY <1>4, <1>5 DEF Written
<1>7. ASSUME NEW n \in 1 .. (a + b) + c PROVE w[n] = st[n]
  <2>1. CASE a < n /\ n <= a + b
    <3>1. PICK m \in 1 .. b : m = n - a /\ n = a + m
      <4>1. n - a \in 1 .. b /\ n = a + (n - a)
        BY <2>1
      <4> QED BY <4>1
    <3>2. u[n] = out[m]
      BY <1>1, <1>2, <3>1, ConcatElements
    <3>3. st[n] = u[n]
      BY <1>2, <1>3, <2>1, ConcatElements
    <3> QED BY <1>6, <2>1, <3>1, <3>2, <3>3
  <2> QED BY <1>6, <2>1
<1>8. DOMAIN st = 1 .. (a + b) + c /\ st = [n \in 1 .. (a + b) + c |-> st[n]]
  <2>1. st = [n \in 1 .. Len(st) |-> st[n]] /\ DOMAIN st = 1 .. Len(st)
    BY ONLY st \in Seq(Token), AsFunction
  <2> QED BY ONLY <1>3, <2>1, Zenon
<1>9. w = [n \in 1 .. (a + b) + c |-> st[n]]
  BY ONLY <1>6, <1>7
<1>10. w = st
  BY ONLY <1>8, <1>9
<1> QED BY <1>1, <1>2, <1>3, <1>4, <1>10

LEMMA WrittenOn ==
  ASSUME NEW d \in Seq(Token), NEW out \in Seq(Token)
  PROVE  Written(d, Len(d), Len(out), out) = d \o out
<1>1. PICK a \in Nat, b \in Nat : a = Len(d) /\ b = Len(out)
  OBVIOUS
<1>2. PICK u \in Seq(Token) : u = d \o out /\ Len(u) = a + b
  <2>1. d \o out \in Seq(Token) /\ Len(d \o out) = Len(d) + Len(out)
    BY ONLY d \in Seq(Token), out \in Seq(Token), ConcatPieces
  <2> QED BY ONLY <1>1, <2>1, Zenon
<1>3. PICK w : w = Written(d, a, b, out)
  OBVIOUS
<1>4. (IF Len(d) < a + b THEN a + b ELSE Len(d)) = a + b
  BY <1>1
<1>5. w = [n \in 1 .. a + b |-> IF a < n /\ n <= a + b THEN out[n - a] ELSE d[n]]
  BY <1>3, <1>4 DEF Written
<1>6. ASSUME NEW n \in 1 .. a + b PROVE w[n] = u[n]
  <2>1. CASE a < n
    <3>1. PICK m \in 1 .. b : m = n - a /\ n = a + m
      <4>1. n - a \in 1 .. b /\ n = a + (n - a)
        BY <2>1
      <4> QED BY <4>1
    <3>2. u[n] = out[m]
      BY <1>1, <1>2, <3>1, ConcatElements
    <3> QED BY <1>5, <2>1, <3>1, <3>2
  <2>2. CASE ~ (a < n)
    <3>1. u[n] = d[n]
      BY <1>1, <1>2, <2>2, ConcatElements
    <3> QED BY <1>5, <2>2, <3>1
  <2> QED BY <2>1, <2>2
<1>7. u = [n \in 1 .. a + b |-> u[n]]
  <2>1. u = [n \in 1 .. Len(u) |-> u[n]]
    BY ONLY u \in Seq(Token), AsFunction
  <2> QED BY ONLY <1>2, <2>1, Zenon
<1>8. w = [n \in 1 .. a + b |-> u[n]]
  BY ONLY <1>5, <1>6
<1>9. w = u
  BY ONLY <1>7, <1>8
<1> QED BY <1>1, <1>2, <1>3, <1>9

LEMMA TrainBatchReplays == ASSUME ReplayInv, TrainBatch, StreamInv' PROVE ReplayInv'
<1> USE DEF ReplayInv
<1>1. /\ pc = "train" /\ rows' = rows /\ stream' = stream /\ saved' = saved /\ trained' = trained
      /\ delivered' = delivered /\ cursor' = cursor /\ split' = "train"
      /\ pc' = IF trained # cursor THEN "down" ELSE "fill"
  BY DEF TrainBatch, Request, corpus
<1>2. trained \in Nat /\ Training(trained)
  <2>1. trained \in Nat
    BY DEF StreamInv
  <2> QED BY <2>1, LongEnough DEF TrainBatch, TrainLength
<1>3. Live /\ cursor = trained
  BY <1>1, <1>2 DEF Live, Control
<1>4. pc' = "fill"
  BY <1>1, <1>3
<1>5. Here' = StepFrom(rows, Here)
  BY <1>3, <1>4, AskIs
<1>6. Replays'
  BY <1>1, <1>3, <1>5, HerePointedNext, Advances
<1>7. Control'
  BY <1>1, <1>2, <1>3, <1>4 DEF Control, Live, Resumable
<1> QED BY <1>6, <1>7

\* A step that fills the batch under way.
LEMMA FillReplays ==
  ASSUME ReplayInv, StreamInv', pc = "fill", pc' \in {"fill", "down"},
         UNCHANGED <<rows, split, cursor, want, trained, saved, delivered, stream>>,
         split = "train" /\ pc' = "fill" => Here' = StepFrom(rows, Here)
  PROVE  ReplayInv'
<1> USE DEF ReplayInv
<1>1. Control'
  BY DEF Control, Live, Resumable
<1>2. CASE split = "train" /\ pc' = "fill"
  <2>1. Live /\ Here' = StepFrom(rows, Here)
    BY <1>2 DEF Live
  <2> QED BY <1>1, <2>1, HerePointedNext, Advances
<1>3. CASE ~ (split = "train" /\ pc' = "fill")
  <2>1. ~ Live'
    BY <1>3 DEF Live
  <2>2. Resumable' => Resumable /\ SavedPoint' = SavedPoint
    BY DEF Resumable, SavedPoint
  <2> QED BY <1>1, <2>1, <2>2, Stays
<1> QED BY <1>2, <1>3

LEMMA TakeReplays == ASSUME ReplayInv, Take, StreamInv' PROVE ReplayInv'
<1>1. /\ pc = "fill" /\ pc' = "fill"
      /\ UNCHANGED <<rows, split, cursor, want, trained, saved, delivered, stream>>
  BY DEF Take, Short
<1>2. Here' = StepFrom(rows, Here)
  BY TakeIs DEF ReplayInv
<1> QED BY <1>1, <1>2, FillReplays

LEMMA NextRecordReplays == ASSUME ReplayInv, NextRecord, StreamInv' PROVE ReplayInv'
<1>1. /\ pc = "fill" /\ pc' \in {"fill", "down"}
      /\ UNCHANGED <<rows, split, cursor, want, trained, saved, delivered, stream>>
  BY DEF NextRecord, Short, corpus
<1>2. split = "train" /\ pc' = "fill" => Here' = StepFrom(rows, Here)
  BY RecordIs DEF ReplayInv
<1> QED BY <1>1, <1>2, FillReplays

\* The batch that ends is what the stream has at its place, or the next of it.
LEMMA EndBatchReplays ==
  ASSUME ReplayInv, EndBatch, StreamInv'
  PROVE  ReplayInv' /\ \E t \in Seq(Token) : stream \in Seq(Token) /\ stream' = stream \o t
<1> USE DEF ReplayInv
<1>1. /\ pc = "fill" /\ Len(output) >= want /\ rows' = rows /\ saved' = saved /\ split' = split
      /\ cursor' = cursor + want /\ delivered' = delivered \o output /\ want' = 0
  BY DEF EndBatch
<1>2. Resumable' => Resumable /\ SavedPoint' = SavedPoint
  BY <1>1 DEF Resumable, SavedPoint
<1>3. PICK g, n : /\ Trace(rows, g, n) /\ stream = g[n].corpus.delivered
                  /\ Live => OnTrace(g, n, Here)
                  /\ Resumable => OnTrace(g, n, SavedPoint)
  BY DEF Replays
<1>4. n \in Nat /\ stream \in Seq(Token)
  BY <1>3 DEF Trace, Pointed
<1>5. CASE split # "train"
  <2>1. pc' = "validate" /\ trained' = trained /\ stream' = stream
    BY <1>5 DEF EndBatch
  <2>2. Control'
    BY <1>1, <1>5, <2>1 DEF Control, Live, Resumable
  <2>3. Replays'
    BY <1>1, <1>2, <2>1, Stays DEF Live
  <2>4. stream' = stream \o <<>> /\ <<>> \in Seq(Token)
    BY <1>4, <2>1
  <2> QED BY <1>4, <2>2, <2>3, <2>4
<1>6. CASE split = "train"
  <2>1. /\ pc' = "train" /\ trained' = trained + want
        /\ stream' = Written(stream, trained, want, output)
    BY <1>6 DEF EndBatch, Written
  <2>2. Live /\ cursor = trained /\ Here' = StepFrom(rows, Here)
    BY <1>1, <1>6, EndIs DEF Live, Control
  <2>3. PICK d \in Seq(Token), out \in Seq(Token) :
          d = delivered /\ out = output /\ Len(d) = trained /\ Len(out) = want
    <3>1. delivered \in Seq(Token) /\ Len(delivered) = cursor
      BY DEF StreamInv, CorpusOK, StateDict
    <3>2. output \in Seq(Token) /\ Len(output) <= want /\ want \in Nat
      BY <1>1 DEF StreamInv, BatchOK
    <3>3. Len(output) = want
      BY <1>1, <3>2
    <3> QED BY <2>2, <3>1, <3>2, <3>3
  <2>4. PICK k \in 0 .. n : g[k] = Here
    BY <1>3, <2>2 DEF OnTrace
  <2>5. PICK p : p = Here' /\ Pointed(p)
    BY HerePointedNext
  <2>6. p.corpus.delivered = d \o out /\ Here.corpus.delivered = d
    BY <1>1, <2>3, <2>5 DEF Here, At, StateDict
  <2>7. PICK h, m : /\ Trace(rows, h, m) /\ OnTrace(h, m, p)
                    /\ \A q : OnTrace(g, n, q) => OnTrace(h, m, q)
                    /\ \/ k < n /\ m = n /\ h = g /\ g[k + 1] = p
                       \/ k = n /\ h[m] = p
    <3>1. Trace(rows, g, n) /\ Pointed(p) /\ p = StepFrom(rows, g[k])
      BY <1>3, <2>2, <2>4, <2>5
    <3> QED BY ONLY <3>1, k \in 0 .. n, TraceGoesOn
  <2>8. stream' = Written(stream, Len(d), Len(out), out)
    BY <2>1, <2>3
  <2>9. /\ stream' = h[m].corpus.delivered
        /\ \E t \in Seq(Token) : stream' = stream \o t
    <3>1. CASE k < n /\ m = n /\ h = g /\ g[k + 1] = p
      <4>1. k + 1 \in 0 .. n /\ n \in 0 .. n /\ k + 1 <= n
        BY <1>4, <3>1
      <4>2. Begins(g[n].corpus.delivered, g[k + 1].corpus.delivered)
        BY <1>3, <4>1, TraceDelivers
      <4>3. PICK t \in Seq(Token) : stream = (d \o out) \o t
        BY <1>3, <2>6, <3>1, <4>2 DEF Begins
      <4>4. stream' = stream
        BY <2>8, <4>3, WrittenAgain
      <4>5. stream = stream \o <<>> /\ <<>> \in Seq(Token)
        BY <1>4
      <4> QED BY <1>3, <3>1, <4>4, <4>5
    <3>2. CASE k = n /\ h[m] = p
      <4>1. stream = d
        BY <1>3, <2>4, <2>6, <3>2
      <4>2. stream' = d \o out
        BY <2>8, <4>1, WrittenOn
      <4> QED BY <2>6, <3>2, <4>1, <4>2
    <3> QED BY <2>7, <3>1, <3>2
  <2>10. Resumable' => OnTrace(h, m, SavedPoint')
    BY <1>2, <1>3, <2>7
  <2>11. Replays'
    BY <1>1, <2>5, <2>7, <2>9, <2>10 DEF Replays
  <2>12. Control'
    BY <1>1, <1>6, <2>1, <2>2 DEF Control, Live, Resumable
  <2> QED BY <1>4, <2>9, <2>11, <2>12
<1> QED BY <1>5, <1>6

LEMMA LaunchReplays == ASSUME ReplayInv, Launch, StreamInv' PROVE ReplayInv'
<1> USE DEF ReplayInv
<1>1. /\ rows' = rows /\ saved' = saved /\ stream' = stream /\ pc' = "train" /\ split' = "train"
      /\ want' = 0 /\ output' = <<>>
  BY DEF Launch
<1>2. Resumable' => Resumable /\ SavedPoint' = SavedPoint
  BY <1>1 DEF Resumable, SavedPoint
<1>3. CASE saved = NONE
  <2>1. trained' = 0 /\ StateDict' = NewState /\ cursor' = 0
    BY <1>3 DEF Launch, LoadStateDict, NewState, StateDict
  <2>2. Here' = Begin
    BY <1>1, <2>1 DEF Here, Begin
  <2>3. Replays'
    BY <1>1, <1>2, <2>2, Stays
  <2> QED BY <1>1, <2>1, <2>3 DEF Control, Live, Resumable
<1>4. CASE saved # NONE
  <2>1. trained' = saved.trained /\ cursor' = saved.corpus.cursor /\ StateDict' = Record(saved.corpus)
    BY <1>4 DEF Launch, LoadStateDict, Record, StateDict
  <2>2. Here' = SavedPoint
    BY <1>1, <1>4, <2>1 DEF Here, SavedPoint, Control
  <2>3. Live' => Resumable
    BY <1>1, <1>4, <2>1 DEF Live, Resumable
  <2>4. Replays'
    BY <1>1, <1>2, <2>2, <2>3, Stays
  <2>5. Live' => cursor' = trained'
    BY <2>1, <2>3 DEF Control
  <2> QED BY <1>1, <2>4, <2>5 DEF Control, Resumable
<1> QED BY <1>3, <1>4

\* A checkpoint of training under way is where the stream is.
LEMMA SaveReplays ==
  ASSUME ReplayInv, StreamInv', pc \in {"train", "validate"},
         UNCHANGED <<rows, split, corpus, want, output, trained, stream>>,
         pc' \in {pc, "down", "done"},
         saved' = saved \/ saved' = [trained |-> trained, corpus |-> StateDict]
  PROVE  ReplayInv'
<1> USE DEF ReplayInv
<1>1. StateDict' = StateDict /\ cursor' = cursor
  BY SameStateDict DEF corpus
<1>2. Live' => Live /\ Here' = Here
  BY <1>1 DEF Live, Here
<1>3. CASE saved' = saved
  <2>1. Resumable' => Resumable /\ SavedPoint' = SavedPoint
    BY <1>3 DEF Resumable, SavedPoint
  <2>2. Replays'
    BY <1>2, <2>1, Stays
  <2>3. Control'
    BY <1>1, <1>2, <1>3 DEF Control, Resumable, Live
  <2> QED BY <2>2, <2>3
<1>4. CASE saved' = [trained |-> trained, corpus |-> StateDict]
  <2>1. saved'.trained = trained /\ saved'.corpus = StateDict
    BY <1>4
  <2>2. Resumable' => pc = "train" /\ Training(trained)
    BY <2>1 DEF Resumable, Control
  <2>3. pc = "train" => output = <<>> /\ want = 0
    BY DEF StreamInv, BatchOK, Control
  <2>4. Resumable' => Live /\ SavedPoint' = Here
    BY <2>1, <2>2, <2>3 DEF SavedPoint, Here, Live
  <2>5. Replays'
    BY <1>2, <2>4, Stays
  <2>6. saved'.corpus.cursor = cursor /\ saved'.corpus = Record(saved'.corpus)
    BY <2>1 DEF StateDict, Record
  <2>7. Control'
    BY <1>1, <1>2, <2>1, <2>4, <2>6 DEF Control, Live
  <2> QED BY <2>5, <2>7
<1> QED BY <1>3, <1>4

\* A step that neither trains nor saves.
LEMMA RestReplays ==
  ASSUME ReplayInv, StreamInv', UNCHANGED <<rows, trained, saved, stream>>, ~ Live',
         pc' = "train" => want' = 0,
         pc' = "fill" => split' # "train",
         pc' = "validate" \/ pc' = "fill" => ~ Training(trained)
  PROVE  ReplayInv'
<1> USE DEF ReplayInv
<1>1. Resumable' => Resumable /\ SavedPoint' = SavedPoint
  BY DEF Resumable, SavedPoint
<1>2. Replays'
  BY <1>1, Stays
<1>3. Control'
  BY DEF Control, Resumable
<1> QED BY <1>2, <1>3

LEMMA ReplayStep == ASSUME ReplayInv, [Next]_vars PROVE ReplayInv'
<1> USE DEF ReplayInv
<1>0. StreamInv'
  BY StreamStep
<1>1. CASE Launch
  BY <1>0, <1>1, LaunchReplays
<1>2. CASE TrainBatch
  BY <1>0, <1>2, TrainBatchReplays
<1>3. CASE Take
  BY <1>0, <1>3, TakeReplays
<1>4. CASE NextRecord
  BY <1>0, <1>4, NextRecordReplays
<1>5. CASE EndBatch
  BY <1>0, <1>5, EndBatchReplays
<1>6. CASE Checkpoint
  <2>1. /\ pc = "train" /\ pc' = pc /\ saved' = [trained |-> trained, corpus |-> StateDict]
        /\ UNCHANGED <<rows, split, corpus, want, output, trained, stream>>
    BY <1>6 DEF Checkpoint
  <2> QED BY <1>0, <2>1, SaveReplays
<1>7. CASE Evaluate
  <2>1. /\ UNCHANGED <<rows, trained, saved, stream>> /\ pc' = "validate"
        /\ TrainLength < 2 /\ trained \in Nat
    BY <1>7 DEF Evaluate, StreamInv
  <2>2. ~ Training(trained)
    <3>1. TrainLength \in Int
      BY <2>1, LengthAssumption DEF TrainLength, Least
    <3> QED BY <2>1, <3>1, LongEnough DEF TrainLength
  <2>3. ~ Live'
    BY <2>1 DEF Live
  <2> QED BY <1>0, <2>1, <2>2, <2>3, RestReplays
<1>8. CASE ValidationBatch
  <2>1. /\ UNCHANGED <<rows, trained, saved, stream>> /\ pc = "validate" /\ pc' \in {"down", "fill"}
        /\ split' = "architecture_validation"
    BY <1>8 DEF ValidationBatch, Request
  <2>2. ~ Live' /\ ~ Training(trained)
    BY <2>1 DEF Live, Control
  <2> QED BY <1>0, <2>1, <2>2, RestReplays
<1>9. CASE Finish
  <2>1. /\ pc = "validate" /\ pc' \in {"down", "done"}
        /\ saved' = saved \/ saved' = [trained |-> trained, corpus |-> StateDict]
        /\ UNCHANGED <<rows, split, corpus, want, output, trained, stream>>
    BY <1>9 DEF Finish
  <2> QED BY <1>0, <2>1, SaveReplays
<1>10. CASE Die
  <2>1. UNCHANGED <<rows, trained, saved, stream>> /\ pc' = "down"
    BY <1>10 DEF Die
  <2>2. ~ Live'
    BY <2>1 DEF Live
  <2> QED BY <1>0, <2>1, <2>2, RestReplays
<1>11. CASE UNCHANGED vars
  <2>1. /\ UNCHANGED <<rows, pc, split, corpus, want, output, trained, saved, stream>>
        /\ cursor' = cursor
    BY <1>11 DEF vars, corpus
  <2>2. StateDict' = StateDict
    BY <2>1, SameStateDict
  <2>3. Live' = Live /\ Here' = Here /\ Resumable' = Resumable /\ SavedPoint' = SavedPoint
    BY <2>1, <2>2 DEF Live, Here, Resumable, SavedPoint
  <2>4. Replays'
    BY <2>1, <2>3, Stays
  <2>5. Control'
    BY <2>1, <2>3 DEF Control
  <2> QED BY <1>0, <2>4, <2>5
<1> QED BY <1>1, <1>2, <1>3, <1>4, <1>5, <1>6, <1>7, <1>8, <1>9, <1>10, <1>11 DEF Next, Process

\* Over all launches, a training position that is run again gets the token it
\* had the first time: what is live, and what can be resumed, are points of one
\* training that was never interrupted.
THEOREM ReplaysIdentically == Spec => ReplayIdentical
<1>1. ReplayInv /\ [Next]_vars =>
        [\A n \in DOMAIN stream : n \in DOMAIN stream' /\ stream'[n] = stream[n]]_stream
  <2> SUFFICES ASSUME ReplayInv, [Next]_vars, stream' # stream
               PROVE  \A n \in DOMAIN stream : n \in DOMAIN stream' /\ stream'[n] = stream[n]
    OBVIOUS
  <2>1. EndBatch
    BY DEF Next, Process, vars, Launch, TrainBatch, Take, NextRecord, Checkpoint, Evaluate,
           ValidationBatch, Finish, Die, Request
  <2>2. StreamInv'
    BY StreamStep DEF ReplayInv
  <2>3. PICK t \in Seq(Token) : stream \in Seq(Token) /\ stream' = stream \o t
    BY <2>1, <2>2, EndBatchReplays
  <2>4. PICK st \in Seq(Token) : st = stream
    BY <2>3
  <2>5. /\ Len(st \o t) = Len(st) + Len(t) /\ st \o t \in Seq(Token)
        /\ \A n \in 1 .. Len(st) : (st \o t)[n] = st[n]
    BY ONLY st \in Seq(Token), t \in Seq(Token), ConcatPieces, ConcatElements
  <2>6. \A n \in DOMAIN st : n \in DOMAIN (st \o t) /\ (st \o t)[n] = st[n]
    BY <2>5
  <2> QED BY <2>3, <2>4, <2>6
<1>2. Init => ReplayInv
  BY ReplayInitial
<1>3. ReplayInv /\ [Next]_vars => ReplayInv'
  BY ReplayStep
<1> QED BY <1>1, <1>2, <1>3, PTL DEF Spec, ReplayIdentical
=============================================================================
