---------------------------- MODULE LockedCorpus ----------------------------
(***************************************************************************)
(* CompositionLockedCorpus (data/corpus.py): the stream of tokens every    *)
(* candidate of a screen is trained and scored on.  The sources take turns *)
(* by blocks, on a cycle that holds each as often as its weight says.      *)
(*                                                                         *)
(* A token is the source, the variant of its template and the phase in     *)
(* that variant it is read at: the screens always give a tokenizer, so the *)
(* scrambled integers the stream falls back on are left out.               *)
(***************************************************************************)
EXTENDS Integers, FiniteSets, SequencesExt

CONSTANTS
  Weight,          \* source_weights, in percent, in the order of the sources
  BlockTokens,     \* source_block_tokens
  SequenceLength,  \* --sequence-length
  CorpusSeed       \* CorpusSpec.seed

\* CorpusSpec.__post_init__, and what batch() asks of the length
ValidSpec ==
  /\ Weight \in Seq(Nat)
  /\ SumFunction(Weight) = 100
  /\ SequenceLength \in Nat /\ SequenceLength >= 2
  /\ BlockTokens \in Nat \ {0}
  /\ CorpusSeed \in Nat

ASSUME SpecAssumption == ValidSpec

Least(a, b) == IF a <= b THEN a ELSE b

\* math.gcd of the counts, of which some is positive
Divisor ==
  CHOOSE d \in 1 .. 100 :
    /\ \A s \in DOMAIN Weight : Weight[s] % d = 0
    /\ \A e \in d + 1 .. 100 : \E s \in DOMAIN Weight : Weight[s] % e # 0

Slots(s) == Weight[s] \div Divisor

\* _cycle
Cycle == FlattenSeq([s \in DOMAIN Weight |-> [i \in 1 .. Slots(s) |-> s]])

\* The cycle of the held-out stream is rotated.
SourceAt(index, validation) ==
  LET offset == CorpusSeed + (IF validation THEN 7919 ELSE 0)
  IN  Cycle[((index \div BlockTokens + offset) % Len(Cycle)) + 1]

\* _build_source_tokens makes 64 texts of each source.
Variants == 64

\* The phase is taken modulo the length of the text.
Token(absolute, validation) ==
  LET block == absolute \div BlockTokens
  IN  [source  |-> SourceAt(absolute, validation),
       variant |-> block % Variants,
       phase   |-> block * 17 + absolute]

\* _tokens
Tokens(start, count, validation) == [i \in 1 .. count |-> Token(start + i - 1, validation)]

\* source_histogram
Histogram(tokens) ==
  [s \in DOMAIN Weight |-> Cardinality({i \in DOMAIN tokens : tokens[i].source = s})]

\* iter_batches of the held-out stream: whole batches only.
WholeBatches(budget, start) ==
  [i \in 1 .. (budget - start) \div SequenceLength |->
     [cursor |-> start + (i - 1) * SequenceLength, length |-> SequenceLength]]

=============================================================================
