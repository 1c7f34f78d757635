----------------------------- MODULE RealCorpus -----------------------------
(***************************************************************************)
(* RealStreamingCorpus (data/real_corpus.py) and the way a candidate of    *)
(* run_real_ablations.py uses it: batches for training, then a reset and   *)
(* batches of the validation split, with checkpoints that carry its state  *)
(* and a process that may die anywhere and is run again.                   *)
(*                                                                         *)
(* A row is what next_record tells apart: the split its repository hashes  *)
(* to, its text, what becomes of it and the number of tokens it encodes    *)
(* to.  A token is named by its row, its offset and the sample index that  *)
(* decided on its fill-in-the-middle form.                                 *)
(***************************************************************************)
EXTENDS Integers, Sequences, SequencesExt

CONSTANTS
  Sources,           \* source names
  Cycle,             \* the slots of _cycle, a sequence of sources
  BlockTokens,       \* source_block_tokens
  Corpora,           \* the contents considered: rows of each source
  Similar,           \* pairs of texts the duplicate index takes for equal
  SequenceLength,
  TrainTokens,       \* train_tokens of the candidate
  ValidationTokens,  \* validation_tokens of the candidate
  MaxFaults,         \* bound on faults and reruns
  NONE

Verdicts == {"text", "filtered", "missing", "resolved"}
Splits == {"train", "recovery_validation", "architecture_validation"}

ASSUME CycleAssumption == Cycle \in Seq(Sources) /\ Cycle # <<>>
ASSUME CorporaAssumption ==
  \A c \in Corpora : \A s \in Sources :
    /\ c[s] \in Seq(Range(c[s]))
    /\ \A row \in Range(c[s]) : row.tokens \in Nat
ASSUME LengthAssumption ==
  /\ BlockTokens \in Nat \ {0}              \* real_corpus.py:141
  /\ SequenceLength \in Nat \ {0, 1}
  /\ TrainTokens \in Nat /\ ValidationTokens \in Nat /\ MaxFaults \in Nat

VARIABLES
  rows,       \* the corpus, one of Corpora
  pc,         \* "down", "train", "fill", "validate" or "done"
  split,      \* requested_split
  cursors,    \* _source_cursors
  index,      \* the texts in _DuplicateIndex
  accepted,   \* _accepted
  buffers,    \* _token_buffers
  cursor,     \* _token_cursor
  want,       \* the length of the batch under way
  output,     \* its tokens so far
  trained,    \* token_cursor of the training loop
  saved,      \* the last checkpoint, or NONE
  delivered,  \* history: the tokens handed out since the last reset
  taken,      \* history: the rows accepted since the stream was new
  stream,     \* history: the training tokens by position, over all launches
  faults      \* faults and reruns so far

vars == <<rows, pc, split, cursors, index, accepted, buffers, cursor, want, output,
          trained, saved, delivered, taken, stream, faults>>
corpus == <<cursors, index, accepted, buffers, cursor, delivered, taken>>

Least(a, b) == IF a <= b THEN a ELSE b

-----------------------------------------------------------------------------
\* The state of a new corpus, and of one under way (state_dict).
NewState ==
  [cursors |-> [s \in Sources |-> 0], index |-> {}, accepted |-> 0,
   buffers |-> [s \in Sources |-> <<>>], cursor |-> 0, delivered |-> <<>>, taken |-> <<>>]

StateDict ==
  [cursors |-> cursors, index |-> index, accepted |-> accepted, buffers |-> buffers,
   cursor |-> cursor, delivered |-> delivered, taken |-> taken]

Init ==
  /\ rows \in Corpora
  /\ cursors = NewState.cursors /\ index = {} /\ accepted = 0
  /\ buffers = NewState.buffers /\ cursor = 0
  /\ delivered = <<>> /\ taken = <<>>
  /\ pc = "down"
  /\ split = "train"
  /\ want = 0 /\ output = <<>>
  /\ trained = 0
  /\ saved = NONE
  /\ stream = <<>>
  /\ faults = 0

\* The slot of a token position.
SourceAt(n) == Cycle[((n \div BlockTokens) % Len(Cycle)) + 1]

\* Mutant: the sample counter is not restored.
LoadStateDictNoCount(d) ==
  /\ cursors' = d.cursors /\ index' = d.index /\ accepted' = 0
  /\ buffers' = d.buffers /\ cursor' = d.cursor
  /\ delivered' = d.delivered /\ taken' = d.taken

LoadStateDict(d) ==
  /\ cursors' = d.cursors /\ index' = d.index /\ accepted' = d.accepted
  /\ buffers' = d.buffers /\ cursor' = d.cursor
  /\ delivered' = d.delivered /\ taken' = d.taken

\* The script is run: a new corpus, and the state of the checkpoint if there is
\* one.  (The checkpoint of step 0 carries none.)
Launch ==
  /\ pc = "down"
  /\ pc' = "train"
  /\ split' = "train"
  /\ IF saved = NONE
       THEN trained' = 0 /\ LoadStateDict(NewState)
       ELSE trained' = saved.trained /\ LoadStateDict(saved.corpus)
  /\ want' = 0 /\ output' = <<>>
  /\ UNCHANGED <<rows, saved, stream, faults>>

-----------------------------------------------------------------------------
(* token_batch                                                             *)

\* The length of the next training batch.
TrainLength == Least(SequenceLength, TrainTokens - trained)

\* token_batch is called, and refuses a cursor that is not the stream's.
Request(at, n, s) ==
  /\ IF at # cursor THEN pc' = "down" ELSE pc' = "fill"
  /\ split' = s
  /\ want' = n
  /\ output' = <<>>
  /\ UNCHANGED <<rows, corpus, trained, saved, stream, faults>>

TrainBatch ==
  /\ pc = "train"
  /\ trained < TrainTokens
  /\ TrainLength >= 2
  /\ Request(trained, TrainLength, "train")

Absolute == cursor + Len(output)
Current == SourceAt(Absolute)
Buffer == buffers[Current]
BlockRemaining == BlockTokens - (Absolute % BlockTokens)

Short == pc = "fill" /\ Len(output) < want

\* Mutant: a buffer is emptied past its block.
TakeWholeBuffer ==
  /\ Short
  /\ Buffer # <<>>
  /\ LET n == Least(want - Len(output), Len(Buffer))
     IN  /\ output' = output \o SubSeq(Buffer, 1, n)
         /\ buffers' = [buffers EXCEPT ![Current] = SubSeq(Buffer, n + 1, Len(Buffer))]
  /\ UNCHANGED <<rows, pc, split, cursors, index, accepted, cursor, want, trained, saved,
                 delivered, taken, stream, faults>>

\* Mutant: what is left of a buffer at the end of its block is dropped.
TakeAndDrop ==
  /\ Short
  /\ Buffer # <<>>
  /\ LET n == Least(Least(want - Len(output), BlockRemaining), Len(Buffer))
     IN  output' = output \o SubSeq(Buffer, 1, n)
  /\ buffers' = [buffers EXCEPT ![Current] = <<>>]
  /\ UNCHANGED <<rows, pc, split, cursors, index, accepted, cursor, want, trained, saved,
                 delivered, taken, stream, faults>>

Take ==
  /\ Short
  /\ Buffer # <<>>
  /\ LET n == Least(Least(want - Len(output), BlockRemaining), Len(Buffer))
     IN  /\ output' = output \o SubSeq(Buffer, 1, n)
         /\ buffers' = [buffers EXCEPT ![Current] = SubSeq(Buffer, n + 1, Len(Buffer))]
  /\ UNCHANGED <<rows, pc, split, cursors, index, accepted, cursor, want, trained, saved,
                 delivered, taken, stream, faults>>

\* The tokens of row r of source s, transformed as the given sample.
Encoded(s, r, sample) ==
  [k \in 1 .. rows[s][r].tokens |-> [source |-> s, row |-> r, k |-> k, sample |-> sample]]

Duplicate(text) == \E t \in index : <<t, text>> \in Similar

\* Mutant: an exhausted source is not rewound but read at its end again.
NextIndexStuck ==
  IF cursors[Current] >= 1 THEN Least(cursors[Current], Len(rows[Current])) ELSE 1

\* The row under the cursor, after rewinding a source that is exhausted.
NextIndex == IF cursors[Current] >= Len(rows[Current]) THEN 1 ELSE cursors[Current] + 1

\* One turn of next_record's loop: a row of another split, one that is filtered
\* and one that duplicates a row of the index are skipped; a row without text
\* raises, and so does one whose text had to be resolved, but only after it
\* has been counted and indexed.
NextRecord ==
  /\ Short
  /\ Buffer = <<>>
  /\ IF rows[Current] = <<>>
       THEN pc' = "down" /\ UNCHANGED corpus
       ELSE LET row  == rows[Current][NextIndex]
                mine == row.split = split
            IN  /\ cursors' = [cursors EXCEPT ![Current] = NextIndex]
                /\ IF mine /\ row.verdict # "filtered" /\ row.verdict # "missing"
                      /\ ~ Duplicate(row.text)
                     THEN /\ index' = index \cup {row.text}
                          /\ accepted' = accepted + 1
                          /\ taken' = Append(taken, [source |-> Current, row |-> NextIndex])
                          /\ IF row.verdict = "text"
                               THEN /\ buffers' = [buffers EXCEPT ![Current] =
                                                     Encoded(Current, NextIndex, accepted)]
                                    /\ UNCHANGED pc
                               ELSE pc' = "down" /\ UNCHANGED buffers
                     ELSE /\ pc' = IF mine /\ row.verdict = "missing" THEN "down" ELSE pc
                          /\ UNCHANGED <<index, accepted, taken, buffers>>
                /\ UNCHANGED <<cursor, delivered>>
  /\ UNCHANGED <<rows, split, want, output, trained, saved, stream, faults>>

\* The batch is handed to the training step, or to evaluate.
EndBatch ==
  /\ pc = "fill"
  /\ Len(output) >= want
  /\ cursor' = cursor + want
  /\ delivered' = delivered \o output
  /\ IF split = "train"
       THEN /\ pc' = "train"
            /\ trained' = trained + want
            /\ stream' = [n \in 1 .. (IF Len(stream) < trained + want
                                        THEN trained + want ELSE Len(stream)) |->
                            IF trained < n /\ n <= trained + want
                              THEN output[n - trained] ELSE stream[n]]
       ELSE pc' = "validate" /\ UNCHANGED <<trained, stream>>
  /\ output' = <<>>
  /\ want' = 0
  /\ UNCHANGED <<rows, split, cursors, index, accepted, buffers, taken, saved, faults>>

-----------------------------------------------------------------------------
(* The candidate                                                           *)

\* A checkpoint after a training step: by interval or because of a stop.
Checkpoint ==
  /\ pc = "train"
  /\ trained > 0
  /\ saved' = [trained |-> trained, corpus |-> StateDict]
  /\ saved' # saved
  /\ UNCHANGED <<rows, pc, split, corpus, want, output, trained, stream, faults>>

\* Mutant: evaluation starts from a new index.
EvaluateForgets ==
  /\ pc = "train"
  /\ TrainLength < 2
  /\ pc' = "validate"
  /\ cursors' = NewState.cursors /\ buffers' = NewState.buffers
  /\ index' = {}
  /\ accepted' = 0 /\ cursor' = 0 /\ delivered' = <<>>
  /\ UNCHANGED <<rows, split, taken, want, output, trained, saved, stream, faults>>

\* evaluate: reset(preserve_index=True), then iter_token_batches from 0.
Evaluate ==
  /\ pc = "train"
  /\ TrainLength < 2
  /\ pc' = "validate"
  /\ cursors' = NewState.cursors /\ buffers' = NewState.buffers
  /\ accepted' = 0 /\ cursor' = 0 /\ delivered' = <<>>
  /\ UNCHANGED <<rows, split, index, taken, want, output, trained, saved, stream, faults>>

ValidationBatch ==
  /\ pc = "validate"
  /\ cursor + SequenceLength <= ValidationTokens
  /\ Request(cursor, SequenceLength, "architecture_validation")

\* The final checkpoint, unless there was nothing to evaluate.
Finish ==
  /\ pc = "validate"
  /\ cursor + SequenceLength > ValidationTokens
  /\ IF cursor = 0
       THEN pc' = "down" /\ UNCHANGED saved
       ELSE pc' = "done" /\ saved' = [trained |-> trained, corpus |-> StateDict]
  /\ UNCHANGED <<rows, split, corpus, want, output, trained, stream, faults>>

\* The process dies, or a completed candidate is run again.
Die ==
  /\ faults < MaxFaults
  /\ faults' = faults + 1
  /\ pc # "down"
  /\ pc' = "down"
  /\ UNCHANGED <<rows, split, corpus, want, output, trained, saved, stream>>

-----------------------------------------------------------------------------
Process ==
  \/ Launch \/ TrainBatch \/ Take \/ NextRecord \/ EndBatch
  \/ Checkpoint \/ Evaluate \/ ValidationBatch \/ Finish

Next == Process \/ Die

Spec == Init /\ [][Next]_vars

\* token_batch runs on until it returns or raises.
FairSpec == Spec /\ WF_vars(Take \/ NextRecord \/ EndBatch)

-----------------------------------------------------------------------------
(* Properties                                                              *)

\* The composition is exact: whatever the batch lengths, and whether a batch is
\* the first after a resume, every position holds a token of its slot's source.
CompositionExact ==
  LET given == delivered \o output
  IN  \A n \in DOMAIN given : given[n].source = SourceAt(n - 1)

OfSource(s, tokens) ==
  FlattenSeq([n \in DOMAIN tokens |-> IF tokens[n].source = s THEN <<tokens[n]>> ELSE <<>>])

\* The rows accepted since the last reset, with the sample index of each.
Samples ==
  [i \in 1 .. accepted |-> [row |-> taken[(Len(taken) - accepted) + i], sample |-> i - 1]]

\* No accepted text is cut, repeated or mixed up: what a source has handed out
\* and what waits in its buffer are the tokens of its accepted rows, in order,
\* each row under its own sample index, across batches, blocks and resumes.
TokensConserved ==
  pc # "down" =>
    \A s \in Sources :
      OfSource(s, delivered \o output) \o buffers[s] =
        FlattenSeq([i \in 1 .. accepted |->
                      IF Samples[i].row.source = s
                        THEN Encoded(s, Samples[i].row.row, Samples[i].sample) ELSE <<>>])

TextOf(x) == rows[x.source][x.row].text

\* No text is used twice, not even in a near-duplicate, another source or
\* another split: what the candidate is validated on it was not trained on.
NoTextTwice ==
  \A i, j \in DOMAIN taken : i < j => <<TextOf(taken[i]), TextOf(taken[j])>> \notin Similar

\* Resuming is exact: a training position that is run again, from whatever
\* checkpoint, gets the token it had the first time.
ReplayIdentical ==
  [][\A n \in DOMAIN stream : n \in DOMAIN stream' /\ stream'[n] = stream[n]]_stream

\* A batch is returned or refused: next_record does not search for ever.
BatchAnswered == (pc = "fill") ~> (pc # "fill")

=============================================================================
