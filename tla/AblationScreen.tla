--------------------------- MODULE AblationScreen ---------------------------
(***************************************************************************)
(* The screens that train every candidate architecture in turn and select  *)
(* one (scripts/run_bert_ablations.py, scripts/run_real_ablations.py): the *)
(* checkpoint each candidate resumes from, the archive that keeps only the *)
(* best one, the report a later launch continues from, and the selection;  *)
(* with kills between any two writes, and launches after them.             *)
(*                                                                         *)
(* The two drivers differ in what a launch reads (only BERT's reads the    *)
(* report) and in what a fresh candidate writes (only the real one saves   *)
(* step 0, and may keep the initialisation the candidates share).  Both    *)
(* are on the composition-locked stream.  Kills inside the write of the    *)
(* checkpoint pointer are CheckpointStore's subject: here it is one step   *)
(* with the rename.                                                        *)
(***************************************************************************)
EXTENDS LockedCorpus

CONSTANTS
  NumOptions,     \* len(OPTIONS)
  Screens,        \* screens to check: [bert, archives, cached]
  OneKV,          \* the candidates that share an initialisation
  TrainTokens,    \* train_tokens
  ValidationTokens,
  Interval,       \* --checkpoint-interval, in steps
  Losses,         \* validation losses a candidate may reach
  Seed,           \* --seed
  ScreenKills,    \* bound on deaths
  Missing, Torn, Partial, Whole  \* no such file or directory; one cut short; complete

ASSUME ScreenAssumption ==
  /\ NumOptions \in Nat \ {0} /\ Interval \in Nat \ {0}
  /\ TrainTokens \in Nat /\ ValidationTokens \in Nat
  /\ Losses \subseteq Int /\ {Missing, Partial} \cap Losses = {} /\ Missing # Partial

VARIABLES
  screen,     \* the driver and whether it was given an archive root and --init-cache
  at,         \* where the process is
  option,     \* option_index of the candidate it is at, from 1
  training,   \* [step, cursor]; history: seen, the tokens the weights were trained on
  heldOut,    \* [loss, batches] of the validation just done
  results,    \* in memory
  report,     \* --output: Missing, Torn, or what results were
  initCache,  \* the --init-cache file
  checkpoint, \* candidate -> training at its loadable latest checkpoint, or Missing
  archive,    \* candidate -> Missing, Partial, or the loss of what is archived
  selection,  \* the selection file
  cut,        \* history: a death no later launch recovers from by itself
  stops

screenVars == <<screen, at, option, training, heldOut, results, report, initCache, checkpoint,
                archive, selection, cut, stops>>

files == <<report, initCache, checkpoint, archive, selection>>

Options == 1 .. NumOptions

-----------------------------------------------------------------------------
\* _mask_generator: what the masks of a batch are drawn from.
MaskGenerator(seed, cursor, validation) ==
  [domain |-> seed + IF validation THEN 23063 ELSE 0, cursor |-> cursor]

\* The lengths the screens cut: what is left of the budget, at most a sequence.
NextLength(cursor, end) == Least(SequenceLength, end - cursor)

\* The held-out batches start at train_tokens.  BERT's include a shorter last one.
HeldOutCursors ==
  LET end == TrainTokens + ValidationTokens
      whole == WholeBatches(end, TrainTokens)
      next == TrainTokens + Len(whole) * SequenceLength
  IN  IF screen.bert /\ NextLength(next, end) >= 2
      THEN Append(whole, [cursor |-> next, length |-> NextLength(next, end)])
      ELSE whole

\* make_mlm_batch of each: its tokens and what its masks are drawn from.
HeldOutBatches(index) ==
  [i \in DOMAIN HeldOutCursors |->
     LET c == HeldOutCursors[i]
     IN  [tokens |-> Tokens(c.cursor, c.length, TRUE),
          mask   |-> IF screen.bert THEN MaskGenerator(Seed + index - 1, c.cursor, TRUE)
                     ELSE Missing]]

\* min(...): the first of the lowest.
Best(rows) ==
  CHOOSE i \in DOMAIN rows :
    /\ \A j \in DOMAIN rows : rows[i].loss <= rows[j].loss
    /\ \A j \in 1 .. i - 1 : rows[j].loss > rows[i].loss

\* Mutant: also rows that have lost their checkpoint before.
LosersAgain(rows) == DOMAIN rows \ {Best(rows)}

\* retain_only_best_archive: the rows that lose their checkpoint.
Losers(rows) == {i \in DOMAIN rows \ {Best(rows)} : rows[i].kept}

Pruned(rows) == [i \in DOMAIN rows |-> [rows[i] EXCEPT !.kept = i = Best(rows)]]

Reported(rows, index) == \E i \in DOMAIN rows : rows[i].option = index

-----------------------------------------------------------------------------
Fresh == [step |-> 0, cursor |-> 0, seen |-> <<>>]

ScreenInit ==
  /\ screen \in Screens
  /\ at = "dead" /\ option = 1 /\ training = Fresh /\ heldOut = Missing
  /\ results = <<>>
  /\ report = Missing /\ initCache = Missing
  /\ checkpoint = [o \in Options |-> Missing]
  /\ archive = [o \in Options |-> Missing]
  /\ selection = Missing
  /\ cut = FALSE
  /\ stops = 0

\* A torn report does not parse: the launch raises and changes nothing.
LaunchScreen ==
  /\ at = "dead"
  /\ screen.bert => report # Torn
  /\ results' = IF screen.bert /\ report # Missing THEN report ELSE <<>>
  /\ at' = "next" /\ option' = 1
  /\ UNCHANGED <<screen, training, heldOut, files, cut, stops>>

\* A candidate in the report is skipped.
NextOption ==
  /\ at = "next"
  /\ \/ option > NumOptions /\ at' = "select" /\ UNCHANGED option
     \/ option <= NumOptions /\ Reported(results, option) /\ option' = option + 1 /\ UNCHANGED at
     \/ option <= NumOptions /\ ~ Reported(results, option) /\ at' = "load" /\ UNCHANGED option
  /\ UNCHANGED <<screen, training, heldOut, results, files, cut, stops>>

\* The first candidate leaves its initialisation for the others, in place.
\* A file cut short does not load.
LoadOption ==
  /\ at = "load"
  /\ IF ~ (screen.cached /\ option \in OneKV) \/ initCache = Whole
     THEN at' = "start" /\ UNCHANGED initCache
     ELSE IF initCache = Torn
     THEN at' = "dead" /\ UNCHANGED initCache
     ELSE IF option = 1
     THEN at' = "initialise" /\ initCache' = Torn
     ELSE at' = "start" /\ UNCHANGED initCache
  /\ UNCHANGED <<screen, option, training, heldOut, results, report, checkpoint, archive,
                 selection,
                 cut, stops>>

SaveInitialisation ==
  /\ at = "initialise"
  /\ initCache' = Whole /\ at' = "start"
  /\ UNCHANGED <<screen, option, training, heldOut, results, report, checkpoint, archive,
                 selection,
                 cut, stops>>

\* Mutant: the corpus is read from its start again.
StartOptionRewound ==
  /\ at = "start"
  /\ training' = IF checkpoint[option] = Missing THEN Fresh
                 ELSE [checkpoint[option] EXCEPT !.cursor = 0]
  /\ checkpoint' = IF screen.bert THEN checkpoint ELSE [checkpoint EXCEPT ![option] = training']
  /\ at' = "train"
  /\ UNCHANGED <<screen, option, heldOut, results, report, initCache, archive, selection,
                 cut, stops>>

\* A candidate resumes from its checkpoint.
StartOption ==
  /\ at = "start"
  /\ training' = IF checkpoint[option] = Missing THEN Fresh ELSE checkpoint[option]
  /\ checkpoint' = IF screen.bert THEN checkpoint ELSE [checkpoint EXCEPT ![option] = training']
  /\ at' = "train"
  /\ UNCHANGED <<screen, option, heldOut, results, report, initCache, archive, selection,
                 cut, stops>>

\* A last token alone is left out.
TrainDone == NextLength(training.cursor, TrainTokens) < 2

\* A batch, the periodic save, and on a preemption another save before the exit.
TrainBatch(stopRequested) ==
  /\ at = "train" /\ ~ TrainDone
  /\ stopRequested => stops < ScreenKills
  /\ LET length == NextLength(training.cursor, TrainTokens)
     IN  training' = [step |-> training.step + 1, cursor |-> training.cursor + length,
                 seen |-> training.seen \o Tokens(training.cursor, length, FALSE)]
  /\ at' = IF stopRequested THEN "preempted" ELSE "train"
  /\ checkpoint' = IF stopRequested \/ training'.step % Interval = 0
                   THEN [checkpoint EXCEPT ![option] = training'] ELSE checkpoint
  /\ UNCHANGED <<screen, option, heldOut, results, report, initCache, archive, selection,
                 cut, stops>>

EvaluateOption(loss) ==
  /\ at = "train" /\ TrainDone
  /\ heldOut' = [loss |-> loss, batches |-> HeldOutBatches(option)]
  /\ at' = "trained"
  /\ UNCHANGED <<screen, option, training, results, files, cut, stops>>

\* What no later launch gets past: an initialisation cut short; BERT's, a move
\* begun whose result is not in the report; the real one's, which reports from
\* the start again, any archive.
CutsOff ==
  \/ initCache = Torn
  \/ IF screen.bert THEN at \in {"move", "record", "report", "write"}
     ELSE \E o \in Options : archive[o] # Missing

Dies ==
  /\ at' = "dead"
  /\ cut' = (cut \/ CutsOff)
  /\ stops' = stops + 1

\* CheckpointManager.save of a step that is already there removes it first.
ClearCheckpoint ==
  /\ at \in {"preempted", "trained"}
  /\ at' = IF at = "preempted" THEN "replace_preempted" ELSE "replace"
  /\ checkpoint' = IF checkpoint[option] # Missing /\ checkpoint[option].step = training.step
                   THEN [checkpoint EXCEPT ![option] = Missing] ELSE checkpoint
  /\ UNCHANGED <<screen, option, training, heldOut, results, report, initCache, archive,
                 selection, cut, stops>>

ReplaceCheckpoint ==
  /\ at \in {"replace_preempted", "replace"}
  /\ checkpoint' = [checkpoint EXCEPT ![option] = training]
  /\ IF at = "replace" THEN at' = "archive" /\ UNCHANGED <<cut, stops>> ELSE Dies
  /\ UNCHANGED <<screen, option, training, heldOut, results, report, initCache, archive,
                 selection>>

\* Mutant: the archive is emptied to make room.
BeginArchiveClearing ==
  /\ at = "archive"
  /\ IF ~ screen.archives
     THEN at' = "record" /\ UNCHANGED archive
     ELSE at' = "move" /\ archive' = [o \in Options |-> IF o = option THEN Partial ELSE Missing]
  /\ UNCHANGED <<screen, option, training, heldOut, results, report, initCache, checkpoint,
                 selection, cut, stops>>

\* shutil.move, across volumes: a copy, then the removal of the original.
BeginArchive ==
  /\ at = "archive"
  /\ IF ~ screen.archives
     THEN at' = "record" /\ UNCHANGED archive
     ELSE IF archive[option] # Missing
     THEN at' = "dead" /\ UNCHANGED archive  \* FileExistsError
     ELSE at' = "move" /\ archive' = [archive EXCEPT ![option] = Partial]
  /\ UNCHANGED <<screen, option, training, heldOut, results, report, initCache, checkpoint,
                 selection, cut, stops>>

EndArchive ==
  /\ at = "move"
  /\ archive' = [archive EXCEPT ![option] = heldOut.loss]
  /\ checkpoint' = [checkpoint EXCEPT ![option] = Missing]
  /\ at' = "record"
  /\ UNCHANGED <<screen, option, training, heldOut, results, report, initCache, selection,
                 cut, stops>>

\* The row is appended and the archives of the others go.
RecordResult ==
  /\ at = "record"
  /\ LET rows == Append(results, [option |-> option, loss |-> heldOut.loss,
                                  heldOut |-> heldOut.batches, trained |-> training.seen,
                                  kept |-> TRUE])
         losers == {rows[i].option : i \in Losers(rows)}
     IN  IF ~ screen.archives
         THEN results' = rows /\ at' = "report" /\ UNCHANGED archive
         ELSE IF \E o \in losers : archive[o] = Missing
         THEN at' = "dead" /\ UNCHANGED <<results, archive>>  \* RuntimeError
         ELSE /\ results' = Pruned(rows)
              /\ archive' = [o \in Options |-> IF o \in losers THEN Missing ELSE archive[o]]
              /\ at' = "report"
  /\ UNCHANGED <<screen, option, training, heldOut, report, initCache, checkpoint, selection,
                 cut, stops>>

\* write_text truncates, then writes.
TruncateReport ==
  /\ at = "report"
  /\ report' = Torn /\ at' = "write"
  /\ UNCHANGED <<screen, option, training, heldOut, results, initCache, checkpoint,
                 archive, selection, cut, stops>>

WriteReport ==
  /\ at = "write"
  /\ report' = results
  /\ at' = "next" /\ option' = option + 1
  /\ UNCHANGED <<screen, training, heldOut, results, initCache, checkpoint, archive,
                 selection, cut, stops>>

Select ==
  /\ at = "select"
  /\ selection' = results[Best(results)]
  /\ at' = "done"
  /\ UNCHANGED <<screen, option, training, heldOut, results, report, initCache, checkpoint,
                 archive, cut, stops>>

Killed ==
  /\ at \notin {"dead", "done"} /\ stops < ScreenKills
  /\ Dies
  /\ UNCHANGED <<screen, option, training, heldOut, results, files>>

ScreenStep ==
  \/ NextOption \/ LoadOption \/ SaveInitialisation \/ StartOption
  \/ TrainBatch(FALSE) \/ (\E loss \in Losses : EvaluateOption(loss))
  \/ ClearCheckpoint \/ ReplaceCheckpoint \/ BeginArchive \/ EndArchive \/ RecordResult
  \/ TruncateReport \/ WriteReport \/ Select

ScreenProcess == LaunchScreen \/ ScreenStep

ScreenNext == ScreenProcess \/ TrainBatch(TRUE) \/ Killed

\* The process runs, and one that died is launched again.
ScreenSpec ==
  ScreenInit /\ [][ScreenNext]_screenVars /\ WF_screenVars(ScreenProcess)

-----------------------------------------------------------------------------
\* The first n tokens of the stream in the proportions of the mixture.
Proportioned(tokens) ==
  \A cycles \in 1 .. Len(tokens) \div (BlockTokens * Len(Cycle)) :
    \A s \in DOMAIN Weight :
      Histogram(SubSeq(tokens, 1, cycles * BlockTokens * Len(Cycle)))[s] * 100
        = cycles * BlockTokens * Len(Cycle) * Weight[s]

\* The selection rests on every candidate once, whatever was killed and resumed:
\* each was trained on the same tokens of the locked stream, each token once, the
\* budget spent to the last pair and the mixture exact over every cycle, and
\* scored on the same ones; the selection is the first of the lowest losses; and
\* with an archive root its checkpoint is the one archived whole and the others'
\* are gone.
SelectionSound ==
  selection # Missing =>
    /\ {results[i].option : i \in DOMAIN results} = Options /\ Len(results) = NumOptions
    /\ \A i, j \in DOMAIN results :
         /\ results[i].trained = results[j].trained
         /\ [b \in DOMAIN results[i].heldOut |-> results[i].heldOut[b].tokens]
              = [b \in DOMAIN results[j].heldOut |-> results[j].heldOut[b].tokens]
    /\ LET trained == results[1].trained
       IN  /\ IsInjective(trained) /\ Proportioned(trained)
           /\ Len(trained) \in {TrainTokens - 1, TrainTokens}
    /\ \A i \in DOMAIN results : selection.loss <= results[i].loss
    /\ \A o \in Options :
         screen.archives =>
           archive[o] = IF o = selection.option THEN selection.loss ELSE Missing

\* The checkpoint of the best candidate reported is never lost to a better one
\* that is not yet safe: whenever the report can be read, a whole archive holds
\* a candidate at least as good as every one it lists.
NothingBetterLost ==
  screen.archives /\ report \notin {Missing, Torn} =>
    \E o \in Options :
      /\ archive[o] \notin {Missing, Partial}
      /\ \A i \in DOMAIN report : archive[o] <= report[i].loss

\* The screen completes however often it is stopped, preempted or killed, unless
\* it was killed where the report and the archive disagree, or inside the write of
\* the shared initialisation.
Completes == <>(at = "done" \/ cut)

MasksOf(batches) == [b \in DOMAIN batches |-> batches[b].mask]

\* "all four candidates use the same composition-locked stream and the same
\* deterministic 15% MLM corruption" (run_bert_ablations.py:5-7): every loss the
\* selection compares was scored on the same masks.
SameCorruption ==
  \A i, j \in DOMAIN results : MasksOf(results[i].heldOut) = MasksOf(results[j].heldOut)

=============================================================================
