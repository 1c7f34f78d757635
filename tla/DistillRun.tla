----------------------------- MODULE DistillRun -----------------------------
(***************************************************************************)
(* The accounts of a distillation run (training/ced_distill.py): the stage *)
(* and meters of a TrainingRunState, the rows of a BudgetTracker, and the  *)
(* JSON file each of them is saved in and loaded from, under kills.  The   *)
(* four meters accumulate alike and are one number; checkpoint, RNG state  *)
(* and data cursor are set alike and are one mark.                         *)
(***************************************************************************)
EXTENDS Integers, SequencesExt

CONSTANTS
  MaxHours,   \* max_gpu_hours
  StageHours, \* gpu_hours a stage may be recorded with
  Marks,      \* checkpoints, RNG states or cursors
  RowBound,   \* bound on recorded stages
  MeterBound, \* bound on the meter
  DistillKills,
  TornFile,       \* the content of a file that was opened for writing and not written
  Nothing     \* None in the code, or no file

Stages == 1 .. 5

RunStates == [stage : Stages, meter : Nat, mark : Marks \cup {Nothing}]
TrackerStates == [hardStop : BOOLEAN, rows : Seq(StageHours)]
Words == {"run", "tracker", "granted", "raised"}  \* of saving and verdict

ASSUME DistillAssumption == MaxHours \in Nat /\ StageHours \subseteq Nat
ASSUME FileAssumption ==  \* no file and a torn one are not the JSON of a state
  /\ TornFile # Nothing
  /\ \A none \in {TornFile, Nothing} :
       none \notin RunStates /\ none \notin TrackerStates /\ none \notin Words

VARIABLES
  run,        \* the TrainingRunState in memory, or Nothing when no process runs
  tracker,    \* the BudgetTracker in memory
  runFile,    \* Nothing, TornFile or a state
  trackFile,
  saving,     \* "run" or "tracker" between the two steps of a save
  verdict,    \* history: what the last call was, when it was a record_stage
  savedRun,   \* history: the last states whose save returned
  savedTracker,
  deaths

distillVars ==
  <<run, tracker, runFile, trackFile, saving, verdict, savedRun, savedTracker, deaths>>

-----------------------------------------------------------------------------
\* STAGE_POLICIES_5: what a stage trains, in the names of trainable_groups_5.
Policy ==
  [stage \in Stages |->
     [bridge |-> TRUE, memory_gates |-> TRUE,
      global_kv |-> stage >= 2, indexer |-> stage >= 2,
      lora |-> stage >= 3,
      upper_encoder_layers_unfrozen |-> IF stage >= 4 THEN 2 ELSE 0,
      selective_fullrank |-> stage = 5]]

TrainableGroups(stage) ==
  LET p == Policy[stage]
  IN  {g \in {"bridge", "memory_gates", "global_kv", "indexer", "lora", "selective_fullrank"} : p[g]}
      \cup {g \in {"upper_encoder"} : p.upper_encoder_layers_unfrozen > 0}

Consumed(rows) == SumFunction(rows)

\* Mutant: the stage that has just run is not counted.
OverBudgetBefore(t) == t.hardStop /\ Consumed(Front(t.rows)) > MaxHours

OverBudget(t) == t.hardStop /\ Consumed(t.rows) > MaxHours

FreshRun == [stage |-> 1, meter |-> 0, mark |-> Nothing]
FreshTracker(hardStop) == [hardStop |-> hardStop, rows |-> <<>>]

-----------------------------------------------------------------------------
DistillInit ==
  /\ run = Nothing /\ tracker = Nothing
  /\ runFile = Nothing /\ trackFile = Nothing
  /\ saving = Nothing
  /\ verdict = Nothing
  /\ savedRun = Nothing /\ savedTracker = Nothing
  /\ deaths = 0

\* load where there is a file: a torn one does not parse, and the launch ends.
Launch(hardStop) ==
  /\ run = Nothing
  /\ TornFile \notin {runFile, trackFile}
  /\ run' = IF runFile = Nothing THEN FreshRun ELSE runFile
  /\ tracker' = IF trackFile = Nothing THEN FreshTracker(hardStop) ELSE trackFile
  /\ UNCHANGED <<runFile, trackFile, saving, verdict, savedRun, savedTracker, deaths>>

Idle == run # Nothing /\ saving = Nothing

InMemory == verdict' = Nothing /\ UNCHANGED <<runFile, trackFile, saving, savedRun, savedTracker, deaths>>

\* TrainingRunState.record, and set_checkpoint, set_data_cursor and capture_rng.
Record ==
  /\ Idle /\ run.meter < MeterBound
  /\ run' = [run EXCEPT !.meter = @ + 1]
  /\ UNCHANGED tracker /\ InMemory

Mark(mark) ==
  /\ Idle
  /\ run' = [run EXCEPT !.mark = mark]
  /\ UNCHANGED tracker /\ InMemory

\* Mutant: a stage is repeated, or gone back to.
AdvanceStageAny(stage) ==
  /\ Idle
  /\ run' = [run EXCEPT !.stage = stage]
  /\ UNCHANGED tracker /\ InMemory

\* Any later stage; any other raises and changes nothing.
AdvanceStage(stage) ==
  /\ Idle /\ stage > run.stage
  /\ run' = [run EXCEPT !.stage = stage]
  /\ UNCHANGED tracker /\ InMemory

\* The row is appended, then check() may raise.
RecordStage(hours) ==
  /\ Idle /\ Len(tracker.rows) < RowBound
  /\ tracker' = [tracker EXCEPT !.rows = Append(@, hours)]
  /\ verdict' = IF OverBudget(tracker') THEN "raised" ELSE "granted"
  /\ UNCHANGED <<run, runFile, trackFile, saving, savedRun, savedTracker, deaths>>

\* write_text truncates the file, then writes it.
SaveRun ==
  /\ Idle
  /\ runFile' = TornFile /\ saving' = "run"
  /\ UNCHANGED <<run, tracker, trackFile, verdict, savedRun, savedTracker, deaths>>

SaveTracker ==
  /\ Idle
  /\ trackFile' = TornFile /\ saving' = "tracker"
  /\ UNCHANGED <<run, tracker, runFile, verdict, savedRun, savedTracker, deaths>>

EndSave ==
  /\ saving # Nothing
  /\ saving' = Nothing
  /\ IF saving = "run"
     THEN /\ runFile' = run /\ savedRun' = run
          /\ UNCHANGED <<trackFile, savedTracker>>
     ELSE /\ trackFile' = tracker /\ savedTracker' = tracker
          /\ UNCHANGED <<runFile, savedRun>>
  /\ UNCHANGED <<run, tracker, verdict, deaths>>

\* The process dies, in the middle of a save or not, or ends.
Die ==
  /\ run # Nothing /\ deaths < DistillKills
  /\ run' = Nothing /\ tracker' = Nothing
  /\ saving' = Nothing /\ verdict' = Nothing
  /\ deaths' = deaths + 1
  /\ UNCHANGED <<runFile, trackFile, savedRun, savedTracker>>

DistillNext ==
  \/ \E hardStop \in BOOLEAN : Launch(hardStop)
  \/ Record
  \/ \E mark \in Marks : Mark(mark)
  \/ \E stage \in Stages : AdvanceStage(stage)
  \/ \E hours \in StageHours : RecordStage(hours)
  \/ SaveRun \/ SaveTracker \/ EndSave \/ Die

DistillSpec == DistillInit /\ [][DistillNext]_distillVars

-----------------------------------------------------------------------------
\* A run is never behind what a save of it returned, wherever it was killed
\* since: its meters do not fall back, and a group of parameters that was being
\* trained goes on being trained.  (A save cut short may stop every later
\* launch, but never restarts the run from nothing.)
ProgressKept ==
  run # Nothing /\ savedRun # Nothing =>
    /\ savedRun.meter <= run.meter
    /\ TrainableGroups(savedRun.stage) \subseteq TrainableGroups(run.stage)

\* Under the hard stop no stage is granted beyond the maximum, counting the
\* stages that overran it and those recorded by processes that have ended.
HardStopHolds ==
  /\ verdict = "granted" /\ tracker.hardStop => Consumed(tracker.rows) <= MaxHours
  /\ tracker # Nothing /\ savedTracker # Nothing =>
       /\ tracker.hardStop = savedTracker.hardStop
       /\ Consumed(savedTracker.rows) <= Consumed(tracker.rows)

=============================================================================
