-------------------------- MODULE CheckpointStore --------------------------
(***************************************************************************)
(* SafeCheckpointManager (training/checkpoint.py) on a filesystem that     *)
(* survives its process, driven by the candidate loop of                   *)
(* scripts/run_real_ablations.py.  The process may be killed between any   *)
(* two filesystem calls, told to stop by SIGTERM at any moment, fail to    *)
(* write or to upload, and is launched again with --resume.                *)
(*                                                                         *)
(* A checkpoint directory is the set of files left in it: everything a     *)
(* save writes is a snapshot of the step in its name.  An exception raised *)
(* between the filesystem calls leaves the disk as a kill there does.      *)
(***************************************************************************)
EXTENDS Naturals, FiniteSets, Functions

CONSTANTS
  Interval,        \* --checkpoint-interval
  MaxCheckpoints,  \* --max-checkpoints
  LastStep,        \* steps until token_cursor reaches the training target
  Archive,         \* TRUE iff --final-archive-root is given
  KillAt,          \* values of pc at which the process may be killed
  MaxFaults,       \* bound on kills, signals and failed writes
  TORN,            \* what an empty "latest" file names: the checkpoint root
  NONE

ASSUME StepsAssumption == Interval \in Nat \ {0} /\ LastStep \in Nat \ {0}
ASSUME RetentionAssumption == MaxCheckpoints \in Nat \ {0}  \* checkpoint.py:45-46
ASSUME SwitchAssumption == Archive \in BOOLEAN /\ MaxFaults \in Nat
ASSUME NameAssumption == TORN \notin Nat /\ NONE \notin Nat /\ TORN # NONE
ASSUME ReturnAssumption == NONE \notin {"train", "recheck", "exit", "finish"}

VARIABLES
  dirs,       \* dirs[s]: the files of step_s, for the directories that exist
  tmp,        \* the steps with a .step_s.tmp directory
  pointer,    \* the step named in "latest", TORN if it is empty, or NONE
  pc,         \* where the process is
  return,     \* where save returns to
  model,      \* optimizer steps in the model in memory
  optimizer,  \* optimizer steps in the optimizer state in memory
  stop,       \* manager.stop_requested
  archived,   \* the archive directory of the candidate exists
  committed,  \* history: the step of the last save that advanced "latest"
  faults      \* faults so far

vars == <<dirs, tmp, pointer, pc, return, model, optimizer, stop, archived, committed, faults>>
disk == <<dirs, tmp, pointer, archived, committed>>
memory == <<model, optimizer, stop>>

Steps == 0 .. LastStep

\* What a save writes.  "core" stands for the files no load can do without
\* (state.json, the model's and the generators' state), "optimizer" for
\* optimizer.json, "moments" for optimizer.safetensors, which has nothing to
\* hold before the first step; manifest.json is never read back.
Files(s) == {"core", "optimizer", "config", "checksums"} \cup (IF s = 0 THEN {} ELSE {"moments"})

Running == {"resume", "train", "check", "recheck", "mktmp", "write", "clear",
            "replace", "point", "retain", "upload", "exit", "finish"}

Without(f, s) == Restrict(f, DOMAIN f \ {s})
With(f, s, F) == [t \in DOMAIN f \cup {s} |-> IF t = s THEN F ELSE f[t]]

-----------------------------------------------------------------------------
(* CheckpointManager.latest and SafeCheckpointManager.load                 *)

\* An empty pointer names the checkpoint root itself, which exists.
Latest == IF pointer \in DOMAIN dirs \cup {TORN} THEN pointer ELSE NONE

\* Without checksums.json nothing is verified.
Verified(s) == "checksums" \in dirs[s] => dirs[s] = Files(s)

\* Mutant: scheduler.json is taken for mandatory.
LoadsScheduler(s) == Verified(s) /\ {"core", "scheduler"} \subseteq dirs[s]

\* optimizer.json is optional, the tensors it refers to are not.
Loads(s) ==
  /\ Verified(s)
  /\ "core" \in dirs[s]
  /\ "optimizer" \in dirs[s] => Files(s) \cap {"moments"} \subseteq dirs[s]

-----------------------------------------------------------------------------
Init ==
  /\ dirs = [s \in {} |-> {}]
  /\ tmp = {}
  /\ pointer = NONE
  /\ pc = "down"
  /\ return = NONE
  /\ model = 0 /\ optimizer = 0
  /\ stop = FALSE
  /\ archived = FALSE
  /\ committed = NONE
  /\ faults = 0

\* Mutant: temporary directories are left alone.
LaunchLeavesTmp ==
  /\ pc \in {"down", "done"}
  /\ model' = 0 /\ optimizer' = 0
  /\ stop' = FALSE
  /\ pc' = "resume"
  /\ UNCHANGED <<dirs, tmp, pointer, return, archived, committed, faults>>

\* The script is run: the manager's constructor installs the handler and
\* removes temporary directories; a candidate that is done is run again.
Launch ==
  /\ pc \in {"down", "done"}
  /\ tmp' = {}
  /\ model' = 0 /\ optimizer' = 0
  /\ stop' = FALSE
  /\ pc' = "resume"
  /\ UNCHANGED <<dirs, pointer, return, archived, committed, faults>>

Save(ret) == pc' = "mktmp" /\ return' = ret

\* Mutant: the optimizer is not handed to load.
ResumeModelOnly ==
  /\ pc = "resume"
  /\ IF Latest = NONE
       THEN Save("train") /\ UNCHANGED memory
       ELSE /\ IF Latest # TORN /\ Loads(Latest)
                 THEN model' = Latest /\ optimizer' = 0 /\ pc' = "train"
                 ELSE pc' = "down" /\ UNCHANGED <<model, optimizer>>
            /\ UNCHANGED <<stop, return>>
  /\ UNCHANGED <<disk, faults>>

\* Mutant: the step and the cursor of the checkpoint are not taken over.
ResumeFromZero ==
  /\ pc = "resume"
  /\ IF Latest = NONE
       THEN Save("train") /\ UNCHANGED memory
       ELSE pc' = "train" /\ UNCHANGED <<memory, return>>
  /\ UNCHANGED <<disk, faults>>

\* load raises on a directory it cannot read, and the script with it.
Resume ==
  /\ pc = "resume"
  /\ IF Latest = NONE
       THEN Save("train") /\ UNCHANGED memory
       ELSE /\ IF Latest # TORN /\ Loads(Latest)
                 THEN /\ model' = Latest
                      /\ optimizer' = IF "optimizer" \in dirs[Latest] THEN Latest ELSE 0
                      /\ pc' = "train"
                 ELSE pc' = "down" /\ UNCHANGED <<model, optimizer>>
            /\ UNCHANGED <<stop, return>>
  /\ UNCHANGED <<disk, faults>>

\* Mutant: the loop runs one batch past its target.
TrainStepPast ==
  /\ pc = "train"
  /\ model <= LastStep
  /\ model' = model + 1
  /\ optimizer' = optimizer + 1
  /\ pc' = "check"
  /\ UNCHANGED <<disk, return, stop, faults>>

\* One batch, its optimizer step, and the cursors.
TrainStep ==
  /\ pc = "train"
  /\ model < LastStep
  /\ model' = model + 1
  /\ optimizer' = optimizer + 1
  /\ pc' = "check"
  /\ UNCHANGED <<disk, return, stop, faults>>

\* manager.should_save
ShouldSave(s) == s = 0 \/ s % Interval = 0 \/ stop

Check ==
  /\ pc = "check"
  /\ IF ShouldSave(model) THEN Save("recheck") ELSE pc' = "recheck" /\ UNCHANGED return
  /\ UNCHANGED <<disk, memory, faults>>

\* Mutant: a stop relies on the save that should_save asked for.
RecheckTrusting ==
  /\ pc = "recheck"
  /\ pc' = IF stop THEN "exit" ELSE "train"
  /\ UNCHANGED <<disk, memory, return, faults>>

\* A stop saves the same step once more before it interrupts the loop.
Recheck ==
  /\ pc = "recheck"
  /\ IF stop THEN Save("exit") ELSE pc' = "train" /\ UNCHANGED return
  /\ UNCHANGED <<disk, memory, faults>>

\* The loop ends, the candidate is evaluated and saved.
EndLoop ==
  /\ pc = "train"
  /\ model = LastStep
  /\ Save("finish")
  /\ UNCHANGED <<disk, memory, faults>>

-----------------------------------------------------------------------------
(* SafeCheckpointManager.save(model), one filesystem effect at a time      *)

\* Mutant: "latest" is advanced before the directory is complete.
MakeTmpPointing ==
  /\ pc = "mktmp"
  /\ tmp' = tmp \cup {model}
  /\ pointer' = model
  /\ pc' = "write"
  /\ UNCHANGED <<dirs, archived, committed, memory, return, faults>>

MakeTmp ==
  /\ pc = "mktmp"
  /\ tmp' = tmp \cup {model}
  /\ pc' = "write"
  /\ UNCHANGED <<dirs, pointer, archived, committed, memory, return, faults>>

WriteTmp ==
  /\ pc = "write"
  /\ pc' = "clear"
  /\ UNCHANGED <<disk, memory, return, faults>>

\* A checkpoint of this step that is already there is deleted first.
Clear ==
  /\ pc = "clear"
  /\ dirs' = Without(dirs, model)
  /\ pc' = "replace"
  /\ UNCHANGED <<tmp, pointer, archived, committed, memory, return, faults>>

Replace ==
  /\ pc = "replace"
  /\ dirs' = With(dirs, model, Files(model))
  /\ tmp' = tmp \ {model}
  /\ pc' = "point"
  /\ UNCHANGED <<pointer, archived, committed, memory, return, faults>>

Point ==
  /\ pc = "point"
  /\ pointer' = model
  /\ committed' = model
  /\ pc' = "retain"
  /\ UNCHANGED <<dirs, tmp, archived, memory, return, faults>>

\* Mutant: one directory more than the limit is kept.
StaleButOne == {s \in DOMAIN dirs : Cardinality({t \in DOMAIN dirs : t > s}) > MaxCheckpoints}

\* All but the last MaxCheckpoints directories by name.
Stale == {s \in DOMAIN dirs : Cardinality({t \in DOMAIN dirs : t > s}) >= MaxCheckpoints}

Retain ==
  /\ pc = "retain"
  /\ dirs' = Restrict(dirs, DOMAIN dirs \ Stale)
  /\ pc' = "upload"
  /\ UNCHANGED <<tmp, pointer, archived, committed, memory, return, faults>>

Upload ==
  /\ pc = "upload"
  /\ pc' = return
  /\ return' = NONE
  /\ UNCHANGED <<disk, memory, faults>>

-----------------------------------------------------------------------------
\* KeyboardInterrupt after the second save
Exit ==
  /\ pc = "exit"
  /\ pc' = "down"
  /\ UNCHANGED <<disk, memory, return, faults>>

\* With an archive root the final checkpoint is moved away from the manager,
\* and an archive that exists already is not overwritten.
Finish ==
  /\ pc = "finish"
  /\ IF Archive /\ ~ archived
       THEN /\ dirs' = Without(dirs, model)
            /\ archived' = TRUE
            /\ committed' = NONE
       ELSE UNCHANGED <<dirs, archived, committed>>
  /\ pc' = IF Archive /\ archived THEN "down" ELSE "done"
  /\ UNCHANGED <<tmp, pointer, memory, return, faults>>

-----------------------------------------------------------------------------
(* Faults                                                                  *)

Fault == faults < MaxFaults /\ faults' = faults + 1

Signal ==
  /\ Fault
  /\ pc \in Running
  /\ ~ stop
  /\ stop' = TRUE
  /\ UNCHANGED <<disk, pc, return, model, optimizer>>

\* An exception while the temporary directory is written: it is removed and
\* the exception ends the script.
WriteFails ==
  /\ Fault
  /\ pc = "write"
  /\ tmp' = tmp \ {model}
  /\ pc' = "down"
  /\ return' = NONE
  /\ UNCHANGED <<dirs, pointer, archived, committed, memory>>

UploadFails ==
  /\ Fault
  /\ pc = "upload"
  /\ pc' = "down"
  /\ return' = NONE
  /\ UNCHANGED <<disk, memory>>

\* A directory whose deletion was under way keeps some of its files, and the
\* pointer's write_text truncates before it writes.  An archive root on another
\* filesystem is copied to before the checkpoint is deleted.
Kill ==
  /\ Fault
  /\ pc \in Running \cap KillAt
  /\ \/ UNCHANGED <<dirs, pointer, archived>>
     \/ /\ pc = "clear" /\ model \in DOMAIN dirs
        /\ \E F \in SUBSET dirs[model] : dirs' = With(dirs, model, F)
        /\ UNCHANGED <<pointer, archived>>
     \/ /\ pc = "retain"
        /\ \E s \in Stale : \E F \in SUBSET dirs[s] :
             dirs' = With(Restrict(dirs, {t \in DOMAIN dirs : t \in Stale => t > s}), s, F)
        /\ UNCHANGED <<pointer, archived>>
     \/ pc = "point" /\ pointer' = TORN /\ UNCHANGED <<dirs, archived>>
     \/ /\ pc = "finish" /\ Archive /\ ~ archived
        /\ archived' = TRUE
        /\ \E F \in SUBSET dirs[model] : dirs' = With(dirs, model, F)
        /\ UNCHANGED pointer
  /\ pc' = "down"
  /\ return' = NONE
  /\ UNCHANGED <<tmp, committed, memory>>

-----------------------------------------------------------------------------
Process ==
  \/ Launch \/ Resume \/ TrainStep \/ Check \/ Recheck \/ EndLoop
  \/ MakeTmp \/ WriteTmp \/ Clear \/ Replace \/ Point \/ Retain \/ Upload
  \/ Exit \/ Finish

Next == Process \/ Signal \/ WriteFails \/ UploadFails \/ Kill

Spec == Init /\ [][Next]_vars

\* Somebody launches the script again, and a running process runs.
FairSpec == Spec /\ WF_vars(Process)

-----------------------------------------------------------------------------
(* Properties                                                              *)

FlagType == stop \in BOOLEAN /\ archived \in BOOLEAN

DataType ==
  /\ DOMAIN dirs \subseteq Steps
  /\ \A s \in DOMAIN dirs : dirs[s] \subseteq Files(s)
  /\ tmp \subseteq Steps
  /\ pointer \in Steps \cup {TORN, NONE}
  /\ pc \in Running \cup {"down", "done"}
  /\ return \in {"train", "recheck", "exit", "finish", NONE}
  /\ model \in Steps
  /\ optimizer \in Steps
  /\ committed \in Steps \cup {NONE}
  /\ faults \in 0 .. MaxFaults

\* Types of the variables.
TypeOK == DataType /\ FlagType

\* "Atomic, resumable checkpoint state" (checkpoint.py:1): whenever no process
\* is there, the last checkpoint saved is what the next one finds, whole.
AlwaysResumable ==
  pc \in {"down", "done"} /\ committed # NONE =>
    Latest = committed /\ dirs[committed] = Files(committed)

\* The optimizer trained with is the one of the model trained: a resume never
\* combines a model with another optimizer state (checkpoint.py:381-388).
ResumedWhole == pc = "train" => optimizer = model

\* A stop request ends the run only after all its work is in a checkpoint.
PreemptionLosesNothing ==
  pc = "exit" => committed = model /\ Latest = model /\ dirs[model] = Files(model)

\* "retain only the newest atomic checkpoint" (run_real_ablations.py:513): a
\* save ends with its own checkpoint on the disk, and no more than the limit.
NewestRetained ==
  pc = "upload" =>
    /\ model \in DOMAIN dirs
    /\ Cardinality(DOMAIN dirs) <= MaxCheckpoints

\* A temporary directory outlives neither a save that fails nor a launch, and
\* is never the one a resume finds (checkpoint.py:51-59, 91-94, 341-343).
TmpOwned == pc \in Running => tmp = IF pc \in {"write", "clear", "replace"} THEN {model} ELSE {}

\* Work is lost back to the last checkpoint and no further.
InMemory == IF pc \in {"down", "resume"} THEN committed ELSE model

Progress ==
  INSTANCE DurableProgress WITH
    work    <- IF InMemory = NONE THEN 0 ELSE InMemory,
    durable <- IF committed = NONE THEN 0 ELSE committed

ImplementsDurableProgress == Progress!Spec

\* Faults that end let a candidate complete: no state is one that every later
\* launch fails in.
Completes == <>(pc = "done")

=============================================================================
