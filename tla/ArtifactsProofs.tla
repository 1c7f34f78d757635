-------------------------- MODULE ArtifactsProofs --------------------------
(***************************************************************************)
(* What killed processes leave on the disk for the next one, for every     *)
(* number of kills, exporters, candidates and stages: the accounts of a    *)
(* distillation run, the report and archive of a screen, and a release.    *)
(***************************************************************************)
EXTENDS Q4Release, DistillRun, AblationScreen, DataLemmas

-----------------------------------------------------------------------------
(* Distillation: the hours consumed                                        *)

Hours(rows) == rows \in Seq(StageHours)

LEMMA ConsumedTyped == ASSUME NEW rows, Hours(rows) PROVE Consumed(rows) \in Nat
<1>1. PICK n \in Nat : DOMAIN rows = 1 .. n /\ \A i \in 1 .. n : rows[i] \in StageHours
  BY DEF Hours
<1>2. \A i \in 1 .. n : rows[i] \in Nat
  BY <1>1, DistillAssumption
<1> QED BY <1>1, <1>2, SumNatural DEF Consumed, SumFunction

\* A stage recorded adds its hours.
LEMMA ConsumedGrows ==
  ASSUME NEW rows, Hours(rows), NEW hours \in StageHours
  PROVE  Hours(Append(rows, hours)) /\ Consumed(Append(rows, hours)) = hours + Consumed(rows)
<1>1. PICK n, r : /\ n \in Nat /\ r = Append(rows, hours) /\ Hours(r)
                  /\ DOMAIN rows = 1 .. n /\ DOMAIN r = 1 .. n + 1
                  /\ r[n + 1] = hours /\ \A i \in 1 .. n : r[i] = rows[i]
                  /\ \A i \in 1 .. n + 1 : r[i] \in StageHours
  <2>1. /\ Append(rows, hours) \in Seq(StageHours) /\ Len(rows) \in Nat
        /\ DOMAIN rows = 1 .. Len(rows) /\ DOMAIN Append(rows, hours) = 1 .. Len(rows) + 1
        /\ Append(rows, hours)[Len(rows) + 1] = hours
        /\ \A i \in 1 .. Len(rows) : Append(rows, hours)[i] = rows[i]
    BY DEF Hours
  <2>2. \A i \in 1 .. Len(rows) + 1 : Append(rows, hours)[i] \in StageHours
    BY ONLY <2>1
  <2> QED BY ONLY <2>1, <2>2, Zenon DEF Hours
<1>2. Extends(r, rows, n)
  <2>1. \A i \in 1 .. n + 1 : r[i] \in Int
    <3>1. \A h \in StageHours : h \in Int
      BY DistillAssumption
    <3> QED BY ONLY <1>1, <3>1, Zenon
  <2> QED BY <1>1, <2>1 DEF Extends
<1>3. SumFunctionOnSet(r, 1 .. n + 1) = r[n + 1] + SumFunctionOnSet(rows, 1 .. n)
  BY <1>2, SumLast
<1> QED BY ONLY <1>1, <1>3, Zenon DEF Consumed, SumFunction

-----------------------------------------------------------------------------
(* Distillation: the groups that train                                     *)

\* A later stage trains what an earlier one trained.
LEMMA GroupsGrow ==
  ASSUME NEW a \in Stages, NEW b \in Stages, a <= b
  PROVE  TrainableGroups(a) \subseteq TrainableGroups(b)
<1> DEFINE P(stage) ==
             [bridge |-> TRUE, memory_gates |-> TRUE,
              global_kv |-> stage >= 2, indexer |-> stage >= 2,
              lora |-> stage >= 3,
              upper_encoder_layers_unfrozen |-> IF stage >= 4 THEN 2 ELSE 0,
              selective_fullrank |-> stage = 5]
<1>1. Policy[a] = P(a) /\ Policy[b] = P(b)
  BY DEF Policy
<1>2. /\ P(a)["bridge"] => P(b)["bridge"]
      /\ P(a)["memory_gates"] => P(b)["memory_gates"]
      /\ P(a)["global_kv"] => P(b)["global_kv"]
      /\ P(a)["indexer"] => P(b)["indexer"]
      /\ P(a)["lora"] => P(b)["lora"]
      /\ P(a)["selective_fullrank"] => P(b)["selective_fullrank"]
      /\ P(a).upper_encoder_layers_unfrozen > 0 => P(b).upper_encoder_layers_unfrozen > 0
  <2>1. ASSUME NEW x
        PROVE  /\ P(x)["bridge"] = TRUE /\ P(x)["memory_gates"] = TRUE
               /\ P(x)["global_kv"] = (x >= 2) /\ P(x)["indexer"] = (x >= 2)
               /\ P(x)["lora"] = (x >= 3) /\ P(x)["selective_fullrank"] = (x = 5)
               /\ P(x).upper_encoder_layers_unfrozen = IF x >= 4 THEN 2 ELSE 0
    BY Zenon
  <2>2. /\ a >= 2 => b >= 2
        /\ a >= 3 => b >= 3
        /\ a = 5 => b = 5
        /\ (IF a >= 4 THEN 2 ELSE 0) > 0 => (IF b >= 4 THEN 2 ELSE 0) > 0
    BY DEF Stages
  <2> HIDE DEF P
  <2> QED BY ONLY <2>1, <2>2, Zenon
<1> HIDE DEF P
<1>3. ASSUME NEW g \in {"bridge", "memory_gates", "global_kv", "indexer", "lora", "selective_fullrank"},
             P(a)[g]
      PROVE  P(b)[g]
  BY <1>2, <1>3, Zenon
<1> QED BY <1>1, <1>2, <1>3, Zenon DEF TrainableGroups

-----------------------------------------------------------------------------
(* Distillation: the invariant                                             *)

\* later is a state a process got from a run that was saved as before.
RunFollows(before, later) == before.meter <= later.meter /\ before.stage <= later.stage
TrackerFollows(before, later) ==
  before.hardStop = later.hardStop /\ Consumed(before.rows) <= Consumed(later.rows)

RunOK ==
  /\ run \in RunStates \cup {Nothing} /\ savedRun \in RunStates \cup {Nothing}
  /\ runFile \in {savedRun, TornFile}
  /\ run # Nothing /\ savedRun # Nothing => RunFollows(savedRun, run)

TrackerOK ==
  /\ tracker \in TrackerStates \cup {Nothing} /\ savedTracker \in TrackerStates \cup {Nothing}
  /\ trackFile \in {savedTracker, TornFile}
  /\ tracker # Nothing /\ savedTracker # Nothing => TrackerFollows(savedTracker, tracker)

DistillInv ==
  /\ RunOK /\ TrackerOK
  /\ run = Nothing <=> tracker = Nothing
  /\ saving \in {"run", "tracker", Nothing} /\ (run = Nothing => saving = Nothing)
  /\ verdict \in {"granted", "raised", Nothing} /\ (run = Nothing => verdict = Nothing)
  /\ verdict = "granted" => ~ OverBudget(tracker)

LEMMA RunStateParts ==
  ASSUME NEW r \in RunStates
  PROVE  r.stage \in 1 .. 5 /\ r.meter \in Nat /\ r # Nothing /\ r # TornFile
BY FileAssumption DEF RunStates, Stages

LEMMA TrackerStateParts ==
  ASSUME NEW t \in TrackerStates
  PROVE  t.hardStop \in BOOLEAN /\ Hours(t.rows) /\ Consumed(t.rows) \in Nat /\ t # Nothing /\ t # TornFile
<1>1. Hours(t.rows)
  BY DEF TrackerStates, Hours
<1> QED BY <1>1, ConsumedTyped, FileAssumption DEF TrackerStates

LEMMA DistillLaunchKeeps ==
  ASSUME DistillInv, NEW hardStop \in BOOLEAN, Launch(hardStop) PROVE DistillInv'
<1> USE DEF DistillInv
<1>1. /\ run = Nothing /\ runFile # TornFile /\ trackFile # TornFile
      /\ run' = (IF runFile = Nothing THEN FreshRun ELSE runFile)
      /\ tracker' = (IF trackFile = Nothing THEN FreshTracker(hardStop) ELSE trackFile)
      /\ runFile' = runFile /\ trackFile' = trackFile /\ saving' = saving /\ verdict' = verdict
      /\ savedRun' = savedRun /\ savedTracker' = savedTracker
  BY DEF Launch
<1>2. FreshRun \in RunStates
  BY DEF FreshRun, RunStates, Stages
<1>3. FreshTracker(hardStop) \in TrackerStates
  BY DEF FreshTracker, TrackerStates
<1>4. RunOK' /\ run' # Nothing
  <2>1. runFile = savedRun /\ savedRun \in RunStates \cup {Nothing}
    BY <1>1 DEF RunOK
  <2>2. run' \in RunStates /\ (savedRun # Nothing => run' = savedRun)
    BY <1>1, <1>2, <2>1
  <2>3. run' # Nothing /\ RunFollows(run', run')
    BY <2>2, RunStateParts DEF RunFollows
  <2> QED BY <1>1, <2>1, <2>2, <2>3 DEF RunOK
<1>5. TrackerOK' /\ tracker' # Nothing
  <2>1. trackFile = savedTracker /\ savedTracker \in TrackerStates \cup {Nothing}
    BY <1>1 DEF TrackerOK
  <2>2. tracker' \in TrackerStates /\ (savedTracker # Nothing => tracker' = savedTracker)
    BY <1>1, <1>3, <2>1
  <2>3. tracker' # Nothing /\ TrackerFollows(tracker', tracker')
    BY <2>2, TrackerStateParts DEF TrackerFollows
  <2> QED BY <1>1, <2>1, <2>2, <2>3 DEF TrackerOK
<1>6. verdict = Nothing /\ Nothing # "granted"
  BY <1>1, FileAssumption DEF Words
<1> QED BY <1>1, <1>4, <1>5, <1>6

\* A step that leaves the files alone and moves the run and the tracker on.
LEMMA InMemoryKeeps ==
  ASSUME DistillInv, run # Nothing,
         UNCHANGED <<runFile, trackFile, saving, savedRun, savedTracker>>,
         run' \in RunStates, RunFollows(run, run'),
         tracker' \in TrackerStates, TrackerFollows(tracker, tracker'),
         verdict' \in {"granted", "raised", Nothing}, verdict' = "granted" => ~ OverBudget(tracker')
  PROVE  DistillInv'
<1> USE DEF DistillInv
<1>1. run \in RunStates /\ tracker \in TrackerStates
  BY DEF RunOK, TrackerOK
<1>2. run' # Nothing /\ tracker' # Nothing
  BY RunStateParts, TrackerStateParts
<1>3. RunOK'
  <2>1. ASSUME NEW r \in RunStates, RunFollows(r, run) PROVE RunFollows(r, run')
    BY <1>1, <2>1, RunStateParts DEF RunFollows
  <2> QED BY <2>1 DEF RunOK
<1>4. TrackerOK'
  <2>1. ASSUME NEW t \in TrackerStates, TrackerFollows(t, tracker) PROVE TrackerFollows(t, tracker')
    <3>1. Consumed(t.rows) \in Nat /\ Consumed(tracker.rows) \in Nat /\ Consumed(tracker'.rows) \in Nat
      BY <1>1, TrackerStateParts
    <3> QED BY <2>1, <3>1 DEF TrackerFollows
  <2> QED BY <2>1 DEF TrackerOK
<1> QED BY <1>2, <1>3, <1>4

LEMMA RecordStageKeeps ==
  ASSUME DistillInv, NEW hours \in StageHours, RecordStage(hours) PROVE DistillInv'
<1>1. /\ run # Nothing /\ run \in RunStates /\ tracker \in TrackerStates
  BY DEF DistillInv, RecordStage, Idle, RunOK, TrackerOK
<1>2. /\ run' = run /\ UNCHANGED <<runFile, trackFile, saving, savedRun, savedTracker>>
      /\ tracker' = [tracker EXCEPT !.rows = Append(@, hours)]
      /\ verdict' = IF OverBudget(tracker') THEN "raised" ELSE "granted"
  BY DEF RecordStage
<1>3. RunFollows(run, run)
  BY <1>1, RunStateParts DEF RunFollows
<1>4. /\ Hours(Append(tracker.rows, hours))
      /\ Consumed(Append(tracker.rows, hours)) = hours + Consumed(tracker.rows)
      /\ Consumed(tracker.rows) \in Nat /\ hours \in Nat
  BY <1>1, TrackerStateParts, ConsumedGrows, DistillAssumption
<1>5. /\ tracker'.rows = Append(tracker.rows, hours) /\ tracker'.hardStop = tracker.hardStop
      /\ tracker' \in TrackerStates
  BY <1>1, <1>2, <1>4 DEF TrackerStates, Hours
<1>6. TrackerFollows(tracker, tracker')
  BY <1>4, <1>5 DEF TrackerFollows
<1> QED BY <1>1, <1>2, <1>3, <1>5, <1>6, InMemoryKeeps

\* Either save, its first or its second step.
LEMMA SaveKeeps ==
  ASSUME DistillInv, SaveRun \/ SaveTracker \/ EndSave PROVE DistillInv'
<1> USE DEF DistillInv
<1>1. run' = run /\ tracker' = tracker /\ verdict' = verdict /\ run # Nothing
  BY DEF SaveRun, SaveTracker, EndSave, Idle
<1>2. run \in RunStates /\ tracker \in TrackerStates
  BY <1>1 DEF RunOK, TrackerOK
<1>3. RunFollows(run, run) /\ TrackerFollows(tracker, tracker)
  BY <1>2, RunStateParts, TrackerStateParts DEF RunFollows, TrackerFollows
<1>4. saving' \in {"run", "tracker", Nothing}
  BY DEF SaveRun, SaveTracker, EndSave
<1>5. /\ \/ runFile' \in {runFile, TornFile} /\ savedRun' = savedRun
         \/ runFile' = run /\ savedRun' = run
      /\ \/ trackFile' \in {trackFile, TornFile} /\ savedTracker' = savedTracker
         \/ trackFile' = tracker /\ savedTracker' = tracker
  BY DEF SaveRun, SaveTracker, EndSave
<1>6. RunOK'
  BY <1>1, <1>2, <1>3, <1>5 DEF RunOK
<1>7. TrackerOK'
  BY <1>1, <1>2, <1>3, <1>5 DEF TrackerOK
<1> QED BY <1>1, <1>4, <1>6, <1>7

LEMMA DistillStep == ASSUME DistillInv, [DistillNext]_distillVars PROVE DistillInv'
<1> USE DEF DistillInv
<1>0. run # Nothing => run \in RunStates /\ tracker \in TrackerStates
  BY DEF RunOK, TrackerOK
<1>1. ASSUME NEW hardStop \in BOOLEAN, Launch(hardStop) PROVE DistillInv'
  BY <1>1, DistillLaunchKeeps
<1>2. ASSUME Idle, tracker' = tracker, InMemory, run' \in RunStates, RunFollows(run, run')
      PROVE  DistillInv'
  <2>1. /\ run # Nothing /\ UNCHANGED <<runFile, trackFile, saving, savedRun, savedTracker>>
        /\ verdict' = Nothing /\ tracker' \in TrackerStates
    BY <1>0, <1>2 DEF Idle, InMemory
  <2>2. TrackerFollows(tracker, tracker')
    BY <1>0, <1>2, <2>1, TrackerStateParts DEF TrackerFollows
  <2>3. verdict' # "granted"
    BY <2>1, FileAssumption DEF Words
  <2> QED BY <1>2, <2>1, <2>2, <2>3, InMemoryKeeps
<1>3. CASE Record
  <2>1. run \in RunStates /\ run' = [run EXCEPT !.meter = @ + 1]
    BY <1>0, <1>3 DEF Record, Idle
  <2>2. run' \in RunStates /\ RunFollows(run, run')
    BY <2>1 DEF RunStates, RunFollows, Stages
  <2> QED BY <1>2, <1>3, <2>2 DEF Record
<1>4. ASSUME NEW mark \in Marks, Mark(mark) PROVE DistillInv'
  <2>1. run \in RunStates /\ run' = [run EXCEPT !.mark = mark]
    BY <1>0, <1>4 DEF Mark, Idle
  <2>2. run' \in RunStates /\ RunFollows(run, run')
    BY <2>1 DEF RunStates, RunFollows, Stages
  <2> QED BY <1>2, <1>4, <2>2 DEF Mark
<1>5. ASSUME NEW stage \in Stages, AdvanceStage(stage) PROVE DistillInv'
  <2>1. run \in RunStates /\ run' = [run EXCEPT !.stage = stage] /\ stage > run.stage
    BY <1>0, <1>5 DEF AdvanceStage, Idle
  <2>2. run' \in RunStates /\ RunFollows(run, run')
    BY <2>1 DEF RunStates, RunFollows, Stages
  <2> QED BY <1>2, <1>5, <2>2 DEF AdvanceStage
<1>6. ASSUME NEW hours \in StageHours, RecordStage(hours) PROVE DistillInv'
  BY <1>6, RecordStageKeeps
<1>7. CASE SaveRun \/ SaveTracker \/ EndSave
  BY <1>7, SaveKeeps
<1>8. CASE Die
  <2>1. /\ run' = Nothing /\ tracker' = Nothing /\ saving' = Nothing /\ verdict' = Nothing
        /\ UNCHANGED <<runFile, trackFile, savedRun, savedTracker>>
    BY <1>8 DEF Die
  <2>2. Nothing # "granted"
    BY FileAssumption DEF Words
  <2> QED BY <2>1, <2>2 DEF RunOK, TrackerOK
<1>9. CASE UNCHANGED distillVars
  BY <1>9 DEF distillVars, RunOK, TrackerOK
<1> QED BY <1>1, <1>3, <1>4, <1>5, <1>6, <1>7, <1>8, <1>9 DEF DistillNext

\* The invariant of a distillation run: its two files hold the last states saved,
\* or are torn, and what is in memory goes on from there.
THEOREM DistillInvariant == DistillSpec => []DistillInv
<1>1. DistillInit => DistillInv
  BY FileAssumption DEF DistillInit, DistillInv, RunOK, TrackerOK, Words
<1>2. DistillInv /\ [DistillNext]_distillVars => DistillInv'
  BY DistillStep
<1> QED BY <1>1, <1>2, PTL DEF DistillSpec

\* However often it is killed, a run that is loaded again is never behind what a
\* save of it returned, and trains at least the groups it trained then.
THEOREM ProgressAlwaysKept == DistillSpec => []ProgressKept
<1>1. DistillInv => ProgressKept
  <2> SUFFICES ASSUME DistillInv, run # Nothing, savedRun # Nothing
               PROVE  /\ savedRun.meter <= run.meter
                      /\ TrainableGroups(savedRun.stage) \subseteq TrainableGroups(run.stage)
    BY DEF ProgressKept
  <2>1. run \in RunStates /\ savedRun \in RunStates /\ RunFollows(savedRun, run)
    BY DEF DistillInv, RunOK
  <2> QED BY <2>1, GroupsGrow DEF RunFollows, RunStates
<1> QED BY <1>1, DistillInvariant, PTL

\* No stage beyond the maximum of hours is granted under the hard stop, counting
\* every stage of every process whose account was saved.
THEOREM HardStopAlwaysHolds == DistillSpec => []HardStopHolds
<1>1. DistillInv => HardStopHolds
  <2> SUFFICES ASSUME DistillInv PROVE HardStopHolds
    OBVIOUS
  <2>1. ASSUME verdict = "granted", tracker.hardStop PROVE Consumed(tracker.rows) <= MaxHours
    <3>1. run # Nothing
      BY <2>1, FileAssumption DEF DistillInv, Words
    <3>2. tracker \in TrackerStates
      BY <3>1 DEF DistillInv, TrackerOK
    <3>3. Consumed(tracker.rows) \in Nat
      BY <3>2, TrackerStateParts
    <3>4. ~ (Consumed(tracker.rows) > MaxHours)
      BY <2>1 DEF DistillInv, OverBudget
    <3> QED BY <3>3, <3>4, DistillAssumption
  <2>2. tracker # Nothing /\ savedTracker # Nothing => TrackerFollows(savedTracker, tracker)
    BY DEF DistillInv, TrackerOK
  <2> QED BY <2>1, <2>2 DEF HardStopHolds, TrackerFollows
<1> QED BY <1>1, DistillInvariant, PTL

-----------------------------------------------------------------------------
(* The locked stream: its proportions                                      *)

LEMMA DivisorIs ==
  /\ Divisor \in 1 .. 100
  /\ \A s \in DOMAIN Weight : Weight[s] % Divisor = 0
<1> DEFINE Divides(d) == \A s \in DOMAIN Weight : Weight[s] % d = 0
           T == {100 - d : d \in {e \in 1 .. 100 : Divides(e)}}
<1>1. \A s \in DOMAIN Weight : Weight[s] \in Nat
  BY SpecAssumption DEF ValidSpec
<1>2. Divides(1)
  BY <1>1
<1>3. T \subseteq Nat /\ T # {}
  <2>1. 1 \in {e \in 1 .. 100 : Divides(e)}
    BY <1>2
  <2> HIDE DEF Divides
  <2> QED BY <2>1
<1>4. PICK x \in T : \A y \in T : x <= y
  BY <1>3, LeastNatural
<1>5. PICK d \in 1 .. 100 : x = 100 - d /\ Divides(d)
  <2> HIDE DEF Divides
  <2> QED BY <1>4
<1>6. \A e \in d + 1 .. 100 : ~ Divides(e)
  <2> HIDE DEF Divides
  <2>1. ASSUME NEW e \in d + 1 .. 100, Divides(e) PROVE FALSE
    <3>1. 100 - e \in T
      BY <2>1
    <3>2. 100 - d <= 100 - e
      BY <1>4, <1>5, <3>1
    <3> QED BY <3>2
  <2> QED BY <2>1
<1>7. \E e \in 1 .. 100 : /\ \A s \in DOMAIN Weight : Weight[s] % e = 0
                          /\ \A b \in e + 1 .. 100 : \E s \in DOMAIN Weight : Weight[s] % b # 0
  BY <1>5, <1>6, Zenon
<1> QED BY <1>7, Zenon DEF Divisor

LEMMA SlotsAre ==
  ASSUME NEW s \in DOMAIN Weight
  PROVE  Slots(s) \in Nat /\ Weight[s] \in Nat /\ Weight[s] = Slots(s) * Divisor
<1>1. PICK d \in Nat \ {0}, w \in Nat : d = Divisor /\ w = Weight[s] /\ w % d = 0
  BY DivisorIs, SpecAssumption DEF ValidSpec
<1>2. w \div d \in Nat /\ w = (w \div d) * d + (w % d)
  BY DivMod
<1>3. w = (w \div d) * d
  BY <1>1, <1>2
<1>4. Slots(s) = w \div d
  BY ONLY <1>1, Zenon DEF Slots
<1> QED BY ONLY <1>1, <1>2, <1>3, <1>4, Zenon

\* The cycle holds each source as often as its weight says.
LEMMA CycleIs ==
  /\ Cycle \in Seq(DOMAIN Weight)
  /\ Len(Cycle) \in Nat \ {0} /\ Len(Cycle) * Divisor = 100
  /\ \A s \in DOMAIN Weight : Cardinality({j \in 1 .. Len(Cycle) : Cycle[j] = s}) = Slots(s)
<1>1. PICK n \in Nat : DOMAIN Weight = 1 .. n
  BY SpecAssumption DEF ValidSpec
<1>2. PICK size : size = [s \in 1 .. n |-> Slots(s)]
  OBVIOUS
<1>3. PICK seqs : seqs = [i \in 1 .. n |-> [k \in 1 .. size[i] |-> i]]
  OBVIOUS
<1>4. Cycle = FlattenSeq(seqs)
  <2>1. seqs = [s \in DOMAIN Weight |-> [i \in 1 .. Slots(s) |-> s]]
    BY <1>1, <1>2, <1>3
  <2> QED BY ONLY <2>1, Zenon DEF Cycle
<1>5. \A i \in 1 .. n : /\ size[i] = Slots(i) /\ size[i] \in Nat /\ Weight[i] \in Nat
                        /\ Weight[i] = size[i] * Divisor
  BY <1>1, <1>2, SlotsAre
<1>6. NumberRuns(n, size, seqs)
  BY <1>3, <1>5 DEF NumberRuns
<1>7. /\ Cycle \in Seq(1 .. n) /\ Len(Cycle) = SumFunctionOnSet(size, 1 .. n)
      /\ \A s \in 1 .. n : Cardinality({j \in 1 .. Len(Cycle) : Cycle[j] = s}) = size[s]
  BY ONLY <1>4, <1>6, RunsCounted
<1>8. SumFunctionOnSet(Weight, 1 .. n) = SumFunctionOnSet(size, 1 .. n) * Divisor
  <2>1. Divisor \in Int
    BY DivisorIs
  <2> QED BY <1>5, <2>1, SumScaled
<1>9. Len(Cycle) * Divisor = 100
  <2>1. SumFunctionOnSet(Weight, 1 .. n) = 100
    BY <1>1, SpecAssumption DEF ValidSpec, SumFunction
  <2> QED BY ONLY <1>7, <1>8, <2>1, Zenon
<1>10. Len(Cycle) \in Nat \ {0}
  <2>1. Len(Cycle) \in Nat
    BY <1>7
  <2>2. Len(Cycle) # 0
    BY <1>9, DivisorIs
  <2> QED BY <2>1, <2>2
<1> QED BY <1>1, <1>5, <1>7, <1>9, <1>10

\* The first n tokens of the stream.
Stretch(n) == Tokens(0, n, FALSE)

LEMMA StretchIs ==
  ASSUME NEW n \in Nat
  PROVE  /\ DOMAIN Stretch(n) = 1 .. n /\ Len(Stretch(n)) = n
         /\ \A i \in 1 .. n : Stretch(n)[i] = Token(i - 1, FALSE)
<1>1. \A i \in 1 .. n : 0 + i - 1 = i - 1
  OBVIOUS
<1>2. Stretch(n) = [i \in 1 .. n |-> Token(0 + i - 1, FALSE)]
  BY Zenon DEF Stretch, Tokens
<1>3. Len(Stretch(n)) = n
  BY <1>2
<1> QED BY <1>1, <1>2, <1>3

LEMMA SourceIs ==
  ASSUME NEW i \in Nat \ {0}
  PROVE  Token(i - 1, FALSE).source = Cycle[SlotOf(BlockTokens, Len(Cycle), CorpusSeed, i)]
<1>1. Token(i - 1, FALSE).source = SourceAt(i - 1, FALSE)
  BY DEF Token
<1>2. CorpusSeed + 0 = CorpusSeed
  BY SpecAssumption DEF ValidSpec
<1>3. SourceAt(i - 1, FALSE) = Cycle[((((i - 1) \div BlockTokens) + CorpusSeed) % Len(Cycle)) + 1]
  <2>1. (IF FALSE THEN 7919 ELSE 0) = 0
    OBVIOUS
  <2>2. SourceAt(i - 1, FALSE) = Cycle[((((i - 1) \div BlockTokens) + (CorpusSeed + 0)) % Len(Cycle)) + 1]
    BY ONLY <2>1, Zenon DEF SourceAt
  <2> QED BY ONLY <1>2, <2>2, Zenon
<1> QED BY ONLY <1>1, <1>3, Zenon DEF SlotOf

\* The slots of a source.
SlotsOf(s) == {j \in 1 .. Len(Cycle) : Cycle[j] = s}

LEMMA SlotInCycle ==
  ASSUME NEW i \in Nat \ {0}
  PROVE  SlotOf(BlockTokens, Len(Cycle), CorpusSeed, i) \in 1 .. Len(Cycle)
<1>1. PICK l \in Nat \ {0}, b \in Nat \ {0}, x \in Nat :
        l = Len(Cycle) /\ b = BlockTokens /\ x = i - 1 /\ CorpusSeed \in Nat
  BY CycleIs, SpecAssumption DEF ValidSpec
<1>2. PICK y \in Nat : y = (x \div b) + CorpusSeed
  <2>1. x \div b \in Nat
    BY DivMod
  <2> QED BY <1>1, <2>1
<1>3. PICK z \in 0 .. l - 1 : z = y % l
  BY DivMod
<1>4. SlotOf(BlockTokens, Len(Cycle), CorpusSeed, i) = z + 1
  BY ONLY <1>1, <1>2, <1>3, Zenon DEF SlotOf
<1> QED BY <1>1, <1>3, <1>4

\* The stream from its start holds the sources in proportion over whole cycles.
LEMMA StretchProportioned == ASSUME NEW n \in Nat PROVE Proportioned(Stretch(n))
<1>0. /\ BlockTokens \in Nat \ {0} /\ CorpusSeed \in Nat /\ Len(Cycle) \in Nat \ {0}
      /\ Len(Cycle) * Divisor = 100 /\ Divisor \in Nat
  BY CycleIs, DivisorIs, SpecAssumption DEF ValidSpec
<1>1. SUFFICES ASSUME NEW cycles \in 1 .. Len(Stretch(n)) \div (BlockTokens * Len(Cycle)),
                      NEW s \in DOMAIN Weight
               PROVE  Histogram(SubSeq(Stretch(n), 1, cycles * BlockTokens * Len(Cycle)))[s] * 100
                        = cycles * BlockTokens * Len(Cycle) * Weight[s]
  BY DEF Proportioned
<1>2. PICK unit \in Nat \ {0} : unit = BlockTokens * Len(Cycle)
  <2>1. BlockTokens * Len(Cycle) \in Nat \ {0}
    BY <1>0
  <2> QED BY <2>1
<1>3. PICK m \in Nat : m = cycles * BlockTokens * Len(Cycle) /\ m = cycles * unit
  <2>1. /\ cycles * BlockTokens * Len(Cycle) \in Nat
        /\ cycles * BlockTokens * Len(Cycle) = cycles * (BlockTokens * Len(Cycle))
    BY <1>0
  <2> QED BY ONLY <1>2, <2>1, Zenon
<1>4. m <= n
  <2>1. Len(Stretch(n)) = n
    BY StretchIs
  <2>2. n \div unit \in Nat /\ n = (n \div unit) * unit + (n % unit) /\ n % unit \in 0 .. unit - 1
    BY DivMod
  <2>3. cycles <= n \div unit /\ cycles \in Nat
    BY <1>2, <2>1, <2>2
  <2>4. cycles * unit <= (n \div unit) * unit
    BY <2>2, <2>3, TimesMonotone
  <2>5. PICK u \in Nat : u = (n \div unit) * unit
    BY <2>2
  <2> QED BY ONLY <1>3, <2>2, <2>4, <2>5
<1>5. PICK part : part = SubSeq(Stretch(n), 1, m)
  OBVIOUS
<1>6. DOMAIN part = 1 .. m /\ \A i \in 1 .. m : part[i] = Token(i - 1, FALSE)
  <2>1. part = [i \in 1 .. m |-> Stretch(n)[i]]
    <3>1. \A i \in 1 .. m : 1 + i - 1 = i
      OBVIOUS
    <3>2. m - 1 + 1 = m
      OBVIOUS
    <3> QED BY <1>5, <3>1, <3>2 DEF SubSeq
  <2>2. \A i \in 1 .. m : i \in 1 .. n
    BY <1>4
  <2> QED BY <2>1, <2>2, StretchIs
<1>7. {i \in DOMAIN part : part[i].source = s}
        = {i \in 1 .. m : SlotOf(BlockTokens, Len(Cycle), CorpusSeed, i) \in SlotsOf(s)}
  <2>1. ASSUME NEW i \in 1 .. m
        PROVE  part[i].source = s <=> SlotOf(BlockTokens, Len(Cycle), CorpusSeed, i) \in SlotsOf(s)
    <3>0. i \in Nat \ {0}
      OBVIOUS
    <3>1. i \in Nat \ {0} /\ part[i] = Token(i - 1, FALSE)
      BY ONLY <1>6, <3>0, i \in 1 .. m, Zenon
    <3>2. part[i].source = Cycle[SlotOf(BlockTokens, Len(Cycle), CorpusSeed, i)]
      BY ONLY <3>1, SourceIs
    <3>3. SlotOf(BlockTokens, Len(Cycle), CorpusSeed, i) \in 1 .. Len(Cycle)
      BY ONLY <3>1, SlotInCycle
    <3> QED BY ONLY <3>2, <3>3, Zenon DEF SlotsOf
  <2> QED BY <1>6, <2>1
<1>8. Histogram(part)[s] = Cardinality(Taken(BlockTokens, Len(Cycle), CorpusSeed, cycles, SlotsOf(s)))
  <2>1. m = cycles * Len(Cycle) * BlockTokens
    BY <1>0, <1>3
  <2>2. {i \in DOMAIN part : part[i].source = s}
          = Taken(BlockTokens, Len(Cycle), CorpusSeed, cycles, SlotsOf(s))
    BY ONLY <1>7, <2>1, Zenon DEF Taken
  <2> QED BY ONLY <2>2, s \in DOMAIN Weight, Zenon DEF Histogram
<1>9. Histogram(part)[s] = Cardinality(SlotsOf(s)) * cycles * BlockTokens
  <2>1. SlotsOf(s) \in SUBSET (1 .. Len(Cycle)) /\ cycles \in Nat
    BY DEF SlotsOf
  <2>2. Turns(BlockTokens, Len(Cycle), CorpusSeed, cycles, SlotsOf(s))
    BY ONLY <1>0, <2>1 DEF Turns
  <2>3. \A b, l, o, k, u : Turns(b, l, o, k, u) =>
          Cardinality(Taken(b, l, o, k, u)) = Cardinality(u) * k * b
    BY ONLY ShareOfRounds
  <2>4. Cardinality(Taken(BlockTokens, Len(Cycle), CorpusSeed, cycles, SlotsOf(s)))
          = Cardinality(SlotsOf(s)) * cycles * BlockTokens
    BY ONLY <2>2, <2>3
  <2> QED BY ONLY <1>8, <2>4, Zenon
<1>10. PICK k \in Nat : k = Cardinality(SlotsOf(s)) /\ Weight[s] = k * Divisor
  <2>1. Slots(s) \in Nat /\ Weight[s] = Slots(s) * Divisor /\ Cardinality(SlotsOf(s)) = Slots(s)
    BY SlotsAre, CycleIs DEF SlotsOf
  <2> QED BY ONLY <2>1, Zenon
<1>11. (k * cycles * BlockTokens) * (Len(Cycle) * Divisor) = (cycles * BlockTokens * Len(Cycle)) * (k * Divisor)
  <2>1. PICK a \in Int, b \in Int, l \in Int, d \in Int :
          a = cycles /\ b = BlockTokens /\ l = Len(Cycle) /\ d = Divisor
    BY <1>0
  <2>2. (k * a * b) * (l * d) = (a * b * l) * (k * d)
    OBVIOUS
  <2> QED BY ONLY <2>1, <2>2, Zenon
<1>12. Histogram(part)[s] * 100 = m * Weight[s]
  BY ONLY <1>0, <1>3, <1>9, <1>10, <1>11, Zenon
<1> QED BY ONLY <1>3, <1>5, <1>12, Zenon

\* No token of the stream is read twice.
LEMMA StretchInjective == ASSUME NEW n \in Nat PROVE IsInjective(Stretch(n))
<1>1. SUFFICES ASSUME NEW i \in 1 .. n, NEW j \in 1 .. n, Stretch(n)[i] = Stretch(n)[j] PROVE i = j
  BY StretchIs DEF IsInjective
<1>2. ASSUME NEW a \in Nat, NEW b \in Nat, a < b
      PROVE  (a \div BlockTokens) * 17 + a < (b \div BlockTokens) * 17 + b
  <2>1. BlockTokens \in Nat \ {0}
    BY SpecAssumption DEF ValidSpec
  <2>2. PICK p \in Nat, r \in 0 .. BlockTokens - 1 : p = a \div BlockTokens /\ a = p * BlockTokens + r
    BY <2>1, DivMod
  <2>3. PICK q \in Nat, t \in 0 .. BlockTokens - 1 : q = b \div BlockTokens /\ b = q * BlockTokens + t
    BY <2>1, DivMod
  <2>4. p <= q
    <3>1. SUFFICES ASSUME q + 1 <= p PROVE FALSE
      OBVIOUS
    <3>2. (q + 1) * BlockTokens <= p * BlockTokens
      BY <2>1, <3>1, TimesMonotone
    <3>3. (q + 1) * BlockTokens = q * BlockTokens + BlockTokens
      BY <2>1
    <3>4. PICK x \in Nat, y \in Nat : x = q * BlockTokens /\ y = p * BlockTokens
      BY <2>1
    <3> QED BY ONLY <1>2, <2>1, <2>2, <2>3, <3>2, <3>3, <3>4
  <2> QED BY ONLY <1>2, <2>2, <2>3, <2>4
<1>3. Token(i - 1, FALSE).phase = Token(j - 1, FALSE).phase
  BY <1>1, StretchIs
<1>4. ((i - 1) \div BlockTokens) * 17 + (i - 1) = ((j - 1) \div BlockTokens) * 17 + (j - 1)
  BY <1>3 DEF Token
<1>5. PICK a \in Nat, b \in Nat : a = i - 1 /\ b = j - 1
  OBVIOUS
<1>6. BlockTokens \in Nat \ {0}
  BY SpecAssumption DEF ValidSpec
<1>7. (a \div BlockTokens) \in Nat /\ (b \div BlockTokens) \in Nat
  BY <1>6, DivMod
<1> QED BY <1>2, <1>4, <1>5, <1>7

-----------------------------------------------------------------------------
(* Screens: the invariant                                                  *)

\* The cursors training reaches, and where it ends.
Reachable(c) ==
  /\ c \in 0 .. TrainTokens
  /\ \/ \E q \in 0 .. TrainTokens : c = q * SequenceLength
     \/ c = TrainTokens /\ \E q \in 0 .. TrainTokens : c - q * SequenceLength \in 2 .. SequenceLength - 1

IsFinal(c) == Reachable(c) /\ TrainTokens - c < 2

Final == CHOOSE c \in 0 .. TrainTokens : IsFinal(c)

TrainingOK(t) ==
  /\ t = [step |-> t.step, cursor |-> t.cursor, seen |-> Stretch(t.cursor)]
  /\ t.step \in Nat /\ Reachable(t.cursor)

ResultOK(row, index, batches) ==
  /\ IsFinal(Final) /\ row.loss \in Losses
  /\ row = [option |-> index, loss |-> row.loss, heldOut |-> batches, trained |-> Stretch(Final),
            kept |-> row.kept]

Table(rows) == Len(rows) \in Nat /\ rows = [i \in 1 .. Len(rows) |-> rows[i]]

\* What each candidate is scored on.
Held == [o \in Options |-> HeldOutBatches(o)]

ResultsOK(rows, held) ==
  /\ Table(rows) /\ Len(rows) <= NumOptions
  /\ \A i \in 1 .. Len(rows) : ResultOK(rows[i], i, held[i])

ScoreOK(score, batches) ==
  score = [loss |-> score.loss, batches |-> batches] /\ score.loss \in Losses

\* The best of the rows is archived whole and the others' archives are gone.
Safe(archived, rows) ==
  Len(rows) > 0 =>
    /\ archived[Best(rows)] = rows[Best(rows)].loss /\ rows[Best(rows)].kept
    /\ \A o \in 1 .. Len(rows) : o # Best(rows) => archived[o] = Missing

\* The next candidate is archived already, and its move would fail.
Stuck(archived, rows) == Len(rows) < NumOptions /\ archived[Len(rows) + 1] # Missing

\* A whole archive is as good as every row.
Witnessed(archived, rows) ==
  \E o \in Options :
    archived[o] \in Losses /\ \A i \in 1 .. Len(rows) : archived[o] <= rows[i].loss

Early == {"next", "load", "initialise", "start", "train", "preempted", "replace_preempted",
          "trained", "replace", "archive"}
Candidate == (Early \ {"next"}) \cup {"move", "record"}
Scored == {"trained", "replace", "archive", "move", "record"}
Late == {"move", "record", "report", "write", "select", "done"}
Readable == report \notin {Missing, Torn}

FilesOK ==
  /\ TrainingOK(training) /\ ResultsOK(results, Held)
  /\ Readable => ResultsOK(report, Held) /\ Len(report) > 0
  /\ checkpoint = [o \in Options |-> checkpoint[o]]
  /\ \A o \in Options : checkpoint[o] = Missing \/ TrainingOK(checkpoint[o])
  /\ archive = [o \in Options |-> archive[o]]
  /\ \A o \in Options : archive[o] \in Losses \cup {Missing, Partial}

PlaceOK ==
  /\ at \in Early \cup Late \cup {"dead"} /\ option \in Nat \ {0}
  /\ at \in Candidate => option = Len(results) + 1 /\ option <= NumOptions
  /\ at \in {"report", "write"} => option = Len(results)
  /\ at = "next" => option <= Len(results) + 1
  /\ at \in {"select", "done"} => Len(results) = NumOptions
  /\ at \in Scored => TrainTokens - training.cursor < 2 /\ ScoreOK(heldOut, Held[option])
  /\ IF at = "done" THEN selection = results[Best(results)] ELSE selection = Missing

\* What the archive holds, between the rows in memory and those of the report.
ArchiveOK ==
  screen.archives =>
    /\ at \in Late => Safe(archive, results)
    /\ at \in Early => Safe(archive, results) \/ Stuck(archive, results)
    /\ at = "move" => archive[option] = Partial
    /\ at = "record" => archive[option] = heldOut.loss
    /\ Readable => Witnessed(archive, report)

\* BERT's driver goes on from the report.
ReportOK ==
  screen.bert /\ screen.archives =>
    /\ Readable => Safe(archive, report) \/ Stuck(archive, report)
    /\ at \notin {"dead", "report", "write"}
         => IF Len(results) = 0 THEN report = Missing ELSE report = results

ScreenInv == FilesOK /\ PlaceOK /\ ArchiveOK /\ ReportOK

-----------------------------------------------------------------------------
(* Screens: rows, and the best of them                                     *)

LEMMA TableIs ==
  ASSUME NEW rows, Table(rows)
  PROVE  DOMAIN rows = 1 .. Len(rows) /\ Len(rows) \in Nat
BY DEF Table

LEMMA TableEmpty == Table(<<>>) /\ Len(<<>>) = 0
BY DEF Table

LEMMA TableGrows ==
  ASSUME NEW rows, Table(rows), NEW row
  PROVE  /\ Table(Append(rows, row)) /\ Len(Append(rows, row)) = Len(rows) + 1
         /\ Append(rows, row)[Len(rows) + 1] = row
         /\ \A i \in 1 .. Len(rows) : Append(rows, row)[i] = rows[i]
<1>1. PICK n \in Nat : n = Len(rows) /\ rows = [i \in 1 .. n |-> rows[i]]
  BY DEF Table
<1>2. PICK X : X = {rows[i] : i \in 1 .. n} \cup {row}
  OBVIOUS
<1>3. rows \in Seq(X)
  <2>1. \A i \in 1 .. n : rows[i] \in X
    BY <1>2
  <2>2. rows \in [1 .. n -> X]
    BY ONLY <1>1, <2>1
  <2>3. n \in Nat
    BY <1>1
  <2> QED BY ONLY <2>2, <2>3
<1>4. row \in X
  BY <1>2
<1> HIDE <1>2
<1>5. /\ Append(rows, row) \in Seq(X) /\ Len(Append(rows, row)) = n + 1
      /\ Append(rows, row)[n + 1] = row
      /\ \A i \in 1 .. n : Append(rows, row)[i] = rows[i]
  BY ONLY <1>1, <1>3, <1>4
<1>6. Table(Append(rows, row))
  BY ONLY <1>1, <1>5 DEF Table
<1> QED BY ONLY <1>1, <1>5, <1>6, Zenon

\* i is the first of the lowest of the first n rows.
FirstLowest(rows, i, n) ==
  /\ i \in 1 .. n
  /\ \A j \in 1 .. n : rows[i].loss <= rows[j].loss
  /\ \A j \in 1 .. i - 1 : rows[j].loss > rows[i].loss

Graded(rows, n) == n \in Nat /\ \A i \in 1 .. n : rows[i].loss \in Int

LEMMA LowestStep ==
  ASSUME NEW rows, NEW n, Graded(rows, n + 1), n \in Nat, NEW i, FirstLowest(rows, i, n)
  PROVE  IF rows[n + 1].loss < rows[i].loss THEN FirstLowest(rows, n + 1, n + 1)
         ELSE FirstLowest(rows, i, n + 1)
<1> USE DEF FirstLowest, Graded
<1>1. n + 1 \in 1 .. n + 1 /\ (n + 1) - 1 = n /\ i \in 1 .. n + 1
  OBVIOUS
<1>2. \A j \in 1 .. n + 1 : j \in 1 .. n \/ j = n + 1
  OBVIOUS
<1>3. \A j \in 1 .. n + 1 : rows[j].loss \in Int
  OBVIOUS
<1>4. CASE rows[n + 1].loss < rows[i].loss
  <2>1. \A j \in 1 .. n + 1 : rows[n + 1].loss <= rows[j].loss
    BY <1>1, <1>2, <1>3, <1>4
  <2>2. \A j \in 1 .. (n + 1) - 1 : rows[j].loss > rows[n + 1].loss
    BY <1>1, <1>3, <1>4
  <2> QED BY <1>1, <1>4, <2>1, <2>2
<1>5. CASE ~ (rows[n + 1].loss < rows[i].loss)
  <2>1. \A j \in 1 .. n + 1 : rows[i].loss <= rows[j].loss
    BY <1>1, <1>2, <1>3, <1>5
  <2> QED BY <1>1, <1>5, <2>1
<1> QED BY <1>4, <1>5

LEMMA LowestExists ==
  ASSUME NEW rows, NEW n, Graded(rows, n), n > 0
  PROVE  \E i : FirstLowest(rows, i, n)
<1> DEFINE T == {m \in Nat : m + 1 <= n => \E i : FirstLowest(rows, i, m + 1)}
<1>0. n \in Nat /\ \A i \in 1 .. n : rows[i].loss \in Int
  BY DEF Graded
<1>1. 0 \in T
  <2>1. \A j \in 1 .. 0 + 1 : j = 1
    OBVIOUS
  <2>2. \A j \in 1 .. 1 - 1 : FALSE
    OBVIOUS
  <2>3. rows[1].loss <= rows[1].loss
    BY <1>0
  <2>4. FirstLowest(rows, 1, 0 + 1)
    BY <2>1, <2>2, <2>3 DEF FirstLowest
  <2> QED BY <2>4
<1>2. ASSUME NEW m \in Nat, m \in T PROVE m + 1 \in T
  <2>1. SUFFICES ASSUME (m + 1) + 1 <= n PROVE \E i : FirstLowest(rows, i, (m + 1) + 1)
    OBVIOUS
  <2>2. PICK i : FirstLowest(rows, i, m + 1)
    BY <1>0, <1>2, <2>1
  <2>3. Graded(rows, (m + 1) + 1) /\ m + 1 \in Nat
    BY <1>0, <2>1 DEF Graded
  <2> QED BY ONLY <2>2, <2>3, LowestStep
<1>3. n - 1 \in T
  <2> HIDE DEF T
  <2>1. n - 1 \in Nat
    BY <1>0
  <2> QED BY <1>1, <1>2, <2>1, Induction
<1>4. (n - 1) + 1 = n
  BY <1>0
<1> QED BY <1>0, <1>3, <1>4

LEMMA LowestUnique ==
  ASSUME NEW rows, NEW n, Graded(rows, n), NEW i, FirstLowest(rows, i, n),
         NEW k, FirstLowest(rows, k, n)
  PROVE  i = k
<1> USE DEF FirstLowest, Graded
<1>1. i \in 1 .. n /\ k \in 1 .. n /\ rows[i].loss \in Int /\ rows[k].loss \in Int
  OBVIOUS
<1>2. rows[i].loss <= rows[k].loss /\ rows[k].loss <= rows[i].loss
  OBVIOUS
<1>3. ~ (i < k) /\ ~ (k < i)
  BY <1>1, <1>2
<1> QED BY <1>1, <1>3

LEMMA BestIs ==
  ASSUME NEW rows, Table(rows), Graded(rows, Len(rows)), Len(rows) > 0
  PROVE  /\ FirstLowest(rows, Best(rows), Len(rows))
         /\ \A i : FirstLowest(rows, i, Len(rows)) => i = Best(rows)
<1>1. DOMAIN rows = 1 .. Len(rows)
  BY TableIs
<1>2. \E i : FirstLowest(rows, i, Len(rows))
  BY LowestExists
<1>3. Best(rows) = CHOOSE i \in 1 .. Len(rows) :
        /\ \A j \in 1 .. Len(rows) : rows[i].loss <= rows[j].loss
        /\ \A j \in 1 .. i - 1 : rows[j].loss > rows[i].loss
  BY ONLY <1>1, Zenon DEF Best
<1>4. FirstLowest(rows, Best(rows), Len(rows))
  BY ONLY <1>2, <1>3, Zenon DEF FirstLowest
<1> QED BY <1>4, LowestUnique

\* The best changes only to the row appended, and not with what is kept.
LEMMA BestGrows ==
  ASSUME NEW rows, NEW more, Table(rows), Table(more), Len(more) = Len(rows) + 1,
         Graded(more, Len(more)), \A i \in 1 .. Len(rows) : more[i].loss = rows[i].loss
  PROVE  Best(more) \in {Len(more)} \cup (IF Len(rows) > 0 THEN {Best(rows)} ELSE {})
<1>1. PICK n \in Nat : n = Len(rows) /\ Len(more) = n + 1
  BY TableIs
<1>2. CASE n = 0
  <2>1. Best(more) \in 1 .. 1
    BY <1>1, <1>2, BestIs DEF FirstLowest
  <2> QED BY <1>1, <1>2, <2>1
<1>3. CASE n > 0
  <2>1. Graded(rows, n)
    BY <1>1 DEF Graded
  <2>2. FirstLowest(rows, Best(rows), n)
    BY ONLY <1>1, <1>3, <2>1, Table(rows), BestIs
  <2>3. FirstLowest(more, Best(rows), n)
    <3>1. Best(rows) \in 1 .. n /\ Best(rows) - 1 <= n
      BY <2>2 DEF FirstLowest
    <3>2. \A j \in 1 .. n : more[j].loss = rows[j].loss
      BY <1>1
    <3>3. \A j \in 1 .. Best(rows) - 1 : j \in 1 .. n
      BY <3>1
    <3> QED BY ONLY <2>2, <3>1, <3>2, <3>3, Zenon DEF FirstLowest
  <2>4. FirstLowest(more, n + 1, n + 1) \/ FirstLowest(more, Best(rows), n + 1)
    <3>1. Graded(more, n + 1) /\ n \in Nat
      BY <1>1
    <3> QED BY ONLY <2>3, <3>1, LowestStep
  <2>5. Len(more) > 0
    BY <1>1
  <2>6. n + 1 = Best(more) \/ Best(rows) = Best(more)
    BY <1>1, <2>4, <2>5, BestIs
  <2> QED BY <1>1, <1>3, <2>6
<1> QED BY <1>1, <1>2, <1>3

LEMMA BestOfSame ==
  ASSUME NEW rows, NEW other, Table(rows), Table(other), Len(other) = Len(rows), Len(rows) > 0,
         Graded(rows, Len(rows)), \A i \in 1 .. Len(rows) : other[i].loss = rows[i].loss
  PROVE  Best(other) = Best(rows)
<1>1. PICK n \in Nat : n = Len(rows) /\ Len(other) = n
  BY TableIs
<1>2. Graded(other, n) /\ Graded(rows, n)
  BY <1>1 DEF Graded
<1>3. FirstLowest(rows, Best(rows), n)
  BY <1>1, BestIs
<1>4. FirstLowest(other, Best(rows), n)
  <2>1. Best(rows) \in 1 .. n /\ Best(rows) - 1 <= n
    BY <1>3 DEF FirstLowest
  <2>2. \A j \in 1 .. n : other[j].loss = rows[j].loss
    BY <1>1
  <2>3. \A j \in 1 .. Best(rows) - 1 : j \in 1 .. n
    BY <2>1
  <2> QED BY ONLY <1>3, <2>1, <2>2, <2>3, Zenon DEF FirstLowest
<1> QED BY <1>1, <1>2, <1>4, BestIs

-----------------------------------------------------------------------------
(* Screens: the training of a candidate                                    *)

LEMMA StretchConcat ==
  ASSUME NEW c \in Nat, NEW k \in Nat
  PROVE  Stretch(c) \o Tokens(c, k, FALSE) = Stretch(c + k)
<1>1. PICK X : X = {Token(i, FALSE) : i \in Nat}
  OBVIOUS
<1>2. PICK a \in Seq(X) : /\ a = Stretch(c) /\ Len(a) = c
                          /\ \A i \in 1 .. c : a[i] = Token(i - 1, FALSE)
  <2>1. PICK f : f = [i \in 1 .. c |-> Token(0 + i - 1, FALSE)]
    OBVIOUS
  <2>2. \A i \in 1 .. c : Token(0 + i - 1, FALSE) \in X
    <3>1. \A i \in 1 .. c : 0 + i - 1 \in Nat
      OBVIOUS
    <3> QED BY ONLY <1>1, <3>1
  <2>3. f \in [1 .. c -> X]
    BY ONLY <2>1, <2>2
  <2>4. c \in Nat
    OBVIOUS
  <2>5. f \in Seq(X)
    BY ONLY <2>3, <2>4
  <2>6. f = Stretch(c)
    BY ONLY <2>1, Zenon DEF Stretch, Tokens
  <2>7. Len(Stretch(c)) = c /\ \A i \in 1 .. c : Stretch(c)[i] = Token(i - 1, FALSE)
    BY StretchIs
  <2> QED BY ONLY <2>5, <2>6, <2>7, Zenon
<1>3. PICK b \in Seq(X) : /\ b = Tokens(c, k, FALSE) /\ Len(b) = k
                          /\ \A i \in 1 .. k : b[i] = Token(c + i - 1, FALSE)
  <2>1. PICK f : f = [i \in 1 .. k |-> Token(c + i - 1, FALSE)]
    OBVIOUS
  <2>2. \A i \in 1 .. k : Token(c + i - 1, FALSE) \in X
    <3>1. \A i \in 1 .. k : c + i - 1 \in Nat
      OBVIOUS
    <3> QED BY ONLY <1>1, <3>1
  <2>3. f \in [1 .. k -> X] /\ DOMAIN f = 1 .. k
    BY ONLY <2>1, <2>2
  <2>4. k \in Nat
    OBVIOUS
  <2>5. f \in Seq(X)
    BY ONLY <2>3, <2>4
  <2>6. f = Tokens(c, k, FALSE)
    BY ONLY <2>1, Zenon DEF Tokens
  <2>7. Len(f) = k
    BY ONLY <2>3, <2>4, <2>5
  <2>8. \A i \in 1 .. k : f[i] = Token(c + i - 1, FALSE)
    BY ONLY <2>1
  <2> QED BY ONLY <2>5, <2>6, <2>7, <2>8, Zenon
<1>4. PICK e \in Seq(X) : /\ e = a \o b /\ Len(e) = c + k
                          /\ \A i \in 1 .. c : e[i] = a[i]
                          /\ \A i \in 1 .. k : e[c + i] = b[i]
  <2>1. /\ a \o b \in Seq(X) /\ Len(a \o b) = Len(a) + Len(b)
        /\ \A i \in 1 .. Len(a) : (a \o b)[i] = a[i]
        /\ \A i \in 1 .. Len(b) : (a \o b)[Len(a) + i] = b[i]
    BY ConcatPieces, ConcatElements
  <2>2. /\ Len(a \o b) = c + k
        /\ \A i \in 1 .. c : (a \o b)[i] = a[i]
        /\ \A i \in 1 .. k : (a \o b)[c + i] = b[i]
    <3>1. Len(a) = c /\ Len(b) = k
      BY <1>2, <1>3
    <3> QED BY ONLY <2>1, <3>1
  <2> QED BY ONLY <2>1, <2>2
<1>5. PICK d : /\ d = Stretch(c + k) /\ DOMAIN d = 1 .. c + k
               /\ \A i \in 1 .. c + k : d[i] = Token(i - 1, FALSE)
  <2>1. c + k \in Nat
    OBVIOUS
  <2> QED BY ONLY <2>1, StretchIs
<1>6. ASSUME NEW i \in 1 .. c + k PROVE e[i] = d[i]
  <2>1. CASE i <= c
    <3>1. i \in 1 .. c
      BY <2>1
    <3> QED BY ONLY <1>2, <1>4, <1>5, <3>1, i \in 1 .. c + k, Zenon
  <2>2. CASE ~ (i <= c)
    <3>1. PICK j \in 1 .. k : i = c + j
      <4>1. i - c \in 1 .. k /\ i = c + (i - c)
        BY <2>2
      <4> QED BY <4>1
    <3>2. e[i] = Token(c + j - 1, FALSE)
      BY ONLY <1>3, <1>4, <3>1, Zenon
    <3>3. d[i] = Token(c + j - 1, FALSE)
      <4>1. d[i] = Token(i - 1, FALSE)
        BY <1>5
      <4> QED BY ONLY <3>1, <4>1
    <3> QED BY ONLY <3>2, <3>3, Zenon
  <2> QED BY <2>1, <2>2
<1>7. e = [i \in 1 .. c + k |-> e[i]]
  <2>1. DOMAIN e = 1 .. c + k
    BY <1>4
  <2> QED BY <2>1
<1>8. d = [i \in 1 .. c + k |-> d[i]]
  <2>1. d = [i \in 1 .. c + k |-> Token(0 + i - 1, FALSE)]
    BY ONLY <1>5, Zenon DEF Stretch, Tokens
  <2> QED BY <2>1
<1>9. e = d
  BY ONLY <1>6, <1>7, <1>8
<1> QED BY ONLY <1>2, <1>3, <1>4, <1>5, <1>9, Zenon

LEMMA CursorBasics ==
  SequenceLength \in Nat /\ SequenceLength >= 2 /\ TrainTokens \in Nat
BY SpecAssumption, ScreenAssumption DEF ValidSpec

\* A quotient that is a multiple lies between the others.
LEMMA MultiplesApart ==
  ASSUME NEW p \in Nat, NEW q \in Nat, p < q
  PROVE  p * SequenceLength + SequenceLength <= q * SequenceLength
<1>1. SequenceLength \in Nat \ {0}
  BY CursorBasics
<1>2. (p + 1) * SequenceLength <= q * SequenceLength
  BY <1>1, TimesMonotone
<1>3. (p + 1) * SequenceLength = p * SequenceLength + SequenceLength
  BY <1>1
<1> QED BY <1>2, <1>3

LEMMA FinalUnique ==
  ASSUME NEW c, IsFinal(c) PROVE c = Final /\ IsFinal(Final)
<1>1. ASSUME NEW a, IsFinal(a), NEW b, IsFinal(b), NEW q \in Nat, a = q * SequenceLength
      PROVE  a = b
  <2>1. a \in 0 .. TrainTokens /\ b \in 0 .. TrainTokens /\ TrainTokens - a < 2 /\ TrainTokens - b < 2
    BY <1>1 DEF IsFinal, Reachable
  <2>2. CASE \E p \in 0 .. TrainTokens : b = p * SequenceLength
    <3>1. PICK p \in Nat : b = p * SequenceLength
      BY <2>2
    <3>2. p < q => b + SequenceLength <= a
      BY <1>1, <3>1, MultiplesApart
    <3>3. q < p => a + SequenceLength <= b
      BY <1>1, <3>1, MultiplesApart
    <3>4. p = q \/ p < q \/ q < p
      OBVIOUS
    <3>5. ~ (p < q) /\ ~ (q < p)
      BY ONLY <2>1, <3>2, <3>3, CursorBasics
    <3>6. p = q
      BY ONLY <3>4, <3>5, Zenon
    <3> QED BY ONLY <1>1, <3>1, <3>6, Zenon
  <2>3. CASE b = TrainTokens /\ \E p \in 0 .. TrainTokens : b - p * SequenceLength \in 2 .. SequenceLength - 1
    <3>1. PICK p \in Nat, x \in Nat : x = p * SequenceLength /\ b - x \in 2 .. SequenceLength - 1
      <4>1. PICK p \in Nat : b - p * SequenceLength \in 2 .. SequenceLength - 1
        BY <2>3
      <4>2. p * SequenceLength \in Nat
        BY CursorBasics
      <4> QED BY <4>1, <4>2
    <3>2. p < q => x + SequenceLength <= a
      BY <1>1, <3>1, MultiplesApart
    <3>3. q < p => a + SequenceLength <= x
      BY <1>1, <3>1, MultiplesApart
    <3>4. p = q => x = a
      BY <1>1, <3>1, Zenon
    <3>5. FALSE
      <4>1. p = q \/ p < q \/ q < p
        OBVIOUS
      <4> QED BY ONLY <2>1, <2>3, <3>1, <3>2, <3>3, <3>4, <4>1, CursorBasics
    <3> QED BY <3>5
  <2> QED BY <1>1, <2>2, <2>3 DEF IsFinal, Reachable
<1>2. ASSUME NEW a, IsFinal(a), NEW b, IsFinal(b) PROVE a = b
  <2>1. CASE \E q \in 0 .. TrainTokens : a = q * SequenceLength
    BY <1>1, <1>2, <2>1
  <2>2. CASE \E q \in 0 .. TrainTokens : b = q * SequenceLength
    BY <1>1, <1>2, <2>2
  <2> QED BY <1>2, <2>1, <2>2 DEF IsFinal, Reachable
<1>3. c \in 0 .. TrainTokens
  BY DEF IsFinal, Reachable
<1>4. IsFinal(Final)
  BY <1>3, Zenon DEF Final
<1> QED BY <1>2, <1>4

LEMMA FreshOK == TrainingOK(Fresh)
<1>1. Stretch(0) = <<>>
  <2>1. Stretch(0) = [i \in 1 .. 0 |-> Token(0 + i - 1, FALSE)]
    BY Zenon DEF Stretch, Tokens
  <2>2. 1 .. 0 = {}
    OBVIOUS
  <2> QED BY <2>1, <2>2
<1>2. Reachable(0)
  <2>1. 0 \in 0 .. TrainTokens /\ 0 = 0 * SequenceLength
    BY CursorBasics
  <2> QED BY ONLY <2>1, Zenon DEF Reachable
<1> QED BY <1>1, <1>2 DEF TrainingOK, Fresh

\* A batch takes a reachable cursor to a reachable one.
LEMMA BatchReaches ==
  ASSUME NEW c, Reachable(c), NEW k, k = NextLength(c, TrainTokens), ~ (k < 2)
  PROVE  k \in Nat /\ c \in Nat /\ Reachable(c + k)
<1>1. c \in 0 .. TrainTokens
  BY DEF Reachable
<1>2. k = IF SequenceLength <= TrainTokens - c THEN SequenceLength ELSE TrainTokens - c
  BY DEF NextLength, Least
<1>3. TrainTokens - c >= 2 /\ k \in Nat /\ k >= 2
  BY <1>1, <1>2, CursorBasics
<1>4. PICK q \in 0 .. TrainTokens : c = q * SequenceLength
  BY <1>1, <1>3 DEF Reachable
<1>5. CASE SequenceLength <= TrainTokens - c
  <2>1. c + k \in 0 .. TrainTokens
    BY <1>1, <1>2, <1>5, CursorBasics
  <2>2. c + k = (q + 1) * SequenceLength
    <3>1. (q + 1) * SequenceLength = q * SequenceLength + SequenceLength
      BY CursorBasics
    <3> QED BY ONLY <1>2, <1>4, <1>5, <3>1, Zenon
  <2>3. q + 1 \in 0 .. TrainTokens
    <3>1. q # TrainTokens
      <4>1. SUFFICES ASSUME q = TrainTokens PROVE FALSE
        OBVIOUS
      <4>2. q * 1 <= q * SequenceLength
        BY CursorBasics
      <4> QED BY <1>1, <1>3, <1>4, <4>1, <4>2, CursorBasics
    <3> QED BY <3>1, CursorBasics
  <2>4. Reachable(c + k)
    BY ONLY <2>1, <2>2, <2>3, Zenon DEF Reachable
  <2> QED BY <1>1, <1>3, <2>4
<1>6. CASE ~ (SequenceLength <= TrainTokens - c)
  <2>1. c + k = TrainTokens /\ TrainTokens \in 0 .. TrainTokens
    BY <1>1, <1>2, <1>6, CursorBasics
  <2>2. (c + k) - c \in 2 .. SequenceLength - 1
    BY <1>1, <1>2, <1>3, <1>6, CursorBasics
  <2>3. (c + k) - q * SequenceLength \in 2 .. SequenceLength - 1
    BY ONLY <1>4, <2>2, Zenon
  <2>4. Reachable(c + k)
    BY ONLY <2>1, <2>3, q \in 0 .. TrainTokens, Zenon DEF Reachable
  <2> QED BY <1>1, <1>3, <2>4
<1> QED BY <1>5, <1>6

LEMMA BatchOK ==
  ASSUME NEW t, TrainingOK(t), NEW k, k = NextLength(t.cursor, TrainTokens), ~ (k < 2)
  PROVE  TrainingOK([step |-> t.step + 1, cursor |-> t.cursor + k,
                     seen |-> t.seen \o Tokens(t.cursor, k, FALSE)])
<1>1. /\ t.step + 1 \in Nat /\ k \in Nat /\ t.cursor \in Nat /\ Reachable(t.cursor + k)
      /\ t.seen = Stretch(t.cursor)
  <2>1. Reachable(t.cursor) /\ t.step \in Nat
    BY DEF TrainingOK
  <2>2. k \in Nat /\ t.cursor \in Nat /\ Reachable(t.cursor + k)
    BY ONLY <2>1, k = NextLength(t.cursor, TrainTokens), ~ (k < 2), BatchReaches
  <2>3. t.seen = Stretch(t.cursor)
    <3>1. PICK u : u = [step |-> t.step, cursor |-> t.cursor, seen |-> Stretch(t.cursor)] /\ t = u
      BY DEF TrainingOK
    <3>2. u.seen = Stretch(t.cursor)
      BY <3>1
    <3> QED BY <3>1, <3>2
  <2> QED BY <2>1, <2>2, <2>3
<1>2. t.seen \o Tokens(t.cursor, k, FALSE) = Stretch(t.cursor + k)
  BY ONLY <1>1, StretchConcat
<1> QED BY ONLY <1>1, <1>2 DEF TrainingOK

-----------------------------------------------------------------------------
(* Screens: the steps                                                      *)

LEMMA HeldSame == ASSUME screen' = screen PROVE Held' = Held
BY DEF Held, HeldOutBatches, HeldOutCursors

LEMMA PlacesApart ==
  /\ "dead" \notin Early /\ "dead" \notin Late /\ "dead" \notin Candidate /\ "dead" \notin Scored
  /\ "done" \notin Early /\ "done" \notin Candidate /\ "done" \notin Scored
  /\ "next" \notin Late /\ "next" \notin Candidate /\ "next" \notin Scored
  /\ \A p \in Early : p \notin Late /\ p \notin {"dead", "report", "write", "select", "done", "move", "record"}
BY DEF Early, Late, Candidate, Scored

\* Of the parts of the invariant, what an unchanged file keeps.
LEMMA FilesKeep ==
  ASSUME FilesOK, UNCHANGED <<screen, results, report, archive>>,
         TrainingOK(training'), checkpoint' = [o \in Options |-> checkpoint'[o]],
         \A o \in Options : checkpoint'[o] = Missing \/ TrainingOK(checkpoint'[o])
  PROVE  FilesOK'
<1>1. Held' = Held
  BY HeldSame
<1> QED BY <1>1 DEF FilesOK, Readable

LEMMA DeadKeeps ==
  ASSUME ScreenInv, at # "done", at' = "dead",
         UNCHANGED <<screen, option, training, results, report, checkpoint, archive, selection>>
  PROVE  ScreenInv'
<1>1. FilesOK'
  BY FilesKeep DEF ScreenInv, FilesOK
<1>2. PlaceOK'
  <2>1. selection' = Missing /\ option' \in Nat \ {0}
    BY DEF ScreenInv, PlaceOK
  <2> QED BY <2>1, PlacesApart DEF PlaceOK
<1>3. ArchiveOK'
  BY PlacesApart DEF ScreenInv, ArchiveOK, Readable
<1>4. ReportOK'
  BY DEF ScreenInv, ReportOK, Readable
<1> QED BY <1>1, <1>2, <1>3, <1>4 DEF ScreenInv

LEMMA CandidateKeeps ==
  ASSUME ScreenInv, at \in Early \ {"next"}, at' \in Early \ {"next"},
         UNCHANGED <<screen, option, results, report, archive, selection>>,
         TrainingOK(training'), checkpoint' = [o \in Options |-> checkpoint'[o]],
         \A o \in Options : checkpoint'[o] = Missing \/ TrainingOK(checkpoint'[o]),
         at' \in Scored => TrainTokens - training'.cursor < 2 /\ ScoreOK(heldOut', Held[option])
  PROVE  ScreenInv'
<1>1. FilesOK'
  BY FilesKeep DEF ScreenInv
<1>2. PlaceOK'
  <2>1. Held' = Held
    BY HeldSame
  <2>2. at \in Candidate /\ at' \in Candidate
    BY DEF Candidate
  <2>3. option' \in Nat \ {0} /\ option' = Len(results') + 1 /\ option' <= NumOptions
    BY <2>2 DEF ScreenInv, PlaceOK
  <2>4. selection' = Missing /\ at' # "done" /\ at' # "next"
    BY PlacesApart DEF ScreenInv, PlaceOK
  <2>5. at' \notin {"report", "write"} /\ at' \notin {"select", "done"}
    BY PlacesApart
  <2> QED BY <2>1, <2>3, <2>4, <2>5 DEF PlaceOK
<1>3. ArchiveOK'
  BY PlacesApart DEF ScreenInv, ArchiveOK, Readable
<1>4. ReportOK'
  BY PlacesApart DEF ScreenInv, ReportOK, Readable
<1> QED BY <1>1, <1>2, <1>3, <1>4 DEF ScreenInv

LEMMA LaunchScreenKeeps == ASSUME ScreenInv, LaunchScreen PROVE ScreenInv'
<1>1. /\ at = "dead" /\ at' = "next" /\ option' = 1
      /\ UNCHANGED <<screen, training, report, checkpoint, archive, selection>>
      /\ \/ results' = <<>> /\ (screen.bert => report = Missing)
         \/ results' = report /\ Readable
  BY DEF LaunchScreen, files, Readable
<1>2. Held' = Held
  BY <1>1, HeldSame
<1>3. ResultsOK(<<>>, Held)
  <2>1. Len(<<>>) <= NumOptions /\ \A i \in 1 .. Len(<<>>) : FALSE
    BY TableEmpty, ScreenAssumption
  <2> QED BY <2>1, TableEmpty DEF ResultsOK
<1>4. FilesOK'
  <2>1. ResultsOK(results', Held)
    BY <1>1, <1>3 DEF ScreenInv, FilesOK
  <2> QED BY <1>1, <1>2, <2>1 DEF ScreenInv, FilesOK, Readable
<1>5. Len(results') \in Nat
  BY <1>4 DEF FilesOK, ResultsOK, Table
<1>6. PlaceOK'
  <2>1. selection' = Missing
    BY <1>1 DEF ScreenInv, PlaceOK
  <2>2. option' <= Len(results') + 1 /\ option' \in Nat \ {0}
    BY <1>1, <1>5
  <2>3. "next" \in Early
    BY DEF Early
  <2> QED BY <1>1, <2>1, <2>2, <2>3, PlacesApart DEF PlaceOK
<1>7. CASE results' = <<>> /\ (screen.bert => report = Missing)
  <2>1. Len(results') = 0
    BY <1>7, TableEmpty
  <2>2. Safe(archive, results')
    BY <2>1 DEF Safe
  <2>3. ArchiveOK'
    BY <1>1, <2>2, PlacesApart DEF ScreenInv, ArchiveOK, Readable
  <2>4. ReportOK'
    BY <1>1, <1>7, <2>1 DEF ScreenInv, ReportOK, Readable
  <2> QED BY <1>4, <1>6, <2>3, <2>4 DEF ScreenInv
<1>8. CASE results' = report /\ Readable /\ screen.bert
  <2>1. screen.archives => Safe(archive, report) \/ Stuck(archive, report)
    BY <1>8 DEF ScreenInv, ReportOK
  <2>2. ArchiveOK'
    BY <1>1, <1>8, <2>1, PlacesApart DEF ScreenInv, ArchiveOK, Readable
  <2>3. Len(report) > 0
    BY <1>8 DEF ScreenInv, FilesOK
  <2>4. ReportOK'
    BY <1>1, <1>8, <2>3 DEF ScreenInv, ReportOK, Readable
  <2> QED BY <1>4, <1>6, <2>2, <2>4 DEF ScreenInv
<1>9. results' # <<>> => screen.bert
  BY DEF LaunchScreen
<1> QED BY <1>1, <1>7, <1>8, <1>9

LEMMA NextOptionKeeps == ASSUME ScreenInv, NextOption PROVE ScreenInv'
<1>1. /\ at = "next"
      /\ UNCHANGED <<screen, training, results, report, checkpoint, archive, selection>>
  BY DEF NextOption, files
<1>2. /\ option \in Nat \ {0} /\ option <= Len(results) + 1 /\ selection = Missing
      /\ ResultsOK(results, Held) /\ Len(results) \in Nat /\ Len(results) <= NumOptions
  BY <1>1 DEF ScreenInv, PlaceOK, FilesOK, ResultsOK, Table
<1>3. Reported(results, option) <=> option <= Len(results)
  <2>1. DOMAIN results = 1 .. Len(results)
    BY <1>2, TableIs DEF ResultsOK
  <2>2. ASSUME NEW i \in 1 .. Len(results) PROVE results[i].option = i
    <3>1. ResultOK(results[i], i, Held[i])
      BY <1>2 DEF ResultsOK
    <3>2. PICK r : /\ r = [option |-> i, loss |-> results[i].loss, heldOut |-> Held[i],
                           trained |-> Stretch(Final), kept |-> results[i].kept]
                   /\ results[i] = r
      BY <3>1 DEF ResultOK
    <3>3. r.option = i
      BY <3>2
    <3> QED BY <3>2, <3>3
  <2>3. Reported(results, option) <=> \E i \in 1 .. Len(results) : i = option
    BY <2>1, <2>2 DEF Reported
  <2> QED BY <1>2, <2>3
<1>4. FilesOK'
  BY <1>1, FilesKeep DEF ScreenInv, FilesOK
<1>5. "next" \in Early /\ "load" \in Early /\ "load" \in Candidate /\ "load" \notin Scored
      /\ "select" \in Late /\ "select" \notin Early
  BY DEF Early, Candidate, Scored, Late
<1>6. CASE option > NumOptions /\ at' = "select" /\ UNCHANGED option
  <2>1. Len(results) = NumOptions
    BY <1>2, <1>6, ScreenAssumption
  <2>2. PlaceOK'
    BY <1>1, <1>2, <1>5, <1>6, <2>1 DEF PlaceOK, Candidate, Scored
  <2>3. ~ Stuck(archive, results)
    BY <1>2, <2>1, ScreenAssumption DEF Stuck
  <2>4. ArchiveOK'
    BY <1>1, <1>5, <1>6, <2>3 DEF ScreenInv, ArchiveOK, Readable
  <2>5. ReportOK'
    BY <1>1, <1>6 DEF ScreenInv, ReportOK, Readable
  <2> QED BY <1>4, <2>2, <2>4, <2>5 DEF ScreenInv
<1>7. CASE Reported(results, option) /\ option' = option + 1 /\ UNCHANGED at
  <2>1. option' <= Len(results) + 1 /\ option' \in Nat \ {0}
    BY <1>2, <1>3, <1>7
  <2>2. PlaceOK'
    BY <1>1, <1>2, <1>5, <1>7, <2>1, PlacesApart DEF PlaceOK
  <2>3. ArchiveOK'
    BY <1>1, <1>7, PlacesApart DEF ScreenInv, ArchiveOK, Readable
  <2>4. ReportOK'
    BY <1>1, <1>7 DEF ScreenInv, ReportOK, Readable
  <2> QED BY <1>4, <2>2, <2>3, <2>4 DEF ScreenInv
<1>8. CASE option <= NumOptions /\ ~ Reported(results, option) /\ at' = "load" /\ UNCHANGED option
  <2>1. option' = Len(results) + 1 /\ option' <= NumOptions /\ option' \in Nat \ {0}
    BY <1>2, <1>3, <1>8
  <2>2. PlaceOK'
    BY <1>1, <1>2, <1>5, <1>8, <2>1, PlacesApart DEF PlaceOK
  <2>3. ArchiveOK'
    BY <1>1, <1>5, <1>8, PlacesApart DEF ScreenInv, ArchiveOK, Readable
  <2>4. ReportOK'
    BY <1>1, <1>8 DEF ScreenInv, ReportOK, Readable
  <2> QED BY <1>4, <2>2, <2>3, <2>4 DEF ScreenInv
<1> QED BY <1>6, <1>7, <1>8 DEF NextOption

\* Loading, training, scoring and saving a candidate leave the results alone.
LEMMA CandidateStepKeeps ==
  ASSUME ScreenInv,
         \/ LoadOption \/ SaveInitialisation \/ StartOption
         \/ (\E stop \in BOOLEAN : TrainBatch(stop)) \/ (\E loss \in Losses : EvaluateOption(loss))
         \/ ClearCheckpoint \/ ReplaceCheckpoint
  PROVE  ScreenInv'
<1>0. /\ TrainingOK(training) /\ checkpoint = [o \in Options |-> checkpoint[o]]
      /\ \A o \in Options : checkpoint[o] = Missing \/ TrainingOK(checkpoint[o])
  BY DEF ScreenInv, FilesOK
<1>1. \A p \in {"load", "initialise", "start", "train", "preempted", "replace_preempted",
                "trained", "replace", "archive"} : p \in Early \ {"next"} /\ p \in Candidate
  BY DEF Early, Candidate
<1>2. \A p \in {"load", "initialise", "start", "train", "preempted", "replace_preempted"} :
         p \notin Scored
  BY DEF Scored
<1>3. ASSUME NEW c, NEW o \in Options, c = Missing \/ TrainingOK(c), checkpoint' = [checkpoint EXCEPT ![o] = c]
      PROVE  /\ checkpoint' = [p \in Options |-> checkpoint'[p]]
             /\ \A p \in Options : checkpoint'[p] = Missing \/ TrainingOK(checkpoint'[p])
  <2>1. checkpoint' = [p \in Options |-> IF p = o THEN c ELSE checkpoint[p]]
    BY <1>0, <1>3
  <2>2. \A p \in Options : checkpoint'[p] = IF p = o THEN c ELSE checkpoint[p]
    BY ONLY <2>1
  <2> QED BY <1>0, <1>3, <2>1, <2>2
<1>4. ASSUME at \in Candidate PROVE option \in Options
  BY <1>4 DEF ScreenInv, PlaceOK, Options
<1>5. CASE LoadOption
  <2>1. /\ at = "load" /\ UNCHANGED <<screen, option, training, results, report, checkpoint, archive, selection>>
        /\ at' \in {"start", "initialise", "dead"}
    BY <1>5 DEF LoadOption
  <2>2. CASE at' = "dead"
    BY <2>1, <2>2, DeadKeeps
  <2>3. CASE at' # "dead"
    BY <1>0, <1>1, <1>2, <2>1, <2>3, CandidateKeeps
  <2> QED BY <2>2, <2>3
<1>6. CASE SaveInitialisation
  <2>1. /\ at = "initialise" /\ at' = "start"
        /\ UNCHANGED <<screen, option, training, results, report, checkpoint, archive, selection>>
    BY <1>6 DEF SaveInitialisation
  <2> QED BY <1>0, <1>1, <1>2, <2>1, CandidateKeeps
<1>7. CASE StartOption
  <2>1. /\ at = "start" /\ at' = "train"
        /\ UNCHANGED <<screen, option, results, report, archive, selection>>
        /\ training' = IF checkpoint[option] = Missing THEN Fresh ELSE checkpoint[option]
        /\ checkpoint' = IF screen.bert THEN checkpoint ELSE [checkpoint EXCEPT ![option] = training']
    BY <1>7 DEF StartOption
  <2>2. option \in Options
    BY <1>1, <1>4, <2>1
  <2>3. TrainingOK(training')
    BY <1>0, <2>1, <2>2, FreshOK
  <2>4. /\ checkpoint' = [p \in Options |-> checkpoint'[p]]
        /\ \A p \in Options : checkpoint'[p] = Missing \/ TrainingOK(checkpoint'[p])
    BY <1>0, <1>3, <2>1, <2>2, <2>3
  <2> QED BY <1>1, <1>2, <2>1, <2>3, <2>4, CandidateKeeps
<1>8. ASSUME NEW stop \in BOOLEAN, TrainBatch(stop) PROVE ScreenInv'
  <2>1. PICK k : k = NextLength(training.cursor, TrainTokens) /\ ~ (k < 2)
    BY <1>8 DEF TrainBatch, TrainDone
  <2>2. /\ at = "train" /\ at' \in {"train", "preempted"}
        /\ UNCHANGED <<screen, option, results, report, archive, selection>>
        /\ training' = [step |-> training.step + 1, cursor |-> training.cursor + k,
                        seen |-> training.seen \o Tokens(training.cursor, k, FALSE)]
        /\ checkpoint' \in {checkpoint, [checkpoint EXCEPT ![option] = training']}
    BY <1>8, <2>1 DEF TrainBatch
  <2>3. option \in Options
    BY <1>1, <1>4, <2>2
  <2>4. TrainingOK(training')
    <3>1. TrainingOK([step |-> training.step + 1, cursor |-> training.cursor + k,
                      seen |-> training.seen \o Tokens(training.cursor, k, FALSE)])
      BY <1>0, <2>1, BatchOK
    <3> QED BY <2>2, <3>1
  <2>5. /\ checkpoint' = [p \in Options |-> checkpoint'[p]]
        /\ \A p \in Options : checkpoint'[p] = Missing \/ TrainingOK(checkpoint'[p])
    BY <1>0, <1>3, <2>2, <2>3, <2>4
  <2> QED BY <1>1, <1>2, <2>2, <2>4, <2>5, CandidateKeeps
<1>9. ASSUME NEW loss \in Losses, EvaluateOption(loss) PROVE ScreenInv'
  <2>1. /\ at = "train" /\ at' = "trained" /\ heldOut' = [loss |-> loss, batches |-> HeldOutBatches(option)]
        /\ NextLength(training.cursor, TrainTokens) < 2
        /\ UNCHANGED <<screen, option, training, results, report, checkpoint, archive, selection>>
    BY <1>9 DEF EvaluateOption, TrainDone, files
  <2>2. option \in Options
    BY <1>1, <1>4, <2>1
  <2>3. TrainTokens - training.cursor < 2
    <3>1. training.cursor \in 0 .. TrainTokens
      BY <1>0 DEF TrainingOK, Reachable
    <3>2. (IF SequenceLength <= TrainTokens - training.cursor THEN SequenceLength
           ELSE TrainTokens - training.cursor) < 2
      BY <2>1 DEF NextLength, Least
    <3> QED BY ONLY <3>1, <3>2, CursorBasics
  <2>4. ScoreOK(heldOut', Held[option])
    <3>1. Held[option] = HeldOutBatches(option)
      BY <2>2 DEF Held
    <3>2. heldOut'.loss = loss /\ heldOut' = [loss |-> loss, batches |-> HeldOutBatches(option)]
      BY <2>1
    <3> QED BY ONLY <3>1, <3>2, loss \in Losses, Zenon DEF ScoreOK
  <2>5. TrainTokens - training'.cursor < 2 /\ TrainingOK(training')
    BY <1>0, <2>1, <2>3
  <2> QED BY <1>0, <1>1, <2>1, <2>4, <2>5, CandidateKeeps
<1>10. ASSUME at \in Scored
       PROVE  TrainTokens - training.cursor < 2 /\ ScoreOK(heldOut, Held[option])
  BY <1>10 DEF ScreenInv, PlaceOK
<1>11. CASE ClearCheckpoint
  <2>1. /\ at \in {"preempted", "trained"}
        /\ at' = (IF at = "preempted" THEN "replace_preempted" ELSE "replace")
        /\ UNCHANGED <<screen, option, training, heldOut, results, report, archive, selection>>
        /\ checkpoint' \in {checkpoint, [checkpoint EXCEPT ![option] = Missing]}
    BY <1>11 DEF ClearCheckpoint
  <2>2. option \in Options
    BY <1>1, <1>4, <2>1
  <2>3. /\ checkpoint' = [p \in Options |-> checkpoint'[p]]
        /\ \A p \in Options : checkpoint'[p] = Missing \/ TrainingOK(checkpoint'[p])
    BY <1>0, <1>3, <2>1, <2>2
  <2>4. at' \in Scored => at \in Scored
    BY <2>1 DEF Scored
  <2>5. at' \in Scored => TrainTokens - training'.cursor < 2 /\ ScoreOK(heldOut', Held[option])
    BY <1>10, <2>1, <2>4
  <2>6. at \in Early \ {"next"} /\ at' \in Early \ {"next"} /\ TrainingOK(training')
    BY <1>0, <1>1, <2>1
  <2> QED BY ONLY <2>1, <2>3, <2>5, <2>6, ScreenInv, CandidateKeeps
<1>12. CASE ReplaceCheckpoint
  <2>1. /\ at \in {"replace_preempted", "replace"}
        /\ at' = (IF at = "replace" THEN "archive" ELSE "dead")
        /\ UNCHANGED <<screen, option, training, heldOut, results, report, archive, selection>>
        /\ checkpoint' = [checkpoint EXCEPT ![option] = training]
    BY <1>12 DEF ReplaceCheckpoint, Dies
  <2>2. option \in Options
    BY <1>1, <1>4, <2>1
  <2>3. /\ checkpoint' = [p \in Options |-> checkpoint'[p]]
        /\ \A p \in Options : checkpoint'[p] = Missing \/ TrainingOK(checkpoint'[p])
    BY <1>0, <1>3, <2>1, <2>2
  <2>4. CASE at = "replace"
    <3>1. "replace" \in Scored
      BY DEF Scored
    <3>2. at' \in Scored => TrainTokens - training'.cursor < 2 /\ ScoreOK(heldOut', Held[option])
      BY <1>10, <2>1, <2>4, <3>1
    <3>3. at \in Early \ {"next"} /\ at' \in Early \ {"next"} /\ TrainingOK(training')
      BY <1>0, <1>1, <2>1, <2>4
    <3> QED BY ONLY <2>1, <2>3, <3>2, <3>3, ScreenInv, CandidateKeeps
  <2>5. CASE at # "replace"
    <3>1. at' = "dead" /\ at # "done"
      BY <2>1, <2>5
    <3>2. FilesOK' /\ PlaceOK' /\ ArchiveOK' /\ ReportOK'
      <4>1. FilesOK'
        BY <1>0, <2>1, <2>3, FilesKeep DEF ScreenInv
      <4>2. PlaceOK'
        <5>1. selection' = Missing /\ option' \in Nat \ {0}
          BY <2>1, <3>1 DEF ScreenInv, PlaceOK
        <5> QED BY <3>1, <5>1, PlacesApart DEF PlaceOK
      <4>3. ArchiveOK'
        BY <2>1, <3>1, PlacesApart DEF ScreenInv, ArchiveOK, Readable
      <4>4. ReportOK'
        BY <2>1, <3>1 DEF ScreenInv, ReportOK, Readable
      <4> QED BY <4>1, <4>2, <4>3, <4>4
    <3> QED BY <3>2 DEF ScreenInv
  <2> QED BY <2>4, <2>5
<1> QED BY <1>5, <1>6, <1>7, <1>8, <1>9, <1>11, <1>12

LEMMA ArchivePlaces ==
  /\ "archive" \in Early /\ "archive" \in Candidate /\ "archive" \in Scored
  /\ "move" \in Late /\ "move" \in Candidate /\ "move" \in Scored
  /\ "record" \in Late /\ "record" \in Candidate /\ "record" \in Scored
  /\ "report" \in Late /\ "report" \notin Candidate /\ "report" \notin Scored
  /\ "write" \in Late /\ "write" \notin Candidate /\ "write" \notin Scored
  /\ "select" \in Late /\ "select" \notin Candidate /\ "select" \notin Scored
  /\ "done" \in Late /\ "next" \in Early
  /\ \A p \in Late : p \notin Early
BY DEF Early, Late, Candidate, Scored

LEMMA CandidateParts ==
  ASSUME ScreenInv, at \in Candidate, at \in Scored
  PROVE  /\ option \in Options /\ option = Len(results) + 1 /\ option <= NumOptions
         /\ Len(results) \in Nat /\ ResultsOK(results, Held)
         /\ selection = Missing /\ ScoreOK(heldOut, Held[option])
<1>1. option = Len(results) + 1 /\ option <= NumOptions /\ option \in Nat \ {0}
  BY DEF ScreenInv, PlaceOK
<1>2. ResultsOK(results, Held)
  BY DEF ScreenInv, FilesOK
<1>3. Len(results) \in Nat
  BY <1>2 DEF ResultsOK, Table
<1>4. option \in Options
  BY <1>1, ScreenAssumption DEF Options
<1>5. selection = Missing
  BY PlacesApart DEF ScreenInv, PlaceOK
<1>6. ScoreOK(heldOut, Held[option])
  BY DEF ScreenInv, PlaceOK
<1> QED BY <1>1, <1>2, <1>3, <1>4, <1>5, <1>6

\* What the best of some rows and a later archive have to do with each other.
LEMMA BestPlace ==
  ASSUME NEW rows, NEW held, ResultsOK(rows, held), Len(rows) > 0
  PROVE  /\ Best(rows) \in 1 .. Len(rows) /\ Best(rows) \in Options
         /\ Graded(rows, Len(rows)) /\ rows[Best(rows)].loss \in Losses
         /\ \A i \in 1 .. Len(rows) : rows[Best(rows)].loss <= rows[i].loss
<1>1. \A i \in 1 .. Len(rows) : rows[i].loss \in Losses
  BY DEF ResultsOK, ResultOK
<1>2. Table(rows) /\ Len(rows) \in Nat /\ Len(rows) <= NumOptions
  BY DEF ResultsOK, Table
<1>3. Graded(rows, Len(rows))
  BY <1>1, <1>2, ScreenAssumption DEF Graded
<1>4. FirstLowest(rows, Best(rows), Len(rows))
  BY <1>2, <1>3, BestIs
<1> QED BY <1>1, <1>2, <1>3, <1>4, ScreenAssumption DEF FirstLowest, Options

\* A place of the archive that no row has, and that holds no loss, may change.
LEMMA ArchiveBeyond ==
  ASSUME NEW rows, NEW held, ResultsOK(rows, held), NEW before, NEW now, NEW index,
         index = Len(rows) + 1 \/ index \notin 1 .. Len(rows),
         \A o \in Options : o # index => now[o] = before[o]
  PROVE  Safe(before, rows) => Safe(now, rows)
<1>1. SUFFICES ASSUME Safe(before, rows), Len(rows) > 0 PROVE Safe(now, rows)
  BY DEF Safe
<1>2. Len(rows) \in Nat /\ Len(rows) <= NumOptions
  BY DEF ResultsOK, Table
<1>3. \A o \in 1 .. Len(rows) : o # index /\ o \in Options
  BY <1>2, ScreenAssumption DEF Options
<1>4. Best(rows) \in 1 .. Len(rows)
  BY <1>1, BestPlace
<1>5. \A o \in 1 .. Len(rows) : now[o] = before[o]
  BY <1>3
<1> QED BY <1>1, <1>4, <1>5 DEF Safe

LEMMA BeginArchiveKeeps == ASSUME ScreenInv, BeginArchive PROVE ScreenInv'
<1>1. /\ at = "archive"
      /\ UNCHANGED <<screen, option, training, heldOut, results, report, checkpoint, selection>>
  BY DEF BeginArchive
<1>2. /\ option \in Options /\ option = Len(results) + 1 /\ option <= NumOptions
      /\ Len(results) \in Nat /\ ResultsOK(results, Held)
      /\ selection = Missing /\ ScoreOK(heldOut, Held[option])
  BY <1>1, ArchivePlaces, CandidateParts
<1>3. Held' = Held
  BY <1>1, HeldSame
<1>4. ASSUME at' \in {"move", "record"} PROVE PlaceOK'
  <2>1. at' \in Candidate /\ at' \in Scored /\ at' \in Late
    BY <1>4, ArchivePlaces
  <2>2. TrainTokens - training.cursor < 2
    BY <1>1, ArchivePlaces DEF ScreenInv, PlaceOK
  <2> QED BY <1>1, <1>2, <1>3, <1>4, <2>1, <2>2, ArchivePlaces DEF PlaceOK, Options
<1>5. CASE ~ screen.archives
  <2>1. at' = "record" /\ archive' = archive
    BY <1>5 DEF BeginArchive
  <2>2. FilesOK'
    BY <1>1, <2>1, FilesKeep DEF ScreenInv, FilesOK
  <2>3. ArchiveOK' /\ ReportOK'
    BY <1>1, <1>5 DEF ArchiveOK, ReportOK
  <2> QED BY <1>4, <2>1, <2>2, <2>3 DEF ScreenInv
<1>6. CASE screen.archives /\ archive[option] # Missing
  <2>1. at' = "dead" /\ archive' = archive
    BY <1>1, <1>6 DEF BeginArchive
  <2> QED BY <1>1, <2>1, DeadKeeps
<1>7. CASE screen.archives /\ archive[option] = Missing
  <2>1. at' = "move" /\ archive' = [archive EXCEPT ![option] = Partial]
    BY <1>1, <1>7 DEF BeginArchive
  <2>2. /\ archive = [o \in Options |-> archive[o]]
        /\ \A o \in Options : archive[o] \in Losses \cup {Missing, Partial}
    BY DEF ScreenInv, FilesOK
  <2>3. /\ archive' = [o \in Options |-> archive'[o]]
        /\ archive'[option] = Partial /\ \A o \in Options : o # option => archive'[o] = archive[o]
    BY <1>2, <2>1, <2>2
  <2>4. FilesOK'
    BY <1>1, <1>3, <2>2, <2>3 DEF ScreenInv, FilesOK, Readable
  <2>5. ~ Stuck(archive, results)
    BY <1>2, <1>7 DEF Stuck
  <2>6. Safe(archive, results)
    BY <1>1, <1>7, <2>5, ArchivePlaces DEF ScreenInv, ArchiveOK
  <2>7. Safe(archive', results)
    BY <1>2, <2>3, <2>6, ArchiveBeyond
  <2>8. Witnessed(archive, report) => Witnessed(archive', report)
    <3>1. ASSUME NEW o \in Options, archive[o] \in Losses PROVE archive'[o] = archive[o]
      BY <1>7, <2>3, <3>1, ScreenAssumption
    <3> QED BY <3>1 DEF Witnessed
  <2>9. ArchiveOK'
    BY <1>1, <1>7, <2>1, <2>3, <2>7, <2>8, ArchivePlaces DEF ScreenInv, ArchiveOK, Readable
  <2>10. ASSUME screen.bert, Readable PROVE Stuck(archive', report)
    <3>1. report = results
      BY <1>1, <1>7, <2>10 DEF ScreenInv, ReportOK, Readable
    <3>2. Len(results) < NumOptions /\ archive'[Len(results) + 1] # Missing
      BY <1>2, <2>3, ScreenAssumption
    <3> QED BY ONLY <3>1, <3>2, Zenon DEF Stuck
  <2>11. ReportOK'
    BY <1>1, <1>7, <2>1, <2>10 DEF ScreenInv, ReportOK, Readable
  <2> QED BY <1>4, <2>1, <2>4, <2>9, <2>11 DEF ScreenInv
<1> QED BY <1>5, <1>6, <1>7

LEMMA EndArchiveKeeps == ASSUME ScreenInv, EndArchive PROVE ScreenInv'
<1>1. /\ at = "move" /\ at' = "record"
      /\ archive' = [archive EXCEPT ![option] = heldOut.loss]
      /\ checkpoint' = [checkpoint EXCEPT ![option] = Missing]
      /\ UNCHANGED <<screen, option, training, heldOut, results, report, selection>>
  BY DEF EndArchive
<1>2. /\ option \in Options /\ option = Len(results) + 1 /\ option <= NumOptions
      /\ Len(results) \in Nat /\ ResultsOK(results, Held)
      /\ selection = Missing /\ ScoreOK(heldOut, Held[option])
  BY <1>1, ArchivePlaces, CandidateParts
<1>3. Held' = Held
  BY <1>1, HeldSame
<1>4. heldOut.loss \in Losses
  BY <1>2 DEF ScoreOK
<1>5. /\ archive = [o \in Options |-> archive[o]]
      /\ \A o \in Options : archive[o] \in Losses \cup {Missing, Partial}
      /\ checkpoint = [o \in Options |-> checkpoint[o]]
      /\ \A o \in Options : checkpoint[o] = Missing \/ TrainingOK(checkpoint[o])
  BY DEF ScreenInv, FilesOK
<1>6. /\ archive' = [o \in Options |-> archive'[o]]
      /\ archive'[option] = heldOut.loss /\ \A o \in Options : o # option => archive'[o] = archive[o]
  BY <1>1, <1>2, <1>5
<1>7. /\ checkpoint' = [o \in Options |-> checkpoint'[o]]
      /\ checkpoint'[option] = Missing /\ \A o \in Options : o # option => checkpoint'[o] = checkpoint[o]
  BY <1>1, <1>2, <1>5
<1>8. FilesOK'
  <2>1. \A o \in Options : archive'[o] \in Losses \cup {Missing, Partial}
    BY <1>4, <1>5, <1>6
  <2>2. \A o \in Options : checkpoint'[o] = Missing \/ TrainingOK(checkpoint'[o])
    BY <1>5, <1>7
  <2> QED BY <1>1, <1>3, <1>6, <1>7, <2>1, <2>2 DEF ScreenInv, FilesOK, Readable
<1>9. PlaceOK'
  <2>1. TrainTokens - training.cursor < 2
    BY <1>1, ArchivePlaces DEF ScreenInv, PlaceOK
  <2> QED BY <1>1, <1>2, <1>3, <2>1, ArchivePlaces DEF PlaceOK, Options
<1>10. CASE ~ screen.archives
  BY <1>1, <1>8, <1>9, <1>10 DEF ScreenInv, ArchiveOK, ReportOK
<1>11. CASE screen.archives
  <2>1. Safe(archive, results) /\ archive[option] = Partial
    BY <1>1, <1>11, ArchivePlaces DEF ScreenInv, ArchiveOK
  <2>2. Safe(archive', results)
    BY <1>2, <1>6, <2>1, ArchiveBeyond
  <2>3. Witnessed(archive, report) => Witnessed(archive', report)
    <3>1. ASSUME NEW o \in Options, archive[o] \in Losses PROVE archive'[o] = archive[o]
      BY <1>6, <2>1, <3>1, ScreenAssumption
    <3> QED BY <3>1 DEF Witnessed
  <2>4. ArchiveOK'
    BY <1>1, <1>6, <1>11, <2>2, <2>3, ArchivePlaces DEF ScreenInv, ArchiveOK, Readable
  <2>5. ASSUME screen.bert, Readable PROVE Stuck(archive', report)
    <3>1. report = results
      BY <1>1, <1>11, <2>5 DEF ScreenInv, ReportOK, Readable
    <3>2. Len(results) < NumOptions /\ archive'[Len(results) + 1] # Missing
      BY <1>2, <1>4, <1>6, ScreenAssumption
    <3> QED BY ONLY <3>1, <3>2, Zenon DEF Stuck
  <2>6. ReportOK'
    BY <1>1, <1>11, <2>5 DEF ScreenInv, ReportOK, Readable
  <2> QED BY <1>8, <1>9, <2>4, <2>6 DEF ScreenInv
<1> QED BY <1>10, <1>11

-----------------------------------------------------------------------------
(* Screens: a row is appended, and the archives of the others go           *)

LEMMA RowFields ==
  ASSUME NEW rows, NEW held, ResultsOK(rows, held), NEW i \in 1 .. Len(rows)
  PROVE  /\ rows[i].option = i /\ rows[i].loss \in Losses /\ rows[i].loss \in Int
         /\ rows[i].heldOut = held[i] /\ rows[i].trained = Stretch(Final) /\ i \in Options
<1>1. ResultOK(rows[i], i, held[i]) /\ Len(rows) \in Nat /\ Len(rows) <= NumOptions
  BY DEF ResultsOK, Table
<1>2. PICK r : /\ r = [option |-> i, loss |-> rows[i].loss, heldOut |-> held[i],
                       trained |-> Stretch(Final), kept |-> rows[i].kept]
               /\ rows[i] = r
  BY <1>1 DEF ResultOK
<1>3. r.option = i /\ r.heldOut = held[i] /\ r.trained = Stretch(Final)
  BY ONLY <1>2
<1>4. rows[i].loss \in Losses /\ rows[i].loss \in Int
  BY <1>1, ScreenAssumption DEF ResultOK
<1>5. i \in Options
  BY <1>1, ScreenAssumption DEF Options
<1> QED BY ONLY <1>2, <1>3, <1>4, <1>5, Zenon

LEMMA RowsGrow ==
  ASSUME NEW rows, NEW held, ResultsOK(rows, held), Len(rows) < NumOptions,
         NEW row, ResultOK(row, Len(rows) + 1, held[Len(rows) + 1])
  PROVE  /\ ResultsOK(Append(rows, row), held) /\ Len(Append(rows, row)) = Len(rows) + 1
         /\ Append(rows, row)[Len(rows) + 1] = row
         /\ \A i \in 1 .. Len(rows) : Append(rows, row)[i] = rows[i]
<1>1. Table(rows) /\ \A i \in 1 .. Len(rows) : ResultOK(rows[i], i, held[i])
  BY DEF ResultsOK
<1>2. PICK n \in Nat : n = Len(rows) /\ n < NumOptions
  BY <1>1 DEF Table
<1>3. PICK more : more = Append(rows, row)
  OBVIOUS
<1>4. /\ Table(more) /\ Len(more) = n + 1 /\ more[n + 1] = row
      /\ \A i \in 1 .. n : more[i] = rows[i]
  BY ONLY <1>1, <1>2, <1>3, TableGrows
<1>5. ASSUME NEW i \in 1 .. n + 1 PROVE ResultOK(more[i], i, held[i])
  <2>1. i \in 1 .. n \/ i = n + 1
    OBVIOUS
  <2> QED BY ONLY <1>1, <1>2, <1>4, <2>1, ResultOK(row, Len(rows) + 1, held[Len(rows) + 1]), Zenon
<1>6. n + 1 <= NumOptions
  BY <1>2, ScreenAssumption
<1>7. ResultsOK(more, held)
  BY ONLY <1>4, <1>5, <1>6, Zenon DEF ResultsOK
<1> QED BY ONLY <1>2, <1>3, <1>4, <1>7, Zenon

LEMMA PrunedOK ==
  ASSUME NEW rows, NEW held, ResultsOK(rows, held), Len(rows) > 0
  PROVE  /\ ResultsOK(Pruned(rows), held) /\ Len(Pruned(rows)) = Len(rows)
         /\ Best(Pruned(rows)) = Best(rows) /\ Pruned(rows)[Best(rows)].kept
         /\ \A i \in 1 .. Len(rows) : Pruned(rows)[i].loss = rows[i].loss
<1>1. Table(rows) /\ \A i \in 1 .. Len(rows) : ResultOK(rows[i], i, held[i])
  BY DEF ResultsOK
<1>2. PICK n \in Nat : n = Len(rows) /\ n <= NumOptions /\ DOMAIN rows = 1 .. n
  BY <1>1 DEF Table, ResultsOK
<1>3. PICK fewer : /\ fewer = Pruned(rows)
                   /\ fewer = [i \in 1 .. n |-> [rows[i] EXCEPT !.kept = i = Best(rows)]]
  BY <1>2 DEF Pruned
<1>4. ASSUME NEW i \in 1 .. n
      PROVE  /\ fewer[i] = [option |-> i, loss |-> rows[i].loss, heldOut |-> held[i],
                            trained |-> Stretch(Final), kept |-> i = Best(rows)]
             /\ fewer[i].loss = rows[i].loss /\ fewer[i].kept = (i = Best(rows))
             /\ ResultOK(fewer[i], i, held[i])
  <2>1. /\ rows[i] = [option |-> i, loss |-> rows[i].loss, heldOut |-> held[i],
                      trained |-> Stretch(Final), kept |-> rows[i].kept]
        /\ IsFinal(Final) /\ rows[i].loss \in Losses
    BY <1>1, <1>2 DEF ResultOK
  <2>2. PICK l, k, b : l = rows[i].loss /\ k = rows[i].kept /\ b = (i = Best(rows))
    OBVIOUS
  <2>3. fewer[i] = [rows[i] EXCEPT !.kept = b]
    BY ONLY <1>3, <2>2, i \in 1 .. n, Zenon
  <2>4. rows[i] = [option |-> i, loss |-> l, heldOut |-> held[i], trained |-> Stretch(Final), kept |-> k]
    BY ONLY <2>1, <2>2, Zenon
  <2>5. fewer[i] = [option |-> i, loss |-> l, heldOut |-> held[i], trained |-> Stretch(Final), kept |-> b]
    BY ONLY <2>3, <2>4
  <2>6. fewer[i].loss = l /\ fewer[i].kept = b
    BY ONLY <2>5
  <2>7. ResultOK(fewer[i], i, held[i])
    BY ONLY <2>1, <2>2, <2>5, <2>6, Zenon DEF ResultOK
  <2> QED BY ONLY <2>2, <2>5, <2>6, <2>7, Zenon
<1>5. Len(fewer) = n /\ Table(fewer)
  <2>1. DOMAIN fewer = 1 .. n /\ fewer = [i \in 1 .. n |-> fewer[i]]
    BY <1>3
  <2>2. Len(fewer) = n
    BY ONLY <2>1, n \in Nat
  <2> QED BY <2>1, <2>2 DEF Table
<1>6. ResultsOK(fewer, held)
  BY ONLY <1>2, <1>4, <1>5, Zenon DEF ResultsOK
<1>7. Best(rows) \in 1 .. n /\ Graded(rows, n)
  BY <1>2, BestPlace
<1>8. Best(fewer) = Best(rows)
  <2>1. Len(fewer) = Len(rows) /\ \A i \in 1 .. Len(rows) : fewer[i].loss = rows[i].loss
    BY ONLY <1>2, <1>4, <1>5, Zenon
  <2>2. Graded(rows, Len(rows)) /\ Len(rows) > 0
    BY <1>2, <1>7
  <2> QED BY ONLY <1>1, <1>5, <2>1, <2>2, BestOfSame
<1>9. fewer[Best(rows)].kept
  BY ONLY <1>4, <1>7, Zenon
<1> QED BY ONLY <1>2, <1>3, <1>4, <1>5, <1>6, <1>8, <1>9, Zenon

\* The archives left after a row are those of the best row, and one as good as
\* any there was before.
LEMMA PruneSafe ==
  ASSUME NEW rows, NEW more, NEW held, ResultsOK(rows, held), ResultsOK(more, held),
         NEW n \in Nat, n = Len(rows), Len(more) = n + 1,
         \A i \in 1 .. n : more[i] = rows[i],
         NEW before, NEW now, Safe(before, rows),
         before[n + 1] = more[n + 1].loss, more[n + 1].kept,
         \A o \in Options : now[o] = IF o \in Losers(more) THEN Missing ELSE before[o]
  PROVE  /\ Safe(now, more)
         /\ Safe(now, rows) \/ Stuck(now, rows)
         /\ \A o \in Options : before[o] \in Losses =>
              \E p \in Options : now[p] \in Losses /\ now[p] <= before[o]
<1>1. Best(more) \in 1 .. n + 1 /\ more[Best(more)].loss \in Losses /\ n + 1 > 0
      /\ \A i \in 1 .. n + 1 : more[Best(more)].loss <= more[i].loss
  BY BestPlace
<1>2. Table(rows) /\ Table(more) /\ n + 1 <= NumOptions
  BY DEF ResultsOK
<1>3. \A i \in 1 .. n + 1 : i \in Options /\ more[i].loss \in Losses /\ more[i].loss \in Int
  BY RowFields
<1>4. Best(more) = n + 1 \/ (n > 0 /\ Best(more) = Best(rows))
  <2>1. Graded(more, Len(more))
    BY BestPlace, <1>1
  <2>2. Len(more) = Len(rows) + 1 /\ \A i \in 1 .. Len(rows) : more[i].loss = rows[i].loss
    OBVIOUS
  <2>3. Best(more) \in {Len(more)} \cup (IF Len(rows) > 0 THEN {Best(rows)} ELSE {})
    BY ONLY <1>2, <2>1, <2>2, BestGrows
  <2> QED BY <2>3
<1>5. DOMAIN more = 1 .. n + 1
  BY <1>2, TableIs
<1>6. \A i \in 1 .. n + 1 : i \in Losers(more) <=> i # Best(more) /\ more[i].kept
  BY ONLY <1>5, Zenon DEF Losers
<1>7. \A i \in 1 .. n : i \in 1 .. n + 1 /\ i # n + 1
  OBVIOUS
<1>8. n > 0 => /\ Best(rows) \in 1 .. n /\ before[Best(rows)] = rows[Best(rows)].loss
               /\ rows[Best(rows)].kept
               /\ \A o \in 1 .. n : o # Best(rows) => before[o] = Missing
  <2>1. n > 0 => Best(rows) \in 1 .. n
    BY BestPlace
  <2> QED BY <2>1 DEF Safe
<1>9. before[Best(more)] = more[Best(more)].loss /\ more[Best(more)].kept
  BY ONLY <1>4, <1>8, before[n + 1] = more[n + 1].loss, more[n + 1].kept,
          \A i \in 1 .. n : more[i] = rows[i], Zenon
<1>10. now[Best(more)] = more[Best(more)].loss
  <2>1. Best(more) \notin Losers(more) /\ Best(more) \in Options
    BY ONLY <1>1, <1>3, <1>6, Zenon
  <2> QED BY <1>9, <2>1
<1>11. ASSUME NEW o \in 1 .. n + 1, o # Best(more) PROVE now[o] = Missing
  <2>1. CASE more[o].kept
    BY <1>3, <1>6, <1>11, <2>1
  <2>2. CASE ~ more[o].kept
    <3>1. o \in 1 .. n /\ n > 0
      <4>1. o # n + 1
        BY <2>2
      <4> QED BY <4>1
    <3>2. more[o] = rows[o]
      BY <3>1
    <3>3. o # Best(rows)
      BY ONLY <1>8, <2>2, <3>1, <3>2, Zenon
    <3>4. before[o] = Missing
      BY ONLY <1>8, <3>1, <3>3, Zenon
    <3>5. o \in Options
      BY <1>3
    <3> QED BY <3>4, <3>5
  <2> QED BY <2>1, <2>2
<1>12. Safe(now, more)
  BY ONLY <1>9, <1>10, <1>11, Len(more) = n + 1, Zenon DEF Safe
<1>13. Safe(now, rows) \/ Stuck(now, rows)
  <2>1. CASE Best(more) = n + 1
    <3>1. now[n + 1] # Missing
      BY <1>1, <1>10, <2>1, ScreenAssumption
    <3>2. Len(rows) < NumOptions /\ now[Len(rows) + 1] # Missing
      BY <1>2, <3>1, ScreenAssumption
    <3> QED BY ONLY <3>2, Zenon DEF Stuck
  <2>2. CASE n > 0 /\ Best(more) = Best(rows)
    <3>1. Best(rows) \in 1 .. n /\ rows[Best(rows)].kept /\ more[Best(rows)] = rows[Best(rows)]
      BY ONLY <1>8, <2>2, \A i \in 1 .. n : more[i] = rows[i], Zenon
    <3>2. now[Best(rows)] = rows[Best(rows)].loss
      BY ONLY <1>10, <2>2, <3>1, Zenon
    <3>3. \A o \in 1 .. n : o # Best(rows) => now[o] = Missing
      BY ONLY <1>7, <1>11, <2>2, Zenon
    <3> QED BY ONLY <3>1, <3>2, <3>3, n = Len(rows), Zenon DEF Safe
  <2> QED BY <1>4, <2>1, <2>2
<1>14. ASSUME NEW o \in Options, before[o] \in Losses
       PROVE  \E p \in Options : now[p] \in Losses /\ now[p] <= before[o]
  <2>1. CASE o \notin Losers(more)
    <3>1. now[o] = before[o] /\ before[o] \in Int
      BY <1>14, <2>1, ScreenAssumption
    <3>2. now[o] <= before[o]
      BY <3>1
    <3> QED BY <1>14, <3>1, <3>2
  <2>2. CASE o \in Losers(more)
    <3>1. o \in 1 .. n + 1
      BY <1>5, <2>2 DEF Losers
    <3>2. before[o] = more[o].loss
      <4>1. CASE o = n + 1
        BY <4>1
      <4>2. CASE o # n + 1
        <5>1. o \in 1 .. n /\ n > 0
          BY <3>1, <4>2
        <5>2. before[o] # Missing
          BY <1>14, ScreenAssumption
        <5>3. o = Best(rows) /\ before[o] = rows[o].loss /\ more[o] = rows[o]
          BY ONLY <1>8, <5>1, <5>2, \A i \in 1 .. n : more[i] = rows[i], Zenon
        <5> QED BY ONLY <5>3, Zenon
      <4> QED BY <4>1, <4>2
    <3>3. now[Best(more)] \in Losses /\ now[Best(more)] <= before[o] /\ Best(more) \in Options
      BY ONLY <1>1, <1>3, <1>10, <3>1, <3>2, Zenon
    <3> QED BY <3>3
  <2> QED BY <2>1, <2>2
<1> QED BY ONLY <1>12, <1>13, <1>14

LEMMA WitnessKept ==
  ASSUME NEW rows, NEW held, ResultsOK(rows, held), NEW before, NEW now, Witnessed(before, rows),
         \A o \in Options : before[o] \in Losses =>
           \E p \in Options : now[p] \in Losses /\ now[p] <= before[o]
  PROVE  Witnessed(now, rows)
<1>1. PICK o \in Options : before[o] \in Losses /\ \A i \in 1 .. Len(rows) : before[o] <= rows[i].loss
  BY DEF Witnessed
<1>2. PICK p \in Options : now[p] \in Losses /\ now[p] <= before[o]
  BY <1>1
<1>3. ASSUME NEW i \in 1 .. Len(rows) PROVE now[p] <= rows[i].loss
  <2>1. now[p] \in Int /\ before[o] \in Int /\ rows[i].loss \in Int /\ before[o] <= rows[i].loss
    BY <1>1, <1>2, RowFields, ScreenAssumption
  <2> QED BY ONLY <1>2, <2>1
<1> QED BY <1>2, <1>3 DEF Witnessed

LEMMA NewRow ==
  ASSUME ScreenInv, at = "record",
         NEW row, row = [option |-> option, loss |-> heldOut.loss, heldOut |-> heldOut.batches,
                         trained |-> training.seen, kept |-> TRUE]
  PROVE  ResultOK(row, option, Held[option]) /\ row.kept /\ row.loss = heldOut.loss
<1>1. /\ TrainingOK(training) /\ TrainTokens - training.cursor < 2
      /\ ScoreOK(heldOut, Held[option])
  BY ArchivePlaces DEF ScreenInv, FilesOK, PlaceOK
<1>2. training.seen = Stretch(training.cursor)
  <2>1. PICK u : u = [step |-> training.step, cursor |-> training.cursor, seen |-> Stretch(training.cursor)]
                 /\ training = u
    BY <1>1 DEF TrainingOK
  <2>2. u.seen = Stretch(training.cursor)
    BY <2>1
  <2> QED BY <2>1, <2>2
<1>3. training.cursor = Final /\ IsFinal(Final)
  <2>1. IsFinal(training.cursor)
    BY <1>1 DEF IsFinal, TrainingOK
  <2> QED BY ONLY <2>1, FinalUnique
<1>4. heldOut.batches = Held[option] /\ heldOut.loss \in Losses
  <2>1. PICK u : u = [loss |-> heldOut.loss, batches |-> Held[option]] /\ heldOut = u
    BY <1>1 DEF ScoreOK
  <2>2. u.batches = Held[option]
    BY <2>1
  <2> QED BY <1>1, <2>1, <2>2 DEF ScoreOK
<1>5. row = [option |-> option, loss |-> heldOut.loss, heldOut |-> Held[option],
             trained |-> Stretch(Final), kept |-> TRUE]
  BY ONLY <1>2, <1>3, <1>4, Zenon,
     row = [option |-> option, loss |-> heldOut.loss, heldOut |-> heldOut.batches,
            trained |-> training.seen, kept |-> TRUE]
<1>6. row.loss = heldOut.loss /\ row.kept = TRUE
  BY ONLY <1>5
<1>7. ResultOK(row, option, Held[option])
  BY ONLY <1>3, <1>4, <1>5, <1>6, Zenon DEF ResultOK
<1> QED BY <1>6, <1>7

LEMMA RecordResultKeeps == ASSUME ScreenInv, RecordResult PROVE ScreenInv'
<1>1. /\ at = "record"
      /\ UNCHANGED <<screen, option, training, heldOut, report, checkpoint, selection>>
  BY DEF RecordResult
<1>2. /\ option \in Options /\ option = Len(results) + 1 /\ option <= NumOptions
      /\ Len(results) \in Nat /\ ResultsOK(results, Held)
      /\ selection = Missing /\ ScoreOK(heldOut, Held[option])
  BY <1>1, ArchivePlaces, CandidateParts
<1>3. Held' = Held
  BY <1>1, HeldSame
<1>4. PICK row : /\ row = [option |-> option, loss |-> heldOut.loss, heldOut |-> heldOut.batches,
                           trained |-> training.seen, kept |-> TRUE]
                 /\ ResultOK(row, option, Held[option]) /\ row.kept /\ row.loss = heldOut.loss
  BY <1>1, NewRow
<1>5. PICK more : more = Append(results, row)
  OBVIOUS
<1>6. /\ ResultsOK(more, Held) /\ Len(more) = option /\ more[option] = row
      /\ \A i \in 1 .. Len(results) : more[i] = results[i]
  <2>1. Len(results) < NumOptions /\ ResultOK(row, Len(results) + 1, Held[Len(results) + 1])
    <3>1. Len(results) < NumOptions
      BY <1>2, ScreenAssumption
    <3> QED BY ONLY <1>2, <1>4, <3>1, Zenon
  <2> QED BY ONLY <1>2, <1>5, <2>1, RowsGrow
<1>7. Len(more) > 0 /\ option \in Nat \ {0}
  BY <1>2, <1>6
<1>8. {more[i].option : i \in Losers(more)} = Losers(more)
  <2>1. DOMAIN more = 1 .. option
    BY <1>6, TableIs DEF ResultsOK
  <2>2. Losers(more) \subseteq 1 .. option
    BY ONLY <2>1, Zenon DEF Losers
  <2>3. \A i \in 1 .. option : more[i].option = i
    BY <1>6, RowFields
  <2> QED BY ONLY <2>2, <2>3
<1>9. IF ~ screen.archives
      THEN results' = more /\ at' = "report" /\ UNCHANGED archive
      ELSE IF \E o \in Losers(more) : archive[o] = Missing
      THEN at' = "dead" /\ UNCHANGED <<results, archive>>
      ELSE /\ results' = Pruned(more)
           /\ archive' = [o \in Options |-> IF o \in Losers(more) THEN Missing ELSE archive[o]]
           /\ at' = "report"
  <2> DEFINE rows == Append(results, [option |-> option, loss |-> heldOut.loss,
                                      heldOut |-> heldOut.batches, trained |-> training.seen,
                                      kept |-> TRUE])
             losers == {rows[i].option : i \in Losers(rows)}
  <2>1. IF ~ screen.archives
        THEN results' = rows /\ at' = "report" /\ UNCHANGED archive
        ELSE IF \E o \in losers : archive[o] = Missing
        THEN at' = "dead" /\ UNCHANGED <<results, archive>>
        ELSE /\ results' = Pruned(rows)
             /\ archive' = [o \in Options |-> IF o \in losers THEN Missing ELSE archive[o]]
             /\ at' = "report"
    BY Zenon DEF RecordResult
  <2>2. rows = more
    BY ONLY <1>4, <1>5, Zenon
  <2> HIDE DEF rows
  <2>3. losers = Losers(more)
    BY ONLY <1>8, <2>2, Zenon
  <2> HIDE DEF losers
  <2> QED BY ONLY <2>1, <2>2, <2>3, Zenon
<1>10. ASSUME at' = "report", ResultsOK(results', Held), Len(results') = option PROVE PlaceOK'
  BY <1>1, <1>2, <1>7, <1>10, ArchivePlaces, PlacesApart DEF PlaceOK
<1>11. /\ archive = [o \in Options |-> archive[o]]
       /\ \A o \in Options : archive[o] \in Losses \cup {Missing, Partial}
  BY DEF ScreenInv, FilesOK
<1>12. ASSUME ResultsOK(results', Held), archive' = [o \in Options |-> archive'[o]],
              \A o \in Options : archive'[o] \in Losses \cup {Missing, Partial}
       PROVE  FilesOK'
  BY <1>1, <1>3, <1>12 DEF ScreenInv, FilesOK, Readable
<1>13. CASE ~ screen.archives
  <2>1. results' = more /\ at' = "report" /\ archive' = archive
    BY <1>9, <1>13
  <2>2. FilesOK' /\ PlaceOK'
    BY <1>6, <1>10, <1>11, <1>12, <2>1
  <2>3. ArchiveOK' /\ ReportOK'
    BY <1>1, <1>13 DEF ArchiveOK, ReportOK
  <2> QED BY <2>2, <2>3 DEF ScreenInv
<1>14. CASE screen.archives /\ \E o \in Losers(more) : archive[o] = Missing
  <2>1. at' = "dead" /\ UNCHANGED <<results, archive>>
    BY <1>9, <1>14
  <2> QED BY <1>1, <2>1, DeadKeeps
<1>15. CASE screen.archives /\ ~ \E o \in Losers(more) : archive[o] = Missing
  <2>1. /\ results' = Pruned(more) /\ at' = "report"
        /\ archive' = [o \in Options |-> IF o \in Losers(more) THEN Missing ELSE archive[o]]
    BY <1>9, <1>15
  <2>2. /\ ResultsOK(results', Held) /\ Len(results') = option /\ Best(results') = Best(more)
        /\ results'[Best(more)].kept
        /\ \A i \in 1 .. option : results'[i].loss = more[i].loss
    BY ONLY <1>6, <1>7, <2>1, PrunedOK
  <2>3. \A o \in Options : archive'[o] = IF o \in Losers(more) THEN Missing ELSE archive[o]
    BY ONLY <2>1
  <2>4. FilesOK' /\ PlaceOK'
    <3>1. archive' = [o \in Options |-> archive'[o]]
      BY ONLY <2>1
    <3>2. \A o \in Options : archive'[o] \in Losses \cup {Missing, Partial}
      BY <1>11, <2>3
    <3> QED BY <1>10, <1>12, <2>1, <2>2, <3>1, <3>2
  <2>5. Safe(archive, results) /\ archive[option] = heldOut.loss
    BY <1>1, <1>15, ArchivePlaces DEF ScreenInv, ArchiveOK
  <2>6. /\ Safe(archive', more)
        /\ Safe(archive', results) \/ Stuck(archive', results)
        /\ \A o \in Options : archive[o] \in Losses =>
             \E q \in Options : archive'[q] \in Losses /\ archive'[q] <= archive[o]
    <3>1. PICK n \in Nat : n = Len(results) /\ n + 1 = option
      BY <1>2
    <3>2. archive[n + 1] = more[n + 1].loss /\ more[n + 1].kept /\ Len(more) = n + 1
          /\ \A i \in 1 .. n : more[i] = results[i]
      BY ONLY <1>4, <1>6, <2>5, <3>1, Zenon
    <3> QED BY ONLY <1>2, <1>6, <2>3, <2>5, <3>1, <3>2, PruneSafe
  <2>7. Safe(archive', results')
    <3>1. Best(more) \in 1 .. option
      BY <1>6, <1>7, BestPlace
    <3> QED BY ONLY <1>6, <1>7, <2>2, <2>6, <3>1, Zenon DEF Safe
  <2>8. ASSUME Readable PROVE Witnessed(archive', report)
    <3>1. Witnessed(archive, report) /\ ResultsOK(report, Held)
      BY <1>15, <2>8 DEF ScreenInv, ArchiveOK, FilesOK
    <3> QED BY ONLY <2>6, <3>1, WitnessKept
  <2>9. ArchiveOK'
    BY <1>1, <1>15, <2>1, <2>7, <2>8, ArchivePlaces DEF ArchiveOK, Readable
  <2>10. ASSUME screen.bert, Readable PROVE Safe(archive', report) \/ Stuck(archive', report)
    <3>1. report = results
      BY <1>1, <1>15, <2>10 DEF ScreenInv, ReportOK, Readable
    <3> QED BY <2>6, <3>1
  <2>11. ReportOK'
    BY <1>1, <1>15, <2>1, <2>10 DEF ReportOK, Readable
  <2> QED BY <2>4, <2>9, <2>11 DEF ScreenInv
<1> QED BY <1>13, <1>14, <1>15

LEMMA TruncateReportKeeps == ASSUME ScreenInv, TruncateReport PROVE ScreenInv'
<1>1. /\ at = "report" /\ at' = "write" /\ report' = Torn
      /\ UNCHANGED <<screen, option, training, heldOut, results, checkpoint, archive, selection>>
  BY DEF TruncateReport
<1>2. Held' = Held
  BY <1>1, HeldSame
<1>3. FilesOK'
  BY <1>1, <1>2 DEF ScreenInv, FilesOK, Readable
<1>4. PlaceOK'
  BY <1>1, <1>2, ArchivePlaces, PlacesApart DEF ScreenInv, PlaceOK
<1>5. ArchiveOK' /\ ReportOK'
  BY <1>1, ArchivePlaces DEF ScreenInv, ArchiveOK, ReportOK, Readable
<1> QED BY <1>3, <1>4, <1>5 DEF ScreenInv

LEMMA WriteReportKeeps == ASSUME ScreenInv, WriteReport PROVE ScreenInv'
<1>1. /\ at = "write" /\ at' = "next" /\ report' = results /\ option' = option + 1
      /\ UNCHANGED <<screen, training, heldOut, results, checkpoint, archive, selection>>
  BY DEF WriteReport
<1>2. Held' = Held
  BY <1>1, HeldSame
<1>3. /\ option = Len(results) /\ option \in Nat \ {0} /\ selection = Missing
      /\ ResultsOK(results, Held) /\ Len(results) > 0
  BY <1>1 DEF ScreenInv, PlaceOK, FilesOK
<1>4. FilesOK'
  BY <1>1, <1>2, <1>3 DEF ScreenInv, FilesOK, Readable
<1>5. PlaceOK'
  BY <1>1, <1>2, <1>3, ArchivePlaces, PlacesApart DEF PlaceOK
<1>6. ASSUME screen.archives PROVE Safe(archive, results) /\ Witnessed(archive, results)
  <2>1. Safe(archive, results)
    BY <1>1, <1>6, ArchivePlaces DEF ScreenInv, ArchiveOK
  <2>2. /\ archive[Best(results)] = results[Best(results)].loss
        /\ Best(results) \in Options /\ results[Best(results)].loss \in Losses
        /\ \A i \in 1 .. Len(results) : results[Best(results)].loss <= results[i].loss
    BY <1>3, <2>1, BestPlace DEF Safe
  <2>3. Witnessed(archive, results)
    BY ONLY <2>2, Zenon DEF Witnessed
  <2> QED BY <2>1, <2>3
<1>7. ArchiveOK'
  BY <1>1, <1>6, ArchivePlaces DEF ArchiveOK, Readable
<1>8. ReportOK'
  BY <1>1, <1>3, <1>6 DEF ReportOK, Readable
<1> QED BY <1>4, <1>5, <1>7, <1>8 DEF ScreenInv

LEMMA SelectKeeps == ASSUME ScreenInv, Select PROVE ScreenInv'
<1>1. /\ at = "select" /\ at' = "done" /\ selection' = results[Best(results)]
      /\ UNCHANGED <<screen, option, training, heldOut, results, report, checkpoint, archive>>
  BY DEF Select
<1>2. Held' = Held
  BY <1>1, HeldSame
<1>3. FilesOK'
  BY <1>1, FilesKeep DEF ScreenInv, FilesOK
<1>4. PlaceOK'
  BY <1>1, <1>2, ArchivePlaces, PlacesApart DEF ScreenInv, PlaceOK, Best
<1>5. ArchiveOK' /\ ReportOK'
  BY <1>1, ArchivePlaces DEF ScreenInv, ArchiveOK, ReportOK, Readable
<1> QED BY <1>3, <1>4, <1>5 DEF ScreenInv

\* Whatever is killed and relaunched: the results in memory and in the report are
\* those of the first candidates, each trained to the end on the stretch of the
\* stream and scored on its held-out batches, and the archive fits them.
THEOREM ScreenInvariant == ScreenSpec => []ScreenInv
<1>1. ScreenInit => ScreenInv
  <2> SUFFICES ASSUME ScreenInit PROVE ScreenInv
    OBVIOUS
  <2>1. /\ at = "dead" /\ option = 1 /\ training = Fresh /\ results = <<>> /\ report = Missing
        /\ checkpoint = [o \in Options |-> Missing] /\ archive = [o \in Options |-> Missing]
        /\ selection = Missing
    BY DEF ScreenInit
  <2>2. ResultsOK(<<>>, Held)
    <3>1. Len(<<>>) <= NumOptions /\ \A i \in 1 .. Len(<<>>) : FALSE
      BY TableEmpty, ScreenAssumption
    <3> QED BY <3>1, TableEmpty DEF ResultsOK
  <2>3. \A o \in Options : checkpoint[o] = Missing /\ archive[o] = Missing
    BY ONLY <2>1
  <2>4. checkpoint = [o \in Options |-> checkpoint[o]] /\ archive = [o \in Options |-> archive[o]]
    BY ONLY <2>1
  <2>5. FilesOK
    BY <2>1, <2>2, <2>3, <2>4, FreshOK DEF FilesOK, Readable
  <2>6. PlaceOK
    BY <2>1, PlacesApart DEF PlaceOK
  <2>7. ArchiveOK /\ ReportOK
    BY <2>1, PlacesApart DEF ArchiveOK, ReportOK, Readable
  <2> QED BY <2>5, <2>6, <2>7 DEF ScreenInv
<1>2. ScreenInv /\ [ScreenNext]_screenVars => ScreenInv'
  <2> SUFFICES ASSUME ScreenInv, [ScreenNext]_screenVars PROVE ScreenInv'
    OBVIOUS
  <2>1. CASE LaunchScreen
    BY <2>1, LaunchScreenKeeps
  <2>2. CASE NextOption
    BY <2>2, NextOptionKeeps
  <2>3. CASE \/ LoadOption \/ SaveInitialisation \/ StartOption
             \/ (\E stop \in BOOLEAN : TrainBatch(stop))
             \/ (\E loss \in Losses : EvaluateOption(loss))
             \/ ClearCheckpoint \/ ReplaceCheckpoint
    BY <2>3, CandidateStepKeeps
  <2>4. CASE BeginArchive
    BY <2>4, BeginArchiveKeeps
  <2>5. CASE EndArchive
    BY <2>5, EndArchiveKeeps
  <2>6. CASE RecordResult
    BY <2>6, RecordResultKeeps
  <2>7. CASE TruncateReport
    BY <2>7, TruncateReportKeeps
  <2>8. CASE WriteReport
    BY <2>8, WriteReportKeeps
  <2>9. CASE Select
    BY <2>9, SelectKeeps
  <2>10. CASE Killed
    BY <2>10, DeadKeeps DEF Killed, Dies, files
  <2>11. CASE UNCHANGED screenVars
    <3>1. Held' = Held
      BY <2>11, HeldSame DEF screenVars
    <3>2. FilesOK' /\ PlaceOK'
      BY <2>11, <3>1 DEF ScreenInv, screenVars, files, FilesOK, PlaceOK, Readable
    <3>3. ArchiveOK' /\ ReportOK'
      BY <2>11 DEF ScreenInv, screenVars, files, ArchiveOK, ReportOK, Readable
    <3> QED BY <3>2, <3>3 DEF ScreenInv
  <2> QED BY <2>1, <2>2, <2>3, <2>4, <2>5, <2>6, <2>7, <2>8, <2>9, <2>10, <2>11, Zenon
          DEF ScreenNext, ScreenProcess, ScreenStep
<1> QED BY <1>1, <1>2, PTL DEF ScreenSpec

\* Whenever the report can be read, a whole archive is as good as every row of it.
THEOREM NothingBetterIsLost == ScreenSpec => []NothingBetterLost
<1>1. ScreenInv => NothingBetterLost
  <2> SUFFICES ASSUME ScreenInv, screen.archives, report \notin {Missing, Torn}
               PROVE  \E o \in Options :
                        /\ archive[o] \notin {Missing, Partial}
                        /\ \A i \in DOMAIN report : archive[o] <= report[i].loss
    BY DEF NothingBetterLost
  <2>1. Witnessed(archive, report)
    BY DEF ScreenInv, ArchiveOK, Readable
  <2>2. DOMAIN report = 1 .. Len(report)
    BY TableIs DEF ScreenInv, FilesOK, Readable, ResultsOK
  <2> QED BY <2>1, <2>2, ScreenAssumption DEF Witnessed
<1> QED BY <1>1, ScreenInvariant, PTL

\* The held-out tokens are the same ones for every candidate.
LEMMA HeldOutTokens ==
  ASSUME NEW i \in Options, NEW j \in Options
  PROVE  [b \in DOMAIN Held[i] |-> Held[i][b].tokens] = [b \in DOMAIN Held[j] |-> Held[j][b].tokens]
<1>1. ASSUME NEW o \in Options
      PROVE  [b \in DOMAIN Held[o] |-> Held[o][b].tokens]
               = [b \in DOMAIN HeldOutCursors |->
                    Tokens(HeldOutCursors[b].cursor, HeldOutCursors[b].length, TRUE)]
  BY DEF Held, HeldOutBatches
<1> QED BY ONLY <1>1, i \in Options, j \in Options, Zenon

\* The selection rests on every candidate once, trained and scored on the same
\* tokens of the locked stream; it is the best, and its checkpoint is archived.
THEOREM SelectionIsSound == ScreenSpec => []SelectionSound
<1>1. ScreenInv => SelectionSound
  <2> SUFFICES ASSUME ScreenInv, selection # Missing PROVE SelectionSound
    BY DEF SelectionSound
  <2>1. at = "done" /\ selection = results[Best(results)] /\ Len(results) = NumOptions
        /\ ResultsOK(results, Held) /\ NumOptions \in Nat \ {0}
    BY ScreenAssumption DEF ScreenInv, PlaceOK, FilesOK
  <2>2. DOMAIN results = Options /\ Len(results) > 0
    BY <2>1, TableIs DEF ResultsOK, Options
  <2>3. ASSUME NEW i \in Options
        PROVE  /\ results[i].option = i /\ results[i].heldOut = Held[i]
               /\ results[i].trained = Stretch(Final) /\ results[i].loss \in Losses
    BY <2>1, RowFields DEF Options
  <2>4. {results[i].option : i \in DOMAIN results} = Options
    BY ONLY <2>2, <2>3
  <2>5. ASSUME NEW i \in DOMAIN results, NEW j \in DOMAIN results
        PROVE  /\ results[i].trained = results[j].trained
               /\ [b \in DOMAIN results[i].heldOut |-> results[i].heldOut[b].tokens]
                    = [b \in DOMAIN results[j].heldOut |-> results[j].heldOut[b].tokens]
    <3>1. i \in Options /\ j \in Options
      BY <2>2
    <3>2. /\ results[i].trained = Stretch(Final) /\ results[j].trained = Stretch(Final)
          /\ results[i].heldOut = Held[i] /\ results[j].heldOut = Held[j]
      BY ONLY <2>3, <3>1, Zenon
    <3>3. [b \in DOMAIN Held[i] |-> Held[i][b].tokens] = [b \in DOMAIN Held[j] |-> Held[j][b].tokens]
      BY ONLY <3>1, HeldOutTokens
    <3> QED BY ONLY <3>2, <3>3, Zenon
  <2>6. /\ IsInjective(results[1].trained) /\ Proportioned(results[1].trained)
        /\ Len(results[1].trained) \in {TrainTokens - 1, TrainTokens}
    <3>1. 1 \in Options /\ results[1].trained = Stretch(Final)
      BY <2>1, <2>3 DEF Options
    <3>2. IsFinal(Final)
      BY <2>1, <2>2 DEF ResultsOK, ResultOK
    <3>3. Final \in Nat /\ Final \in {TrainTokens - 1, TrainTokens}
      BY <3>2, CursorBasics DEF IsFinal, Reachable
    <3> QED BY <3>1, <3>3, StretchIs, StretchInjective, StretchProportioned
  <2>7. /\ Best(results) \in Options /\ selection.option = Best(results)
        /\ \A i \in DOMAIN results : selection.loss <= results[i].loss
    BY <2>1, <2>2, <2>3, BestPlace DEF Options
  <2>8. ASSUME screen.archives, NEW o \in Options
        PROVE  archive[o] = IF o = selection.option THEN selection.loss ELSE Missing
    <3>1. Safe(archive, results)
      BY <2>1, <2>8, ArchivePlaces DEF ScreenInv, ArchiveOK
    <3>2. o \in 1 .. Len(results)
      BY <2>1 DEF Options
    <3> QED BY <2>1, <2>2, <2>7, <3>1, <3>2 DEF Safe
  <2> QED BY <2>1, <2>4, <2>5, <2>6, <2>7, <2>8, Zenon DEF SelectionSound
<1> QED BY <1>1, ScreenInvariant, PTL


-----------------------------------------------------------------------------
(* Releases: what is at the output path, beside it and being written       *)

Labels == {"idle", "refused", "failed", "killed", "done",
           "write", "publish", "remove", "rename", "validate"}
ExporterType ==
  [pc: Labels, pid: Pids \cup {NONE}, state: States \cup {NONE},
   listing: SUBSET Files, victim: Exports \cup {NONE}]

ReleaseTyped ==
  /\ DOMAIN dirs = Exports /\ \A o \in Exports : DOMAIN dirs[o] \subseteq Files
  /\ output \in Exports \cup {NONE}
  /\ tmp \in [Pids -> Exports \cup {NONE}]
  /\ exporter \in [Exports -> ExporterType]

\* The directory of such an exporter is under its temporary name.
Private == {"write", "publish", "remove", "rename"}
\* That of such an exporter may have been renamed, and is not written again.
Left == {"validate", "done", "failed", "killed"}

\* An exporter's directory is the one under the name of its pid, and no other.
Placed ==
  /\ \A p \in Pids : tmp[p] # NONE =>
       tmp[p] # output /\ exporter[tmp[p]].pid = p /\ exporter[tmp[p]].pc \in Private \cup Left
  /\ \A e \in Exports : exporter[e].pc \in Private =>
       exporter[e].pid \in Pids /\ tmp[exporter[e].pid] = e
  /\ output # NONE => exporter[output].pc \in Left
  /\ \A e \in Exports : exporter[e].pc = "remove" =>
       exporter[e].victim \in Exports /\ exporter[exporter[e].victim].pc \in Left

\* The files of a directory being written are the first ones, with their content.
Begun(bundle, s) ==
  /\ DOMAIN bundle \in {{}, {"model"}, {"model", "config"}, {"model", "config", "quant"},
                       {"model", "config", "quant", "runtime"}}
  /\ \A f \in DOMAIN bundle : bundle[f] = FileContent(s, f)

Built ==
  /\ \A e \in Exports : exporter[e].pc = "idle" => dirs[e] = NoFiles
  /\ \A e \in Exports : exporter[e].pc = "write" =>
       exporter[e].state \in States /\ Begun(dirs[e], exporter[e].state)
  /\ \A e \in Exports : exporter[e].pc \in {"publish", "remove", "rename"} => Inspects(dirs[e])

ReleaseInv == ReleaseTyped /\ Placed /\ Built

LEMMA FilesCounted ==
  /\ Cardinality({}) = 0
  /\ Cardinality({"model"}) = 1
  /\ Cardinality({"model", "config"}) = 2
  /\ Cardinality({"model", "config", "quant"}) = 3
  /\ Cardinality({"model", "config", "quant", "runtime"}) = 4
<1>1. \A S, x : IsFiniteSet(S) /\ x \notin S =>
        IsFiniteSet(S \cup {x}) /\ Cardinality(S \cup {x}) = Cardinality(S) + 1
  BY FS_AddElement
<1>2. IsFiniteSet({}) /\ Cardinality({}) = 0
  BY FS_EmptySet
<1>3. IsFiniteSet({"model"}) /\ Cardinality({"model"}) = 1
  <2>1. {"model"} = {} \cup {"model"} /\ "model" \notin {}
    OBVIOUS
  <2> QED BY <1>1, <1>2, <2>1
<1>4. IsFiniteSet({"model", "config"}) /\ Cardinality({"model", "config"}) = 2
  <2>1. {"model", "config"} = {"model"} \cup {"config"} /\ "config" \notin {"model"}
    OBVIOUS
  <2> QED BY <1>1, <1>3, <2>1
<1>5. IsFiniteSet({"model", "config", "quant"}) /\ Cardinality({"model", "config", "quant"}) = 3
  <2>1. /\ {"model", "config", "quant"} = {"model", "config"} \cup {"quant"}
        /\ "quant" \notin {"model", "config"}
    OBVIOUS
  <2> QED BY <1>1, <1>4, <2>1
<1>6. Cardinality({"model", "config", "quant", "runtime"}) = 4
  <2>1. /\ {"model", "config", "quant", "runtime"} = {"model", "config", "quant"} \cup {"runtime"}
        /\ "runtime" \notin {"model", "config", "quant"}
    OBVIOUS
  <2> QED BY <1>1, <1>5, <2>1
<1> QED BY <1>2, <1>3, <1>4, <1>5, <1>6

\* The file written next, and what the directory then is.
LEMMA FileWritten ==
  ASSUME NEW s \in States, NEW bundle, Begun(bundle, s),
         NEW f, f = FileOrder[Cardinality(DOMAIN bundle) + 1],
         NEW after, after = [g \in DOMAIN bundle \cup {f} |->
                               IF g = f THEN IF f = "checksums" THEN bundle ELSE FileContent(s, f)
                               ELSE bundle[g]]
  PROVE  /\ f \in Files /\ DOMAIN after \subseteq Files
         /\ f # "checksums" => Begun(after, s)
         /\ f = "checksums" => Inspects(after)
<1>1. \/ DOMAIN bundle = {} /\ f = "model"
      \/ DOMAIN bundle = {"model"} /\ f = "config"
      \/ DOMAIN bundle = {"model", "config"} /\ f = "quant"
      \/ DOMAIN bundle = {"model", "config", "quant"} /\ f = "runtime"
      \/ DOMAIN bundle = {"model", "config", "quant", "runtime"} /\ f = "checksums"
  BY FilesCounted DEF Begun, FileOrder
<1>2. DOMAIN after = DOMAIN bundle \cup {f}
  OBVIOUS
<1>3. f \in Files /\ DOMAIN after \subseteq Files
  BY <1>1, <1>2 DEF Files
<1>4. ASSUME f # "checksums" PROVE Begun(after, s)
  <2>1. DOMAIN after \in {{}, {"model"}, {"model", "config"}, {"model", "config", "quant"},
                          {"model", "config", "quant", "runtime"}}
    BY <1>1, <1>2, <1>4
  <2>2. \A g \in DOMAIN after : after[g] = FileContent(s, g)
    BY <1>4 DEF Begun
  <2> QED BY <2>1, <2>2 DEF Begun
<1>5. ASSUME f = "checksums" PROVE Inspects(after)
  <2>1. DOMAIN bundle = {"model", "config", "quant", "runtime"}
    BY <1>1, <1>5
  <2>2. /\ Files \subseteq DOMAIN after
        /\ after["checksums"] = bundle
        /\ \A g \in DOMAIN bundle : after[g] = bundle[g]
    BY <1>2, <1>5, <2>1 DEF Files
  <2>3. after["quant"] = ManifestOf(s) /\ after["model"] = TensorsOf(s)
    BY <2>1, <2>2 DEF Begun, FileContent
  <2>4. DOMAIN ManifestOf(s) = DOMAIN s /\ DOMAIN TensorsOf(s) = Referenced(ManifestOf(s))
    BY DEF ManifestOf, TensorsOf, Referenced
  <2>5. DOMAIN after["quant"] # {}
    BY <2>3, <2>4, StatesAssumption
  <2>6. DOMAIN after["model"] = Referenced(after["quant"])
    BY <2>3, <2>4
  <2>7. \A g \in DOMAIN after["checksums"] :
          g \in DOMAIN after /\ after["checksums"][g] = after[g]
    BY <1>2, <2>2
  <2> QED BY <2>2, <2>5, <2>6, <2>7 DEF Inspects
<1> QED BY <1>3, <1>4, <1>5

LEMMA BeginExportKeeps ==
  ASSUME ReleaseInv, NEW e \in Exports, NEW pid \in Pids, NEW s \in States, NEW force \in BOOLEAN,
         BeginExport(e, pid, s, force)
  PROVE  ReleaseInv'
<1>1. exporter[e].pc = "idle" /\ output' = output
  BY DEF BeginExport
<1>2. CASE output # NONE /\ ~ force
  <2>1. /\ exporter' = [exporter EXCEPT ![e].pc = "refused"] /\ dirs' = dirs /\ tmp' = tmp
    BY <1>2 DEF BeginExport, GoTo
  <2>2. ReleaseTyped'
    BY <1>1, <2>1 DEF ReleaseInv, ReleaseTyped, ExporterType, Labels
  <2>3. \A o \in Exports : o # e => exporter'[o] = exporter[o]
    BY <2>1 DEF ReleaseInv, ReleaseTyped
  <2>4. exporter'[e].pc = "refused" /\ exporter[e].pc = "idle"
    BY <1>1, <2>1 DEF ReleaseInv, ReleaseTyped, ExporterType
  <2>5. Placed'
    BY <1>1, <2>1, <2>3, <2>4 DEF ReleaseInv, ReleaseTyped, Placed, Private, Left
  <2>6. Built'
    BY <1>1, <2>1, <2>3, <2>4 DEF ReleaseInv, Built
  <2> QED BY <2>2, <2>5, <2>6 DEF ReleaseInv
<1>3. CASE ~ (output # NONE /\ ~ force)
  <2>1. /\ exporter' = [exporter EXCEPT ![e].pc = "write", ![e].pid = pid, ![e].state = s]
        /\ tmp' = [tmp EXCEPT ![pid] = e]
        /\ dirs' = IF tmp[pid] = NONE THEN dirs ELSE [dirs EXCEPT ![tmp[pid]] = NoFiles]
        /\ \A o \in Exports : Running(o) => exporter[o].pid # pid
    BY <1>3 DEF BeginExport
  <2>2. /\ \A o \in Exports : o # e => exporter'[o] = exporter[o]
        /\ exporter'[e].pc = "write" /\ exporter'[e].pid = pid /\ exporter'[e].state = s
        /\ exporter' \in [Exports -> ExporterType]
    <3>1. PICK r \in ExporterType : r = exporter[e]
      BY DEF ReleaseInv, ReleaseTyped
    <3>2. PICK q : q = [r EXCEPT !.pc = "write", !.pid = pid, !.state = s]
      OBVIOUS
    <3>3. q \in ExporterType /\ q.pc = "write" /\ q.pid = pid /\ q.state = s
      BY <3>2 DEF ExporterType, Labels
    <3>4. exporter' = [exporter EXCEPT ![e] = q]
      BY <2>1, <3>1, <3>2
    <3> QED BY <3>3, <3>4 DEF ReleaseInv, ReleaseTyped
  <2>3. /\ tmp' \in [Pids -> Exports \cup {NONE}]
        /\ tmp'[pid] = e /\ \A p \in Pids : p # pid => tmp'[p] = tmp[p]
    BY <2>1 DEF ReleaseInv, ReleaseTyped
  <2>4. /\ DOMAIN dirs' = Exports /\ \A o \in Exports : dirs'[o] = dirs[o] \/ dirs'[o] = NoFiles
        /\ \A o \in Exports : o # tmp[pid] => dirs'[o] = dirs[o]
    BY <2>1 DEF ReleaseInv, ReleaseTyped
  <2>5. DOMAIN NoFiles = {} /\ \A t \in States : Begun(NoFiles, t)
    BY DEF NoFiles, Begun
  <2>6. ReleaseTyped'
    BY <1>1, <2>2, <2>3, <2>4, <2>5 DEF ReleaseInv, ReleaseTyped
  <2>7. ASSUME NEW o \in Exports, o # e, exporter[o].pc \in Private
        PROVE  exporter[o].pid # pid /\ o # tmp[pid]
    <3>1. Running(o)
      BY <2>7 DEF Running, Private
    <3>2. exporter[o].pid # pid
      BY <2>1, <3>1
    <3>3. tmp[pid] = o => exporter[o].pid = pid
      BY KillAssumption DEF ReleaseInv, Placed
    <3> QED BY <3>2, <3>3
  <2>8. Placed'
    <3>1. e # output /\ e # NONE /\ pid # NONE
      BY <1>1, KillAssumption, NoneAssumption DEF ReleaseInv, Placed, Left
    <3>2. \A p \in Pids : tmp'[p] # NONE =>
            /\ tmp'[p] # output' /\ exporter'[tmp'[p]].pid = p
            /\ exporter'[tmp'[p]].pc \in Private \cup Left
      <4> SUFFICES ASSUME NEW p \in Pids, tmp'[p] # NONE
                   PROVE  /\ tmp'[p] # output' /\ exporter'[tmp'[p]].pid = p
                          /\ exporter'[tmp'[p]].pc \in Private \cup Left
        OBVIOUS
      <4>1. CASE p = pid
        BY <1>1, <2>2, <2>3, <3>1, <4>1 DEF Private
      <4>2. CASE p # pid
        <5>1. tmp'[p] = tmp[p] /\ tmp[p] \in Exports
          BY <2>3, <4>2 DEF ReleaseInv, ReleaseTyped
        <5>2. tmp[p] # e
          BY <1>1, <5>1, KillAssumption DEF ReleaseInv, Placed, Private, Left
        <5> QED BY <1>1, <2>2, <5>1, <5>2 DEF ReleaseInv, Placed
      <4> QED BY <4>1, <4>2
    <3>3. \A o \in Exports : exporter'[o].pc \in Private =>
            exporter'[o].pid \in Pids /\ tmp'[exporter'[o].pid] = o
      <4> SUFFICES ASSUME NEW o \in Exports, exporter'[o].pc \in Private
                   PROVE  exporter'[o].pid \in Pids /\ tmp'[exporter'[o].pid] = o
        OBVIOUS
      <4>1. CASE o = e
        BY <2>2, <2>3, <4>1
      <4>2. CASE o # e
        BY <2>2, <2>3, <2>7, <4>2 DEF ReleaseInv, Placed
      <4> QED BY <4>1, <4>2
    <3>4. output' # NONE => exporter'[output'].pc \in Left
      BY <1>1, <2>2, <3>1 DEF ReleaseInv, ReleaseTyped, Placed
    <3>5. \A o \in Exports : exporter'[o].pc = "remove" =>
            exporter'[o].victim \in Exports /\ exporter'[exporter'[o].victim].pc \in Left
      BY <1>1, <2>2 DEF ReleaseInv, Placed, Left
    <3> QED BY <3>2, <3>3, <3>4, <3>5 DEF Placed
  <2>9. Built'
    <3>1. \A o \in Exports : exporter'[o].pc = "idle" => dirs'[o] = NoFiles
      BY <2>2, <2>4 DEF ReleaseInv, Built
    <3>2. \A o \in Exports : exporter'[o].pc = "write" =>
            exporter'[o].state \in States /\ Begun(dirs'[o], exporter'[o].state)
      <4> SUFFICES ASSUME NEW o \in Exports, exporter'[o].pc = "write"
                   PROVE  exporter'[o].state \in States /\ Begun(dirs'[o], exporter'[o].state)
        OBVIOUS
      <4>1. CASE o = e
        <5>1. dirs'[e] = NoFiles
          BY <1>1, <2>4 DEF ReleaseInv, Built
        <5> QED BY <2>2, <2>5, <4>1, <5>1
      <4>2. CASE o # e
        BY <2>2, <2>4, <2>7, <4>2 DEF ReleaseInv, Built, Private
      <4> QED BY <4>1, <4>2
    <3>3. \A o \in Exports : exporter'[o].pc \in {"publish", "remove", "rename"} =>
            Inspects(dirs'[o])
      <4> SUFFICES ASSUME NEW o \in Exports, exporter'[o].pc \in {"publish", "remove", "rename"}
                   PROVE  Inspects(dirs'[o])
        OBVIOUS
      <4>1. o # e /\ exporter'[o] = exporter[o]
        BY <2>2
      <4>2. dirs'[o] = dirs[o]
        BY <2>4, <2>7, <4>1 DEF Private
      <4> QED BY <4>1, <4>2 DEF ReleaseInv, Built
    <3> QED BY <3>1, <3>2, <3>3 DEF Built
  <2> QED BY <2>6, <2>8, <2>9 DEF ReleaseInv
<1> QED BY <1>2, <1>3

LEMMA WriteFileKeeps ==
  ASSUME ReleaseInv, NEW e \in Exports, WriteFile(e) PROVE ReleaseInv'
<1>1. PICK bundle : bundle = dirs[e]
  OBVIOUS
<1>2. PICK f : f = FileOrder[Cardinality(DOMAIN bundle) + 1]
  OBVIOUS
<1>3. PICK s \in States : s = exporter[e].state /\ Begun(bundle, s)
  BY <1>1 DEF WriteFile, ReleaseInv, Built
<1>4. PICK after : after = [g \in DOMAIN bundle \cup {f} |->
                              IF g = f THEN IF f = "checksums" THEN bundle ELSE FileContent(s, f)
                              ELSE bundle[g]]
  OBVIOUS
<1>5. /\ f \in Files /\ DOMAIN after \subseteq Files
      /\ f # "checksums" => Begun(after, s)
      /\ f = "checksums" => Inspects(after)
  BY ONLY <1>2, <1>3, <1>4, FileWritten
<1>6. /\ exporter[e].pc = "write" /\ output' = output /\ tmp' = tmp
      /\ dirs' = [dirs EXCEPT ![e] = after]
      /\ exporter' = IF f = "checksums" THEN [exporter EXCEPT ![e].pc = "publish"] ELSE exporter
  BY <1>1, <1>2, <1>3, <1>4 DEF WriteFile, GoTo
<1>7. /\ dirs'[e] = after /\ DOMAIN dirs' = Exports
      /\ \A o \in Exports : o # e => dirs'[o] = dirs[o]
  BY <1>6 DEF ReleaseInv, ReleaseTyped
<1>8. /\ exporter' \in [Exports -> ExporterType]
      /\ \A o \in Exports : o # e => exporter'[o] = exporter[o]
      /\ exporter'[e].pc = IF f = "checksums" THEN "publish" ELSE "write"
      /\ exporter'[e].pid = exporter[e].pid /\ exporter'[e].state = s
  BY <1>3, <1>6 DEF ReleaseInv, ReleaseTyped, ExporterType, Labels
<1>9. ReleaseTyped'
  BY <1>5, <1>6, <1>7, <1>8 DEF ReleaseInv, ReleaseTyped
<1>10. Placed'
  BY <1>6, <1>8 DEF ReleaseInv, ReleaseTyped, Placed, Private, Left
<1>11. Built'
  BY <1>5, <1>6, <1>7, <1>8 DEF ReleaseInv, Built
<1> QED BY <1>9, <1>10, <1>11 DEF ReleaseInv

\* A step of an exporter that writes nothing and leaves the names alone.
LEMMA LabelKeeps ==
  ASSUME ReleaseInv, NEW e \in Exports, NEW label \in Labels,
         exporter' = [exporter EXCEPT ![e].pc = label],
         UNCHANGED <<dirs, output, tmp>>,
         \/ exporter[e].pc = "publish" /\ label = "rename"
         \/ exporter[e].pc \in Private \cup Left /\ label \in Left
  PROVE  ReleaseInv'
<1>1. /\ exporter' \in [Exports -> ExporterType]
      /\ \A o \in Exports : o # e => exporter'[o] = exporter[o]
      /\ exporter'[e].pc = label /\ exporter'[e].pid = exporter[e].pid
  BY DEF ReleaseInv, ReleaseTyped, ExporterType
<1>2. ReleaseTyped'
  BY <1>1 DEF ReleaseInv, ReleaseTyped
<1>3. Placed'
  BY <1>1 DEF ReleaseInv, ReleaseTyped, Placed, Private, Left
<1>4. Built'
  BY <1>1 DEF ReleaseInv, Built, Left
<1> QED BY <1>2, <1>3, <1>4 DEF ReleaseInv

LEMMA FindOldKeeps ==
  ASSUME ReleaseInv, NEW e \in Exports, FindOld(e) PROVE ReleaseInv'
<1>1. CASE output = NONE
  BY <1>1, LabelKeeps DEF FindOld, GoTo, Labels
<1>2. CASE output # NONE
  <2>1. /\ exporter[e].pc = "publish" /\ UNCHANGED <<dirs, output, tmp>> /\ output \in Exports
        /\ exporter' = [exporter EXCEPT ![e].pc = "remove", ![e].victim = output,
                                        ![e].listing = DOMAIN dirs[output]]
    BY <1>2 DEF FindOld, ReleaseInv, ReleaseTyped
  <2>2. /\ exporter' \in [Exports -> ExporterType]
        /\ \A o \in Exports : o # e => exporter'[o] = exporter[o]
        /\ exporter'[e].pc = "remove" /\ exporter'[e].pid = exporter[e].pid
        /\ exporter'[e].victim = output
    <3>1. PICK r \in ExporterType : r = exporter[e]
      BY DEF ReleaseInv, ReleaseTyped
    <3>2. PICK bundle \in SUBSET Files : bundle = DOMAIN dirs[output]
      BY <2>1 DEF ReleaseInv, ReleaseTyped
    <3>3. PICK q : q = [r EXCEPT !.pc = "remove", !.victim = output, !.listing = bundle]
      OBVIOUS
    <3>4. q \in ExporterType /\ q.pc = "remove" /\ q.pid = r.pid /\ q.victim = output
      BY <2>1, <3>3 DEF ExporterType, Labels
    <3>5. exporter' = [exporter EXCEPT ![e] = q]
      BY <2>1, <3>1, <3>2, <3>3
    <3> QED BY <3>1, <3>4, <3>5 DEF ReleaseInv, ReleaseTyped
  <2>3. ReleaseTyped'
    BY <2>1, <2>2 DEF ReleaseInv, ReleaseTyped
  <2>4. Placed'
    BY <1>2, <2>1, <2>2 DEF ReleaseInv, ReleaseTyped, Placed, Private, Left
  <2>5. Built'
    BY <2>1, <2>2 DEF ReleaseInv, Built
  <2> QED BY <2>3, <2>4, <2>5 DEF ReleaseInv
<1> QED BY <1>1, <1>2

LEMMA RemoveFileKeeps ==
  ASSUME ReleaseInv, NEW e \in Exports, RemoveFile(e) PROVE ReleaseInv'
<1>1. PICK f \in exporter[e].listing :
        IF f \in DOMAIN dirs[exporter[e].victim]
        THEN /\ dirs' = [dirs EXCEPT ![exporter[e].victim] =
                           [g \in DOMAIN dirs[exporter[e].victim] \ {f} |->
                              dirs[exporter[e].victim][g]]]
             /\ exporter' = [exporter EXCEPT ![e].listing = @ \ {f}]
        ELSE exporter' = [exporter EXCEPT ![e].pc = "failed"] /\ UNCHANGED dirs
  BY DEF RemoveFile, GoTo
<1>2. exporter[e].pc = "remove" /\ output' = output /\ tmp' = tmp
  BY DEF RemoveFile
<1>3. PICK v \in Exports : v = exporter[e].victim /\ exporter[v].pc \in Left
  BY <1>2 DEF ReleaseInv, Placed
<1>4. CASE f \notin DOMAIN dirs[v]
  BY <1>1, <1>2, <1>3, <1>4, LabelKeeps DEF Labels, Private, Left
<1>5. CASE f \in DOMAIN dirs[v]
  <2>1. /\ dirs' = [dirs EXCEPT ![v] = [g \in DOMAIN dirs[v] \ {f} |-> dirs[v][g]]]
        /\ exporter' = [exporter EXCEPT ![e].listing = @ \ {f}]
    BY <1>1, <1>3, <1>5
  <2>2. /\ DOMAIN dirs' = Exports /\ DOMAIN dirs'[v] \subseteq DOMAIN dirs[v]
        /\ \A o \in Exports : o # v => dirs'[o] = dirs[o]
    BY <2>1 DEF ReleaseInv, ReleaseTyped
  <2>3. exporter' \in [Exports -> ExporterType]
    BY <2>1 DEF ReleaseInv, ReleaseTyped, ExporterType
  <2>4. \A o \in Exports : /\ exporter'[o].pc = exporter[o].pc /\ exporter'[o].pid = exporter[o].pid
                           /\ exporter'[o].state = exporter[o].state
                           /\ exporter'[o].victim = exporter[o].victim
    BY <2>1 DEF ReleaseInv, ReleaseTyped, ExporterType
  <2>5. ReleaseTyped'
    <3>1. \A o \in Exports : DOMAIN dirs'[o] \subseteq Files
      BY <2>2 DEF ReleaseInv, ReleaseTyped
    <3> QED BY <1>2, <2>2, <2>3, <3>1 DEF ReleaseInv, ReleaseTyped
  <2>6. Placed'
    BY <1>2, <2>4 DEF ReleaseInv, ReleaseTyped, Placed
  <2>7. Built'
    BY <1>3, <2>2, <2>4 DEF ReleaseInv, Built, Left
  <2> QED BY <2>5, <2>6, <2>7 DEF ReleaseInv
<1> QED BY <1>4, <1>5

LEMMA RemoveDirectoryKeeps ==
  ASSUME ReleaseInv, NEW e \in Exports, RemoveDirectory(e) PROVE ReleaseInv'
<1>1. CASE ~ (output # NONE /\ PathIsFree)
  BY <1>1, LabelKeeps DEF RemoveDirectory, GoTo, Labels, Private, Left
<1>2. CASE output # NONE /\ PathIsFree
  <2>1. /\ exporter[e].pc = "remove" /\ exporter' = [exporter EXCEPT ![e].pc = "rename"]
        /\ output' = NONE /\ dirs' = dirs /\ tmp' = tmp
    BY <1>2 DEF RemoveDirectory, GoTo
  <2>2. /\ exporter' \in [Exports -> ExporterType]
        /\ \A o \in Exports : o # e => exporter'[o] = exporter[o]
        /\ exporter'[e].pc = "rename" /\ exporter'[e].pid = exporter[e].pid
    BY <2>1 DEF ReleaseInv, ReleaseTyped, ExporterType, Labels
  <2>3. ReleaseTyped'
    BY <2>1, <2>2 DEF ReleaseInv, ReleaseTyped
  <2>4. Placed'
    BY <2>1, <2>2 DEF ReleaseInv, ReleaseTyped, Placed, Private, Left
  <2>5. Built'
    BY <2>1, <2>2 DEF ReleaseInv, Built
  <2> QED BY <2>3, <2>4, <2>5 DEF ReleaseInv
<1> QED BY <1>1, <1>2

LEMMA RenameKeeps ==
  ASSUME ReleaseInv, NEW e \in Exports, Rename(e) PROVE ReleaseInv'
<1>1. CASE ~ PathIsFree
  BY <1>1, LabelKeeps DEF Rename, GoTo, Labels, Private, Left
<1>2. CASE PathIsFree
  <2>1. PICK pid \in Pids : pid = exporter[e].pid /\ tmp[pid] = e
    BY DEF Rename, ReleaseInv, Placed, Private
  <2>2. /\ exporter[e].pc = "rename" /\ exporter' = [exporter EXCEPT ![e].pc = "validate"]
        /\ output' = e /\ dirs' = dirs /\ tmp' = [tmp EXCEPT ![pid] = NONE]
    BY <1>2, <2>1 DEF Rename, GoTo
  <2>3. /\ exporter' \in [Exports -> ExporterType]
        /\ \A o \in Exports : o # e => exporter'[o] = exporter[o]
        /\ exporter'[e].pc = "validate" /\ exporter'[e].pid = exporter[e].pid
    BY <2>2 DEF ReleaseInv, ReleaseTyped, ExporterType, Labels
  <2>4. /\ tmp' \in [Pids -> Exports \cup {NONE}] /\ tmp'[pid] = NONE
        /\ \A p \in Pids : p # pid => tmp'[p] = tmp[p]
    BY <2>2 DEF ReleaseInv, ReleaseTyped
  <2>5. ReleaseTyped'
    BY <2>2, <2>3, <2>4 DEF ReleaseInv, ReleaseTyped
  <2>6. Placed'
    <3>1. \A p \in Pids : tmp'[p] # NONE =>
            /\ tmp'[p] # output' /\ exporter'[tmp'[p]].pid = p
            /\ exporter'[tmp'[p]].pc \in Private \cup Left
      <4> SUFFICES ASSUME NEW p \in Pids, tmp'[p] # NONE
                   PROVE  /\ tmp'[p] # output' /\ exporter'[tmp'[p]].pid = p
                          /\ exporter'[tmp'[p]].pc \in Private \cup Left
        OBVIOUS
      <4>1. p # pid /\ tmp'[p] = tmp[p] /\ tmp[p] \in Exports
        BY <2>4 DEF ReleaseInv, ReleaseTyped
      <4>2. exporter[tmp[p]].pid = p /\ exporter[tmp[p]].pc \in Private \cup Left
        BY <4>1, KillAssumption DEF ReleaseInv, Placed
      <4>3. tmp[p] # e
        BY <2>1, <4>1, <4>2
      <4> QED BY <2>2, <2>3, <4>1, <4>2, <4>3
    <3>2. \A o \in Exports : exporter'[o].pc \in Private =>
            exporter'[o].pid \in Pids /\ tmp'[exporter'[o].pid] = o
      <4> SUFFICES ASSUME NEW o \in Exports, exporter'[o].pc \in Private
                   PROVE  exporter'[o].pid \in Pids /\ tmp'[exporter'[o].pid] = o
        OBVIOUS
      <4>1. o # e /\ exporter'[o] = exporter[o]
        BY <2>3 DEF Private
      <4>2. exporter[o].pid \in Pids /\ tmp[exporter[o].pid] = o
        BY <4>1 DEF ReleaseInv, Placed
      <4> QED BY <2>1, <2>4, <4>1, <4>2
    <3>3. output' # NONE => exporter'[output'].pc \in Left
      BY <2>2, <2>3 DEF Left
    <3>4. \A o \in Exports : exporter'[o].pc = "remove" =>
            exporter'[o].victim \in Exports /\ exporter'[exporter'[o].victim].pc \in Left
      BY <2>3 DEF ReleaseInv, Placed, Left
    <3> QED BY <3>1, <3>2, <3>3, <3>4 DEF Placed
  <2>7. Built'
    BY <2>2, <2>3 DEF ReleaseInv, Built
  <2> QED BY <2>5, <2>6, <2>7 DEF ReleaseInv
<1> QED BY <1>1, <1>2

LEMMA ReleaseStep == ASSUME ReleaseInv, [Next]_vars PROVE ReleaseInv'
<1>1. ASSUME NEW e \in Exports, ExporterStep(e) PROVE ReleaseInv'
  <2>1. CASE \E pid \in Pids, s \in States, force \in BOOLEAN : BeginExport(e, pid, s, force)
    BY <2>1, BeginExportKeeps
  <2>2. CASE Validate(e)
    <3>1. PICK label \in {"done", "failed"} : exporter' = [exporter EXCEPT ![e].pc = label]
      BY <2>2 DEF Validate, GoTo
    <3> QED BY <2>2, <3>1, LabelKeeps DEF Validate, Labels, Left
  <2>3. CASE Kill(e)
    <3>1. exporter[e].pc \in Private \cup Left
      BY <2>3 DEF Kill, Running, Private, Left, ReleaseInv, ReleaseTyped, ExporterType, Labels
    <3> QED BY <2>3, <3>1, LabelKeeps DEF Kill, GoTo, Labels, Left
  <2> QED BY <1>1, <2>1, <2>2, <2>3, WriteFileKeeps, FindOldKeeps, RemoveFileKeeps,
             RemoveDirectoryKeeps, RenameKeeps DEF ExporterStep
<1>2. CASE UNCHANGED <<dirs, output, tmp, exporter>>
  BY <1>2 DEF ReleaseInv, ReleaseTyped, Placed, Built
<1>3. ReaderStep => UNCHANGED <<dirs, output, tmp, exporter>>
  BY DEF ReaderStep, OpenDigests, CheckDigest, ReadManifest, ReadTensors, CloseReader, Read
<1> QED BY <1>1, <1>2, <1>3 DEF Next, vars

\* The inductive invariant of a release directory: what is at the output path, beside
\* it and being written, for any number of exporters and kills (save_q4_bundle).
THEOREM ReleaseInvariant == Spec => []ReleaseInv
<1>1. Init => ReleaseInv
  <2> SUFFICES ASSUME Init PROVE ReleaseInv
    OBVIOUS
  <2>1. \A e \in Exports : exporter[e] = IdleExporter /\ dirs[e] = NoFiles
    BY DEF Init
  <2>2. IdleExporter \in ExporterType /\ IdleExporter.pc = "idle" /\ DOMAIN NoFiles = {}
    BY DEF IdleExporter, ExporterType, Labels, NoFiles
  <2>3. ReleaseTyped
    BY <2>1, <2>2 DEF Init, ReleaseTyped
  <2>4. Placed
    BY <2>1, <2>2 DEF Init, Placed, Private
  <2>5. Built
    BY <2>1, <2>2 DEF Built
  <2> QED BY <2>3, <2>4, <2>5 DEF ReleaseInv
<1> QED BY <1>1, ReleaseStep, PTL DEF Spec

LEMMA RemovalStep ==
  ASSUME ReleaseInv, [Next]_vars, NEW o \in Exports, output = o, DOMAIN dirs'[o] # DOMAIN dirs[o]
  PROVE  \E e \in Exports : exporter[e].victim = o /\ e # o /\ Inspects(dirs[e])
<1>1. o # NONE /\ exporter[o].pc \in Left
  BY KillAssumption DEF ReleaseInv, Placed
<1>2. dirs' # dirs
  OBVIOUS
<1>3. PICK e \in Exports :
        \/ \E pid \in Pids, s \in States, force \in BOOLEAN : BeginExport(e, pid, s, force)
        \/ WriteFile(e) \/ RemoveFile(e)
  <2>1. ReaderStep => dirs' = dirs
    BY DEF ReaderStep, OpenDigests, CheckDigest, ReadManifest, ReadTensors, CloseReader, Read
  <2>2. \A e \in Exports :
          FindOld(e) \/ RemoveDirectory(e) \/ Rename(e) \/ Validate(e) \/ Kill(e) => dirs' = dirs
    BY DEF FindOld, RemoveDirectory, Rename, Validate, Kill
  <2>3. PICK e \in Exports : ExporterStep(e)
    BY <1>2, <2>1 DEF Next, vars
  <2> QED BY <1>2, <2>2, <2>3 DEF ExporterStep
<1>4. ~ \E pid \in Pids, s \in States, force \in BOOLEAN : BeginExport(e, pid, s, force)
  <2> SUFFICES ASSUME NEW pid \in Pids, NEW s \in States, NEW force \in BOOLEAN,
                      BeginExport(e, pid, s, force)
               PROVE  FALSE
    OBVIOUS
  <2>1. tmp[pid] # NONE /\ dirs' = [dirs EXCEPT ![tmp[pid]] = NoFiles]
    BY <1>2 DEF BeginExport
  <2>2. tmp[pid] # o
    BY <2>1 DEF ReleaseInv, Placed
  <2> QED BY <2>1, <2>2 DEF ReleaseInv, ReleaseTyped
<1>5. ~ WriteFile(e)
  <2> SUFFICES ASSUME WriteFile(e) PROVE FALSE
    OBVIOUS
  <2>1. exporter[e].pc = "write"
    BY DEF WriteFile
  <2>2. e # o
    BY <1>1, <2>1 DEF Left
  <2> QED BY <2>2 DEF WriteFile, ReleaseInv, ReleaseTyped
<1>6. exporter[e].pc = "remove" /\ Inspects(dirs[e]) /\ e # o
  BY <1>1, <1>3, <1>4, <1>5 DEF RemoveFile, ReleaseInv, Built, Left
<1>7. exporter[e].victim = o
  <2>1. RemoveFile(e)
    BY <1>3, <1>4, <1>5
  <2>2. PICK f : dirs' = [dirs EXCEPT ![exporter[e].victim] =
                            [g \in DOMAIN dirs[exporter[e].victim] \ {f} |->
                               dirs[exporter[e].victim][g]]]
    BY <1>2, <2>1 DEF RemoveFile
  <2> QED BY <2>2 DEF ReleaseInv, ReleaseTyped
<1> QED BY <1>6, <1>7

\* A file is taken out of the release at the output path only by an exporter whose own
\* bundle is complete (save_q4_bundle), whatever exporters run beside it.
THEOREM RemovedOnlyForAWholeOne == Spec => RemovedForAWholeOne
<1>1. ReleaseInv /\ [Next]_vars =>
        [\A o \in Exports :
           output = o /\ DOMAIN dirs[o]' # DOMAIN dirs[o] =>
             \E e \in Exports : exporter[e].victim = o /\ e # o /\ Inspects(dirs[e])]_vars
  BY RemovalStep
<1> QED BY <1>1, ReleaseInvariant, PTL DEF Spec, RemovedForAWholeOne

-----------------------------------------------------------------------------
(* Releases: packing                                                       *)

\* Rounding is off by half a step at most, and keeps a value within seven steps there.
LEMMA Rounded ==
  ASSUME NEW d \in Nat \ {0}, NEW n \in Int, -7 * d <= n, n <= 7 * d
  PROVE  /\ RoundHalfEven(n, d) \in -7 .. 7
         /\ 2 * Abs(n - RoundHalfEven(n, d) * d) <= d
<1>1. PICK q \in Int, r \in 0 .. d - 1 : q = n \div d /\ r = n % d /\ n = q * d + r
  BY IntDivMod
<1>2. PICK x \in Int : x = RoundHalfEven(n, d) /\ (x = q \/ x = q + 1)
                       /\ (x = q => 2 * r <= d) /\ (x = q + 1 => 2 * r >= d)
  BY <1>1 DEF RoundHalfEven
<1>3. (q + 1) * d = q * d + d
  OBVIOUS
<1>4. PICK y \in Int : y = x * d /\ 2 * (n - y) <= d /\ 2 * (y - n) <= d
  <2>1. CASE x = q
    BY <1>1, <1>2, <2>1
  <2>2. CASE x = q + 1
    BY <1>1, <1>2, <1>3, <2>2
  <2> QED BY <1>2, <2>1, <2>2
<1>5. x <= 7
  <2> SUFFICES ASSUME x >= 8 PROVE FALSE
    OBVIOUS
  <2>1. 8 * d <= y
    BY <1>4
  <2> QED BY <1>4, <2>1
<1>6. x >= -7
  <2> SUFFICES ASSUME x <= -8 PROVE FALSE
    OBVIOUS
  <2>1. y <= (-8) * d
    BY <1>4
  <2> QED BY <1>4, <2>1
<1>7. 2 * Abs(n - y) <= d
  BY <1>4 DEF Abs
<1>8. x \in -7 .. 7
  BY <1>5, <1>6
<1> QED BY ONLY <1>2, <1>4, <1>7, <1>8

\* Two nibbles go into a byte and come out again.
LEMMA NibblesOfByte ==
  ASSUME NEW low \in 0 .. 15, NEW high \in 0 .. 15
  PROVE  (low + 16 * high) % 16 = low /\ (low + 16 * high) \div 16 = high
OBVIOUS

LEMMA MaxIs ==
  ASSUME NEW S, S \subseteq Nat, IsFiniteSet(S), S # {}
  PROVE  Max(S) \in S /\ \A x \in S : x <= Max(S)
<1>1. PICK x \in S : \A y \in S : x >= y
  BY GreatestNatural
<1>2. Max(S) \in S /\ \A y \in S : Max(S) >= y
  BY <1>1 DEF Max
<1> QED BY <1>2

LEMMA AbsIs == ASSUME NEW x \in Int PROVE Abs(x) \in Nat /\ x <= Abs(x) /\ -x <= Abs(x)
BY DEF Abs

\* The groups of a tensor, and the largest magnitude of each.
Groups(data) == PaddedLength(Len(data)) \div GroupSize

LEMMA GroupPlace ==
  ASSUME NEW n \in Nat \ {0}, NEW i \in 1 .. n
  PROVE  /\ PaddedLength(n) \in Nat /\ n <= PaddedLength(n)
         /\ GroupOf(i) \in 1 .. PaddedLength(n) \div GroupSize
<1>1. PICK g \in Nat \ {0} : g = GroupSize
  BY GroupAssumption
<1>2. PICK q \in Nat, r \in 0 .. g - 1 : q = (n + g - 1) \div g /\ n + g - 1 = q * g + r
  <2>1. n + g - 1 \in Nat
    OBVIOUS
  <2> QED BY <2>1, DivMod
<1>3. q * g \in Nat /\ n <= q * g
  BY <1>2
<1>4. (q * g) \div g = q
  <2>1. 0 \in 0 .. g - 1 /\ q * g + 0 = q * g
    BY <1>3
  <2> QED BY <2>1, QuotientIs
<1>5. PICK p \in Nat, t \in 0 .. g - 1 : p = (i - 1) \div g /\ i - 1 = p * g + t
  <2>1. i - 1 \in Nat
    OBVIOUS
  <2> QED BY <2>1, DivMod
<1>6. p + 1 <= q
  <2> SUFFICES ASSUME q <= p PROVE FALSE
    OBVIOUS
  <2>1. q * g <= p * g /\ p * g \in Nat
    BY TimesMonotone
  <2> QED BY <1>3, <1>5, <2>1
<1>7. PaddedLength(n) = q * g /\ GroupOf(i) = p + 1
  BY <1>1, <1>2, <1>5 DEF PaddedLength, GroupOf
<1> QED BY <1>1, <1>3, <1>4, <1>6, <1>7

LEMMA AmaxIs ==
  ASSUME NEW data \in Seq(Int), NEW i \in 1 .. Len(data)
  PROVE  /\ Amax(data)[GroupOf(i)] \in Nat
         /\ data[i] <= Amax(data)[GroupOf(i)] /\ -data[i] <= Amax(data)[GroupOf(i)]
<1>1. PICK n \in Nat \ {0} : n = Len(data) /\ DOMAIN data = 1 .. n
  OBVIOUS
<1>2. PICK g : g = GroupOf(i) /\ g \in 1 .. PaddedLength(Len(data)) \div GroupSize
  BY <1>1, GroupPlace
<1>3. PICK J : J = {j \in DOMAIN data : GroupOf(j) = g}
  OBVIOUS
<1>4. PICK S : S = {0} \cup {Abs(data[j]) : j \in J}
  OBVIOUS
<1>5. Amax(data)[g] = Max(S)
  BY <1>2, <1>3, <1>4 DEF Amax
<1>6. S \subseteq Nat /\ S # {} /\ Abs(data[i]) \in S
  <2>1. \A j \in DOMAIN data : Abs(data[j]) \in Nat
    <3> SUFFICES ASSUME NEW j \in DOMAIN data PROVE Abs(data[j]) \in Nat
      OBVIOUS
    <3>1. data[j] \in Int
      OBVIOUS
    <3> QED BY <3>1, AbsIs
  <2>2. i \in J
    BY <1>1, <1>2, <1>3
  <2> QED BY <1>3, <1>4, <2>1, <2>2
<1>7. IsFiniteSet(S)
  <2>1. IsFiniteSet(J)
    BY <1>1, <1>3, IntervalFinite, FS_Subset
  <2>2. IsFiniteSet({Abs(data[j]) : j \in J})
    <3>1. PICK f : f = [j \in J |-> Abs(data[j])]
      OBVIOUS
    <3>2. {Abs(data[j]) : j \in J} = {f[j] : j \in J} /\ f \in Surjection(J, {f[j] : j \in J})
      BY <3>1 DEF Surjection
    <3> QED BY <2>1, <3>2, FS_Surjection
  <2> QED BY <1>4, <2>2, FS_Singleton, FS_Union
<1>8. Max(S) \in Nat /\ Abs(data[i]) <= Max(S)
  BY <1>6, <1>7, MaxIs
<1>9. data[i] \in Int
  OBVIOUS
<1>10. PICK a \in Nat : a = Amax(data)[GroupOf(i)] /\ Abs(data[i]) <= a
  BY <1>2, <1>5, <1>8
<1>11. Abs(data[i]) \in Nat /\ data[i] <= Abs(data[i]) /\ -data[i] <= Abs(data[i])
  BY <1>9, AbsIs
<1>12. data[i] <= a /\ -data[i] <= a
  BY ONLY <1>9, <1>10, <1>11
<1> QED BY <1>10, <1>12


\* A value and the nibble it becomes.
Rounds(data, i, q) ==
  q \in 0 .. 15 /\ 2 * Abs(7 * data[i] - (q - 8) * Amax(data)[GroupOf(i)]) <= Amax(data)[GroupOf(i)]

LEMMA QuantizedValue ==
  ASSUME NEW data \in Seq(Int), NEW i \in 1 .. Len(data)
  PROVE  Rounds(data, i, Quantized(data)[i])
<1>1. PICK a \in Nat : a = Amax(data)[GroupOf(i)] /\ data[i] <= a /\ -data[i] <= a
  BY AmaxIs
<1>2. PICK x \in Int : x = data[i]
  OBVIOUS
<1>3. Len(data) \in Nat \ {0} /\ i \in 1 .. PaddedLength(Len(data)) /\ ~ (i > Len(data))
  BY GroupPlace
<1>4. Quantized(data)[i] = IF a = 0 THEN 8 ELSE Clamp(RoundHalfEven(7 * x, a), -8, 7) + 8
  BY <1>1, <1>2, <1>3 DEF Quantized
<1>5. CASE a = 0
  <2>1. x = 0 /\ Quantized(data)[i] = 8
    BY <1>1, <1>2, <1>4, <1>5
  <2>2. 2 * Abs(7 * x - (8 - 8) * a) <= a
    BY <1>5, <2>1 DEF Abs
  <2> QED BY <1>1, <1>2, <2>1, <2>2 DEF Rounds
<1>6. CASE a # 0
  <2>1. PICK q \in -7 .. 7 : q = RoundHalfEven(7 * x, a) /\ 2 * Abs(7 * x - q * a) <= a
    <3>1. 7 * x \in Int /\ -7 * a <= 7 * x /\ 7 * x <= 7 * a /\ a \in Nat \ {0}
      BY <1>1, <1>2, <1>6
    <3> QED BY <3>1, Rounded
  <2>2. Clamp(q, -8, 7) = q
    BY DEF Clamp
  <2>3. PICK z : z = q + 8 /\ z \in 0 .. 15 /\ z - 8 = q
    OBVIOUS
  <2>4. Quantized(data)[i] = z
    BY <1>4, <1>6, <2>1, <2>2, <2>3
  <2> QED BY <1>1, <1>2, <2>1, <2>3, <2>4 DEF Rounds
<1> QED BY <1>5, <1>6

LEMMA NibblesAre ==
  ASSUME NEW data \in Seq(Int), Len(data) # 0
  PROVE  \E k \in Nat :
           /\ Len(Nibbles(data)) = 2 * k /\ Len(data) <= 2 * k
           /\ \A i \in 1 .. 2 * k : Nibbles(data)[i] \in 0 .. 15
           /\ \A i \in 1 .. Len(data) : Nibbles(data)[i] = Quantized(data)[i]
<1>1. PICK n \in Nat \ {0} : n = Len(data)
  OBVIOUS
<1>2. PICK p \in Nat : p = PaddedLength(n) /\ n <= p
  BY <1>1, GroupPlace
<1>3. PICK q : q = Quantized(data)
  OBVIOUS
<1>4. \A i \in 1 .. p : q[i] \in 0 .. 15
  <2> SUFFICES ASSUME NEW i \in 1 .. p PROVE q[i] \in 0 .. 15
    OBVIOUS
  <2>1. CASE i > n
    BY <1>1, <1>2, <1>3, <2>1 DEF Quantized
  <2>2. CASE i <= n
    <3>1. i \in 1 .. Len(data)
      BY <1>1, <2>2
    <3> QED BY <1>3, <3>1, QuantizedValue DEF Rounds
  <2> QED BY <1>1, <2>1, <2>2
<1>5. q = [i \in 1 .. p |-> q[i]]
  BY <1>1, <1>2, <1>3 DEF Quantized
<1>6. q \in Seq(0 .. 15) /\ Len(q) = p
  <2>1. q \in [1 .. p -> 0 .. 15]
    BY ONLY <1>4, <1>5
  <2>2. p \in Nat
    BY <1>2
  <2>3. q \in Seq(0 .. 15)
    BY ONLY <2>1, <2>2
  <2>4. Len(q) = p
    BY ONLY <2>1, <2>2
  <2> QED BY ONLY <2>3, <2>4
<1>7. PICK k \in Nat : IF p % 2 = 1 THEN p + 1 = 2 * k ELSE p = 2 * k
  <2>1. PICK h \in Nat, r \in 0 .. 1 : p = h * 2 + r /\ r = p % 2
    <3>1. p \in Nat /\ 2 \in Nat \ {0}
      BY <1>2
    <3>2. /\ p \div 2 \in Nat /\ p % 2 \in 0 .. 2 - 1
          /\ p = (p \div 2) * 2 + (p % 2)
      BY ONLY <3>1, DivMod
    <3> QED BY <3>2
  <2>2. CASE r = 1
    <3>1. p + 1 = 2 * (h + 1) /\ h + 1 \in Nat
      BY <2>1, <2>2
    <3> QED BY <2>1, <2>2, <3>1
  <2>3. CASE r = 0
    BY <2>1, <2>3
  <2> QED BY <2>2, <2>3
<1>8. CASE p % 2 = 1
  <2>1. Nibbles(data) = Append(q, 0)
    BY <1>3, <1>6, <1>8 DEF Nibbles
  <2>2. /\ Len(Append(q, 0)) = p + 1 /\ Append(q, 0)[p + 1] = 0
        /\ \A i \in 1 .. p : Append(q, 0)[i] = q[i]
    BY <1>2, <1>6
  <2>3. p + 1 = 2 * k
    BY <1>7, <1>8
  <2>4. \A i \in 1 .. p + 1 : Append(q, 0)[i] \in 0 .. 15
    <3> SUFFICES ASSUME NEW i \in 1 .. p + 1 PROVE Append(q, 0)[i] \in 0 .. 15
      OBVIOUS
    <3>1. i \in 1 .. p \/ i = p + 1
      OBVIOUS
    <3> QED BY ONLY <1>4, <2>2, <3>1
  <2>5. n <= 2 * k /\ \A i \in 1 .. n : i \in 1 .. p
    BY ONLY <1>1, <1>2, <2>3
  <2>6. /\ Len(Nibbles(data)) = 2 * k /\ Len(data) <= 2 * k
        /\ \A i \in 1 .. 2 * k : Nibbles(data)[i] \in 0 .. 15
    BY ONLY <1>1, <2>1, <2>2, <2>3, <2>4, <2>5
  <2>7. \A i \in 1 .. Len(data) : Nibbles(data)[i] = Quantized(data)[i]
    BY ONLY <1>1, <1>3, <2>1, <2>2, <2>5
  <2> QED BY ONLY <1>7, <2>6, <2>7
<1>9. CASE p % 2 # 1
  <2>1. Nibbles(data) = q
    BY <1>3, <1>6, <1>9 DEF Nibbles
  <2>2. p = 2 * k
    BY <1>7, <1>9
  <2>3. n <= 2 * k
    BY ONLY <1>1, <1>2, <2>2
  <2>4. /\ Len(Nibbles(data)) = 2 * k /\ Len(data) <= 2 * k
        /\ \A i \in 1 .. 2 * k : Nibbles(data)[i] \in 0 .. 15
    BY ONLY <1>1, <1>4, <1>6, <2>1, <2>2, <2>3
  <2>5. \A i \in 1 .. Len(data) : Nibbles(data)[i] = Quantized(data)[i]
    BY ONLY <1>3, <2>1
  <2> QED BY ONLY <1>7, <2>4, <2>5
<1> QED BY <1>8, <1>9

\* What a packed tensor is read back as.
LEMMA UnpackedIsClose ==
  ASSUME NEW data \in Seq(Int), NEW entry, entry.numel = Len(data)
  PROVE  LET out == Unpacked(PackedBytes(data), Amax(data), entry)
         IN  /\ Len(out) = Len(data) /\ DOMAIN out = 1 .. Len(data)
             /\ \A i \in 1 .. Len(data) :
                  2 * Abs(7 * data[i] - out[i]) <= Amax(data)[GroupOf(i)]
<1>1. PICK out : out = Unpacked(PackedBytes(data), Amax(data), entry)
  OBVIOUS
<1>2. PICK n \in Nat : n = Len(data)
  OBVIOUS
<1>3. DOMAIN out = 1 .. n /\ Len(out) = n
  BY <1>1, <1>2 DEF Unpacked
<1>4. ASSUME NEW i \in 1 .. n PROVE 2 * Abs(7 * data[i] - out[i]) <= Amax(data)[GroupOf(i)]
  <2>1. PICK k \in Nat :
          /\ Len(Nibbles(data)) = 2 * k /\ n <= 2 * k
          /\ \A m \in 1 .. 2 * k : Nibbles(data)[m] \in 0 .. 15
          /\ \A m \in 1 .. n : Nibbles(data)[m] = Quantized(data)[m]
    BY <1>2, NibblesAre
  <2>2. (2 * k) \div 2 = k
    <3>1. 0 \in 0 .. 2 - 1 /\ k * 2 + 0 = 2 * k
      OBVIOUS
    <3> QED BY <3>1, QuotientIs
  <2>3. PICK j \in 1 .. k : j = (i + 1) \div 2 /\ i = IF i % 2 = 1 THEN 2 * j - 1 ELSE 2 * j
    <3>1. PICK h \in Nat, r \in 0 .. 1 : i = h * 2 + r /\ r = i % 2
      <4>1. /\ i \div 2 \in Nat /\ i % 2 \in 0 .. 2 - 1
            /\ i = (i \div 2) * 2 + (i % 2) /\ 2 - 1 = 1
        BY DivMod
      <4> QED BY <4>1
    <3>2. CASE r = 1
      <4>1. i + 1 = (h + 1) * 2 + 0 /\ 0 \in 0 .. 2 - 1 /\ h + 1 \in Nat
        BY <3>1, <3>2
      <4>2. (i + 1) \div 2 = h + 1
        BY <4>1, QuotientIs
      <4>3. h + 1 \in 1 .. k /\ i = 2 * (h + 1) - 1
        BY <2>1, <3>1, <3>2
      <4> QED BY <3>1, <3>2, <4>2, <4>3
    <3>3. CASE r = 0
      <4>1. i + 1 = h * 2 + 1 /\ 1 \in 0 .. 2 - 1
        BY <3>1, <3>3
      <4>2. (i + 1) \div 2 = h
        BY <4>1, QuotientIs
      <4>3. h \in 1 .. k /\ i = 2 * h
        BY <2>1, <3>1, <3>3
      <4> QED BY <3>1, <3>3, <4>2, <4>3
    <3> QED BY <3>2, <3>3
  <2>4. PICK low \in 0 .. 15, high \in 0 .. 15 :
          low = Nibbles(data)[2 * j - 1] /\ high = Nibbles(data)[2 * j]
    <3>1. 2 * j - 1 \in 1 .. 2 * k /\ 2 * j \in 1 .. 2 * k
      OBVIOUS
    <3> QED BY <2>1, <3>1
  <2>5. PackedBytes(data)[j] = low + 16 * high
    BY <2>1, <2>2, <2>4 DEF PackedBytes
  <2>6. PICK q : q = IF i % 2 = 1 THEN low ELSE high
    OBVIOUS
  <2>7. out[i] = (q - 8) * Amax(data)[GroupOf(i)]
    <3>1. (low + 16 * high) % 16 = low /\ (low + 16 * high) \div 16 = high
      BY NibblesOfByte
    <3> QED BY <1>1, <1>2, <2>3, <2>5, <2>6, <3>1 DEF Unpacked
  <2>8. q = Quantized(data)[i]
    <3>1. q = Nibbles(data)[i]
      BY <2>3, <2>4, <2>6
    <3> QED BY <2>1, <3>1
  <2>9. Rounds(data, i, q)
    BY <1>2, <2>8, QuantizedValue
  <2> QED BY <2>7, <2>9 DEF Rounds
<1> QED BY <1>1, <1>2, <1>3, <1>4

-----------------------------------------------------------------------------
(* Releases: what a reader gets                                            *)

\* The keys of a tensor in a bundle tell its name.
LEMMA KeysTell ==
  ASSUME OneModel, NEW s \in States, NEW t \in States, NEW m \in DOMAIN s, NEW n \in DOMAIN t,
         NEW key \in EntryOf(s, m).keys, key \in EntryOf(t, n).keys
  PROVE  m = n
<1>1. key[2] = SafeName[m] /\ key[2] = SafeName[n]
  BY DEF EntryOf
<1>2. m \in Names /\ n \in Names
  BY DEF Names
<1> QED BY <1>1, <1>2 DEF OneModel

LEMMA TensorIs ==
  ASSUME OneModel, NEW t \in States, NEW n \in DOMAIN t, NEW key \in EntryOf(t, n).keys
  PROVE  key \in DOMAIN TensorsOf(t) /\ TensorsOf(t)[key] = ContentOf(key, t[n].data)
<1>1. OwnerOf(t, key) = n
  <2>1. OwnerOf(t, key) \in DOMAIN t /\ key \in EntryOf(t, OwnerOf(t, key)).keys
    BY DEF OwnerOf
  <2> QED BY <2>1, KeysTell
<1> QED BY <1>1 DEF TensorsOf

\* The entry of a tensor reads it back, to half a step of its group.
LEMMA EntryReadsBack ==
  ASSUME OneModel, NEW t \in States, NEW n \in DOMAIN t
  PROVE  CloseTo(t, n, ValueOf(TensorsOf(t), n, EntryOf(t, n)))
<1>1. PICK data \in Seq(Int) : data = t[n].data
  BY StatesAssumption
<1>2. PICK value : value = ValueOf(TensorsOf(t), n, EntryOf(t, n))
  OBVIOUS
<1>3. CASE IsQuantized(t, n)
  <2>1. /\ EntryOf(t, n).storage = "q4" /\ EntryOf(t, n).numel = Len(data)
        /\ EntryOf(t, n).keys = {<<"q4", SafeName[n]>>, <<"scale", SafeName[n]>>}
    BY <1>1, <1>3 DEF EntryOf
  <2>2. /\ TensorsOf(t)[<<"q4", SafeName[n]>>] = PackedBytes(data)
        /\ TensorsOf(t)[<<"scale", SafeName[n]>>] = Amax(data)
    <3>1. PICK p, a : p = <<"q4", SafeName[n]>> /\ a = <<"scale", SafeName[n]>>
      OBVIOUS
    <3>2. p \in EntryOf(t, n).keys /\ a \in EntryOf(t, n).keys
      BY <2>1, <3>1
    <3>3. p[1] = "q4" /\ a[1] = "scale"
      BY <3>1
    <3>4. TensorsOf(t)[p] = ContentOf(p, data) /\ TensorsOf(t)[a] = ContentOf(a, data)
      BY ONLY OneModel, t \in States, n \in DOMAIN t, <1>1, <3>2, TensorIs
    <3>5. ContentOf(p, data) = PackedBytes(data) /\ ContentOf(a, data) = Amax(data)
      BY ONLY <3>3 DEF ContentOf
    <3> QED BY <3>1, <3>4, <3>5
  <2>3. value = Unpacked(PackedBytes(data), Amax(data), EntryOf(t, n))
    BY <1>2, <2>1, <2>2 DEF ValueOf
  <2>4. /\ Len(value) = Len(data) /\ DOMAIN value = 1 .. Len(data)
        /\ \A i \in 1 .. Len(data) : 2 * Abs(7 * data[i] - value[i]) <= Amax(data)[GroupOf(i)]
    BY <2>1, <2>3, UnpackedIsClose
  <2> QED BY <1>1, <1>2, <1>3, <2>4 DEF CloseTo
<1>4. CASE ~ IsQuantized(t, n)
  <2>1. /\ EntryOf(t, n).storage = "native" /\ EntryOf(t, n).keys = {<<"fp", SafeName[n]>>}
    BY <1>1, <1>4 DEF EntryOf
  <2>2. TensorsOf(t)[<<"fp", SafeName[n]>>] = [i \in DOMAIN data |-> 7 * data[i]]
    BY <1>1, <2>1, TensorIs DEF ContentOf
  <2>3. value = [i \in 1 .. Len(data) |-> 7 * data[i]]
    BY <1>1, <1>2, <2>1, <2>2 DEF ValueOf
  <2>4. Len(value) = Len(data) /\ DOMAIN value = 1 .. Len(data)
    BY <1>1, <2>3
  <2>5. ASSUME NEW i \in 1 .. Len(data) PROVE 2 * Abs(7 * data[i] - value[i]) <= 0
    <3>1. PICK x \in Int : x = data[i]
      BY <1>1
    <3>2. value[i] = 7 * x
      BY <2>3, <3>1
    <3> QED BY <3>1, <3>2 DEF Abs
  <2> QED BY <1>1, <1>2, <1>4, <2>4, <2>5 DEF CloseTo
<1> QED BY <1>3, <1>4

\* The entries of one state against the tensors of another of the same model.
LEMMA LoadedIsClose ==
  ASSUME OneModel, NEW s \in States, NEW t \in States,
         Referenced(ManifestOf(s)) \subseteq DOMAIN TensorsOf(t)
  PROVE  /\ DOMAIN s \subseteq DOMAIN t
         /\ \A n \in DOMAIN s : CloseTo(t, n, ValueOf(TensorsOf(t), n, ManifestOf(s)[n]))
         /\ DOMAIN TensorsOf(t) \subseteq Referenced(ManifestOf(s)) => DOMAIN t = DOMAIN s
<1>1. \A u \in States : Referenced(ManifestOf(u)) = UNION {EntryOf(u, n).keys : n \in DOMAIN u}
  BY DEF Referenced, ManifestOf
<1>2. DOMAIN TensorsOf(t) = UNION {EntryOf(t, n).keys : n \in DOMAIN t}
  BY DEF TensorsOf
<1>3. \A u \in States : \A n \in DOMAIN u : \E key : key \in EntryOf(u, n).keys
  BY DEF EntryOf
<1>4. ASSUME NEW n \in DOMAIN s PROVE n \in DOMAIN t
  <2>1. PICK key : key \in EntryOf(s, n).keys
    BY <1>3
  <2>2. PICK m \in DOMAIN t : key \in EntryOf(t, m).keys
    BY <1>1, <1>2, <2>1
  <2> QED BY <2>1, <2>2, KeysTell
<1>5. ASSUME DOMAIN TensorsOf(t) \subseteq Referenced(ManifestOf(s)), NEW n \in DOMAIN t
      PROVE  n \in DOMAIN s
  <2>1. PICK key : key \in EntryOf(t, n).keys
    BY <1>3
  <2>2. PICK m \in DOMAIN s : key \in EntryOf(s, m).keys
    BY <1>1, <1>2, <1>5, <2>1
  <2> QED BY <2>1, <2>2, KeysTell
<1>6. ASSUME NEW n \in DOMAIN s PROVE CloseTo(t, n, ValueOf(TensorsOf(t), n, ManifestOf(s)[n]))
  <2>1. n \in DOMAIN t
    BY <1>4
  <2>2. s[n].float = t[n].float /\ Len(s[n].data) = Len(t[n].data)
    BY <2>1 DEF OneModel
  <2>3. ManifestOf(s)[n] = EntryOf(t, n)
    BY <2>2 DEF ManifestOf, EntryOf, IsQuantized
  <2> QED BY <2>1, <2>3, EntryReadsBack
<1> QED BY <1>4, <1>5, <1>6

\* A file at the output path is of the state its exporter was given, whoever removed others.
Contents ==
  \A o \in Exports :
    /\ exporter[o].pc = "idle" => exporter[o].state = NONE
    /\ \A f \in DOMAIN dirs[o] : f \in {"model", "quant"} =>
         exporter[o].state \in States /\ dirs[o][f] = FileContent(exporter[o].state, f)

ReaderShaped ==
  reader = [pc |-> reader.pc, kind |-> reader.kind, digests |-> reader.digests,
            manifest |-> reader.manifest, tensors |-> reader.tensors, params |-> reader.params]

ReaderInv ==
  /\ Contents
  /\ ReaderShaped
  /\ reader.pc = "tensors" => \E s \in States : reader.manifest = ManifestOf(s)
  /\ LoadedIsOneExport

\* No exporter is given another state.
StatesKept == \A o \in Exports : exporter[o].state # NONE => exporter'[o].state = exporter[o].state

LEMMA ContentsKeep ==
  ASSUME ReleaseInv, Contents, NEW e \in Exports, ExporterStep(e)
  PROVE  Contents' /\ StatesKept
<1>1. ASSUME NEW pid \in Pids, NEW s \in States, NEW force \in BOOLEAN,
             BeginExport(e, pid, s, force)
      PROVE  Contents' /\ StatesKept
  <2>1. exporter[e].pc = "idle" /\ exporter[e].state = NONE /\ dirs[e] = NoFiles
    BY <1>1 DEF BeginExport, Contents, ReleaseInv, Built
  <2>2. /\ \A o \in Exports : o # e => exporter'[o] = exporter[o]
        /\ exporter'[e].pc # "idle"
    BY <1>1 DEF BeginExport, GoTo, ReleaseInv, ReleaseTyped, ExporterType
  <2>3. \A o \in Exports : dirs'[o] = dirs[o] \/ dirs'[o] = NoFiles
    BY <1>1 DEF BeginExport, ReleaseInv, ReleaseTyped
  <2>4. DOMAIN NoFiles = {}
    BY DEF NoFiles
  <2>5. dirs'[e] = NoFiles
    BY <2>1, <2>3
  <2> QED BY <2>1, <2>2, <2>3, <2>4, <2>5 DEF Contents, StatesKept
<1>2. CASE WriteFile(e)
  <2>1. PICK s \in States : exporter[e].state = s /\ exporter[e].pc = "write"
    BY <1>2 DEF WriteFile, ReleaseInv, Built
  <2>2. PICK f : f = FileOrder[Cardinality(DOMAIN dirs[e]) + 1]
    OBVIOUS
  <2>3. PICK after : after = [g \in DOMAIN dirs[e] \cup {f} |->
                                IF g = f THEN IF f = "checksums" THEN dirs[e] ELSE FileContent(s, f)
                                ELSE dirs[e][g]]
    OBVIOUS
  <2>4. /\ dirs' = [dirs EXCEPT ![e] = after]
        /\ exporter' = IF f = "checksums" THEN [exporter EXCEPT ![e].pc = "publish"] ELSE exporter
    BY <1>2, <2>1, <2>2, <2>3 DEF WriteFile, GoTo
  <2>5. /\ dirs'[e] = after /\ \A o \in Exports : o # e => dirs'[o] = dirs[o]
        /\ \A o \in Exports : exporter'[o].state = exporter[o].state
        /\ \A o \in Exports : exporter'[o].pc = "idle" => exporter[o].pc = "idle"
    BY <2>4 DEF ReleaseInv, ReleaseTyped, ExporterType
  <2>6. \A g \in DOMAIN after : g \in {"model", "quant"} => after[g] = FileContent(s, g)
    BY <2>1, <2>3 DEF Contents
  <2>7. StatesKept
    BY <2>5 DEF StatesKept
  <2>8. Contents'
    BY <2>1, <2>5, <2>6 DEF Contents
  <2> QED BY <2>7, <2>8
<1>3. CASE RemoveFile(e)
  <2>1. PICK v \in Exports : v = exporter[e].victim
    BY <1>3 DEF RemoveFile, ReleaseInv, Placed
  <2>2. PICK f : \/ dirs' = [dirs EXCEPT ![v] = [g \in DOMAIN dirs[v] \ {f} |-> dirs[v][g]]]
                 \/ dirs' = dirs
    BY <1>3, <2>1 DEF RemoveFile
  <2>3. \A o \in Exports : /\ DOMAIN dirs'[o] \subseteq DOMAIN dirs[o]
                           /\ \A g \in DOMAIN dirs'[o] : dirs'[o][g] = dirs[o][g]
    BY <2>2 DEF ReleaseInv, ReleaseTyped
  <2>4. /\ \A o \in Exports : exporter'[o].state = exporter[o].state
        /\ \A o \in Exports : exporter'[o].pc = "idle" => exporter[o].pc = "idle"
    BY <1>3 DEF RemoveFile, GoTo, ReleaseInv, ReleaseTyped, ExporterType
  <2> QED BY <2>3, <2>4 DEF Contents, StatesKept
<1>4. CASE FindOld(e) \/ RemoveDirectory(e) \/ Rename(e) \/ Validate(e) \/ Kill(e)
  <2>1. dirs' = dirs
    BY <1>4 DEF FindOld, RemoveDirectory, Rename, Validate, Kill
  <2>2. /\ \A o \in Exports : exporter'[o].state = exporter[o].state
        /\ \A o \in Exports : exporter'[o].pc = "idle" => exporter[o].pc = "idle"
    BY <1>4 DEF FindOld, RemoveDirectory, Rename, Validate, Kill, GoTo,
                ReleaseInv, ReleaseTyped, ExporterType
  <2> QED BY <2>1, <2>2 DEF Contents, StatesKept
<1> QED BY <1>1, <1>2, <1>3, <1>4 DEF ExporterStep

\* What was loaded is of this state.
OfState(kind, params, s) ==
  /\ DOMAIN params \subseteq DOMAIN s
  /\ kind = "runtime" => DOMAIN params = DOMAIN s
  /\ \A n \in DOMAIN params : CloseTo(s, n, params[n])

LEMMA LoadedIs ==
  LoadedIsOneExport <=>
    (reader.pc = "loaded" =>
       \E e \in Exports : exporter[e].state # NONE /\ OfState(reader.kind, reader.params, exporter[e].state))
BY DEF LoadedIsOneExport, OfState

LEMMA LoadedIsNext ==
  LoadedIsOneExport' <=>
    (reader'.pc = "loaded" =>
       \E e \in Exports :
         exporter'[e].state # NONE /\ OfState(reader'.kind, reader'.params, exporter'[e].state))
BY DEF LoadedIsOneExport, OfState

LEMMA LoadedValues ==
  ASSUME NEW s, NEW tensors
  PROVE  /\ DOMAIN Loaded(ManifestOf(s), tensors) = DOMAIN s
         /\ \A n \in DOMAIN s :
              Loaded(ManifestOf(s), tensors)[n] = ValueOf(tensors, n, ManifestOf(s)[n])
<1>1. PICK manifest : manifest = ManifestOf(s)
  OBVIOUS
<1>2. DOMAIN manifest = DOMAIN s
  BY <1>1 DEF ManifestOf
<1>3. Loaded(manifest, tensors) = [n \in DOMAIN s |-> ValueOf(tensors, n, manifest[n])]
  BY <1>2 DEF Loaded
<1> QED BY <1>1, <1>3

LEMMA ReadTensorsKeeps ==
  ASSUME OneModel, ReleaseInv, ReaderInv, ReadTensors PROVE ReaderInv'
<1>1. UNCHANGED <<dirs, exporter>> /\ Contents'
  BY DEF ReadTensors, Read, ReaderInv, Contents
<1>2. CASE reader' = Raised
  BY <1>1, <1>2, LoadedIsNext DEF Raised, IdleReader, ReaderShaped, ReaderInv
<1>3. CASE reader' # Raised
  <2>1. PICK s \in States : reader.manifest = ManifestOf(s)
    BY DEF ReadTensors, ReaderInv
  <2>2. /\ HasFile("model") /\ Loads(reader.kind, reader.manifest, dirs[output]["model"])
        /\ reader' = [reader EXCEPT !.pc = "loaded", !.manifest = NONE,
                                    !.params = Loaded(reader.manifest, dirs[output]["model"])]
    BY <1>3 DEF ReadTensors, Read
  <2>3. PICK o \in Exports, t \in States :
          o = output /\ t = exporter[o].state /\ dirs[o]["model"] = TensorsOf(t)
    BY <2>2 DEF HasFile, ReleaseInv, ReleaseTyped, ReaderInv, Contents, FileContent
  <2>4. /\ Referenced(ManifestOf(s)) \subseteq DOMAIN TensorsOf(t)
        /\ reader.kind = "runtime" => DOMAIN TensorsOf(t) \subseteq Referenced(ManifestOf(s))
    BY <2>1, <2>2, <2>3 DEF Loads, RuntimeLoads, BundleLoads
  <2>5. /\ DOMAIN s \subseteq DOMAIN t
        /\ \A n \in DOMAIN s : CloseTo(t, n, ValueOf(TensorsOf(t), n, ManifestOf(s)[n]))
        /\ reader.kind = "runtime" => DOMAIN t = DOMAIN s
    BY <2>4, LoadedIsClose
  <2>6. PICK params : /\ params = Loaded(ManifestOf(s), TensorsOf(t))
                      /\ DOMAIN params = DOMAIN s
                      /\ \A n \in DOMAIN s : params[n] = ValueOf(TensorsOf(t), n, ManifestOf(s)[n])
    BY ONLY LoadedValues
  <2>7. OfState(reader.kind, params, t)
    BY <2>5, <2>6 DEF OfState
  <2>8. reader' = [pc |-> "loaded", kind |-> reader.kind, digests |-> reader.digests,
                   manifest |-> NONE, tensors |-> reader.tensors, params |-> params]
    BY <2>1, <2>2, <2>3, <2>6 DEF ReaderInv, ReaderShaped
  <2>9. exporter'[o].state = t /\ t # NONE
    BY <1>1, <2>3, NoneAssumption
  <2>10. LoadedIsOneExport'
    BY <2>3, <2>7, <2>8, <2>9, LoadedIsNext
  <2> QED BY <1>1, <2>8, <2>10 DEF ReaderInv, ReaderShaped
<1> QED BY <1>2, <1>3

LEMMA ReaderStepKeeps ==
  ASSUME OneModel, ReleaseInv, ReaderInv, ReaderStep PROVE ReaderInv'
<1>1. ReaderStep => UNCHANGED <<dirs, output, tmp, exporter>>
  BY DEF ReaderStep, OpenDigests, CheckDigest, ReadManifest, ReadTensors, CloseReader, Read
<1>2. Contents'
  BY <1>1 DEF ReaderInv, Contents
<1>3. ReaderShaped
  BY DEF ReaderInv
<1>4. ASSUME NEW kind \in {"bundle", "runtime"}, OpenDigests(kind) PROVE ReaderInv'
  <2>1. ReaderShaped' /\ reader'.pc \notin {"tensors", "loaded"}
    BY <1>3, <1>4 DEF OpenDigests, Read, Raised, IdleReader, ReaderShaped
  <2> QED BY <1>2, <2>1, LoadedIsNext DEF ReaderInv
<1>5. CASE CheckDigest
  <2>1. ReaderShaped' /\ reader'.pc \notin {"tensors", "loaded"}
    BY <1>3, <1>5 DEF CheckDigest, Read, Raised, IdleReader, ReaderShaped
  <2> QED BY <1>2, <2>1, LoadedIsNext DEF ReaderInv
<1>6. CASE CloseReader
  <2>1. ReaderShaped' /\ reader'.pc \notin {"tensors", "loaded"}
    BY <1>3, <1>6 DEF CloseReader, Read, IdleReader, ReaderShaped
  <2> QED BY <1>2, <2>1, LoadedIsNext DEF ReaderInv
<1>7. CASE ReadManifest
  <2>1. ReaderShaped' /\ reader'.pc # "loaded"
    BY <1>3, <1>7 DEF ReadManifest, Read, Raised, IdleReader, ReaderShaped
  <2>2. ASSUME reader'.pc = "tensors" PROVE \E s \in States : reader'.manifest = ManifestOf(s)
    <3>1. HasFile("quant") /\ reader'.manifest = dirs[output]["quant"]
      BY <1>3, <1>7, <2>2 DEF ReadManifest, Read, Raised, IdleReader, ReaderShaped
    <3>2. PICK s \in States : dirs[output]["quant"] = FileContent(s, "quant")
      BY <3>1 DEF HasFile, ReleaseInv, ReleaseTyped, ReaderInv, Contents
    <3> QED BY <3>1, <3>2 DEF FileContent
  <2> QED BY <1>2, <2>1, <2>2, LoadedIsNext DEF ReaderInv
<1> QED BY <1>4, <1>5, <1>6, <1>7, ReadTensorsKeeps DEF ReaderStep

LEMMA ReaderNextKeeps ==
  ASSUME OneModel, ReleaseInv, ReaderInv, [Next]_vars PROVE ReaderInv'
<1>1. ASSUME NEW e \in Exports, ExporterStep(e) PROVE ReaderInv'
  <2>1. Contents' /\ StatesKept
    BY <1>1, ContentsKeep DEF ReaderInv
  <2>2. reader' = reader
    BY <1>1 DEF ExporterStep, BeginExport, WriteFile, FindOld, RemoveFile, RemoveDirectory,
                Rename, Validate, Kill
  <2>3. LoadedIsOneExport'
    BY <2>1, <2>2, LoadedIs, LoadedIsNext DEF ReaderInv, StatesKept
  <2> QED BY <2>1, <2>2, <2>3 DEF ReaderInv, ReaderShaped
<1>2. CASE UNCHANGED vars
  BY <1>2, LoadedIs, LoadedIsNext DEF vars, ReaderInv, Contents, ReaderShaped
<1> QED BY <1>1, <1>2, ReaderStepKeeps DEF Next

\* What a load returns is the state of one export, every value to half a step of its
\* group (load_q4_bundle, load_q4_runtime), however exporters and kills interleave.
THEOREM LoadsOneExport == OneModel => (Spec => []LoadedIsOneExport)
<1> SUFFICES ASSUME OneModel PROVE Spec => []LoadedIsOneExport
  OBVIOUS
<1>1. Init => ReaderInv
  <2> SUFFICES ASSUME Init PROVE ReaderInv
    OBVIOUS
  <2>1. \A o \in Exports : exporter[o] = IdleExporter /\ dirs[o] = NoFiles
    BY DEF Init
  <2>2. Contents
    BY <2>1 DEF Contents, IdleExporter, NoFiles
  <2>3. ReaderShaped /\ reader.pc = "idle"
    BY DEF Init, IdleReader, ReaderShaped
  <2> QED BY <2>2, <2>3, LoadedIs DEF ReaderInv
<1>2. ReleaseInv /\ ReaderInv /\ [Next]_vars => ReaderInv'
  BY ReaderNextKeeps
<1>3. ReaderInv => LoadedIsOneExport
  BY DEF ReaderInv
<1> QED BY <1>1, <1>2, <1>3, ReleaseInvariant, PTL DEF Spec
=============================================================================
