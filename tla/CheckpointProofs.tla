-------------------------- MODULE CheckpointProofs --------------------------
(***************************************************************************)
(* What the checkpoint manager guarantees for every interval, limit and    *)
(* number of faults, provided no kill falls between the deletion of a      *)
(* checkpoint that is saved again and the end of the pointer's write, nor  *)
(* into the move to the archive.  With such kills the properties fail:     *)
(* CheckpointKilled.cfg shows how.                                         *)
(***************************************************************************)
EXTENDS CheckpointStore, FiniteSetTheorems, TLAPS

SafeKills == KillAt \cap {"clear", "replace", "point", "finish"} = {}

Saving == {"mktmp", "write", "clear", "replace", "point", "retain", "upload"}
Committing == {"mktmp", "write", "clear", "replace", "point"}

\* Memory: a model with its own optimizer, and a continuation for every save.
Coherent ==
  /\ pc \in Saving => return # NONE
  /\ pc = "resume" => model = 0
  /\ pc # "down" => optimizer = model
  /\ pc = "finish" \/ (pc \in Saving /\ return = "finish") => model = LastStep

\* The pointer names the last save, which is whole unless it is being replaced.
Pointing ==
  committed # NONE =>
    /\ pointer = committed
    /\ ~ (pc = "replace" /\ committed = model) =>
         committed \in DOMAIN dirs /\ dirs[committed] = Files(committed)

\* With nothing to resume from the only save under way is the one of step 0,
\* and a pointer left behind by the archived checkpoint dangles.
Fresh ==
  committed = NONE =>
    /\ pointer = NONE \/ (pointer = LastStep /\ LastStep \notin DOMAIN dirs)
    /\ pc \in {"down", "done", "resume"} \/
         (pc \in Committing /\ model = 0 /\ return = "train")

\* Where the save under way, and the one just finished, have got to.
Placed ==
  /\ committed # NONE /\ pc \in Running \ {"resume"} => committed <= model
  /\ pc = "replace" => model \notin DOMAIN dirs
  /\ pc = "point" => model \in DOMAIN dirs /\ dirs[model] = Files(model)
  /\ pc \in {"retain", "upload", "exit", "finish"} => committed = model

\* The directories newer than the last save that retention could prefer to it.
Excess ==
  {t \in DOMAIN dirs : (committed # NONE => t > committed) /\ ~ (pc = "point" /\ t = model)}

\* There are fewer of them than the limit: what is left of a candidate that
\* was archived, while it is trained once more.
Room ==
  /\ Cardinality(Excess) < MaxCheckpoints
  /\ pc \in {"upload", "exit", "finish"} => Cardinality(DOMAIN dirs) <= MaxCheckpoints

IInv == TypeOK /\ Coherent /\ Pointing /\ Fresh /\ Placed /\ Room /\ TmpOwned

-----------------------------------------------------------------------------
(* Facts about finite sets of steps                                        *)

\* How many members of S are newer than s.
Newer(S, s) == {t \in S : t > s}

\* Of two members the later has fewer newer ones.
LEMMA NewerStrict ==
  ASSUME NEW S, S \subseteq Nat, IsFiniteSet(S), NEW a \in S, NEW b \in S, a < b
  PROVE  /\ Cardinality(Newer(S, a)) \in Nat
         /\ Cardinality(Newer(S, b)) \in Nat
         /\ Cardinality(Newer(S, b)) < Cardinality(Newer(S, a))
<1>1. Newer(S, a) \subseteq S /\ Newer(S, b) \subseteq Newer(S, a)
  <2>1. a \in Nat /\ b \in Nat /\ \A t \in S : t > b => t > a
    OBVIOUS
  <2> QED BY <2>1 DEF Newer
<1>2. b \in Newer(S, a) /\ b \notin Newer(S, b)
  BY DEF Newer
<1>3. IsFiniteSet(Newer(S, a))
  BY <1>1, FS_Subset
<1>4. IsFiniteSet(Newer(S, b)) /\ Cardinality(Newer(S, b)) <= Cardinality(Newer(S, a))
      /\ (Cardinality(Newer(S, a)) = Cardinality(Newer(S, b)) => Newer(S, a) = Newer(S, b))
  BY <1>1, <1>3, FS_Subset
<1>5. Cardinality(Newer(S, a)) \in Nat /\ Cardinality(Newer(S, b)) \in Nat
  BY <1>3, <1>4, FS_CardinalityType
<1> QED BY <1>2, <1>4, <1>5

\* checkpoints[-max_checkpoints:] has at most max_checkpoints elements: counting
\* the newer ones maps it injectively into 0 .. max_checkpoints - 1.
LEMMA KeptBound ==
  ASSUME NEW S, S \subseteq Nat, IsFiniteSet(S), NEW M \in Nat \ {0},
         NEW K, K = {s \in S : ~ (Cardinality(Newer(S, s)) >= M)}
  PROVE  Cardinality(K) <= M
<1> DEFINE f == [s \in K |-> Cardinality(Newer(S, s))]
<1>1. \A s \in S : Cardinality(Newer(S, s)) \in Nat
  <2> SUFFICES ASSUME NEW s \in S PROVE Cardinality(Newer(S, s)) \in Nat
    OBVIOUS
  <2>1. Newer(S, s) \subseteq S
    BY DEF Newer
  <2> QED BY <2>1, FS_Subset, FS_CardinalityType
<1>2. K \subseteq S
  OBVIOUS
<1>3. f \in [K -> 0 .. M - 1]
  <2> SUFFICES ASSUME NEW s \in K PROVE Cardinality(Newer(S, s)) \in 0 .. M - 1
    OBVIOUS
  <2> DEFINE c == Cardinality(Newer(S, s))
  <2>1. c \in Nat /\ ~ (c >= M)
    BY <1>1, <1>2
  <2> HIDE DEF c
  <2>2. c \in 0 .. M - 1
    BY <2>1
  <2> QED BY <2>2 DEF c
<1>4. ASSUME NEW a \in K, NEW b \in K, f[a] = f[b] PROVE a = b
  <2>1. a \in Nat /\ b \in Nat /\ a \in S /\ b \in S
    BY <1>2
  <2> DEFINE ca == Cardinality(Newer(S, a))
             cb == Cardinality(Newer(S, b))
  <2>4. ca = cb
    BY <1>4
  <2>5. a < b => ca \in Nat /\ cb \in Nat /\ cb < ca
    BY <2>1, NewerStrict
  <2>6. b < a => ca \in Nat /\ cb \in Nat /\ ca < cb
    BY <2>1, NewerStrict
  <2> HIDE DEF ca, cb
  <2>2. ~ (a < b)
    BY <2>4, <2>5
  <2>3. ~ (b < a)
    BY <2>4, <2>6
  <2> QED BY <2>1, <2>2, <2>3
<1>5. f \in Injection(K, 0 .. M - 1)
  BY <1>3, <1>4 DEF Injection, IsInjective
<1>6. IsFiniteSet(0 .. M - 1) /\ Cardinality(0 .. M - 1) = M
  BY FS_Interval
<1> HIDE DEF f
<1> QED BY <1>5, <1>6, FS_Injection

\* The checkpoint directories are finitely many.
LEMMA DirsFinite ==
  ASSUME TypeOK
  PROVE  IsFiniteSet(DOMAIN dirs) /\ DOMAIN dirs \subseteq Nat
<1>1. IsFiniteSet(Steps)
  BY StepsAssumption, FS_Interval DEF Steps
<1>2. DOMAIN dirs \in SUBSET Steps
  BY DEF TypeOK, DataType
<1>3. IsFiniteSet(DOMAIN dirs)
  BY <1>1, <1>2, FS_Subset
<1> QED BY <1>2, <1>3 DEF Steps

\* A part of the excess is no larger.
LEMMA FewerExcess ==
  ASSUME TypeOK, Cardinality(Excess) < MaxCheckpoints, NEW E, E \subseteq Excess
  PROVE  Cardinality(E) < MaxCheckpoints
<1>1. IsFiniteSet(Excess)
  BY DirsFinite, FS_Subset DEF Excess
<1>2. Cardinality(E) <= Cardinality(Excess) /\ IsFiniteSet(E)
  BY <1>1, FS_Subset
<1>3. Cardinality(E) \in Nat /\ Cardinality(Excess) \in Nat
  BY <1>1, <1>2, FS_CardinalityType
<1> QED BY <1>2, <1>3, RetentionAssumption

\* As long as the directories lie within the old ones and what counts as newer
\* does not widen, there is room.
LEMMA RoomStays ==
  ASSUME TypeOK, Room, DOMAIN dirs' \subseteq DOMAIN dirs, UNCHANGED committed,
         pc # "point", pc' \notin {"upload", "exit", "finish"}
  PROVE  Room'
<1>1. Excess' \subseteq Excess
  BY DEF Excess
<1>2. Cardinality(Excess') < MaxCheckpoints
  BY <1>1, FewerExcess DEF Room
<1> QED BY <1>2 DEF Room

\* Retention spares the checkpoint just saved.
LEMMA SavedNotStale ==
  ASSUME TypeOK, Room, Placed, Pointing, Fresh, pc = "retain"
  PROVE  committed # NONE /\ committed = model /\ committed \in DOMAIN dirs /\ committed \notin Stale
<1>1. committed # NONE /\ committed = model /\ committed \in DOMAIN dirs
  BY DEF Fresh, Placed, Pointing, Committing
<1>2. Excess = {t \in DOMAIN dirs : t > committed}
  BY <1>1 DEF Excess
<1>3. Cardinality(Excess) \in Nat
  BY DirsFinite, FS_Subset, FS_CardinalityType DEF Excess
<1> QED BY <1>1, <1>2, <1>3, RetentionAssumption DEF Room, Stale

-----------------------------------------------------------------------------
(* The invariant                                                           *)

\* An empty root satisfies the invariant.
LEMMA InitInv == Init => IInv
<1> SUFFICES ASSUME Init PROVE IInv
  OBVIOUS
<1> USE DEF Init
<1>1. TypeOK
  <2>1. DataType
    BY StepsAssumption, SwitchAssumption, NameAssumption DEF DataType, Steps
  <2>2. FlagType
    BY DEF FlagType
  <2> QED BY <2>1, <2>2 DEF TypeOK
<1>2. Coherent /\ Pointing /\ Fresh /\ Placed /\ TmpOwned
  BY DEF Coherent, Pointing, Fresh, Placed, TmpOwned, Saving, Running, Committing
<1>3. Excess = {}
  BY DEF Excess
<1>4. Room
  BY <1>3, FS_EmptySet, RetentionAssumption DEF Room
<1> QED BY <1>1, <1>2, <1>4 DEF IInv

\* Launch keeps the invariant.
LEMMA LaunchInv ==
  ASSUME IInv, Launch PROVE IInv'
<1> USE DEF IInv, Launch
<1>1. TypeOK'
  <2>1. DataType'
    BY StepsAssumption DEF TypeOK, DataType, Steps, Running, Files
  <2>2. FlagType'
    BY DEF TypeOK, FlagType
  <2> QED BY <2>1, <2>2 DEF TypeOK
<1>2. Coherent' /\ Pointing' /\ Fresh' /\ Placed' /\ TmpOwned'
  BY DEF Coherent, Pointing, Fresh, Placed, TmpOwned, Saving, Running, Committing, Files
<1>3. Room'
  BY RoomStays
<1> QED BY <1>1, <1>2, <1>3

\* A resume finds the last save, or nothing.
LEMMA ResumeInv ==
  ASSUME IInv, Resume PROVE IInv'
<1> USE DEF IInv, Resume, Save, disk, memory
<1>1. TypeOK'
  <2>3. Latest \in Steps \cup {TORN, NONE}
    BY DEF TypeOK, DataType, Latest
  <2>4. model' \in Steps /\ optimizer' \in Steps
    BY <2>3, StepsAssumption DEF TypeOK, DataType, Steps
  <2>5. pc' \in Running \cup {"down", "done"}
        /\ return' \in {"train", "recheck", "exit", "finish", NONE}
    BY DEF TypeOK, DataType, Running
  <2>1. DataType'
    BY <2>4, <2>5 DEF TypeOK, DataType, Files
  <2>2. FlagType'
    BY DEF TypeOK, FlagType
  <2> QED BY <2>1, <2>2 DEF TypeOK
<1>2. Latest = committed
  BY NameAssumption, StepsAssumption DEF Latest, Pointing, Fresh, Committing, TypeOK, DataType, Steps
<1>3. committed # NONE => Loads(committed) /\ Latest # TORN
                          /\ "optimizer" \in dirs[committed]
  BY <1>2, NameAssumption DEF Pointing, Loads, Verified, Files, TypeOK, DataType, Steps
<1>4. Coherent'
  BY <1>2, <1>3, ReturnAssumption DEF Coherent, Saving
<1>5. Pointing' /\ Fresh'
  BY <1>2, <1>3 DEF Pointing, Fresh, Coherent, Committing, Files
<1>6. Placed' /\ TmpOwned'
  BY <1>2, <1>3 DEF Placed, TmpOwned, Running, TypeOK, DataType, Steps
<1>7. Room'
  BY RoomStays
<1> QED BY <1>1, <1>4, <1>5, <1>6, <1>7

\* Train keeps the invariant.
LEMMA TrainInv ==
  ASSUME IInv, TrainStep PROVE IInv'
<1> USE DEF IInv, TrainStep, disk
<1>1. TypeOK'
  <2>1. DataType'
    BY StepsAssumption DEF TypeOK, DataType, Coherent, Running, Files, Steps
  <2>2. FlagType'
    BY DEF TypeOK, FlagType
  <2> QED BY <2>1, <2>2 DEF TypeOK
<1>2. Coherent' /\ Pointing' /\ Fresh'
  BY DEF Coherent, Pointing, Fresh, Saving, Committing, Files
<1>3. Placed' /\ TmpOwned'
  BY DEF Placed, TmpOwned, Running, Fresh, Committing, TypeOK, DataType, Steps
<1>4. Room'
  BY RoomStays
<1> QED BY <1>1, <1>2, <1>3, <1>4

\* Check keeps the invariant.
LEMMA CheckInv ==
  ASSUME IInv, Check PROVE IInv'
<1> USE DEF IInv, Check, Save, disk, memory
<1>1. TypeOK'
  <2>1. DataType'
    BY StepsAssumption DEF TypeOK, DataType, Running, Files, Steps
  <2>2. FlagType'
    BY DEF TypeOK, FlagType
  <2> QED BY <2>1, <2>2 DEF TypeOK
<1>2. Coherent' /\ Pointing' /\ Fresh'
  BY ReturnAssumption DEF Coherent, Pointing, Fresh, Saving, Committing, Files
<1>3. Placed' /\ TmpOwned'
  BY DEF Placed, TmpOwned, Running, Fresh, Committing, TypeOK, DataType, Steps
<1>4. Room'
  BY RoomStays
<1> QED BY <1>1, <1>2, <1>3, <1>4

\* Recheck keeps the invariant.
LEMMA RecheckInv ==
  ASSUME IInv, Recheck PROVE IInv'
<1> USE DEF IInv, Recheck, Save, disk, memory
<1>1. TypeOK'
  <2>1. DataType'
    BY StepsAssumption DEF TypeOK, DataType, Running, Files, Steps
  <2>2. FlagType'
    BY DEF TypeOK, FlagType
  <2> QED BY <2>1, <2>2 DEF TypeOK
<1>2. Coherent' /\ Pointing' /\ Fresh'
  BY ReturnAssumption DEF Coherent, Pointing, Fresh, Saving, Committing, Files
<1>3. Placed' /\ TmpOwned'
  BY DEF Placed, TmpOwned, Running, Fresh, Committing, TypeOK, DataType, Steps
<1>4. Room'
  BY RoomStays
<1> QED BY <1>1, <1>2, <1>3, <1>4

\* EndLoop keeps the invariant.
LEMMA EndLoopInv ==
  ASSUME IInv, EndLoop PROVE IInv'
<1> USE DEF IInv, EndLoop, Save, disk, memory
<1>1. TypeOK'
  <2>1. DataType'
    BY StepsAssumption DEF TypeOK, DataType, Running, Files, Steps
  <2>2. FlagType'
    BY DEF TypeOK, FlagType
  <2> QED BY <2>1, <2>2 DEF TypeOK
<1>2. Coherent' /\ Pointing' /\ Fresh'
  BY ReturnAssumption DEF Coherent, Pointing, Fresh, Saving, Committing, Files
<1>3. Placed' /\ TmpOwned'
  BY DEF Placed, TmpOwned, Running, Fresh, Committing, TypeOK, DataType, Steps
<1>4. Room'
  BY RoomStays
<1> QED BY <1>1, <1>2, <1>3, <1>4

\* MakeTmp keeps the invariant.
LEMMA MakeTmpInv ==
  ASSUME IInv, MakeTmp PROVE IInv'
<1> USE DEF IInv, MakeTmp, memory
<1>1. TypeOK'
  <2>1. DataType'
    BY StepsAssumption DEF TypeOK, DataType, Running, Files, Steps
  <2>2. FlagType'
    BY DEF TypeOK, FlagType
  <2> QED BY <2>1, <2>2 DEF TypeOK
<1>2. Coherent' /\ Pointing' /\ Fresh'
  BY ReturnAssumption DEF Coherent, Pointing, Fresh, Saving, Committing, Files
<1>3. Placed' /\ TmpOwned'
  BY DEF Placed, TmpOwned, Running, Fresh, Committing, TypeOK, DataType, Steps
<1>4. Room'
  BY RoomStays
<1> QED BY <1>1, <1>2, <1>3, <1>4

\* WriteTmp keeps the invariant.
LEMMA WriteTmpInv ==
  ASSUME IInv, WriteTmp PROVE IInv'
<1> USE DEF IInv, WriteTmp, disk, memory
<1>1. TypeOK'
  <2>1. DataType'
    BY StepsAssumption DEF TypeOK, DataType, Running, Files, Steps
  <2>2. FlagType'
    BY DEF TypeOK, FlagType
  <2> QED BY <2>1, <2>2 DEF TypeOK
<1>2. Coherent' /\ Pointing' /\ Fresh'
  BY ReturnAssumption DEF Coherent, Pointing, Fresh, Saving, Committing, Files
<1>3. Placed' /\ TmpOwned'
  BY DEF Placed, TmpOwned, Running, Fresh, Committing, TypeOK, DataType, Steps
<1>4. Room'
  BY RoomStays
<1> QED BY <1>1, <1>2, <1>3, <1>4

\* Only a directory of the very step being saved is deleted.
LEMMA ClearInv ==
  ASSUME IInv, Clear PROVE IInv'
<1> USE DEF IInv, Clear, memory, Without, Restrict
<1>1. TypeOK'
  <2>1. DataType'
    BY StepsAssumption DEF TypeOK, DataType, Running, Files, Steps
  <2>2. FlagType'
    BY DEF TypeOK, FlagType
  <2> QED BY <2>1, <2>2 DEF TypeOK
<1>2. Coherent' /\ Pointing' /\ Fresh'
  BY ReturnAssumption DEF Coherent, Pointing, Fresh, Saving, Committing, Files
<1>3. Placed' /\ TmpOwned'
  BY DEF Placed, TmpOwned, Running, Fresh, Committing, TypeOK, DataType, Steps
<1>4. Room'
  BY RoomStays
<1> QED BY <1>1, <1>2, <1>3, <1>4

\* The directory appears whole, and counts as the newest from then on.
LEMMA ReplaceInv ==
  ASSUME IInv, Replace PROVE IInv'
<1> USE DEF IInv, Replace, memory, With
<1>1. TypeOK'
  <2>1. DataType'
    BY StepsAssumption DEF TypeOK, DataType, Running, Files, Steps
  <2>2. FlagType'
    BY DEF TypeOK, FlagType
  <2> QED BY <2>1, <2>2 DEF TypeOK
<1>2. Coherent' /\ Pointing' /\ Fresh'
  BY ReturnAssumption, StepsAssumption DEF Coherent, Pointing, Fresh, Saving, Committing, Files
<1>3. Placed' /\ TmpOwned'
  BY DEF Placed, TmpOwned, Running, Fresh, Committing, TypeOK, DataType, Steps
<1>4. Excess' \subseteq Excess
  BY DEF Excess
<1>5. Room'
  BY <1>4, FewerExcess DEF Room
<1> QED BY <1>1, <1>2, <1>3, <1>5

\* The step that makes the save the one a resume finds.
LEMMA PointInv ==
  ASSUME IInv, Point PROVE IInv'
<1> USE DEF IInv, Point, memory
<1>1. TypeOK'
  <2>1. DataType'
    BY StepsAssumption DEF TypeOK, DataType, Running, Files, Steps
  <2>2. FlagType'
    BY DEF TypeOK, FlagType
  <2> QED BY <2>1, <2>2 DEF TypeOK
<1>2. Coherent' /\ Pointing' /\ Fresh'
  BY ReturnAssumption, NameAssumption
     DEF Coherent, Pointing, Fresh, Placed, Saving, Committing, Files, TypeOK, DataType, Steps
<1>3. Placed' /\ TmpOwned'
  BY DEF Placed, TmpOwned, Running, Fresh, Committing, TypeOK, DataType, Steps
<1>4. Excess' \subseteq Excess
  BY NameAssumption DEF Excess, Placed, Running, TypeOK, DataType, Steps
<1>5. Room'
  BY <1>4, FewerExcess DEF Room
<1> QED BY <1>1, <1>2, <1>3, <1>5

\* Retention brings the directories down to the limit.
LEMMA RetainInv ==
  ASSUME IInv, Retain PROVE IInv'
<1> USE DEF IInv, Retain, memory, Restrict
<1>s. committed # NONE /\ committed = model /\ committed \in DOMAIN dirs /\ committed \notin Stale
  BY SavedNotStale
<1>1. TypeOK'
  <2>1. DataType'
    BY StepsAssumption DEF TypeOK, DataType, Running, Files, Steps
  <2>2. FlagType'
    BY DEF TypeOK, FlagType
  <2> QED BY <2>1, <2>2 DEF TypeOK
<1>2. Coherent' /\ Pointing' /\ Fresh'
  BY <1>s, ReturnAssumption DEF Coherent, Pointing, Fresh, Saving, Committing, Files
<1>3. Placed' /\ TmpOwned'
  BY <1>s DEF Placed, TmpOwned, Running, Fresh, Committing, TypeOK, DataType, Steps
<1>4. Excess' \subseteq Excess
  BY DEF Excess
<1>5. DOMAIN dirs' = {s \in DOMAIN dirs : ~ (Cardinality(Newer(DOMAIN dirs, s)) >= MaxCheckpoints)}
  BY DEF Stale, Newer
<1>6. Cardinality(DOMAIN dirs') <= MaxCheckpoints
  BY <1>5, DirsFinite, KeptBound, RetentionAssumption
<1>7. Room'
  BY <1>4, <1>6, FewerExcess DEF Room
<1> QED BY <1>1, <1>2, <1>3, <1>7

\* Upload keeps the invariant.
LEMMA UploadInv ==
  ASSUME IInv, Upload PROVE IInv'
<1> USE DEF IInv, Upload, disk, memory
<1>s. committed # NONE /\ committed = model
      /\ return \in {"train", "recheck", "exit", "finish"}
  BY DEF Fresh, Placed, Committing, Coherent, Saving, TypeOK, DataType
<1>1. TypeOK'
  <2>1. DataType'
    BY <1>s DEF TypeOK, DataType, Running, Files
  <2>2. FlagType'
    BY DEF TypeOK, FlagType
  <2> QED BY <2>1, <2>2 DEF TypeOK
<1>2. Coherent' /\ Pointing' /\ Fresh'
  BY <1>s DEF Coherent, Pointing, Fresh, Saving, Files
<1>3. Placed' /\ TmpOwned'
  BY <1>s DEF Placed, TmpOwned, Running, TypeOK, DataType, Steps
<1>4. Excess' \subseteq Excess
  BY DEF Excess
<1>5. Room'
  BY <1>4, FewerExcess DEF Room
<1> QED BY <1>1, <1>2, <1>3, <1>5

\* Exit keeps the invariant.
LEMMA ExitInv ==
  ASSUME IInv, Exit PROVE IInv'
<1> USE DEF IInv, Exit, disk, memory
<1>1. TypeOK'
  <2>1. DataType'
    BY StepsAssumption, SwitchAssumption DEF TypeOK, DataType, Running, Files, Steps
  <2>2. FlagType'
    BY DEF TypeOK, FlagType
  <2> QED BY <2>1, <2>2 DEF TypeOK
<1>2. Coherent' /\ Pointing' /\ Fresh'
  BY ReturnAssumption, StepsAssumption DEF Coherent, Pointing, Fresh, Placed, Saving, Committing, Files
<1>3. Placed' /\ TmpOwned'
  BY DEF Placed, TmpOwned, Running, Fresh, Committing, TypeOK, DataType, Steps
<1>4. Room'
  BY RoomStays
<1> QED BY <1>1, <1>2, <1>3, <1>4

\* The archive takes the final checkpoint away and leaves room for another run.
LEMMA FinishInv ==
  ASSUME IInv, Finish PROVE IInv'
<1> USE DEF IInv, Finish, memory, Without, Restrict
<1>s. committed # NONE /\ committed = model /\ model = LastStep /\ committed \in DOMAIN dirs
      /\ pointer = committed
  BY DEF Fresh, Placed, Pointing, Coherent, Committing
<1>1. TypeOK'
  <2>1. DataType'
    BY DEF TypeOK, DataType, Running, Files
  <2>2. FlagType'
    BY DEF TypeOK, FlagType
  <2> QED BY <2>1, <2>2 DEF TypeOK
<1>2. Coherent' /\ Fresh'
  BY <1>s DEF Coherent, Fresh, Saving, Committing
<1>3. Pointing'
  BY <1>s DEF Pointing, Files
<1>4. Placed' /\ TmpOwned'
  BY DEF Placed, TmpOwned, Running
<1>d. pc' \notin {"upload", "exit", "finish"}
  OBVIOUS
<1>5. ASSUME UNCHANGED <<dirs, committed>> PROVE Room'
  <2>1. DOMAIN dirs' \subseteq DOMAIN dirs /\ UNCHANGED committed /\ pc # "point"
    BY <1>5
  <2> QED BY <2>1, <1>d, RoomStays
<1>6. ASSUME dirs' = Without(dirs, model), committed' = NONE PROVE Room'
  <2>1. Excess' = DOMAIN dirs \ {model}
    BY <1>6 DEF Excess
  <2>2. Cardinality(DOMAIN dirs \ {model}) = Cardinality(DOMAIN dirs) - 1
    BY <1>s, DirsFinite, FS_RemoveElement
  <2>3. Cardinality(DOMAIN dirs) \in Nat /\ Cardinality(DOMAIN dirs) <= MaxCheckpoints
    BY DirsFinite, FS_CardinalityType DEF Room
  <2>4. Cardinality(Excess') < MaxCheckpoints
    BY <2>1, <2>2, <2>3, RetentionAssumption
  <2> QED BY <2>4, <1>d DEF Room
<1> QED BY <1>1, <1>2, <1>3, <1>4, <1>5, <1>6

\* Signal keeps the invariant.
LEMMA SignalInv ==
  ASSUME IInv, Signal PROVE IInv'
<1> USE DEF IInv, Signal, Fault, disk
<1>1. TypeOK'
  <2>1. DataType'
    BY StepsAssumption, SwitchAssumption DEF TypeOK, DataType, Running, Files, Steps
  <2>2. FlagType'
    BY DEF TypeOK, FlagType
  <2> QED BY <2>1, <2>2 DEF TypeOK
<1>2. Coherent' /\ Pointing' /\ Fresh'
  BY ReturnAssumption, StepsAssumption DEF Coherent, Pointing, Fresh, Placed, Saving, Committing, Files
<1>3. Placed' /\ TmpOwned'
  BY DEF Placed, TmpOwned, Running, Fresh, Committing, TypeOK, DataType, Steps
<1>4. Excess' = Excess
  BY DEF Excess
<1>5. Room'
  BY <1>4 DEF Room
<1> QED BY <1>1, <1>2, <1>3, <1>5

\* WriteFails keeps the invariant.
LEMMA WriteFailsInv ==
  ASSUME IInv, WriteFails PROVE IInv'
<1> USE DEF IInv, WriteFails, Fault, memory
<1>1. TypeOK'
  <2>1. DataType'
    BY StepsAssumption, SwitchAssumption DEF TypeOK, DataType, Running, Files, Steps
  <2>2. FlagType'
    BY DEF TypeOK, FlagType
  <2> QED BY <2>1, <2>2 DEF TypeOK
<1>2. Coherent' /\ Pointing' /\ Fresh'
  BY ReturnAssumption, StepsAssumption DEF Coherent, Pointing, Fresh, Placed, Saving, Committing, Files
<1>3. Placed' /\ TmpOwned'
  BY DEF Placed, TmpOwned, Running, Fresh, Committing, TypeOK, DataType, Steps
<1>4. Room'
  BY RoomStays
<1> QED BY <1>1, <1>2, <1>3, <1>4

\* UploadFails keeps the invariant.
LEMMA UploadFailsInv ==
  ASSUME IInv, UploadFails PROVE IInv'
<1> USE DEF IInv, UploadFails, Fault, disk, memory
<1>1. TypeOK'
  <2>1. DataType'
    BY StepsAssumption, SwitchAssumption DEF TypeOK, DataType, Running, Files, Steps
  <2>2. FlagType'
    BY DEF TypeOK, FlagType
  <2> QED BY <2>1, <2>2 DEF TypeOK
<1>2. Coherent' /\ Pointing' /\ Fresh'
  BY ReturnAssumption, StepsAssumption DEF Coherent, Pointing, Fresh, Placed, Saving, Committing, Files
<1>3. Placed' /\ TmpOwned'
  BY DEF Placed, TmpOwned, Running, Fresh, Committing, TypeOK, DataType, Steps
<1>4. Room'
  BY RoomStays
<1> QED BY <1>1, <1>2, <1>3, <1>4

\* Kills outside the commit keep the invariant: one within retention only
\* breaks a directory that was about to go.
LEMMA KillInv ==
  ASSUME IInv, SafeKills, Kill PROVE IInv'
<1> USE DEF IInv, Fault, memory
<1>k. pc \in Running /\ pc \notin {"clear", "replace", "point", "finish"}
  BY DEF Kill, SafeKills
<1>s. /\ pointer' = pointer /\ archived' = archived
      /\ DOMAIN dirs' \subseteq DOMAIN dirs
      /\ \A s \in DOMAIN dirs' : dirs'[s] \subseteq dirs[s]
      /\ committed # NONE => committed \in DOMAIN dirs' /\ dirs'[committed] = dirs[committed]
  <2>1. CASE UNCHANGED <<dirs, pointer, archived>>
    BY <2>1, <1>k DEF Pointing
  <2>2. CASE pc = "retain" /\ UNCHANGED <<pointer, archived>>
             /\ \E s \in Stale : \E F \in SUBSET dirs[s] :
                  dirs' = With(Restrict(dirs, {t \in DOMAIN dirs : t \in Stale => t > s}), s, F)
    <3>1. PICK s \in Stale : \E F \in SUBSET dirs[s] :
             dirs' = With(Restrict(dirs, {t \in DOMAIN dirs : t \in Stale => t > s}), s, F)
      BY <2>2
    <3>2. committed # NONE /\ committed \in DOMAIN dirs /\ committed \notin Stale
      BY <2>2, SavedNotStale
    <3>3. s \in DOMAIN dirs /\ s # committed
      BY <3>2 DEF Stale
    <3> QED BY <2>2, <3>1, <3>2, <3>3 DEF With, Restrict
  <2> QED BY <1>k, <2>1, <2>2 DEF Kill
<1>1. TypeOK'
  <2>1. DataType'
    BY <1>s, SwitchAssumption DEF Kill, TypeOK, DataType, Running, Files
  <2>2. FlagType'
    BY <1>s DEF Kill, TypeOK, FlagType
  <2> QED BY <2>1, <2>2 DEF TypeOK
<1>2. Coherent' /\ Placed' /\ TmpOwned'
  BY DEF Kill, Coherent, Placed, TmpOwned, Saving, Running
<1>3. Pointing' /\ Fresh'
  BY <1>k, <1>s DEF Kill, Pointing, Fresh, Files
<1>4. Room'
  BY <1>k, <1>s, RoomStays DEF Kill
<1> QED BY <1>1, <1>2, <1>3, <1>4

\* So does a step that changes nothing.
LEMMA StutterInv ==
  ASSUME IInv, UNCHANGED vars PROVE IInv'
<1> USE DEF IInv, vars
<1>1. DataType' /\ Coherent' /\ Pointing' /\ Fresh' /\ Placed' /\ TmpOwned'
  BY DEF TypeOK, DataType, Coherent, Pointing, Fresh, Placed, TmpOwned
<1>2. FlagType'
  BY DEF TypeOK, FlagType
<1>3. Excess' = Excess
  BY DEF Excess
<1>4. Room'
  BY <1>3 DEF Room
<1> QED BY <1>1, <1>2, <1>4 DEF TypeOK

\* Every step keeps the invariant.
LEMMA StepInv ==
  ASSUME SafeKills, IInv, [Next]_vars PROVE IInv'
<1>1. CASE Process
  BY <1>1, LaunchInv, ResumeInv, TrainInv, CheckInv, RecheckInv, EndLoopInv, MakeTmpInv,
     WriteTmpInv, ClearInv, ReplaceInv, PointInv, RetainInv, UploadInv, ExitInv, FinishInv
     DEF Process
<1>2. CASE Signal \/ WriteFails \/ UploadFails
  BY <1>2, SignalInv, WriteFailsInv, UploadFailsInv
<1>3. CASE Kill
  BY <1>3, KillInv
<1>4. CASE UNCHANGED vars
  BY <1>4, StutterInv
<1> QED BY <1>1, <1>2, <1>3, <1>4 DEF Next

\* The strengthening every result below rests on.
THEOREM Inductive == SafeKills => (Spec => []IInv)
<1> SUFFICES ASSUME SafeKills PROVE Spec => []IInv
  OBVIOUS
<1>1. IInv /\ [Next]_vars => IInv'
  BY StepInv
<1> QED BY InitInv, <1>1, PTL DEF Spec

\* Types, for every number of steps, interval, limit and faults.
THEOREM Typing == SafeKills => (Spec => []TypeOK)
<1> SUFFICES ASSUME SafeKills PROVE Spec => []TypeOK
  OBVIOUS
<1>1. IInv => TypeOK
  BY DEF IInv
<1> QED BY <1>1, Inductive, PTL

\* Whenever no process is there, the last checkpoint saved is what the next one
\* finds, whole (SafeCheckpointManager.save and latest).
THEOREM Resumable == SafeKills => (Spec => []AlwaysResumable)
<1> SUFFICES ASSUME SafeKills PROVE Spec => []AlwaysResumable
  OBVIOUS
<1>1. IInv => AlwaysResumable
  BY DEF IInv, Pointing, AlwaysResumable, Latest
<1> QED BY <1>1, Inductive, PTL

\* A resume never combines a model with another optimizer state
\* (SafeCheckpointManager.load).
THEOREM OptimizerMatches == SafeKills => (Spec => []ResumedWhole)
<1> SUFFICES ASSUME SafeKills PROVE Spec => []ResumedWhole
  OBVIOUS
<1>1. IInv => ResumedWhole
  BY DEF IInv, Coherent, ResumedWhole
<1> QED BY <1>1, Inductive, PTL

\* A stop request ends the run with all its work in a checkpoint, at whatever
\* moment the signal arrives.
THEOREM StopKeepsWork == SafeKills => (Spec => []PreemptionLosesNothing)
<1> SUFFICES ASSUME SafeKills PROVE Spec => []PreemptionLosesNothing
  OBVIOUS
<1>1. IInv => PreemptionLosesNothing
  <2> SUFFICES ASSUME IInv, pc = "exit"
               PROVE  committed = model /\ Latest = model /\ dirs[model] = Files(model)
    BY DEF PreemptionLosesNothing
  <2>1. committed # NONE /\ committed = model
    BY DEF IInv, Fresh, Placed, Committing
  <2> QED BY <2>1 DEF IInv, Pointing, Latest
<1> QED BY <1>1, Inductive, PTL

\* Retention keeps the checkpoint just saved and no more than the limit, also
\* among the directories that an archived candidate left behind.
THEOREM RetentionKeepsNewest == SafeKills => (Spec => []NewestRetained)
<1> SUFFICES ASSUME SafeKills PROVE Spec => []NewestRetained
  OBVIOUS
<1>1. IInv => NewestRetained
  <2> SUFFICES ASSUME IInv, pc = "upload"
               PROVE  model \in DOMAIN dirs /\ Cardinality(DOMAIN dirs) <= MaxCheckpoints
    BY DEF NewestRetained
  <2>1. committed # NONE /\ committed = model
    BY DEF IInv, Fresh, Placed, Committing
  <2> QED BY <2>1 DEF IInv, Pointing, Room
<1> QED BY <1>1, Inductive, PTL

\* Temporary directories belong to the save under way.
THEOREM TmpIsOwned == SafeKills => (Spec => []TmpOwned)
<1> SUFFICES ASSUME SafeKills PROVE Spec => []TmpOwned
  OBVIOUS
<1>1. IInv => TmpOwned
  BY DEF IInv
<1> QED BY <1>1, Inductive, PTL

-----------------------------------------------------------------------------
(* Implementation of DurableProgress                                       *)

\* No work, no checkpoint.
LEMMA ProgressInit == Init => Progress!Init
BY DEF Init, Progress!Init, InMemory

\* Every step is one of the abstract specification, or a stutter.
LEMMA ProgressStep ==
  ASSUME SafeKills, IInv, [Next]_vars PROVE [Progress!Next]_(Progress!vars)
<1> DEFINE W == IF InMemory = NONE THEN 0 ELSE InMemory
           D == IF committed = NONE THEN 0 ELSE committed
<1> USE DEF Progress!Next, Progress!vars, Progress!Train, Progress!Commit, Progress!Lose,
            Progress!Retire
<1>1. CASE UNCHANGED <<W, D>>
  BY <1>1
<1>2. CASE W' = D /\ UNCHANGED D
  BY <1>2
<1>3. CASE W < LastStep /\ W' = W + 1 /\ UNCHANGED D
  BY <1>3
<1>4. CASE D' = W /\ UNCHANGED W
  BY <1>4
<1>5. CASE W = LastStep /\ D' = 0 /\ UNCHANGED W
  BY <1>5
<1>n. model # NONE /\ model \in Nat
  BY NameAssumption DEF IInv, TypeOK, DataType, Steps
<1> USE DEF InMemory
<1>6. CASE Launch
  BY <1>6, <1>2 DEF Launch
<1>7. CASE Resume
  <2>0. pc = "resume"
    BY <1>7 DEF Resume
  <2>1. Latest = committed
    BY <2>0, NameAssumption, StepsAssumption
       DEF IInv, Latest, Pointing, Fresh, Committing, TypeOK, DataType, Steps
  <2>2. UNCHANGED committed
    BY <1>7 DEF Resume, disk
  <2>3. pc = "resume" /\ model = 0
    BY <1>7 DEF Resume, IInv, Coherent
  <2>4. CASE committed = NONE
    <3>1. pc' = "mktmp" /\ model' = 0
      BY <1>7, <2>1, <2>3, <2>4 DEF Resume, Save, memory
    <3> QED BY <1>1, <2>2, <2>3, <2>4, <3>1, NameAssumption
  <2>5. CASE committed # NONE
    <3>1. pc' = "down" \/ (pc' = "train" /\ model' = committed)
      BY <1>7, <2>1, <2>5 DEF Resume
    <3> QED BY <1>1, <2>2, <2>3, <2>5, <3>1
  <2> QED BY <2>4, <2>5
<1>8. CASE TrainStep
  <2>1. pc = "train" /\ pc' = "check" /\ model < LastStep /\ model' = model + 1 /\ UNCHANGED committed
    BY <1>8 DEF TrainStep, disk
  <2>2. model' # NONE
    BY <2>1, <1>n, NameAssumption
  <2>3. W = model /\ W' = model'
    BY <2>1, <2>2, <1>n
  <2> QED BY <2>1, <2>3, <1>3
<1>9. CASE Check \/ Recheck
  BY <1>9, <1>1, <1>n DEF Check, Recheck, Save, disk, memory
<1>10. CASE EndLoop \/ MakeTmp \/ WriteTmp \/ Clear \/ Replace \/ Retain
  BY <1>10, <1>1, <1>n DEF EndLoop, MakeTmp, WriteTmp, Clear, Replace, Retain, Save, disk, memory
<1>11. CASE Point
  BY <1>11, <1>4, <1>n DEF Point, memory
<1>12. CASE Upload
  <2>1. return \notin {"down", "resume"}
    BY <1>12 DEF Upload, IInv, TypeOK, DataType, Coherent, Saving
  <2> QED BY <1>12, <2>1, <1>1, <1>n DEF Upload, disk, memory
<1>13. CASE Exit \/ WriteFails \/ UploadFails \/ Kill
  BY <1>13, <1>2 DEF Exit, WriteFails, UploadFails, Kill, disk, memory
<1>14. CASE Signal
  BY <1>14, <1>1, <1>n DEF Signal, disk
<1>15. CASE Finish
  <2>1. model = LastStep /\ model' = model /\ pc' \in {"down", "done"}
    BY <1>15 DEF Finish, IInv, Coherent, memory
  <2>2. CASE committed' = NONE /\ pc' = "done"
    BY <1>15, <2>1, <2>2, <1>5, <1>n DEF Finish
  <2>3. CASE UNCHANGED committed /\ pc' = "done"
    BY <1>15, <2>1, <2>3, <1>1, <1>n DEF Finish
  <2>4. CASE UNCHANGED committed /\ pc' = "down"
    BY <2>4, <1>2
  <2>5. \/ committed' = NONE /\ pc' = "done"
        \/ UNCHANGED committed /\ pc' = "done"
        \/ UNCHANGED committed /\ pc' = "down"
    BY <1>15 DEF Finish
  <2> QED BY <2>2, <2>3, <2>4, <2>5
<1>16. CASE UNCHANGED vars
  BY <1>16, <1>1 DEF vars
<1> QED BY <1>6, <1>7, <1>8, <1>9, <1>10, <1>11, <1>12, <1>13, <1>14, <1>15, <1>16 DEF Next, Process

\* Work is lost back to the last checkpoint and no further, and only the
\* retirement of a finished candidate gives a checkpoint up.
THEOREM ProgressIsDurable == SafeKills => (Spec => ImplementsDurableProgress)
<1> SUFFICES ASSUME SafeKills PROVE Spec => ImplementsDurableProgress
  OBVIOUS
<1>1. IInv /\ [Next]_vars => [Progress!Next]_(Progress!vars)
  BY ProgressStep
<1> QED BY <1>1, ProgressInit, Inductive, PTL DEF Spec, ImplementsDurableProgress, Progress!Spec

=============================================================================
