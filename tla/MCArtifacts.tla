----------------------------- MODULE MCArtifacts -----------------------------
(***************************************************************************)
(* What processes that are killed at any point leave on the disk for the   *)
(* next one: a release directory with its exporters and readers, the two   *)
(* files of a distillation run, and the report, checkpoints and archive of *)
(* a screen of candidates.                                                 *)
(*                                                                         *)
(* Two exports of one model: groups that are full, padded, all zero and of *)
(* an odd number of nibbles; a packed linear, a packed gate, an integer    *)
(* buffer and a sensitive linear with a bias.  The second state has other  *)
(* values, the third lacks a tensor.                                       *)
(***************************************************************************)
EXTENDS Q4Release, DistillRun, AblationScreen, TLC

VARIABLE part  \* which of the three this behaviour is of; the others stay as they began

Float(data) == [float |-> TRUE, data |-> data]
Integral(data) == [float |-> FALSE, data |-> data]

QProj == <<"q_proj", "weight">>
Gate == <<"mhc", "gate">>
Ids == <<"rope", "ids">>
Vision == <<"vision", "weight">>
VisionBias == <<"vision", "bias">>

MCFirst == QProj :> Float(<<3, -1, 2, 0, -2>>) @@ Gate :> Float(<<5>>) @@ Ids :> Integral(<<1, 2>>)
           @@ Vision :> Float(<<4, -3>>) @@ VisionBias :> Float(<<1>>)
MCSecond == QProj :> Float(<<0, 0, 0, -5, 4>>) @@ Gate :> Float(<<-2>>) @@ Ids :> Integral(<<1, 2>>)
            @@ Vision :> Float(<<1, 1>>) @@ VisionBias :> Float(<<0>>)
MCThird == [n \in DOMAIN MCSecond \ {Gate} |-> MCSecond[n]]

MCStates == {MCFirst, MCSecond, MCThird}
MCSensitive == {Vision, VisionBias}
MCModelNames == DOMAIN MCFirst
MCLinear == {"q_proj", "vision"}
MCSafeName == QProj :> "q_proj_weight" @@ Gate :> "mhc_gate" @@ Ids :> "rope_ids"
              @@ Vision :> "vision_weight" @@ VisionBias :> "vision_bias"

MCScreens ==
  {[bert |-> TRUE, archives |-> TRUE, cached |-> FALSE],
   [bert |-> FALSE, archives |-> FALSE, cached |-> FALSE],
   [bert |-> FALSE, archives |-> TRUE, cached |-> TRUE]}

\* A cycle of four slots: eight tokens, of the nine that are trained on.
MCWeight == <<75, 25>>

\* What LoadsOneExport asks of the states holds of these.
ASSUME ExportsAssumption == OneModel

artifactVars == <<vars, distillVars, screenVars, part>>

ReleasePart == part = "release" /\ Next /\ UNCHANGED <<distillVars, screenVars, part>>
DistillPart == part = "distill" /\ DistillNext /\ UNCHANGED <<vars, screenVars, part>>
ScreenPart == part = "screen" /\ ScreenNext /\ UNCHANGED <<vars, distillVars, part>>

ArtifactsInit ==
  /\ Init /\ DistillInit /\ ScreenInit
  /\ \/ part = "screen"
     \/ part \in {"release", "distill"} /\ screen = CHOOSE s \in Screens : s.bert

ArtifactsSpec ==
  /\ ArtifactsInit
  /\ [][ReleasePart \/ DistillPart \/ ScreenPart]_artifactVars
  /\ WF_screenVars(part = "screen" /\ ScreenProcess)

\* Completes, of the behaviours that are a screen's.
ScreenCompletes == part = "screen" => Completes

=============================================================================
