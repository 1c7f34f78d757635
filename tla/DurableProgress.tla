-------------------------- MODULE DurableProgress --------------------------
(***************************************************************************)
(* What resumable training promises (training/checkpoint.py, "Atomic,      *)
(* resumable checkpoint state"): work is only ever lost back to the last   *)
(* checkpoint, a checkpoint only ever moves to the work reached, and       *)
(* nothing but retiring a finished run gives one up.                       *)
(***************************************************************************)
EXTENDS Naturals

CONSTANT LastStep  \* optimizer steps of a complete run

VARIABLES
  work,     \* steps in memory, or to be there after a resume
  durable   \* steps of the checkpoint a resume finds, 0 if there is none

vars == <<work, durable>>

Init == work = 0 /\ durable = 0

Train  == work < LastStep /\ work' = work + 1 /\ UNCHANGED durable
Commit == durable' = work /\ UNCHANGED work
Lose   == work' = durable /\ UNCHANGED durable
Retire == work = LastStep /\ durable' = 0 /\ UNCHANGED work

Next == Train \/ Commit \/ Lose \/ Retire

Spec == Init /\ [][Next]_vars

=============================================================================
