------------------------- MODULE MCCheckpointStore -------------------------
(***************************************************************************)
(* Where the process may be killed: everywhere, or everywhere but between  *)
(* the deletion of a checkpoint being saved again and the pointer's write, *)
(* and while the final checkpoint is archived.                             *)
(***************************************************************************)
EXTENDS CheckpointStore

Everywhere == Running
OutsideCommit == Running \ {"clear", "replace", "point", "finish"}

=============================================================================
