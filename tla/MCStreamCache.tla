--------------------------- MODULE MCStreamCache ---------------------------
(***************************************************************************)
(* Small stacks for StreamCache: a sliding layer followed by compressing   *)
(* layers whose ratios do not divide each other or the window.             *)
(***************************************************************************)
EXTENDS StreamCache, TLC

\* sliding, csa, hca: the windows and groups never end together for long
MCRatio == 0 :> 0 @@ 1 :> 2 @@ 2 :> 3

=============================================================================
