--------------------------- MODULE MCLongContext ---------------------------
(***************************************************************************)
(* All sequences of up to six positions with every choice of labels, with  *)
(* chunks and detach intervals that divide each other and that do not; a   *)
(* sliding layer and two that compress, one with a scaled index.           *)
(***************************************************************************)
EXTENDS LongContext

MCLengths == 0 .. 6
MCRatio == <<0, 2, 3>>

=============================================================================
