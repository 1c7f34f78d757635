---------------------------- MODULE SequenceLoss ----------------------------
(***************************************************************************)
(* What the loss of a sequence is, however it is executed: every labelled  *)
(* position after the first is scored once, and the mean divides by their  *)
(* number.  A run may give up, but never reports a loss over a part.       *)
(***************************************************************************)
EXTENDS Naturals, FiniteSets

VARIABLES
  labelled,  \* the positions to be scored, fixed for the run
  scored,    \* those scored so far
  tokens,    \* what the mean will divide by
  outcome    \* "open", "reported" or "raised"

vars == <<labelled, scored, tokens, outcome>>

Init == scored = {} /\ tokens = 0 /\ outcome = "open"

Score(T) ==
  /\ outcome = "open"
  /\ T \cap scored = {}
  /\ scored' = scored \cup T
  /\ tokens' = tokens + Cardinality(T)
  /\ UNCHANGED <<labelled, outcome>>

Report ==
  /\ outcome = "open"
  /\ scored = labelled
  /\ outcome' = "reported"
  /\ UNCHANGED <<labelled, scored, tokens>>

Raise ==
  /\ outcome = "open"
  /\ outcome' = "raised"
  /\ UNCHANGED <<labelled, scored, tokens>>

Next == (\E T \in SUBSET labelled : Score(T)) \/ Report \/ Raise

Spec == Init /\ [][Next]_vars

=============================================================================
