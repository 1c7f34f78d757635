------------------------ MODULE FullHistoryAttention ------------------------
(***************************************************************************)
(* What attention over a token stream promises: every query sees exactly   *)
(* the keys it would see if the whole key history were kept.  This is the  *)
(* path V4FlashAttention.forward takes when it is given no cache           *)
(* (module.py, "else" of "if cache is not None"), applied to a history     *)
(* that only grows by whole chunks of consecutive positions.               *)
(*                                                                         *)
(* keys[l]  is the set of positions layer l has been given;                *)
(* reads[l] is what the last attention call on layer l mixed: for each     *)
(*          query position, the raw keys of the sliding branch and the     *)
(*          compressed groups (named by their last position) that the      *)
(*          compressed branch may select from.                             *)
(***************************************************************************)
EXTENDS Integers

CONSTANTS
  NumLayers,  \* number of decoder layers
  Ratio,      \* Ratio[l] = compression ratio of layer l, 0 for a sliding layer
  Window,     \* config.sliding_window
  Start,      \* first position of a fresh stream
  Positions   \* the positions considered (Nat, or an initial part of it)

VARIABLES keys, reads

vars == <<keys, reads>>

Layer == 0 .. NumLayers - 1

NoReads == [l \in Layer |-> <<>>]

\* sliding_causal_attention: the inclusive causal window of one query.
WindowKeys(K, q) == {p \in K : q - Window + 1 <= p /\ p <= q}

\* Groups are aligned to absolute positions, stamped with their last member,
\* and visible from that member on (inclusive comparison in the indexer).
VisibleGroups(K, r, q) ==
  {e \in K : e <= q /\ (e + 1) % r = 0 /\ (e - r + 1) .. e \subseteq K}

Attend(l, K, Q) ==
  [q \in Q |-> [local  |-> WindowKeys(K, q),
                groups |-> IF Ratio[l] = 0 THEN {}
                           ELSE VisibleGroups(K, Ratio[l], q)]]

-----------------------------------------------------------------------------
Init ==
  /\ keys = [l \in Layer |-> {}]
  /\ reads = NoReads

\* One attention call on layer l: the history grows by the chunk lo..hi-1 that
\* continues it, and every query of the chunk attends to the grown history.
Extend(l, lo, hi) ==
  /\ lo < hi
  /\ keys[l] = Start .. lo - 1
  /\ keys' = [keys EXCEPT ![l] = @ \cup (lo .. hi - 1)]
  /\ reads' = [reads EXCEPT ![l] = Attend(l, keys[l] \cup (lo .. hi - 1), lo .. hi - 1)]

\* The caller starts a stream over, or continues one whose cache it had written
\* out: all layers come back to the same point, and nothing has been read yet.
Resume(n) ==
  /\ keys' = [l \in Layer |-> Start .. n - 1]
  /\ reads' = NoReads

Next ==
  \/ \E l \in Layer, lo, hi \in Positions : Extend(l, lo, hi)
  \/ \E n \in Positions : Resume(n)

Spec == Init /\ [][Next]_vars

=============================================================================
