---------------------------- MODULE MCOrderEdits ----------------------------
(* Two lines of at most two cents and two requests at once. *)
EXTENDS OrderEdits, TLC

Symmetry == Permutations(Items) \cup Permutations(Handlers)
=============================================================================
