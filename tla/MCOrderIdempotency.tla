------------------------- MODULE MCOrderIdempotency -------------------------
(***************************************************************************)
(* Small instances of OrderIdempotency for TLC.                            *)
(***************************************************************************)
EXTENDS OrderIdempotency, TLC

MCSymmetry == UNION {Permutations(S) : S \in {Orders, Keys, Handlers}}
=============================================================================
