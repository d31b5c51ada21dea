---------------------------- MODULE MCIdempotency ----------------------------
(***************************************************************************)
(* Instances of Idempotency for TLC.                                       *)
(***************************************************************************)
EXTENDS IdempotencyProperties

CONSTANTS c1, c2, c3, c4, nobody

\* One call reuses the key with another body.
MCBody == [c \in Calls |-> IF c = c4 THEN "other" ELSE "same"]
=============================================================================
