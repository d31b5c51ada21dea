------------------------------ MODULE MCOutbox ------------------------------
(***************************************************************************)
(* Instances of OutboxProcessing for TLC.                                  *)
(***************************************************************************)
EXTENDS OutboxProperties, TLC

CONSTANTS r1, r2, r3, r4, r5, p1, p2

\* One request of two days, the others of one.
MCDays == [r \in Requests |-> IF r = r2 THEN 2 ELSE 1]

\* One day each.
MCOneDay == [r \in Requests |-> 1]

\* Then requests differ by name only, as polls do.
Alike == Permutations(Requests) \cup Permutations(Polls)
=============================================================================
