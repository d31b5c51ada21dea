----------------------------- MODULE MCHcmMock -----------------------------
(* The instance of HcmMock for TLC: one request of a day, the others of two. *)
EXTENDS HcmMockProperties

CONSTANTS r1, r2, c1, c2

MCDays == [r \in Requests |-> IF r = r1 THEN 1 ELSE 2]
MCCounts == {-1, 0, 2}
=============================================================================
