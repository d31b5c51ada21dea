---------------------------- MODULE MCBalanceRow ----------------------------
(* The instance of BalanceRow for TLC: every request is of one day. *)
EXTENDS BalanceRowProperties, Functions

CONSTANTS r1, r2

MCDays == [r \in Requests |-> 1]
MCDaysOf == [S \in SUBSET Requests |-> SumFunctionOnSet(daysRequested, S)]
=============================================================================
