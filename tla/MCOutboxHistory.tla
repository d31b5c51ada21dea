--------------------------- MODULE MCOutboxHistory ---------------------------
(***************************************************************************)
(* Instances of OutboxHistory for TLC.                                     *)
(***************************************************************************)
EXTENDS MCOutbox, OutboxHistory
=============================================================================
