--------------------------- MODULE CachedBalances ---------------------------
(***************************************************************************)
(* What the sync paths together promise, whichever of them run and in      *)
(* whatever order: every row is a copy of some version of the HCM's        *)
(* balance, it only gets newer, and the one thing that can take it back is *)
(* the answer to a real-time fetch that was overtaken.  Rule R6 of the     *)
(* repository with the exception the code makes.  BatchSync implements it. *)
(***************************************************************************)
EXTENDS Integers

CONSTANT Balances

VARIABLES
    source,   \* source[b]: present version of b in the HCM
    copy,     \* copy[b]: version of b's row, or Never
    late      \* answers that are still to be written, come what may

Never == -1

Init ==
    /\ source \in [Balances -> Nat]
    /\ copy = [b \in Balances |-> Never]
    /\ late = {}

SourceChanges(b) ==
    /\ source'[b] > source[b]
    /\ source' = [source EXCEPT ![b] = source'[b]]
    /\ UNCHANGED <<copy, late>>

\* Any rows move forward, never past the source; answers may be forgotten.
Refresh ==
    /\ \A b \in Balances :
           copy'[b] # copy[b] => copy[b] < copy'[b] /\ copy'[b] <= source[b]
    /\ late' \subseteq late
    /\ UNCHANGED source

\* An answer is given that other steps will overtake.
Answer(b) ==
    /\ late' = late \cup {[balance |-> b, at |-> source[b]]}
    /\ UNCHANGED <<source, copy>>

\* It is written over whatever the row holds.
Overwrite(m) ==
    /\ copy' = [copy EXCEPT ![m.balance] = m.at]
    /\ late' = late \ {m}
    /\ UNCHANGED source

Next ==
    \/ \E b \in Balances : SourceChanges(b) \/ Answer(b)
    \/ Refresh
    \/ \E m \in late : Overwrite(m)

Spec == Init /\ [][Next]_<<source, copy, late>>
=============================================================================
