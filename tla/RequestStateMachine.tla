------------------------ MODULE RequestStateMachine ------------------------
(***************************************************************************)
(* The states of a time-off request and the moves between them that the    *)
(* service allows (domain/enums.ts, domain/state-machine.ts).              *)
(***************************************************************************)

RequestState == {"SUBMITTED", "PENDING_HCM", "APPROVED", "REJECTED",
                 "FAILED", "CANCELLING", "CANCELLED"}

\* A request that nobody has created yet; there is no row for it.
NotCreated == "NOT_CREATED"

\* Wrong variant: what was sent to the HCM cannot fail.
getValidTransitionsNoFailure ==
  [SUBMITTED   |-> {"PENDING_HCM", "CANCELLED"},
   PENDING_HCM |-> {"APPROVED", "REJECTED"},
   APPROVED    |-> {"CANCELLING"},
   CANCELLING  |-> {"CANCELLED"},
   FAILED      |-> {"SUBMITTED"},
   REJECTED    |-> {},
   CANCELLED   |-> {}]

\* Indexed by the present state; a state without successors is final.
getValidTransitions ==
  [SUBMITTED   |-> {"PENDING_HCM", "CANCELLED"},
   PENDING_HCM |-> {"APPROVED", "REJECTED", "FAILED"},
   APPROVED    |-> {"CANCELLING"},
   CANCELLING  |-> {"CANCELLED", "FAILED"},
   FAILED      |-> {"SUBMITTED"},
   REJECTED    |-> {},
   CANCELLED   |-> {}]

\* transition(from, to) throws InvalidStateTransitionException when this is
\* false.
CanTransition(from, to) == to \in getValidTransitions[from]
=============================================================================
