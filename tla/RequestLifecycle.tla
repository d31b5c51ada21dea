-------------------------- MODULE RequestLifecycle --------------------------
(***************************************************************************)
(* What the service promises about the state column of time_off_request,   *)
(* whoever writes it: a request is created SUBMITTED, and from then on the *)
(* row itself moves only along the transitions of the state machine.       *)
(* OutboxProcessing is checked to implement this specification.            *)
(***************************************************************************)
EXTENDS RequestStateMachine

CONSTANT Requests

VARIABLE request   \* request[r]: the state column of r's row

Init == request = [r \in Requests |-> NotCreated]

Submit(r) ==
  /\ request[r] = NotCreated
  /\ request' = [request EXCEPT ![r] = "SUBMITTED"]

Move(r, to) ==
  /\ request[r] # NotCreated
  /\ CanTransition(request[r], to)
  /\ request' = [request EXCEPT ![r] = to]

Next == \E r \in Requests : Submit(r) \/ \E to \in RequestState : Move(r, to)

Spec == Init /\ [][Next]_request
=============================================================================
