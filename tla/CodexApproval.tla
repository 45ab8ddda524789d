---------------------------- MODULE CodexApproval ----------------------------
(***************************************************************************)
(* What the proxy promises about command approvals: a request is decided   *)
(* once, by a user or not at all, and the one exception, a read-only check *)
(* that is accepted unasked, belongs to a turn in which a user accepted a  *)
(* command that changes something.                                         *)
(***************************************************************************)
CONSTANTS
  Requests,  \* approval requests
  TurnOf,    \* the turn each belongs to
  ReadOnly   \* the requests for commands that only look

VARIABLE status \* what is known of each request

Init == status = [r \in Requests |-> "none"]

Ask(r) == status[r] = "none" /\ status' = [status EXCEPT ![r] = "waiting"]

Decide(r) == /\ status[r] = "waiting"
             /\ status' \in {[status EXCEPT ![r] = "accept"], [status EXCEPT ![r] = "decline"]}

Withdraw(r) == status[r] = "waiting" /\ status' = [status EXCEPT ![r] = "withdrawn"]

AcceptUnasked(r) ==
  /\ status[r] = "none" /\ r \in ReadOnly
  /\ \E m \in Requests \ ReadOnly : TurnOf[m] = TurnOf[r] /\ status[m] = "accept"
  /\ status' = [status EXCEPT ![r] = "accept"]

Next == \E r \in Requests : Ask(r) \/ Decide(r) \/ Withdraw(r) \/ AcceptUnasked(r)

Spec == Init /\ [][Next]_status
=============================================================================
