---------------------------- MODULE MCCodexProxy ----------------------------
(***************************************************************************)
(* TLC instance of CodexProxy.  A command that changes something and a     *)
(* read-only check after it, before it or at the same time, in one turn;   *)
(* each may be answered by all three who can, the check by an error too.   *)
(***************************************************************************)
EXTENDS CodexProxy, TLC

CONSTANTS change, check, t1

MCRequests == {change, check}
MCTurns == {t1}
MCTurnOf == (change :> t1) @@ (check :> t1)
MCReadOnly == {check}
MCRefusable == {check}
=============================================================================
