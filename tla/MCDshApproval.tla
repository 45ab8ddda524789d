--------------------------- MODULE MCDshApproval ---------------------------
(***************************************************************************)
(* TLC instance of DshApproval.  Two calls are enough for two approvals at *)
(* once and for an answer that is late for one and early for the other;    *)
(* one pulled cable separates the device from what it was told.            *)
(***************************************************************************)
EXTENDS DshApproval

CONSTANTS c1, c2

MCCalls == {c1, c2}
MCMaxWire == 2
MCMaxDrops == 1
=============================================================================
