----------------------------- MODULE MCOtaSystem ----------------------------
(***************************************************************************)
(* A small instance of OtaSystem: two sessions, a device that starts below *)
(* or at the first version that takes signed offers, two lines on their    *)
(* way in each direction, and a ring that the second session's offer fills *)
(* over the first's.                                                       *)
(***************************************************************************)
EXTENDS OtaSystem

MCSessions == 1..2
MCVersions == 1..3
MCPlans == {[first |-> 1, target |-> <<2, 3>>, direct |-> FALSE],
            [first |-> 2, target |-> <<3, 3>>, direct |-> TRUE],
            [first |-> 2, target |-> <<3, 3>>, direct |-> FALSE]}
=============================================================================
