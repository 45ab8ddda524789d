----------------------------- MODULE OtaInstall -----------------------------
(***************************************************************************)
(* What installing firmware over the air promises: a release is let in by  *)
(* a person or by the Direct policy, the device only ever starts the       *)
(* release that is let in at that moment, and once it is chosen nothing    *)
(* changes it any more.                                                    *)
(***************************************************************************)
CONSTANTS Releases, None

VARIABLES
  allowed,  \* the release that is let in, or None
  chosen,   \* the release the device will start next, or None
  running   \* "old" or "new"

installVars == <<allowed, chosen, running>>

Init == allowed = None /\ chosen = None /\ running = "old"

\* A release is let in, or what was let in is given up.
Allow(r) ==
  /\ chosen = None
  /\ allowed' = r
  /\ UNCHANGED <<chosen, running>>

Choose ==
  /\ chosen = None /\ allowed # None
  /\ chosen' = allowed
  /\ UNCHANGED <<allowed, running>>

Start ==
  /\ running = "old" /\ chosen # None
  /\ running' = "new"
  /\ UNCHANGED <<allowed, chosen>>

Next == Choose \/ Start \/ \E r \in Releases \cup {None} : Allow(r)

Spec == Init /\ [][Next]_installVars
=============================================================================
