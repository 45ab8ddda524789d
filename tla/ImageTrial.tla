----------------------------- MODULE ImageTrial -----------------------------
(***************************************************************************)
(* What the boot-health supervisor promises about a freshly staged image,  *)
(* whatever the threads, the flash and the power do: it gets one trial     *)
(* boot, the trial has one verdict, and the verdict is final.  A confirmed *)
(* image keeps running; a rejected one never runs again.                   *)
(***************************************************************************)
VARIABLES verdict,  \* of the staged image: "trial", "confirmed" or "rejected"
          running   \* the image the device executes: "target" or "fallback"

trialVars == <<verdict, running>>

Init == /\ running = "target"
        /\ verdict \in {"trial", "confirmed"}

Confirm == /\ verdict = "trial"
           /\ verdict' = "confirmed"
           /\ UNCHANGED running

\* Rejecting the image and falling back to the previous one are one event.
Reject == /\ verdict = "trial"
          /\ verdict' = "rejected"
          /\ running' = "fallback"

Next == Confirm \/ Reject

Spec == Init /\ [][Next]_trialVars
=============================================================================
