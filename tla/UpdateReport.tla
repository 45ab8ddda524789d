---------------------------- MODULE UpdateReport ----------------------------
(***************************************************************************)
(* What a firmware update promises the person who asks for it: the device  *)
(* may start the image of a session that nobody called off; a session is   *)
(* reported a success only while the device keeps the version it asked     *)
(* for; a session that was called off is never installed; and a report,    *)
(* once made, stands.                                                      *)
(***************************************************************************)
CONSTANTS Sessions, Verdicts

VARIABLES
  kept,       \* the version the device will go on running
  target,     \* per session: the version it asked for
  verdict,    \* per session: "open" or what it was reported to be
  installed,  \* the sessions whose image the device chose to start
  calledOff   \* the sessions whose cancel was answered with "applied"

reportVars == <<kept, target, verdict, installed, calledOff>>

Init ==
  /\ verdict = [s \in Sessions |-> "open"]
  /\ installed = {} /\ calledOff = {}

Install(s) ==
  /\ s \notin calledOff
  /\ installed' = installed \cup {s}
  /\ UNCHANGED <<kept, target, verdict, calledOff>>

\* An image that proved itself is kept.
Keep(s) ==
  /\ s \in installed \ calledOff
  /\ kept' = target[s]
  /\ UNCHANGED <<target, verdict, installed, calledOff>>

Report(s, v) ==
  /\ verdict[s] = "open"
  /\ v = "success" => kept = target[s]
  /\ verdict' = [verdict EXCEPT ![s] = v]
  /\ UNCHANGED <<kept, target, installed, calledOff>>

\* The person who called the session off is told that it worked.
CallOff(s) ==
  /\ verdict[s] = "cancelled" /\ kept # target[s]
  /\ calledOff' = calledOff \cup {s}
  /\ UNCHANGED <<kept, target, verdict, installed>>

Next == \E s \in Sessions :
  \/ Install(s) \/ Keep(s) \/ CallOff(s)
  \/ \E v \in Verdicts \ {"open"} : Report(s, v)

Spec == Init /\ [][Next]_reportVars
=============================================================================
