------------------------------ MODULE OtaSystem -----------------------------
(***************************************************************************)
(* A firmware update from both ends: the host's coordinator                *)
(* (ota_coordination.py) in its asyncio task, the agent's cancel command   *)
(* beside it, and the device of OtaDevice behind a link that drops lines,  *)
(* goes down and comes back.                                               *)
(*                                                                         *)
(* One session runs at a time, 1, 2, ..., each with a nonce of its own; a  *)
(* later one may find the device busy with what an earlier one began.      *)
(* The code between two awaits is one action.  Every timeout may come at   *)
(* any moment its wait lasts.                                              *)
(***************************************************************************)
EXTENDS OtaDevice

CONSTANTS
  SignedFrom,  \* "0.1.6": the first version that is sent signed offers
  Tries        \* how often an offer is sent

VARIABLES
  cur,        \* the present session, 0 before the first
  pc,         \* where run() waits, "over" after it
  tries,      \* offers sent
  session,    \* OtaAgentSession
  recovering, \* recovering_transport
  awaiting,   \* awaiting_restart_health
  call,       \* cancel(): "no", "wait" for cancel_result, "applied"
  verdict,    \* history: how each session ended
  calledOff   \* history: the sessions whose cancel() returned TRUE

coordinator == <<cur, pc, tries, session, recovering, awaiting, call>>
history == <<verdict, calledOff>>
vars == <<deviceVars, coordinator, history>>

NewSession == [phase |-> "preparing", accepted |-> FALSE,
  irreversible |-> FALSE, signed |-> FALSE,
  event |-> FALSE, sent |-> FALSE, pending |-> FALSE]

IrreversiblePhases == {"boot-committed", "boot-health"}
AcceptedPhases == IrreversiblePhases \cup {"accepted", "readback"}
FailedPhases == {"rejected", "cancelled", "error"}
\* statuses that answer a cancel which was not applied
Refusals == IrreversiblePhases \cup {"running", "rejected", "error"}

HostInit ==
  /\ cur = 0 /\ pc = "over" /\ tries = 0 /\ session = NewSession
  /\ recovering = FALSE /\ awaiting = FALSE /\ call = "no"
  /\ verdict = [s \in Sessions |-> "open"]
  /\ calledOff = {}

Line(cmd) == [cmd |-> cmd, id |-> cur, signed |-> FALSE]

\* await ble.send_json(line): the next line waits for this one
Send(line) == toDev = <<>> /\ toDev' = <<line>>
still == <<linked, target, direct, late, dev, receiver, up, taken, installed>>
StillDevice == UNCHANGED <<still, troubles>>

\* the one-time server is open from the first offer to the end of the session
Serving == IF pc \in {"send", "offer", "install"} THEN cur ELSE 0

Offering == IF pc \in {"send", "offer"} THEN cur ELSE 0

Receiving == pc \in {"probe", "offer", "install"} /\ ~recovering

(***************************************************************************)
(* The agent's commands.                                                   *)
(***************************************************************************)
\* _begin_ota_update, and run() up to its first wait
Begin ==
  /\ pc = "over" /\ call = "no" /\ cur + 1 \in Sessions /\ linked
  /\ cur' = cur + 1 /\ pc' = "probe" /\ tries' = 0 /\ session' = NewSession
  /\ recovering' = FALSE /\ awaiting' = FALSE
  /\ Send([Line("ota_status") EXCEPT !.id = cur + 1])
  /\ toHost' = <<>>  \* the rest is of other sessions and would be skipped
  /\ StillDevice /\ UNCHANGED <<call, verdict, calledOff>>

\* cancel() up to its first wait
Cancel ==
  /\ cur # 0 /\ call = "no"
  /\ \/ /\ pc = "over" /\ session.phase = "cancelled"
        /\ calledOff' = calledOff \cup {cur}
        /\ UNCHANGED <<session, call>>
     \/ /\ pc # "over" /\ session.phase # "cancelled"
        /\ ~session.irreversible /\ session.phase \notin IrreversiblePhases
        /\ session' = [session EXCEPT !.event = TRUE, !.pending = TRUE]
        /\ call' = "wait"
        /\ UNCHANGED calledOff
  /\ UNCHANGED <<deviceVars, cur, pc, tries, recovering, awaiting, verdict>>

\* the wait for cancel_result, or for cancel_complete, takes too long
CancelTimesOut ==
  /\ call # "no" /\ Trouble
  /\ call' = "no"
  /\ UNCHANGED <<still, toDev, toHost, cur, pc, tries, session, recovering,
                 awaiting, history>>

\* cancel_complete is set
CancelReturns ==
  /\ call = "applied" /\ pc = "over" /\ session.phase = "cancelled"
  /\ call' = "no" /\ calledOff' = calledOff \cup {cur}
  /\ UNCHANGED <<deviceVars, cur, pc, tries, session, recovering, awaiting,
                 verdict>>

(***************************************************************************)
(* _finish_cancel_request and the end of run().                            *)
(***************************************************************************)
Finished(q, applied) ==
  [q EXCEPT !.event = FALSE, !.sent = FALSE, !.pending = FALSE,
            !.phase = IF applied THEN "cancelled" ELSE @]

\* cancel(), waiting as in c, when cancel_result of q is set
Answered(c, q, applied) ==
  IF c = "wait" /\ q.pending THEN (IF applied THEN "applied" ELSE "no") ELSE c

\* the except clauses and the finally of run(), which closes the server
End(q, c, v) ==
  /\ pc' = "over"
  /\ session' = [NewSession EXCEPT !.phase =
       CASE v = "success" -> "running"
         [] v = "cancelled" -> v
         [] OTHER -> "error"]
  /\ call' = Answered(c, q, FALSE)
  /\ verdict' = [verdict EXCEPT ![cur] = v]

(***************************************************************************)
(* run(): one action per await.                                            *)
(***************************************************************************)
\* _send_cancel_request
SendCancel ==
  /\ Receiving /\ session.event /\ ~session.sent
  /\ \/ /\ linked
        /\ Send(Line("ota_cancel"))
        /\ session' = [session EXCEPT !.sent = TRUE, !.event = FALSE]
        /\ UNCHANGED call
     \/ /\ session' = Finished(session, FALSE)  \* no link, or the send fails
        /\ call' = Answered(call, session, FALSE)
        /\ UNCHANGED toDev
  /\ StillDevice
  /\ UNCHANGED <<toHost, cur, pc, tries, recovering, awaiting, history>>

SendOffer ==
  /\ pc = "send"
  /\ tries' = tries + 1
  /\ \/ /\ linked /\ pc' = "offer"
        /\ Send([Line("offer") EXCEPT !.signed = session.signed])
        /\ UNCHANGED <<session, call, verdict>>
     \/ /\ ~linked /\ End(session, call, "failed") /\ UNCHANGED toDev
  /\ StillDevice
  /\ UNCHANGED <<toHost, cur, recovering, awaiting, calledOff>>

TryAgain(q, c) ==
  IF tries < Tries
    THEN pc' = "send" /\ session' = q /\ call' = c /\ UNCHANGED verdict
    ELSE End(q, c, "failed")

\* A mutant: boot health alone is taken for a success, whatever runs.
HealthIsValid(st) == st.health = "valid"

Healthy(st) == st.version = target[cur] /\ st.health = "valid"

\* the first answer: what runs on the device, before anything is offered
Probed(st, q, c) ==
  IF st.phase = "running" /\ target[cur] > st.version
    THEN /\ pc' = "send" /\ call' = c
         /\ session' = [q EXCEPT !.phase = "offer-sent",
                                 !.signed = st.version >= SignedFrom]
         /\ UNCHANGED verdict
    ELSE End(q, c, "failed")

\* A mutant: an accepted update counts as one that cannot be called off.
ProgressFinal(st, q, c) ==
  LET accepted == st.phase \in AcceptedPhases
  IN  /\ pc' = "install" /\ call' = c
      /\ session' = [q EXCEPT !.phase = st.phase,
                       !.accepted = @ \/ accepted,
                       !.irreversible = @ \/ accepted]
      /\ awaiting' = (awaiting \/ accepted)
      /\ UNCHANGED verdict

Progress(st, q, c) ==
  LET accepted == st.phase \in AcceptedPhases
      final == st.phase \in IrreversiblePhases
  IN  /\ pc' = "install" /\ call' = c
      /\ session' = [q EXCEPT !.phase = st.phase,
                       !.accepted = @ \/ accepted, !.irreversible = @ \/ final]
      /\ awaiting' = (awaiting \/ final)
      /\ UNCHANGED verdict

Ended(st, q, c) ==
  End(q, c, IF st.phase = "cancelled" THEN "cancelled" ELSE "failed")

\* what run() does with a status of its session
Take(st, q, c) ==
  CASE pc = "probe" -> Probed(st, q, c) /\ UNCHANGED awaiting
    [] pc # "probe" /\ st.phase = "running" ->
         /\ IF Healthy(st) THEN End(q, c, "success")
            ELSE IF pc = "offer" THEN TryAgain(q, c)
            ELSE IF q.irreversible
                    /\ (st.version # target[cur] \/ st.health = "rollback")
              THEN End(q, c, "failed")
              ELSE session' = q /\ call' = c /\ UNCHANGED <<pc, verdict>>
         /\ UNCHANGED awaiting
    [] pc # "probe" /\ st.phase \in FailedPhases ->
         Ended(st, q, c) /\ UNCHANGED awaiting
    [] OTHER -> Progress(st, q, c)

\* _receive: a status of another session is dropped; one of this session may
\* answer the cancel that was sent; a cancelled that is not the answer is
\* followed by a probe and not believed.
Receive ==
  LET st == Head(toHost)
      answers == session.sent /\ (st.applied \/ st.phase \in Refusals)
      q == IF answers THEN Finished(session, st.applied) ELSE session
      c == IF answers THEN Answered(call, session, st.applied) ELSE call
  IN  /\ Receiving /\ linked /\ toHost # <<>>
      /\ toHost' = Tail(toHost)
      /\ CASE st.to # cur ->
                UNCHANGED <<pc, session, call, awaiting, verdict, toDev>>
           [] st.to = cur /\ st.phase = "cancelled" /\ ~st.applied ->
                /\ session' = q /\ call' = c /\ Send(Line("ota_status"))
                /\ UNCHANGED <<pc, awaiting, verdict>>
           [] OTHER -> Take(st, q, c) /\ UNCHANGED toDev
      /\ StillDevice
      /\ UNCHANGED <<cur, tries, recovering, calledOff>>

hostAside == <<deviceVars, cur, tries, calledOff>>

\* the wait for a status, or the deadline of the whole session
TimesOut ==
  /\ pc \in {"probe", "offer", "install"}
  /\ pc = "probe" => toHost = <<>>
  /\ IF pc = "offer" THEN TryAgain(session, call)
                     ELSE End(session, call, "failed")
  /\ UNCHANGED <<hostAside, recovering, awaiting>>

\* the helper reports the link as broken; an accepted update outlives that
LinkFails ==
  /\ Receiving /\ ~linked
  /\ IF pc = "install" /\ session.accepted
       THEN /\ recovering' = TRUE
            /\ awaiting' = (awaiting \/ session.irreversible)
            /\ UNCHANGED <<pc, session, call, verdict>>
       ELSE End(session, call, "failed") /\ UNCHANGED <<recovering, awaiting>>
  /\ UNCHANGED hostAside

\* the probe after a link that broke, and those that wait for boot health
Probe ==
  /\ pc = "install" /\ linked /\ (recovering \/ awaiting)
  /\ recovering' = FALSE
  /\ Send(Line("ota_status"))
  /\ StillDevice
  /\ UNCHANGED <<toHost, cur, pc, tries, session, awaiting, call, history>>

\* the agent shuts down; it takes no further command
Shutdown ==
  /\ cur # 0 /\ pc \notin {"over", "stopped"}
  /\ pc' = "stopped" /\ call' = "no"
  /\ session' = [NewSession EXCEPT !.phase = "cancelled"]
  /\ verdict' = [verdict EXCEPT ![cur] = "stopped"]
  /\ UNCHANGED <<hostAside, recovering, awaiting>>

Host ==
  \/ Begin \/ Cancel \/ CancelTimesOut \/ CancelReturns \/ SendCancel
  \/ SendOffer \/ Receive \/ TimesOut \/ LinkFails \/ Probe \/ Shutdown

Device ==
  /\ DeviceStep(Serving, Offering)
  /\ UNCHANGED <<coordinator, history>>

SystemInit == Init /\ HostInit
SystemNext == Host \/ Device

Spec == SystemInit /\ [][SystemNext]_vars

(***************************************************************************)
(* Properties.                                                             *)
(***************************************************************************)
\* A signed offer starts at most one update while the device stays up,
\* however often its line arrives, whatever happened to the first one: the
\* ring remembers it (otaAuthorizationReplaySeen) or it has run out.
SignedOfferTakenOnce == \A s \in Sessions : taken[s] <= 1

\* cancel() refuses outright on "irreversible"; by then an image really was
\* chosen to start, one that no session was told the success of - even when
\* the statuses that said so were about an earlier session's update.
RefusedCancelIsLate ==
  session.irreversible /\ pc \notin {"over", "stopped"}
    => \E s \in installed : verdict[s] # "success"

Verdicts == {"open", "success", "failed", "cancelled", "stopped"}

Promise == INSTANCE UpdateReport WITH kept <- Kept

\* What the coordinator reports is what the device did: no success unless the
\* device keeps the version asked for, no image of a session after its cancel
\* was answered with "applied", and no report is taken back.
ImplementsReport == Promise!Spec
=============================================================================
