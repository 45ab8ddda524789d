------------------------------ MODULE OtaDevice -----------------------------
(***************************************************************************)
(* The device's end of a firmware update that a host coordinates: offer    *)
(* lines and the ring of remembered authorizations (data.h,                *)
(* ota_manifest_logic.h, ota_authorization_logic.h), the policy that arms  *)
(* an update (ota_policy_logic.h), and the statuses that name a session    *)
(* (ota_status.cpp).                                                       *)
(*                                                                         *)
(* The update itself is the machine of OtaUpdate, here by the phases that  *)
(* statuses tell apart.  What comes in between two polls - a prompt, a     *)
(* button, a menu, a deadline, a lost link - is an action of its own.      *)
(*                                                                         *)
(* Data: a session number stands for an offer's nonce and generation, and  *)
(* target[s] for its version; power, conflicts, the clock and signatures   *)
(* are right or wrong; percentages are left out.                           *)
(***************************************************************************)
EXTENDS Naturals, Sequences

CONSTANTS
  Sessions,     \* bound: the sessions a host begins, 1 .. N
  Versions,     \* firmware versions, ordered
  Plans,        \* bound: what the device runs first and the sessions ask for
  MaxTroubles,  \* bound: how many of the things that go wrong
  ReplaySlots,  \* OTA_AUTHORIZATION_REPLAY_SLOTS
  LineRoom      \* bound: statuses on their way to the host

ASSUME OtaDeviceAssumption ==
  /\ Sessions \subseteq Nat \ {0} /\ Versions \subseteq Nat
  /\ Plans \subseteq
       [first : Versions, target : [Sessions -> Versions], direct : BOOLEAN]
  /\ MaxTroubles \in Nat
  /\ ReplaySlots \in Nat \ {0} /\ LineRoom \in Nat \ {0}

VARIABLES
  linked,    \* bleConnected(), and the host's view of it
  toDev,     \* the line on its way to the device, if any
  toHost,    \* statuses on their way to the host
  target,    \* the version each session installs
  direct,    \* settings().autoOta
  troubles,  \* what went wrong so far: links, lines, resets, refusals
  late,      \* the sessions whose authorization has run out
  dev,       \* the firmware that runs, the one before it, and its boot health
  offer,     \* tama.otaOffer
  ring,      \* _otaAuthorizationReplay.entries: a session or 0 in each slot
  nextSlot,  \* _otaAuthorizationReplay.nextSlot
  bound,     \* activeNonce, activeGeneration: a session or 0
  cadence,   \* the phase of the last status that was limited, or "none"
  up,        \* the update: otaUpdateView
  taken,     \* history: how often each signed offer was consumed since boot
  installed  \* history: the sessions whose image was chosen to start

link == <<linked, toDev, toHost>>
receiver == <<offer, ring, nextSlot, bound, cadence>>
deviceVars ==
  <<link, target, direct, troubles, late, dev, receiver, up, taken, installed>>

\* otaOfferReset
NoOffer == [pending |-> FALSE, window |-> FALSE, signed |-> FALSE, id |-> 0]

NoUpdate == [active |-> FALSE, phase |-> "confirm", auto |-> FALSE,
             id |-> 0, cancelReq |-> FALSE]

Cancellable == {"confirm", "accepted", "readback"}
Terminal == {"cancelled", "error"}

Init ==
  /\ linked = TRUE /\ toDev = <<>> /\ toHost = <<>>
  /\ \E plan \in Plans :
       /\ target = plan.target /\ direct = plan.direct
       /\ dev = [fw |-> plan.first, prev |-> plan.first, health |-> "ordinary"]
  /\ troubles = 0 /\ late = {}
  /\ offer = NoOffer /\ ring = [i \in 0..ReplaySlots - 1 |-> 0]
  /\ nextSlot = 0 /\ bound = 0 /\ cadence = "none"
  /\ up = NoUpdate
  /\ taken = [s \in Sessions |-> 0] /\ installed = {}

Trouble == troubles < MaxTroubles /\ troubles' = troubles + 1

\* FALSE is trouble
Fine(condition) == IF condition THEN UNCHANGED troubles ELSE Trouble

(***************************************************************************)
(* Statuses.                                                               *)
(***************************************************************************)
Put(queue, line) ==
  IF linked /\ Len(queue) < LineRoom THEN Append(queue, line) ELSE queue

Status(id, phase, applied) ==
  [to |-> id, phase |-> phase, version |-> dev.fw, health |-> dev.health,
   applied |-> applied]

\* writeStatus, held back while the phase has not changed
WriteOnChange(id, phase, applied, seen) ==
  /\ toHost' = IF id # 0 /\ phase # seen
                 THEN Put(toHost, Status(id, phase, applied)) ELSE toHost
  /\ cadence' = IF id # 0 THEN phase ELSE cadence
  /\ bound' = id

\* phaseForView
ViewPhase(u) ==
  CASE u.phase = "confirm" -> IF u.auto THEN "accepted" ELSE "await-confirm"
    [] u.phase = "committed" -> "boot-committed"
    [] OTHER -> u.phase

(***************************************************************************)
(* Offer lines.                                                            *)
(***************************************************************************)
\* otaOfferAcceptBoundHint into the record o; clear: no prompt, transfer or
\* Wi-Fi setup is in the way and there is power
AcceptHint(o, id, clear) ==
  IF o.window /\ linked /\ clear /\ target[id] > dev.fw
    THEN [o EXCEPT !.pending = TRUE, !.id = id]
    ELSE NoOffer

\* otaStatusBindOffer, or otaStatusReject when the sender may be told
Answer(id, result, report) ==
  /\ offer' = result
  /\ CASE result.pending -> WriteOnChange(id, "offer-received", FALSE, "none")
       [] ~result.pending /\ report ->
            /\ toHost' = Put(toHost, Status(id, "rejected", FALSE))
            /\ UNCHANGED <<bound, cadence>>
       [] OTHER -> UNCHANGED <<toHost, bound, cadence>>

LegacyOffer(id) == \E clear \in BOOLEAN :
  /\ Fine(clear)
  /\ Answer(id, AcceptHint(offer, id, clear), TRUE)
  /\ UNCHANGED <<ring, nextSlot>>

Fresh(r) == [i \in DOMAIN r |-> IF r[i] \in late THEN 0 ELSE r[i]]

\* otaAuthorizationReplaySeen
ReplaySeen(id) == \E i \in DOMAIN ring : Fresh(ring)[i] = id

\* A mutant: the ring moves on and the session is not written down.
RememberNothing(id) ==
  /\ ring' = Fresh(ring)
  /\ nextSlot' = (nextSlot + 1) % ReplaySlots

\* otaAuthorizationRemember
Remember(id) ==
  /\ ring' = [Fresh(ring) EXCEPT ![nextSlot] = id]
  /\ nextSlot' = (nextSlot + 1) % ReplaySlots

\* otaAuthorizationVerifyThenAccept: the shared offer is reset before the
\* authorization is looked at; a verified one opens a window of its own.
SignedOffer(id) == \E genuine, clear \in BOOLEAN :
  /\ Fine(genuine /\ clear)
  /\ IF genuine /\ id \notin late /\ ~ReplaySeen(id)
       THEN /\ Remember(id)
            /\ Answer(id, AcceptHint([NoOffer EXCEPT !.window = TRUE,
                                      !.signed = TRUE], id, clear), TRUE)
       ELSE /\ ring' = IF genuine /\ id \notin late THEN Fresh(ring) ELSE ring
            /\ Answer(id, NoOffer, FALSE)
            /\ UNCHANGED nextSlot

OfferLine(line) ==
  /\ line.cmd = "offer"
  /\ IF line.signed THEN SignedOffer(line.id) ELSE LegacyOffer(line.id)
  /\ UNCHANGED up

\* otaStatusReplyRunning
ProbeLine(line) ==
  /\ line.cmd = "ota_status"
  /\ toHost' = Put(toHost, Status(line.id,
       IF dev.health = "monitoring" THEN "boot-health" ELSE "running", FALSE))
  /\ UNCHANGED <<receiver, up, troubles>>

CancelTaken ==
  up.active /\ up.phase \in Cancellable /\ ~up.cancelReq

\* otaStatusCancel
CancelLine(line) ==
  /\ line.cmd = "ota_cancel"
  /\ IF line.id # bound
       THEN UNCHANGED <<toHost, bound, cadence, up>>
       ELSE IF CancelTaken
         THEN /\ up' = [up EXCEPT !.cancelReq = TRUE]
              /\ WriteOnChange(bound, "cancelled", TRUE, cadence)
         ELSE /\ toHost' = Put(toHost, Status(bound, ViewPhase(up), FALSE))
              /\ UNCHANGED <<bound, cadence, up>>
  /\ UNCHANGED <<offer, ring, nextSlot, troubles>>

ReadLine ==
  /\ toDev # <<>>
  /\ \/ OfferLine(Head(toDev))
     \/ ProbeLine(Head(toDev))
     \/ CancelLine(Head(toDev))
  /\ toDev' = Tail(toDev)
  /\ UNCHANGED <<linked, target, direct, late, dev, taken, installed>>

(***************************************************************************)
(* What happens beside the lines.                                          *)
(***************************************************************************)
aside ==
  <<link, target, direct, late, dev, ring, nextSlot, bound, cadence, taken,
    installed>>

\* otaOfferOpenReceiveWindow, from the settings panel
OpenWindow ==
  /\ ~up.active
  /\ offer' = [NoOffer EXCEPT !.window = TRUE]
  /\ UNCHANGED <<aside, up, troubles>>

\* otaOfferLifecyclePoll: a deadline, a conflict or a lost link
Revoke ==
  /\ Trouble /\ offer.window
  /\ offer' = NoOffer
  /\ UNCHANGED <<aside, up>>

\* a prompt or the B button: otaUpdateCancel; the shared offer goes with a
\* prompt, and with B outside an update
Interrupt ==
  /\ Trouble /\ (up.active \/ offer.window)
  /\ up' = [up EXCEPT !.cancelReq = @ \/ CancelTaken]
  /\ \/ offer' = NoOffer
     \/ up.active /\ offer' = offer
  /\ UNCHANGED aside

\* An authorization lives for two minutes, long after the last copy of its
\* offer is sent; only those the ring remembers are of interest.
Expire(s, offering) ==
  /\ Trouble /\ s \notin late /\ s # offering
  /\ \E i \in DOMAIN ring : ring[i] = s
  /\ late' = late \cup {s}
  /\ UNCHANGED <<link, target, direct, dev, receiver, up, taken, installed>>

(***************************************************************************)
(* otaUpdatePoll with the otaStatusPoll behind it.                         *)
(***************************************************************************)
Enter(u, o) ==
  /\ up' = u
  \* cleanupTerminal resets the shared offer, whichever that is by now
  /\ offer' = IF u.phase \in Terminal THEN NoOffer ELSE o
  /\ IF bound = 0 THEN UNCHANGED <<toHost, bound, cadence>>
                  ELSE WriteOnChange(bound, ViewPhase(u), FALSE, cadence)
  /\ UNCHANGED <<linked, toDev, target, direct, late, dev, ring, nextSlot>>

Consume(u) ==
  /\ Enter([u EXCEPT !.phase = "accepted", !.id = offer.id,
                     !.cancelReq = FALSE], NoOffer)
  /\ taken' = IF offer.signed THEN [taken EXCEPT ![offer.id] = @ + 1]
                              ELSE taken
  /\ UNCHANGED installed

Stop(phase) ==
  /\ Enter([NoUpdate EXCEPT !.active = TRUE, !.phase = phase], offer)
  /\ UNCHANGED <<taken, installed>>

\* arm; a direct update is let in by the same poll
Arm == \E clear \in BOOLEAN :
  LET auto == offer.signed /\ direct
      u == [NoUpdate EXCEPT !.active = TRUE, !.auto = auto]
  IN  /\ ~up.active /\ offer.pending
      /\ CASE auto /\ clear /\ linked -> Consume(u)
           [] auto /\ ~(clear /\ linked) -> Stop("cancelled")
           [] ~auto -> Enter(u, offer) /\ UNCHANGED <<taken, installed>>
      /\ Fine(clear)

Running == up.active /\ up.phase \notin Terminal \cup {"committed"}

Cancelled ==
  Running /\ up.cancelReq /\ Stop("cancelled") /\ UNCHANGED troubles

\* the A button
Confirm ==
  /\ Running /\ ~up.cancelReq /\ up.phase = "confirm"
  /\ offer.pending /\ linked
  /\ Consume(up) /\ UNCHANGED troubles

\* The offer is gone or the link is lost while the update needs them, or
\* anything else goes wrong: power, Wi-Fi, the manifest, the flash.
Fail ==
  /\ Running /\ ~up.cancelReq
  /\ IF up.phase = "confirm" /\ ~(offer.pending /\ linked)
       THEN UNCHANGED troubles ELSE Trouble
  /\ \E phase \in Terminal : Stop(phase)

\* A stage is done.  Fetching needs the session's server; it takes far longer
\* than the host needs to read the statuses it was sent.
Advance(serving) ==
  /\ Running /\ ~up.cancelReq
  /\ \/ /\ up.phase = "accepted"
        /\ serving = up.id /\ toHost = <<>>
        /\ Enter([up EXCEPT !.phase = "readback"], offer)
        /\ UNCHANGED installed
     \/ /\ up.phase = "readback"
        /\ Enter([up EXCEPT !.phase = "committed"], NoOffer)
        /\ installed' = installed \cup {up.id}
  /\ UNCHANGED <<taken, troubles>>

\* a poll that changes nothing still reports, to the session bound by now
StatusPoll ==
  /\ up.active /\ bound # 0 /\ ViewPhase(up) # cadence
  /\ WriteOnChange(bound, ViewPhase(up), FALSE, cadence)
  /\ UNCHANGED <<linked, toDev, target, direct, troubles, late, dev, offer,
                 ring, nextSlot, up, taken, installed>>

Leave ==
  /\ up.active /\ up.phase \in Terminal
  /\ up' = [up EXCEPT !.active = FALSE]
  /\ UNCHANGED <<aside, offer, troubles>>

Poll(serving) ==
  \/ Arm \/ Cancelled \/ Confirm \/ Fail \/ Advance(serving)
  \/ StatusPoll \/ Leave

(***************************************************************************)
(* Restarts, and the boot health of BootHealth.                            *)
(***************************************************************************)
\* A link that breaks takes the line to the device with it.  Statuses that the
\* host has queued (NativeBleHelperSession) outlive the link, others do not.
Severed == toDev' = <<>> /\ toHost' \in {toHost, <<>>}

Reboot(d) ==
  /\ dev' = d
  /\ linked' = FALSE /\ Severed
  /\ offer' = NoOffer /\ ring' = [i \in DOMAIN ring |-> 0] /\ nextSlot' = 0
  /\ bound' = 0 /\ cadence' = "none" /\ up' = NoUpdate
  /\ taken' = [s \in Sessions |-> 0]
  /\ UNCHANGED <<target, direct, late, installed>>

Kept == IF dev.health = "monitoring" THEN dev.prev ELSE dev.fw

\* esp_restart after the boot slot is chosen, or a reset at any time
Restart ==
  IF up.active /\ up.phase = "committed"
    THEN /\ Reboot([fw |-> target[up.id], prev |-> Kept,
                    health |-> "monitoring"])
         /\ UNCHANGED troubles
    ELSE /\ Trouble
         /\ IF dev.health = "monitoring"
              THEN Reboot([fw |-> dev.prev, prev |-> dev.prev,
                           health |-> "rollback"])
              ELSE Reboot([dev EXCEPT !.health = "ordinary"])

\* the image on trial proves itself
Confirmed ==
  /\ dev.health = "monitoring"
  /\ dev' = [dev EXCEPT !.health = "valid", !.prev = dev.fw]
  /\ UNCHANGED <<link, target, direct, troubles, late, receiver, up, taken,
                 installed>>

(***************************************************************************)
(* The link between the two.                                               *)
(***************************************************************************)
Unlink ==
  /\ linked /\ Trouble
  /\ linked' = FALSE /\ Severed
  /\ UNCHANGED <<target, direct, late, dev, receiver, up, taken, installed>>

Relink ==
  /\ ~linked /\ linked' = TRUE
  /\ UNCHANGED <<toDev, toHost, target, direct, troubles, late, dev, receiver,
                 up, taken, installed>>

Lose ==
  /\ Trouble
  /\ \/ toDev # <<>> /\ toDev' = Tail(toDev) /\ UNCHANGED toHost
     \/ toHost # <<>> /\ toHost' = Tail(toHost) /\ UNCHANGED toDev
  /\ UNCHANGED <<linked, target, direct, late, dev, receiver, up, taken,
                 installed>>

DeviceStep(serving, offering) ==
  \/ ReadLine \/ OpenWindow \/ Revoke \/ Interrupt
  \/ Poll(serving) \/ Restart \/ Confirmed
  \/ Unlink \/ Relink \/ Lose
  \/ \E s \in Sessions : Expire(s, offering)
=============================================================================
