----------------------------- MODULE BootHealth -----------------------------
(***************************************************************************)
(* The boot-health supervisor of a freshly staged firmware image           *)
(* (firmware/src/ota_boot_health_logic.h and ota_boot_health.cpp) with the *)
(* callers main.cpp makes of it.                                           *)
(*                                                                         *)
(* Two FreeRTOS tasks share one supervisor record under a spinlock: the    *)
(* Arduino task that runs setup() and loop(), and a watchdog task that     *)
(* enforces the deadline when the first one blocks.  Each portENTER/EXIT   *)
(* section is one step; everything between two sections (reading millis(), *)
(* the flash calls, the retained record) is a step of its own, so the      *)
(* other task, the clock and a reset can come in between.                  *)
(*                                                                         *)
(* External, modelled from the way the code uses it: the bootloader with   *)
(* rollback enabled (an image found PENDING_VERIFY at a second boot is     *)
(* aborted), the two esp_ota_mark_* calls, RTC retained memory.            *)
(***************************************************************************)
EXTENDS Naturals

CONSTANTS
  Timeout,     \* OTA_BOOT_HEALTH_TIMEOUT_MS, in clock ticks
  MaxTime,     \* bound: the clock of one boot stops here
  MaxCrashes,  \* bound: resets nobody asked for (power, brownout, panic)
  BleBuilds    \* values of CODE_BUDDY_BLE_ENABLED to cover

ASSUME BootHealthAssumption ==
  /\ Timeout \in Nat \ {0}
  /\ MaxTime \in Nat /\ MaxTime >= Timeout
  /\ MaxCrashes \in Nat
  /\ BleBuilds \subseteq BOOLEAN /\ BleBuilds # {}

VARIABLES
  bleBuild,   \* the build this device runs; never changes
  slot,       \* image being executed: "target" (the staged one) or "fallback"
  img,        \* otadata state of the target: "pending", "valid" or "invalid"
  sup,        \* the supervisor record, OtaBootHealthState
  now,        \* millis() of this boot
  pc,         \* where each task is
  at,         \* each task's local: the millis() it passes to otaBootHealthPoll
  ret,        \* where the Arduino task goes on after the poll returns
  apiBack,    \* the rollback owner's local: the rollback API has returned
  rec,        \* retainedRollback, in RTC memory
  observed,   \* observedRollbackReason of this boot
  usbSeen,    \* otaBootReadyUsbDataSeen()
  crashes,    \* resets so far that nobody asked for
  healthy,    \* history: the checks that really passed in this boot
  lastHalt    \* history: the reason the last boot that got as far as arming
              \* halted for, or "none"

devVars == <<bleBuild, slot, img, usbSeen, crashes>>
histVars == <<healthy, lastHalt>>
recVars == <<rec, observed>>
taskVars == <<pc, at, ret, apiBack>>
vars == <<devVars, sup, now, taskVars, recVars, histVars>>

Task == {"loop", "watchdog"}

Bits == {"display", "storage", "buttons", "ble", "eventLoop"}
CheckReason == {"display", "storage", "buttons", "ble"}
Reasons == CheckReason \cup {"none", "layout", "timeout", "markValid", "supervisor"}
Phases == {"INERT", "QUERY_UNKNOWN", "MONITORING", "MARK_VALID", "VALID",
           "ROLLBACK", "HALTED"}

SupRecord == [phase : Phases, ready : SUBSET Bits, deadline : Nat,
              reason : Reasons, issued : BOOLEAN]

(***************************************************************************)
(* The program points of the Arduino task: setup() then loop() for ever.   *)
(* PollPoints call otaBootHealthPoll(millis()); After is the point that    *)
(* follows.                                                                *)
(***************************************************************************)
Probes == {"buttons", "bleStart", "display", "storage"}
PollPoints == {"buttonsPoll", "bleStartPoll", "displayPoll", "storagePoll",
               "setupEndPoll", "loopTop", "loopEndPoll"}
AppPoints == Probes \cup PollPoints \cup {"loopBle", "loopWork", "loopEnd"}

After ==
  [ buttons |-> "buttonsPoll",      buttonsPoll  |-> "bleStart",
    bleStart |-> "bleStartPoll",    bleStartPoll |-> "display",
    display |-> "displayPoll",      displayPoll  |-> "storage",
    storage |-> "storagePoll",      storagePoll  |-> "setupEndPoll",
    setupEndPoll |-> "loopTop",     loopTop      |-> "loopBle",
    loopBle |-> "loopWork",         loopWork     |-> "loopEnd",
    loopEnd |-> "loopEndPoll",      loopEndPoll  |-> "loopTop" ]

BitOf == [ buttons |-> "buttons", bleStart |-> "ble", display |-> "display",
           storage |-> "storage", loopBle |-> "ble" ]

OwnerPoints == {"clear", "body", "magic", "api", "delay"}
MarkPoints == {"marking", "marked", "unmarked"}
PollBody == {"claim", "suspended"} \cup MarkPoints
LoopPoints == {"observe", "arm", "spawn", "failPoll"} \cup AppPoints
                \cup PollBody \cup OwnerPoints
WatchdogPoints == {"off", "watch"} \cup PollBody \cup OwnerPoints
Returns == AppPoints \cup {"spawn"}

(***************************************************************************)
(* The supervisor's transitions: pure functions of the record.             *)
(***************************************************************************)
InitialSup ==
  [phase |-> "INERT", ready |-> {}, deadline |-> 0, reason |-> "none",
   issued |-> FALSE]

\* Mutant: the end-of-iteration bit is not asked for.
AllBitsNoEventLoop == {"display", "storage", "buttons"}
                        \cup (IF bleBuild \/ usbSeen THEN {"ble"} ELSE {})

\* otaBootReadyAllBits(): without BLE the bit is asked for only once a data
\* line has come in over USB.
AllBits == {"display", "storage", "buttons", "eventLoop"}
             \cup (IF bleBuild \/ usbSeen THEN {"ble"} ELSE {})

Arm(query, t, layoutValid) ==
  CASE query = "UNKNOWN" -> [InitialSup EXCEPT !.phase = "QUERY_UNKNOWN"]
    [] query = "NON_PENDING" -> InitialSup
    [] query = "PENDING_VERIFY" /\ layoutValid ->
         [InitialSup EXCEPT !.phase = "MONITORING", !.deadline = t + Timeout]
    [] OTHER ->
         [InitialSup EXCEPT !.phase = "ROLLBACK", !.deadline = t + Timeout,
                            !.reason = "layout"]

Signal(s, bit) ==
  IF s.phase = "MONITORING" THEN [s EXCEPT !.ready = @ \cup ({bit} \cap AllBits)]
                            ELSE s

\* Mutant: a failure counts in every phase, not only while monitoring.
FailAnyPhase(s, reason) ==
  [s EXCEPT !.phase = "ROLLBACK", !.reason = reason, !.issued = FALSE]

Fail(s, reason) ==
  IF s.phase = "MONITORING"
  THEN [s EXCEPT !.phase = "ROLLBACK", !.reason = reason, !.issued = FALSE]
  ELSE s

MarkValidResult(s, success) ==
  IF s.phase # "MARK_VALID" THEN s
  ELSE IF success THEN [s EXCEPT !.phase = "VALID"]
  ELSE [s EXCEPT !.phase = "ROLLBACK", !.reason = "markValid", !.issued = FALSE]

DeadlineReached(s, t) == t >= s.deadline

\* Expiry is looked at first, so it wins over readiness at the same instant.
AfterExpiry(s, t) ==
  IF s.phase = "MONITORING" /\ DeadlineReached(s, t)
  THEN [s EXCEPT !.phase = "ROLLBACK", !.reason = "timeout", !.issued = FALSE]
  ELSE s

ClaimsRollback(s, t) ==
  LET e == AfterExpiry(s, t) IN e.phase = "ROLLBACK" /\ ~e.issued

ClaimsMarkValid(s, t) ==
  /\ AfterExpiry(s, t).phase = "MONITORING"
  /\ AllBits \subseteq s.ready

\* Mutant: the latch is forgotten, only the transient phase stops a caller.
ExecutionAllowedAfterHalt(s) == s.phase # "ROLLBACK"

ExecutionAllowed(s) == s.phase \notin {"ROLLBACK", "HALTED"}

\* Mutant: the rollback is decided under the lock but not latched there.
ClaimActionUnlatched(s, t) ==
  IF ClaimsMarkValid(s, t) THEN [s EXCEPT !.phase = "MARK_VALID", !.issued = TRUE]
                           ELSE AfterExpiry(s, t)

\* otaBootHealthClaimAction: deciding to roll back and latching HALTED are one
\* step under the lock.
ClaimAction(s, t) ==
  CASE ClaimsRollback(s, t) ->
         [AfterExpiry(s, t) EXCEPT !.phase = "HALTED", !.issued = TRUE]
    [] ClaimsMarkValid(s, t) ->
         [s EXCEPT !.phase = "MARK_VALID", !.issued = TRUE]
    [] OTHER -> AfterExpiry(s, t)

(***************************************************************************)
(* Booting.                                                                *)
(***************************************************************************)
EmptyRecord == [magic |-> FALSE, reason |-> "none", err |-> FALSE]

RecordValid(r) == r.magic /\ r.reason # "none"

Init ==
  /\ bleBuild \in BleBuilds
  /\ slot = "target" /\ img \in {"pending", "valid"}
  /\ sup = InitialSup /\ now = 0
  /\ pc = [t \in Task |-> IF t = "loop" THEN "observe" ELSE "off"]
  /\ at = [t \in Task |-> 0]
  /\ ret = "spawn" /\ apiBack = FALSE
  /\ rec = EmptyRecord /\ observed = "none"
  /\ usbSeen = FALSE /\ crashes = 0
  /\ healthy = {} /\ lastHalt = "none"

\* RAM starts afresh, the retained record survives or is lost with the power,
\* and the bootloader picks the image: a pending one has had its chance.
Boot(otadata) ==
  /\ img' = IF otadata = "pending" THEN "invalid" ELSE otadata
  /\ slot' = IF otadata = "valid" THEN "target" ELSE "fallback"
  /\ sup' = InitialSup /\ now' = 0
  /\ pc' = [t \in Task |-> IF t = "loop" THEN "observe" ELSE "off"]
  /\ at' = [t \in Task |-> 0]
  /\ ret' = "spawn" /\ apiBack' = FALSE
  /\ rec' \in {rec, EmptyRecord} /\ observed' = "none"
  /\ usbSeen' = FALSE /\ healthy' = {}
  /\ lastHalt' = IF sup.phase = "HALTED" THEN sup.reason
                 ELSE IF pc["loop"] = "observe" THEN lastHalt ELSE "none"
  /\ UNCHANGED bleBuild

Crash ==
  /\ crashes < MaxCrashes
  /\ crashes' = crashes + 1
  /\ Boot(img)

(***************************************************************************)
(* otaBootHealthArmEarly                                                   *)
(***************************************************************************)
Go(t, point) == pc' = [pc EXCEPT ![t] = point]

\* Mutant: the record is read but its commit marker stays.
ObserveKeeping ==
  /\ pc["loop"] = "observe"
  /\ observed' = IF RecordValid(rec) THEN rec.reason ELSE "none"
  /\ at' = [at EXCEPT !["loop"] = now]
  /\ Go("loop", "arm")
  /\ UNCHANGED <<devVars, sup, now, ret, apiBack, rec, histVars>>

\* millis() is read first; then observeAndClearRetainedReason.
Observe ==
  /\ pc["loop"] = "observe"
  /\ observed' = IF RecordValid(rec) THEN rec.reason ELSE "none"
  /\ rec' = EmptyRecord
  /\ at' = [at EXCEPT !["loop"] = now]
  /\ Go("loop", "arm")
  /\ UNCHANGED <<devVars, sup, now, ret, apiBack, histVars>>

ArmEarly ==
  /\ pc["loop"] = "arm"
  /\ \E query \in {"UNKNOWN", IF slot = "target" /\ img = "pending"
                              THEN "PENDING_VERIFY" ELSE "NON_PENDING"},
        layoutValid \in BOOLEAN :
       sup' = Arm(query, at["loop"], layoutValid)
  /\ ret' = "spawn"
  /\ Go("loop", "claim")
  /\ UNCHANGED <<devVars, now, at, apiBack, recVars, histVars>>

\* The watchdog is created only for a monitored boot; without it the trial
\* fails at once.
SpawnWatchdog ==
  /\ pc["loop"] = "spawn"
  /\ \/ /\ sup.phase # "MONITORING"
        /\ Go("loop", "buttons")
        /\ UNCHANGED <<sup, ret>>
     \/ /\ sup.phase = "MONITORING"
        /\ pc' = [pc EXCEPT !["loop"] = "buttons", !["watchdog"] = "watch"]
        /\ UNCHANGED <<sup, ret>>
     \/ /\ sup.phase = "MONITORING"
        /\ sup' = Fail(sup, "supervisor")
        /\ ret' = "buttons"
        /\ Go("loop", "failPoll")
  /\ UNCHANGED <<devVars, now, at, apiBack, recVars, histVars>>

(***************************************************************************)
(* setup() and loop(): each check signals readiness, fails, or - the radio *)
(* only - has no answer yet.                                               *)
(***************************************************************************)
ProbePassed(p) ==
  /\ p \in {"bleStart", "loopBle"} /\ ~bleBuild => usbSeen
  /\ sup' = Signal(sup, BitOf[p])
  /\ healthy' = healthy \cup {BitOf[p]}
  /\ Go("loop", After[p])
  /\ UNCHANGED ret

\* otaBootHealthCriticalFailure: records the reason, then polls.
ProbeFailed(p) ==
  /\ p \in {"bleStart", "loopBle"} => bleBuild
  /\ sup' = Fail(sup, BitOf[p])
  /\ ret' = After[p]
  /\ Go("loop", "failPoll")
  /\ UNCHANGED healthy

ProbeNoAnswer(p) ==
  /\ p \in {"bleStart", "loopBle"}
  /\ ~bleBuild => ~usbSeen
  /\ Go("loop", After[p])
  /\ UNCHANGED <<sup, ret, healthy>>

Probe ==
  /\ pc["loop"] \in Probes \cup {"loopBle"}
  /\ ProbePassed(pc["loop"]) \/ ProbeFailed(pc["loop"]) \/ ProbeNoAnswer(pc["loop"])
  /\ UNCHANGED <<devVars, now, at, apiBack, recVars, lastHalt>>

\* The event/render iteration; a data line over USB may come in.
LoopWork ==
  /\ pc["loop"] = "loopWork"
  /\ usbSeen' \in {usbSeen, TRUE}
  /\ Go("loop", "loopEnd")
  /\ UNCHANGED <<bleBuild, slot, img, crashes, sup, now, at, ret, apiBack,
                 recVars, histVars>>

LoopEnd ==
  /\ pc["loop"] = "loopEnd"
  /\ sup' = Signal(sup, "eventLoop")
  /\ healthy' = healthy \cup {"eventLoop"}
  /\ Go("loop", "loopEndPoll")
  /\ UNCHANGED <<devVars, now, at, ret, apiBack, recVars, lastHalt>>

\* Reads millis() and calls otaBootHealthPoll; a delay may follow the reading.
StartPoll ==
  /\ pc["loop"] \in PollPoints \cup {"failPoll"}
  /\ at' = [at EXCEPT !["loop"] = now]
  /\ ret' = IF pc["loop"] = "failPoll" THEN ret ELSE After[pc["loop"]]
  /\ Go("loop", "claim")
  /\ UNCHANGED <<devVars, sup, now, apiBack, recVars, histVars>>

(***************************************************************************)
(* bootHealthWatchdogTask: one turn of its for loop.  Its clock reading     *)
(* follows the section that reads the phase, but the poll decides again.   *)
(***************************************************************************)
\* Mutant: the task ends at the deadline instead of polling.
WatchAndLeave ==
  /\ pc["watchdog"] = "watch"
  /\ sup.phase # "MONITORING" \/ DeadlineReached(sup, now)
  /\ Go("watchdog", "off")
  /\ UNCHANGED <<devVars, sup, now, at, ret, apiBack, recVars, histVars>>

Watch ==
  /\ pc["watchdog"] = "watch"
  /\ \/ /\ sup.phase # "MONITORING"
        /\ Go("watchdog", "off")
        /\ UNCHANGED at
     \/ /\ sup.phase = "MONITORING" /\ DeadlineReached(sup, now)
        /\ at' = [at EXCEPT !["watchdog"] = now]
        /\ Go("watchdog", "claim")
  /\ UNCHANGED <<devVars, sup, now, ret, apiBack, recVars, histVars>>

(***************************************************************************)
(* otaBootHealthPoll, by either task.                                      *)
(***************************************************************************)
\* A caller that is neither the owner of a rollback nor allowed to go on
\* suspends itself.
ReturnPoint(t, s) == IF ~ExecutionAllowed(s) THEN "suspended"
                     ELSE IF t = "loop" THEN ret ELSE "off"

\* First critical section.
Claim(t) ==
  /\ pc[t] = "claim"
  /\ sup' = ClaimAction(sup, at[t])
  /\ \/ ClaimsRollback(sup, at[t]) /\ Go(t, "clear")
     \/ ClaimsMarkValid(sup, at[t]) /\ Go(t, "marking")
     \/ /\ ~ClaimsRollback(sup, at[t]) /\ ~ClaimsMarkValid(sup, at[t])
        /\ Go(t, ReturnPoint(t, sup'))
  /\ UNCHANGED <<devVars, now, at, ret, apiBack, recVars, histVars>>

\* esp_ota_mark_app_valid_cancel_rollback, outside the lock.
MarkValid(t) ==
  /\ pc[t] = "marking"
  /\ \/ img' = "valid" /\ Go(t, "marked")
     \/ img' = img /\ Go(t, "unmarked")
  /\ UNCHANGED <<bleBuild, slot, usbSeen, crashes, sup, now, at, ret, apiBack,
                 recVars, histVars>>

\* Second critical section.
MarkResult(t) ==
  /\ pc[t] \in {"marked", "unmarked"}
  /\ LET s == MarkValidResult(sup, pc[t] = "marked")
     IN /\ sup' = ClaimAction(s, at[t])
        /\ Go(t, IF ClaimsRollback(s, at[t]) THEN "clear"
                 ELSE ReturnPoint(t, sup'))
  /\ UNCHANGED <<devVars, now, at, ret, apiBack, recVars, histVars>>

(***************************************************************************)
(* performRollback: retain the reason, mark invalid and reboot; if that    *)
(* returns, retain its error and restart.                                  *)
(***************************************************************************)
RetainClear(t) ==
  /\ pc[t] = "clear"
  /\ rec' = [rec EXCEPT !.magic = FALSE]
  /\ Go(t, "body")
  /\ UNCHANGED <<devVars, sup, now, at, ret, apiBack, observed, histVars>>

\* Mutant: the record is filled from the wrong field of the supervisor.
RetainBodyPhase(t) ==
  /\ pc[t] = "body"
  /\ rec' = [rec EXCEPT !.reason = sup.phase, !.err = apiBack]
  /\ Go(t, "magic")
  /\ UNCHANGED <<devVars, sup, now, at, ret, apiBack, observed, histVars>>

RetainBody(t) ==
  /\ pc[t] = "body"
  /\ rec' = [rec EXCEPT !.reason = sup.reason, !.err = apiBack]
  /\ Go(t, "magic")
  /\ UNCHANGED <<devVars, sup, now, at, ret, apiBack, observed, histVars>>

RetainMagic(t) ==
  /\ pc[t] = "magic"
  /\ rec' = [rec EXCEPT !.magic = TRUE]
  /\ Go(t, IF apiBack THEN "delay" ELSE "api")
  /\ UNCHANGED <<devVars, sup, now, at, ret, apiBack, observed, histVars>>

\* esp_ota_mark_app_invalid_rollback_and_reboot returns only on failure.
RollbackReturns(t) ==
  /\ pc[t] = "api"
  /\ apiBack' = TRUE
  /\ Go(t, "clear")
  /\ UNCHANGED <<devVars, sup, now, at, ret, recVars, histVars>>

RollbackReboots(t) ==
  /\ pc[t] = "api"
  /\ Boot("invalid")
  /\ UNCHANGED crashes

\* boundedDelay and esp_restart.
Restart(t) ==
  /\ pc[t] = "delay"
  /\ Boot(img)
  /\ UNCHANGED crashes

\* Bounded; a boot arms early enough for its deadline to lie in the bound.
Tick ==
  /\ now < MaxTime
  /\ pc["loop"] \in {"observe", "arm"} => now + Timeout < MaxTime
  /\ now' = now + 1
  /\ UNCHANGED <<devVars, sup, taskVars, recVars, histVars>>

(***************************************************************************)

Poll(t) == Claim(t) \/ MarkValid(t) \/ MarkResult(t)

Rollback(t) == \/ RetainClear(t) \/ RetainBody(t) \/ RetainMagic(t)
               \/ RollbackReturns(t) \/ RollbackReboots(t) \/ Restart(t)

ArduinoTask == Observe \/ ArmEarly \/ SpawnWatchdog \/ Probe \/ LoopWork
                 \/ LoopEnd \/ StartPoll

Next == \/ ArduinoTask \/ Watch \/ Tick \/ Crash
        \/ \E t \in Task : Poll(t) \/ Rollback(t)

\* The scheduler runs both tasks and time passes, but a check or an iteration
\* of the loop (Probe, LoopWork, LoopEnd) may block for ever: the watchdog is
\* there for that.
Fairness ==
  /\ WF_vars(Tick) /\ WF_vars(Watch)
  /\ WF_vars(Observe \/ ArmEarly \/ SpawnWatchdog \/ StartPoll)
  /\ \A t \in Task : WF_vars(Poll(t)) /\ WF_vars(Rollback(t))

Spec == Init /\ [][Next]_vars

FairSpec == Spec /\ Fairness

(***************************************************************************)
(* Properties.                                                             *)
(***************************************************************************)

\* Every variable stays in its range; a task is only at points of its own code.
TypeOK ==
  /\ bleBuild \in BOOLEAN
  /\ slot \in {"target", "fallback"}
  /\ img \in {"pending", "valid", "invalid"}
  /\ sup \in SupRecord
  /\ now \in Nat
  /\ pc \in [Task -> LoopPoints \cup WatchdogPoints]
  /\ pc["loop"] \in LoopPoints /\ pc["watchdog"] \in WatchdogPoints
  /\ at \in [Task -> Nat]
  /\ ret \in Returns
  /\ apiBack \in BOOLEAN
  /\ rec \in [magic : BOOLEAN, reason : Reasons, err : BOOLEAN]
  /\ observed \in Reasons
  /\ usbSeen \in BOOLEAN
  /\ crashes \in Nat
  /\ healthy \subseteq Bits
  /\ lastHalt \in Reasons

\* At most one task carries out a rollback, and none confirms the image
\* meanwhile: performRollback and markValid never overlap, in either task.
OneVerdictOwner ==
  \A t, u \in Task :
    /\ pc[t] \in OwnerPoints
    /\ pc[u] \in OwnerPoints \cup MarkPoints
    => t = u

Required == {"display", "storage", "buttons", "eventLoop"}
              \cup (IF bleBuild \/ usbSeen THEN {"ble"} ELSE {})

\* The image is confirmed only in a boot where the display, the storage, the
\* buttons and one whole iteration of loop() have really been seen healthy, and
\* with them the link: the radio in a build that has one, and in a no-BLE build
\* the USB line as soon as one data line has come in over it, even when that
\* happens between two polls.  In a no-BLE build, the default one, an image no
\* line ever came in for is confirmed all the same: ConfirmedOnlyWhenConnected.
ConfirmedOnlyWhenHealthy ==
  [][img' = "valid" /\ img # "valid" => Required \subseteq healthy]_vars

\* Once HALTED is latched nothing in this boot changes the supervisor any
\* more, and the Arduino task never gets back from a poll to the program.
HaltIsFinal ==
  [][sup.phase = "HALTED" =>
       /\ sup' = sup \/ pc'["loop"] = "observe"
       /\ ~(pc["loop"] \in PollBody /\ pc'["loop"] \in Returns)]_vars

\* A rollback reason reported after a boot is the one the last boot that armed
\* its supervisor halted for: never a half-written record, never one of an
\* older rollback.
ObservedReasonIsGenuine == observed # "none" => observed = lastHalt

\* The device as an image under trial.
Verdict == CASE img = "pending" -> "trial"
             [] img = "valid" -> "confirmed"
             [] img = "invalid" -> "rejected"

Trial == INSTANCE ImageTrial WITH verdict <- Verdict, running <- slot

\* The supervisor, the two tasks, the bootloader and any reset between two
\* steps together give the staged image one trial with one final verdict.
ImplementsTrial == Trial!Spec

\* A monitored image is in the end confirmed or rejected, even when setup()
\* or loop() hangs for ever.
NewImageSettles == sup.phase = "MONITORING" ~> img \in {"valid", "invalid"}

\* ota_boot_health_logic.h: "In a no-BLE build the OTA "boot ready" BLE bit is
\* satisfied instead by a live USB data line observed this boot": the image is
\* confirmed only in a boot that has seen its link up.
ConfirmedOnlyWhenConnected ==
  [][img' = "valid" /\ img # "valid" => "ble" \in healthy]_vars
=============================================================================
