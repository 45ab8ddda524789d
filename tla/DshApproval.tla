---------------------------- MODULE DshApproval ----------------------------
(***************************************************************************)
(* Approving tool calls on the device: the dsh plugin (approval.ts,        *)
(* index.ts, the prompt and waiting part of bridge.ts, the writing side of *)
(* cdc.ts) and the firmware that shows the prompt (data.h, main.cpp).      *)
(*                                                                         *)
(* The plugin is single-threaded: a hook, a timer callback or a received   *)
(* line runs to its end, and everything it sends on the way is part of the *)
(* same step.  What is concurrent is the device, the serial line in both   *)
(* directions, the timers, several tool calls at once and the USB cable.   *)
(***************************************************************************)
EXTENDS Naturals, Sequences, FiniteSets

CONSTANTS
  Calls,     \* tool calls, by their callId
  None,      \* no prompt, no line
  MaxWire,   \* bound: lines on the way in each direction
  MaxDrops   \* bound: how often the cable is pulled

ASSUME DshApprovalAssumption ==
  /\ None \notin Calls
  /\ IsFiniteSet(Calls)
  /\ MaxWire \in Nat \ {0}
  /\ MaxDrops \in Nat

VARIABLES
  tool,       \* what the configured patterns say of each call's tool
  stage,      \* how far each call is
  argCache,   \* calls whose arguments preExecuteHook has cached
  pending,    \* ApprovalBridge.pending
  outcome,    \* what the promise of a taken-over request resolved to
  prompt,     \* BridgeState.prompt, by its id
  waiting,    \* BridgeState.waiting
  sync,       \* how long ago lastTimeSyncMs was: the next flush carries the
              \* time ("due"); none since ("sent"); a heartbeat since ("beat"),
              \* and its line is written ("rest")
  connected,  \* CdcBridge.connected
  line,       \* CdcBridge.pendingLine: the latest snapshot, or None
  writeTimer, \* CdcBridge.writeTimer is armed
  down,       \* heartbeats on the way to the device
  up,         \* permission commands on the way to the plugin
  shown,      \* tama.promptId
  lastShown,  \* lastPromptId
  responseSent,
  drops,      \* cable pulls so far
  pressed     \* history: the decisions really taken on the device

callVars == <<tool, stage, argCache, pending, outcome>>
hbVars == <<prompt, waiting, sync>>
cdcVars == <<connected, line, writeTimer, down, drops>>
deviceVars == <<shown, lastShown, responseSent, pressed>>
vars == <<callVars, hbVars, cdcVars, up, deviceVars>>

Decision == {"once", "deny"}

\* Of a heartbeat, what the prompt on the screen depends on.
Snapshot == [prompt : Calls \cup {None}, time : BOOLEAN]
Command == [id : Calls, decision : Decision]

\* Mutant: the device's word is handed on as it is.
OutcomeUnmapped == [once |-> "once", deny |-> "deny"]

\* decisionToOutcome
OutcomeOf == [once |-> "allowed-once", deny |-> "rejected"]

Init ==
  /\ tool \in [Calls -> {"dangerous", "excluded", "other"}]
  /\ stage = [c \in Calls |-> "new"]
  /\ argCache = {} /\ pending = {}
  /\ outcome = [c \in Calls |-> "none"]
  /\ prompt = None /\ waiting = 0 /\ sync = "due"
  /\ connected = FALSE /\ line = None /\ writeTimer = FALSE
  /\ down = <<>> /\ up = <<>>
  /\ shown = None /\ lastShown = None /\ responseSent = FALSE
  /\ drops = 0 /\ pressed = {}

(***************************************************************************)
(* buildHeartbeat: a flush carries the time when timeSyncIntervalMs have   *)
(* passed since one did, whether or not the line is then sent.             *)
(***************************************************************************)
\* Mutant: every heartbeat carries the time.
FlushUnthrottled(p) == [prompt |-> p, time |-> TRUE]

Flush(p) == [prompt |-> p, time |-> sync = "due"]

\* The second flush of the same step.
FlushAgain(p) == [prompt |-> p, time |-> FALSE]

Flushed == sync' = IF sync = "due" THEN "sent" ELSE sync

(***************************************************************************)
(* CdcBridge.send on an open port: inside the 60 ms window only the latest *)
(* snapshot is kept for the timer; outside it the first one goes out now   *)
(* and a second one of the same step waits.                                *)
(***************************************************************************)
Coalesce(snap) ==
  /\ line' = snap /\ writeTimer' = TRUE
  /\ UNCHANGED down

WriteOne(snap) ==
  \/ Coalesce(snap)
  \/ /\ ~writeTimer /\ Len(down) < MaxWire
     /\ down' = Append(down, snap)
     /\ line' = None
     /\ UNCHANGED writeTimer

\* Several flushes in one step: only the first can go out at once.
WriteMany(first, last) ==
  \/ Coalesce(last)
  \/ /\ ~writeTimer /\ Len(down) < MaxWire
     /\ down' = Append(down, first)
     /\ line' = last /\ writeTimer' = TRUE

\* Nothing is kept for a port that is not open.
Send(write) == IF connected THEN write ELSE UNCHANGED <<line, writeTimer, down>>

(***************************************************************************)
(* The approval hooks.                                                     *)
(***************************************************************************)

\* A matching tool is asked about; another one, or one whose agent or callId
\* is missing, is passed on.
PreExecute(c) ==
  /\ stage[c] = "new"
  /\ \/ /\ tool[c] \in {"dangerous", "excluded"}
        /\ argCache' = argCache \cup {c}
        /\ stage' = [stage EXCEPT ![c] = "asked"]
     \/ /\ stage' = [stage EXCEPT ![c] = "passed"]
        /\ UNCHANGED argCache
  /\ UNCHANGED <<tool, pending, outcome, hbVars, cdcVars, up, deviceVars>>

\* Mutant: the list of tools left to the Web UI is not consulted.
TakesOverExcluded(c) == connected

TakesOver(c) == tool[c] # "excluded" /\ connected

\* approvalRequestHook without taking over: next() decides.
FallThrough(c) ==
  /\ stage[c] \in {"asked", "passed"}
  /\ ~TakesOver(c)
  /\ argCache' = argCache \ {c}
  /\ stage' = [stage EXCEPT ![c] = "webui"]
  /\ UNCHANGED <<tool, pending, outcome, hbVars, cdcVars, up, deviceVars>>

\* approvalRequestHook taking over; a request another policy made for an
\* unmatched tool is taken over too.  setWaiting flushes, then showPrompt
\* sets the one prompt and a waiting count of 1, and flushes.
TakeOver(c) ==
  /\ stage[c] \in {"asked", "passed"}
  /\ TakesOver(c)
  /\ argCache' = argCache \ {c}
  /\ stage' = [stage EXCEPT ![c] = "device"]
  /\ pending' = pending \cup {c}
  /\ prompt' = c /\ waiting' = 1
  /\ Send(WriteMany(Flush(prompt), FlushAgain(c)))
  /\ Flushed
  /\ UNCHANGED <<tool, outcome, connected, drops, up, deviceVars>>

\* Mutant: settling forgets clearPrompt.
SettleKeepingPrompt(cs, result) ==
  /\ pending' = pending \ cs
  /\ outcome' = [c \in Calls |-> IF c \in cs THEN result ELSE outcome[c]]
  /\ waiting' = Cardinality(pending')
  /\ Send(WriteOne(Flush(prompt)))
  /\ Flushed
  /\ UNCHANGED <<tool, stage, argCache, prompt, connected, drops>>

\* settle() of the calls cs: clearPrompt drops whatever prompt is set and
\* flushes, then setWaiting counts what is left and flushes.
Settle(cs, result) ==
  /\ pending' = pending \ cs
  /\ outcome' = [c \in Calls |-> IF c \in cs THEN result ELSE outcome[c]]
  /\ prompt' = None
  /\ waiting' = Cardinality(pending')
  /\ Send(WriteMany(Flush(None), FlushAgain(None)))
  /\ Flushed
  /\ UNCHANGED <<tool, stage, argCache, connected, drops>>

\* Mutant: an approval whose device has gone keeps no timer.
TimeoutOnline(c) ==
  /\ c \in pending /\ connected
  /\ Settle({c}, "cancelled")
  /\ UNCHANGED <<up, deviceVars>>

\* Mutant: the timer of a call runs on after the call is settled.
TimeoutUncleared(c) ==
  /\ stage[c] = "device"
  /\ Settle({c}, "cancelled")
  /\ UNCHANGED <<up, deviceVars>>

Timeout(c) ==
  /\ c \in pending
  /\ Settle({c}, "cancelled")
  /\ UNCHANGED <<up, deviceVars>>

\* Mutant: a decision is applied to what is on the screen now, whatever id it
\* names.
OnPermissionForScreen ==
  /\ up # <<>>
  /\ up' = Tail(up)
  /\ IF prompt \in pending
     THEN Settle({prompt}, OutcomeOf[Head(up).decision])
     ELSE UNCHANGED <<callVars, hbVars, cdcVars>>
  /\ UNCHANGED deviceVars

\* onDeviceCommand: an answer for a call that is no longer pending is ignored.
OnPermission ==
  /\ up # <<>>
  /\ up' = Tail(up)
  /\ IF Head(up).id \in pending
     THEN Settle({Head(up).id}, OutcomeOf[Head(up).decision])
     ELSE UNCHANGED <<callVars, hbVars, cdcVars>>
  /\ UNCHANGED deviceVars

\* onDeviceUnpair cancels every pending call.
OnUnpair ==
  /\ connected /\ pending # {}
  /\ Settle(pending, "cancelled")
  /\ UNCHANGED <<up, deviceVars>>

(***************************************************************************)
(* The heartbeat timer, the write timer and the cable.                     *)
(***************************************************************************)

\* EventBridge.flush, every heartbeatIntervalMs.
Heartbeat ==
  /\ Send(WriteOne(Flush(prompt)))
  /\ sync' = CASE sync = "due" -> "sent" [] sync = "sent" -> "beat" [] OTHER -> sync
  /\ UNCHANGED <<callVars, prompt, waiting, connected, drops, up, deviceVars>>

\* timeSyncIntervalMs go by.  They are more than one heartbeatIntervalMs and the
\* 60 ms of the write timer (by default 60 s to 3 s): before the time is due
\* again, a heartbeat without it is made and written.
TimePasses ==
  /\ \/ sync = "beat" /\ ~writeTimer /\ sync' = "rest"
     \/ sync = "rest" /\ sync' = "due"
  /\ UNCHANGED <<callVars, prompt, waiting, cdcVars, up, deviceVars>>

\* flushWrite from the timer: the line is dropped when the port has closed.
WriteTimer ==
  /\ writeTimer
  /\ connected /\ line # None => Len(down) < MaxWire
  /\ down' = IF connected /\ line # None THEN Append(down, line) ELSE down
  /\ writeTimer' = FALSE /\ line' = None
  /\ UNCHANGED <<callVars, hbVars, connected, drops, up, deviceVars>>

\* The port opens and a full snapshot is sent at once.
Connect ==
  /\ ~connected
  /\ connected' = TRUE
  /\ WriteOne(Flush(prompt))
  /\ Flushed
  /\ UNCHANGED <<callVars, prompt, waiting, drops, up, deviceVars>>

\* What was on the line is lost; pending approvals stay as they are.
Disconnect ==
  /\ connected /\ drops < MaxDrops
  /\ connected' = FALSE /\ drops' = drops + 1
  /\ down' = <<>> /\ up' = <<>>
  /\ UNCHANGED <<callVars, hbVars, line, writeTimer, deviceVars>>

(***************************************************************************)
(* The firmware.                                                           *)
(***************************************************************************)

\* _applyJson returns from a line with the time before it comes to the prompt:
\* of the first n lines, line i is the last that says what to show (0: none does).
SaysWhatToShow(i, n) ==
  /\ i # 0 => ~down[i].time
  /\ \A j \in (i + 1)..n : down[j].time

\* One pass of loop(): dataPoll applies every complete line, a heartbeat
\* without a prompt clearing it; then the arrival of another id re-arms the
\* buttons.
DeviceReads ==
  /\ \E n \in 1..Len(down) : \E i \in 0..n :
       /\ SaysWhatToShow(i, n)
       /\ shown' = IF i = 0 THEN shown ELSE down[i].prompt
       /\ down' = SubSeq(down, n + 1, Len(down))
  /\ lastShown' = shown'
  /\ responseSent' = (responseSent /\ shown' = lastShown)
  /\ UNCHANGED <<callVars, hbVars, connected, line, writeTimer, drops, up, pressed>>

\* approvePendingPrompt, denyPendingPrompt.  The screen and the buttons stay
\* armed without a host; what is sent then is lost.
DevicePress(d) ==
  /\ shown # None /\ ~responseSent
  /\ connected => Len(up) < MaxWire
  /\ up' = IF connected THEN Append(up, [id |-> shown, decision |-> d]) ELSE up
  /\ responseSent' = TRUE
  /\ pressed' = pressed \cup {[id |-> shown, decision |-> d]}
  /\ UNCHANGED <<callVars, hbVars, cdcVars, shown, lastShown>>

DeviceReboot ==
  /\ ~connected
  /\ shown' = None /\ lastShown' = None /\ responseSent' = FALSE
  /\ UNCHANGED <<callVars, hbVars, cdcVars, up, pressed>>

(***************************************************************************)

Hook(c) == PreExecute(c) \/ FallThrough(c) \/ TakeOver(c)

Device == DeviceReads \/ DeviceReboot \/ \E d \in Decision : DevicePress(d)

Next == \/ \E c \in Calls : Hook(c) \/ Timeout(c)
        \/ OnPermission \/ OnUnpair
        \/ Heartbeat \/ TimePasses \/ WriteTimer \/ Connect \/ Disconnect
        \/ Device

\* Timers fire, the device keeps polling its serial line.  Nothing says that
\* a button is pressed, that a cable is plugged in, or that a tool is called.
Fairness ==
  /\ \A c \in Calls : WF_vars(Timeout(c))
  /\ WF_vars(OnPermission) /\ WF_vars(WriteTimer) /\ WF_vars(DeviceReads)
  /\ WF_vars(Heartbeat)

Spec == Init /\ [][Next]_vars

FairSpec == Spec /\ Fairness

(***************************************************************************)
(* Properties.                                                             *)
(***************************************************************************)

\* Every variable stays in its range.
TypeOK ==
  /\ tool \in [Calls -> {"dangerous", "excluded", "other"}]
  /\ stage \in [Calls -> {"new", "asked", "passed", "device", "webui"}]
  /\ argCache \subseteq Calls /\ pending \subseteq Calls
  /\ outcome \in [Calls -> {"none", "allowed-once", "rejected", "cancelled"}]
  /\ prompt \in Calls \cup {None} /\ waiting \in Nat
  /\ sync \in {"due", "sent", "beat", "rest"}
  /\ connected \in BOOLEAN /\ line \in Snapshot \cup {None}
  /\ writeTimer \in BOOLEAN
  /\ down \in Seq(Snapshot) /\ up \in Seq(Command)
  /\ shown \in Calls \cup {None} /\ lastShown \in Calls \cup {None}
  /\ responseSent \in BOOLEAN
  /\ drops \in Nat /\ pressed \subseteq Command

\* A tool runs, or is refused, only because that decision was taken on the
\* device while that very call was on its screen: late answers, several
\* prompts, a pulled cable and repeated heartbeats never decide for another
\* call.
DecidedOnTheDevice ==
  \A c \in Calls :
    /\ outcome[c] = "allowed-once" => [id |-> c, decision |-> "once"] \in pressed
    /\ outcome[c] = "rejected" => [id |-> c, decision |-> "deny"] \in pressed

\* A tool on the Web UI's list is never decided by the plugin.
ExcludedLeftToWebUI ==
  \A c \in Calls : tool[c] = "excluded" => c \notin pending /\ outcome[c] = "none"

\* The heartbeat never carries the prompt of a call that is settled, and the
\* device is told that something waits whenever it carries a prompt.
PromptIsPending == prompt # None => prompt \in pending /\ waiting > 0

\* An approval settles once: a timeout racing a late answer, or an unpair, is
\* never followed by a second outcome.
SettledForGood ==
  [][\A c \in Calls : outcome[c] # "none" => outcome'[c] = outcome[c]]_vars

\* Whatever the device and the cable do, a request taken over is answered.
TakeoverSettles ==
  \A c \in Calls : stage[c] = "device" ~> outcome[c] # "none"

\* A prompt nobody waits for does not stay on the screen of a connected device,
\* although lines are merged or dropped and one that carries the time changes
\* nothing on it.
StalePromptLeaves ==
  shown # None /\ pending = {}
    ~> shown = None \/ pending # {} \/ ~connected

\* index.ts: "Route it through the heartbeat state machine so every flush
\* re-carries it until settled."
PromptCarriedUntilSettled == pending # {} => prompt # None
=============================================================================
