# Code Buddy: specifications, model checking and proofs

Code Buddy is a desk companion for coding agents: an M5 StickS3 that shows what
the agent does, asks for approvals with two buttons, and installs its own
firmware over the air. The repository has three programs:

- `firmware/`: the device (C++, ESP32-S3, Arduino core);
- `dsh-hardware-buddy/`: a plugin of the dsh agent runtime (TypeScript), which
  talks to the device over USB serial;
- `src/codex_buddy/`: a macOS agent for Codex (Python and a Swift helper), which
  talks over BLE to the device it was written for, and serves firmware images.

The programs do not all meet at this commit. The firmware reads lines from USB
serial only (`data.h:421`; nothing feeds `_btLine`), writes its commands there only
(`main.cpp:236-238`), and its default build has no BLE (`platformio.ini:21`). So the
plugin and the device of this repository are modelled together (3.2), while the
agent is modelled against a BLE peer that is external (3.4), and the update
models (3.3, 3.6) are of a device built with BLE that an agent can reach: the
default build hands every offer on as "not connected", which refuses it
(`data.h:171-176`, 221-226).

## 1. Inventory

### 1.1 Components

| Component | State | Operations | Correct when |
|---|---|---|---|
| boot-health supervisor (`ota_boot_health*`) | phase, deadline, readiness bits, reason; retained rollback record; otadata state of the slot | arm, ready, critical failure, poll, watchdog task, rollback, restart | one verdict per trial, by one task; confirmed only with every signal that counts at that moment; a given-up image never runs on; a reported reason is real; every trial ends |
| firmware update (`ota_update*`, `ota_policy_logic.h`) | machine phase and counters, runtime copy of the offer, request, flash session, otadata | arm, confirm, cancel, one phase or one chunk per poll, cleanup, restart | only a whole, signed, admitted image is started; an applied cancel holds; no session leaks; a prompt stops it; it ends |
| offers and authorization (`ota_manifest*`, `ota_authorization_logic.h`) | shared offer with window and deadline, replay ring of four | open window, accept legacy or signed offer, lifecycle poll, consume | an offer is used once, fresh, and only as what it was accepted as |
| status and cancel (`ota_status*`) | nonce and generation of the last offer, cadence | bind, report, cancel, reply to a probe | a status or a cancel speaks of the update it names |
| plugin approvals (`approval.ts`, `index.ts`) | pending map, argument cache, one prompt slot, waiting count | pre-execute, approval request, button, timer, unpair | each approval settled once, by a real decision; prompts shown are live, live prompts are shown |
| serial link (`cdc.ts`) | port, pending line, write timer, retry timer | start, stop, discover, open, close, send, flush | latest snapshot wins; at most one port; reconnects until stopped |
| event bridge (`bridge.ts`, `context.ts`, `protocol.ts`) | counters, message, prompt, time throttle | agent events, interval, flush | counters never run backwards, one-shot fields reach the device, lines with a time do not hide a prompt for good |
| line receiver (`data.h`) | line buffer, last snapshot, trust of the source | feed, apply, poll | a malformed or foreign line changes nothing; a line with a time sets the clock only |
| main loop (`main.cpp`) | screen, prompt answered flag, menus, surface drawn last | loop, buttons, gestures | a press answers the prompt on the screen; a pass leaves nothing of an earlier screen but what a known lapse does; lines stay in their frames |
| pets (`buddy.cpp`, `buddies/`, `character.cpp`) | species, tick, scale, clearing strip; GIF player | draw, next species, peek, load a character | each drawing is cleared whole by the next; no frame table is read past its end |
| statistics (`stats.h`) | tokens, level, last total of the host, dirty flag; keys in flash | report, decision, save, restart | no token counts twice, less than a level is lost |
| character transfer (`xfer.h`) | open file, expected and written bytes | begin, file, chunk, end, commands | never during an update; sizes agree |
| meter, chime, clock (`usage_meter_logic.h`, `token_heartbeat_logic.h`, `completion_chime_logic.h`, `trusted_time_logic.h`) | last values and times | observe, poll | the bars are those of the last good report; one chime per completion, no trust in an old clock |
| Wi-Fi (`wifi_*`) | state machine, two credential slots, portal | connect, retry, provision, commit | a torn credential write keeps the old one; prompts suspend the portal |
| approval proxy (`proxy.py`) | pending requests, approved turns, upstream | forward both ways, device answer, auto-accept, either end closing | one decision per request reaches the server |
| sessions (`agent.py`, `catalog.py`, `reducer.py`) | runtimes, catalog, request maps, dedupe ring | events, close, device permission, publish | the one prompt shown is answerable and belongs to its session |
| BLE transport (`ble_transport.py`, Swift helper) | sequence to future map, notification queue of 64 | request, notify, restart of the helper | each request gets its own answer or fails |
| update coordinator (`ota_coordination.py`, `ota_protocol.py`) | session phase, cancel future, nonce | probe, offer, follow, cancel, reconnect | it reports what the device did |
| release, trust, server (`ota_release.py`, `ota_trust.py`, `ota_server.py`) | files, keys, one-time server | build, sign, serve | one image, one token, for a limited time |
| watchers and usage monitors | offsets, windows | poll | no turn counted twice |

### 1.2 How they interact

- Agent hook -> plugin approval -> one prompt slot -> heartbeat line -> device
  screen -> `permission` line -> plugin. The line is state, not an event: a
  snapshot without the prompt takes it off the screen; a snapshot that carries
  the time as well is read for the time only.
- Host -> `ota_offer` line -> shared offer of the device -> `otaUpdatePoll`,
  which copies it -> HTTPS from the host's server -> flash -> otadata -> reset ->
  boot-health trial of the new image. The last step joins the two firmware
  models: `OtaUpdate` ends where `BootHealth` starts.
- Coordinator -> `ota_status` probe, `offer`, `ota_cancel` lines -> device;
  device -> statuses by nonce -> coordinator. Both ends keep state about the other
  that a lost line, a broken link or a reset makes wrong.
- Prompts, menus and transfers are inputs of every poll of an update. A prompt
  that arrives also cancels the update and drops the shared offer.

### 1.3 What is hard

Two tasks with one lock and a call outside it (boot health); resets between any
two writes; one slot for many approvals; lines lost, merged and delayed; buttons
pressed for what has changed since; a machine advanced by polls with arbitrary
input between them; cleanup on every way out; statuses of one update that arrive
while another runs; surfaces that are cleared only where the code thinks of it;
keys put into flash one after the other. `PROJECT.json` lists each hazard
with its line and the properties that would catch it going wrong.

## 2. Plan

In order of what matters most to a user of the device:

1. `ImageTrial` <- `BootHealth`: one verdict for an image on trial. *Done,
   checked and proved.*
2. `DshApproval`: the approvals of the plugin with the link and the device.
   *Done, checked and proved.*
3. `OtaInstall` <- `OtaUpdate`: installing an image. *Done,
   checked and proved.*
4. `ManagedSessions`: many sessions of the macOS agent, one prompt on one
   device. *Done, checked and proved.*
5. `CodexApproval` <- `CodexProxy`: answers that race for a request inside one
   session. *Done, checked and proved.*
6. `UpdateReport` <- `OtaSystem`, on top of `OtaDevice`: an update seen from both
   ends, the coordinator on the host and the device, over a link that loses lines;
   the replay ring, legacy and signed offers, statuses, retries and cancels by nonce.
   *Done, checked and proved, the refinement too.*
7. The parts of the firmware that keep to themselves: `BuddyPoses` <- `BuddyStage`
   (the pet), `DeviceScreens` (what a pass draws), `ScreenPages` <- `UsageMeter` (where
   it puts it), `DeviceStats` (progress), `WifiManager` (network and credentials),
   together in `DeviceParts`. *Done, checked and proved.*
8. `BleHelper` and `CdcLink`: requests and connections with a peer that dies. *Open.*
9. `HostBeat` (completion numbers, chime, clock, milestones) and `Transfer` (the
   chunks of a character). *Open.*

Theorems to come: each BLE request is answered at most once (`BleHelper`), and at
most one open port (`CdcLink`).

## 3. Models

### 3.1 BootHealth and ImageTrial

Two threads, each with a program counter: the Arduino task (`setup()`, then
`loop()`) and the watchdog task. A step is what happens between two points where the
other task, or a reset, can be noticed: a critical section is one step, the calls
between two critical sections are steps of their own, and each group of writes to
the retained record that the code separates with a barrier is a step. `Poll(t)` with
its parts `Claim`, `MarkValid`, `MarkResult` is `otaBootHealthPoll`; `Rollback(t)`
is `performRollback`, including the second record and the restart when the call
comes back. A task reads the clock before it enters the poll (`StartPoll`, kept in
`at`) and may be held up in between. `Boot` is the bootloader with rollback enabled,
and `Crash` a reset at any moment; RTC memory survives it with whatever had been
written.

Correspondence: `sup` is `OtaBootHealthState`, `rec` the retained record, `img` the
otadata state of the image in `slot`, `usbSeen` is `otaBootReadyUsbDataSeen()`; `pc`,
`at`, `ret` and `apiBack` are what a task has in its registers. Each readiness signal
of `setup()` is a `Probe` that passes, fails or does not answer. `AllBits` is
evaluated when a task claims, as in the code, where the bit of the link is required
of a build without BLE only after a line was seen. Deadlines are counted in ticks.

`ImageTrial` is the promise: an image on trial is confirmed or rejected, once.
`BootHealth` is shown to implement it.

### 3.2 DshApproval

Each tool call goes `PreExecute` -> approval request -> `TakeOver` or `FallThrough`
-> settled by `OnPermission`, `Timeout` or `OnUnpair`. `Settle` is the whole
`settle()` closure with the two callbacks of `index.ts`, each of which flushes a
heartbeat; `Send` follows `CdcBridge.send` through its coalescing window: a write
now, a write later, or a drop when the cable is out. A flush of `bridge.ts` carries
the time when the last that did is long enough ago (`Flush`, `sync`), and such a
line is read by the firmware for its time only: the function that applies it returns
before it looks at the prompt (`data.h:254-284`, `SaysWhatToShow`). The wire has two
directions; the device reads snapshots (`DeviceReads`) and sends commands
(`DevicePress`), including gestures, which take the same path. `DeviceReboot` and
`Disconnect` may happen at any time; the number of pulled cables is bounded by
`MaxDrops`, lines in flight by `MaxWire`.

`TimePasses` makes a flush carry the time again once a heartbeat has been sent
without it and its line written: the interval of the time lines is taken to be
longer than that of the heartbeats plus the coalescing window, as the defaults are
(60 s and 3 s). `config.ts` has no lower bound for it; see 4.4 for what a shorter one
does.

### 3.3 OtaUpdate and OtaInstall

The firmware runs this code in one task, so a received line, a button and a call
of `otaUpdatePoll` are one step each, and between two polls anything may come: an
offer, a prompt, a menu, a lost link, a deadline, a reset. `Poll(in)` is
`otaUpdatePoll`: `ArmAsking`, `ArmDirect` and `NothingToArm` when it is
inactive, `Linger` when an update is over, otherwise `Run`, which takes the
pending confirm and cancel, moves the shared offer into the runtime and makes
one `otaUpdateStep`. Every phase of the machine is an action (`Open_Manifest`
to `SetBoot`); `otaAction`'s part in a phase is in the same action. `End` is a
failure or a cancel with the cleanup that follows in the same poll.

Correspondence: `offer` is `tama.otaOffer`, `priv` and the variables of `txn` and
`work` are `OtaRuntime`, `m` is `OtaUpdateMachine`, `req` the HTTPS request,
`staging`, `flash` and `bootTo` the flash, `granted` and `cancelled` history of the
present update. Lengths are in blocks. A release stands for all an offer names.
`Input` is what `main.cpp` hands to a poll, with "busy" split by what the lifecycle
poll of the shared offer looks at ("work") and what it does not ("screen").

The model is of a build with BLE (`BleBuild = TRUE` in the runs, any value in the
proofs). Without it `Acceptable` is FALSE, no offer gets in, and nothing of this
starts; see 4.4.

Two simplifications are worth knowing. A deadline is a flag, `timeUp`, which
may be raised in any phase that has one; the idle and the absolute deadline of a
request are the same flag. The nonce that a cancel has to name is left out: a
cancel that names another offer is answered with nothing, so it is a stutter.

`OtaInstall` is the promise: a release is let in, the device only starts what is
let in at that moment, and what is chosen stays.

### 3.4 ManagedSessions

The agent is one asyncio loop, so every event is one step up to its first await,
and the sends to the device, the only awaits that matter here, keep their order.
What happens at once is the sessions themselves (each with an app server and a
TUI of its own), the log watcher, the updater, the link and the user.

Correspondence: `runtime` is `_managed_runtime`, `sessions` and `reqSession` the
two maps of `SessionCatalog`, `reqControl` is `_request_to_control`, `lastPayload`
is `_last_payload`. `Recorded` is what every event does with the catalog before
and after its own part, `Apply` an event with it and the publishing, `Resolved`
the one event that does it twice. `Publish` is `_publish_state`: the payload
counts as sent before it is, and a lost link is either connected again by the
transport or given up (`Transmit`). `request` condenses the proxy of a session
to whether it still takes an answer; what is behind that is the next section.
`SessionCloses` is `_handle_managed_close`, after which the proxy has no upstream.
`OnPermission` is `_handle_device_permission` with the proxy's decision.

The peer at the other end of the link is external, and no model of this
repository's firmware, which does not use BLE (1). `PeerReads` and `PeerPress` are
what `ble_transport.py` and the protocol's description let one expect of it: it
shows the last snapshot that reached it, and a press names the prompt that it
shows, once. The properties about presses hold for any such peer, and
`PeerIsToldAnew` is about what the agent sends.

Simplifications: of the four states of a session, running, recent and completed
are one ("other"), since nothing told about prompts depends on them; either
button is a press; counters, ages and texts are left out; `by` in a record, a
snapshot and a command stands for the tool and the hint that tell a user which
session asks; an app server numbers its requests upwards (`NextId`). A runtime
has room for one prompt, as in the code. A press that is lost with the link
leaves the buttons of the peer latched until another prompt arrives.

### 3.5 CodexProxy and CodexApproval

One connection of one session. Three kinds of tasks change places at every
await: one reads from the server (`TakesRequest`, `TakesResolved`,
`TakesCompleted`, then, after its awaits, `ForwardsToTui`), one from the TUI
(`ForwardsAnswer`), and one for each decision of the device (`DeviceAnswers`).
`Decide` is what all three do before their first await: set the flag
"resolved", note the turn, queue for `_forward_lock`. `outbox` is that queue, its
head the holder (asyncio's lock is first come, first served), and `Writes` the
write under the lock. `toProxy`, `toServer` and `fromTui` are the sockets.
There are three ways to end. `TuiQuits` is an orderly close by the TUI, after which
the upstream stays until the next message for it. `ServerCloses` is one by the
server: the loop over its messages ends without an error, `gather` waits for the
other one, and `_upstream` stays set, so a decision of the device still sets the
flag, and then its send raises in a task of its own (`WriteFails`); the connection
is over when the TUI sends something or leaves (`ClientLeaves`). `ConnectionLost`
is a break of either side, which ends everything that was under way (`GiveUp`).
`HandsErrorOn` is a JSON-RPC error reply of the TUI, which has no "result" and so is
handed on unchecked and without setting the flag (`proxy.py:197-199`).
The server and the TUI are external.

Simplifications: one TUI connects to a proxy; any result of the TUI but "accept"
counts as "decline"; the requests that a TUI may answer by an error are a constant
(`Refusable`), the check in the run and any set in the proofs; `stop()`, which
clears what no task reads any more, is left out.

`CodexApproval` is the promise: a request is decided once, by a user, or it is a
read-only check that is accepted unasked after a user has accepted a changing
command of the same turn.

### 3.6 OtaSystem, OtaDevice and UpdateReport

`OtaDevice` is the device as the host sees it: `offer` is `tama.otaOffer`, `ring`
and `nextSlot` the replay ring, `up` the update, `dev` what runs, what ran before,
and the boot health it reports; it is a device built with BLE (1). An update is the
machine of `OtaUpdate` (3.3) condensed to the phases that statuses tell apart. A
session number stands for nonce and generation. `Severed` is what happens to the two
directions when the link breaks: the line to the device is gone, statuses already
queued on the host may still be read.

`OtaSystem` adds the coordinator: `pc` says at which await `run()` is ("probe",
"send", "offer", "install"; "over" after its end, "stopped" after a shutdown),
`session` is `OtaAgentSession`, `recovering` and `awaiting` its two local flags,
`call` the agent's cancel command in its own task, which waits twice
(`CancelTimesOut`, `CancelReturns`). Every timeout may come at any moment of its
wait. `verdict` and `calledOff` are history: how each session ended, and which
cancels were answered with success.

Simplifications: percentages are left out and the download phase is one with
"accepted"; an update does not go on before the host has read its statuses; the host
awaits each line until it is read; the agent serves one cancel at a time, as in its
control loop, and nothing after a shutdown; the wait of 15 seconds for a probe ends
only when no status is under way; an authorization runs out only while it is in the
ring and not being offered. What goes wrong (a lost line, a broken link, a reset, a
refusal, a timeout) is bounded by `MaxTroubles`.

`UpdateReport` is the promise: a success is reported only of a version the device
keeps, a session that was called off is never installed, a report stands.

### 3.7 The device's own parts

*The pet.* `BuddyPoses` holds the poses of every species and `BuddyStage` the strip
that `buddyRenderTo` clears before it draws. `trail` is the ink of earlier drawings
outside the strip. The tick starts over at `Ticks`, which is more than the code
does; a drawing is a function of the tick alone, so nothing is missed. Activity
changes every `Hold` ticks.

*What is on the screen.* `DeviceScreens` follows one pass of `loop()`: data, keys,
drawing. `view` is what is painted, layer by layer; only a fill or a wipe takes a
layer away. Whether the sessions and the clock ask for a face, and for which, is
read anew in every pass, as in the code. Of button A a hold and a release are steps;
`spentA` says that its press has already done what it does (`btnALong`,
`swallowBtnA`), and the pass of the press itself, which does nothing unless it wakes
the screen, is not one. Menus are opened and closed, not walked row by row; the Wi-Fi portal,
restart and power-off from a menu, and the rotation of GIFs are left out. Four
lapses of the code leave something behind (section 4.4). All four happen in the
model, with everything that follows from them; `view.known` remembers which have
left traces that are not wiped yet, so that a property can say what each may
leave and for how long. `MaxLapses` is a bound on how many are there at once: one in
the run, any number in the proof.

*Where it is.* A page of `ScreenPages` is a list of frames with the boxes of their
lines, by the sizes of the texts; `Short` says which texts the layout has room for.
`UsageMeter` is the meter below: `usage` is what was reported, `cache` its
`UsageMeterRenderState`, `ink` the bars on the display, `inset` the room the page
was drawn with. The surface is filled and the cache reset at every change of page,
so one cache stands for three; the colours of the dots are left out, and so is
that an inset is drawn only while the host is connected (`main.cpp:334`): the host
of this model is.

*Progress.* `DeviceStats` follows a token from the host's running total through
`_stats` to the two keys in flash, put one after the other (`unsaved`), with
restarts of either side anywhere; `earned` and `credited` are history.

*Wi-Fi.* `WifiManager` has the hotspot and its form, the attempt, the saved network
and every single `put` of a commit or a rollback (`writes`), one of which may fail,
or be the last before a reset. A form is whole and valid; time from the network and
the scan are left out. A driver call takes effect at once, and this hides one
behaviour: a poll handles a form first (`wifi_manager.cpp:410`) and looks at
`WiFi.status()` after that (426), so a form that comes in the very poll in which the
attempt before it has connected begins a new attempt, and if the driver still
reports the old link the new pair is saved without having been tried.
`CredentialsWhole` says nothing of that.

`DeviceParts` is the disjoint union of the five: `part` says which one a behaviour
follows. Nothing that is modelled here is shared between them, so what one may do
is what it may do alone; the union only saves four runs of TLC. It extends
`DeviceStats` and `WifiManager` and makes instances of the others; parts that are
not followed keep an initial state.

### 3.8 What is external

The bootloader, otadata, `esp_ota_*`, SHA-256, `esp_restart`, RTC memory, the serial
port, the BLE link, the dsh runtime, the HTTPS server, the Wi-Fi driver, preferences
in flash, and Codex's app server and TUI are modelled from the way the code uses
them; `PROJECT.json` marks these definitions external.

## 4. Checks

| Run | Instance | States | Shows |
|---|---|---|---|
| `boot_health` | deadline 2 ticks, clock to 3, 2 resets, both builds | 1.05 M | safety, refinement of `ImageTrial`, every trial ends |
| `boot_health_unseen` | same | - | violated: `ConfirmedOnlyWhenConnected` |
| `dsh_approval` | 2 calls, 2 lines in flight, 1 pulled cable | 527,712 | safety, outcomes final, every taken-over approval settles, stale prompts leave |
| `dsh_prompt_lost` | same | - | violated: `PromptCarriedUntilSettled` |
| `ota_update` | 2 releases, 3 blocks in chunks of at most 2, 2 restart attempts, 10 inputs | 100,039 | safety, refinement of `OtaInstall`, updates end, a commit restarts |
| `ota_displayed` | same | - | violated: `ConfirmedIsDisplayed` |
| `managed_sessions` | 2 sessions, 2 threads, 3 requests, 1 line in flight each way, 1 lost link | 203,897 | safety, presses reach their session and are taken, what was lost is sent again |
| `sessions_shared_ids` | both sessions use one id | - | violated: `PressReachesItsSession` |
| `codex_proxy` | 1 turn with a changing command and a check, the check also answered by errors | 740,435 | safety, refinement of `CodexApproval`, decisions arrive |
| `ota_system` | 2 sessions, versions 1 to 3, 3 plans, 1 trouble, ring of 1, 2 statuses under way, 2 tries | 1.84 M | safety of offers and cancels, refinement of `UpdateReport` |
| `device_parts` | every species and pose, one sideways orientation, names at and beyond each limit, 14 tokens in levels of 3, 2 networks, traces of 1 lapse at once | 1.04 M | nothing left behind but by a named lapse, everything in place, progress and credentials survive resets |
| `screens_leftovers` | same | - | violated: `NothingLeftBetweenModes` |

Why the bounds are enough. *Boot health*: the code compares times with the deadline
only, so before, at and after it are all the cases, and two ticks let a task sleep
from one to the other; the first reset can cut the writing of a record, the second
the boot that reads it. *Approvals*: every interference in the code is between the
call at hand and one other; the coalescing window holds one line and the wire two,
so a line can be overtaken and merged; one pulled cable separates the two sides, and
what was not sent stays unsent; a line with a time may be any one that the interval
allows. *Update*: two releases tell "this one" from "another"; three blocks in
chunks of at most two give full, partial and last chunks in every order; the inputs
are all fine or one thing wrong, and under the Direct policy the two in which arming
goes another way; a poll looks at one after the other, so a second wrong thing is
never reached. Resets in `OtaUpdate` are unbounded. *Sessions*: a prompt is hidden
exactly when a second session asks; one session has two requests, so that one
replaces another; both work on a common thread, so that one overwrites the record of
the other; the watcher finds that thread too; a line on each way is enough for a
press and a snapshot to cross. *Proxy*: an automatic acceptance takes one changing
command and one check; the queues are not bounded, the requests bound them; an error
reply goes the same way for every request, so one that may get one is enough.
Deadlock is not checked there: a connection may end for good. *Both ends of an
update*: a second session is what statuses, offers and cancels of the first can be
mistaken for, and a third would only be another second; the plans start below and at
the first version that takes signed offers, under both policies, with equal and with
different targets; two tries make a repeated offer; one trouble already makes the
two ends disagree (two were checked as well, on an earlier form of the link). The
ring of the device has four slots, which two sessions cannot fill, so the run has a
ring of one: the second signed offer takes the place of the first; the proof covers
every size. Deadlock is not checked: after the last session, or a shutdown, nothing
has to happen. *The device's parts*: 200 ticks are the longest cycle of any species,
and a change of activity every 20 meets each pose; the pages have texts just as long
as there is room for, longer and shorter, and the reports valid, at both ends and
out of range; levels wrap after four, and a message carries up to more than a level;
two networks, each with a password of its own, give all right and wrong pairs. One
lapse at a time shows what each one leaves on every kind of surface and how it is
wiped; the screens alone were checked with all four at once as well (1,335,724
states, no error), and the proof has no bound. The two moods of the pet are
interchangeable (`SYMMETRY`). Deadlock is not checked: tokens run out.

### 4.1 The properties

- `OneVerdictOwner`, `HaltIsFinal`, `ObservedReasonIsGenuine`, `ImplementsTrial`,
  `NewImageSettles`: section 3.1. `ConfirmedOnlyWhenHealthy`: every signal that the
  code requires at the moment of the confirmation was given. Without BLE the line
  over USB is among them only once a line was seen, so this is less than the
  comments of the code say: `ConfirmedOnlyWhenConnected` says that, and is violated.
- `DecidedOnTheDevice`: an approval is allowed or rejected only by a press made
  for that call. `ExcludedLeftToWebUI`: tools the configuration excludes are never
  decided here. `PromptIsPending`: what the slot shows still waits.
  `SettledForGood`, `TakeoverSettles`, `StalePromptLeaves`: an outcome is final,
  comes, and its prompt leaves the screen of a connected device.
- `BootedImageIsWhole`: complete, as signed, as read back, as let in.
  `AppliedCancelHolds`: what was answered "applied" never commits.
  `NoSessionLeft`: an open `esp_ota` session belongs to a running update that can
  close it. `PromptStopsInstall`: no write and no switch while a prompt waits.
  `UpdateEnds`, `CommittedRestarts`.
- `PromptCanBeAnswered`: the prompt of a snapshot is the latest of a session that
  is still there, its id leads back to it, and it is not settled.
  `PressReachesItsSession`: a press, however late, decides only for the session
  whose prompt was on the screen. `PressIsTaken`: it is not lost on the host while
  that session waits. `PeerIsToldAnew`: on a lasting link the last snapshot sent to
  the peer is again and again what the catalog says, unless that never stops
  changing: what was lost or held back is made up for.
- `OneDecisionPerRequest`: whoever races, the server gets one decision, the one that
  was taken; an error reply is no decision, and may reach it besides (4.4).
  `AutoAcceptFollowsApproval`: an answer the proxy gives by itself does
  not overtake the acceptance it rests on. `ImplementsApproval`, `DecisionArrives`:
  what was decided stays, and reaches the server as long as the connection is open.
- `SignedOfferTakenOnce`: a signed offer starts one update, however often its line
  arrives and whatever became of the first. `RefusedCancelIsLate`: a cancel that is
  refused as too late is: an image was chosen to start. `ImplementsReport`: no
  success of an image that is not kept, no image after "cancelled", no report taken
  back.
- `PetLeavesNoTrail`: the strip holds every drawing, on every screen, at every
  scale. `NoLeftovers`: what a pass leaves is what is meant and nothing of an
  earlier screen but what one of the four lapses accounts for, each on its own kind
  of surface and until it is wiped. `NothingLeftBetweenModes`, what a comment of the
  code promises, is violated. `EverythingInPlace`: the meter is that of the last
  good report, and nothing runs over a frame or another line exactly when the texts
  are within `Short`: the limits of the layout, stated and shown to be the true
  ones. `ProgressHonest`: no token twice, less than a level lost.
  `CredentialsWhole`: a restart finds a network that worked, whole, the last or the
  one being saved.

Every property has a mutant, an operator beside the definition it replaces with
the bug it stands for (`Mutant:` in the comment), which violates it.

### 4.2 Fairness

`BootHealth`: both tasks are scheduled (FreeRTOS gives the watchdog task a higher
priority and the Arduino task its own core) and the clock ticks. No probe is assumed
to answer, no host to talk, no rollback call to succeed; that the restart which
follows does happen is what `esp_restart` and `abort()` promise. `DshApproval`: the
timers of the event loop fire (approval timer, heartbeat interval, write timer) and
the device reads what has arrived; no button, no reconnect and no time line is
assumed. `OtaUpdate`: `loop()` goes round and deadlines pass; no network, no button,
no host. The fairness of a poll is stated for polls that cannot leave things as they
are (`Moving`), since the clock and the network decide about the others.
`ManagedSessions`: the keepalive fires and the peer gets what was sent on a link
that lasts; no link comes back, no session ends and no button is pressed by
fairness. `CodexProxy`: sockets drain and tasks run when they can; nobody has to
answer. `OtaSystem` and `DeviceParts` state safety only, and no fairness.

### 4.3 Divergences found

Each of these is a run in which TLC finds the statement violated.

1. `ota_boot_health_logic.h:24-26` (and `main.cpp:38-41`, 2163-2164) says that without
   BLE a line seen over USB stands in for the BLE readiness bit. The macro at 33-39
   requires nothing in its place until a line was seen, so the default build
   confirms an image that no host has talked to (`boot_health_unseen`).
2. `index.ts:54` says every heartbeat carries a prompt "until settled"; with two
   approvals waiting, the end of one clears the prompt of the other, which then
   waits unseen for its timer (`dsh_prompt_lost`).
3. The push design says the device displays what the A button installs; an offer
   taken while another waits for the button replaces it, but not on the screen
   (`ota_displayed`).
4. `firmware/REFERENCE.md:105-107` says a press decides for the prompt whose id it
   names; `agent.py:744` keys the requests of all sessions by an id that every app
   server gives out for itself, so with equal ids another session may take the press
   (`sessions_shared_ids`). `managed_sessions` checks, and the proofs assume, that ids
   differ.
5. `main.cpp:352-355` says a change of mode leaves nothing behind. An automatic update
   sets the mode to normal without the clear (2498), and the page that was open
   stays on the sprite under the pet (`screens_leftovers`).

These were met as well, and no run of the project is about them:

- `ota_boot_health_logic.h:213` promises a confirmation "strictly before the 30-second
  boundary"; the clock is read before the lock is taken, and the call to the
  bootloader made after it is given back (`ota_boot_health.cpp:243-252`).
- `firmware/REFERENCE.md:65` says `waiting` counts sessions blocked on a prompt;
  `agent.py:186` leaves a session that closes while it waits in that state, and its
  record stays in the catalog until the agent restarts.
- `firmware/SUMMARY.md:37` and 83 say that updates work over USB in a build without BLE.
  The gate named there was opened, but the offer is refused before it, where the
  acceptance is told that the link is not connected (`data.h:171-176`, 221-226).

### 4.4 Limits the models had to name

These are conditions under which a property above holds, or behaviours that no
property forbids, met while modelling.

- *Leftovers.* Four lapses: an automatic update closes panels and pages without
  clearing them (`main.cpp:2498`, "dismissed"); the `species` command changes the
  pet without invalidating the screen (`xfer.h:97`, "switched"); a screen switched
  off under a landscape prompt shows the portrait one on waking (2940, "darkened");
  a prompt answered in the pass it arrives in was never drawn but is cleared as if
  it had been (2486, 2662-2705, "unseen"). `NoLeftovers` says what each may leave:
  "darkened" on a prompt in landscape, "unseen" on the faces of the clock,
  "switched" under a portrait face and, of a page, in the layers of the pet,
  "dismissed" anything on a page, and nothing once it is wiped.
- *Boot health.* In the default build the readiness bit of the link never decides
  between an image that can talk to a host and one that cannot (4.3, 1).
- *Lines with a time.* A heartbeat with a `time` is not read for its prompt or its
  counters (`data.h:254-284`). With `timeSyncIntervalMs` not above the heartbeat
  interval every heartbeat of the timer would have one, so that only the flushes in
  between could show a prompt or take it off: one whose last such line was dropped
  would stay on the screen. `config.ts:57` sets no lower bound.
- *Answers.* An error reply of the TUI may reach the server before or after the
  decision of the device about the same request: the flag is neither looked at nor
  set (`proxy.py:197-199`). After an orderly close by the server a decision of the
  device is noted and lost, until the TUI leaves (`proxy.py:155`, 166-171, 192).
- *No BLE in the firmware.* What the macOS agent sends does not reach the firmware of
  this commit, and no press of it comes back (section 1). Nor does an offer get in
  (4.3); the models of updates are of a build with BLE.
- *Room.* Texts run over when owner and pet take more than 17 cells in the header of
  the pet page (1960-1968), an owner more than 9 or a pet more than 11 in the
  greeting (2228-2232), a network more than 13 in the Wi-Fi status (612, 618), a
  version more than 10 in the receive panel (650), version and percentage more than
  13 in the portrait overlay (705-711). A second limit reported during a landscape
  approval draws the meter over its foot line until the next second (2053-2119).
- *Levels* are kept in eight bits; the wrap at 256 is not saved by itself
  (`stats.h:98`).
- *Wi-Fi.* A form that comes in the poll in which the attempt before it has
  connected may be saved untried (3.7). A failing write and a reset in the same
  commit may lose both networks; a forget whose clear fails leaves the credentials
  (`wifi_manager.cpp:388-404`), and after an interrupted migration the old pair may
  come back.
- *Updates.* A repeated signed offer in Ask mode starts the pending one afresh; an
  update cancelled on the device is not believed by the host, whose session ends by
  its timeout; a status of an earlier update carries the nonce of a later offer
  (`ota_status.cpp:57`), which is why `RefusedCancelIsLate` speaks of *an* image.
  `REFERENCE.md:141` says an offer is only sent while the receive window is open; a
  signed one opens its own.

## 5. Proofs

`tlapm` checks every proof to the last leaf. None needs more than the
assumptions on the constants named in the modules, except that the theorems about
`ManagedSessions` are stated under `IdsApart`, which run `sessions_shared_ids` shows
to be needed.

`BootHealthProofs`: `TypeOK` is inductive (one lemma per pure function,
then one step per action). `IInv` adds what each program counter implies: a task
past `Claim` with a verdict owns it, `sup.phase` says so, and nobody else is at such
a point; a halted supervisor stays so; a record with its magic written agrees with
what a supervisor gave. `OneVerdictOwner` alone is not inductive: without knowing
that the phase latched, a second claim is not excluded. `ConfirmedOnlyWhenHealthy`
(with what the code requires at that moment, and so for both builds) and
`HaltIsFinal` are action properties from `IInv`; `ImplementsTrial` maps each
step to a verdict or a stutter.

`DshApprovalProofs`: `IInv` relates the pending set, the slot, the last snapshot, the
wire in both directions and the presses ever made. `DecidedOnTheDevice` needs that a
command on the wire was pressed for the call it names; `PromptIsPending` needs that
the slot is cleared by every settle.

`OtaUpdateProofs`: `IInv` follows the phases. `ReleaseKept` is the chain that makes
`BootedImageIsWhole` true: up to the manifest's check the release let in is the one
of the consumed offer, from there on it is the manifest's, from `BEGIN` on the
slot's, and after `DIGEST` the slot is whole; without these links the last phase
could switch to anything. `SessionShape` names the phases with an open session, all
of which `AbortHandle` can close. `CancelHeld` says that a cancel that was taken is
still in `cancelRequested`, where the next poll must find it, or the update is over.
`BodyBounded` is what type correctness needs of the request. What a poll that goes
on leaves behind is one formula (`WorkGood`), proved once for fetching and once for
each verifying step. `ImplementsInstall` maps giving up, letting in, switching the
slot and restarting to the steps of `OtaInstall`, and everything else to a stutter.

`ManagedSessionsProofs`: `IInv` has a part for the agent, the link and its peer,
so that a step that leaves a side alone keeps its part by one lemma. The chain from
a press to its request: a command and a snapshot name session and id together
(`Named`), a record tells what its runtime says (`Agrees`), the prompt of a runtime is
a request that is not over (`RuntimesWait`), and such a request is in the map of
the agent (`RequestsLead`). `Agrees` is the part the code must work for: a session
that moves to another thread has to leave its old record first (`RecordedKeeps`), and
the watcher must not touch it. A press leaves the line by `OnPermission` or with the
link (`WhoTakesPress`), which gives the two action properties.

`CodexProxyProofs`: what the server has read, what is on the way to it and what
waits for the lock are one sequence, `Sent`, to the end of which a decision adds its
answer and which the writer and the server only shift along (`MoveHead`), or which
loses its end with the connection. Nothing is decided about a request whose flag is
not set (`UnresolvedUndecided`), so no second decision is added; an error reply is
added to it at any time, and is none; and the proxy hears of a request once
(`HeardOfOnce`), without which a repeated request would reset the flag.
`ProxyImplementsApproval` maps each decision to `Decide` or `AcceptUnasked` and the
server's own settlement to `Withdraw`.

`OtaSystemProofs`: `IInv` is `TypeOK`, `Untouched` and `Once`. A session sends
offers of one kind, one line at a time, and a later session has sent nothing yet
(`Untouched`); a signed offer that was taken, or that the device holds and may take,
is in the ring or has run out (`Once`). So a second line of it is seen to be one,
for a ring of any size. The case to look at is an unsigned offer inside the window
that a signed one opened: it fills in the same record, but once that is taken the
window is shut.

The second invariant of the module, `Informed`, ties what runs on the device to what
the host is told. `Ahead`: what is let in is newer than what runs, and what runs on
trial is newer than what is kept if it fails, so what is kept only gets newer.
`Reported`: a success was reported of a kept image only, so an image that was
chosen to start has none (`CommittedIsLate`, `OnTrialIsLate`). `Told`: a status under
way with `health` "valid" is of a kept image, and one that lets the present session
give up cancelling says that an image was chosen. A status may name a session other
than the one whose image it tells of (a newer offer rebinds it), which is why `Told`
speaks of some session. `RefusedCancelIsLate` follows at the step in which the host
reads the status.

The third, `Faithful`, is what `ImplementsReport` needs on top of both. While a
session can still be offered, the version it is for is running or kept only if the
host may know (`Settled`). Once the host has heard that its session was cancelled,
or is about to, no image of it is in the last check or chosen (`Stopped`), and
none ever is of a session that was called off (`CalledOff`). Only a cancellation
answers a cancel that was applied (`Answers`). The steps are grouped by what they
may disturb: `Carries` is a step of the device within one firmware; on the host
`Going` reads and goes on, `Closing` ends a session with a verdict and `Calling`
asks for a cancel. Each group keeps `Faithful` by one lemma and is a step of
`UpdateReport` or a stutter by another; the restarts, in which the firmware
changes, have lemmas of their own. TLC checked `Faithful` on the states of a run
with a ring of four (1,967,052) and on a larger instance (8,322,551) before it was
proved.

`DeviceStoresPagesProofs`: of the device as a whole, whichever part is followed. A
part that is followed takes its own steps and one that is not stands still, so a
behaviour of the device is one of each store (`StoresFollowed`). For progress: what
is credited, with what the next report will add, is at most what was earned; while
no save is under way, flash and memory agree on the level, and within one they
differ by less than a level. `Fits` leaves out the level that wrapped. For the
network: the slot in use is never written, and the number in flash names it until
the commit turns (`InUse`); without one, the old pair is what a restart finds, until
it is migrated (`Unused`); `Progress` says how far a commit has come, `Worked` that
whatever flash may yield once connected. That two networks are possible after a
forget implies that the forget failed (`TwoForgetFailed`).

The second half of the module is about the pages. A list of boxes is `Neat` in an
area if each lies in the area and no two overlap; lines one below another are,
when their steps are at least their heights (`Ladder`, an induction whose
counterexample would be a least element), and so are lists that lie in areas apart
(`NeatJoin`). Every page has a lemma that its lines are neat above the room of the
meter, for any texts within `Short`, and one that texts beyond it break it: a line
that leaves its frame or two that overlap are named. `PagesPlaced` is both for every
page. For the meter, `MeterInv`: the bars on the display are the plan of some
report, the one that the cache of the surface is of, and that of the last report after
a pass; and the page left them room. `PassPaints` is the heart of it: whatever a
pass finds painted, clearing when the layout changed and drawing when the values did
is enough. It needs that `None` is not a report itself, which `PartsAssumption` says
because nothing in TLA+ does. `LineAndBar` puts the two together. TLC checked
`MeterInv` as an invariant of the run before it was proved.

`DevicePartsProofs`: the screens and the pet. For the screens, `NoLeftovers` speaks
of the end of a pass, and a pass begins with what the last one left, so the
invariant (`IInv`) says what that may be. `Shown`: what is painted on the sprite and
on the display, and which caches say so, by the surface of the last pass; but for
what the lapses so far account for, nothing is there that the next pass will not
draw over or ask to be cleared. `Surfaces` and `Passing` are about the last surface
and the place in the pass, `Faced` and `Asked` about what may be open above the
clock and above a prompt. Each operator of `DeviceScreens` has a lemma about the
fields it may change, each action keeps `IInv`, and the last step of a pass gives
`NoLeftovers`, with all four lapses and any bound on how many leave traces at once.
For the pet, every one of the 18 species has a lemma that its pictures end above row
82 of the sprite with the body lowered by 12 at most (`Pictures`, `Cells`); what is
on the sprite has the scale of the strip that is cleared next, which is the one
thing that a change of screen could break (`StageInv`).

Every safety property that a passing run checks is a theorem. Only model-checked:
liveness under fairness (`NewImageSettles`, `TakeoverSettles`,
`StalePromptLeaves`, `UpdateEnds`, `CommittedRestarts`, `PeerIsToldAnew`,
`DecisionArrives`), which the prover does not reach; nor does it reach ENABLED and
induction over data. No module declares a RECURSIVE operator.

## 6. Not modelled

- Audio clips, fonts and images: data, 9,298 lines of it in `audio_clips_data.h`
  alone. Nothing depends on what they hold.
- Recognizing gestures (`gesture_recognizer.h`): filters over floating-point
  samples. What a gesture does once recognized is in `DshApproval`.
- The BLE build of the firmware beyond the constant `BleBuild`: it is not compiled.
- Cryptography, X.509 and canonical parsing: right or wrong.
- `BleHelper`, the macOS side of the BLE link: requests matched by sequence number,
  a helper process that is started again, a queue of 64 notifications that drops the
  oldest. Planned. Worth a property there: an answer to an approval dropped by the
  full queue (`ble_transport.py:437`), a first owner or time line that fails and is
  not sent again while connected, a helper command that timed out and is carried out
  later.
- `CdcLink`: `stop()` that races a connect (`cdc.ts:108`); milestones cleared on a
  line that was dropped (`bridge.ts:167`). Planned.
- Chunks of a character transfer: `_xActive` has no timeout and holds off updates
  (`xfer.h:225`). Planned.
- Buttons across a change of prompt: a press of A that began before a prompt
  appeared approves it when released (`main.cpp:2662-2665`); with the cable out, a
  press marks the prompt answered (2263). `DecidedOnTheDevice` is about the press
  the plugin receives.
- Watchers and usage monitors, the agent process, the command line, release and
  build tools: one step after the other, without anything beside them.
