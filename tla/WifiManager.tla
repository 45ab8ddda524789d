---------------------------- MODULE WifiManager ----------------------------
\* The device's Wi-Fi (src/firmware/src/wifi_manager.cpp): the hotspot on which
\* a user enters a network, the attempt that tries it, and the two slots and
\* the old pair of keys that hold what worked (wifi_credentials_logic.h).
\* Deadlines may pass at any moment; WiFi.status is of the pair last begun.  So
\* a form that is handled (line 410) in the very poll that finds the attempt
\* before it connected (line 426) begins anew: the link that the driver may then
\* still report, and with which the code would save the new pair untried, is
\* outside of this model.
EXTENDS Naturals, Sequences, FiniteSets

CONSTANTS
  Ssids, Passwords,             \* what a user may enter
  Reachable,                    \* the pairs that a network answers to
  None

Credentials == Ssids \X Passwords
Nowhere == 255                  \* no slot: "active" in flash, or the old keys

VARIABLES
  store,                        \* the keys of "codebuddy_wifi" in flash
  phase, provisioned,           \* runtime
  portalActive,
  form,                         \* a browser holds a form with the nonce
  pending,                      \* what was entered, until it is tried
  connectingPending,            \* connectingPendingCredentials
  active,                       \* activeCredentials
  begun, up,                    \* WiFi.begin's pair; the link is up with it
  writes,                       \* what the commit or its rollback has to put
  broken,                       \* this commit has met its fault
  saved, tried                  \* history: what a start may find; what worked

radio == <<begun, up>>
screen == <<phase, provisioned, portalActive, form, pending,
            connectingPending, active>>
wifiVars == <<store, screen, radio, writes, broken, saved, tried>>

\* ---- wifi_credentials_logic.h

EmptySlot == [ssid |-> None, pass |-> None, gen |-> FALSE, valid |-> 0]
EmptyStore == [slot |-> [s \in 0..1 |-> EmptySlot], active |-> Nowhere,
               migrated |-> 0, ssid |-> None, password |-> None]

\* The slot that "active" names, when all its keys are there.
Loadable ==
  /\ store.active \in 0..1
  /\ LET slot == store.slot[store.active]
     IN slot.valid = 1 /\ slot.gen /\ None \notin {slot.ssid, slot.pass}
CredentialLoad ==
  LET slot == store.slot[store.active] IN <<slot.ssid, slot.pass>>
MayUseLegacy == store.migrated # 1
OldPair ==
  IF None \in {store.ssid, store.password} THEN None
  ELSE <<store.ssid, store.password>>
LegacyUsable == MayUseLegacy /\ OldPair # None
Stored ==
  IF Loadable THEN CredentialLoad
  ELSE IF LegacyUsable THEN OldPair ELSE None

NoActive == [slot |-> Nowhere, valid |-> FALSE]
StoredActive ==
  [slot |-> IF Loadable THEN store.active ELSE Nowhere,
   valid |-> Stored # None]

\* A mutant: the commit writes over the slot that is in use.
TargetInUse == IF active.valid /\ active.slot < 2 THEN active.slot ELSE 0

\* The commit writes the slot that is not in use, and only then turns to it.
Target == IF active.valid /\ active.slot < 2 THEN 1 - active.slot ELSE 0
CommitWrites == <<"invalid", "ssid", "pass", "gen", "valid", "active",
                  "migrated", "no_ssid", "no_password">>
RollbackWrites == <<"invalid", "back", "unmigrated">>
Put(write) ==
  LET t == Target
      kept == active.valid /\ active.slot < 2
  IN CASE write = "invalid" -> [store EXCEPT !.slot[t].valid = 0]
       [] write = "ssid" -> [store EXCEPT !.slot[t].ssid = pending[1]]
       [] write = "pass" -> [store EXCEPT !.slot[t].pass = pending[2]]
       [] write = "gen" -> [store EXCEPT !.slot[t].gen = TRUE]
       [] write = "valid" -> [store EXCEPT !.slot[t].valid = 1]
       [] write = "active" -> [store EXCEPT !.active = t]
       [] write = "migrated" -> [store EXCEPT !.migrated = 1]
       [] write = "no_ssid" -> [store EXCEPT !.ssid = None]
       [] write = "no_password" -> [store EXCEPT !.password = None]
       [] write = "back" ->
            [store EXCEPT !.active = IF kept THEN active.slot ELSE Nowhere]
       [] write = "unmigrated" ->
            [store EXCEPT !.migrated = IF kept THEN 1 ELSE 0]
RollingBack == writes # <<>> /\ writes[Len(writes)] = "unmigrated"
Committing == writes # <<>> /\ ~RollingBack

\* ---- wifi_manager.cpp: what a step does to the radio

RadioOff == begun' = None /\ up' = FALSE
Try(credentials) == begun' = credentials /\ up' = FALSE

\* beginSavedConnection, of the slot that is known or of the old keys; without
\* anything known the radio is turned off.
Saved(known) ==
  IF ~known.valid THEN None
  ELSE IF known.slot < 2 THEN IF Loadable THEN CredentialLoad ELSE None
  ELSE IF LegacyUsable THEN OldPair ELSE None
BeginSaved(known) ==
  /\ connectingPending' = FALSE
  /\ IF Saved(known) # None
     THEN phase' = "connecting" /\ provisioned' = TRUE /\ Try(Saved(known))
     ELSE phase' = "unprovisioned" /\ provisioned' = FALSE /\ RadioOff

\* cleanupProvisioningTransport, but for connectingPending.
Cleanup ==
  /\ portalActive' = FALSE
  /\ form' = FALSE
  /\ pending' = None

Fail == phase' = "error" /\ connectingPending' = FALSE

Idle == writes = <<>>
Kept == UNCHANGED <<store, writes, broken, saved>>

\* ---- The operations

\* History: more than one start is possible only after a clear that failed.
ForgetFailed == Cardinality(saved) > 1

\* wifiManagerBegin after a reset: nothing but the flash is left.  A reset in
\* the middle of a commit is its one fault.
Reset ==
  /\ Idle \/ ~broken
  /\ Cleanup
  /\ active' = StoredActive
  /\ BeginSaved(StoredActive)
  /\ writes' = <<>> /\ broken' = FALSE
  /\ saved' = IF ~Committing THEN saved
              ELSE {Stored} \cup (IF ForgetFailed THEN saved ELSE {})
  /\ UNCHANGED <<store, tried>>

StartProvisioning ==
  /\ Idle /\ ~portalActive
  /\ portalActive' = TRUE
  /\ phase' = "provisioning"
  /\ form' = FALSE
  /\ RadioOff
  /\ UNCHANGED <<provisioned, pending, connectingPending, active, tried>>
  /\ Kept

\* The hotspot does not start.
StartFails ==
  /\ Idle /\ ~portalActive
  /\ Cleanup
  /\ BeginSaved(active)
  /\ UNCHANGED <<active, tried>>
  /\ Kept

\* The user leaves the hotspot, or its time is over.
CancelProvisioning ==
  /\ Idle /\ portalActive
  /\ Cleanup
  /\ BeginSaved(active)
  /\ UNCHANGED <<active, tried>>
  /\ Kept

\* The flash is cleared, or cannot be opened: the device forgets either way,
\* and may then start with anything that the flash still holds.
Forget(cleared) ==
  /\ Idle
  /\ Cleanup /\ connectingPending' = FALSE
  /\ store' = IF cleared THEN EmptyStore ELSE store
  /\ saved' = IF cleared THEN {None} ELSE saved \cup {None, OldPair}
  /\ active' = NoActive
  /\ phase' = "unprovisioned" /\ provisioned' = FALSE
  /\ RadioOff
  /\ UNCHANGED <<writes, broken, tried>>

\* A page of the portal carries the nonce that a form must bring back.
GetPage ==
  /\ Idle /\ portalActive
  /\ form' = TRUE
  /\ UNCHANGED <<phase, provisioned, portalActive, pending,
                 connectingPending, active, radio, tried>>
  /\ Kept

\* A complete and valid form: its nonce is used up, and the pair is tried.
PostForm(entered) ==
  /\ Idle /\ portalActive /\ form
  /\ form' = FALSE
  /\ pending' = entered
  /\ connectingPending' = TRUE
  /\ phase' = "connecting"
  /\ Try(entered)
  /\ UNCHANGED <<provisioned, portalActive, active, tried>>
  /\ Kept

\* wifiManagerPoll.  An approval is waiting: no attempt goes on meanwhile.
PauseForApproval ==
  /\ Idle /\ ~portalActive /\ provisioned /\ phase = "connecting"
  /\ RadioOff
  /\ phase' = "error"
  /\ UNCHANGED <<provisioned, portalActive, form, pending,
                 connectingPending, active, tried>>
  /\ Kept

Succeeded ==
  /\ phase' = "online" /\ provisioned' = TRUE
  /\ connectingPending' = FALSE
  /\ Cleanup

\* Connected with what is saved, or with what was entered, which is saved now:
\* the flash cannot be opened, or the writes begin.
Connected ==
  /\ Idle /\ phase = "connecting" /\ up /\ ~connectingPending
  /\ Succeeded
  /\ UNCHANGED <<active, radio, tried>>
  /\ Kept
SaveFails ==
  /\ Idle /\ phase = "connecting" /\ up /\ connectingPending
  /\ Fail /\ pending' = None
  /\ UNCHANGED <<provisioned, portalActive, form, active, radio, tried>>
  /\ Kept
Commit ==
  /\ Idle /\ phase = "connecting" /\ up /\ connectingPending
  /\ writes' = CommitWrites /\ broken' = FALSE
  /\ UNCHANGED <<store, screen, radio, saved, tried>>

\* A write that fails rolls back what can be; the results of the rollback's
\* writes, and of removing the old keys, are not looked at.
WriteFails ==
  /\ writes # <<>> /\ ~broken /\ ~RollingBack
  /\ Head(writes) \notin {"no_ssid", "no_password"}
  /\ writes' = RollbackWrites /\ broken' = TRUE
  /\ UNCHANGED <<store, screen, radio, saved, tried>>
RolledBack ==
  /\ RollingBack /\ Len(writes) = 1
  /\ store' = Put(Head(writes))
  /\ writes' = <<>> /\ broken' = FALSE
  /\ Fail /\ pending' = None
  /\ UNCHANGED <<provisioned, portalActive, form, active, radio, saved, tried>>
Committed ==
  /\ Committing /\ Len(writes) = 1
  /\ \E removed \in BOOLEAN :
       store' = IF removed THEN Put(Head(writes)) ELSE store
  /\ writes' = <<>> /\ broken' = FALSE
  /\ active' = [slot |-> Target, valid |-> TRUE]
  /\ saved' = {pending}
  /\ Succeeded
  /\ UNCHANGED <<radio, tried>>
Write ==
  /\ Len(writes) > 1
  /\ store' = Put(Head(writes))
  /\ writes' = Tail(writes)
  /\ UNCHANGED <<screen, radio, broken, saved, tried>>

\* The attempt takes too long.
ConnectTimesOut ==
  /\ Idle /\ phase = "connecting" /\ ~up
  /\ RadioOff
  /\ Fail /\ pending' = None
  /\ UNCHANGED <<provisioned, portalActive, form, active, tried>>
  /\ Kept
Reconnect ==
  /\ Idle /\ ~portalActive /\ phase = "error" /\ provisioned
  /\ BeginSaved(active)
  /\ UNCHANGED <<portalActive, form, pending, active, tried>>
  /\ Kept
Disconnected ==
  /\ Idle /\ phase = "online" /\ ~up
  /\ phase' = "error"
  /\ UNCHANGED <<provisioned, portalActive, form, pending,
                 connectingPending, active, radio, tried>>
  /\ Kept

\* The networks: a link comes up with the right pair, and breaks.
LinkUp ==
  /\ begun \in Reachable /\ ~up
  /\ up' = TRUE
  /\ tried' = tried \cup {begun}
  /\ UNCHANGED <<store, screen, begun, writes, broken, saved>>
LinkDown ==
  /\ up
  /\ up' = FALSE
  /\ UNCHANGED <<store, screen, begun, writes, broken, saved, tried>>

\* A new device, or one whose old firmware left a pair of keys.
WifiInit ==
  /\ \E old \in Reachable \cup {None} :
       /\ store = IF old = None THEN EmptyStore
                  ELSE [EmptyStore EXCEPT !.ssid = old[1], !.password = old[2]]
       /\ saved = {old}
       /\ tried = {old, None}
       /\ active = [slot |-> Nowhere, valid |-> old # None]
       /\ provisioned = (old # None)
       /\ phase = IF old # None THEN "connecting" ELSE "unprovisioned"
       /\ begun = old
  /\ up = FALSE
  /\ portalActive = FALSE /\ form = FALSE
  /\ pending = None /\ connectingPending = FALSE
  /\ writes = <<>> /\ broken = FALSE

Poll ==
  \/ PauseForApproval \/ Connected \/ SaveFails \/ Commit
  \/ ConnectTimesOut \/ Reconnect \/ Disconnected
  \/ WriteFails \/ RolledBack \/ Committed \/ Write

WifiNext ==
  \/ Reset \/ StartProvisioning \/ StartFails \/ CancelProvisioning
  \/ \E cleared \in BOOLEAN : Forget(cleared)
  \/ GetPage
  \/ \E entered \in Credentials : PostForm(entered)
  \/ Poll
  \/ LinkUp \/ LinkDown

\* Whatever is interrupted, what a restart finds in flash is what was saved
\* last, or what is just being saved: never a mix of two networks, nor nothing,
\* nor a pair that never worked.  While online, the link is the saved one.
CredentialsWhole ==
  /\ ~RollingBack =>
       Stored \in saved \cup (IF Committing THEN {pending} ELSE {})
  /\ Stored \in tried
  /\ phase = "online" /\ up => begun \in saved

WifiSpec == WifiInit /\ [][WifiNext]_wifiVars
=============================================================================
