--------------------------- MODULE ManagedSessions ---------------------------
(***************************************************************************)
(* Many Codex sessions and one device: the macOS agent (agent.py) with its *)
(* catalog of sessions (catalog.py), the approvals its proxies hold        *)
(* (proxy.py) and its Bluetooth link (ble_transport.py).                   *)
(*                                                                         *)
(* What is at the other end of the link is external: a peer as the agent   *)
(* is written for, which shows the last snapshot it was sent and answers   *)
(* the prompt it shows.  The firmware beside it reads and writes its USB   *)
(* line only (data.h feeds Serial, sendCmd prints to Serial).              *)
(*                                                                         *)
(* The agent is one asyncio loop: a callback runs to its first await, and  *)
(* the only awaits are the sends to the peer, which keep their order.      *)
(* What is concurrent is the sessions with their own app servers, the TUI  *)
(* of each, the log watcher, the updater, the Bluetooth link and the user  *)
(* with the two buttons.                                                   *)
(***************************************************************************)
EXTENDS Naturals, Sequences, FiniteSets

CONSTANTS
  Controls,  \* managed sessions, by their control_id
  Threads,   \* Codex threads, the session_id of a record
  ThreadsOf, \* the threads that each managed session works on
  Watched,   \* the threads whose logs the watcher may find
  Ids,       \* request ids
  IdsOf,     \* the ids the app server of each managed session gives out
  None,      \* no prompt, no thread, no session
  MaxWire,   \* bound: lines on the way in each direction
  MaxDrops   \* bound: how often the link is lost

ASSUME ManagedSessionsAssumption ==
  /\ IsFiniteSet(Controls) /\ IsFiniteSet(Threads)
  /\ None \notin Controls \cup Threads \cup Ids
  /\ ThreadsOf \in [Controls -> SUBSET Threads]
  /\ Watched \subseteq Threads
  /\ Ids \subseteq Nat /\ IdsOf \in [Controls -> SUBSET Ids]
  /\ MaxWire \in Nat \ {0}
  /\ MaxDrops \in Nat

VARIABLES
  bridge,      \* BuddyAgent._managed_sessions
  runtime,     \* BuddyAgent._managed_runtime
  sessions,    \* SessionCatalog._sessions
  reqSession,  \* SessionCatalog._request_to_session
  reqControl,  \* BuddyAgent._request_to_control
  request,     \* of each session and request: whether its proxy takes an answer
  ota,         \* BuddyAgent._ota_session_active
  lastPayload, \* BuddyAgent._last_payload
  connected,   \* BuddyAgent._ble_connected
  linkUp,      \* the link really is up
  down,        \* snapshots on the way to the peer
  up,          \* permission commands on the way to the agent
  drops,       \* losses of the link so far
  shown,       \* the snapshot the peer shows
  lastShown,   \* the prompt it showed before
  responseSent \* it has answered that prompt

hostVars == <<bridge, runtime, sessions, reqSession, reqControl, request, ota>>
linkVars == <<lastPayload, connected, linkUp, down>>
peerVars == <<shown, lastShown, responseSent>>
vars == <<hostVars, linkVars, up, drops, peerVars>>

\* Of the four states of a session, "running", "recent" and "completed" are one
\* here: what is told to the peer about prompts does not tell them apart.
State == {"waiting", "other"}
Runtime == [session : Threads \cup {None}, state : State, prompt : Ids \cup {None}]
\* "by" stands for what the record says of its session beyond the id: the tool
\* and the hint of the prompt.
Managed == [by : Controls, state : State, prompt : Ids \cup {None}]
ReadonlyRecord == [by |-> None, state |-> "other", prompt |-> None]
Snapshot == [prompt : Ids \cup {None}, by : Controls \cup {None}, waiting : Nat]
\* A press of either button; both take the same way.
Command == [by : Controls \cup {None}, id : Ids]

NewRuntime == [session |-> None, state |-> "other", prompt |-> None]
EmptySnapshot == [prompt |-> None, by |-> None, waiting |-> 0]

Init ==
  /\ bridge = [c \in Controls |-> "unused"]
  /\ runtime = [c \in Controls |-> NewRuntime]
  /\ sessions = [t \in Threads |-> None]
  /\ reqSession = [i \in Ids |-> None]
  /\ reqControl = [i \in Ids |-> None]
  /\ request = [c \in Controls |-> [i \in Ids |-> "unasked"]]
  /\ ota = FALSE
  /\ lastPayload = None /\ connected = FALSE /\ linkUp = FALSE
  /\ down = <<>> /\ up = <<>> /\ drops = 0
  /\ shown = EmptySnapshot /\ lastShown = None /\ responseSent = FALSE

(***************************************************************************)
(* SessionCatalog.  A catalog is its records and its map of prompts.       *)
(***************************************************************************)
Catalog == [recs |-> sessions, reqs |-> reqSession]

IsManaged(rec) == rec # None /\ rec.by # None

\* _drop_request_mapping_for_session
WithoutRequestsOf(reqs, t) == [i \in Ids |-> IF reqs[i] = t THEN None ELSE reqs[i]]

Upserted(cat, t, rec) ==
  [recs |-> [cat.recs EXCEPT ![t] = rec],
   reqs |-> IF rec.prompt = None THEN WithoutRequestsOf(cat.reqs, t)
                                 ELSE [cat.reqs EXCEPT ![rec.prompt] = t]]

Removed(cat, t) ==
  [recs |-> [cat.recs EXCEPT ![t] = None], reqs |-> WithoutRequestsOf(cat.reqs, t)]

\* resolve_prompt
PromptResolved(cat, id) ==
  LET t == cat.reqs[id]
  IN  [recs |-> IF t = None \/ cat.recs[t] = None THEN cat.recs
                ELSE [cat.recs EXCEPT ![t].prompt = None,
                                           ![t].state = "other"],
       reqs |-> [cat.reqs EXCEPT ![id] = None]]

\* replace_readonly with the threads the log watcher has found; a managed
\* record is never overwritten.
ReadonlyReplaced(cat, found) ==
  LET kept == {t \in Threads : IsManaged(cat.recs[t])}
      rewritten == (found \cup {t \in Threads : cat.recs[t] # None}) \ kept
  IN  [recs |-> [t \in Threads |-> CASE t \in kept -> cat.recs[t]
                                      [] t \in found \ kept -> ReadonlyRecord
                                      [] OTHER -> None],
       reqs |-> [i \in Ids |-> IF cat.reqs[i] \in rewritten THEN None ELSE cat.reqs[i]]]

WaitingIn(recs) == {t \in Threads : recs[t] # None /\ recs[t].state = "waiting"}

\* SessionCatalog.snapshot: the prompt is shown when just one managed session
\* waits for one.
SnapshotOf(recs) ==
  LET asking == {t \in WaitingIn(recs) : IsManaged(recs[t]) /\ recs[t].prompt # None}
      primary == CHOOSE t \in asking : TRUE
  IN  [EmptySnapshot EXCEPT
         !.waiting = Cardinality(WaitingIn(recs)),
         !.prompt = IF Cardinality(asking) = 1 THEN recs[primary].prompt ELSE None,
         !.by = IF Cardinality(asking) = 1 THEN recs[primary].by ELSE None]

(***************************************************************************)
(* BuddyAgent._publish_state and the transport below it.                   *)
(***************************************************************************)

\* BleBuddyTransport.send_snapshot: on a lost link the transport tries to
\* connect first; when that fails the agent gives the connection up.
Transmit(snap) ==
  \/ /\ linkUp /\ Len(down) < MaxWire
     /\ down' = Append(down, snap)
     /\ UNCHANGED <<connected, linkUp>>
  \/ /\ ~linkUp
     /\ linkUp' = TRUE /\ down' = <<snap>>
     /\ UNCHANGED connected
  \/ /\ ~linkUp
     /\ connected' = FALSE
     /\ UNCHANGED <<linkUp, down>>

Publish(recs, force) ==
  LET snap == SnapshotOf(recs)
  IN  IF force \/ snap # lastPayload
      THEN /\ lastPayload' = IF ota THEN lastPayload ELSE snap
           /\ IF ota \/ ~connected THEN UNCHANGED <<connected, linkUp, down>>
                                   ELSE Transmit(snap)
      ELSE UNCHANGED linkVars

\* The catalog becomes cat, and the peer is told if that changes anything.
Commit(cat) ==
  /\ sessions' = cat.recs /\ reqSession' = cat.reqs
  /\ Publish(cat.recs, FALSE)

(***************************************************************************)
(* Events of a managed session.                                            *)
(***************************************************************************)
ToRecord(c, r) == [by |-> c, state |-> r.state, prompt |-> r.prompt]

\* The part every event of _handle_managed_event shares: a session that has
\* moved to another thread leaves its old record, and its record is written.
Recorded(cat, c, r) ==
  LET prev == runtime[c].session
      kept == IF prev # None /\ prev # r.session THEN Removed(cat, prev) ELSE cat
  IN  IF r.session = None THEN kept ELSE Upserted(kept, r.session, ToRecord(c, r))

Apply(c, r) ==
  /\ runtime' = [runtime EXCEPT ![c] = r]
  /\ Commit(Recorded(Catalog, c, r))

\* launch, up to its await; no session starts while the firmware is updated.
LaunchBegins(c) ==
  /\ bridge[c] = "unused" /\ ~ota
  /\ bridge' = [bridge EXCEPT ![c] = "starting"]
  /\ runtime' = [runtime EXCEPT ![c] = NewRuntime]
  /\ UNCHANGED <<sessions, reqSession, reqControl, request, ota, linkVars, up, drops, peerVars>>

\* bridge.start() has returned, or raised.
LaunchEnds(c) ==
  /\ bridge[c] = "starting"
  /\ bridge' \in {[bridge EXCEPT ![c] = "up"], [bridge EXCEPT ![c] = "unused"]}
  /\ UNCHANGED <<runtime, sessions, reqSession, reqControl, request, ota, linkVars, up,
                 drops, peerVars>>

\* turn/started and turn/completed: the session no longer waits, but a prompt
\* that is not resolved stays with the runtime.
Turn(c, t) ==
  /\ bridge[c] = "up"
  /\ Apply(c, [runtime[c] EXCEPT !.session = t, !.state = "other"])
  /\ UNCHANGED <<bridge, reqControl, request, ota, up, drops, peerVars>>

\* item/completed and token usage
Output(c, t) ==
  /\ bridge[c] = "up"
  /\ Apply(c, [runtime[c] EXCEPT !.session = t])
  /\ UNCHANGED <<bridge, reqControl, request, ota, up, drops, peerVars>>

\* Mutant: only the first prompt of a session is registered with its control.
AsksOnce(c, t, id) ==
  /\ bridge[c] = "up" /\ request[c][id] = "unasked"
  /\ request' = [request EXCEPT ![c][id] = "open"]
  /\ reqControl' = IF runtime[c].prompt = None THEN [reqControl EXCEPT ![id] = c]
                                               ELSE reqControl
  /\ Apply(c, [session |-> t, state |-> "waiting", prompt |-> id])
  /\ UNCHANGED <<bridge, ota, up, drops, peerVars>>

\* Mutant: a request is registered with its thread instead of its control.
AsksForThread(c, t, id) ==
  /\ bridge[c] = "up" /\ request[c][id] = "unasked"
  /\ request' = [request EXCEPT ![c][id] = "open"]
  /\ reqControl' = [reqControl EXCEPT ![id] = t]
  /\ Apply(c, [session |-> t, state |-> "waiting", prompt |-> id])
  /\ UNCHANGED <<bridge, ota, up, drops, peerVars>>

\* item/commandExecution/requestApproval that is not accepted by the proxy
\* itself.  The runtime has room for one prompt: the latest.
Asks(c, t, id) ==
  /\ bridge[c] = "up" /\ request[c][id] = "unasked"
  /\ request' = [request EXCEPT ![c][id] = "open"]
  /\ reqControl' = [reqControl EXCEPT ![id] = c]
  /\ Apply(c, [session |-> t, state |-> "waiting", prompt |-> id])
  /\ UNCHANGED <<bridge, ota, up, drops, peerVars>>

AfterResolved(r, id) ==
  IF r.prompt = id THEN [r EXCEPT !.prompt = None, !.state = "other"] ELSE r

\* serverRequest/resolved, after an answer or because the turn was given up.
Resolved(c, id) ==
  /\ bridge[c] = "up" /\ request[c][id] \in {"open", "answered"}
  /\ request' = [request EXCEPT ![c][id] = "done"]
  /\ reqControl' = [reqControl EXCEPT ![id] = None]
  /\ LET r == AfterResolved(runtime[c], id)
     IN  /\ runtime' = [runtime EXCEPT ![c] = r]
         /\ Commit(Recorded(PromptResolved(Recorded(Catalog, c, r), id), c, r))
  /\ UNCHANGED <<bridge, ota, up, drops, peerVars>>

\* The TUI answers; the proxy will not let a second answer through.
TuiAnswers(c, id) ==
  /\ bridge[c] = "up" /\ request[c][id] = "open"
  /\ request' = [request EXCEPT ![c][id] = "answered"]
  /\ UNCHANGED <<bridge, runtime, sessions, reqSession, reqControl, ota, linkVars, up,
                 drops, peerVars>>

\* Mutant: the prompt of a closed session is kept.
ClosedKeepingPrompt(r) == r

\* ManagedSessionRuntime.close: a session that waits is left waiting.
Closed(r) == [r EXCEPT !.prompt = None]

\* _handle_managed_close: the connection of the TUI or of the app server is
\* gone, and with it _upstream, without which the proxy takes no answer.
SessionCloses(c) ==
  /\ bridge[c] = "up"
  /\ bridge' = [bridge EXCEPT ![c] = "closed"]
  /\ request' = [request EXCEPT ![c] = [id \in Ids |-> "done"]]
  /\ Apply(c, Closed(runtime[c]))
  /\ UNCHANGED <<reqControl, ota, up, drops, peerVars>>

\* _apply_readonly_sessions with whatever the log watcher has found.
ReadonlyPoll ==
  /\ \E found \in SUBSET Watched : Commit(ReadonlyReplaced(Catalog, found))
  /\ UNCHANGED <<bridge, runtime, reqControl, request, ota, up, drops, peerVars>>

(***************************************************************************)
(* The updater, the link and the timers.                                   *)
(***************************************************************************)

\* _begin_ota_update, up to the claim.
BeginOta ==
  /\ ~ota /\ connected
  /\ \A c \in Controls : runtime[c].prompt = None
  /\ ota' = TRUE
  /\ UNCHANGED <<bridge, runtime, sessions, reqSession, reqControl, request, linkVars, up,
                 drops, peerVars>>

\* _release_claimed_ota_session, on every way out of an update.
EndOta ==
  /\ ota /\ ota' = FALSE
  /\ UNCHANGED <<bridge, runtime, sessions, reqSession, reqControl, request, linkVars, up,
                 drops, peerVars>>

\* Mutant: the keepalive sends what is new only.
KeepaliveUnforced ==
  /\ Publish(sessions, FALSE)
  /\ UNCHANGED <<hostVars, up, drops, peerVars>>

\* _keepalive_loop
Keepalive ==
  /\ Publish(sessions, TRUE)
  /\ UNCHANGED <<hostVars, up, drops, peerVars>>

\* _ble_loop notices that the transport has lost the link.
BleNotices ==
  /\ connected /\ ~linkUp
  /\ connected' = FALSE
  /\ UNCHANGED <<hostVars, lastPayload, linkUp, down, up, drops, peerVars>>

\* _ble_loop connects and publishes at once.
BleConnects ==
  /\ ~connected
  /\ connected' = TRUE /\ linkUp' = TRUE
  /\ LET snap == SnapshotOf(sessions)
     IN  /\ lastPayload' = IF ota THEN lastPayload ELSE snap
         /\ down' = IF ota THEN <<>> ELSE <<snap>>
  /\ UNCHANGED <<hostVars, up, drops, peerVars>>

\* The link is lost with what was on it.
LinkLost ==
  /\ linkUp /\ drops < MaxDrops
  /\ linkUp' = FALSE /\ drops' = drops + 1
  /\ down' = <<>> /\ up' = <<>>
  /\ UNCHANGED <<hostVars, lastPayload, connected, peerVars>>

\* _handle_device_permission and respond_to_device_approval: the answer goes to
\* the session that last used the id, if its proxy still waits for one.
Routed(id) == LET c == reqControl[id]
              IN  c # None /\ bridge[c] \in {"starting", "up"} /\ request[c][id] = "open"

\* Mutant: a press is taken as the answer to the prompt of the present snapshot.
OnPermissionForPrompt ==
  /\ up # <<>>
  /\ up' = Tail(up)
  /\ LET snap == SnapshotOf(sessions)
     IN  IF snap.prompt # None /\ Routed(snap.prompt)
         THEN request' = [request EXCEPT ![snap.by][snap.prompt] = "answered"]
         ELSE UNCHANGED request
  /\ UNCHANGED <<bridge, runtime, sessions, reqSession, reqControl, ota, linkVars, drops,
                 peerVars>>

OnPermission ==
  /\ up # <<>>
  /\ up' = Tail(up)
  /\ LET cmd == Head(up)
         c == reqControl[cmd.id]
     IN  IF Routed(cmd.id)
         THEN request' = [request EXCEPT ![c][cmd.id] = "answered"]
         ELSE UNCHANGED request
  /\ UNCHANGED <<bridge, runtime, sessions, reqSession, reqControl, ota, linkVars, drops,
                 peerVars>>

(***************************************************************************)
(* The peer.                                                               *)
(***************************************************************************)

\* The lines that have come are shown in their order; another prompt may be
\* answered anew.
PeerReads ==
  /\ \E n \in 1..Len(down) :
       /\ shown' = down[n]
       /\ down' = SubSeq(down, n + 1, Len(down))
  /\ lastShown' = shown'.prompt
  /\ responseSent' = (responseSent /\ shown'.prompt = lastShown)
  /\ UNCHANGED <<hostVars, lastPayload, connected, linkUp, up, drops>>

\* A press of one of its buttons answers the prompt it shows, once.
PeerPress ==
  LET cmd == [by |-> shown.by, id |-> shown.prompt]
  IN  /\ shown.prompt # None /\ ~responseSent
      /\ linkUp => Len(up) < MaxWire
      /\ up' = IF linkUp THEN Append(up, cmd) ELSE up
      /\ responseSent' = TRUE
      /\ UNCHANGED <<hostVars, linkVars, drops, shown, lastShown>>

(***************************************************************************)

\* An app server numbers its requests.
NextId(c, id) == \A other \in IdsOf[c] : other < id => request[c][other] # "unasked"

SessionEvent(c) ==
  \/ LaunchBegins(c) \/ LaunchEnds(c) \/ SessionCloses(c)
  \/ \E t \in ThreadsOf[c] : Turn(c, t) \/ Output(c, t)
  \/ \E id \in IdsOf[c] : Resolved(c, id) \/ TuiAnswers(c, id)
  \/ \E t \in ThreadsOf[c], id \in IdsOf[c] : NextId(c, id) /\ Asks(c, t, id)

Link == BleNotices \/ BleConnects \/ LinkLost

Peer == PeerReads \/ PeerPress

Next == \/ \E c \in Controls : SessionEvent(c)
        \/ ReadonlyPoll \/ BeginOta \/ EndOta
        \/ Keepalive \/ OnPermission \/ Link \/ Peer

\* The keepalive fires and what is sent on a link that lasts arrives.  Nothing says that a
\* link comes back, a button is pressed or a session ends.
Fairness == WF_vars(Keepalive) /\ WF_vars(PeerReads)

Spec == Init /\ [][Next]_vars

FairSpec == Spec /\ Fairness

(***************************************************************************)
(* Properties.                                                             *)
(***************************************************************************)

\* Every variable stays in its range.
TypeOK ==
  /\ bridge \in [Controls -> {"unused", "starting", "up", "closed"}]
  /\ runtime \in [Controls -> Runtime]
  /\ sessions \in [Threads -> Managed \cup {ReadonlyRecord, None}]
  /\ reqSession \in [Ids -> Threads \cup {None}]
  /\ reqControl \in [Ids -> Controls \cup {None}]
  /\ request \in [Controls -> [Ids -> {"unasked", "open", "answered", "done"}]]
  /\ ota \in BOOLEAN /\ connected \in BOOLEAN /\ linkUp \in BOOLEAN
  /\ lastPayload \in Snapshot \cup {None}
  /\ down \in Seq(Snapshot) /\ up \in Seq(Command)
  /\ drops \in Nat
  /\ shown \in Snapshot /\ lastShown \in Ids \cup {None} /\ responseSent \in BOOLEAN

\* What the peer is told to ask can be answered on it: the one prompt of a
\* snapshot is the latest of a session that is still there, its id leads back
\* to that session, and the server has not settled it.
PromptCanBeAnswered ==
  LET snap == SnapshotOf(sessions)
      c == snap.by
  IN  snap.prompt # None =>
        /\ c # None /\ bridge[c] = "up"
        /\ runtime[c].prompt = snap.prompt
        /\ reqControl[snap.prompt] = c
        /\ request[c][snap.prompt] \in {"open", "answered"}

\* A press decides for the session whose prompt was on the screen, and for no
\* other: however late it arrives, and whatever has been asked, settled or
\* closed meanwhile.
PressReachesItsSession ==
  [][\A c \in Controls, id \in Ids :
       up # <<>> /\ up' = Tail(up) /\ request'[c][id] # request[c][id]
       => Head(up) = [by |-> c, id |-> id]]_vars

\* No press that arrives is lost on the host while the session that asked still
\* waits: its proxy takes it.
PressIsTaken ==
  [][\A c \in Controls, id \in Ids :
       /\ up # <<>> /\ up' = Tail(up) /\ linkUp' = linkUp
       /\ Head(up) = [by |-> c, id |-> id]
       /\ bridge[c] = "up" /\ request[c][id] = "open"
       => request'[c][id] = "answered"]_vars

\* The last thing the peer was told.
Told == IF down = <<>> THEN shown ELSE down[Len(down)]

\* With a link that lasts and no update under way, what the peer was told last
\* is again and again what the catalog says, unless that never stops changing:
\* a snapshot that counts as sent (_last_payload) but was lost, or was held back
\* by an update, is made up for.
PeerIsToldAnew ==
  \/ []<>(~linkUp \/ ~connected \/ ota)
  \/ []<>(Told = SnapshotOf(sessions))
  \/ []<><<SnapshotOf(sessions)' # SnapshotOf(sessions)>>_vars
=============================================================================
