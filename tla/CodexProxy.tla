----------------------------- MODULE CodexProxy -----------------------------
(***************************************************************************)
(* The approval proxy (proxy.py) of one managed session.  It sits between  *)
(* the TUI and the app server, forwards both ways, takes decisions made on *)
(* the device, and accepts read-only checks by itself once a command of    *)
(* the same turn was accepted.                                             *)
(*                                                                         *)
(* Three kinds of asyncio tasks share _pending and _approved_mutating_turns *)
(* and change places at every await: the one that forwards from the server *)
(* (it awaits the agent, the lock and the TUI), the one that forwards from *)
(* the TUI, and one for each decision of the device.  Whoever answers the  *)
(* server holds _forward_lock while the message is written; asyncio hands  *)
(* the lock on in order, so those who hold it or wait for it are a queue.  *)
(***************************************************************************)
EXTENDS Naturals, Sequences

CONSTANTS
  Requests,  \* approval requests of the app server, by id
  Turns,     \* the turns of the thread
  TurnOf,    \* the turn of each request
  ReadOnly,  \* requests whose command is_read_only_verification_command
  Refusable, \* requests the TUI may answer with a JSON-RPC error
  None       \* no message, no decision

ASSUME CodexProxyAssumption ==
  /\ TurnOf \in [Requests -> Turns]
  /\ ReadOnly \subseteq Requests /\ Refusable \subseteq Requests
  /\ None \notin Requests \cup Turns \cup {"accept", "decline"}

VARIABLES
  request,    \* the app server: where each request is
  turn,       \* the app server: where each turn is
  received,   \* the app server: every answer that has arrived, in order
  toProxy,    \* messages from the app server
  toServer,   \* messages to the app server
  pending,    \* CodexEventSource._pending, with the flag "resolved"
  approved,   \* _approved_mutating_turns
  handling,   \* the message _forward_upstream is at work on
  outbox,     \* answers that hold the lock (the head) or wait for it
  fromTui,    \* answers from the TUI
  asking,     \* the requests the TUI shows
  tui,        \* the TUI is there
  upstream,   \* _upstream: "open", "closed" by the server, or None, "none"
  decision    \* history: what was decided about each request

serverVars == <<request, turn, received>>
proxyVars == <<pending, approved, handling, outbox, decision>>
tuiVars == <<fromTui, asking, tui>>
vars == <<serverVars, toProxy, toServer, proxyVars, tuiVars, upstream>>

Message == [kind : {"request", "resolved"}, of : Requests] \cup
           [kind : {"completed"}, of : Turns]
\* An "error" is a JSON-RPC error reply: it has no "result" and decides nothing.
Answer == [of : Requests, by : {"tui", "device", "proxy"},
           result : {"accept", "decline", "error"}]

\* Mutant: the device's word is handed on as it is.
ResponseUnmapped == [once |-> "once", deny |-> "deny"]

\* map_device_decision_to_codex_response
ResponseTo == [once |-> "accept", deny |-> "decline"]

AnswersBy(who, queue) == \E n \in DOMAIN queue : queue[n].by = who

Init ==
  /\ request = [r \in Requests |-> "new"]
  /\ turn = [t \in Turns |-> "live"]
  /\ received = <<>>
  /\ toProxy = <<>> /\ toServer = <<>>
  /\ pending = [r \in Requests |-> "none"]
  /\ approved = {} /\ handling = None /\ outbox = <<>>
  /\ fromTui = <<>> /\ asking = {} /\ tui = TRUE
  /\ upstream = "open"
  /\ decision = [r \in Requests |-> None]

(***************************************************************************)
(* The app server.                                                         *)
(***************************************************************************)
Announce(kind, x) == toProxy' = Append(toProxy, [kind |-> kind, of |-> x])

ServerAsks(r) ==
  /\ upstream = "open" /\ request[r] = "new" /\ turn[TurnOf[r]] = "live"
  /\ request' = [request EXCEPT ![r] = "open"]
  /\ Announce("request", r)
  /\ UNCHANGED <<turn, received, toServer, proxyVars, tuiVars, upstream>>

\* A request ends with its first reply, a decision or an error; one that comes
\* later is ignored.
ServerReads ==
  /\ upstream = "open" /\ toServer # <<>>
  /\ toServer' = Tail(toServer)
  /\ received' = Append(received, Head(toServer))
  /\ LET r == Head(toServer).of
     IN  IF request[r] = "open"
         THEN /\ request' = [request EXCEPT ![r] = "closed"]
              /\ Announce("resolved", r)
         ELSE UNCHANGED <<request, toProxy>>
  /\ UNCHANGED <<turn, proxyVars, tuiVars, upstream>>

\* The server gives a request up, say because the turn was interrupted.
ServerWithdraws(r) ==
  /\ upstream = "open" /\ request[r] = "open"
  /\ request' = [request EXCEPT ![r] = "closed"]
  /\ Announce("resolved", r)
  /\ UNCHANGED <<turn, received, toServer, proxyVars, tuiVars, upstream>>

ServerEndsTurn(t) ==
  /\ upstream = "open" /\ turn[t] = "live"
  /\ turn' = [turn EXCEPT ![t] = "over"]
  /\ Announce("completed", t)
  /\ UNCHANGED <<request, received, toServer, proxyVars, tuiVars, upstream>>

\* The server closes the connection in good order: what it has sent is still
\* read, what is on the way to it is not, and _upstream stays set.
ServerCloses ==
  /\ upstream = "open" /\ upstream' = "closed"
  /\ toServer' = <<>>
  /\ UNCHANGED <<serverVars, toProxy, proxyVars, tuiVars>>

(***************************************************************************)
(* The proxy.                                                              *)
(***************************************************************************)

\* Mutant: an answer that would have to wait for the lock is given up.
DecideUnlessBusy(r, who, result) ==
  /\ pending' = [pending EXCEPT ![r] = "resolved"]
  /\ decision' = [decision EXCEPT ![r] = result]
  /\ approved' = IF result = "accept" /\ r \notin ReadOnly
                 THEN approved \cup {TurnOf[r]} ELSE approved
  /\ outbox' = IF outbox # <<>> THEN outbox
               ELSE Append(outbox, [of |-> r, by |-> who, result |-> result])

\* A decision is taken: the flag is set, an accepted command that changes
\* something is remembered with its turn, and the answer queues for the lock.
\* All of this comes before the first await.
Decide(r, who, result) ==
  /\ pending' = [pending EXCEPT ![r] = "resolved"]
  /\ decision' = [decision EXCEPT ![r] = result]
  /\ approved' = IF result = "accept" /\ r \notin ReadOnly
                 THEN approved \cup {TurnOf[r]} ELSE approved
  /\ outbox' = Append(outbox, [of |-> r, by |-> who, result |-> result])

\* _should_auto_accept
AutoAccepts(r) == r \in ReadOnly /\ TurnOf[r] \in approved

Takes(kind) == /\ upstream # "none" /\ handling = None /\ toProxy # <<>>
               /\ Head(toProxy).kind = kind
               /\ toProxy' = Tail(toProxy) /\ handling' = Head(toProxy)

\* item/commandExecution/requestApproval
TakesRequest ==
  /\ Takes("request")
  /\ LET r == Head(toProxy).of
     IN  IF AutoAccepts(r)
         THEN Decide(r, "proxy", "accept")
         ELSE /\ pending' = [pending EXCEPT ![r] = "open"]
              /\ UNCHANGED <<approved, outbox, decision>>
  /\ UNCHANGED <<serverVars, toServer, tuiVars, upstream>>

\* serverRequest/resolved
TakesResolved ==
  /\ Takes("resolved")
  /\ pending' = [pending EXCEPT ![Head(toProxy).of] = IF @ = "none" THEN @ ELSE "resolved"]
  /\ UNCHANGED <<serverVars, toServer, approved, outbox, decision, tuiVars, upstream>>

\* turn/completed
TakesCompleted ==
  /\ Takes("completed")
  /\ approved' = approved \ {Head(toProxy).of}
  /\ UNCHANGED <<serverVars, toServer, pending, outbox, decision, tuiVars, upstream>>

\* The connection is over for everybody: what was under way is lost, and who
\* waits for the lock finds no upstream.
GiveUp ==
  /\ upstream' = "none"
  /\ toProxy' = <<>> /\ toServer' = <<>> /\ outbox' = <<>> /\ handling' = None
  /\ fromTui' = <<>> /\ asking' = {} /\ tui' = FALSE

\* The agent, and the lock when the proxy itself has answered, have been
\* awaited: the message goes on to the TUI, also when it was answered for it.
\* With the TUI gone the send raises.  What the TUI answers to is what has been
\* forwarded; fromTui has all the delay there is between the two.
ForwardsToTui ==
  /\ upstream # "none" /\ handling # None /\ ~AnswersBy("proxy", outbox)
  /\ IF tui
     THEN /\ handling' = None
          /\ asking' = CASE handling.kind = "request" -> asking \cup {handling.of}
                         [] handling.kind = "resolved" -> asking \ {handling.of}
                         [] OTHER -> asking
          /\ UNCHANGED <<toProxy, toServer, outbox, fromTui, tui, upstream>>
     ELSE GiveUp
  /\ UNCHANGED <<serverVars, pending, approved, decision>>

\* The next message of the TUI, once the one before it has been written.
NextOfTui ==
  /\ upstream # "none" /\ fromTui # <<>> /\ ~AnswersBy("tui", outbox)
  /\ fromTui' = Tail(fromTui)
  /\ UNCHANGED <<serverVars, toProxy, toServer, handling, asking, tui, upstream>>

\* _is_late_approval_response looks at replies with a "result" only: an error
\* goes on to the server, whatever the flag says, and leaves it as it is.
HandsErrorOn ==
  /\ Head(fromTui).result = "error"
  /\ outbox' = Append(outbox, Head(fromTui))
  /\ UNCHANGED <<pending, approved, decision>>

\* Mutant: an answer of the TUI is not checked against the flag.
ForwardsAnswerUnchecked ==
  /\ NextOfTui
  /\ \/ HandsErrorOn
     \/ /\ Head(fromTui).result # "error"
        /\ Decide(Head(fromTui).of, "tui", Head(fromTui).result)

\* Mutant: a late answer is dropped only after its approval was noted.
ForwardsAnswerNotedFirst ==
  /\ NextOfTui
  /\ LET a == Head(fromTui)
     IN  \/ HandsErrorOn
         \/ /\ a.result # "error" /\ pending[a.of] = "resolved"
            /\ approved' = IF a.result = "accept" /\ a.of \notin ReadOnly
                           THEN approved \cup {TurnOf[a.of]} ELSE approved
            /\ UNCHANGED <<pending, outbox, decision>>
         \/ /\ a.result # "error" /\ pending[a.of] # "resolved"
            /\ Decide(a.of, "tui", a.result)

\* _forward_downstream: a decision of the TUI is handed on unless it comes too
\* late.
ForwardsAnswer ==
  /\ NextOfTui
  /\ LET a == Head(fromTui)
     IN  \/ HandsErrorOn
         \/ /\ a.result # "error" /\ pending[a.of] = "resolved"
            /\ UNCHANGED <<pending, approved, outbox, decision>>
         \/ /\ a.result # "error" /\ pending[a.of] # "resolved"
            /\ Decide(a.of, "tui", a.result)

\* respond_to_device_approval up to the lock: a closed connection is not None.
DeviceAnswers(r, d) ==
  /\ upstream # "none" /\ pending[r] = "open"
  /\ Decide(r, "device", ResponseTo[d])
  /\ UNCHANGED <<serverVars, toProxy, toServer, handling, tuiVars, upstream>>

\* Mutant: the waiter that came last gets the lock.
WritesLast ==
  /\ upstream = "open" /\ outbox # <<>>
  /\ toServer' = Append(toServer, outbox[Len(outbox)])
  /\ outbox' = SubSeq(outbox, 1, Len(outbox) - 1)
  /\ UNCHANGED <<serverVars, toProxy, pending, approved, handling, decision, tuiVars, upstream>>

\* The holder of the lock has written its message and hands the lock on.
Writes ==
  /\ upstream = "open" /\ outbox # <<>>
  /\ toServer' = Append(toServer, Head(outbox))
  /\ outbox' = Tail(outbox)
  /\ UNCHANGED <<serverVars, toProxy, pending, approved, handling, decision, tuiVars, upstream>>

\* On a closed connection the send raises: in the task of a device decision,
\* which is lost with the flag set, or in one that forwards, and gather raises.
WriteFails ==
  /\ upstream = "closed" /\ outbox # <<>>
  /\ \/ /\ Head(outbox).by = "device"
        /\ outbox' = Tail(outbox)
        /\ UNCHANGED <<toProxy, toServer, handling, tuiVars, upstream>>
     \/ Head(outbox).by # "device" /\ GiveUp
  /\ UNCHANGED <<serverVars, pending, approved, decision>>

\* Both loops of gather have come to their end.
ClientLeaves ==
  /\ upstream = "closed" /\ toProxy = <<>> /\ handling = None
  /\ ~tui /\ fromTui = <<>> /\ ~AnswersBy("tui", outbox)
  /\ GiveUp
  /\ UNCHANGED <<serverVars, pending, approved, decision>>

(***************************************************************************)
(* The TUI, and the end of the connection.                                 *)
(***************************************************************************)
TuiAnswers(r, result) ==
  /\ tui /\ r \in asking
  /\ result = "error" => r \in Refusable
  /\ asking' = asking \ {r}
  /\ fromTui' = Append(fromTui, [of |-> r, by |-> "tui", result |-> result])
  /\ UNCHANGED <<serverVars, toProxy, toServer, proxyVars, tui, upstream>>

\* The TUI closes its connection in good order: what it sent is still read,
\* and the upstream stays until the next message for the TUI.
TuiQuits ==
  /\ tui /\ tui' = FALSE
  /\ asking' = {}
  /\ UNCHANGED <<serverVars, toProxy, toServer, proxyVars, fromTui, upstream>>

\* Either end breaks, or the TUI sends something else over a closed connection,
\* and _handle_client leaves.
ConnectionLost == upstream # "none" /\ GiveUp /\ UNCHANGED <<serverVars, pending, approved, decision>>

(***************************************************************************)

Server == \/ \E r \in Requests : ServerAsks(r) \/ ServerWithdraws(r)
          \/ ServerReads \/ ServerCloses
          \/ \E t \in Turns : ServerEndsTurn(t)

Proxy == \/ TakesRequest \/ TakesResolved \/ TakesCompleted
         \/ ForwardsToTui \/ ForwardsAnswer
         \/ Writes \/ WriteFails \/ ClientLeaves
         \/ \E r \in Requests, d \in {"once", "deny"} : DeviceAnswers(r, d)

Tui == \/ TuiQuits \/ ConnectionLost
       \/ \E r \in Requests, result \in {"accept", "decline", "error"} :
            TuiAnswers(r, result)

Next == Server \/ Proxy \/ Tui

\* Sockets drain and tasks run when they can.  Nobody has to answer.
Fairness ==
  /\ WF_vars(Writes) /\ WF_vars(ServerReads)
  /\ WF_vars(TakesRequest) /\ WF_vars(TakesResolved) /\ WF_vars(TakesCompleted)
  /\ WF_vars(ForwardsToTui) /\ WF_vars(ForwardsAnswer)

Spec == Init /\ [][Next]_vars

FairSpec == Spec /\ Fairness

(***************************************************************************)
(* Properties.                                                             *)
(***************************************************************************)

\* Every variable stays in its range.
TypeOK ==
  /\ request \in [Requests -> {"new", "open", "closed"}]
  /\ turn \in [Turns -> {"live", "over"}]
  /\ received \in Seq(Answer) /\ toServer \in Seq(Answer) /\ outbox \in Seq(Answer)
  /\ toProxy \in Seq(Message) /\ handling \in Message \cup {None}
  /\ pending \in [Requests -> {"none", "open", "resolved"}]
  /\ approved \subseteq Turns
  /\ fromTui \in Seq(Answer) /\ asking \subseteq Requests
  /\ tui \in BOOLEAN /\ upstream \in {"open", "closed", "none"}
  /\ decision \in [Requests -> {"accept", "decline", None}]

IsDecision(a) == a.result # "error"

\* The server gets at most one decision of a request, and it is the first that
\* was taken: of the TUI, the device and the proxy itself, racing each other
\* over two awaits, one wins and the others are dropped.  What may come on top
\* is an error reply, and that from the TUI alone: the proxy lets it through.
OneDecisionPerRequest ==
  LET sent == received \o toServer \o outbox
  IN  \A m, n \in DOMAIN sent :
        /\ sent[m].of = sent[n].of /\ IsDecision(sent[m]) /\ IsDecision(sent[n]) => m = n
        /\ IsDecision(sent[m]) => sent[m].result = decision[sent[m].of]
        /\ ~IsDecision(sent[m]) => sent[m].by = "tui"

\* An answer of the proxy itself reaches the server after a user's acceptance
\* of a changing command of the same turn, never before it.
AutoAcceptFollowsApproval ==
  \A n \in DOMAIN received :
    received[n].by = "proxy" =>
      \E m \in 1..(n - 1) : /\ received[m].by # "proxy" /\ received[m].result = "accept"
                            /\ received[m].of \notin ReadOnly
                            /\ TurnOf[received[m].of] = TurnOf[received[n].of]

Status == [r \in Requests |->
             CASE decision[r] # None -> decision[r]
               [] decision[r] = None /\ pending[r] = "none" -> "none"
               [] decision[r] = None /\ pending[r] = "open" -> "waiting"
               [] OTHER -> "withdrawn"]

Approval == INSTANCE CodexApproval WITH status <- Status

\* Requests are decided once, by users, or unasked where that is allowed.
ImplementsApproval == Approval!Spec

\* A decision that was taken reaches the server while the connection to it
\* stays open: whoever lost the race was dropped for an answer that arrives.
DecisionArrives ==
  \A r \in Requests :
    (decision[r] # None) ~>
      \/ upstream # "open"
      \/ \E n \in DOMAIN received : received[n].of = r /\ received[n].result = decision[r]
=============================================================================
