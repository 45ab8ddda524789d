------------------------- MODULE DshApprovalProofs -------------------------
(***************************************************************************)
(* Proofs about DshApproval, for any finite set of concurrent tool calls   *)
(* and any bound on the lines in flight and on the pulled cables.          *)
(*                                                                         *)
(* The argument: a call is pending exactly while its promise is open, and  *)
(* only settle() closes it (Stages); a command on its way names a decision *)
(* that was pressed for the call it names (AnswersPressed).                *)
(***************************************************************************)
EXTENDS DshApproval, FiniteSetTheorems, SequenceTheorems, TLAPS

\* A pending call was taken over and is undecided; no other call is decided.
Stages ==
  \A c \in Calls :
    /\ c \in pending => stage[c] = "device" /\ outcome[c] = "none"
    /\ stage[c] = "device" => tool[c] # "excluded"
    /\ stage[c] # "device" => outcome[c] = "none"

\* No permission command is on its way that the device did not send.
AnswersPressed == \A i \in 1..Len(up) : up[i] \in pressed

IInv == /\ TypeOK
        /\ Stages
        /\ AnswersPressed
        /\ DecidedOnTheDevice
        /\ PromptIsPending

(***************************************************************************)
(* The pieces of the actions.                                              *)
(***************************************************************************)

\* How many calls wait is a number.
LEMMA PendingCount == ASSUME NEW p \in SUBSET Calls PROVE Cardinality(p) \in Nat
<1>1. IsFiniteSet(p)
  BY FS_Subset, DshApprovalAssumption DEF DshApprovalAssumption
<1>2. QED
  BY <1>1, FS_CardinalityType

\* What a flush sends is a snapshot, and the time it carries is due again later.
LEMMA FlushType ==
  ASSUME NEW p \in Calls \cup {None}
  PROVE  Flush(p) \in Snapshot /\ FlushAgain(p) \in Snapshot
BY DEF Flush, FlushAgain, Snapshot

LEMMA FlushedType ==
  ASSUME TypeOK, Flushed
  PROVE  sync' \in {"due", "sent", "beat", "rest"}
BY DEF TypeOK, Flushed

\* What send() does with good snapshots leaves good lines.
LEMMA WriteOneType ==
  ASSUME TypeOK, NEW s \in Snapshot, Send(WriteOne(s))
  PROVE  /\ line' \in Snapshot \cup {None}
         /\ writeTimer' \in BOOLEAN
         /\ down' \in Seq(Snapshot)
<1>1. Append(down, s) \in Seq(Snapshot)
  BY AppendProperties DEF TypeOK
<1>2. QED
  BY <1>1 DEF TypeOK, Send, WriteOne, Coalesce

LEMMA WriteManyType ==
  ASSUME TypeOK, NEW s \in Snapshot, NEW l \in Snapshot, Send(WriteMany(s, l))
  PROVE  /\ line' \in Snapshot \cup {None}
         /\ writeTimer' \in BOOLEAN
         /\ down' \in Seq(Snapshot)
<1>1. Append(down, s) \in Seq(Snapshot)
  BY AppendProperties DEF TypeOK
<1>2. QED
  BY <1>1 DEF TypeOK, Send, WriteMany, Coalesce

\* Settling open calls keeps the invariant when the device decided so.
LEMMA SettleIInv ==
  ASSUME IInv, NEW cs \in SUBSET pending,
         NEW r \in {"allowed-once", "rejected", "cancelled"}, Settle(cs, r),
         UNCHANGED deviceVars,
         up' \in Seq(Command), \A i \in 1..Len(up') : up'[i] \in pressed,
         \A c \in cs : /\ r = "allowed-once" => [id |-> c, decision |-> "once"] \in pressed
                       /\ r = "rejected" => [id |-> c, decision |-> "deny"] \in pressed
  PROVE  IInv'
<1> USE DEF deviceVars
<1>1. /\ pending' = pending \ cs /\ pending' \in SUBSET Calls
      /\ waiting' = Cardinality(pending')
      /\ prompt' = None
      /\ UNCHANGED <<tool, stage, argCache, connected, drops>>
      /\ \A c \in Calls : outcome'[c] = IF c \in cs THEN r ELSE outcome[c]
      /\ outcome' \in [Calls -> {"none", "allowed-once", "rejected", "cancelled"}]
  BY DEF Settle, IInv, TypeOK
<1>2. waiting' \in Nat
  BY <1>1, PendingCount
<1>3. Flush(None) \in Snapshot /\ FlushAgain(None) \in Snapshot
  BY FlushType
<1>4. TypeOK'
  <2>1. /\ line' \in Snapshot \cup {None} /\ writeTimer' \in BOOLEAN
        /\ down' \in Seq(Snapshot) /\ sync' \in {"due", "sent", "beat", "rest"}
    BY <1>3, WriteManyType, FlushedType DEF IInv, Settle
  <2>2. QED
    BY <1>1, <1>2, <2>1 DEF IInv, TypeOK
<1>5. Stages'
  BY <1>1 DEF IInv, Stages, TypeOK
<1>6. AnswersPressed'
  BY DEF AnswersPressed
<1>7. DecidedOnTheDevice'
  BY <1>1 DEF IInv, DecidedOnTheDevice
<1>8. PromptIsPending'
  BY <1>1 DEF PromptIsPending
<1>9. QED
  BY <1>4, <1>5, <1>6, <1>7, <1>8 DEF IInv

(***************************************************************************)
(* The inductive invariant.                                                *)
(***************************************************************************)

LEMMA InitIInv == Init => IInv
<1> SUFFICES ASSUME Init PROVE IInv
  OBVIOUS
<1>1. TypeOK
  BY EmptySeq DEF Init, TypeOK
<1>2. QED
  BY <1>1 DEF Init, IInv, Stages, AnswersPressed, DecidedOnTheDevice, PromptIsPending

LEMMA IInvInductive == IInv /\ [Next]_vars => IInv'
<1> SUFFICES ASSUME IInv, [Next]_vars PROVE IInv'
  OBVIOUS
<1>0. TypeOK
  BY DEF IInv
<1> USE DEF callVars, hbVars, cdcVars, deviceVars
<1>1. ASSUME NEW c \in Calls, PreExecute(c) \/ FallThrough(c) PROVE IInv'
  <2>1. /\ stage[c] # "device"
        /\ stage' \in [Calls -> {"new", "asked", "passed", "device", "webui"}]
        /\ stage'[c] # "device"
        /\ \A d \in Calls : d # c => stage'[d] = stage[d]
        /\ argCache' \subseteq Calls
        /\ UNCHANGED <<tool, pending, outcome, hbVars, cdcVars, up, deviceVars>>
    BY <1>0, <1>1 DEF PreExecute, FallThrough, TypeOK
  <2>2. c \notin pending /\ outcome[c] = "none"
    BY <2>1 DEF IInv, Stages
  <2>3. TypeOK'
    BY <1>0, <2>1 DEF TypeOK
  <2>4. Stages'
    BY <2>1, <2>2 DEF IInv, Stages
  <2>5. (AnswersPressed /\ DecidedOnTheDevice /\ PromptIsPending)'
    BY <2>1 DEF IInv, AnswersPressed, DecidedOnTheDevice, PromptIsPending
  <2>6. QED
    BY <2>3, <2>4, <2>5 DEF IInv
<1>2. ASSUME NEW c \in Calls, TakeOver(c) PROVE IInv'
  <2>1. /\ stage[c] # "device" /\ tool[c] # "excluded"
        /\ stage' = [stage EXCEPT ![c] = "device"]
        /\ pending' = pending \cup {c} /\ pending' \in SUBSET Calls
        /\ prompt' = c /\ waiting' = 1 /\ argCache' \subseteq Calls
        /\ UNCHANGED <<tool, outcome, connected, drops, up, deviceVars>>
    BY <1>0, <1>2 DEF TakeOver, TakesOver, TypeOK
  <2>2. Flush(prompt) \in Snapshot /\ FlushAgain(c) \in Snapshot
    BY <1>0, FlushType DEF TypeOK
  <2>3. /\ line' \in Snapshot \cup {None} /\ writeTimer' \in BOOLEAN
        /\ down' \in Seq(Snapshot) /\ sync' \in {"due", "sent", "beat", "rest"}
    BY <1>0, <1>2, <2>2, WriteManyType, FlushedType DEF TakeOver
  <2>4. TypeOK'
    BY <1>0, <2>1, <2>3 DEF TypeOK
  <2>5. Stages'
    BY <1>0, <2>1 DEF IInv, Stages, TypeOK
  <2>6. (AnswersPressed /\ DecidedOnTheDevice /\ PromptIsPending)'
    BY <2>1 DEF IInv, AnswersPressed, DecidedOnTheDevice, PromptIsPending
  <2>7. QED
    BY <2>4, <2>5, <2>6 DEF IInv
<1>3. ASSUME NEW c \in Calls, Timeout(c) PROVE IInv'
  <2>1. {c} \in SUBSET pending /\ Settle({c}, "cancelled") /\ UNCHANGED <<up, deviceVars>>
    BY <1>3 DEF Timeout
  <2>2. up' \in Seq(Command) /\ \A i \in 1..Len(up') : up'[i] \in pressed
    BY <1>0, <2>1 DEF IInv, TypeOK, AnswersPressed
  <2>3. QED
    BY <2>1, <2>2, SettleIInv
<1>4. CASE OnPermission
  <2>1. up # <<>> /\ up' = Tail(up) /\ UNCHANGED deviceVars
    BY <1>4 DEF OnPermission
  <2>2. /\ up' \in Seq(Command) /\ \A i \in 1..Len(up') : up'[i] \in pressed
        /\ Head(up) \in Command /\ Head(up) \in pressed
    <3>1. up \in Seq(Command) /\ \A i \in 1..Len(up) : up[i] \in pressed
      BY <1>0 DEF TypeOK, IInv, AnswersPressed
    <3>2. QED
      BY <2>1, <3>1, HeadTailProperties
  <2>3. CASE Head(up).id \in pending
    <3> DEFINE r == OutcomeOf[Head(up).decision]
    <3>1. Settle({Head(up).id}, r)
      BY <1>4, <2>3 DEF OnPermission
    <3>2. /\ Head(up).decision \in Decision
          /\ Head(up) = [id |-> Head(up).id, decision |-> Head(up).decision]
      BY <2>2 DEF Command
    <3>3. /\ r \in {"allowed-once", "rejected", "cancelled"}
          /\ r = "allowed-once" => Head(up).decision = "once"
          /\ r = "rejected" => Head(up).decision = "deny"
      BY <3>2 DEF OutcomeOf, Decision
    <3>4. /\ r = "allowed-once" => [id |-> Head(up).id, decision |-> "once"] \in pressed
          /\ r = "rejected" => [id |-> Head(up).id, decision |-> "deny"] \in pressed
      BY <2>2, <3>2, <3>3
    <3>5. QED
      BY <2>1, <2>2, <2>3, <3>1, <3>3, <3>4, SettleIInv
  <2>4. CASE Head(up).id \notin pending
    <3>1. UNCHANGED <<callVars, hbVars, cdcVars, deviceVars>>
      BY <1>4, <2>1, <2>4 DEF OnPermission
    <3>2. TypeOK'
      BY <1>0, <2>2, <3>1 DEF TypeOK
    <3>3. QED
      BY <2>2, <3>1, <3>2 DEF IInv, Stages, AnswersPressed, DecidedOnTheDevice,
         PromptIsPending
  <2>5. QED
    BY <2>3, <2>4
<1>5. CASE OnUnpair
  <2>1. Settle(pending, "cancelled") /\ UNCHANGED <<up, deviceVars>>
    BY <1>5 DEF OnUnpair
  <2>2. up' \in Seq(Command) /\ \A i \in 1..Len(up') : up'[i] \in pressed
    BY <1>0, <2>1 DEF IInv, TypeOK, AnswersPressed
  <2>3. QED
    BY <2>1, <2>2, SettleIInv
\* The steps of the serial port and of the device: they only move lines.
<1>6. ASSUME TypeOK', UNCHANGED <<callVars, prompt, waiting>>, pressed \subseteq pressed',
             \A i \in 1..Len(up') : up'[i] \in pressed'
      PROVE  IInv'
  BY <1>6 DEF IInv, Stages, AnswersPressed, DecidedOnTheDevice, PromptIsPending
<1>7. CASE Heartbeat
  <2>1. Flush(prompt) \in Snapshot
    BY <1>0, FlushType DEF TypeOK
  <2>2. /\ line' \in Snapshot \cup {None} /\ writeTimer' \in BOOLEAN
        /\ down' \in Seq(Snapshot)
    BY <1>0, <1>7, <2>1, WriteOneType DEF Heartbeat
  <2>3. TypeOK'
    BY <1>0, <1>7, <2>2 DEF Heartbeat, TypeOK
  <2>4. QED
    BY <1>6, <1>7, <2>3 DEF Heartbeat, IInv, AnswersPressed
<1>15. CASE TimePasses
  <2>1. TypeOK'
    BY <1>0, <1>15 DEF TimePasses, TypeOK
  <2>2. QED
    BY <1>6, <1>15, <2>1 DEF TimePasses, IInv, AnswersPressed
<1>8. CASE WriteTimer
  <2>1. TypeOK'
    <3>1. line # None => Append(down, line) \in Seq(Snapshot)
      BY <1>0, AppendProperties DEF TypeOK
    <3>2. QED
      BY <1>0, <1>8, <3>1 DEF WriteTimer, TypeOK
  <2>2. QED
    BY <1>6, <1>8, <2>1 DEF WriteTimer, IInv, AnswersPressed
<1>9. CASE Connect
  <2>1. Flush(prompt) \in Snapshot /\ sync' \in {"due", "sent", "beat", "rest"}
    BY <1>0, <1>9, FlushType, FlushedType DEF TypeOK, Connect
  <2>2. Append(down, Flush(prompt)) \in Seq(Snapshot)
    BY <1>0, <2>1, AppendProperties DEF TypeOK
  <2>3. TypeOK'
    BY <1>0, <1>9, <2>1, <2>2 DEF Connect, WriteOne, Coalesce, TypeOK
  <2>4. QED
    BY <1>6, <1>9, <2>3 DEF Connect, IInv, AnswersPressed
<1>10. CASE Disconnect
  <2>1. TypeOK' /\ \A i \in 1..Len(up') : up'[i] \in pressed'
    <3>0. down' = <<>> /\ up' = <<>>
      BY <1>10 DEF Disconnect
    <3>1. down' \in Seq(Snapshot) /\ up' \in Seq(Command)
      BY <3>0, EmptySeq
    <3>a. /\ connected' \in BOOLEAN
          /\ UNCHANGED <<callVars, hbVars, line, writeTimer, deviceVars>>
      BY <1>10 DEF Disconnect
    <3>b. drops' = drops + 1
      BY <1>10 DEF Disconnect
    <3>c. drops' \in Nat
      BY <1>0, <3>b DEF TypeOK
    <3>2. TypeOK'
      BY <1>0, <3>1, <3>a, <3>c DEF TypeOK
    <3>3. 1..Len(up') = {}
      BY <1>10 DEF Disconnect
    <3>4. QED
      BY <3>2, <3>3
  <2>2. QED
    BY <1>6, <1>10, <2>1 DEF Disconnect
<1>11. CASE DeviceReads
  <2>1. PICK n \in 1..Len(down) : \E i \in 0..n :
          /\ shown' = IF i = 0 THEN shown ELSE down[i].prompt
          /\ down' = SubSeq(down, n + 1, Len(down))
    BY <1>11 DEF DeviceReads
  <2>2. PICK i \in 0..n : shown' = IF i = 0 THEN shown ELSE down[i].prompt
    BY <2>1
  <2>3. down' \in Seq(Snapshot) /\ shown' \in Calls \cup {None}
    <3>1. down \in Seq(Snapshot) /\ Len(down) \in Nat
      BY <1>0, LenProperties DEF TypeOK
    <3>2. i # 0 => down[i] \in Snapshot
      BY <3>1
    <3>3. shown' \in Calls \cup {None}
      BY <1>0, <2>2, <3>2 DEF Snapshot, TypeOK
    <3>4. QED
      BY <2>1, <3>1, <3>3, SubSeqProperties
  <2>4. TypeOK'
    <3>1. responseSent' \in BOOLEAN /\ lastShown' = shown'
      BY <1>11 DEF DeviceReads
    <3>2. UNCHANGED <<callVars, hbVars, connected, line, writeTimer, drops, up, pressed>>
      BY <1>11 DEF DeviceReads
    <3>3. QED
      BY <1>0, <2>3, <3>1, <3>2 DEF TypeOK
  <2>5. QED
    BY <1>6, <1>11, <2>4 DEF DeviceReads, IInv, AnswersPressed
<1>12. ASSUME NEW d \in Decision, DevicePress(d) PROVE IInv'
  <2> DEFINE cmd == [id |-> shown, decision |-> d]
  <2>1. /\ cmd \in Command /\ pressed' = pressed \cup {cmd}
        /\ up' = up \/ up' = Append(up, cmd)
        /\ UNCHANGED <<callVars, hbVars, cdcVars, shown, lastShown>>
    BY <1>0, <1>12 DEF DevicePress, Command, TypeOK
  <2>2. up' \in Seq(Command) /\ \A i \in 1..Len(up') : up'[i] \in pressed'
    <3>1. up \in Seq(Command) /\ \A i \in 1..Len(up) : up[i] \in pressed
      BY <1>0 DEF TypeOK, IInv, AnswersPressed
    <3>2. CASE up' = up
      BY <2>1, <3>1, <3>2
    <3>3. CASE up' = Append(up, cmd)
      BY <2>1, <3>1, <3>3, AppendProperties
    <3>4. QED
      BY <2>1, <3>2, <3>3
  <2>3. TypeOK'
    BY <1>0, <1>12, <2>1, <2>2 DEF DevicePress, TypeOK
  <2>4. QED
    BY <1>6, <2>1, <2>2, <2>3
<1>13. CASE DeviceReboot
  <2>1. TypeOK'
    BY <1>0, <1>13 DEF DeviceReboot, TypeOK
  <2>2. QED
    BY <1>6, <1>13, <2>1 DEF DeviceReboot, IInv, AnswersPressed
<1>14. CASE UNCHANGED vars
  <2>1. TypeOK'
    BY <1>0, <1>14 DEF vars, TypeOK
  <2>2. QED
    BY <1>6, <1>14, <2>1 DEF vars, IInv, AnswersPressed
<1>16. QED
  BY <1>1, <1>2, <1>3, <1>4, <1>5, <1>7, <1>8, <1>9, <1>10, <1>11, <1>12, <1>13, <1>14,
     <1>15
     DEF Next, Hook, Device

\* The invariant that carries the results below; every reachable state is
\* well typed.
THEOREM Invariant == Spec => []IInv
<1>1. QED
  BY InitIInv, IInvInductive, PTL DEF Spec

THEOREM TypeCorrect == Spec => []TypeOK
<1>1. IInv => TypeOK
  BY DEF IInv
<1>2. QED
  BY <1>1, Invariant, PTL

(***************************************************************************)
(* What the plugin guarantees.                                             *)
(***************************************************************************)

\* However many approvals overlap and however late an answer is, a tool is
\* allowed or refused only by a press made for that call.
THEOREM DecisionsAreGenuine == Spec => []DecidedOnTheDevice
<1>1. IInv => DecidedOnTheDevice
  BY DEF IInv
<1>2. QED
  BY <1>1, Invariant, PTL

\* The plugin never decides about a tool that is left to the Web UI.
THEOREM WebUIToolsUntouched == Spec => []ExcludedLeftToWebUI
<1>1. IInv => ExcludedLeftToWebUI
  BY DEF IInv, Stages, ExcludedLeftToWebUI
<1>2. QED
  BY <1>1, Invariant, PTL

\* A heartbeat never carries a prompt that nobody waits for any more.
THEOREM PromptsAreLive == Spec => []PromptIsPending
<1>1. IInv => PromptIsPending
  BY DEF IInv
<1>2. QED
  BY <1>1, Invariant, PTL

\* No outcome is ever replaced, whichever of timer, answer and unpair is late.
THEOREM OutcomesAreFinal == Spec => SettledForGood
<1>1. ASSUME IInv, [Next]_vars, NEW c \in Calls, outcome[c] # "none"
      PROVE  outcome'[c] = outcome[c]
  <2>1. ASSUME NEW cs, NEW r, Settle(cs, r), c \notin cs
        PROVE  outcome'[c] = outcome[c]
    BY <2>1 DEF Settle
  <2>2. c \notin pending
    BY <1>1 DEF IInv, Stages
  <2>3. ASSUME NEW d \in Calls, Hook(d) PROVE outcome' = outcome
    BY <2>3 DEF Hook, PreExecute, FallThrough, TakeOver
  <2>4. ASSUME NEW d \in Calls, Timeout(d) PROVE outcome'[c] = outcome[c]
    BY <2>1, <2>2, <2>4 DEF Timeout
  <2>5. CASE OnPermission
    BY <2>1, <2>2, <2>5 DEF OnPermission, callVars
  <2>6. CASE OnUnpair
    BY <2>1, <2>2, <2>6 DEF OnUnpair
  <2>7. CASE Heartbeat \/ TimePasses \/ WriteTimer \/ Connect \/ Disconnect
             \/ UNCHANGED vars
    BY <2>7 DEF Heartbeat, TimePasses, WriteTimer, Connect, Disconnect, vars, callVars
  <2>8. CASE Device
    BY <2>8 DEF Device, DeviceReads, DeviceReboot, DevicePress, callVars
  <2>9. QED
    BY <1>1, <2>3, <2>4, <2>5, <2>6, <2>7, <2>8 DEF Next
<1>2. IInv /\ [Next]_vars =>
        [\A c \in Calls : outcome[c] # "none" => outcome'[c] = outcome[c]]_vars
  BY <1>1
<1>3. QED
  BY <1>2, Invariant, PTL DEF Spec, SettledForGood
=============================================================================
