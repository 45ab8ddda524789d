-------------------------- MODULE BootHealthProofs --------------------------
(***************************************************************************)
(* Proofs about BootHealth, for every timeout, every bound on the clock    *)
(* and on the number of resets, and both builds.                           *)
(*                                                                         *)
(* The argument: deciding on a rollback and latching HALTED happen in one  *)
(* critical section, so the phase of the supervisor names the one task     *)
(* that may act on the image (PhaseOwner, OneActor), and a phase other     *)
(* than INERT is only entered for the pending image that is running        *)
(* (OnTrial).  Confirmation, the retained record and the abstract trial    *)
(* follow from that.                                                       *)
(***************************************************************************)
EXTENDS BootHealth, TLAPS

ActPoints == OwnerPoints \cup MarkPoints

\* The phase says whether a task is rolling back or confirming.
PhaseOwner ==
  \A t \in Task : /\ pc[t] \in OwnerPoints => sup.phase = "HALTED"
                  /\ pc[t] \in MarkPoints => sup.phase = "MARK_VALID"

\* No two tasks act on the image at once.
OneActor == \A t, u \in Task : pc[t] \in ActPoints /\ pc[u] \in ActPoints => t = u

\* Before arming the supervisor is as RAM initialisation left it.
Unarmed == pc["loop"] \in {"observe", "arm"} =>
             sup = InitialSup /\ pc["watchdog"] = "off"

\* The supervisor judges nothing but the pending image that is running.
OnTrial ==
  /\ slot = "target" <=> img # "invalid"
  /\ sup.phase \in {"MONITORING", "ROLLBACK", "HALTED"} => img = "pending"
  /\ sup.phase = "MARK_VALID" => slot = "target"
  /\ \A t \in Task : pc[t] \in {"marking", "unmarked"} => img = "pending"

\* Readiness is never recorded for a check that did not pass, and the required
\* set does not grow between the claim and the confirmation.
ReadyIsHealthy ==
  /\ sup.ready \subseteq healthy
  /\ pc["loop"] = "marking" => Required \subseteq healthy

\* The watchdog polls only past the deadline, so it never confirms: the one
\* task that does is the one whose iteration takes in the USB lines.
WatchdogIsLate ==
  /\ pc["watchdog"] \notin MarkPoints
  /\ pc["watchdog"] = "claim" /\ sup.phase = "MONITORING" =>
       DeadlineReached(sup, at["watchdog"])

\* A committed record holds the reason of the halt in progress, or of the
\* last one while this boot has not read it yet.
RecordIsGenuine ==
  /\ \A t \in Task : pc[t] = "magic" => rec.reason = sup.reason
  /\ rec.magic => \/ sup.phase = "HALTED" /\ rec.reason = sup.reason
                  \/ pc["loop"] = "observe" /\ rec.reason \in {"none", lastHalt}

IInv == /\ TypeOK
        /\ PhaseOwner
        /\ OneActor
        /\ Unarmed
        /\ OnTrial
        /\ ReadyIsHealthy
        /\ WatchdogIsLate
        /\ RecordIsGenuine
        /\ ObservedReasonIsGenuine

(***************************************************************************)
(* The supervisor's transitions: what they return.                         *)
(***************************************************************************)

LEMMA ArmType ==
  ASSUME NEW t \in Nat, NEW q \in {"UNKNOWN", "NON_PENDING", "PENDING_VERIFY"},
         NEW l \in BOOLEAN
  PROVE  /\ Arm(q, t, l) \in SupRecord
         /\ Arm(q, t, l).phase \in {"INERT", "QUERY_UNKNOWN", "MONITORING", "ROLLBACK"}
         /\ Arm(q, t, l).ready = {}
         /\ Arm(q, t, l).phase \in {"MONITORING", "ROLLBACK"} => q = "PENDING_VERIFY"
<1> DEFINE d == t + Timeout
<1>1. d \in Nat
  BY BootHealthAssumption DEF BootHealthAssumption
<1>2. InitialSup \in SupRecord
  BY DEF InitialSup, SupRecord, Phases, Reasons
<1>3. CASE q = "UNKNOWN"
  BY <1>2, <1>3 DEF Arm, InitialSup, SupRecord, Phases
<1>4. CASE q = "NON_PENDING"
  BY <1>2, <1>4 DEF Arm, InitialSup
<1>5. CASE q = "PENDING_VERIFY"
  BY <1>1, <1>2, <1>5 DEF Arm, InitialSup, SupRecord, Phases, Reasons
<1>6. QED
  BY <1>3, <1>4, <1>5

\* The two critical sections the callers open before a poll.
LEMMA SignalType ==
  ASSUME NEW s \in SupRecord, NEW b \in Bits
  PROVE  /\ Signal(s, b) \in SupRecord
         /\ Signal(s, b).phase = s.phase
         /\ Signal(s, b).reason = s.reason
         /\ Signal(s, b).ready \subseteq s.ready \cup {b}
  BY DEF Signal, SupRecord, Bits

LEMMA FailType ==
  ASSUME NEW s \in SupRecord, NEW r \in Reasons
  PROVE  /\ Fail(s, r) \in SupRecord
         /\ Fail(s, r).ready = s.ready
         /\ s.phase # "MONITORING" => Fail(s, r) = s
         /\ s.phase = "MONITORING" => Fail(s, r).phase = "ROLLBACK"
  BY DEF Fail, SupRecord, Phases

LEMMA MarkValidResultType ==
  ASSUME NEW s \in SupRecord, NEW b \in BOOLEAN, s.phase = "MARK_VALID"
  PROVE  /\ MarkValidResult(s, b) \in SupRecord
         /\ MarkValidResult(s, b).phase = IF b THEN "VALID" ELSE "ROLLBACK"
         /\ MarkValidResult(s, b).ready = s.ready
         /\ ~b => ~MarkValidResult(s, b).issued
  BY DEF MarkValidResult, SupRecord, Phases, Reasons

\* A claim either latches HALTED, or enters MARK_VALID with every required bit,
\* or leaves the record alone; only the first two are for their claimer.
LEMMA ClaimActionType ==
  ASSUME NEW s \in SupRecord, NEW t \in Nat
  PROVE  /\ ClaimAction(s, t) \in SupRecord
         /\ ClaimAction(s, t).ready = s.ready
         /\ ClaimsRollback(s, t) =>
              /\ s.phase \in {"MONITORING", "ROLLBACK"}
              /\ ClaimAction(s, t).phase = "HALTED"
         /\ ClaimsMarkValid(s, t) =>
              /\ ~ClaimsRollback(s, t)
              /\ s.phase = "MONITORING"
              /\ AllBits \subseteq s.ready
              /\ ClaimAction(s, t).phase = "MARK_VALID"
         /\ ~ClaimsRollback(s, t) /\ ~ClaimsMarkValid(s, t) =>
              ClaimAction(s, t) = s
  BY DEF ClaimAction, ClaimsRollback, ClaimsMarkValid, AfterExpiry, SupRecord,
         Phases, Reasons

(***************************************************************************)
(* Type correctness.                                                       *)
(***************************************************************************)

LEMMA BootType ==
  ASSUME TypeOK, NEW o \in {"pending", "valid", "invalid"}, Boot(o),
         crashes' \in Nat
  PROVE  TypeOK'
<1>1. sup' \in SupRecord
  BY DEF Boot, InitialSup, SupRecord, Phases, Reasons
<1>2. /\ pc' \in [Task -> LoopPoints \cup WatchdogPoints]
      /\ pc'["loop"] \in LoopPoints /\ pc'["watchdog"] \in WatchdogPoints
  BY DEF Boot, Task, LoopPoints, WatchdogPoints
<1>3. lastHalt' \in Reasons /\ observed' \in Reasons
  BY DEF TypeOK, Boot, SupRecord, Reasons
<1>4. rec' \in [magic : BOOLEAN, reason : Reasons, err : BOOLEAN]
  <2>1. rec' = rec \/ rec' = EmptyRecord
    BY DEF Boot
  <2>2. EmptyRecord \in [magic : BOOLEAN, reason : Reasons, err : BOOLEAN]
    BY DEF EmptyRecord, Reasons
  <2>3. QED
    BY <2>1, <2>2 DEF TypeOK
<1>5. QED
  BY <1>1, <1>2, <1>3, <1>4 DEF TypeOK, Boot, Task, Returns

LEMMA TypeInductive == TypeOK /\ [Next]_vars => TypeOK'
<1> SUFFICES ASSUME TypeOK, [Next]_vars PROVE TypeOK'
  OBVIOUS
<1> USE DEF TypeOK, Task, devVars, histVars, recVars, taskVars, Go
<1>1. CASE Observe
  BY <1>1 DEF Observe, EmptyRecord, LoopPoints, Reasons
<1>2. CASE ArmEarly
  BY <1>2, ArmType DEF ArmEarly, LoopPoints, PollBody, Returns
<1>3. CASE SpawnWatchdog
  BY <1>3, FailType DEF SpawnWatchdog, LoopPoints, WatchdogPoints, AppPoints,
     Probes, Returns, Reasons
<1>4. CASE Probe
  <2> DEFINE p == pc["loop"]
  <2>1. /\ p \in Probes \cup {"loopBle"}
        /\ After[p] \in AppPoints /\ BitOf[p] \in Bits /\ BitOf[p] \in Reasons
    BY <1>4 DEF Probe, Probes, After, BitOf, AppPoints, PollPoints, Bits, Reasons,
       CheckReason
  <2>2. CASE ProbePassed(p)
    BY <1>4, <2>1, <2>2, SignalType DEF Probe, ProbePassed, LoopPoints, Returns
  <2>3. CASE ProbeFailed(p)
    BY <1>4, <2>1, <2>3, FailType DEF Probe, ProbeFailed, LoopPoints, Returns
  <2>4. CASE ProbeNoAnswer(p)
    BY <1>4, <2>1, <2>4 DEF Probe, ProbeNoAnswer, LoopPoints, Returns
  <2>5. QED
    BY <1>4, <2>2, <2>3, <2>4 DEF Probe
<1>5. CASE LoopWork
  BY <1>5 DEF LoopWork, LoopPoints, AppPoints
<1>6. CASE LoopEnd
  BY <1>6, SignalType DEF LoopEnd, LoopPoints, AppPoints, PollPoints, Bits
<1>7. CASE StartPoll
  <2>1. pc["loop"] \in PollPoints => After[pc["loop"]] \in AppPoints
    BY DEF PollPoints, After, AppPoints, Probes
  <2>2. QED
    BY <1>7, <2>1 DEF StartPoll, LoopPoints, PollBody, Returns
<1>8. CASE Watch
  BY <1>8 DEF Watch, WatchdogPoints, PollBody
<1>9. ASSUME NEW t \in Task, Claim(t) PROVE TypeOK'
  <2>1. sup' \in SupRecord
    BY <1>9, ClaimActionType DEF Claim
  <2>2. ReturnPoint(t, sup') \in IF t = "loop" THEN LoopPoints ELSE WatchdogPoints
    BY DEF ReturnPoint, Returns, LoopPoints, WatchdogPoints, PollBody
  <2>3. QED
    BY <1>9, <2>1, <2>2 DEF Claim, LoopPoints, WatchdogPoints, PollBody,
       MarkPoints, OwnerPoints
<1>10. ASSUME NEW t \in Task, MarkValid(t) PROVE TypeOK'
  BY <1>10 DEF MarkValid, LoopPoints, WatchdogPoints, PollBody, MarkPoints
<1>11. ASSUME NEW t \in Task, MarkResult(t) PROVE TypeOK'
  <2> DEFINE s == MarkValidResult(sup, pc[t] = "marked")
  <2>1. s \in SupRecord
    BY DEF MarkValidResult, SupRecord, Phases, Reasons
  <2>2. sup' \in SupRecord
    BY <1>11, <2>1, ClaimActionType DEF MarkResult
  <2>3. ReturnPoint(t, sup') \in IF t = "loop" THEN LoopPoints ELSE WatchdogPoints
    BY DEF ReturnPoint, Returns, LoopPoints, WatchdogPoints, PollBody
  <2>4. QED
    BY <1>11, <2>2, <2>3 DEF MarkResult, LoopPoints, WatchdogPoints, PollBody,
       OwnerPoints
<1>12. ASSUME NEW t \in Task, Rollback(t) PROVE TypeOK'
  <2>1. CASE RetainClear(t)
    BY <2>1 DEF RetainClear, LoopPoints, WatchdogPoints, OwnerPoints
  <2>2. CASE RetainBody(t)
    BY <2>2 DEF RetainBody, LoopPoints, WatchdogPoints, OwnerPoints, SupRecord
  <2>3. CASE RetainMagic(t)
    BY <2>3 DEF RetainMagic, LoopPoints, WatchdogPoints, OwnerPoints
  <2>4. CASE RollbackReturns(t)
    BY <2>4 DEF RollbackReturns, LoopPoints, WatchdogPoints, OwnerPoints
  <2>5. CASE RollbackReboots(t)
    BY <2>5, BootType DEF RollbackReboots
  <2>6. CASE Restart(t)
    BY <2>6, BootType DEF Restart
  <2>7. QED
    BY <1>12, <2>1, <2>2, <2>3, <2>4, <2>5, <2>6 DEF Rollback
<1>13. CASE Tick
  BY <1>13 DEF Tick
<1>14. CASE Crash
  BY <1>14, BootType DEF Crash
<1>15. CASE UNCHANGED vars
  BY <1>15 DEF vars
<1>16. QED
  BY <1>1, <1>2, <1>3, <1>4, <1>5, <1>6, <1>7, <1>8, <1>9, <1>10, <1>11, <1>12,
     <1>13, <1>14, <1>15 DEF Next, ArduinoTask, Poll

LEMMA InitType == Init => TypeOK
<1> SUFFICES ASSUME Init PROVE TypeOK
  OBVIOUS
<1>1. sup \in SupRecord
  BY DEF Init, InitialSup, SupRecord, Phases, Reasons
<1>2. /\ pc \in [Task -> LoopPoints \cup WatchdogPoints]
      /\ pc["loop"] \in LoopPoints /\ pc["watchdog"] \in WatchdogPoints
  BY DEF Init, Task, LoopPoints, WatchdogPoints
<1>3. bleBuild \in BOOLEAN
  BY BootHealthAssumption DEF Init, BootHealthAssumption
<1>4. QED
  BY <1>1, <1>2, <1>3 DEF Init, TypeOK, Task, Returns, EmptyRecord, Reasons

\* Every reachable state is well typed: in particular a supervisor record is
\* always one of the C struct's values and a task never leaves its own code.
THEOREM TypeCorrect == Spec => []TypeOK
<1>1. Init => TypeOK
  BY InitType
<1>2. TypeOK /\ [Next]_vars => TypeOK'
  BY TypeInductive
<1>3. QED
  BY <1>1, <1>2, PTL DEF Spec

(***************************************************************************)
(* The inductive invariant.  The steps that neither touch the supervisor   *)
(* nor move a task into or out of an acting point are alike; the ones that *)
(* matter are Claim, MarkValid, MarkResult, the retaining steps and Boot.  *)
(***************************************************************************)

Points == LoopPoints \cup WatchdogPoints

LEMMA InitIInv == Init => IInv
  BY InitType
     DEF Init, IInv, PhaseOwner, OneActor, ActPoints, OwnerPoints, MarkPoints,
         Unarmed, OnTrial, ReadyIsHealthy, WatchdogIsLate, RecordIsGenuine,
         ObservedReasonIsGenuine, EmptyRecord, InitialSup, Task

\* A reset, wherever it happens, leaves the next boot in a good state.
LEMMA BootIInv ==
  ASSUME IInv, NEW o \in {"pending", "valid", "invalid"}, Boot(o), TypeOK'
  PROVE  IInv'
<1>1. pc'["loop"] = "observe" /\ pc'["watchdog"] = "off"
  BY DEF Boot, Task
<1>2. (PhaseOwner /\ OneActor)'
  BY <1>1 DEF PhaseOwner, OneActor, ActPoints, OwnerPoints, MarkPoints, Task
<1>3. Unarmed'
  BY <1>1 DEF Unarmed, Boot, InitialSup
<1>4. OnTrial'
  BY <1>1 DEF OnTrial, Boot, InitialSup, Task
<1>5. ReadyIsHealthy'
  BY <1>1 DEF ReadyIsHealthy, Boot, InitialSup, Task
<1>6. RecordIsGenuine'
  <2>1. CASE rec' = EmptyRecord
    BY <1>1, <2>1 DEF RecordIsGenuine, EmptyRecord, Task
  <2>2. CASE rec' = rec
    BY <1>1, <2>2 DEF IInv, RecordIsGenuine, Unarmed, InitialSup, Boot, Task
  <2>3. QED
    BY <2>1, <2>2 DEF Boot
<1>7. ObservedReasonIsGenuine'
  BY DEF ObservedReasonIsGenuine, Boot
<1>8. WatchdogIsLate'
  BY <1>1 DEF WatchdogIsLate, MarkPoints
<1>9. QED
  BY <1>2, <1>3, <1>4, <1>5, <1>6, <1>7, <1>8 DEF IInv

\* Neither a new deadline nor a claim makes the watchdog confirm.
LEMMA WatchdogStaysLate ==
  ASSUME IInv, TypeOK', [Next]_vars
  PROVE  WatchdogIsLate'
<1> USE DEF Task, devVars, histVars, recVars, taskVars, Go
<1>a. /\ pc \in [Task -> Points] /\ sup \in SupRecord /\ at \in [Task -> Nat]
      /\ WatchdogIsLate /\ Unarmed /\ PhaseOwner /\ TypeOK
  BY DEF IInv, TypeOK, Points
<1> USE <1>a
<1>1. CASE Observe \/ ArmEarly
  BY <1>1 DEF Observe, ArmEarly, Unarmed, WatchdogIsLate, MarkPoints
<1>2. ASSUME \/ pc'["watchdog"] = pc["watchdog"]
             \/ pc'["watchdog"] \notin MarkPoints \cup {"claim"},
             at'["watchdog"] = at["watchdog"],
             \/ sup'.phase # "MONITORING"
             \/ sup.phase = "MONITORING" /\ sup'.deadline = sup.deadline
      PROVE  WatchdogIsLate'
  BY <1>2 DEF WatchdogIsLate, DeadlineReached
<1>3. CASE SpawnWatchdog
  <2>1. /\ pc'["watchdog"] \in {pc["watchdog"], "watch"}
        /\ at' = at
        /\ \/ sup' = sup
           \/ sup.phase = "MONITORING" /\ sup' = Fail(sup, "supervisor")
    BY <1>3 DEF SpawnWatchdog
  <2>2. QED
    BY <1>2, <2>1, FailType DEF Reasons, MarkPoints
<1>4. CASE Probe
  <2>1. /\ pc'["watchdog"] = pc["watchdog"] /\ at' = at
        /\ \/ sup' = sup
           \/ sup' = Signal(sup, BitOf[pc["loop"]])
           \/ sup' = Fail(sup, BitOf[pc["loop"]])
    BY <1>4 DEF Probe, ProbePassed, ProbeFailed, ProbeNoAnswer
  <2>2. QED
    BY <1>2, <2>1 DEF Signal, Fail, SupRecord
<1>5. CASE LoopWork \/ LoopEnd \/ StartPoll \/ Tick \/ UNCHANGED vars
  <2>1. /\ pc'["watchdog"] = pc["watchdog"] /\ at'["watchdog"] = at["watchdog"]
        /\ sup' \in {sup, Signal(sup, "eventLoop")}
    BY <1>5 DEF LoopWork, LoopEnd, StartPoll, Tick, vars
  <2>2. QED
    BY <1>2, <2>1 DEF Signal, SupRecord
<1>6. CASE Watch
  BY <1>6 DEF Watch, WatchdogIsLate, MarkPoints, DeadlineReached
<1>7. ASSUME NEW t \in Task, Claim(t) PROVE WatchdogIsLate'
  <2>1. /\ pc[t] = "claim" /\ at' = at /\ sup' = ClaimAction(sup, at[t])
        /\ \A u \in Task : u # t => pc'[u] = pc[u]
    BY <1>7 DEF Claim
  <2>2. sup'.phase = "MONITORING" => sup' = sup
    BY <2>1, ClaimActionType
  <2>3. CASE t = "loop"
    BY <1>2, <2>1, <2>2, <2>3
  <2>4. CASE t = "watchdog"
    <3>1. ~ClaimsMarkValid(sup, at[t])
      BY <2>1, <2>4 DEF WatchdogIsLate, ClaimsMarkValid, AfterExpiry, SupRecord
    <3>2. pc'[t] \in {"clear", "suspended", "off"}
      BY <1>7, <2>4, <3>1 DEF Claim, ReturnPoint
    <3>3. QED
      BY <2>4, <3>2 DEF WatchdogIsLate, MarkPoints
  <2>5. QED
    BY <2>3, <2>4
<1>8. ASSUME NEW t \in Task, MarkValid(t) \/ MarkResult(t) PROVE WatchdogIsLate'
  <2>1. t = "loop" /\ sup.phase = "MARK_VALID"
    BY <1>8 DEF MarkValid, MarkResult, WatchdogIsLate, PhaseOwner, MarkPoints
  <2>2. sup'.phase # "MONITORING"
    BY <1>8, <2>1 DEF MarkValid, MarkResult, MarkValidResult, ClaimAction,
       ClaimsRollback, ClaimsMarkValid, AfterExpiry, SupRecord
  <2>3. pc'["watchdog"] = pc["watchdog"]
    BY <1>8, <2>1 DEF MarkValid, MarkResult
  <2>4. QED
    BY <2>2, <2>3 DEF WatchdogIsLate
<1>9. ASSUME NEW o, Boot(o) PROVE WatchdogIsLate'
  BY <1>9 DEF Boot, WatchdogIsLate, MarkPoints
<1>10. ASSUME NEW t \in Task, Rollback(t) PROVE WatchdogIsLate'
  <2>1. CASE RollbackReboots(t) \/ Restart(t)
    BY <1>9, <2>1 DEF RollbackReboots, Restart
  <2>2. CASE RetainClear(t) \/ RetainBody(t) \/ RetainMagic(t) \/ RollbackReturns(t)
    BY <2>2 DEF RetainClear, RetainBody, RetainMagic, RollbackReturns,
       WatchdogIsLate, MarkPoints
  <2>3. QED
    BY <1>10, <2>1, <2>2 DEF Rollback
<1>11. CASE Crash
  BY <1>9, <1>11 DEF Crash
<1>12. QED
  BY <1>1, <1>3, <1>4, <1>5, <1>6, <1>7, <1>8, <1>10, <1>11 DEF Next, ArduinoTask,
     Poll

\* No step of either task, no tick and no reset leaves the invariant.
LEMMA IInvInductive == IInv /\ [Next]_vars => IInv'
<1> SUFFICES ASSUME IInv, [Next]_vars PROVE IInv'
  OBVIOUS
<1>0. TypeOK /\ TypeOK' /\ WatchdogIsLate /\ WatchdogIsLate'
  BY TypeInductive, WatchdogStaysLate DEF IInv
<1> USE DEF Task, devVars, histVars, recVars, taskVars, Go
\* What a step of one task does to the other's point.
<1>a. /\ pc \in [Task -> Points] /\ sup \in SupRecord /\ at \in [Task -> Nat]
      /\ pc["loop"] \in LoopPoints /\ pc["watchdog"] \in WatchdogPoints
  BY <1>0 DEF TypeOK, Points
<1> USE <1>a
<1>1. CASE Observe
  BY <1>0, <1>1 DEF Observe, IInv, PhaseOwner, OneActor, ActPoints, OwnerPoints,
     MarkPoints, Unarmed, OnTrial, ReadyIsHealthy, RecordIsGenuine,
     ObservedReasonIsGenuine, EmptyRecord, RecordValid, Points, InitialSup
<1>2. CASE ArmEarly
  <2>1. PICK q \in {"UNKNOWN", IF slot = "target" /\ img = "pending"
                               THEN "PENDING_VERIFY" ELSE "NON_PENDING"},
             l \in BOOLEAN : sup' = Arm(q, at["loop"], l)
    BY <1>2 DEF ArmEarly
  <2>2. /\ q \in {"UNKNOWN", "NON_PENDING", "PENDING_VERIFY"}
        /\ q = "PENDING_VERIFY" => slot = "target" /\ img = "pending"
        /\ at["loop"] \in Nat
    BY <1>0 DEF TypeOK
  <2>3. /\ sup'.phase \in {"INERT", "QUERY_UNKNOWN", "MONITORING", "ROLLBACK"}
        /\ sup'.ready = {}
        /\ sup'.phase \in {"MONITORING", "ROLLBACK"} => q = "PENDING_VERIFY"
    BY <2>1, <2>2, ArmType
  <2>4. pc["loop"] = "arm" /\ pc["watchdog"] = "off" /\ sup = InitialSup
    BY <1>2 DEF ArmEarly, IInv, Unarmed
  <2>5. /\ pc' = [pc EXCEPT !["loop"] = "claim"]
        /\ pc'["loop"] = "claim" /\ pc'["watchdog"] = "off"
        /\ UNCHANGED <<devVars, histVars, recVars>>
    BY <1>2, <2>4 DEF ArmEarly
  <2>6. (PhaseOwner /\ OneActor /\ Unarmed)'
    BY <2>5 DEF PhaseOwner, OneActor, ActPoints, OwnerPoints, MarkPoints, Unarmed
  <2>7. OnTrial'
    BY <2>2, <2>3, <2>5 DEF IInv, OnTrial
  <2>8. (ReadyIsHealthy /\ ObservedReasonIsGenuine)'
    BY <2>3, <2>5 DEF IInv, ReadyIsHealthy, ObservedReasonIsGenuine
  <2>9. RecordIsGenuine'
    BY <2>4, <2>5 DEF IInv, RecordIsGenuine, InitialSup
  <2>10. QED
    BY <1>0, <2>6, <2>7, <2>8, <2>9 DEF IInv
\* The steps of setup() and loop() other than the polls.
<1>3. ASSUME /\ pc["loop"] \notin ActPoints \cup {"observe", "arm", "suspended"}
             /\ pc'["loop"] \notin ActPoints \cup {"observe", "arm"}
             /\ \/ pc'["watchdog"] = pc["watchdog"]
                \/ pc'["watchdog"] \notin ActPoints
             /\ \/ sup' = sup
                \/ /\ sup.phase = "MONITORING"
                   /\ sup'.phase \in {"MONITORING", "ROLLBACK"}
             /\ sup'.ready \subseteq sup.ready \cup (healthy' \ healthy) \cup healthy
             /\ healthy \subseteq healthy'
             /\ UNCHANGED <<bleBuild, slot, img, recVars, lastHalt>>
      PROVE  IInv'
  <2>1. sup.phase = "MONITORING" =>
          \A t \in Task : pc[t] \notin ActPoints
    BY DEF IInv, PhaseOwner, ActPoints
  <2>2. (PhaseOwner /\ OneActor /\ Unarmed)'
    BY <1>3, <2>1 DEF IInv, PhaseOwner, OneActor, Unarmed, ActPoints
  <2>3. OnTrial'
    BY <1>3, <2>1 DEF IInv, OnTrial, ActPoints, MarkPoints
  <2>4. ReadyIsHealthy'
    BY <1>3 DEF IInv, ReadyIsHealthy, Required, ActPoints, MarkPoints
  <2>5. (RecordIsGenuine /\ ObservedReasonIsGenuine)'
    BY <1>3, <2>1 DEF IInv, RecordIsGenuine, ObservedReasonIsGenuine, ActPoints,
       OwnerPoints
  <2>6. QED
    BY <1>0, <2>2, <2>3, <2>4, <2>5 DEF IInv
<1>4. CASE SpawnWatchdog
  <2>1. \/ sup' = sup
        \/ sup' = Fail(sup, "supervisor") /\ sup.phase = "MONITORING"
    BY <1>4 DEF SpawnWatchdog
  <2>2. /\ sup'.ready = sup.ready
        /\ \/ sup' = sup
           \/ sup.phase = "MONITORING" /\ sup'.phase = "ROLLBACK"
    BY <2>1, FailType DEF Reasons
  <2>3. QED
    BY <1>3, <1>4, <2>2 DEF SpawnWatchdog, ActPoints, OwnerPoints, MarkPoints
<1>5. CASE Probe
  <2> DEFINE p == pc["loop"]
  <2>1. /\ p \in Probes \cup {"loopBle"}
        /\ After[p] \in AppPoints /\ BitOf[p] \in Bits /\ BitOf[p] \in Reasons
    BY <1>5 DEF Probe, Probes, After, BitOf, AppPoints, PollPoints, Bits, Reasons,
       CheckReason
  <2>2. /\ p \notin ActPoints \cup {"observe", "arm", "suspended"}
        /\ pc' \in {[pc EXCEPT !["loop"] = After[p]], [pc EXCEPT !["loop"] = "failPoll"]}
        /\ pc'["loop"] \notin ActPoints \cup {"observe", "arm"}
        /\ pc'["watchdog"] = pc["watchdog"]
    BY <1>5, <2>1 DEF Probe, ProbePassed, ProbeFailed, ProbeNoAnswer, Probes,
       ActPoints, OwnerPoints, MarkPoints, AppPoints, PollPoints
  <2>3. /\ UNCHANGED <<bleBuild, slot, img, recVars, lastHalt>>
        /\ healthy \subseteq healthy'
    BY <1>5 DEF Probe, ProbePassed, ProbeFailed, ProbeNoAnswer
  <2>4. /\ \/ sup' = sup
           \/ sup.phase = "MONITORING" /\ sup'.phase \in {"MONITORING", "ROLLBACK"}
        /\ sup'.ready \subseteq sup.ready \cup (healthy' \ healthy) \cup healthy
    <3>1. CASE ProbePassed(p)
      <4>1. sup' = Signal(sup, BitOf[p]) /\ healthy' = healthy \cup {BitOf[p]}
        BY <3>1 DEF ProbePassed
      <4>2. sup.phase # "MONITORING" => sup' = sup
        BY <4>1 DEF Signal
      <4>3. QED
        BY <4>1, <4>2, <2>1, SignalType
    <3>2. CASE ProbeFailed(p)
      BY <3>2, <2>1, FailType DEF ProbeFailed
    <3>3. CASE ProbeNoAnswer(p)
      BY <3>3 DEF ProbeNoAnswer
    <3>4. QED
      BY <1>5, <3>1, <3>2, <3>3 DEF Probe
  <2>5. QED
    BY <1>3, <2>2, <2>3, <2>4
<1>6. CASE LoopWork
  <2>1. /\ pc["loop"] = "loopWork" /\ pc' = [pc EXCEPT !["loop"] = "loopEnd"]
        /\ UNCHANGED <<bleBuild, slot, img, sup, recVars, histVars>>
    BY <1>6 DEF LoopWork
  <2>2. QED
    BY <1>3, <2>1 DEF ActPoints, OwnerPoints, MarkPoints
<1>7. CASE LoopEnd
  <2>1. /\ pc["loop"] = "loopEnd" /\ pc' = [pc EXCEPT !["loop"] = "loopEndPoll"]
        /\ sup' = Signal(sup, "eventLoop") /\ healthy' = healthy \cup {"eventLoop"}
        /\ UNCHANGED <<bleBuild, slot, img, recVars, lastHalt>>
    BY <1>7 DEF LoopEnd
  <2>2. sup.phase # "MONITORING" => sup' = sup
    BY <2>1 DEF Signal
  <2>3. sup'.phase = sup.phase /\ sup'.ready \subseteq sup.ready \cup {"eventLoop"}
    BY <2>1, SignalType DEF Bits
  <2>4. QED
    BY <1>3, <2>1, <2>2, <2>3 DEF ActPoints, OwnerPoints, MarkPoints
<1>8. CASE StartPoll
  <2>1. /\ pc["loop"] \in PollPoints \cup {"failPoll"}
        /\ pc' = [pc EXCEPT !["loop"] = "claim"]
        /\ UNCHANGED <<bleBuild, slot, img, sup, recVars, histVars>>
    BY <1>8 DEF StartPoll
  <2>2. QED
    BY <1>3, <2>1 DEF ActPoints, OwnerPoints, MarkPoints, PollPoints
\* The watchdog's own loop.
<1>9. CASE Watch
  <2>1. /\ pc["watchdog"] = "watch" /\ pc'["loop"] = pc["loop"]
        /\ pc'["watchdog"] \in {"off", "claim"}
        /\ UNCHANGED <<bleBuild, usbSeen, slot, img, sup, recVars, histVars>>
    BY <1>9 DEF Watch
  <2>2. QED
    BY <1>0, <2>1 DEF IInv, PhaseOwner, OneActor, Unarmed, OnTrial, ReadyIsHealthy,
       RecordIsGenuine, ObservedReasonIsGenuine, Required, ActPoints, OwnerPoints,
       MarkPoints
\* The other task of a step never acts on the image when this one may.
<1>10. ASSUME NEW t \in Task, Claim(t) PROVE IInv'
  <2>1. /\ pc[t] = "claim" /\ sup' = ClaimAction(sup, at[t])
        /\ \A u \in Task : u # t => pc'[u] = pc[u]
        /\ UNCHANGED <<devVars, recVars, histVars>>
    BY <1>10 DEF Claim
  <2>2. ~(pc["loop"] \in {"observe", "arm"})
    BY <2>1 DEF IInv, Unarmed
  <2>3. sup.phase \in {"MONITORING", "ROLLBACK"} =>
          /\ \A u \in Task : pc[u] \notin ActPoints
          /\ ~rec.magic
    BY <2>2 DEF IInv, PhaseOwner, ActPoints, RecordIsGenuine
  <2>4. CASE ClaimsRollback(sup, at[t])
    <3>1. /\ sup'.phase = "HALTED" /\ sup'.ready = sup.ready
          /\ sup.phase \in {"MONITORING", "ROLLBACK"}
      BY <2>1, <2>4, ClaimActionType
    <3>a. pc'[t] = "clear"
      BY <1>10, <2>4, ClaimActionType DEF Claim
    <3>2. /\ \A u \in Task : u # t => pc'[u] \notin ActPoints
          /\ pc'["loop"] \notin {"observe", "arm"}
      BY <2>1, <2>2, <2>3, <3>1, <3>a
    <3>3. (PhaseOwner /\ OneActor /\ Unarmed)'
      BY <3>1, <3>a, <3>2 DEF PhaseOwner, OneActor, Unarmed, ActPoints, OwnerPoints,
         MarkPoints
    <3>4. (OnTrial /\ ReadyIsHealthy)'
      BY <2>1, <3>1, <3>a, <3>2 DEF IInv, OnTrial, ReadyIsHealthy, ActPoints, MarkPoints
    <3>5. (RecordIsGenuine /\ ObservedReasonIsGenuine)'
      BY <2>1, <2>3, <3>1, <3>a, <3>2 DEF IInv, RecordIsGenuine, ObservedReasonIsGenuine,
         ActPoints, OwnerPoints
    <3>6. QED
      BY <1>0, <3>3, <3>4, <3>5 DEF IInv
  <2>5. CASE ClaimsMarkValid(sup, at[t])
    <3>1. /\ sup'.phase = "MARK_VALID" /\ sup'.ready = sup.ready
          /\ sup.phase = "MONITORING" /\ AllBits \subseteq sup.ready
          /\ ~ClaimsRollback(sup, at[t])
      BY <2>1, <2>5, ClaimActionType
    <3>a. pc'[t] = "marking"
      BY <1>10, <2>5, <3>1 DEF Claim
    <3>2. /\ \A u \in Task : u # t => pc'[u] \notin ActPoints
          /\ pc'["loop"] \notin {"observe", "arm"}
      BY <2>1, <2>2, <2>3, <3>1, <3>a
    <3>3. (PhaseOwner /\ OneActor /\ Unarmed)'
      BY <3>1, <3>a, <3>2 DEF PhaseOwner, OneActor, Unarmed, ActPoints, OwnerPoints,
         MarkPoints
    <3>4. OnTrial'
      BY <2>1, <3>1, <3>a, <3>2 DEF IInv, OnTrial, ActPoints, MarkPoints
    <3>5. ReadyIsHealthy'
      BY <2>1, <3>1, <3>a DEF IInv, ReadyIsHealthy, AllBits, Required
    <3>6. (RecordIsGenuine /\ ObservedReasonIsGenuine)'
      BY <2>1, <2>3, <3>1, <3>a, <3>2 DEF IInv, RecordIsGenuine, ObservedReasonIsGenuine,
         ActPoints, OwnerPoints
    <3>7. QED
      BY <1>0, <3>3, <3>4, <3>5, <3>6 DEF IInv
  <2>6. CASE ~ClaimsRollback(sup, at[t]) /\ ~ClaimsMarkValid(sup, at[t])
    <3>1. sup' = sup
      BY <2>1, <2>6, ClaimActionType
    <3>2. pc'[t] \notin ActPoints \cup {"observe", "arm"}
      BY <1>0, <1>10, <2>6 DEF Claim, TypeOK, ReturnPoint, Returns, AppPoints, Probes,
         PollPoints, ActPoints, OwnerPoints, MarkPoints
    <3>3. (PhaseOwner /\ OneActor /\ Unarmed)'
      BY <2>1, <2>2, <3>1, <3>2 DEF IInv, PhaseOwner, OneActor, Unarmed, ActPoints
    <3>4. (OnTrial /\ ReadyIsHealthy)'
      BY <2>1, <3>1, <3>2 DEF IInv, OnTrial, ReadyIsHealthy, Required, ActPoints,
         MarkPoints
    <3>5. (RecordIsGenuine /\ ObservedReasonIsGenuine)'
      BY <2>1, <2>2, <3>1, <3>2 DEF IInv, RecordIsGenuine, ObservedReasonIsGenuine,
         ActPoints, OwnerPoints
    <3>6. QED
      BY <1>0, <3>3, <3>4, <3>5 DEF IInv
  <2>7. QED
    BY <2>4, <2>5, <2>6
<1>11. ASSUME NEW t \in Task, MarkValid(t) PROVE IInv'
  <2>1. /\ pc[t] = "marking" /\ sup.phase = "MARK_VALID"
        /\ \A u \in Task : u # t => pc'[u] = pc[u] /\ pc[u] \notin ActPoints
        /\ UNCHANGED <<slot, bleBuild, sup, recVars, histVars>>
        /\ \/ img' = "valid" /\ pc'[t] = "marked"
           \/ img' = img /\ pc'[t] = "unmarked"
    BY <1>11 DEF MarkValid, IInv, PhaseOwner, OneActor, ActPoints, MarkPoints
  <2>2. pc'["loop"] \in {"observe", "arm"} <=> pc["loop"] \in {"observe", "arm"}
    BY <2>1
  <2>3. (PhaseOwner /\ OneActor /\ Unarmed)'
    BY <2>1, <2>2 DEF IInv, PhaseOwner, OneActor, Unarmed, ActPoints, OwnerPoints,
       MarkPoints, InitialSup
  <2>4. (OnTrial /\ ReadyIsHealthy)'
    BY <2>1 DEF IInv, OnTrial, ReadyIsHealthy, ActPoints, MarkPoints
  <2>5. (RecordIsGenuine /\ ObservedReasonIsGenuine)'
    BY <2>1, <2>2 DEF IInv, RecordIsGenuine, ObservedReasonIsGenuine, Unarmed,
       InitialSup, ActPoints, OwnerPoints
  <2>6. QED
    BY <1>0, <2>3, <2>4, <2>5 DEF IInv
<1>12. ASSUME NEW t \in Task, MarkResult(t) PROVE IInv'
  <2> DEFINE s == MarkValidResult(sup, pc[t] = "marked")
  <2>1. /\ pc[t] \in {"marked", "unmarked"} /\ sup.phase = "MARK_VALID"
        /\ \A u \in Task : u # t => pc'[u] = pc[u] /\ pc[u] \notin ActPoints
        /\ UNCHANGED <<devVars, recVars, histVars>>
    BY <1>12 DEF MarkResult, IInv, PhaseOwner, OneActor, ActPoints, MarkPoints
  <2>2. /\ s \in SupRecord /\ s.ready = sup.ready
        /\ s.phase = IF pc[t] = "marked" THEN "VALID" ELSE "ROLLBACK"
        /\ pc[t] # "marked" => ~s.issued
    BY <2>1, MarkValidResultType
  <2>3. ~(pc["loop"] \in {"observe", "arm"}) /\ ~rec.magic
    BY <2>1 DEF IInv, Unarmed, InitialSup, RecordIsGenuine
  <2>4. CASE pc[t] = "marked"
    <3>1. ~ClaimsRollback(s, at[t]) /\ ~ClaimsMarkValid(s, at[t])
      BY <2>2, <2>4, ClaimActionType
    <3>2. sup' = s /\ s.phase = "VALID"
      BY <1>12, <2>2, <2>4, <3>1, ClaimActionType DEF MarkResult
    <3>3. pc'[t] = ReturnPoint(t, sup')
      BY <1>12, <3>1 DEF MarkResult
    <3>4. pc'[t] \notin ActPoints \cup {"observe", "arm"}
      BY <1>0, <3>3 DEF TypeOK, ReturnPoint, Returns, AppPoints, Probes,
         PollPoints, ActPoints, OwnerPoints, MarkPoints
    <3>5. (PhaseOwner /\ OneActor /\ Unarmed)'
      BY <2>1, <2>3, <3>4 DEF PhaseOwner, OneActor, Unarmed, ActPoints
    <3>6. (OnTrial /\ ReadyIsHealthy)'
      BY <2>1, <2>2, <3>2, <3>4 DEF IInv, OnTrial, ReadyIsHealthy, ActPoints,
         MarkPoints
    <3>7. (RecordIsGenuine /\ ObservedReasonIsGenuine)'
      BY <2>1, <2>3, <3>4 DEF IInv, RecordIsGenuine, ObservedReasonIsGenuine,
         ActPoints, OwnerPoints
    <3>8. QED
      BY <1>0, <3>5, <3>6, <3>7 DEF IInv
  <2>5. CASE pc[t] = "unmarked"
    <3>1. ClaimsRollback(s, at[t])
      BY <2>2, <2>5 DEF ClaimsRollback, AfterExpiry
    <3>2. /\ sup'.phase = "HALTED" /\ sup'.ready = sup.ready /\ pc'[t] = "clear"
      <4>1. sup' = ClaimAction(s, at[t]) /\ pc'[t] = "clear"
        BY <1>12, <3>1 DEF MarkResult
      <4>2. QED
        BY <2>2, <3>1, <4>1, ClaimActionType
    <3>3. (PhaseOwner /\ OneActor /\ Unarmed)'
      BY <2>1, <2>3, <3>2 DEF PhaseOwner, OneActor, Unarmed, ActPoints, OwnerPoints,
         MarkPoints
    <3>4. (OnTrial /\ ReadyIsHealthy)'
      BY <2>1, <2>5, <3>2 DEF IInv, OnTrial, ReadyIsHealthy, ActPoints, MarkPoints
    <3>5. (RecordIsGenuine /\ ObservedReasonIsGenuine)'
      BY <2>1, <2>3, <3>2 DEF IInv, RecordIsGenuine, ObservedReasonIsGenuine,
         ActPoints, OwnerPoints
    <3>6. QED
      BY <1>0, <3>3, <3>4, <3>5 DEF IInv
  <2>6. QED
    BY <2>1, <2>4, <2>5
\* The retaining steps stay inside the owner's points.
<1>13. ASSUME NEW t \in Task, pc[t] \in OwnerPoints, pc'[t] \in OwnerPoints,
              \A u \in Task : u # t => pc'[u] = pc[u],
              UNCHANGED <<devVars, sup, observed, histVars>>,
              rec'.magic => rec'.reason = sup.reason,
              pc'[t] = "magic" => rec'.reason = sup.reason
       PROVE  IInv'
  <2>1. /\ sup.phase = "HALTED"
        /\ \A u \in Task : u # t => pc[u] \notin ActPoints
        /\ pc["loop"] \notin {"observe", "arm"}
    BY <1>13 DEF IInv, PhaseOwner, OneActor, ActPoints, Unarmed, InitialSup
  <2>2. pc'["loop"] \notin {"observe", "arm"}
    BY <1>13, <2>1 DEF OwnerPoints
  <2>3. (PhaseOwner /\ OneActor /\ Unarmed)'
    BY <1>13, <2>1, <2>2 DEF PhaseOwner, OneActor, Unarmed, ActPoints, OwnerPoints,
       MarkPoints
  <2>4. (OnTrial /\ ReadyIsHealthy)'
    BY <1>13, <2>1 DEF IInv, OnTrial, ReadyIsHealthy, Required, ActPoints,
       OwnerPoints, MarkPoints
  <2>5. (RecordIsGenuine /\ ObservedReasonIsGenuine)'
    BY <1>13, <2>1 DEF IInv, RecordIsGenuine, ObservedReasonIsGenuine, ActPoints,
       OwnerPoints
  <2>6. QED
    BY <1>0, <2>3, <2>4, <2>5 DEF IInv
<1>14. ASSUME NEW t \in Task, Rollback(t) PROVE IInv'
  <2>1. ASSUME pc[t] \in OwnerPoints
        PROVE  /\ rec.magic => rec.reason = sup.reason
               /\ pc[t] = "magic" => rec.reason = sup.reason
    BY <2>1 DEF IInv, PhaseOwner, RecordIsGenuine, Unarmed, InitialSup
  <2>r. rec \in [magic : BOOLEAN, reason : Reasons, err : BOOLEAN]
    BY <1>0 DEF TypeOK
  <2>2. CASE RetainClear(t)
    BY <1>13, <2>1, <2>r, <2>2 DEF RetainClear, OwnerPoints
  <2>3. CASE RetainBody(t)
    BY <1>13, <2>1, <2>r, <2>3 DEF RetainBody, OwnerPoints
  <2>4. CASE RetainMagic(t)
    BY <1>13, <2>1, <2>r, <2>4 DEF RetainMagic, OwnerPoints
  <2>5. CASE RollbackReturns(t)
    BY <1>13, <2>1, <2>5 DEF RollbackReturns, OwnerPoints
  <2>6. CASE RollbackReboots(t)
    BY <1>0, <2>6, BootIInv DEF RollbackReboots
  <2>7. CASE Restart(t)
    BY <1>0, <2>7, BootIInv DEF Restart, TypeOK
  <2>8. QED
    BY <1>14, <2>2, <2>3, <2>4, <2>5, <2>6, <2>7 DEF Rollback
<1>15. CASE UNCHANGED vars \/ Tick
  BY <1>0, <1>15 DEF vars, Tick, IInv, PhaseOwner, OneActor, Unarmed, OnTrial,
     ReadyIsHealthy, Required, RecordIsGenuine, ObservedReasonIsGenuine
<1>16. CASE Crash
  BY <1>0, <1>16, BootIInv DEF Crash, TypeOK
<1>17. QED
  BY <1>1, <1>2, <1>4, <1>5, <1>6, <1>7, <1>8, <1>9, <1>10, <1>11, <1>12, <1>14,
     <1>15, <1>16 DEF Next, ArduinoTask, Poll

\* The invariant that carries every result below.
THEOREM Invariant == Spec => []IInv
<1>1. IInv /\ [Next]_vars => IInv'
  BY IInvInductive
<1>2. QED
  BY <1>1, InitIInv, PTL DEF Spec

(***************************************************************************)
(* What the supervisor guarantees.                                         *)
(***************************************************************************)

\* Whichever task times out, fails or confirms first, two tasks never carry
\* out performRollback together, and none confirms during a rollback.
THEOREM VerdictOwnerUnique == Spec => []OneVerdictOwner
<1>1. IInv => OneVerdictOwner
  BY DEF IInv, OneActor, OneVerdictOwner, ActPoints
<1>2. QED
  BY <1>1, Invariant, PTL

\* However often power is lost while the record is written, read or cleared,
\* a reported reason is that of the rollback that just happened.
THEOREM ReportedReasonGenuine == Spec => []ObservedReasonIsGenuine
<1>1. IInv => ObservedReasonIsGenuine
  BY DEF IInv
<1>2. QED
  BY <1>1, Invariant, PTL

\* Only MarkValid confirms an image: no reset and no other step does.
LEMMA WhoConfirms ==
  ASSUME IInv, [Next]_vars, img' = "valid", img # "valid"
  PROVE  \E t \in Task : MarkValid(t)
<1>1. ASSUME NEW o \in {img, "invalid"}, Boot(o) PROVE FALSE
  BY <1>1 DEF Boot
<1>2. ASSUME UNCHANGED img PROVE FALSE
  BY <1>2
<1>3. CASE Crash
  BY <1>1, <1>3 DEF Crash
<1>4. CASE ArduinoTask \/ Watch \/ Tick \/ UNCHANGED vars
  BY <1>2, <1>4 DEF ArduinoTask, Observe, ArmEarly, SpawnWatchdog, Probe, LoopWork,
     LoopEnd, StartPoll, Watch, Tick, vars, devVars
<1>5. ASSUME NEW t \in Task, Rollback(t) PROVE FALSE
  BY <1>1, <1>2, <1>5 DEF Rollback, RetainClear, RetainBody, RetainMagic,
     RollbackReturns, RollbackReboots, Restart, devVars
<1>6. ASSUME NEW t \in Task, Claim(t) \/ MarkResult(t) PROVE FALSE
  BY <1>2, <1>6 DEF Claim, MarkResult, devVars
<1>7. QED
  BY <1>3, <1>4, <1>5, <1>6 DEF Next, Poll

\* An image is never made permanent in a boot where some required check has
\* not passed.  Required is what the code asks for: the link belongs to it in a
\* BLE build and, in a no-BLE build, once a USB line has come in, and only then.
THEOREM ConfirmationIsEarned == Spec => ConfirmedOnlyWhenHealthy
<1>1. IInv /\ [Next]_vars =>
        [img' = "valid" /\ img # "valid" => Required \subseteq healthy]_vars
  BY WhoConfirms DEF IInv, ReadyIsHealthy, WatchdogIsLate, MarkPoints, MarkValid, Task
<1>2. QED
  BY <1>1, Invariant, PTL DEF Spec, ConfirmedOnlyWhenHealthy

\* After the halt is latched, neither a failed check nor a late readiness
\* signal nor the other task changes the decision, and the Arduino task never
\* returns to the program.
THEOREM HaltIsPermanent == Spec => HaltIsFinal
<1> DEFINE Kept == sup' = sup \/ pc'["loop"] = "observe"
           Back == pc["loop"] \in PollBody /\ pc'["loop"] \in Returns
<1>1. IInv /\ [Next]_vars =>
        [sup.phase = "HALTED" =>
           /\ sup' = sup \/ pc'["loop"] = "observe"
           /\ ~(pc["loop"] \in PollBody /\ pc'["loop"] \in Returns)]_vars
  <2> SUFFICES ASSUME IInv, [Next]_vars, sup.phase = "HALTED"
               PROVE  Kept /\ ~Back
    OBVIOUS
  <2>0. /\ pc \in [Task -> Points] /\ sup \in SupRecord /\ at \in [Task -> Nat]
        /\ \A t \in Task : pc[t] \notin MarkPoints
        /\ pc["loop"] # "arm"
    BY DEF IInv, TypeOK, Points, PhaseOwner, Unarmed, InitialSup
  <2> USE DEF Go, Task, Returns, AppPoints, Probes, PollPoints, PollBody,
              MarkPoints, OwnerPoints
  <2>1. CASE ArduinoTask
    BY <2>0, <2>1 DEF ArduinoTask, Observe, ArmEarly, SpawnWatchdog, Probe,
       ProbePassed, ProbeFailed, ProbeNoAnswer, Signal, Fail, LoopWork, LoopEnd,
       StartPoll
  <2>2. CASE Watch \/ Tick \/ UNCHANGED vars
    BY <2>0, <2>2 DEF Watch, Tick, vars, taskVars
  <2>3. ASSUME NEW t \in Task, Claim(t) PROVE Kept /\ ~Back
    <3>1. ~ClaimsRollback(sup, at[t]) /\ ~ClaimsMarkValid(sup, at[t])
      BY <2>0, ClaimActionType
    <3>2. sup' = sup
      BY <2>0, <2>3, <3>1, ClaimActionType DEF Claim
    <3>3. pc' = [pc EXCEPT ![t] = "suspended"]
      BY <2>3, <3>1, <3>2 DEF Claim, ReturnPoint, ExecutionAllowed
    <3>4. QED
      BY <2>0, <3>2, <3>3
  <2>4. ASSUME NEW t \in Task, MarkValid(t) \/ MarkResult(t) PROVE FALSE
    BY <2>0, <2>4 DEF MarkValid, MarkResult
  <2>5. ASSUME NEW t \in Task, Rollback(t) PROVE Kept /\ ~Back
    BY <2>0, <2>5 DEF Rollback, RetainClear, RetainBody, RetainMagic,
       RollbackReturns, RollbackReboots, Restart, Boot
  <2>6. CASE Crash
    BY <2>6 DEF Crash, Boot
  <2>7. QED
    BY <2>1, <2>2, <2>3, <2>4, <2>5, <2>6 DEF Next, Poll
<1>2. QED
  BY <1>1, Invariant, PTL DEF Spec, HaltIsFinal

(***************************************************************************)
(* The device gives the staged image one trial with one final verdict.     *)
(***************************************************************************)

LEMMA BootIsRejection ==
  ASSUME IInv, NEW o \in {img, "invalid"}, Boot(o), o = "invalid" => img # "valid"
  PROVE  Trial!Next \/ UNCHANGED <<Verdict, slot>>
<1>1. img \in {"pending", "valid", "invalid"} /\ slot \in {"target", "fallback"}
  BY DEF IInv, TypeOK
<1>2. CASE img = "valid"
  BY <1>2 DEF Boot, Verdict, IInv, OnTrial
<1>3. CASE img = "invalid"
  BY <1>1, <1>3 DEF Boot, Verdict, IInv, OnTrial
<1>4. CASE img = "pending"
  BY <1>4 DEF Boot, Verdict, Trial!Next, Trial!Reject
<1>5. QED
  BY <1>1, <1>2, <1>3, <1>4

\* Every step of the device is a step of the abstract trial, or none.
THEOREM DeviceImplementsTrial == Spec => ImplementsTrial
<1>1. Init => Trial!Init
  BY DEF Init, Trial!Init, Verdict
<1>2. IInv /\ [Next]_vars => [Trial!Next]_Trial!trialVars
  <2> SUFFICES ASSUME IInv, [Next]_vars
               PROVE  Trial!Next \/ UNCHANGED <<Verdict, slot>>
    BY DEF Trial!trialVars
  <2>1. ASSUME UNCHANGED <<img, slot>> PROVE UNCHANGED <<Verdict, slot>>
    BY <2>1 DEF Verdict
  <2>2. CASE Crash
    BY <2>2, BootIsRejection DEF Crash
  <2>3. CASE ArduinoTask \/ Watch \/ Tick \/ UNCHANGED vars
    BY <2>1, <2>3 DEF ArduinoTask, Observe, ArmEarly, SpawnWatchdog, Probe,
       LoopWork, LoopEnd, StartPoll, Watch, Tick, vars, devVars
  <2>4. ASSUME NEW t \in Task, Claim(t) \/ MarkResult(t)
        PROVE  UNCHANGED <<Verdict, slot>>
    BY <2>1, <2>4 DEF Claim, MarkResult, devVars
  <2>5. ASSUME NEW t \in Task, MarkValid(t)
        PROVE  Trial!Next \/ UNCHANGED <<Verdict, slot>>
    BY <2>5 DEF MarkValid, IInv, OnTrial, Verdict, Trial!Next, Trial!Confirm
  <2>6. ASSUME NEW t \in Task, Rollback(t)
        PROVE  Trial!Next \/ UNCHANGED <<Verdict, slot>>
    <3>1. CASE RollbackReboots(t)
      <4>1. img = "pending"
        BY <3>1 DEF RollbackReboots, IInv, PhaseOwner, OwnerPoints, OnTrial
      <4>2. QED
        BY <3>1, <4>1, BootIsRejection DEF RollbackReboots
    <3>2. CASE Restart(t)
      BY <3>2, BootIsRejection DEF Restart
    <3>3. CASE ~RollbackReboots(t) /\ ~Restart(t)
      BY <2>1, <2>6, <3>3 DEF Rollback, RetainClear, RetainBody, RetainMagic,
         RollbackReturns, devVars
    <3>4. QED
      BY <3>1, <3>2, <3>3
  <2>7. QED
    BY <2>2, <2>3, <2>4, <2>5, <2>6 DEF Next, Poll
<1>3. QED
  BY <1>1, <1>2, Invariant, PTL DEF Spec, ImplementsTrial, Trial!Spec
=============================================================================
