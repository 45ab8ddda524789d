----------------------- MODULE ManagedSessionsProofs -----------------------
(***************************************************************************)
(* Proofs about ManagedSessions, for any number of sessions, threads and   *)
(* requests, as long as no two sessions use the same request id.  Without  *)
(* that the results are false: a run of the model shows how.               *)
(*                                                                         *)
(* The argument follows a press back to its request: a command names what  *)
(* the screen showed, the screen what a snapshot said, a snapshot what the *)
(* record of a session says, the record what its runtime says, and that is *)
(* a request the proxy still holds and the agent still leads to its        *)
(* session.                                                                *)
(***************************************************************************)
EXTENDS ManagedSessions, FiniteSetTheorems, SequenceTheorems, TLAPS

\* No two sessions use the same request id.
IdsApart == \A c, d \in Controls : c # d => IdsOf[c] \cap IdsOf[d] = {}

\* The map of the agent leads from an id to its session, and a request the
\* proxy still holds is in the map.
RequestsLead ==
  /\ \A i \in Ids : reqControl[i] # None => i \in IdsOf[reqControl[i]]
  /\ \A c \in Controls, i \in Ids :
       request[c][i] \in {"open", "answered"} => i \in IdsOf[c] /\ reqControl[i] = c

\* The prompt of a runtime is a request that is not over; a session that has
\* not started has done nothing.
RuntimesWait ==
  \A c \in Controls :
    /\ bridge[c] \in {"unused", "starting"} => runtime[c] = NewRuntime
    /\ runtime[c].prompt # None =>
         bridge[c] = "up" /\ request[c][runtime[c].prompt] \in {"open", "answered"}

\* A record tells what the runtime of its session says.
Agrees(recs, rt) ==
  \A t \in Threads :
    IsManaged(recs[t]) =>
      /\ rt[recs[t].by].session = t
      /\ recs[t].prompt # None => recs[t].prompt = rt[recs[t].by].prompt

\* A snapshot, or a command, names the session along with the request.
Named(by, id) == id # None => by \in Controls /\ id \in IdsOf[by]

\* What each side keeps: the agent, the snapshots it has sent, and the peer
\* with the presses it has sent.
Records == [Threads -> Managed \cup {ReadonlyRecord, None}]
Catalogs == [recs : Records, reqs : [Ids -> Threads \cup {None}]]

HostTypes ==
  /\ bridge \in [Controls -> {"unused", "starting", "up", "closed"}]
  /\ runtime \in [Controls -> Runtime]
  /\ reqControl \in [Ids -> Controls \cup {None}]
  /\ request \in [Controls -> [Ids -> {"unasked", "open", "answered", "done"}]]
  /\ ota \in BOOLEAN

HostInv == /\ HostTypes
           /\ Catalog \in Catalogs
           /\ RequestsLead
           /\ RuntimesWait
           /\ Agrees(sessions, runtime)

LinkInv == /\ connected \in BOOLEAN /\ linkUp \in BOOLEAN
           /\ lastPayload \in Snapshot \cup {None}
           /\ down \in Seq(Snapshot)
           /\ \A n \in 1..Len(down) : Named(down[n].by, down[n].prompt)

PeerInv == /\ up \in Seq(Command) /\ drops \in Nat
             /\ shown \in Snapshot /\ lastShown \in Ids \cup {None}
             /\ responseSent \in BOOLEAN
             /\ Named(shown.by, shown.prompt)
             /\ \A n \in 1..Len(up) : Named(up[n].by, up[n].id)

\* The inductive invariant: TypeOK and what a press rests on.
IInv == HostInv /\ LinkInv /\ PeerInv

(***************************************************************************)
(* The catalog.                                                            *)
(***************************************************************************)
\* A record that is managed is one of a session of ours.
LEMMA ManagedRecord ==
  ASSUME NEW recs \in Records, NEW t \in Threads, IsManaged(recs[t])
  PROVE  recs[t] \in Managed /\ recs[t].by \in Controls /\ recs[t].prompt \in Ids \cup {None}
<1>1. recs[t] \in Managed \cup {ReadonlyRecord, None}
  BY DEF Records
<1>2. recs[t] \in Managed
  BY <1>1 DEF IsManaged, ReadonlyRecord
<1>3. QED
  BY <1>2 DEF Managed

\* A prompt that is shown is one of a managed record.
LEMMA SnapshotTellsRecord ==
  ASSUME NEW recs \in Records
  PROVE  /\ SnapshotOf(recs) \in Snapshot
         /\ SnapshotOf(recs).prompt # None =>
              \E t \in Threads : /\ IsManaged(recs[t])
                                 /\ SnapshotOf(recs).prompt = recs[t].prompt
                                 /\ SnapshotOf(recs).by = recs[t].by
<1> DEFINE waiting == WaitingIn(recs)
           asking == {t \in waiting : IsManaged(recs[t]) /\ recs[t].prompt # None}
           primary == CHOOSE t \in asking : TRUE
           snap == SnapshotOf(recs)
<1>1. snap = [prompt |-> IF Cardinality(asking) = 1 THEN recs[primary].prompt ELSE None,
              by |-> IF Cardinality(asking) = 1 THEN recs[primary].by ELSE None,
              waiting |-> Cardinality(waiting)]
  <2> DEFINE w == Cardinality(waiting)
             p == IF Cardinality(asking) = 1 THEN recs[primary].prompt ELSE None
             b == IF Cardinality(asking) = 1 THEN recs[primary].by ELSE None
  <2>1. snap = [EmptySnapshot EXCEPT !.waiting = w, !.prompt = p, !.by = b]
    BY Zenon DEF SnapshotOf
  <2> HIDE DEF w, p, b, snap
  <2>2. snap = [prompt |-> p, by |-> b, waiting |-> w]
    BY <2>1 DEF EmptySnapshot
  <2>3. QED
    BY <2>2 DEF w, p, b
<1>2. waiting \subseteq Threads /\ asking \subseteq waiting
  BY DEF WaitingIn
<1>3. Cardinality(waiting) \in Nat /\ IsFiniteSet(asking)
  BY <1>2, FS_Subset, FS_CardinalityType, ManagedSessionsAssumption
     DEF ManagedSessionsAssumption
<1>4. Cardinality(asking) = 1 => primary \in asking
  BY <1>3, FS_EmptySet
<1>5. Cardinality(asking) = 1 =>
        primary \in Threads /\ IsManaged(recs[primary]) /\ recs[primary].prompt # None
  BY <1>2, <1>4
<1> HIDE DEF waiting, asking, primary, snap
<1>6. Cardinality(asking) = 1 =>
        recs[primary].by \in Controls /\ recs[primary].prompt \in Ids \cup {None}
  BY <1>5, ManagedRecord
<1>7. snap \in Snapshot
  BY <1>1, <1>3, <1>6 DEF Snapshot
<1>8. snap.prompt # None =>
        \E t \in Threads : /\ IsManaged(recs[t])
                           /\ snap.prompt = recs[t].prompt /\ snap.by = recs[t].by
  BY <1>1, <1>5
<1>9. QED
  BY <1>7, <1>8 DEF snap

\* The operations of the catalog give a catalog.
LEMMA UpsertedType ==
  ASSUME NEW cat \in Catalogs, NEW t \in Threads, NEW rec \in Managed
  PROVE  Upserted(cat, t, rec) \in Catalogs
BY DEF Upserted, Catalogs, Records, WithoutRequestsOf, Managed

LEMMA RemovedType ==
  ASSUME NEW cat \in Catalogs, NEW t \in Threads
  PROVE  Removed(cat, t) \in Catalogs
BY DEF Removed, Catalogs, Records, WithoutRequestsOf

LEMMA RecordedType ==
  ASSUME NEW cat \in Catalogs, NEW c \in Controls, NEW r \in Runtime,
         runtime[c].session \in Threads \cup {None}
  PROVE  Recorded(cat, c, r) \in Catalogs
<1> DEFINE prev == runtime[c].session
           kept == IF prev # None /\ prev # r.session THEN Removed(cat, prev) ELSE cat
<1>1. kept \in Catalogs
  BY RemovedType
<1>2. ToRecord(c, r) \in Managed /\ r.session \in Threads \cup {None}
  BY DEF ToRecord, Managed, Runtime
<1>3. Recorded(cat, c, r)
        = IF r.session = None THEN kept ELSE Upserted(kept, r.session, ToRecord(c, r))
  BY DEF Recorded
<1> HIDE DEF kept
<1>4. QED
  BY <1>1, <1>2, <1>3, UpsertedType

LEMMA PromptResolvedType ==
  ASSUME NEW cat \in Catalogs, NEW id \in Ids
  PROVE  PromptResolved(cat, id) \in Catalogs
<1> DEFINE t == cat.reqs[id]
           rec == [cat.recs[t] EXCEPT !.prompt = None, !.state = "other"]
           recs == IF t = None \/ cat.recs[t] = None THEN cat.recs
                   ELSE [cat.recs EXCEPT ![t] = rec]
           reqs == [cat.reqs EXCEPT ![id] = None]
<1>1. cat.recs \in Records /\ cat.reqs \in [Ids -> Threads \cup {None}]
  BY DEF Catalogs
<1>2. PromptResolved(cat, id) = [recs |-> recs, reqs |-> reqs]
  BY DEF PromptResolved
<1>3. t \in Threads /\ cat.recs[t] # None => rec \in Managed \cup {ReadonlyRecord}
  <2>1. SUFFICES ASSUME NEW x \in Managed \cup {ReadonlyRecord}
                 PROVE  [x EXCEPT !.prompt = None, !.state = "other"]
                          \in Managed \cup {ReadonlyRecord}
    BY <1>1 DEF Records
  <2>2. CASE x \in Managed
    BY <2>2, Zenon DEF Managed, State
  <2>3. CASE x = ReadonlyRecord
    <3>1. [ReadonlyRecord EXCEPT !.prompt = None] = ReadonlyRecord
      BY DEF ReadonlyRecord
    <3>2. [ReadonlyRecord EXCEPT !.state = "other"] = ReadonlyRecord
      BY DEF ReadonlyRecord
    <3>3. QED
      BY <2>3, <3>1, <3>2
  <2>4. QED
    BY <2>2, <2>3
<1>4. recs \in Records
  BY <1>1, <1>3 DEF Records
<1>5. reqs \in [Ids -> Threads \cup {None}]
  BY <1>1
<1> HIDE DEF recs, reqs
<1>6. QED
  BY <1>2, <1>4, <1>5 DEF Catalogs

LEMMA ReadonlyReplacedType ==
  ASSUME NEW cat \in Catalogs, NEW found \in SUBSET Watched
  PROVE  ReadonlyReplaced(cat, found) \in Catalogs
BY DEF ReadonlyReplaced, Catalogs, Records

(***************************************************************************)
(* Records agree with runtimes.                                            *)
(***************************************************************************)

\* An event moves the record of a session along with its runtime.
LEMMA RecordedKeeps ==
  ASSUME NEW cat \in Catalogs, NEW rt \in [Controls -> Runtime], NEW c \in Controls,
         NEW r \in Runtime, Agrees(cat.recs, rt),
         runtime[c].session \in Threads \cup {None}, rt[c].session = runtime[c].session
  PROVE  Agrees(Recorded(cat, c, r).recs, [rt EXCEPT ![c] = r])
<1> DEFINE prev == runtime[c].session
           kept == IF prev # None /\ prev # r.session THEN Removed(cat, prev) ELSE cat
           recs == Recorded(cat, c, r).recs
           new == [rt EXCEPT ![c] = r]
<1>1. kept \in Catalogs
  BY RemovedType
<1>2. cat.recs \in Records /\ kept.recs \in Records
  BY <1>1 DEF Catalogs
<1>3. /\ \A t \in Threads : t # prev => kept.recs[t] = cat.recs[t]
      /\ prev # None /\ prev # r.session => kept.recs[prev] = None
      /\ prev = r.session => kept.recs = cat.recs
  BY <1>2 DEF Removed, Records
<1>4. r.session \in Threads \cup {None}
  BY DEF Runtime
<1>5. recs = IF r.session = None THEN kept.recs
             ELSE [kept.recs EXCEPT ![r.session] = ToRecord(c, r)]
  BY DEF Recorded, Upserted
<1>6. ASSUME NEW t \in Threads, IsManaged(recs[t])
      PROVE  /\ new[recs[t].by].session = t
             /\ recs[t].prompt # None => recs[t].prompt = new[recs[t].by].prompt
  <2>1. t # None
    BY ManagedSessionsAssumption DEF ManagedSessionsAssumption
  <2>2. CASE t = r.session
    <3>1. recs[t] = ToRecord(c, r)
      BY <1>2, <1>5, <2>1, <2>2 DEF Records
    <3>2. recs[t].by = c /\ recs[t].prompt = r.prompt /\ new[c] = r
      BY <3>1 DEF ToRecord
    <3>3. QED
      BY <2>2, <3>2
  <2>3. CASE t # r.session
    <3>1. recs[t] = kept.recs[t]
      BY <1>2, <1>5, <2>3 DEF Records
    <3>2. t # prev
      BY <1>3, <1>6, <2>1, <2>3, <3>1 DEF IsManaged
    <3>3. recs[t] = cat.recs[t] /\ IsManaged(cat.recs[t])
      BY <1>3, <1>6, <3>1, <3>2
    <3>4. /\ rt[cat.recs[t].by].session = t
          /\ cat.recs[t].prompt # None => cat.recs[t].prompt = rt[cat.recs[t].by].prompt
      BY <3>3 DEF Agrees
    <3>5. cat.recs[t].by \in Controls
      BY <1>2, <3>3, ManagedRecord
    <3>6. cat.recs[t].by # c
      BY <3>2, <3>4
    <3>7. new[cat.recs[t].by] = rt[cat.recs[t].by]
      BY <3>5, <3>6
    <3>8. QED
      BY <3>3, <3>4, <3>7
  <2>4. QED
    BY <2>2, <2>3
<1> HIDE DEF recs, new
<1>7. Agrees(recs, new)
  BY <1>6 DEF Agrees
<1>8. QED
  BY <1>7 DEF recs, new

\* A prompt that is cleared from a record is no longer told.
LEMMA PromptResolvedKeeps ==
  ASSUME NEW cat \in Catalogs, NEW rt, NEW id \in Ids, Agrees(cat.recs, rt)
  PROVE  Agrees(PromptResolved(cat, id).recs, rt)
<1> DEFINE s == cat.reqs[id]
           recs == PromptResolved(cat, id).recs
<1>1. cat.recs \in Records /\ s \in Threads \cup {None}
  BY DEF Catalogs
<1>2. recs = IF s = None \/ cat.recs[s] = None THEN cat.recs
             ELSE [cat.recs EXCEPT ![s].prompt = None, ![s].state = "other"]
  BY DEF PromptResolved
<1> HIDE DEF recs
<1>3. ASSUME NEW t \in Threads
      PROVE  \/ recs[t] = cat.recs[t]
             \/ recs[t] = [cat.recs[t] EXCEPT !.prompt = None, !.state = "other"]
                /\ cat.recs[t] # None
  BY <1>1, <1>2 DEF Records
<1>4. ASSUME NEW t \in Threads, IsManaged(recs[t])
      PROVE  /\ IsManaged(cat.recs[t]) /\ recs[t].by = cat.recs[t].by
             /\ recs[t].prompt \in {None, cat.recs[t].prompt}
  <2>1. CASE recs[t] = cat.recs[t]
    BY <1>4, <2>1
  <2>2. CASE recs[t] = [cat.recs[t] EXCEPT !.prompt = None, !.state = "other"]
             /\ cat.recs[t] # None
    <3>1. cat.recs[t] \in Managed \cup {ReadonlyRecord}
      BY <1>1, <2>2 DEF Records
    <3>2. recs[t].by = cat.recs[t].by /\ recs[t].prompt = None
      BY <2>2, <3>1 DEF Managed, ReadonlyRecord
    <3>3. QED
      BY <1>4, <2>2, <3>2 DEF IsManaged
  <2>3. QED
    BY <1>3, <2>1, <2>2
<1>5. Agrees(recs, rt)
  BY <1>4 DEF Agrees
<1>6. QED
  BY <1>5 DEF recs

\* The log watcher leaves the managed records alone.
LEMMA ReadonlyReplacedKeeps ==
  ASSUME NEW cat \in Catalogs, NEW rt, NEW found \in SUBSET Watched, Agrees(cat.recs, rt)
  PROVE  Agrees(ReadonlyReplaced(cat, found).recs, rt)
<1> DEFINE recs == ReadonlyReplaced(cat, found).recs
<1>1. ASSUME NEW t \in Threads, IsManaged(recs[t])
      PROVE  IsManaged(cat.recs[t]) /\ recs[t] = cat.recs[t]
  <2>1. recs[t] = CASE t \in {u \in Threads : IsManaged(cat.recs[u])} -> cat.recs[t]
                    [] t \in found \ {u \in Threads : IsManaged(cat.recs[u])} -> ReadonlyRecord
                    [] OTHER -> None
    BY DEF ReadonlyReplaced
  <2>2. QED
    BY <1>1, <2>1 DEF IsManaged, ReadonlyRecord
<1> HIDE DEF recs
<1>2. Agrees(recs, rt)
  BY <1>1 DEF Agrees
<1>3. QED
  BY <1>2 DEF recs

(***************************************************************************)
(* What leaves a side alone keeps its part of the invariant.               *)
(***************************************************************************)
LEMMA HostStays ==
  ASSUME HostInv, UNCHANGED hostVars
  PROVE  HostInv'
BY DEF HostInv, hostVars, HostTypes, Catalog, RequestsLead, RuntimesWait, Agrees

LEMMA LinkStays ==
  ASSUME LinkInv, UNCHANGED linkVars
  PROVE  LinkInv'
BY DEF LinkInv, linkVars

LEMMA PeerStays ==
  ASSUME PeerInv, UNCHANGED <<up, drops, peerVars>>
  PROVE  PeerInv'
BY DEF PeerInv, peerVars

(***************************************************************************)
(* What the peer is told.                                                  *)
(***************************************************************************)

\* The prompt of a snapshot belongs to the session it names.
LEMMA SnapshotNamed ==
  ASSUME NEW recs \in Records, NEW rt \in [Controls -> Runtime], Agrees(recs, rt),
         \A c \in Controls : rt[c].prompt # None => rt[c].prompt \in IdsOf[c]
  PROVE  /\ SnapshotOf(recs) \in Snapshot
         /\ Named(SnapshotOf(recs).by, SnapshotOf(recs).prompt)
<1>1. SnapshotOf(recs) \in Snapshot
  BY SnapshotTellsRecord
<1>2. ASSUME SnapshotOf(recs).prompt # None
      PROVE  /\ SnapshotOf(recs).by \in Controls
             /\ SnapshotOf(recs).prompt \in IdsOf[SnapshotOf(recs).by]
  <2>1. PICK t \in Threads : /\ IsManaged(recs[t])
                             /\ SnapshotOf(recs).prompt = recs[t].prompt
                             /\ SnapshotOf(recs).by = recs[t].by
    BY <1>2, SnapshotTellsRecord
  <2>2. recs[t].by \in Controls
    BY <2>1, ManagedRecord
  <2>3. recs[t].prompt = rt[recs[t].by].prompt
    BY <1>2, <2>1 DEF Agrees
  <2>4. QED
    BY <1>2, <2>1, <2>2, <2>3
<1>3. QED
  BY <1>1, <1>2 DEF Named

LEMMA OwnPrompts ==
  ASSUME HostTypes, RequestsLead, RuntimesWait
  PROVE  \A c \in Controls : runtime[c].prompt # None => runtime[c].prompt \in IdsOf[c]
BY DEF HostTypes, RequestsLead, RuntimesWait, Runtime

\* One more line for the peer.
LEMMA TransmitKeeps ==
  ASSUME LinkInv, NEW snap \in Snapshot, Named(snap.by, snap.prompt), Transmit(snap)
  PROVE  /\ connected' \in BOOLEAN /\ linkUp' \in BOOLEAN
         /\ down' \in Seq(Snapshot)
         /\ \A n \in 1..Len(down') : Named(down'[n].by, down'[n].prompt)
<1>1. connected' \in BOOLEAN /\ linkUp' \in BOOLEAN
  BY DEF Transmit, LinkInv
<1>2. CASE down' = Append(down, snap)
  <2>1. down \in Seq(Snapshot) /\ Len(down) \in Nat
    BY LenProperties DEF LinkInv
  <2>2. /\ down' \in Seq(Snapshot) /\ Len(down') = Len(down) + 1
        /\ \A i \in 1..Len(down) : down'[i] = down[i]
        /\ down'[Len(down) + 1] = snap
    BY <1>2, <2>1, AppendProperties
  <2>3. \A n \in 1..Len(down') : n \in 1..Len(down) \/ n = Len(down) + 1
    BY <2>1, <2>2
  <2>4. \A n \in 1..Len(down') : Named(down'[n].by, down'[n].prompt)
    BY <2>2, <2>3 DEF LinkInv
  <2>5. QED
    BY <1>1, <2>2, <2>4
<1>3. CASE down' = <<snap>>
  <2>1. down' \in Seq(Snapshot) /\ Len(down') = 1 /\ down'[1] = snap
    BY <1>3
  <2>2. QED
    BY <1>1, <2>1
<1>4. CASE down' = down
  BY <1>1, <1>4 DEF LinkInv
<1>5. QED
  BY <1>2, <1>3, <1>4 DEF Transmit

LEMMA PublishKeeps ==
  ASSUME LinkInv, NEW recs \in Records, NEW force \in BOOLEAN, Publish(recs, force),
         SnapshotOf(recs) \in Snapshot,
         Named(SnapshotOf(recs).by, SnapshotOf(recs).prompt)
  PROVE  LinkInv'
<1> DEFINE snap == SnapshotOf(recs)
<1>1. \/ UNCHANGED linkVars
      \/ /\ lastPayload' = IF ota THEN lastPayload ELSE snap
         /\ UNCHANGED <<connected, linkUp, down>> \/ Transmit(snap)
  BY DEF Publish
<1>2. CASE UNCHANGED linkVars
  BY <1>2, LinkStays
<1>3. CASE /\ lastPayload' = IF ota THEN lastPayload ELSE snap
           /\ UNCHANGED <<connected, linkUp, down>> \/ Transmit(snap)
  <2>1. lastPayload' \in Snapshot \cup {None}
    BY <1>3 DEF LinkInv
  <2>2. CASE UNCHANGED <<connected, linkUp, down>>
    BY <2>1, <2>2 DEF LinkInv
  <2>3. CASE Transmit(snap)
    BY <2>1, <2>3, TransmitKeeps DEF LinkInv
  <2>4. QED
    BY <1>3, <2>2, <2>3
<1>4. QED
  BY <1>1, <1>2, <1>3

\* A new catalog that agrees with the runtimes, and what is told of it.
LEMMA CommitKeeps ==
  ASSUME LinkInv, HostTypes', RequestsLead', RuntimesWait',
         NEW cat \in Catalogs, Agrees(cat.recs, runtime'), Commit(cat)
  PROVE  HostInv' /\ LinkInv'
<1>1. cat.recs \in Records /\ sessions' = cat.recs /\ reqSession' = cat.reqs
  BY DEF Catalogs, Commit
<1>2. runtime' \in [Controls -> Runtime]
  BY DEF HostTypes
<1>3. \A c \in Controls : runtime'[c].prompt # None => runtime'[c].prompt \in IdsOf[c]
  BY DEF HostTypes, RequestsLead, RuntimesWait, Runtime
<1>4. /\ SnapshotOf(cat.recs) \in Snapshot
      /\ Named(SnapshotOf(cat.recs).by, SnapshotOf(cat.recs).prompt)
  BY <1>1, <1>2, <1>3, SnapshotNamed
<1>5. LinkInv'
  BY <1>1, <1>4, PublishKeeps DEF Commit
<1>6. Catalog' \in Catalogs /\ Agrees(sessions', runtime')
  BY <1>1 DEF Catalog, Catalogs
<1>7. QED
  BY <1>5, <1>6 DEF HostInv

\* An event of a session.
LEMMA ApplyKeeps ==
  ASSUME HostInv, LinkInv, HostTypes', RequestsLead', RuntimesWait',
         NEW c \in Controls, NEW r \in Runtime, Apply(c, r)
  PROVE  HostInv' /\ LinkInv'
<1>1. /\ runtime \in [Controls -> Runtime] /\ Catalog \in Catalogs
      /\ Agrees(Catalog.recs, runtime) /\ runtime[c].session \in Threads \cup {None}
  BY DEF HostInv, HostTypes, Catalog, Runtime
<1>2. runtime' = [runtime EXCEPT ![c] = r] /\ Commit(Recorded(Catalog, c, r))
  BY DEF Apply
<1>3. Recorded(Catalog, c, r) \in Catalogs
  BY <1>1, RecordedType
<1>4. Agrees(Recorded(Catalog, c, r).recs, runtime')
  BY <1>1, <1>2, RecordedKeeps
<1>5. QED
  BY <1>2, <1>3, <1>4, CommitKeeps

(***************************************************************************)
(* The steps.                                                              *)
(***************************************************************************)
LEMMA InitHolds == Init => IInv
<1> SUFFICES ASSUME Init PROVE IInv
  OBVIOUS
<1>1. \A t \in Threads : sessions[t] = None
  BY DEF Init
<1>2. NewRuntime \in Runtime
  BY DEF NewRuntime, Runtime, State
<1>3. HostInv
  <2>1. HostTypes
    BY <1>2 DEF Init, HostTypes
  <2>2. Catalog \in Catalogs
    BY DEF Init, Catalog, Catalogs, Records
  <2>3. RequestsLead
    BY DEF Init, RequestsLead
  <2>4. RuntimesWait
    BY DEF Init, RuntimesWait, NewRuntime
  <2>5. Agrees(sessions, runtime)
    BY <1>1 DEF Agrees, IsManaged
  <2>6. QED
    BY <2>1, <2>2, <2>3, <2>4, <2>5 DEF HostInv
<1>4. LinkInv
  <2>1. down \in Seq(Snapshot) /\ Len(down) = 0
    BY EmptySeq DEF Init
  <2>2. \A n \in 1..Len(down) : FALSE
    BY <2>1
  <2>3. connected = FALSE /\ linkUp = FALSE /\ lastPayload = None
    BY DEF Init
  <2>4. QED
    BY <2>1, <2>2, <2>3 DEF LinkInv
<1>5. PeerInv
  <2>1. up \in Seq(Command) /\ Len(up) = 0
    BY EmptySeq DEF Init
  <2>2. \A n \in 1..Len(up) : FALSE
    BY <2>1
  <2>3. shown \in Snapshot /\ shown.prompt = None
    BY DEF Init, EmptySnapshot, Snapshot
  <2>4. drops = 0 /\ lastShown = None /\ responseSent = FALSE
    BY DEF Init
  <2>5. QED
    BY <2>1, <2>2, <2>3, <2>4 DEF PeerInv, Named
<1>6. QED
  BY <1>3, <1>4, <1>5 DEF IInv

LEMMA InvImpliesTypeOK == IInv => TypeOK
<1> SUFFICES ASSUME IInv PROVE TypeOK
  OBVIOUS
<1>1. /\ sessions \in [Threads -> Managed \cup {ReadonlyRecord, None}]
      /\ reqSession \in [Ids -> Threads \cup {None}]
  BY DEF IInv, HostInv, Catalog, Catalogs, Records
<1>2. QED
  BY <1>1 DEF IInv, HostInv, HostTypes, LinkInv, PeerInv, TypeOK

\* A session starts with nothing to tell.
LEMMA LaunchKeeps ==
  ASSUME HostInv, NEW c \in Controls, LaunchBegins(c) \/ LaunchEnds(c)
  PROVE  HostInv'
<1>1. runtime' = runtime
  BY DEF LaunchBegins, LaunchEnds, HostInv, HostTypes, RuntimesWait
<1>2. UNCHANGED <<sessions, reqSession, reqControl, request, ota>>
  BY DEF LaunchBegins, LaunchEnds
<1>3. /\ bridge' \in [Controls -> {"unused", "starting", "up", "closed"}]
      /\ \A d \in Controls : bridge[d] = "up" => bridge'[d] = "up"
      /\ \A d \in Controls : bridge'[d] \in {"unused", "starting"} =>
                               bridge[d] \in {"unused", "starting"}
  BY DEF LaunchBegins, LaunchEnds, HostInv, HostTypes
<1>4. HostTypes' /\ RequestsLead' /\ RuntimesWait'
  BY <1>1, <1>2, <1>3 DEF HostInv, HostTypes, RequestsLead, RuntimesWait
<1>5. Catalog' \in Catalogs /\ Agrees(sessions', runtime')
  BY <1>1, <1>2 DEF HostInv, Catalog
<1>6. QED
  BY <1>4, <1>5 DEF HostInv

LEMMA TurnOutputKeeps ==
  ASSUME HostInv, LinkInv, NEW c \in Controls, NEW t \in Threads, Turn(c, t) \/ Output(c, t)
  PROVE  HostInv' /\ LinkInv'
<1>1. PICK r \in Runtime : Apply(c, r) /\ r.prompt = runtime[c].prompt
  <2>1. runtime[c] \in Runtime
    BY DEF HostInv, HostTypes
  <2>2. /\ [runtime[c] EXCEPT !.session = t, !.state = "other"] \in Runtime
        /\ [runtime[c] EXCEPT !.session = t, !.state = "other"].prompt = runtime[c].prompt
    BY <2>1, Zenon DEF Runtime, State
  <2>3. /\ [runtime[c] EXCEPT !.session = t] \in Runtime
        /\ [runtime[c] EXCEPT !.session = t].prompt = runtime[c].prompt
    BY <2>1 DEF Runtime
  <2>4. QED
    BY <2>2, <2>3 DEF Turn, Output
<1>2. bridge[c] = "up" /\ UNCHANGED <<bridge, reqControl, request, ota>>
  BY DEF Turn, Output
<1>3. runtime' = [runtime EXCEPT ![c] = r]
  BY <1>1 DEF Apply
<1>4. HostTypes' /\ RequestsLead'
  BY <1>2, <1>3 DEF HostInv, HostTypes, RequestsLead
<1>5. RuntimesWait'
  BY <1>1, <1>2, <1>3 DEF HostInv, HostTypes, RuntimesWait
<1>6. QED
  BY <1>1, <1>4, <1>5, ApplyKeeps

LEMMA AsksKeeps ==
  ASSUME IdsApart, HostInv, LinkInv, NEW c \in Controls, NEW t \in Threads,
         NEW id \in IdsOf[c], Asks(c, t, id)
  PROVE  HostInv' /\ LinkInv'
<1> DEFINE r == [session |-> t, state |-> "waiting", prompt |-> id]
<1>1. id \in Ids /\ \A d \in Controls : id \in IdsOf[d] => d = c
  BY ManagedSessionsAssumption DEF ManagedSessionsAssumption, IdsApart
<1>2. r \in Runtime /\ r.prompt = id /\ r # NewRuntime
  BY <1>1, ManagedSessionsAssumption DEF Runtime, State, NewRuntime, ManagedSessionsAssumption
<1>3. /\ Apply(c, r) /\ runtime' = [runtime EXCEPT ![c] = r]
      /\ bridge[c] = "up" /\ UNCHANGED <<bridge, ota>>
      /\ request' = [request EXCEPT ![c][id] = "open"]
      /\ reqControl' = [reqControl EXCEPT ![id] = c]
  BY DEF Asks, Apply
<1> HIDE DEF r
<1>4. HostTypes'
  BY <1>1, <1>2, <1>3 DEF HostInv, HostTypes
<1>5. /\ \A d \in Controls, i \in Ids :
           request'[d][i] = IF d = c /\ i = id THEN "open" ELSE request[d][i]
      /\ \A i \in Ids : reqControl'[i] = IF i = id THEN c ELSE reqControl[i]
      /\ \A d \in Controls : runtime'[d] = IF d = c THEN r ELSE runtime[d]
  BY <1>1, <1>3 DEF HostInv, HostTypes
<1>6. RequestsLead'
  BY <1>1, <1>5 DEF HostInv, RequestsLead
<1>7. RuntimesWait'
  <2>1. \A d \in Controls : runtime[d].prompt \in Ids \cup {None}
    BY DEF HostInv, HostTypes, Runtime
  <2>2. QED
    BY <1>1, <1>2, <1>3, <1>5, <2>1 DEF HostInv, RuntimesWait
<1>8. QED
  BY <1>2, <1>3, <1>4, <1>6, <1>7, ApplyKeeps

LEMMA ResolvedKeeps ==
  ASSUME IdsApart, HostInv, LinkInv, NEW c \in Controls, NEW id \in IdsOf[c], Resolved(c, id)
  PROVE  HostInv' /\ LinkInv'
<1> DEFINE r == AfterResolved(runtime[c], id)
           first == Recorded(Catalog, c, r)
           then == PromptResolved(first, id)
           last == Recorded(then, c, r)
<1>1. id \in Ids /\ \A d \in Controls : id \in IdsOf[d] => d = c
  BY ManagedSessionsAssumption DEF ManagedSessionsAssumption, IdsApart
<1>2. runtime \in [Controls -> Runtime] /\ runtime[c].session \in Threads \cup {None}
  BY DEF HostInv, HostTypes, Runtime
<1>3. /\ r \in Runtime /\ r.session = runtime[c].session
      /\ r.prompt # None => r.prompt = runtime[c].prompt /\ r.prompt # id
      /\ r = runtime[c] \/ r.prompt = None
  <2>1. runtime[c] \in Runtime
    BY <1>2
  <2>2. /\ [runtime[c] EXCEPT !.prompt = None, !.state = "other"] \in Runtime
        /\ [runtime[c] EXCEPT !.prompt = None, !.state = "other"].session = runtime[c].session
        /\ [runtime[c] EXCEPT !.prompt = None, !.state = "other"].prompt = None
    BY <2>1, Zenon DEF Runtime, State
  <2>3. QED
    BY <2>1, <2>2 DEF AfterResolved
<1>4. /\ runtime' = [runtime EXCEPT ![c] = r] /\ Commit(last)
      /\ bridge[c] = "up" /\ UNCHANGED <<bridge, ota>>
      /\ request' = [request EXCEPT ![c][id] = "done"]
      /\ reqControl' = [reqControl EXCEPT ![id] = None]
  BY DEF Resolved
<1>5. first \in Catalogs /\ then \in Catalogs /\ last \in Catalogs
  <2>1. first \in Catalogs
    BY <1>2, <1>3, RecordedType DEF HostInv
  <2> HIDE DEF first
  <2>2. then \in Catalogs
    BY <1>1, <2>1, PromptResolvedType
  <2> HIDE DEF then
  <2>3. last \in Catalogs
    BY <1>2, <1>3, <2>2, RecordedType
  <2>4. QED
    BY <2>1, <2>2, <2>3
<1> HIDE DEF r
<1>6. Agrees(last.recs, runtime')
  <2>1. Agrees(first.recs, runtime')
    <3>1. Catalog \in Catalogs /\ Agrees(Catalog.recs, runtime)
      BY DEF HostInv, Catalog
    <3>2. QED
      BY <1>2, <1>3, <1>4, <3>1, RecordedKeeps
  <2> HIDE DEF first
  <2>2. Agrees(then.recs, runtime')
    BY <1>1, <1>5, <2>1, PromptResolvedKeeps
  <2> HIDE DEF then
  <2>3. /\ runtime' \in [Controls -> Runtime] /\ runtime'[c].session = runtime[c].session
        /\ [runtime' EXCEPT ![c] = r] = runtime'
    BY <1>2, <1>3, <1>4
  <2>4. Agrees(last.recs, [runtime' EXCEPT ![c] = r])
    BY <1>2, <1>3, <1>5, <2>2, <2>3, RecordedKeeps
  <2>5. QED
    BY <2>3, <2>4
<1> HIDE DEF last
<1>7. HostTypes'
  BY <1>1, <1>3, <1>4 DEF HostInv, HostTypes
<1>8. /\ \A d \in Controls, i \in Ids :
           request'[d][i] = IF d = c /\ i = id THEN "done" ELSE request[d][i]
      /\ \A i \in Ids : reqControl'[i] = IF i = id THEN None ELSE reqControl[i]
      /\ \A d \in Controls : runtime'[d] = IF d = c THEN r ELSE runtime[d]
  BY <1>1, <1>4 DEF HostInv, HostTypes
<1>9. RequestsLead'
  BY <1>1, <1>8 DEF HostInv, RequestsLead
<1>10. RuntimesWait'
  <2>1. \A d \in Controls : runtime[d].prompt \in Ids \cup {None}
    BY <1>2 DEF Runtime
  <2>2. QED
    BY <1>1, <1>3, <1>4, <1>8, <2>1 DEF HostInv, RuntimesWait
<1>11. QED
  BY <1>4, <1>5, <1>6, <1>7, <1>9, <1>10, CommitKeeps

LEMMA ClosesKeeps ==
  ASSUME HostInv, LinkInv, NEW c \in Controls, SessionCloses(c)
  PROVE  HostInv' /\ LinkInv'
<1> DEFINE r == Closed(runtime[c])
<1>1. r \in Runtime /\ r.prompt = None
  BY DEF HostInv, HostTypes, Closed, Runtime
<1>2. /\ Apply(c, r) /\ runtime' = [runtime EXCEPT ![c] = r]
      /\ bridge' = [bridge EXCEPT ![c] = "closed"] /\ UNCHANGED <<reqControl, ota>>
      /\ request' = [request EXCEPT ![c] = [id \in Ids |-> "done"]]
  BY DEF SessionCloses, Apply
<1> HIDE DEF r
<1>3. HostTypes'
  BY <1>1, <1>2 DEF HostInv, HostTypes
<1>4. /\ \A d \in Controls, i \in Ids :
           request'[d][i] = IF d = c THEN "done" ELSE request[d][i]
      /\ \A d \in Controls : runtime'[d] = IF d = c THEN r ELSE runtime[d]
      /\ \A d \in Controls : bridge'[d] = IF d = c THEN "closed" ELSE bridge[d]
  BY <1>2 DEF HostInv, HostTypes
<1>5. RequestsLead'
  BY <1>2, <1>4 DEF HostInv, RequestsLead
<1>6. RuntimesWait'
  <2>1. \A d \in Controls : runtime[d].prompt \in Ids \cup {None}
    BY DEF HostInv, HostTypes, Runtime
  <2>2. QED
    BY <1>1, <1>4, <2>1 DEF HostInv, RuntimesWait
<1>7. QED
  BY <1>1, <1>2, <1>3, <1>5, <1>6, ApplyKeeps

\* An answer, of the TUI or of the peer, leaves a request the server has
\* still to settle.
LEMMA AnswerKeeps ==
  ASSUME HostInv, NEW c \in Controls, NEW id \in Ids, request[c][id] = "open",
         request' = [request EXCEPT ![c][id] = "answered"],
         UNCHANGED <<bridge, runtime, sessions, reqSession, reqControl, ota>>
  PROVE  HostInv'
<1>1. /\ HostTypes'
      /\ \A d \in Controls, i \in Ids :
           request[d][i] \in {"open", "answered"} <=> request'[d][i] \in {"open", "answered"}
  BY DEF HostInv, HostTypes
<1>2. RequestsLead'
  BY <1>1 DEF HostInv, RequestsLead
<1>3. RuntimesWait'
  <2>1. \A d \in Controls : runtime[d].prompt \in Ids \cup {None}
    BY DEF HostInv, HostTypes, Runtime
  <2>2. QED
    BY <1>1, <2>1 DEF HostInv, RuntimesWait
<1>4. Catalog' \in Catalogs /\ Agrees(sessions', runtime')
  BY DEF HostInv, Catalog
<1>5. QED
  BY <1>1, <1>2, <1>3, <1>4 DEF HostInv

\* The line a press is sent on.
LEMMA PressKeeps ==
  ASSUME PeerInv, PeerPress
  PROVE  PeerInv'
<1> DEFINE cmd == [by |-> shown.by, id |-> shown.prompt]
<1>1. cmd \in Command /\ Named(cmd.by, cmd.id)
  BY DEF PeerInv, PeerPress, Snapshot, Command
<1>2. up' \in {up, Append(up, cmd)} /\ responseSent' = TRUE
      /\ UNCHANGED <<drops, shown, lastShown>>
  BY DEF PeerPress
<1> HIDE DEF cmd
<1>3. up \in Seq(Command) /\ Len(up) \in Nat
  BY LenProperties DEF PeerInv
<1>4. up' \in Seq(Command) /\ \A n \in 1..Len(up') : Named(up'[n].by, up'[n].id)
  <2>1. CASE up' = up
    BY <1>3, <2>1 DEF PeerInv
  <2>2. CASE up' = Append(up, cmd)
    <3>1. /\ up' \in Seq(Command) /\ Len(up') = Len(up) + 1
          /\ \A n \in 1..Len(up) : up'[n] = up[n]
          /\ up'[Len(up) + 1] = cmd
      BY <1>1, <1>3, <2>2, AppendProperties
    <3>2. \A n \in 1..Len(up') : n \in 1..Len(up) \/ n = Len(up) + 1
      BY <1>3, <3>1
    <3>3. QED
      BY <1>1, <3>1, <3>2 DEF PeerInv
  <2>3. QED
    BY <1>2, <2>1, <2>2
<1>5. QED
  BY <1>2, <1>4 DEF PeerInv

\* The oldest press is taken off the line.
LEMMA TailKeeps ==
  ASSUME PeerInv, up # <<>>, up' = Tail(up), UNCHANGED <<drops, peerVars>>
  PROVE  /\ PeerInv'
         /\ Head(up) \in Command /\ Named(Head(up).by, Head(up).id)
<1>1. up \in Seq(Command) /\ Len(up) \in Nat \ {0}
  BY EmptySeq DEF PeerInv
<1>2. /\ Head(up) \in Command /\ up' \in Seq(Command) /\ Len(up') = Len(up) - 1
      /\ \A i \in 1..Len(up') : up'[i] = up[i + 1]
  BY <1>1, HeadTailProperties
<1>3. \A n \in 1..Len(up') : n + 1 \in 1..Len(up)
  BY <1>1, <1>2
<1>4. \A n \in 1..Len(up') : Named(up'[n].by, up'[n].id)
  BY <1>2, <1>3 DEF PeerInv
<1>5. Head(up) = up[1] /\ 1 \in 1..Len(up)
  BY <1>1
<1>6. Named(Head(up).by, Head(up).id)
  BY <1>5 DEF PeerInv
<1>7. QED
  BY <1>2, <1>4, <1>6 DEF PeerInv, peerVars

\* The peer takes what has arrived.
LEMMA ReadsKeeps ==
  ASSUME LinkInv, PeerInv, PeerReads
  PROVE  LinkInv' /\ PeerInv'
<1>1. PICK n \in 1..Len(down) : shown' = down[n] /\ down' = SubSeq(down, n + 1, Len(down))
  BY DEF PeerReads
<1>2. /\ down \in Seq(Snapshot) /\ Len(down) \in Nat /\ n \in Nat
      /\ \A i \in 1..Len(down) : down[i] \in Snapshot /\ Named(down[i].by, down[i].prompt)
  BY LenProperties, ElementOfSeq DEF LinkInv
<1>3. /\ lastShown' = shown'.prompt
      /\ responseSent' = (responseSent /\ shown'.prompt = lastShown)
      /\ UNCHANGED <<lastPayload, connected, linkUp, up, drops>>
  BY DEF PeerReads
<1>4. shown' \in Snapshot /\ Named(shown'.by, shown'.prompt)
  BY <1>1, <1>2
<1>5. PeerInv'
  BY <1>3, <1>4 DEF PeerInv, Snapshot
<1>6. \A i \in n + 1 .. Len(down) : i \in 1..Len(down)
  BY <1>2
<1>7. /\ down' \in Seq(Snapshot)
      /\ Len(down') = IF n + 1 <= Len(down) THEN Len(down) - (n + 1) + 1 ELSE 0
      /\ \A i \in 1 .. Len(down) - (n + 1) + 1 : down'[i] = down[n + 1 + i - 1]
  <2>1. n + 1 \in Int /\ Len(down) \in Int
    BY <1>2
  <2>2. \A i \in n + 1 .. Len(down) : down[i] \in Snapshot
    BY <1>2, <1>6
  <2>3. QED
    BY <1>1, <2>1, <2>2, SubSeqProperties
<1>8. ASSUME NEW i \in 1..Len(down') PROVE Named(down'[i].by, down'[i].prompt)
  <2>1. i \in 1 .. Len(down) - (n + 1) + 1 /\ n + 1 + i - 1 \in 1..Len(down)
    BY <1>2, <1>7
  <2>2. QED
    BY <1>2, <1>7, <2>1
<1>9. QED
  BY <1>3, <1>5, <1>7, <1>8 DEF LinkInv

LEMMA SessionEventKeeps ==
  ASSUME IdsApart, IInv, NEW c \in Controls, SessionEvent(c)
  PROVE  IInv'
<1>1. HostInv /\ LinkInv /\ PeerInv
  BY DEF IInv
<1>2. ThreadsOf[c] \subseteq Threads /\ IdsOf[c] \subseteq Ids
  BY ManagedSessionsAssumption DEF ManagedSessionsAssumption
<1>3. CASE LaunchBegins(c) \/ LaunchEnds(c)
  <2>1. UNCHANGED linkVars /\ UNCHANGED <<up, drops, peerVars>>
    BY <1>3 DEF LaunchBegins, LaunchEnds
  <2>2. QED
    BY <1>1, <1>3, <2>1, LaunchKeeps, LinkStays, PeerStays DEF IInv
<1>4. CASE SessionCloses(c)
  <2>1. UNCHANGED <<up, drops, peerVars>>
    BY <1>4 DEF SessionCloses
  <2>2. QED
    BY <1>1, <1>4, <2>1, ClosesKeeps, PeerStays DEF IInv
<1>5. ASSUME NEW t \in ThreadsOf[c], Turn(c, t) \/ Output(c, t)
      PROVE  IInv'
  <2>1. UNCHANGED <<up, drops, peerVars>>
    BY <1>5 DEF Turn, Output
  <2>2. QED
    BY <1>1, <1>2, <1>5, <2>1, TurnOutputKeeps, PeerStays DEF IInv
<1>6. ASSUME NEW id \in IdsOf[c], Resolved(c, id)
      PROVE  IInv'
  <2>1. UNCHANGED <<up, drops, peerVars>>
    BY <1>6 DEF Resolved
  <2>2. QED
    BY <1>1, <1>6, <2>1, ResolvedKeeps, PeerStays DEF IInv
<1>7. ASSUME NEW id \in IdsOf[c], TuiAnswers(c, id)
      PROVE  IInv'
  <2>1. /\ UNCHANGED linkVars /\ UNCHANGED <<up, drops, peerVars>>
        /\ request[c][id] = "open" /\ request' = [request EXCEPT ![c][id] = "answered"]
        /\ UNCHANGED <<bridge, runtime, sessions, reqSession, reqControl, ota>>
    BY <1>7 DEF TuiAnswers
  <2>2. QED
    BY <1>1, <1>2, <2>1, AnswerKeeps, LinkStays, PeerStays DEF IInv
<1>8. ASSUME NEW t \in ThreadsOf[c], NEW id \in IdsOf[c], Asks(c, t, id)
      PROVE  IInv'
  <2>1. UNCHANGED <<up, drops, peerVars>>
    BY <1>8 DEF Asks
  <2>2. QED
    BY <1>1, <1>2, <1>8, <2>1, AsksKeeps, PeerStays DEF IInv
<1>9. QED
  BY <1>3, <1>4, <1>5, <1>6, <1>7, <1>8 DEF SessionEvent

\* The catalog of a state tells of its sessions.
LEMMA SnapshotNow ==
  ASSUME HostInv
  PROVE  /\ sessions \in Records
         /\ SnapshotOf(sessions) \in Snapshot
         /\ Named(SnapshotOf(sessions).by, SnapshotOf(sessions).prompt)
<1>1. sessions \in Records /\ runtime \in [Controls -> Runtime]
  BY DEF HostInv, HostTypes, Catalog, Catalogs
<1>2. \A c \in Controls : runtime[c].prompt # None => runtime[c].prompt \in IdsOf[c]
  BY OwnPrompts DEF HostInv
<1>3. QED
  BY <1>1, <1>2, SnapshotNamed DEF HostInv

\* Of the actions that are not of a session, only the answer of the peer and
\* the log watcher touch what the agent keeps, besides the claim of the updater.
LEMMA OtherKeeps ==
  ASSUME IInv,
         ReadonlyPoll \/ BeginOta \/ EndOta \/ Keepalive \/ OnPermission \/ Link \/ Peer
  PROVE  IInv'
<1>1. HostInv /\ LinkInv /\ PeerInv
  BY DEF IInv
<1>2. CASE ReadonlyPoll
  <2>1. PICK found \in SUBSET Watched : Commit(ReadonlyReplaced(Catalog, found))
    BY <1>2 DEF ReadonlyPoll
  <2>2. /\ UNCHANGED <<bridge, runtime, reqControl, request, ota>>
        /\ UNCHANGED <<up, drops, peerVars>>
    BY <1>2 DEF ReadonlyPoll
  <2>3. HostTypes' /\ RequestsLead' /\ RuntimesWait'
    BY <1>1, <2>2 DEF HostInv, HostTypes, RequestsLead, RuntimesWait
  <2>4. Catalog \in Catalogs /\ Agrees(Catalog.recs, runtime')
    BY <1>1, <2>2 DEF HostInv, Catalog
  <2>5. /\ ReadonlyReplaced(Catalog, found) \in Catalogs
        /\ Agrees(ReadonlyReplaced(Catalog, found).recs, runtime')
    BY <2>4, ReadonlyReplacedType, ReadonlyReplacedKeeps
  <2>6. HostInv' /\ LinkInv'
    BY <1>1, <2>1, <2>3, <2>5, CommitKeeps
  <2>7. QED
    BY <1>1, <2>2, <2>6, PeerStays DEF IInv
<1>3. CASE BeginOta \/ EndOta
  <2>1. /\ ota' \in BOOLEAN /\ UNCHANGED linkVars /\ UNCHANGED <<up, drops, peerVars>>
        /\ UNCHANGED <<bridge, runtime, sessions, reqSession, reqControl, request>>
    BY <1>3 DEF BeginOta, EndOta
  <2>2. HostTypes' /\ RequestsLead' /\ RuntimesWait'
    BY <1>1, <2>1 DEF HostInv, HostTypes, RequestsLead, RuntimesWait
  <2>3. Catalog' \in Catalogs /\ Agrees(sessions', runtime')
    BY <1>1, <2>1 DEF HostInv, Catalog
  <2>4. HostInv'
    BY <2>2, <2>3 DEF HostInv
  <2>5. QED
    BY <1>1, <2>1, <2>4, LinkStays, PeerStays DEF IInv
<1>4. CASE Keepalive
  <2>1. /\ Publish(sessions, TRUE)
        /\ UNCHANGED hostVars /\ UNCHANGED <<up, drops, peerVars>>
    BY <1>4 DEF Keepalive
  <2>2. LinkInv'
    BY <1>1, <2>1, SnapshotNow, PublishKeeps
  <2>3. QED
    BY <1>1, <2>1, <2>2, HostStays, PeerStays DEF IInv
<1>5. CASE OnPermission
  <2>1. /\ up # <<>> /\ up' = Tail(up) /\ UNCHANGED <<drops, peerVars>>
        /\ UNCHANGED <<bridge, runtime, sessions, reqSession, reqControl, ota>>
        /\ UNCHANGED linkVars
    BY <1>5 DEF OnPermission
  <2>2. PeerInv' /\ Head(up) \in Command
    BY <1>1, <2>1, TailKeeps
  <2>3. Head(up).id \in Ids /\ reqControl[Head(up).id] \in Controls \cup {None}
    BY <1>1, <2>2 DEF HostInv, HostTypes, Command
  <2>4. CASE Routed(Head(up).id)
    <3>1. /\ reqControl[Head(up).id] \in Controls
          /\ request[reqControl[Head(up).id]][Head(up).id] = "open"
      BY <2>3, <2>4 DEF Routed
    <3>2. request' = [request EXCEPT ![reqControl[Head(up).id]][Head(up).id] = "answered"]
      BY <1>5, <2>4 DEF OnPermission
    <3>3. HostInv'
      BY <1>1, <2>1, <2>3, <3>1, <3>2, AnswerKeeps
    <3>4. QED
      BY <1>1, <2>1, <2>2, <3>3, LinkStays DEF IInv
  <2>5. CASE ~Routed(Head(up).id)
    <3>1. UNCHANGED hostVars
      BY <1>5, <2>1, <2>5 DEF OnPermission, hostVars
    <3>2. QED
      BY <1>1, <2>1, <2>2, <3>1, HostStays, LinkStays DEF IInv
  <2>6. QED
    BY <2>4, <2>5
<1>6. CASE BleNotices \/ BleConnects
  <2>1. UNCHANGED hostVars /\ UNCHANGED <<up, drops, peerVars>>
    BY <1>6 DEF BleNotices, BleConnects
  <2>2. ASSUME BleNotices PROVE LinkInv'
    <3>1. connected' \in BOOLEAN /\ UNCHANGED <<lastPayload, linkUp, down>>
      BY <2>2 DEF BleNotices
    <3>2. QED
      BY <1>1, <3>1 DEF LinkInv
  <2>3. ASSUME BleConnects PROVE LinkInv'
    <3>1. /\ connected' = TRUE /\ linkUp' = TRUE
          /\ lastPayload' = IF ota THEN lastPayload ELSE SnapshotOf(sessions)
          /\ down' = IF ota THEN <<>> ELSE <<SnapshotOf(sessions)>>
      BY <2>3 DEF BleConnects
    <3>2. /\ lastPayload' \in Snapshot \cup {None}
          /\ connected' \in BOOLEAN /\ linkUp' \in BOOLEAN
      BY <1>1, <3>1, SnapshotNow DEF LinkInv
    <3>3. CASE down' = <<>>
      <4>1. down' \in Seq(Snapshot) /\ Len(down') = 0
        BY <3>3, EmptySeq
      <4>2. \A n \in 1..Len(down') : FALSE
        BY <4>1
      <4>3. QED
        BY <3>2, <4>1, <4>2 DEF LinkInv
    <3>4. CASE down' = <<SnapshotOf(sessions)>>
      <4>1. PICK snap \in Snapshot : snap = SnapshotOf(sessions) /\ Named(snap.by, snap.prompt)
        BY <1>1, SnapshotNow
      <4>2. down' \in Seq(Snapshot) /\ Len(down') = 1 /\ down'[1] = snap
        BY <3>4, <4>1
      <4>3. QED
        BY <3>2, <4>1, <4>2 DEF LinkInv
    <3>5. QED
      BY <3>1, <3>3, <3>4
  <2>4. QED
    BY <1>1, <1>6, <2>1, <2>2, <2>3, HostStays, PeerStays DEF IInv
<1>7. CASE LinkLost
  <2>1. /\ UNCHANGED hostVars /\ UNCHANGED <<lastPayload, connected, peerVars>>
        /\ linkUp' = FALSE /\ drops' = drops + 1 /\ down' = <<>> /\ up' = <<>>
    BY <1>7 DEF LinkLost
  <2>2. /\ down' \in Seq(Snapshot) /\ up' \in Seq(Command)
        /\ Len(down') = 0 /\ Len(up') = 0
    BY <2>1, EmptySeq
  <2>3. (\A n \in 1..Len(down') : FALSE) /\ (\A n \in 1..Len(up') : FALSE)
    BY <2>2
  <2>4. drops' \in Nat
    BY <1>1, <2>1 DEF PeerInv
  <2>5. LinkInv' /\ PeerInv'
    BY <1>1, <2>1, <2>2, <2>3, <2>4 DEF LinkInv, PeerInv, peerVars
  <2>6. QED
    BY <1>1, <2>1, <2>5, HostStays DEF IInv
<1>8. CASE PeerReads
  BY <1>1, <1>8, ReadsKeeps, HostStays DEF IInv, PeerReads
<1>9. CASE PeerPress
  BY <1>1, <1>9, PressKeeps, HostStays, LinkStays DEF IInv, PeerPress
<1>10. QED
  BY <1>2, <1>3, <1>4, <1>5, <1>6, <1>7, <1>8, <1>9 DEF Link, Peer

LEMMA Inductive == IdsApart /\ IInv /\ [Next]_vars => IInv'
<1> SUFFICES ASSUME IdsApart, IInv, [Next]_vars PROVE IInv'
  OBVIOUS
<1>1. CASE UNCHANGED vars
  BY <1>1, HostStays, LinkStays, PeerStays DEF IInv, vars
<1>2. ASSUME NEW c \in Controls, SessionEvent(c) PROVE IInv'
  BY <1>2, SessionEventKeeps
<1>3. CASE ReadonlyPoll \/ BeginOta \/ EndOta \/ Keepalive \/ OnPermission \/ Link \/ Peer
  BY <1>3, OtherKeeps
<1>4. QED
  BY <1>1, <1>2, <1>3 DEF Next

(***************************************************************************)
(* What the agent and the peer guarantee together.                         *)
(***************************************************************************)

\* The invariant that carries the results below.
THEOREM Invariant == ASSUME IdsApart PROVE Spec => []IInv
<1>1. IInv /\ [Next]_vars => IInv'
  BY Inductive
<1>2. QED
  BY <1>1, InitHolds, PTL DEF Spec

\* Every reachable state is well typed.
THEOREM TypeCorrect == ASSUME IdsApart PROVE Spec => []TypeOK
<1>1. Spec => []IInv
  BY Invariant
<1>2. QED
  BY <1>1, InvImpliesTypeOK, PTL

\* The prompt of a snapshot is the latest of a session that is still there, its
\* id leads back to that session, and the server has not settled it.
THEOREM PromptsAreLive == ASSUME IdsApart PROVE Spec => []PromptCanBeAnswered
<1>1. ASSUME IInv PROVE PromptCanBeAnswered
  <2>1. HostInv /\ sessions \in Records
    BY <1>1, SnapshotNow DEF IInv
  <2>2. SUFFICES ASSUME SnapshotOf(sessions).prompt # None
                 PROVE  LET snap == SnapshotOf(sessions)
                            c == snap.by
                        IN  /\ c # None /\ bridge[c] = "up"
                            /\ runtime[c].prompt = snap.prompt
                            /\ reqControl[snap.prompt] = c
                            /\ request[c][snap.prompt] \in {"open", "answered"}
    BY DEF PromptCanBeAnswered
  <2>3. PICK t \in Threads : /\ IsManaged(sessions[t])
                             /\ SnapshotOf(sessions).prompt = sessions[t].prompt
                             /\ SnapshotOf(sessions).by = sessions[t].by
    BY <2>1, <2>2, SnapshotTellsRecord
  <2>4. PICK c \in Controls : c = sessions[t].by
    BY <2>1, <2>3, ManagedRecord
  <2>5. PICK id \in Ids : id = sessions[t].prompt
    BY <2>1, <2>2, <2>3, ManagedRecord
  <2>6. id # None /\ c # None
    BY <2>2, <2>3, <2>4, <2>5, ManagedSessionsAssumption DEF ManagedSessionsAssumption
  <2>7. runtime[c].prompt = id
    BY <2>1, <2>3, <2>4, <2>5, <2>6 DEF HostInv, Agrees
  <2>8. bridge[c] = "up" /\ request[c][id] \in {"open", "answered"}
    BY <2>1, <2>6, <2>7 DEF HostInv, RuntimesWait
  <2>9. reqControl[id] = c
    BY <2>1, <2>8 DEF HostInv, RequestsLead
  <2>10. QED
    BY <2>3, <2>4, <2>5, <2>6, <2>7, <2>8, <2>9
<1>2. Spec => []IInv
  BY Invariant
<1>3. QED
  BY <1>1, <1>2, PTL

\* A sequence is none of the longer ones made from it, nor is it its own tail.
LEMMA NotTail ==
  ASSUME NEW S, NEW s \in Seq(S), s # <<>>
  PROVE  /\ s # Tail(s)
         /\ \A x \in S : Append(s, x) # Tail(s)
<1>1. Len(Tail(s)) = Len(s) - 1 /\ Len(s) \in Nat
  BY HeadTailProperties, LenProperties
<1>2. \A x \in S : Len(Append(s, x)) = Len(s) + 1
  BY AppendProperties
<1>3. ASSUME s = Tail(s) PROVE FALSE
  <2>1. Len(s) = Len(s) - 1
    BY <1>1, <1>3
  <2>2. QED
    BY <1>1, <2>1
<1>4. ASSUME NEW x \in S, Append(s, x) = Tail(s) PROVE FALSE
  <2>1. Len(s) + 1 = Len(s) - 1
    BY <1>1, <1>2, <1>4
  <2>2. QED
    BY <1>1, <2>1
<1>5. QED
  BY <1>3, <1>4

\* A press leaves the line by the agent taking it, or with the link.
LEMMA WhoTakesPress ==
  ASSUME IInv, [Next]_vars, up # <<>>, up' = Tail(up)
  PROVE  OnPermission \/ (LinkLost /\ UNCHANGED request)
<1>1. up \in Seq(Command)
  BY DEF IInv, PeerInv
<1>2. up' # up
  BY <1>1, NotTail
<1>3. ~PeerPress
  <2>1. SUFFICES ASSUME PeerPress PROVE FALSE
    OBVIOUS
  <2>2. [by |-> shown.by, id |-> shown.prompt] \in Command
    BY <2>1 DEF PeerPress, IInv, PeerInv, Snapshot, Command
  <2>3. up' \in {up, Append(up, [by |-> shown.by, id |-> shown.prompt])}
    BY <2>1 DEF PeerPress
  <2>4. QED
    BY <1>1, <1>2, <2>2, <2>3, NotTail
<1>4. ASSUME NEW c \in Controls, SessionEvent(c) PROVE FALSE
  BY <1>2, <1>4 DEF SessionEvent, LaunchBegins, LaunchEnds, SessionCloses, Turn, Output,
                    Resolved, TuiAnswers, Asks
<1>5. ~(ReadonlyPoll \/ BeginOta \/ EndOta \/ Keepalive \/ BleNotices \/ BleConnects
          \/ PeerReads)
  BY <1>2 DEF ReadonlyPoll, BeginOta, EndOta, Keepalive, BleNotices, BleConnects, PeerReads
<1>6. ~UNCHANGED vars
  BY <1>2 DEF vars
<1>7. LinkLost => UNCHANGED request
  BY DEF LinkLost, hostVars
<1>8. QED
  BY <1>3, <1>4, <1>5, <1>6, <1>7 DEF Next, Link, Peer

\* A press decides for the session whose prompt was on the screen, and for no
\* other.
THEOREM PressIsRouted == ASSUME IdsApart PROVE Spec => PressReachesItsSession
<1> DEFINE A == \A c \in Controls, id \in Ids :
                  up # <<>> /\ up' = Tail(up) /\ request'[c][id] # request[c][id]
                  => Head(up) = [by |-> c, id |-> id]
<1>1. ASSUME IInv, [Next]_vars PROVE A
  <2>1. SUFFICES ASSUME NEW c \in Controls, NEW id \in Ids, up # <<>>, up' = Tail(up),
                        request'[c][id] # request[c][id]
                 PROVE  Head(up) = [by |-> c, id |-> id]
    OBVIOUS
  <2>2. OnPermission
    BY <1>1, <2>1, WhoTakesPress
  <2>3. HostInv /\ Head(up) \in Command /\ Named(Head(up).by, Head(up).id)
    BY <1>1, <2>1, <2>2, TailKeeps DEF IInv, OnPermission
  <2>4. PICK i \in Ids, by \in Controls \cup {None} : Head(up) = [by |-> by, id |-> i]
    BY <2>3 DEF Command
  <2>5. i # None
    BY ManagedSessionsAssumption DEF ManagedSessionsAssumption
  <2>6. by \in Controls /\ i \in IdsOf[by]
    BY <2>3, <2>4, <2>5 DEF Named
  <2>7. Routed(i) /\ request' = [request EXCEPT ![reqControl[i]][i] = "answered"]
    BY <2>1, <2>2, <2>4 DEF OnPermission
  <2>8. reqControl[i] \in Controls /\ i \in IdsOf[reqControl[i]]
    BY <2>3, <2>7 DEF HostInv, HostTypes, RequestsLead, Routed
  <2>9. reqControl[i] = c /\ i = id
    BY <2>1, <2>3, <2>7, <2>8 DEF HostInv, HostTypes
  <2>10. by = c
    BY <2>6, <2>8, <2>9 DEF IdsApart
  <2>11. QED
    BY <2>4, <2>9, <2>10
<1>2. Spec => []IInv
  BY Invariant
<1>3. QED
  BY <1>1, <1>2, PTL DEF Spec, PressReachesItsSession

\* A press that arrives while its session still waits is taken by its proxy.
THEOREM PressIsNotLost == ASSUME IdsApart PROVE Spec => PressIsTaken
<1> DEFINE A == \A c \in Controls, id \in Ids :
                  /\ up # <<>> /\ up' = Tail(up) /\ linkUp' = linkUp
                  /\ Head(up) = [by |-> c, id |-> id]
                  /\ bridge[c] = "up" /\ request[c][id] = "open"
                  => request'[c][id] = "answered"
<1>1. ASSUME IInv, [Next]_vars PROVE A
  <2>1. SUFFICES ASSUME NEW c \in Controls, NEW id \in Ids, up # <<>>, up' = Tail(up),
                        linkUp' = linkUp, Head(up) = [by |-> c, id |-> id],
                        bridge[c] = "up", request[c][id] = "open"
                 PROVE  request'[c][id] = "answered"
    OBVIOUS
  <2>2. OnPermission
    BY <1>1, <2>1, WhoTakesPress DEF LinkLost
  <2>3. Head(up).id = id
    BY <2>1
  <2>4. reqControl[id] = c /\ c # None
    BY <1>1, <2>1, ManagedSessionsAssumption
       DEF IInv, HostInv, RequestsLead, ManagedSessionsAssumption
  <2>5. Routed(id)
    BY <2>1, <2>4 DEF Routed
  <2>6. request' = [request EXCEPT ![c][id] = "answered"]
    BY <2>2, <2>3, <2>4, <2>5 DEF OnPermission
  <2>7. QED
    BY <1>1, <2>6 DEF IInv, HostInv, HostTypes
<1>2. Spec => []IInv
  BY Invariant
<1>3. QED
  BY <1>1, <1>2, PTL DEF Spec, PressIsTaken
=============================================================================
