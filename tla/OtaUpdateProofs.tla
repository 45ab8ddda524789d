--------------------------- MODULE OtaUpdateProofs ---------------------------
(***************************************************************************)
(* Proofs about OtaUpdate, for images, chunks and limits of any size, any  *)
(* set of releases and inputs, and both builds.                            *)
(*                                                                         *)
(* The argument: IInv says, phase by phase, what the machine, the esp_ota  *)
(* session, the flash slot and the release that was let in have to do with *)
(* each other.  A poll that goes on keeps it (WorkGood), a poll that ends  *)
(* the update leaves nothing behind (EndInv), and what comes in between    *)
(* two polls never touches the machine.                                    *)
(***************************************************************************)
EXTENDS OtaUpdate, TLAPS

\* The phases of an update that was let in, before its manifest is checked,
\* and after; with the esp_ota session open, and after esp_ota_end.
BeforeManifest == {"WAIT_READY", "OPEN_MANIFEST", "READ_MANIFEST",
                   "OPEN_SIGNATURE", "READ_SIGNATURE", "AUTHENTICATE"}
InSession == {"DOWNLOAD", "WRITE", "FINISH_DOWNLOAD", "END"}
Ended == {"READBACK", "DIGEST", "FINAL_GATE", "SET_BOOT"}
AfterManifest == {"SELECT", "OPEN_FIRMWARE", "BEGIN"} \cup InSession \cup Ended

\* The latch and the phase agree, and nothing runs while there is no update.
MachineShape ==
  /\ m.committed <=> m.phase = "RESTART"
  /\ ~active => m.phase \in {"CONFIRM", "CANCELLED", "ERROR"}

\* A session is open only in the phases that close it when they are left.
SessionShape ==
  /\ staging = "open" => m.phase \in InSession
  /\ m.phase \in InSession => handle /\ m.handleValid /\ ~m.endAttempted
  /\ m.endAttempted => m.phase \in Ended \cup {"RESTART"}

\* From the offer to the manifest to the slot, the release stays the same.
ReleaseKept ==
  /\ m.phase \in BeforeManifest => granted = priv.id
  /\ m.phase \in AfterManifest => desc = granted /\ granted \in Releases
  /\ m.phase \in InSession \cup Ended => flash.id = granted
  /\ m.phase \in {"FINAL_GATE", "SET_BOOT"} => flash.blocks = Size /\ flash.good

\* The boot slot is switched only with a whole image and by the latch.
BootShape ==
  /\ bootTo = "new" =>
       /\ m.committed \/ running = "new"
       /\ flash.blocks = Size /\ flash.good
       /\ flash.id = granted /\ granted \in Releases
  /\ running = "new" => bootTo = "new"

\* A cancel that was taken is still on its way to the next poll, or is done.
CancelHeld ==
  cancelled => ~active \/ Terminal \/ (cancelReq /\ CancellationAllowed)

\* A body is never longer than was announced.
BodyBounded ==
  /\ req.received <= req.expected
  /\ req.phase = "OPENING" => req.received = 0
  /\ req.phase = "EXPECT_EOF" => req.received + req.pending <= req.expected

Shape == /\ MachineShape /\ SessionShape /\ ReleaseKept
         /\ BootShape /\ CancelHeld /\ BodyBounded

IInv == TypeOK /\ Shape

(***************************************************************************)
(* Records of the model.                                                   *)
(***************************************************************************)
LEMMA Records ==
  /\ NoOffer \in Offer
  /\ IdleRequest \in Request
  /\ InitialMachine \in Machine
  /\ \A p \in Phases : [InitialMachine EXCEPT !.phase = p] \in Machine
<1>1. NoOffer \in Offer /\ IdleRequest \in Request
  BY DEF NoOffer, Offer, IdleRequest, Request
<1>2. ApiAttempts \in Nat /\ Size \in Nat /\ Chunk \in Nat
  BY OtaUpdateAssumption
<1>3. InitialMachine \in Machine
  BY <1>2 DEF InitialMachine, Machine, Phases, Fetching
<1>4. ASSUME NEW p \in Phases PROVE [InitialMachine EXCEPT !.phase = p] \in Machine
  BY <1>3 DEF Machine
<1>5. QED
  BY <1>1, <1>3, <1>4

\* What is left of the shared offer at a poll is an offer.
LEMMA LiveOffer ==
  ASSUME offer \in Offer, NEW in
  PROVE  Live(in) \in Offer
BY Records DEF Live

LEMMA InitInv == Init => IInv
<1> SUFFICES ASSUME Init PROVE TypeOK /\ Shape
  BY DEF IInv
<1>1. TypeOK
  BY Records DEF Init, TypeOK, Slot
<1>2. Shape
  BY DEF Init, Shape, MachineShape, SessionShape, ReleaseKept, BootShape,
     CancelHeld, BodyBounded, InitialMachine, IdleRequest, BeforeManifest,
     AfterManifest, InSession, Ended
<1>3. QED
  BY <1>1, <1>2

\* A step that leaves every variable alone leaves the invariant.
LEMMA StutterInv == IInv /\ UNCHANGED vars => IInv'
BY DEF IInv, TypeOK, Shape, MachineShape, SessionShape, ReleaseKept, BootShape,
   CancelHeld, BodyBounded, Terminal, CancellationAllowed, vars, shared, flags,
   txn, work, storage, device, history

(***************************************************************************)
(* Steps of the receiver, of the user and of the clock.                    *)
(***************************************************************************)

\* Taking a cancel keeps the promise about it.
LEMMA RequestCancelHeld ==
  ASSUME IInv, RequestCancel, UNCHANGED <<active, m>>
  PROVE  /\ cancelReq' \in BOOLEAN /\ cancelled' \in BOOLEAN
         /\ CancelHeld'
<1>1. cancelReq' \in BOOLEAN /\ cancelled' \in BOOLEAN
  BY DEF IInv, TypeOK, RequestCancel, CancelTaken, CancellationAllowed, Terminal
<1>2. CancelHeld'
  BY DEF IInv, Shape, TypeOK, CancelHeld, RequestCancel, CancelTaken,
     CancellationAllowed, Terminal
<1>3. QED
  BY <1>1, <1>2

LEMMA ReceiveInv == IInv /\ Receive => IInv'
<1> SUFFICES ASSUME IInv, Receive PROVE IInv'
  OBVIOUS
<1> USE DEF shared, flags, txn, work, storage, device, history
<1>1. CASE HostCancel
  <2>1. CancelHeld' /\ cancelReq' \in BOOLEAN /\ cancelled' \in BOOLEAN
    BY <1>1, RequestCancelHeld DEF HostCancel
  <2>2. UNCHANGED <<shared, m, confirmReq, txn, work, timeUp, storage, device, granted>>
    BY <1>1 DEF HostCancel
  <2>3. QED
    BY <2>1, <2>2 DEF IInv, TypeOK, Shape, MachineShape, SessionShape,
       ReleaseKept, BootShape, BodyBounded
<1>2. ASSUME NEW r \in Releases, ReceiveSigned(r) \/ ReceiveLegacy(r) PROVE IInv'
  <2> offer.signed \in BOOLEAN
    BY DEF IInv, TypeOK, Offer
  <2> \A b \in BOOLEAN : Accepted(r, b) \in Offer
    BY DEF Accepted, Offer
  <2>1. offer' \in Offer
    BY <1>2, Records DEF ReceiveSigned, ReceiveLegacy
  <2>2. UNCHANGED <<prompt, m, flags, txn, work, timeUp, storage, device, history>>
    BY <1>2 DEF ReceiveSigned, ReceiveLegacy
  <2>3. QED
    BY <2>1, <2>2 DEF IInv, TypeOK, Shape, MachineShape, SessionShape,
       ReleaseKept, BootShape, CancelHeld, BodyBounded, Terminal, CancellationAllowed
<1>3. QED
  BY <1>1, <1>2 DEF Receive

LEMMA HandsInv == IInv /\ Hands => IInv'
<1> SUFFICES ASSUME IInv, Hands PROVE IInv'
  OBVIOUS
<1> USE DEF shared, flags, txn, work, storage, device, history
<1>1. CASE PressB \/ PromptArrives
  <2>1. CancelHeld' /\ cancelReq' \in BOOLEAN /\ cancelled' \in BOOLEAN
    BY <1>1, RequestCancelHeld DEF PressB, PromptArrives
  <2>2. offer' \in Offer /\ prompt' \in {"none", "open", "answered"}
    BY <1>1, Records DEF PressB, PromptArrives, IInv, TypeOK
  <2>3. UNCHANGED <<m, confirmReq, txn, work, timeUp, storage, device, granted>>
    BY <1>1 DEF PressB, PromptArrives
  <2>4. QED
    BY <2>1, <2>2, <2>3 DEF IInv, TypeOK, Shape, MachineShape,
       SessionShape, ReleaseKept, BootShape, BodyBounded
<1>2. CASE OpenReceiveWindow \/ PressA \/ PromptLeaves
  <2>1. /\ offer' \in Offer /\ prompt' \in {"none", "open", "answered"}
        /\ confirmReq' \in BOOLEAN
    BY <1>2 DEF OpenReceiveWindow, PressA, PromptLeaves, NoOffer, Offer, IInv, TypeOK
  <2>2. UNCHANGED <<m, cancelReq, txn, work, timeUp, storage, device, history>>
    BY <1>2 DEF OpenReceiveWindow, PressA, PromptLeaves
  <2>3. QED
    BY <2>1, <2>2 DEF IInv, TypeOK, Shape, MachineShape, SessionShape,
       ReleaseKept, BootShape, CancelHeld, BodyBounded, Terminal, CancellationAllowed
<1>3. QED
  BY <1>1, <1>2 DEF Hands

LEMMA ClockInv == IInv /\ (Expire \/ TimeUp) => IInv'
<1> SUFFICES ASSUME IInv, Expire \/ TimeUp PROVE IInv'
  OBVIOUS
<1> USE DEF shared, flags, txn, work, storage, device, history
<1>1. /\ offer' \in Offer /\ priv' \in Offer /\ priv'.id = priv.id
      /\ timeUp' \in BOOLEAN
  BY DEF Expire, TimeUp, Offer, IInv, TypeOK
<1>2. UNCHANGED <<prompt, m, flags, active, automatic, source, consumed,
                  display, work, storage, device, history>>
  BY DEF Expire, TimeUp
<1>3. QED
  BY <1>1, <1>2 DEF IInv, TypeOK, Shape, MachineShape, SessionShape,
     ReleaseKept, BootShape, CancelHeld, BodyBounded, Terminal, CancellationAllowed

(***************************************************************************)
(* The start and the end of an update.                                     *)
(***************************************************************************)

\* However an update ends, the session is closed and nothing of it is left.
LEMMA EndInv ==
  ASSUME IInv, NEW in, NEW p \in {"ERROR", "CANCELLED"}, End(p, in),
         active, ~Terminal, ~m.committed, running = "old",
         cancelReq' = FALSE, confirmReq' = FALSE,
         UNCHANGED <<prompt, active, automatic, display, cancelled>>
  PROVE  IInv'
<1> USE DEF shared, flags, txn, work, storage, device, history
<1>1. offer' \in Offer /\ m' \in Machine
  BY Records, LiveOffer DEF End, IInv, TypeOK, Phases
<1>2. /\ m'.phase = p /\ ~m'.committed /\ ~m'.endAttempted
      /\ UNCHANGED <<flash, device>> /\ priv' = NoOffer /\ req' = IdleRequest
      /\ desc' = None /\ handle' = FALSE /\ hash' = None /\ timeUp' = FALSE
      /\ granted' = None /\ source' = FALSE /\ consumed' = FALSE
  BY DEF End, InitialMachine
<1>3. staging' = "closed"
  BY DEF End, AbortHandle, IInv, TypeOK, Shape, SessionShape
<1>4. bootTo = "old"
  BY DEF IInv, TypeOK, Shape, BootShape
<1>5. TypeOK'
  BY <1>1, <1>2, <1>3, Records DEF IInv, TypeOK
<1>6. Shape'
  <2>1. MachineShape' /\ SessionShape' /\ ReleaseKept'
    BY <1>2, <1>3 DEF MachineShape, SessionShape, ReleaseKept, BeforeManifest,
       AfterManifest, InSession, Ended
  <2>2. BootShape' /\ CancelHeld'
    BY <1>2, <1>4, running = "old" DEF BootShape, CancelHeld, Terminal
  <2>3. BodyBounded'
    BY <1>2 DEF BodyBounded, IdleRequest
  <2>4. QED
    BY <2>1, <2>2, <2>3 DEF Shape
<1>7. QED
  BY <1>5, <1>6 DEF IInv

\* Letting an offer in.
LEMMA ConsumeFacts ==
  ASSUME IInv, NEW in, Consume(in)
  PROVE  /\ m' \in Machine /\ m'.phase \in {"WAIT_READY", "OPEN_MANIFEST"}
         /\ ~m'.committed /\ ~m'.endAttempted
         /\ priv' \in Offer /\ offer' \in Offer /\ consumed' = TRUE
         /\ granted' = priv'.id /\ granted' \in Releases \cup {None}
         /\ timeUp' = FALSE
<1>1. Live(in) \in Offer
  BY LiveOffer DEF IInv, TypeOK
<1>2. m' \in Machine
  BY Records DEF Consume, Phases, Fetching
<1>3. m'.phase \in {"WAIT_READY", "OPEN_MANIFEST"} /\ ~m'.committed /\ ~m'.endAttempted
  BY DEF Consume, InitialMachine
<1>4. QED
  BY <1>1, <1>2, <1>3, Records DEF Consume, Offer

\* The two ways of arming, the rest of an inactive poll, and the last screen.
LEMMA InactiveInv ==
  ASSUME IInv, running = "old", NEW in,
         NothingToArm(in) \/ ArmAsking(in) \/ ArmDirect(in) \/ Linger(in)
  PROVE  IInv'
<1> USE DEF shared, flags, txn, work, storage, device, history
<1>1. Live(in) \in Offer
  BY LiveOffer DEF IInv, TypeOK
<1>2. CASE NothingToArm(in) \/ Linger(in)
  <2>1. /\ offer' = Live(in) /\ display' \in Releases \cup {None}
        /\ active' \in BOOLEAN
    BY <1>2 DEF NothingToArm, Linger, IInv, TypeOK
  <2>2. /\ active' => active
        /\ ~active' => m.phase \in {"CONFIRM", "CANCELLED", "ERROR"}
    BY <1>2 DEF NothingToArm, Linger, Terminal, IInv, TypeOK, Shape, MachineShape
  <2>3. UNCHANGED <<prompt, m, flags, automatic, source, priv, consumed,
                    work, timeUp, storage, device, history>>
    BY <1>2 DEF NothingToArm, Linger
  <2>4. TypeOK'
    BY <1>1, <2>1, <2>3 DEF IInv, TypeOK
  <2>5. CancelHeld'
    BY <2>2, <2>3 DEF IInv, TypeOK, Shape, CancelHeld, Terminal, CancellationAllowed
  <2>6. QED
    BY <2>2, <2>3, <2>4, <2>5 DEF IInv, TypeOK, Shape, MachineShape, SessionShape,
       ReleaseKept, BootShape, BodyBounded
<1>3. ASSUME ~active
      PROVE  /\ bootTo = "old" /\ staging = "closed"
             /\ m.phase \in {"CONFIRM", "CANCELLED", "ERROR"}
  BY <1>3 DEF IInv, TypeOK, Shape, MachineShape, SessionShape, BootShape, InSession
<1>4. CASE ArmAsking(in)
  <2>1. /\ m' = InitialMachine /\ active' = TRUE /\ cancelled' = FALSE
        /\ bootTo' = "old" /\ staging' = "closed" /\ handle' = FALSE /\ desc' = None
        /\ UNCHANGED <<prompt, req, hash, timeUp, storage, device, granted>>
    BY <1>3, <1>4 DEF ArmAsking
  <2>2. /\ automatic' = FALSE /\ source' = TRUE /\ consumed' = FALSE
        /\ confirmReq' = FALSE /\ cancelReq' = FALSE
        /\ offer' \in Offer /\ priv' \in Offer /\ display' \in Releases \cup {None}
    BY <1>1, <1>4, Records DEF ArmAsking, Offer
  <2>3. TypeOK'
    BY <2>1, <2>2, Records DEF IInv, TypeOK
  <2>4. Shape'
    BY <2>1, running = "old" DEF IInv, Shape, MachineShape, SessionShape,
       ReleaseKept, BootShape, CancelHeld, BodyBounded, BeforeManifest,
       AfterManifest, InSession, Ended, InitialMachine
  <2>5. QED
    BY <2>3, <2>4 DEF IInv
<1>5. CASE ArmDirect(in)
  <2>1. /\ active' = TRUE /\ automatic' = TRUE /\ display' = Live(in).id
        /\ confirmReq' = FALSE /\ cancelReq' = FALSE /\ cancelled' = FALSE
        /\ UNCHANGED <<prompt, storage, device>>
        /\ handle' = FALSE /\ desc' = None /\ source' \in BOOLEAN
        /\ staging = "closed" /\ bootTo = "old"
    BY <1>3, <1>5 DEF ArmDirect
  <2>2. CASE Consume(in) /\ UNCHANGED <<req, hash>>
    <3>1. TypeOK'
      BY <1>1, <2>1, <2>2, ConsumeFacts DEF IInv, TypeOK, Offer
    <3>2. Shape'
      BY <2>1, <2>2, ConsumeFacts, running = "old" DEF IInv, Shape, MachineShape,
         SessionShape, ReleaseKept, BootShape, CancelHeld, BodyBounded,
         BeforeManifest, AfterManifest, InSession, Ended
    <3>3. QED
      BY <3>1, <3>2 DEF IInv
  <2>3. CASE /\ m' = [InitialMachine EXCEPT !.phase = "CANCELLED"]
             /\ offer' = NoOffer /\ priv' = NoOffer /\ consumed' = FALSE
             /\ req' = IdleRequest /\ hash' = None
             /\ timeUp' = FALSE /\ UNCHANGED granted
    <3>1. TypeOK'
      BY <1>1, <2>1, <2>3, Records DEF IInv, TypeOK, Offer, Phases
    <3>2. Shape'
      BY <2>1, <2>3, running = "old" DEF IInv, Shape, MachineShape,
         SessionShape, ReleaseKept, BootShape, CancelHeld, BodyBounded,
         BeforeManifest, AfterManifest, InSession, Ended, InitialMachine, IdleRequest
    <3>3. QED
      BY <3>1, <3>2 DEF IInv
  <2>4. QED
    BY <1>5, <2>2, <2>3 DEF ArmDirect
<1>6. QED
  BY <1>2, <1>4, <1>5

(***************************************************************************)
(* HTTPS: what one poll does to the request and to the machine.            *)
(***************************************************************************)

\* The machine moves on, and only its phase and chunk change.
MovesTo(p) ==
  /\ m' \in Machine /\ m'.phase = p
  /\ m'.committed = m.committed /\ m'.handleValid = m.handleValid
  /\ m'.endAttempted = m.endAttempted

RequestGood == req' \in Request /\ BodyBounded' /\ timeUp' \in BOOLEAN

LEMMA OpenFacts ==
  ASSUME IInv, NEW p \in Phases, Open(p), m.phase \in DOMAIN Resource
  PROVE  RequestGood /\ (UNCHANGED m \/ MovesTo(p))
<1> m \in Machine /\ req \in Request /\ timeUp \in BOOLEAN /\ BodyBounded
  BY DEF IInv, TypeOK, Shape
<1> DEFINE resource == Resource[m.phase]
<1>1. resource \in Resources
  BY DEF Resource, Resources
<1>2. Lengths(resource) \subseteq Nat
  BY OtaUpdateAssumption DEF Lengths
<1> HIDE DEF resource
<1>3. CASE /\ req' = [IdleRequest EXCEPT !.phase = "OPENING", !.resource = resource]
           /\ timeUp' = FALSE /\ UNCHANGED m
  <2>1. req' \in Request
    BY <1>1, <1>3, Records DEF Request
  <2>2. BodyBounded'
    BY <1>3 DEF IdleRequest, BodyBounded
  <2>3. QED
    BY <1>3, <2>1, <2>2 DEF RequestGood
<1>4. CASE UNCHANGED <<req, m, timeUp>>
  BY <1>4 DEF RequestGood, BodyBounded
<1>5. ASSUME NEW n \in Lengths(resource), req.phase = "OPENING",
             req' = [req EXCEPT !.phase = "BODY", !.expected = n],
             m' = [m EXCEPT !.phase = p], timeUp' = FALSE
      PROVE  RequestGood /\ MovesTo(p)
  <2>1. req' \in Request /\ req'.received = 0 /\ req'.expected = n /\ req'.phase = "BODY"
    BY <1>2, <1>5 DEF Request, BodyBounded
  <2>2. BodyBounded'
    BY <1>2, <2>1 DEF BodyBounded
  <2>3. MovesTo(p)
    BY <1>5 DEF MovesTo, Machine
  <2>4. QED
    BY <1>5, <2>1, <2>2, <2>3 DEF RequestGood
<1>6. QED
  BY <1>3, <1>4, <1>5 DEF Open, resource

LEMMA ReadPendingFacts ==
  ASSUME IInv, ReadPending
  PROVE  RequestGood /\ UNCHANGED m
<1> req \in Request /\ timeUp \in BOOLEAN /\ BodyBounded
  BY DEF IInv, TypeOK, Shape
<1>1. CASE UNCHANGED <<req, timeUp>>
  BY <1>1 DEF RequestGood, ReadPending, BodyBounded
<1>2. CASE /\ req' = [req EXCEPT !.phase = "EXPECT_EOF",
                                 !.pending = req.expected - req.received]
           /\ UNCHANGED timeUp
  <2>1. req.expected \in Nat /\ req.received \in Nat /\ req.received <= req.expected
    BY DEF Request, BodyBounded
  <2>2. req.expected - req.received \in Nat
    BY <2>1
  <2>3. req' \in Request
    BY <1>2, <2>2 DEF Request
  <2>4. /\ req'.phase = "EXPECT_EOF" /\ req'.pending = req.expected - req.received
        /\ req'.expected = req.expected /\ req'.received = req.received
    BY <1>2 DEF Request
  <2>5. BodyBounded'
    BY <2>1, <2>4 DEF BodyBounded
  <2>6. QED
    BY <1>2, <2>3, <2>5 DEF RequestGood, ReadPending
<1>3. QED
  BY <1>1, <1>2 DEF ReadPending

LEMMA ReadFacts ==
  ASSUME IInv, NEW n \in 1..Chunk, ReadProgress(n) \/ ReadComplete(n), UNCHANGED timeUp
  PROVE  RequestGood
<1> req \in Request /\ timeUp \in BOOLEAN /\ BodyBounded /\ n \in Nat
  BY OtaUpdateAssumption DEF IInv, TypeOK, Shape
<1>1. req.expected \in Nat /\ req.received \in Nat /\ req.pending \in Nat
  BY DEF Request
<1>2. CASE ReadProgress(n)
  <2>1. req' = [req EXCEPT !.received = @ + n] /\ req.phase = "BODY"
        /\ n < req.expected - req.received
    BY <1>2 DEF ReadProgress
  <2>2. req'.received = req.received + n /\ req'.expected = req.expected
        /\ req'.phase = "BODY"
    BY <2>1 DEF Request
  <2>3. req' \in Request
    BY <1>1, <2>1 DEF Request
  <2>4. BodyBounded'
    BY <1>1, <2>1, <2>2 DEF BodyBounded
  <2>5. QED
    BY <2>3, <2>4 DEF RequestGood
<1>3. CASE ReadComplete(n)
  <2>1. req' = [req EXCEPT !.phase = "EOF", !.received = @ + n, !.pending = 0]
        /\ n = req.pending /\ req.received + req.pending <= req.expected
    BY <1>3 DEF ReadComplete, BodyBounded
  <2>2. req'.received = req.received + n /\ req'.expected = req.expected
        /\ req'.phase = "EOF"
    BY <2>1 DEF Request
  <2>3. req' \in Request
    <3>1. req' = [req EXCEPT !.phase = "EOF", !.received = req.received + n,
                             !.pending = 0]
      BY <2>1
    <3>2. req.received + n \in Nat
      BY <1>1
    <3>3. QED
      BY <3>1, <3>2 DEF Request
  <2>4. BodyBounded'
    BY <1>1, <2>1, <2>2 DEF BodyBounded
  <2>5. QED
    BY <2>3, <2>4 DEF RequestGood
<1>4. QED
  BY <1>2, <1>3

LEMMA ReadMetaFacts ==
  ASSUME IInv, NEW p \in Phases, ReadMeta(p)
  PROVE  RequestGood /\ (UNCHANGED m \/ MovesTo(p))
<1> m \in Machine /\ req \in Request /\ timeUp \in BOOLEAN
  BY DEF IInv, TypeOK
<1>1. CASE ReadPending
  BY <1>1, ReadPendingFacts
<1>2. ASSUME NEW n \in 1..Chunk, ReadProgress(n), UNCHANGED <<m, timeUp>>
      PROVE  RequestGood /\ UNCHANGED m
  BY <1>2, ReadFacts
<1>3. CASE req' = IdleRequest /\ m' = [m EXCEPT !.phase = p] /\ UNCHANGED timeUp
  BY <1>3, Records DEF RequestGood, MovesTo, BodyBounded, IdleRequest, Machine
<1>4. QED
  BY <1>1, <1>2, <1>3 DEF ReadMeta

LEMMA DownloadFacts ==
  ASSUME IInv, Download
  PROVE  RequestGood /\ (UNCHANGED m \/ MovesTo("WRITE"))
<1> m \in Machine
  BY DEF IInv, TypeOK
<1>1. CASE ReadPending
  BY <1>1, ReadPendingFacts
<1>2. ASSUME NEW n \in 1..Chunk, ReadProgress(n) \/ ReadComplete(n), UNCHANGED timeUp,
             m' = [m EXCEPT !.phase = "WRITE", !.chunk = n]
      PROVE  RequestGood /\ MovesTo("WRITE")
  <2>1. RequestGood
    BY <1>2, ReadFacts
  <2>2. MovesTo("WRITE")
    <3> n \in 0..Chunk /\ "WRITE" \in Phases
      BY OtaUpdateAssumption DEF Phases
    <3>1. QED
      BY <1>2 DEF MovesTo, Machine
  <2>3. QED
    BY <2>1, <2>2
<1>3. QED
  BY <1>1, <1>2 DEF Download

\* The phase stays, or it is the next one of the same part of the update.
LEMMA FetchFacts ==
  ASSUME IInv, Fetch
  PROVE  /\ RequestGood
         /\ \/ UNCHANGED m
            \/ \E p \in BeforeManifest : m.phase \in BeforeManifest /\ MovesTo(p)
            \/ m.phase = "OPEN_FIRMWARE" /\ MovesTo("BEGIN")
            \/ m.phase = "DOWNLOAD" /\ MovesTo("WRITE")
<1>1. CASE Open_Manifest
  BY <1>1, OpenFacts DEF Open_Manifest, BeforeManifest, Phases, Fetching, Resource
<1>2. CASE Read_Manifest
  BY <1>2, ReadMetaFacts DEF Read_Manifest, BeforeManifest, Phases, Fetching
<1>3. CASE Open_Signature
  BY <1>3, OpenFacts DEF Open_Signature, BeforeManifest, Phases, Fetching, Resource
<1>4. CASE Read_Signature
  BY <1>4, ReadMetaFacts DEF Read_Signature, BeforeManifest, Phases
<1>5. CASE Open_Firmware
  BY <1>5, OpenFacts DEF Open_Firmware, Phases, Resource
<1>6. CASE Download
  BY <1>6, DownloadFacts DEF Download
<1>7. QED
  BY <1>1, <1>2, <1>3, <1>4, <1>5, <1>6 DEF Fetch

(***************************************************************************)
(* Verifying and installing: what one poll does to the session, the slot   *)
(* and the machine.                                                        *)
(***************************************************************************)

\* What a poll that goes on may leave behind.
WorkGood ==
  /\ m' \in Machine /\ ~m'.committed /\ m'.phase # "RESTART"
  /\ desc' \in Releases \cup {None} /\ display' \in Releases \cup {None}
  /\ RequestGood
  /\ handle' \in BOOLEAN /\ hash' \in Nat \cup {None}
  /\ staging' \in {"open", "closed"} /\ flash' \in Slot
  /\ SessionShape' /\ ReleaseKept'

\* Where a poll that goes on may start from, and what it leaves alone.
Going ==
  /\ IInv
  /\ active /\ ~m.committed /\ m.phase \notin {"CANCELLED", "ERROR", "RESTART"}
  /\ UNCHANGED <<priv, granted>>

LEMMA FetchGood ==
  ASSUME Going, Fetch
  PROVE  WorkGood
<1> USE DEF work, storage
<1> IInv
  BY DEF Going
<1>1. UNCHANGED <<desc, display, handle, hash, staging, flash, priv, granted>>
  BY DEF Fetch, Going
<1>2. RequestGood
  BY FetchFacts
<1>3. m' \in Machine /\ ~m'.committed /\ m'.phase # "RESTART"
  BY FetchFacts DEF Going, MovesTo, BeforeManifest, IInv, TypeOK
<1>4. SessionShape'
  BY <1>1, FetchFacts DEF IInv, Shape, SessionShape, MovesTo, BeforeManifest,
     InSession, Ended
<1>5. ReleaseKept'
  BY <1>1, FetchFacts DEF IInv, Shape, ReleaseKept, MovesTo, BeforeManifest,
     AfterManifest, InSession, Ended
<1>6. QED
  BY <1>1, <1>2, <1>3, <1>4, <1>5 DEF WorkGood, IInv, TypeOK

LEMMA AuthenticateGood ==
  ASSUME Going, Authenticate
  PROVE  WorkGood
<1> USE DEF storage, Going
<1> m \in Machine
  BY DEF IInv, TypeOK
<1>1. /\ desc' = priv.id /\ display' = desc' /\ desc' \in Releases
      /\ UNCHANGED <<req, timeUp, handle, hash, staging, flash, priv, granted>>
  BY DEF Authenticate, ManifestMatchesOffer
<1>2. /\ m' \in Machine /\ m'.phase = "SELECT" /\ ~m'.committed
      /\ m'.endAttempted = m.endAttempted /\ m.phase = "AUTHENTICATE"
  BY DEF Authenticate, Machine, Phases
<1>3. SessionShape' /\ ReleaseKept'
  BY <1>1, <1>2 DEF IInv, Shape, SessionShape, ReleaseKept, BeforeManifest,
     AfterManifest, InSession, Ended
<1>4. QED
  BY <1>1, <1>2, <1>3 DEF WorkGood, RequestGood, BodyBounded, IInv, TypeOK, Shape

LEMMA SelectGood ==
  ASSUME Going, Select
  PROVE  WorkGood
<1> USE DEF storage, Going
<1> m \in Machine
  BY DEF IInv, TypeOK
<1>1. UNCHANGED <<desc, display, req, timeUp, handle, hash, staging, flash, priv, granted>>
  BY DEF Select
<1>2. /\ m' \in Machine /\ m'.phase = "OPEN_FIRMWARE" /\ ~m'.committed
      /\ m'.endAttempted = m.endAttempted /\ m.phase = "SELECT"
  BY DEF Select, Machine, Phases, Fetching
<1>3. SessionShape' /\ ReleaseKept'
  BY <1>1, <1>2 DEF IInv, Shape, SessionShape, ReleaseKept, BeforeManifest,
     AfterManifest, InSession, Ended
<1>4. QED
  BY <1>1, <1>2, <1>3 DEF WorkGood, RequestGood, BodyBounded, IInv, TypeOK, Shape

LEMMA BeginGood ==
  ASSUME Going, Begin
  PROVE  WorkGood
<1> USE DEF storage, Going
<1> m \in Machine
  BY DEF IInv, TypeOK
<1>1. /\ handle' = TRUE /\ staging' = "open"
      /\ UNCHANGED <<desc, display, req, timeUp, hash, priv, granted>>
      /\ flash' = [id |-> desc, blocks |-> 0, good |-> TRUE]
  BY DEF Begin
<1>2. /\ m' \in Machine /\ m'.phase = "DOWNLOAD" /\ ~m'.committed
      /\ m'.handleValid /\ m'.endAttempted = m.endAttempted /\ m.phase = "BEGIN"
  BY DEF Begin, Machine, Phases, Fetching
<1>3. flash' \in Slot
  BY <1>1 DEF Slot, IInv, TypeOK
<1>4. SessionShape' /\ ReleaseKept'
  BY <1>1, <1>2 DEF IInv, Shape, SessionShape, ReleaseKept, BeforeManifest,
     AfterManifest, InSession, Ended
<1>5. QED
  BY <1>1, <1>2, <1>3, <1>4 DEF WorkGood, RequestGood, BodyBounded, IInv, TypeOK, Shape

LEMMA WriteGood ==
  ASSUME Going, Write
  PROVE  WorkGood
<1> USE DEF storage, Going
<1> m \in Machine /\ flash \in Slot
  BY DEF IInv, TypeOK
<1> m.received \in Nat /\ m.chunk \in Nat /\ flash.blocks \in Nat
  BY OtaUpdateAssumption DEF Machine, Slot
<1>1. UNCHANGED <<desc, display, req, timeUp, handle, hash, staging, priv, granted>>
  BY DEF Write
<1>2. flash' \in Slot /\ flash'.id = flash.id
  <2>1. flash.good \in BOOLEAN
    BY DEF Slot
  <2>2. PICK good \in BOOLEAN :
          flash' = [flash EXCEPT !.blocks = flash.blocks + m.chunk, !.good = good]
    BY <2>1 DEF Write
  <2>3. flash.blocks + m.chunk \in Nat
    OBVIOUS
  <2>4. QED
    BY <2>2, <2>3 DEF Slot
<1>3. /\ m.phase = "WRITE" /\ m.received + m.chunk <= Size
      /\ m' = [m EXCEPT !.received = @ + m.chunk, !.chunk = 0,
                        !.phase = IF m.received + m.chunk = Size
                                  THEN "FINISH_DOWNLOAD" ELSE "DOWNLOAD"]
  BY DEF Write
<1>4. m.received + m.chunk \in 0..Size /\ 0 \in 0..Chunk
  BY <1>3, OtaUpdateAssumption
<1>5. /\ m'.phase \in {"FINISH_DOWNLOAD", "DOWNLOAD"} /\ ~m'.committed
      /\ m'.handleValid = m.handleValid /\ m'.endAttempted = m.endAttempted
  BY <1>3 DEF Machine
<1>6. m' \in Machine
  BY <1>3, <1>4 DEF Machine, Phases, Fetching
<1>7. SessionShape' /\ ReleaseKept'
  BY <1>1, <1>2, <1>3, <1>5 DEF IInv, Shape, SessionShape, ReleaseKept,
     BeforeManifest, AfterManifest, InSession, Ended
<1>8. QED
  BY <1>1, <1>2, <1>5, <1>6, <1>7 DEF WorkGood, RequestGood, BodyBounded, IInv,
     TypeOK, Shape

LEMMA FinishDownloadGood ==
  ASSUME Going, FinishDownload
  PROVE  WorkGood
<1> USE DEF storage, Going
<1> m \in Machine
  BY DEF IInv, TypeOK
<1>1. /\ req' = IdleRequest
      /\ UNCHANGED <<desc, display, timeUp, handle, hash, staging, flash, priv, granted>>
  BY DEF FinishDownload
<1>2. /\ m' \in Machine /\ m'.phase = "END" /\ ~m'.committed
      /\ m'.handleValid = m.handleValid /\ m'.endAttempted = m.endAttempted
      /\ m.phase = "FINISH_DOWNLOAD"
  BY DEF FinishDownload, Machine, Phases
<1>3. SessionShape' /\ ReleaseKept'
  BY <1>1, <1>2 DEF IInv, Shape, SessionShape, ReleaseKept, BeforeManifest,
     AfterManifest, InSession, Ended
<1>4. req' \in Request /\ BodyBounded'
  BY <1>1, Records DEF BodyBounded, IdleRequest
<1>5. QED
  BY <1>1, <1>2, <1>3, <1>4 DEF WorkGood, RequestGood, IInv, TypeOK

LEMMA EndSessionGood ==
  ASSUME Going, EndSession
  PROVE  WorkGood
<1> USE DEF storage, Going
<1> m \in Machine
  BY DEF IInv, TypeOK
<1>1. /\ handle' = FALSE /\ staging' = "closed" /\ hash' = 0
      /\ UNCHANGED <<desc, display, req, timeUp, flash, priv, granted>>
  BY DEF EndSession
<1>2. /\ m' \in Machine /\ m'.phase = "READBACK" /\ ~m'.committed /\ m.phase = "END"
  BY DEF EndSession, Machine, Phases
<1>3. SessionShape' /\ ReleaseKept'
  BY <1>1, <1>2 DEF IInv, Shape, SessionShape, ReleaseKept, BeforeManifest,
     AfterManifest, InSession, Ended
<1>4. QED
  BY <1>1, <1>2, <1>3 DEF WorkGood, RequestGood, BodyBounded, IInv, TypeOK, Shape

LEMMA ReadbackGood ==
  ASSUME Going, Readback
  PROVE  WorkGood
<1> USE DEF storage, Going
<1> DEFINE n == Least(Chunk, Size - m.readback)
<1> m \in Machine /\ hash \in Nat
  BY DEF IInv, TypeOK, Readback
<1> m.readback \in 0..Size /\ Size \in Nat /\ Chunk \in Nat
  BY OtaUpdateAssumption DEF Machine
<1>1. n \in Nat /\ m.readback + n \in 0..Size
  BY DEF Least
<1> HIDE DEF n
<1>2. /\ m.phase = "READBACK" /\ hash' = hash + n
      /\ m' = [m EXCEPT !.readback = @ + n,
                        !.phase = IF m.readback + n = Size THEN "DIGEST" ELSE @]
      /\ UNCHANGED <<desc, display, req, timeUp, handle, staging, flash, priv, granted>>
  BY DEF Readback, n
<1>3. /\ m'.phase \in {"READBACK", "DIGEST"} /\ ~m'.committed
  BY <1>2 DEF Machine
<1>4. m' \in Machine
  BY <1>1, <1>2 DEF Machine, Phases
<1>5. hash' \in Nat
  BY <1>1, <1>2
<1>6. SessionShape' /\ ReleaseKept'
  BY <1>2, <1>3 DEF IInv, Shape, SessionShape, ReleaseKept,
     BeforeManifest, AfterManifest, InSession, Ended
<1>7. QED
  BY <1>2, <1>3, <1>4, <1>5, <1>6 DEF WorkGood, RequestGood, BodyBounded, IInv,
     TypeOK, Shape

\* The digest is what makes the last two phases safe.
LEMMA DigestGood ==
  ASSUME Going, Digest \/ FinalGate
  PROVE  WorkGood
<1> USE DEF storage, Going
<1> m \in Machine
  BY DEF IInv, TypeOK
<1>1. /\ hash' \in Nat \cup {None}
      /\ UNCHANGED <<desc, display, req, timeUp, handle, staging, flash, priv, granted>>
  BY DEF Digest, FinalGate, IInv, TypeOK
<1>2. /\ m' \in Machine /\ m'.phase \in {"FINAL_GATE", "SET_BOOT"} /\ ~m'.committed
      /\ m.phase \in {"DIGEST", "FINAL_GATE"}
  BY DEF Digest, FinalGate, Machine, Phases
<1>3. flash.blocks = Size /\ flash.good
  BY DEF Digest, FinalGate, DigestMatches, IInv, Shape, ReleaseKept
<1>4. SessionShape' /\ ReleaseKept'
  BY <1>1, <1>2, <1>3 DEF IInv, Shape, SessionShape, ReleaseKept, BeforeManifest,
     AfterManifest, InSession, Ended
<1>5. QED
  BY <1>1, <1>2, <1>4 DEF WorkGood, RequestGood, BodyBounded, IInv, TypeOK, Shape

LEMMA VerifyGood ==
  ASSUME Going, Verify
  PROVE  WorkGood
  BY AuthenticateGood, SelectGood, BeginGood, WriteGood, FinishDownloadGood,
     EndSessionGood, ReadbackGood, DigestGood DEF Verify

(***************************************************************************)
(* One poll of an update that runs.                                        *)
(***************************************************************************)

\* A poll that does not cancel has no cancel to answer for.
LEMMA NoCancelPassed ==
  ASSUME IInv, NEW in, active, ~Terminal, ~(Cancels(in) /\ CancellationAllowed)
  PROVE  ~cancelled
  BY DEF IInv, Shape, CancelHeld, Cancels

\* The frame of a poll that goes on.
Frame(in) ==
  /\ confirmReq' = FALSE /\ cancelReq' = FALSE
  /\ offer' = Live(in)
  /\ UNCHANGED <<prompt, active, automatic, source, priv, consumed, device, history>>

LEMMA WorkInv ==
  ASSUME Going, ~cancelled, running = "old", NEW in, Frame(in), WorkGood
  PROVE  IInv'
<1> USE DEF device, history
<1>1. IInv /\ Live(in) \in Offer /\ bootTo = "old" /\ active
  BY LiveOffer DEF Going, IInv, TypeOK, Shape, BootShape
<1>2. TypeOK'
  BY <1>1 DEF Frame, WorkGood, RequestGood, IInv, TypeOK
<1>3. MachineShape' /\ CancelHeld'
  BY <1>1 DEF Frame, WorkGood, MachineShape, CancelHeld
<1>4. BootShape'
  BY <1>1, running = "old" DEF Frame, BootShape
<1>5. QED
  BY <1>2, <1>3, <1>4 DEF IInv, Shape, WorkGood, RequestGood

LEMMA ConsumeInv ==
  ASSUME IInv, ~cancelled, running = "old", active, ~m.committed, NEW in,
         m.phase = "CONFIRM", Consume(in), confirmReq' = FALSE, cancelReq' = FALSE,
         UNCHANGED <<prompt, active, automatic, source, display, work, storage,
                     device, cancelled>>
  PROVE  IInv'
<1> USE DEF work, storage, device
<1>1. bootTo = "old" /\ staging = "closed"
  BY DEF IInv, TypeOK, Shape, SessionShape, BootShape, InSession
<1>2. TypeOK'
  BY ConsumeFacts DEF IInv, TypeOK
<1>3. MachineShape' /\ SessionShape' /\ ReleaseKept'
  BY <1>1, ConsumeFacts DEF MachineShape, SessionShape, ReleaseKept,
     BeforeManifest, AfterManifest, InSession, Ended
<1>4. BootShape' /\ CancelHeld' /\ BodyBounded'
  BY <1>1, running = "old" DEF IInv, Shape, BootShape, CancelHeld, BodyBounded
<1>5. QED
  BY <1>2, <1>3, <1>4 DEF IInv, Shape

LEMMA SetBootInv ==
  ASSUME IInv, ~cancelled, running = "old", active, SetBoot, UNCHANGED prompt,
         confirmReq' = FALSE, cancelReq' = FALSE
  PROVE  IInv'
<1> USE DEF storage, history
<1> m \in Machine
  BY DEF IInv, TypeOK
<1>1. /\ m.phase = "SET_BOOT" /\ bootTo' = "new"
      /\ m' = [m EXCEPT !.committed = TRUE, !.attempts = 0, !.phase = "RESTART"]
      /\ offer' = NoOffer /\ source' = FALSE /\ priv' = NoOffer /\ consumed' = FALSE
      /\ desc' = None /\ req' = IdleRequest /\ timeUp' = TRUE
      /\ UNCHANGED <<active, automatic, display, handle, hash, storage, running, history>>
  BY DEF SetBoot
<1>2. m' \in Machine /\ m'.phase = "RESTART" /\ m'.committed
  <2> 0 \in 0..ApiAttempts /\ "RESTART" \in Phases
    BY OtaUpdateAssumption DEF Phases
  <2>1. QED
    BY <1>1 DEF Machine
<1>3. TypeOK'
  BY <1>1, <1>2, Records DEF IInv, TypeOK
<1>4. flash.blocks = Size /\ flash.good /\ flash.id = granted /\ granted \in Releases
  BY <1>1 DEF IInv, Shape, ReleaseKept, AfterManifest, Ended
<1>5. staging = "closed"
  BY <1>1 DEF IInv, TypeOK, Shape, SessionShape, InSession
<1>6. MachineShape' /\ SessionShape' /\ ReleaseKept'
  BY <1>1, <1>2, <1>5 DEF MachineShape, SessionShape, ReleaseKept,
     BeforeManifest, AfterManifest, InSession, Ended
<1>7. BootShape' /\ CancelHeld' /\ BodyBounded'
  BY <1>1, <1>2, <1>4, running = "old" DEF BootShape, CancelHeld, BodyBounded, IdleRequest
<1>8. QED
  BY <1>3, <1>6, <1>7 DEF IInv, Shape

LEMMA RunInv ==
  ASSUME IInv, running = "old", NEW in, Run(in)
  PROVE  IInv'
<1> USE DEF flags, txn, work, storage, device, history
<1>1. /\ active /\ ~Terminal /\ ~m.committed
      /\ confirmReq' = FALSE /\ cancelReq' = FALSE /\ UNCHANGED prompt
  BY DEF Run
<1>2. CASE Cancel(in) \/ Fail(in)
  BY <1>1, <1>2, EndInv, running = "old" DEF Cancel, Fail
<1>3. CASE ~cancelled /\ Confirm(in) /\ ~Cancel(in) /\ ~Fail(in)
  <2>1. CASE offer' = Live(in) /\ UNCHANGED <<m, txn, work, timeUp, storage, device, history>>
    <3>1. Going /\ Frame(in)
      BY <1>1, <1>3, <2>1 DEF Going, Frame, Confirm
    <3>2. WorkGood
      BY <1>1, <1>3, <2>1 DEF WorkGood, RequestGood, IInv, TypeOK, Shape,
         SessionShape, ReleaseKept, BodyBounded, Confirm
    <3>3. QED
      BY <1>3, <3>1, <3>2, WorkInv, running = "old"
  <2>2. CASE Consume(in) /\ UNCHANGED <<active, automatic, source, display, work,
                                        storage, device, cancelled>>
    BY <1>1, <1>3, <2>2, ConsumeInv, running = "old" DEF Confirm
  <2>3. QED
    BY <1>3, <2>1, <2>2 DEF Confirm
<1>4. CASE ~cancelled /\ WaitReady(in) /\ ~Cancel(in) /\ ~Fail(in)
  <2>1. /\ m.phase = "WAIT_READY" /\ m \in Machine /\ timeUp' \in BOOLEAN
        /\ m' = m \/ m' = [m EXCEPT !.phase = "OPEN_MANIFEST"]
        /\ offer' = Live(in)
        /\ UNCHANGED <<txn, work, storage, device, history>>
    BY <1>4 DEF WaitReady, IInv, TypeOK
  <2>2. /\ m' \in Machine /\ m'.phase \in {"WAIT_READY", "OPEN_MANIFEST"}
        /\ ~m'.committed /\ m'.endAttempted = m.endAttempted
    BY <1>1, <2>1 DEF Machine, Phases, Fetching
  <2>3. Going /\ Frame(in)
    BY <1>1, <2>1 DEF Going, Frame
  <2>4. WorkGood
    BY <2>1, <2>2 DEF WorkGood, RequestGood, IInv, TypeOK, Shape, SessionShape,
       ReleaseKept, BodyBounded, BeforeManifest, AfterManifest, InSession, Ended
  <2>5. QED
    BY <1>4, <2>3, <2>4, WorkInv, running = "old"
<1>5. CASE ~cancelled /\ Working(in) /\ ~Cancel(in) /\ ~Fail(in)
  <2>1. CASE SetBoot
    BY <1>1, <1>5, <2>1, SetBootInv, running = "old"
  <2>2. CASE /\ Fetch \/ Verify
             /\ offer' = Live(in)
             /\ UNCHANGED <<active, automatic, source, priv, consumed, device, history>>
    <3>1. Frame(in)
      BY <1>1, <2>2 DEF Frame
    <3>2. Going
      BY <1>1, <2>2 DEF Going, Terminal, IInv, Shape, MachineShape
    <3>3. WorkGood
      BY <2>2, <3>2, FetchGood, VerifyGood
    <3>4. QED
      BY <1>5, <3>1, <3>2, <3>3, WorkInv, running = "old"
  <2>3. QED
    BY <1>5, <2>1, <2>2 DEF Working
<1>6. QED
  BY <1>1, <1>2, <1>3, <1>4, <1>5, NoCancelPassed DEF Run

(***************************************************************************)
(* Restarts, and every step.                                               *)
(***************************************************************************)

LEMMA RebootInv ==
  ASSUME IInv, running = "old", Reboot
  PROVE  IInv'
<1>1. TypeOK'
  BY Records DEF Reboot, IInv, TypeOK
<1>2. MachineShape' /\ SessionShape' /\ ReleaseKept'
  BY DEF Reboot, MachineShape, SessionShape, ReleaseKept, InitialMachine,
     BeforeManifest, AfterManifest, InSession, Ended
<1>3. BootShape' /\ CancelHeld' /\ BodyBounded'
  BY DEF Reboot, IInv, TypeOK, Shape, BootShape, CancelHeld, BodyBounded, IdleRequest
<1>4. QED
  BY <1>1, <1>2, <1>3 DEF IInv, Shape

LEMMA RestartInv ==
  ASSUME IInv, running = "old", NEW in, Restart(in)
  PROVE  IInv'
<1> USE DEF txn, work, storage, device, history
<1>1. CASE Reboot
  BY <1>1, RebootInv, running = "old"
<1>2. CASE ~Reboot
  <2>0. /\ confirmReq' = FALSE /\ cancelReq' = FALSE
        /\ UNCHANGED <<prompt, txn, work, storage, device, history>>
    BY <1>2 DEF Restart
  <2>1. m.committed /\ offer' = Live(in)
    BY <1>2 DEF Restart
  <2>2. m \in Machine /\ timeUp \in BOOLEAN /\ m.phase = "RESTART"
    BY <2>1 DEF IInv, TypeOK, Shape, MachineShape
  <2>3. timeUp' \in BOOLEAN /\ (UNCHANGED m \/ RestartReturns)
    BY <1>2, <2>2 DEF Restart, RestartReturns
  <2>4. /\ m' \in Machine /\ m'.phase = m.phase /\ m'.committed = m.committed
        /\ m'.endAttempted = m.endAttempted
    <3>1. CASE RestartReturns
      <4>1. m.attempts + 1 \in 0..ApiAttempts
        BY <2>2, <3>1, OtaUpdateAssumption DEF RestartReturns, Machine
      <4>2. QED
        BY <2>2, <3>1, <4>1 DEF RestartReturns, Machine
    <3>2. QED
      BY <2>2, <2>3, <3>1
  <2>5. TypeOK'
    <3>1. m' \in Machine /\ timeUp' \in BOOLEAN
      BY <2>3, <2>4
    <3>2. offer' \in Offer
      BY <2>1, LiveOffer DEF IInv, TypeOK
    <3>3. UNCHANGED <<prompt, active, automatic, source, priv, consumed, display,
                      desc, req, handle, hash, staging, flash, bootTo, running,
                      granted, cancelled>>
      BY <2>0
    <3>4. confirmReq' \in BOOLEAN /\ cancelReq' \in BOOLEAN
      BY <2>0
    <3>5. TypeOK
      BY DEF IInv
    <3>6. QED
      BY <3>1, <3>2, <3>3, <3>4, <3>5 DEF TypeOK
  <2>6. CancelHeld'
    BY <2>0, <2>1, <2>2 DEF IInv, Shape, CancelHeld, Terminal, CancellationAllowed
  <2>7. QED
    BY <2>0, <2>1, <2>2, <2>4, <2>5, <2>6 DEF IInv, Shape, MachineShape, SessionShape,
       ReleaseKept, BootShape, BodyBounded, BeforeManifest, AfterManifest, InSession, Ended
<1>3. QED
  BY <1>1, <1>2

LEMMA StepInv == IInv /\ [Next]_vars => IInv'
<1> SUFFICES ASSUME IInv, Next PROVE IInv'
  BY StutterInv
<1>1. CASE running = "old" /\ (Receive \/ Hands \/ Expire \/ TimeUp)
  BY <1>1, ReceiveInv, HandsInv, ClockInv
<1>2. CASE running = "old" /\ Crash
  BY <1>2, RebootInv DEF Crash
<1>3. ASSUME running = "old", NEW in \in Inputs, Poll(in) PROVE IInv'
  BY <1>3, InactiveInv, RunInv, RestartInv DEF Poll
<1>4. CASE UNCHANGED vars
  BY <1>4, StutterInv
<1>5. QED
  BY <1>1, <1>2, <1>3, <1>4 DEF Next

THEOREM Invariant == Spec => []IInv
<1>1. QED
  BY InitInv, StepInv, PTL DEF Spec

(***************************************************************************)
(* The properties.                                                         *)
(***************************************************************************)

\* Every variable of the updater stays in its range, for any sizes.
THEOREM TypeCorrect == Spec => []TypeOK
<1>1. IInv => TypeOK
  BY DEF IInv
<1>2. QED
  BY <1>1, Invariant, PTL

\* The boot slot is only ever switched to a whole, right, let-in image.
THEOREM OnlyWholeImagesBoot == Spec => []BootedImageIsWhole
<1>1. IInv => BootedImageIsWhole
  BY DEF IInv, Shape, BootShape, BootedImageIsWhole
<1>2. QED
  BY <1>1, Invariant, PTL

\* However an update ends, its esp_ota session is closed.
THEOREM SessionsAreClosed == Spec => []NoSessionLeft
<1>1. IInv => NoSessionLeft
  BY DEF IInv, Shape, SessionShape, MachineShape, NoSessionLeft, Terminal, InSession
<1>2. QED
  BY <1>1, Invariant, PTL

\* An update whose cancel was taken never commits.
THEOREM CancelsHold == Spec => []AppliedCancelHolds
<1>1. IInv => AppliedCancelHolds
  <2> SUFFICES ASSUME IInv, cancelled PROVE ~m.committed
    BY DEF AppliedCancelHolds
  <2>1. CASE ~active
    BY <2>1 DEF IInv, Shape, MachineShape
  <2>2. CASE Terminal \/ CancellationAllowed
    BY <2>2 DEF Terminal, CancellationAllowed
  <2>3. QED
    BY <2>1, <2>2 DEF IInv, Shape, CancelHeld
<1>2. QED
  BY <1>1, Invariant, PTL

\* A poll that works goes on only past its own gate.
LEMMA GateStopsOnPrompt ==
  ASSUME NEW o, NEW in, GateReady(o, in)
  PROVE  prompt # "open"
  BY DEF GateReady, Conflict

\* Ending an update writes nothing and opens no session.
LEMMA EndWritesNothing ==
  ASSUME TypeOK, NEW in, Cancel(in) \/ Fail(in)
  PROVE  flash' = flash /\ bootTo' = bootTo /\ (staging' = "open" => staging = "open")
  BY DEF Cancel, Fail, End, AbortHandle, TypeOK, device

\* Nothing is written and no boot slot is switched while a prompt is open.
THEOREM PromptsStopTheInstall == Spec => PromptStopsInstall
<1>1. TypeOK /\ [Next]_vars =>
        [prompt = "open" => /\ flash' = flash /\ bootTo' = bootTo
                            /\ staging' = "open" => staging = "open"]_vars
  <2> SUFFICES ASSUME TypeOK, [Next]_vars, prompt = "open"
               PROVE  /\ flash' = flash /\ bootTo' = bootTo
                      /\ staging' = "open" => staging = "open"
    OBVIOUS
  <2> USE DEF storage, device
  <2>1. ASSUME UNCHANGED <<storage, device>>
        PROVE  /\ flash' = flash /\ bootTo' = bootTo
               /\ staging' = "open" => staging = "open"
    BY <2>1
  <2>2. CASE Receive \/ Hands \/ Expire \/ TimeUp
    BY <2>1, <2>2 DEF Receive, HostCancel, ReceiveSigned, ReceiveLegacy, Hands,
       OpenReceiveWindow, PressA, PressB, PromptArrives, PromptLeaves, Expire, TimeUp
  <2>3. CASE Crash
    BY <2>3 DEF Crash, Reboot
  <2>4. ASSUME NEW in \in Inputs, Poll(in)
        PROVE  /\ flash' = flash /\ bootTo' = bootTo
               /\ staging' = "open" => staging = "open"
    <3>1. CASE NothingToArm(in) \/ ArmAsking(in) \/ ArmDirect(in) \/ Linger(in)
      BY <2>1, <3>1 DEF NothingToArm, ArmAsking, ArmDirect, Linger
    <3>2. CASE Cancel(in) \/ Fail(in)
      BY <3>2, EndWritesNothing
    <3>3. CASE (Confirm(in) \/ WaitReady(in)) /\ ~Cancel(in) /\ ~Fail(in)
      BY <2>1, <3>3 DEF Confirm, WaitReady
    <3>4. CASE Working(in) /\ ~Cancel(in) /\ ~Fail(in)
      BY <3>4, GateStopsOnPrompt DEF Working
    <3>5. CASE Restart(in)
      BY <2>1, <3>5 DEF Restart, Reboot
    <3>6. QED
      BY <2>4, <3>1, <3>2, <3>3, <3>4, <3>5 DEF Poll, Run
  <2>5. CASE UNCHANGED vars
    BY <2>1, <2>5 DEF vars
  <2>6. QED
    BY <2>2, <2>3, <2>4, <2>5 DEF Next
<1>2. QED
  BY <1>1, TypeCorrect, PTL DEF Spec, PromptStopsInstall

(***************************************************************************)
(* The updater installs as OtaInstall says.                                *)
(***************************************************************************)

\* What OtaInstall may do in one step, or nothing.
InstallStep == Install!Next \/ UNCHANGED <<granted, Chosen, running>>

\* Giving up, or letting in, before the boot slot is switched.
LEMMA AllowIsInstall ==
  ASSUME granted' \in Releases \cup {None}, bootTo = "old",
         UNCHANGED <<bootTo, running>>
  PROVE  InstallStep
<1>1. Chosen = None /\ Chosen' = None
  BY DEF Chosen
<1>2. QED
  BY <1>1 DEF InstallStep, Install!Next, Install!Allow

LEMMA SetBootIsInstall ==
  ASSUME IInv, SetBoot, ~m.committed, running = "old"
  PROVE  InstallStep
<1>1. bootTo = "old" /\ bootTo' = "new" /\ UNCHANGED <<flash, running, granted>>
  BY DEF IInv, TypeOK, Shape, BootShape, SetBoot, storage, history
<1>2. flash.id = granted /\ granted \in Releases
  BY DEF SetBoot, IInv, Shape, ReleaseKept, AfterManifest, Ended
<1>3. Chosen = None /\ Chosen' = granted /\ granted # None
  BY <1>1, <1>2, OtaUpdateAssumption DEF Chosen
<1>4. QED
  BY <1>1, <1>3 DEF InstallStep, Install!Next, Install!Choose

LEMMA RebootIsInstall ==
  ASSUME IInv, Reboot, running = "old"
  PROVE  InstallStep
<1>1. CASE bootTo = "old"
  BY <1>1, AllowIsInstall DEF Reboot
<1>2. CASE bootTo = "new"
  <2>1. Chosen' = Chosen /\ Chosen # None
    BY <1>2, OtaUpdateAssumption DEF Reboot, Chosen, IInv, Shape, BootShape
  <2>2. QED
    BY <1>2, <2>1 DEF Reboot, InstallStep, Install!Next, Install!Start
<1>3. QED
  BY <1>1, <1>2 DEF IInv, TypeOK

\* Every step of the device is a step of the abstract install, or none.
THEOREM DeviceImplementsInstall == Spec => ImplementsInstall
<1>1. Init => Install!Init
  BY DEF Init, Install!Init, Chosen
<1>2. IInv /\ [Next]_vars => [Install!Next]_Install!installVars
  <2> SUFFICES ASSUME IInv, [Next]_vars PROVE InstallStep
    BY DEF InstallStep, Install!installVars
  <2> USE DEF storage, device, history
  <2>1. ASSUME UNCHANGED <<flash, bootTo, running, granted>> PROVE InstallStep
    BY <2>1 DEF InstallStep, Chosen
  <2>2. CASE Receive \/ Hands \/ Expire \/ TimeUp
    BY <2>1, <2>2 DEF Receive, HostCancel, ReceiveSigned, ReceiveLegacy, Hands,
       OpenReceiveWindow, PressA, PressB, PromptArrives, PromptLeaves, Expire, TimeUp
  <2>3. CASE running = "old" /\ Crash
    BY <2>3, RebootIsInstall DEF Crash
  <2>4. ASSUME running = "old", NEW in \in Inputs, Poll(in) PROVE InstallStep
    <3>1. ~m.committed => bootTo = "old"
      BY <2>4 DEF IInv, TypeOK, Shape, BootShape
    <3>2. CASE NothingToArm(in) \/ ArmAsking(in) \/ Linger(in)
      BY <2>1, <3>2 DEF NothingToArm, ArmAsking, Linger
    <3>3. CASE ArmDirect(in)
      <4>1. bootTo = "old"
        BY <3>1, <3>3 DEF ArmDirect, IInv, Shape, MachineShape
      <4>2. granted' \in Releases \cup {None}
        BY <3>3, ConsumeFacts DEF ArmDirect, IInv, TypeOK
      <4>3. QED
        BY <3>3, <4>1, <4>2, AllowIsInstall DEF ArmDirect
    <3>4. CASE ~m.committed /\ (Cancel(in) \/ Fail(in))
      BY <3>1, <3>4, AllowIsInstall DEF Cancel, Fail, End
    <3>5. CASE ~m.committed /\ Confirm(in) /\ ~Cancel(in) /\ ~Fail(in)
      <4>1. CASE Consume(in) /\ UNCHANGED device
        BY <3>1, <3>5, <4>1, ConsumeFacts, AllowIsInstall
      <4>2. CASE UNCHANGED <<storage, device, history>>
        BY <2>1, <4>2
      <4>3. QED
        BY <3>5, <4>1, <4>2 DEF Confirm
    <3>6. CASE WaitReady(in) /\ ~Cancel(in) /\ ~Fail(in)
      BY <2>1, <3>6 DEF WaitReady
    <3>7. CASE ~m.committed /\ Working(in) /\ ~Cancel(in) /\ ~Fail(in)
      <4>1. CASE SetBoot
        BY <2>4, <3>7, <4>1, SetBootIsInstall
      <4>2. CASE (Fetch \/ Verify) /\ UNCHANGED <<device, history>>
        <5>1. Chosen = None /\ Chosen' = None
          BY <3>1, <3>7, <4>2 DEF Chosen
        <5>2. QED
          BY <4>2, <5>1 DEF InstallStep
      <4>3. QED
        BY <3>7, <4>1, <4>2 DEF Working
    <3>8. CASE Restart(in)
      <4>1. CASE Reboot
        BY <2>4, <4>1, RebootIsInstall
      <4>2. CASE ~Reboot
        BY <2>1, <3>8, <4>2 DEF Restart
      <4>3. QED
        BY <4>1, <4>2
    <3>9. QED
      BY <2>4, <3>2, <3>3, <3>4, <3>5, <3>6, <3>7, <3>8 DEF Poll, Run
  <2>5. CASE UNCHANGED vars
    BY <2>1, <2>5 DEF vars
  <2>6. QED
    BY <2>2, <2>3, <2>4, <2>5 DEF Next
<1>3. QED
  BY <1>1, <1>2, Invariant, PTL DEF Spec, ImplementsInstall, Install!Spec
=============================================================================
