----------------------------- MODULE OtaUpdate ------------------------------
(***************************************************************************)
(* Installing firmware over the air, on the device: the shared offer       *)
(* (firmware/src/data.h, ota_manifest_logic.h), the pure machine           *)
(* (ota_update_logic.h), the runtime that carries out its events           *)
(* (ota_update.cpp), the cancel command (ota_status.cpp) and the callers   *)
(* in main.cpp.                                                            *)
(*                                                                         *)
(* All of it runs in the one Arduino task, so a received line, a button    *)
(* and a call of otaUpdatePoll are each one step; what comes in between    *)
(* two polls is anything at all: another offer, a prompt, a menu, a lost   *)
(* link, a deadline, a reset.  A poll advances the machine by at most one  *)
(* phase or one chunk.                                                     *)
(*                                                                         *)
(* Data: lengths are counted in blocks; a release stands for an offer's    *)
(* nonce, generation, version and size; a manifest is the release it       *)
(* describes; signatures and the digest are right or wrong.                *)
(*                                                                         *)
(* External, modelled from the way the code uses it: the HTTPS server, the *)
(* esp_ota_* staging session and boot selection, SHA-256, esp_restart.     *)
(***************************************************************************)
EXTENDS Naturals

CONSTANTS
  Releases,     \* what offers and manifests name
  None,
  Size,         \* blocks of a firmware image
  Chunk,        \* OTA_UPDATE_CHUNK_BYTES, in blocks
  MetaSize,     \* bound: blocks of a manifest or a signature
  ApiAttempts,  \* OTA_UPDATE_RESTART_API_ATTEMPTS
  BleBuild,     \* CODE_BUDDY_BLE_ENABLED
  Inputs        \* bound: the inputs a poll may see, among those of Input

ASSUME OtaUpdateAssumption ==
  /\ None \notin Releases
  /\ Size \in Nat \ {0} /\ Chunk \in Nat \ {0} /\ MetaSize \in Nat \ {0}
  /\ ApiAttempts \in Nat \ {0}
  /\ BleBuild \in BOOLEAN

VARIABLES
  offer,      \* tama.otaOffer, shared by the receiver and the runtime
  prompt,     \* the approval prompt: "none", "open", "answered"
  m,          \* OtaUpdateMachine
  active,     \* runtime.active
  automatic,  \* runtime.automatic
  source,     \* runtime.sourceOffer points at the shared offer
  priv,       \* runtime.offer, the consumed offer
  consumed,   \* runtime.offerConsumed
  confirmReq, \* runtime.confirmRequested
  cancelReq,  \* runtime.cancelRequested
  display,    \* the release runtime.display shows
  desc,       \* runtime.descriptor: the authenticated manifest, or None
  req,        \* runtime.request
  handle,     \* runtime.handle is set
  hash,       \* blocks fed to readbackHash, or None when it is not set up
  timeUp,     \* the deadline this phase or request runs against has passed
  staging,    \* external: esp_ota session "open" or "closed"
  flash,      \* external: the inactive slot
  bootTo,     \* external: the slot otadata selects, "old" or "new"
  running,    \* the image being executed
  granted,    \* history: the release let in by the present update, or None
  cancelled   \* history: a cancel of the present update was taken

shared == <<offer, prompt>>
flags == <<confirmReq, cancelReq>>
txn == <<active, automatic, source, priv, consumed, display>>
work == <<desc, req, handle, hash>>
storage == <<staging, flash>>
device == <<bootTo, running>>
history == <<granted, cancelled>>
vars == <<shared, m, flags, txn, work, timeUp, storage, device, history>>

(***************************************************************************)
(* Data.                                                                   *)
(***************************************************************************)
Offer == [pending : BOOLEAN, window : BOOLEAN, signed : BOOLEAN,
          fresh : BOOLEAN, id : Releases \cup {None}]

\* otaOfferReset
NoOffer == [pending |-> FALSE, window |-> FALSE, signed |-> FALSE,
            fresh |-> FALSE, id |-> None]

Fetching == {"OPEN_MANIFEST", "READ_MANIFEST", "OPEN_SIGNATURE",
             "READ_SIGNATURE", "OPEN_FIRMWARE", "DOWNLOAD"}
Phases == Fetching \cup
  {"CONFIRM", "WAIT_READY", "AUTHENTICATE", "SELECT", "BEGIN", "WRITE",
   "FINISH_DOWNLOAD", "END", "READBACK", "DIGEST", "FINAL_GATE", "SET_BOOT",
   "RESTART", "CANCELLED", "ERROR"}

Machine == [phase : Phases, received : 0..Size, readback : 0..Size,
            chunk : 0..Chunk, handleValid : BOOLEAN, endAttempted : BOOLEAN,
            authenticated : BOOLEAN, committed : BOOLEAN,
            attempts : 0..ApiAttempts]

InitialMachine ==
  [phase |-> "CONFIRM", received |-> 0, readback |-> 0, chunk |-> 0,
   handleValid |-> FALSE, endAttempted |-> FALSE, authenticated |-> FALSE,
   committed |-> FALSE, attempts |-> 0]

Resources == {"manifest", "signature", "firmware"}

Request == [phase : {"IDLE", "OPENING", "BODY", "EXPECT_EOF", "EOF"},
            resource : Resources \cup {None}, expected : Nat, received : Nat,
            pending : Nat]

IdleRequest == [phase |-> "IDLE", resource |-> None, expected |-> 0,
                received |-> 0, pending |-> 0]

Slot == [id : Releases \cup {None}, blocks : Nat, good : BOOLEAN]

\* What main.cpp hands to the receiver and to otaUpdatePoll.  busy is "work"
\* for a transfer or Wi-Fi provisioning, "screen" for a passkey or a menu.
Input == {in \in [ble : BOOLEAN, link : BOOLEAN, online : BOOLEAN,
                  power : BOOLEAN, direct : BOOLEAN,
                  busy : {"no", "screen", "work"}] : in.ble => BleBuild}

ASSUME InputsAssumption == Inputs \subseteq Input

Init ==
  /\ offer = NoOffer /\ prompt = "none"
  /\ m = InitialMachine /\ confirmReq = FALSE /\ cancelReq = FALSE
  /\ active = FALSE /\ automatic = FALSE /\ source = FALSE
  /\ priv = NoOffer /\ consumed = FALSE /\ display = None
  /\ desc = None /\ req = IdleRequest /\ handle = FALSE /\ hash = None
  /\ timeUp = FALSE
  /\ staging = "closed" /\ flash = [id |-> None, blocks |-> 0, good |-> FALSE]
  /\ bootTo = "old" /\ running = "old"
  /\ granted = None /\ cancelled = FALSE

(***************************************************************************)
(* The receiver: offers and commands on the serial line, the prompt, the   *)
(* buttons.                                                                *)
(***************************************************************************)
Connected(in) == in.ble /\ in.link

\* Conditions of otaOfferAcceptHint on the device; version, size and URLs are
\* the sender's part, so an offer may be turned down with all of them met.
Acceptable ==
  prompt = "none" /\ \E in \in Inputs : in.ble /\ in.busy # "work" /\ in.power

Accepted(r, signed) ==
  [pending |-> TRUE, window |-> TRUE, signed |-> signed, fresh |-> TRUE, id |-> r]

\* A signed offer opens a window of its own; the shared offer is reset before
\* it is looked at.
ReceiveSigned(r) ==
  /\ \/ Acceptable /\ offer' = Accepted(r, TRUE)
     \/ offer' = NoOffer
  /\ UNCHANGED <<prompt, m, flags, txn, work, timeUp, storage, device, history>>

\* A legacy offer needs an active window, whose record it fills in.
ReceiveLegacy(r) ==
  /\ \/ /\ Acceptable /\ offer.window /\ offer.fresh
        /\ offer' = Accepted(r, offer.signed)
     \/ offer' = NoOffer
  /\ UNCHANGED <<prompt, m, flags, txn, work, timeUp, storage, device, history>>

\* A deadline of the shared or of the consumed offer passes.
Expire ==
  /\ \/ /\ offer.window /\ offer.fresh
        /\ offer' = [offer EXCEPT !.fresh = FALSE] /\ UNCHANGED priv
     \/ /\ consumed /\ priv.fresh
        /\ priv' = [priv EXCEPT !.fresh = FALSE] /\ UNCHANGED offer
  /\ UNCHANGED <<prompt, m, flags, active, automatic, source, consumed,
                 display, work, timeUp, storage, device, history>>

Terminal == ~m.committed /\ m.phase \in {"CANCELLED", "ERROR"}

\* otaOfferOpenReceiveWindow, from a menu that an update in progress would
\* have been cancelled by.
OpenReceiveWindow ==
  /\ ~active \/ Terminal
  /\ offer' = [NoOffer EXCEPT !.window = TRUE, !.fresh = TRUE]
  /\ UNCHANGED <<prompt, m, flags, txn, work, timeUp, storage, device,
                 history>>

CancellationAllowed ==
  /\ active /\ ~m.committed /\ ~Terminal
  /\ m.phase \notin {"SET_BOOT", "RESTART"}

CancelTaken == CancellationAllowed /\ ~cancelReq

\* otaUpdateCancel
RequestCancel ==
  /\ cancelReq' = (cancelReq \/ CancelTaken)
  /\ cancelled' = (cancelled \/ CancelTaken)

\* otaStatusCancel: a cancel that names the offer taken last is answered
\* "applied" when the request is taken; any other is answered with nothing.
HostCancel ==
  /\ RequestCancel
  /\ UNCHANGED <<shared, m, confirmReq, txn, work, timeUp, storage, device, granted>>

\* The B button; outside an update it drops the shared offer.
PressB ==
  /\ prompt # "open"
  /\ RequestCancel
  /\ offer' = IF active THEN offer ELSE NoOffer
  /\ UNCHANGED <<prompt, m, confirmReq, txn, work, timeUp, storage,
                 device, granted>>

\* The A button on the confirmation screen.
PressA ==
  /\ active /\ m.phase = "CONFIRM" /\ prompt # "open"
  /\ confirmReq' = TRUE
  /\ UNCHANGED <<shared, m, cancelReq, txn, work, timeUp, storage, device, history>>

\* A new prompt cancels the update and drops the shared offer.
PromptArrives ==
  /\ prompt' = "open"
  /\ RequestCancel
  /\ offer' = NoOffer
  /\ UNCHANGED <<m, confirmReq, txn, work, timeUp, storage, device, granted>>

PromptLeaves ==
  /\ \/ prompt = "open" /\ prompt' = "answered"
     \/ prompt # "none" /\ prompt' = "none"
  /\ UNCHANGED <<offer, m, flags, txn, work, timeUp, storage, device, history>>

(***************************************************************************)
(* The gates of one poll.                                                  *)
(***************************************************************************)
\* otaOfferLifecyclePoll, which dataPoll ends with, before every poll.
Live(in) ==
  IF offer.window /\ (~Connected(in) \/ prompt # "none" \/ in.busy = "work"
                        \/ ~offer.fresh)
  THEN NoOffer ELSE offer

\* Mutant: once authenticated, an update is no longer stopped by a prompt.
ConflictUnauthenticated(in) ==
  ~m.authenticated /\ (prompt = "open" \/ in.busy # "no")

Conflict(in) == prompt = "open" \/ in.busy # "no"

ExecutionAllowed(o, in) ==
  o.pending /\ o.window /\ o.fresh /\ in.ble /\ ~Conflict(in) /\ in.power

\* The offer must be there, fresh and linked until the manifest is
\* authenticated.
Coordinated(o, in) == m.authenticated \/ (o.pending /\ (BleBuild => in.ble))

\* otaUpdateGate is CONFLICT, WIFI or TIME, READY.
GateConflict(o, in) == Coordinated(o, in) /\ Conflict(in)
GateWaits(o, in) == Coordinated(o, in) /\ ~Conflict(in) /\ ~in.online
GateReady(o, in) ==
  /\ Coordinated(o, in) /\ ~Conflict(in) /\ in.online /\ in.power
  /\ m.authenticated \/ o.fresh

Coordinating(in) ==
  IF consumed THEN priv ELSE IF source THEN Live(in) ELSE NoOffer

Wanted == confirmReq \/ (automatic /\ ~consumed)

\* consumeOfferAfterAuthorization
Consumable(in) ==
  source /\ (automatic => Live(in).signed) /\ ExecutionAllowed(Live(in), in)

\* Mutant: the flag is cleared before it is read.
CancelsClearedFlag(in) == Wanted /\ ~Consumable(in)

Cancels(in) == cancelReq \/ (Wanted /\ ~Consumable(in))

(***************************************************************************)
(* Ends of an update.                                                      *)
(***************************************************************************)
\* Mutant: only the runtime's handle is forgotten.
AbortHandleForgotten == UNCHANGED staging

\* otaUpdateAbortHandle and the ABORT event.
AbortHandle ==
  staging' = IF m.handleValid /\ ~m.endAttempted /\ handle THEN "closed"
             ELSE staging

\* otaUpdateFail or otaUpdateCancelMachine, then cleanupTerminal in the same
\* poll.
End(phase, in) ==
  /\ AbortHandle
  /\ m' = [InitialMachine EXCEPT !.phase = phase]
  /\ offer' = IF source THEN NoOffer ELSE Live(in)
  /\ source' = FALSE /\ priv' = NoOffer /\ consumed' = FALSE
  /\ desc' = None /\ req' = IdleRequest /\ handle' = FALSE /\ hash' = None
  /\ timeUp' = FALSE
  /\ granted' = None
  /\ UNCHANGED <<flash, device>>

Fail(in) ==
  /\ End("ERROR", in)
  /\ UNCHANGED <<active, automatic, display, cancelled>>

Cancel(in) ==
  /\ End("CANCELLED", in)
  /\ UNCHANGED <<active, automatic, display, cancelled>>

(***************************************************************************)
(* Inactive, waiting for A, waiting for the network, over.                 *)
(***************************************************************************)
\* arm, for an offer that waits for the A button.
ArmAsking(in) ==
  /\ ~active /\ Live(in).pending
  /\ ~(Live(in).signed /\ in.direct)
  /\ m' = InitialMachine
  /\ active' = TRUE /\ automatic' = FALSE /\ source' = TRUE
  /\ display' = Live(in).id
  /\ offer' = Live(in) /\ priv' = NoOffer /\ consumed' = FALSE
  /\ confirmReq' = FALSE /\ cancelReq' = FALSE
  /\ desc' = None /\ handle' = FALSE /\ cancelled' = FALSE
  /\ UNCHANGED <<prompt, req, hash, timeUp, storage, device, granted>>

\* The offer moves into the runtime and the machine leaves CONFIRM.
Consume(in) ==
  /\ priv' = Live(in) /\ offer' = NoOffer /\ consumed' = TRUE
  /\ granted' = Live(in).id
  /\ m' = [InitialMachine EXCEPT !.phase = IF GateReady(Live(in), in)
                                           THEN "OPEN_MANIFEST" ELSE "WAIT_READY"]
  /\ timeUp' = FALSE

\* arm under the Direct policy, and the rest of the same poll.
ArmDirect(in) ==
  /\ ~active /\ Live(in).pending /\ Live(in).signed /\ in.direct
  /\ active' = TRUE /\ automatic' = TRUE /\ display' = Live(in).id
  /\ confirmReq' = FALSE /\ cancelReq' = FALSE /\ cancelled' = FALSE
  /\ \/ /\ ExecutionAllowed(Live(in), in)
        /\ Consume(in)
        /\ source' = TRUE /\ desc' = None /\ handle' = FALSE
        /\ UNCHANGED <<req, hash, storage, device>>
     \/ /\ ~ExecutionAllowed(Live(in), in)
        /\ m' = [InitialMachine EXCEPT !.phase = "CANCELLED"]
        /\ offer' = NoOffer /\ source' = FALSE
        /\ priv' = NoOffer /\ consumed' = FALSE
        /\ desc' = None /\ req' = IdleRequest /\ handle' = FALSE /\ hash' = None
        /\ timeUp' = FALSE
        /\ UNCHANGED <<storage, device, granted>>
  /\ UNCHANGED prompt

NothingToArm(in) ==
  /\ ~active /\ ~Live(in).pending
  /\ offer' = Live(in)
  /\ UNCHANGED <<prompt, m, flags, txn, work, timeUp, storage, device, history>>

\* Mutant: an update that is over keeps its screen.
LingerForever(in) ==
  /\ active /\ Terminal
  /\ offer' = Live(in)
  /\ UNCHANGED <<prompt, m, flags, txn, work, timeUp, storage, device, history>>

\* An update that is over stays on the screen for 2.5 seconds.
Linger(in) ==
  /\ active /\ Terminal
  /\ offer' = Live(in)
  /\ active' = ~timeUp
  /\ display' = IF timeUp THEN None ELSE display
  /\ UNCHANGED <<prompt, m, flags, automatic, source, priv, consumed,
                 work, timeUp, storage, device, history>>

Confirm(in) ==
  /\ m.phase = "CONFIRM"
  /\ LET o == Coordinating(in)
     IN \/ GateConflict(o, in) /\ Cancel(in)
        \/ /\ ~GateConflict(o, in) /\ ~GateReady(o, in) /\ ~GateWaits(o, in)
           /\ Fail(in)
        \/ /\ GateReady(o, in) \/ GateWaits(o, in)
           /\ ~Wanted
           /\ offer' = Live(in)
           /\ UNCHANGED <<m, txn, work, timeUp, storage, device, history>>
        \/ /\ GateReady(o, in) \/ GateWaits(o, in)
           /\ Wanted
           /\ Consume(in)
           /\ UNCHANGED <<active, automatic, source, display, work, storage,
                          device, cancelled>>

\* Only the network and the clock are waited for, and only for 30 seconds.
WaitReady(in) ==
  /\ m.phase = "WAIT_READY"
  /\ LET o == Coordinating(in)
     IN \/ GateConflict(o, in) /\ Cancel(in)
        \/ /\ ~GateConflict(o, in) /\ ~GateReady(o, in)
           /\ ~GateWaits(o, in) \/ timeUp
           /\ Fail(in)
        \/ /\ GateWaits(o, in) /\ ~timeUp
           /\ offer' = Live(in)
           /\ UNCHANGED <<m, txn, work, timeUp, storage, device, history>>
        \/ /\ GateReady(o, in)
           /\ m' = [m EXCEPT !.phase = "OPEN_MANIFEST"]
           /\ offer' = Live(in) /\ timeUp' = FALSE
           /\ UNCHANGED <<txn, work, storage, device, history>>

(***************************************************************************)
(* HTTPS.  Opening a request and reading a body take many polls; while     *)
(* nothing has arrived the phase stays, until a deadline has passed.       *)
(***************************************************************************)
Resource == [OPEN_MANIFEST |-> "manifest",   READ_MANIFEST |-> "manifest",
             OPEN_SIGNATURE |-> "signature", READ_SIGNATURE |-> "signature",
             OPEN_FIRMWARE |-> "firmware",   DOWNLOAD |-> "firmware"]

\* A firmware body must have the exact signed length.
Lengths(resource) == IF resource = "firmware" THEN {Size} ELSE 1..MetaSize

\* pollOpenRequest
Open(next) ==
  LET resource == Resource[m.phase]
  IN \/ /\ req.phase = "IDLE"
        /\ req' = [IdleRequest EXCEPT !.phase = "OPENING", !.resource = resource]
        /\ timeUp' = FALSE
        /\ UNCHANGED m
     \/ /\ req.phase = "OPENING" /\ req.resource = resource /\ ~timeUp
        /\ \/ UNCHANGED <<req, m, timeUp>>
           \/ \E n \in Lengths(resource) :
                /\ req' = [req EXCEPT !.phase = "BODY", !.expected = n]
                /\ m' = [m EXCEPT !.phase = next]
                /\ timeUp' = FALSE

\* readRequest, PENDING: nothing has come, or the last bytes have and the end
\* of the stream has not.
ReadPending ==
  /\ ~timeUp
  /\ \/ req.phase \in {"BODY", "EXPECT_EOF"} /\ UNCHANGED <<req, timeUp>>
     \/ /\ req.phase = "BODY" /\ req.expected - req.received <= Chunk
        /\ req' = [req EXCEPT !.phase = "EXPECT_EOF",
                              !.pending = req.expected - req.received]
        /\ UNCHANGED timeUp
  /\ UNCHANGED m

\* readRequest, PROGRESS: n blocks, but not the last ones.
ReadProgress(n) ==
  /\ ~timeUp /\ req.phase = "BODY"
  /\ n <= Chunk /\ n < req.expected - req.received
  /\ req' = [req EXCEPT !.received = @ + n]

\* readRequest, COMPLETE: the stream ended where it had to, and the bytes held
\* back are handed over.
ReadComplete(n) ==
  /\ ~timeUp /\ req.phase = "EXPECT_EOF" /\ n = req.pending /\ n > 0
  /\ req' = [req EXCEPT !.phase = "EOF", !.received = @ + n, !.pending = 0]

\* A manifest or a signature, read whole and its request closed.
ReadMeta(next) ==
  \/ ReadPending
  \/ /\ \E n \in 1..Chunk : ReadProgress(n)
     /\ UNCHANGED <<m, timeUp>>
  \/ /\ ~timeUp /\ req.phase = "EXPECT_EOF" /\ req.pending > 0
     /\ req' = IdleRequest
     /\ m' = [m EXCEPT !.phase = next]
     /\ UNCHANGED timeUp

Open_Manifest == m.phase = "OPEN_MANIFEST" /\ Open("READ_MANIFEST")
Read_Manifest == m.phase = "READ_MANIFEST" /\ ReadMeta("OPEN_SIGNATURE")
Open_Signature == m.phase = "OPEN_SIGNATURE" /\ Open("READ_SIGNATURE")
Read_Signature == m.phase = "READ_SIGNATURE" /\ ReadMeta("AUTHENTICATE")
Open_Firmware == m.phase = "OPEN_FIRMWARE" /\ Open("BEGIN")

\* The offset asked for is the number of blocks written so far.
Download ==
  /\ m.phase = "DOWNLOAD"
  /\ m.received = req.received /\ m.received < Size
  /\ \/ ReadPending
     \/ \E n \in 1..Chunk :
          /\ \/ ReadProgress(n) /\ m.received + n < Size
             \/ ReadComplete(n) /\ m.received + n = Size
          /\ m' = [m EXCEPT !.phase = "WRITE", !.chunk = n]
          /\ UNCHANGED timeUp

Fetch ==
  /\ \/ Open_Manifest \/ Read_Manifest \/ Open_Signature \/ Read_Signature
     \/ Open_Firmware \/ Download
  /\ UNCHANGED <<desc, display, handle, hash, storage>>

(***************************************************************************)
(* Verifying and installing.                                               *)
(***************************************************************************)
\* Mutant: an authentic manifest is enough, whichever release it describes.
AnyManifest(r) == priv.pending

\* otaManifestMatchesOffer
ManifestMatchesOffer(r) == priv.pending /\ r = priv.id

\* The server may serve any release that was ever signed.
Authenticate ==
  /\ m.phase = "AUTHENTICATE"
  /\ \E r \in Releases :
       /\ ManifestMatchesOffer(r)
       /\ desc' = r /\ display' = r
  /\ m' = [m EXCEPT !.authenticated = TRUE, !.phase = "SELECT"]
  /\ UNCHANGED <<req, timeUp, handle, hash, storage>>

Select ==
  /\ m.phase = "SELECT"
  /\ m' = [m EXCEPT !.phase = "OPEN_FIRMWARE"]
  /\ UNCHANGED <<desc, display, req, timeUp, handle, hash, storage>>

\* esp_ota_begin erases the slot.
Begin ==
  /\ m.phase = "BEGIN"
  /\ req.phase # "IDLE"
  /\ handle' = TRUE /\ staging' = "open"
  /\ flash' = [id |-> desc, blocks |-> 0, good |-> TRUE]
  /\ m' = [m EXCEPT !.handleValid = TRUE, !.phase = "DOWNLOAD"]
  /\ UNCHANGED <<desc, display, req, timeUp, hash>>

\* What lands in flash may differ from what was signed.
Write ==
  /\ m.phase = "WRITE"
  /\ m.chunk # 0 /\ m.received + m.chunk <= Size /\ handle
  /\ \E good \in {flash.good, FALSE} :
       flash' = [flash EXCEPT !.blocks = @ + m.chunk, !.good = good]
  /\ m' = [m EXCEPT !.received = @ + m.chunk, !.chunk = 0,
                    !.phase = IF m.received + m.chunk = Size
                              THEN "FINISH_DOWNLOAD" ELSE "DOWNLOAD"]
  /\ UNCHANGED <<desc, display, req, timeUp, handle, hash, staging>>

FinishDownload ==
  /\ m.phase = "FINISH_DOWNLOAD"
  /\ req.phase = "EOF" /\ req.received = Size
  /\ req' = IdleRequest
  /\ m' = [m EXCEPT !.phase = "END"]
  /\ UNCHANGED <<desc, display, timeUp, handle, hash, storage>>

\* esp_ota_end closes the session and validates the image; the readback hash
\* is started.
EndSession ==
  /\ m.phase = "END"
  /\ handle
  /\ handle' = FALSE /\ staging' = "closed" /\ hash' = 0
  /\ m' = [m EXCEPT !.endAttempted = TRUE, !.handleValid = FALSE,
                    !.phase = "READBACK"]
  /\ UNCHANGED <<desc, display, req, timeUp, flash>>

\* Mutant: the last chunk is read as if it were full.
FullChunk(a, b) == a

Least(a, b) == IF a < b THEN a ELSE b

Readback ==
  /\ m.phase = "READBACK" /\ hash # None
  /\ LET n == Least(Chunk, Size - m.readback)
     IN /\ n # 0
        /\ hash' = hash + n
        /\ m' = [m EXCEPT !.readback = @ + n,
                          !.phase = IF m.readback + n = Size THEN "DIGEST" ELSE @]
  /\ UNCHANGED <<desc, display, req, timeUp, handle, storage>>

\* Mutant: the digest of what was read back is taken to be right.
DigestUnchecked == hash = Size

\* The digest of all that was read back is the signed one.
DigestMatches == hash = Size /\ flash.blocks = Size /\ flash.good

Digest ==
  /\ m.phase = "DIGEST" /\ DigestMatches
  /\ hash' = None
  /\ m' = [m EXCEPT !.phase = "FINAL_GATE"]
  /\ UNCHANGED <<desc, display, req, timeUp, handle, storage>>

\* currentFinalGate repeats the gate of the poll it runs in.
FinalGate ==
  /\ m.phase = "FINAL_GATE" /\ m.authenticated
  /\ m' = [m EXCEPT !.phase = "SET_BOOT"]
  /\ UNCHANGED <<desc, display, req, timeUp, handle, hash, storage>>

Verify == \/ Authenticate \/ Select \/ Begin \/ Write \/ FinishDownload
          \/ EndSession \/ Readback \/ Digest \/ FinalGate

\* What can go wrong with the server, the flash or the image in each phase.
\* The others fail only when their own conditions are not met.
Fallible == Fetching \cup {"AUTHENTICATE", "SELECT", "BEGIN", "WRITE", "END",
                           "READBACK", "DIGEST", "SET_BOOT"}

\* esp_ota_set_boot_partition succeeded: the machine is latched, every token
\* and offer is dropped, and the first restart is due now.
SetBoot ==
  /\ m.phase = "SET_BOOT"
  /\ bootTo' = "new"
  /\ m' = [m EXCEPT !.committed = TRUE, !.attempts = 0, !.phase = "RESTART"]
  /\ offer' = NoOffer /\ source' = FALSE /\ priv' = NoOffer /\ consumed' = FALSE
  /\ desc' = None /\ req' = IdleRequest
  /\ timeUp' = TRUE
  /\ UNCHANGED <<active, automatic, display, handle, hash, storage, running,
                 history>>

Working(in) ==
  LET o == Coordinating(in)
  IN /\ m.phase \notin {"CONFIRM", "WAIT_READY"}
     /\ \/ GateConflict(o, in) /\ Cancel(in)
        \/ ~GateConflict(o, in) /\ ~GateReady(o, in) /\ Fail(in)
        \/ GateReady(o, in) /\ m.phase \in Fallible /\ Fail(in)
        \/ GateReady(o, in) /\ SetBoot
        \/ /\ GateReady(o, in)
           /\ Fetch \/ Verify
           /\ offer' = Live(in)
           /\ UNCHANGED <<active, automatic, source, priv, consumed, device, history>>

(***************************************************************************)
(* Restarting.                                                             *)
(***************************************************************************)
\* RAM starts afresh with the image otadata selects.
Reboot ==
  /\ running' = bootTo
  /\ offer' = NoOffer /\ prompt' = "none"
  /\ m' = InitialMachine /\ confirmReq' = FALSE /\ cancelReq' = FALSE
  /\ active' = FALSE /\ automatic' = FALSE /\ source' = FALSE
  /\ priv' = NoOffer /\ consumed' = FALSE /\ display' = None
  /\ desc' = None /\ req' = IdleRequest /\ handle' = FALSE /\ hash' = None
  /\ timeUp' = FALSE /\ staging' = "closed" /\ cancelled' = FALSE
  /\ granted' = IF bootTo = "new" THEN granted ELSE None
  /\ UNCHANGED <<flash, bootTo>>

\* Mutant: the counter of attempts is never increased.
RestartUncounted ==
  /\ m.attempts < ApiAttempts
  /\ timeUp' = FALSE
  /\ UNCHANGED m

\* esp_restart came back: it is tried again half a second later.
RestartReturns ==
  /\ m.attempts < ApiAttempts
  /\ m' = [m EXCEPT !.attempts = @ + 1]
  /\ timeUp' = FALSE

\* esp_restart, and after ApiAttempts of them abort().
Restart(in) ==
  /\ m.committed
  /\ \/ timeUp /\ Reboot
     \/ /\ \/ timeUp /\ RestartReturns
           \/ ~timeUp /\ UNCHANGED <<m, timeUp>>
        /\ offer' = Live(in)
        /\ confirmReq' = FALSE /\ cancelReq' = FALSE
        /\ UNCHANGED <<prompt, txn, work, storage, device, history>>

Crash == Reboot

(***************************************************************************)
(* otaUpdatePoll                                                           *)
(***************************************************************************)
Run(in) ==
  /\ active /\ ~Terminal /\ ~m.committed
  /\ confirmReq' = FALSE /\ cancelReq' = FALSE
  /\ \/ Cancels(in) /\ CancellationAllowed /\ Cancel(in)
     \/ /\ ~(Cancels(in) /\ CancellationAllowed)
        /\ Confirm(in) \/ WaitReady(in) \/ Working(in)
  /\ UNCHANGED prompt

Poll(in) == \/ NothingToArm(in) \/ ArmAsking(in) \/ ArmDirect(in) \/ Linger(in)
            \/ Run(in) \/ (active /\ Restart(in))

\* A deadline runs in the phases that wait for the network or for time.
TimeUp ==
  /\ active /\ ~timeUp
  /\ \/ m.phase \in Fetching \cup {"WAIT_READY", "WRITE"}
     \/ Terminal \/ m.committed
  /\ timeUp' = TRUE
  /\ UNCHANGED <<shared, m, flags, txn, work, storage, device, history>>

Receive ==
  HostCancel \/ \E r \in Releases : ReceiveSigned(r) \/ ReceiveLegacy(r)

Hands == OpenReceiveWindow \/ PressA \/ PressB \/ PromptArrives \/ PromptLeaves

Next ==
  \/ /\ running = "old"
     /\ \/ Receive \/ Hands \/ Expire \/ TimeUp \/ Crash
        \/ \E in \in Inputs : Poll(in)
  \/ running = "new" /\ UNCHANGED vars   \* from here on it is BootHealth's device

Spec == Init /\ [][Next]_vars

\* A poll that cannot leave things as they are, whatever main.cpp hands to it.
Moving ==
  /\ active
  /\ \/ confirmReq \/ cancelReq
     \/ timeUp /\ (Terminal \/ m.committed \/ m.phase = "WAIT_READY")
     \/ m.phase \in Fetching /\ (timeUp \/ req.phase = "IDLE")
     \/ m.phase \in Phases \ (Fetching \cup {"CONFIRM", "WAIT_READY", "RESTART",
                                             "CANCELLED", "ERROR"})

\* loop() goes round and time passes; no network, no button and no host is
\* relied upon.
Fairness == WF_vars(TimeUp) /\ WF_vars(\E in \in Inputs : Moving /\ Poll(in))

FairSpec == Spec /\ Fairness

(***************************************************************************)
(* Properties.                                                             *)
(***************************************************************************)

\* Every variable stays in its range.
TypeOK ==
  /\ offer \in Offer /\ priv \in Offer
  /\ display \in Releases \cup {None}
  /\ desc \in Releases \cup {None}
  /\ prompt \in {"none", "open", "answered"}
  /\ m \in Machine
  /\ active \in BOOLEAN /\ automatic \in BOOLEAN /\ source \in BOOLEAN
  /\ consumed \in BOOLEAN /\ confirmReq \in BOOLEAN /\ cancelReq \in BOOLEAN
  /\ req \in Request
  /\ handle \in BOOLEAN /\ hash \in Nat \cup {None} /\ timeUp \in BOOLEAN
  /\ staging \in {"open", "closed"} /\ flash \in Slot
  /\ bootTo \in {"old", "new"} /\ running \in {"old", "new"}
  /\ granted \in Releases \cup {None} /\ cancelled \in BOOLEAN

\* The boot slot is switched only to an image that is complete, that is what
\* the manifest signed, block by block as read back from flash, and that was
\* let in: never after a short download, a bad write or somebody else's
\* manifest.
BootedImageIsWhole ==
  bootTo = "new" => flash.blocks = Size /\ flash.good /\ flash.id = granted

\* A cancel the device said was applied holds: that update never commits,
\* whatever else the same poll was asked to do.
AppliedCancelHolds == cancelled => ~m.committed

\* An esp_ota session is open only while a running update can still close it:
\* however an update ends, it leaves none behind.
NoSessionLeft ==
  staging = "open" =>
    /\ active /\ ~Terminal /\ ~m.committed
    /\ handle /\ m.handleValid /\ ~m.endAttempted

\* Nothing is written to flash and no boot slot is switched while an approval
\* prompt waits for its answer.
PromptStopsInstall ==
  [][prompt = "open" => /\ flash' = flash /\ bootTo' = bootTo
                        /\ staging' = "open" => staging = "open"]_vars

Chosen == IF bootTo = "new" THEN flash.id ELSE None

Install == INSTANCE OtaInstall
             WITH allowed <- granted, chosen <- Chosen

\* The device, with all its interruptions, installs as OtaInstall says.
ImplementsInstall == Install!Spec

\* An update that was let in ends: the device restarts, or the screen goes
\* back to its owner, even when the server never answers.
UpdateEnds == consumed ~> ~active

\* Once the boot slot is switched the new image gets to run, even when the
\* restart call comes back.
CommittedRestarts == bootTo = "new" ~> running = "new"

\* docs/plans/2026-07-12-mac-push-ota-design.md: "The device displays the
\* version and size. Only an A-button confirmation begins network or flash
\* work".
ConfirmedIsDisplayed == consumed /\ ~automatic => priv.id = display
=============================================================================
