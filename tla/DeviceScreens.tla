--------------------------- MODULE DeviceScreens ---------------------------
\* What the device shows (src/firmware/src/main.cpp, loop): one pass reads the
\* host's lines, then the buttons, then draws.  A portrait screen is painted on
\* a sprite, layer over layer, and pushed whole; a landscape face or approval
\* is drawn on the display itself.  Nothing is cleared that the code does not
\* clear: a layer stays until a fill, or a wipe that holds all of it.
\* Left out: the buttons' menus row by row, the meters, which every pass paints
\* again, and the Wi-Fi portal, which keeps the clock faces away as a transfer
\* of a character does.
EXTENDS Naturals, FiniteSets, Functions

CONSTANTS
  Landscapes,                   \* the sideways orientations: 1 and 3
  Kinds,                        \* kinds of installed characters: gif and text
  Moods,                        \* states of the pet
  MaxLapses,                    \* a bound: lapses whose traces are there at once
  None

VARIABLES
  step,                         \* of the pass: data, keys, draw
  \* what the host and the user asked for
  prompt, inPrompt, previousPrompt,
  update,                       \* none, pending (and automatic), auto, manual
  xfer,
  buddyMode, gifAvailable, loaded,
  \* what is open
  open, mode, overlay,
  spentA,                       \* btnALong or swallowBtnA
  rest,                         \* lit, napping (face down), off
  previous,                     \* the surface of the last pass
  \* what is painted; of the four lapses of the code that leave something on
  \* a surface, those whose traces may still be there (view.known)
  view,
  fresh                         \* what this pass has drawn: sprite, lcd, none

asked == <<prompt, inPrompt, previousPrompt, update, xfer,
           buddyMode, gifAvailable, loaded>>
opened == <<open, mode, overlay, spentA, rest, previous>>
vars == <<step, asked, opened, view, fresh>>

\* The panels, the one that is drawn first; Wi-Fi's menu and status are one.
Order == <<"receive", "wifi", "reset", "settings", "menu">>
Panels == Range(Order)
Modes == <<"normal", "pet", "info">>
Active == update \in {"auto", "manual"}

\* The panel that is drawn, and that the buttons are for.
Top ==
  LET there == {i \in DOMAIN Order : Order[i] \in open}
  IN IF there = {} THEN None
     ELSE Order[CHOOSE i \in there : \A j \in there : i <= j]

\* ---- The sprite

\* The rows that a layer covers.
Rows(l) ==
  CASE l = "ascii2" -> <<0, 150>> [] l = "ascii1" -> <<0, 75>>
    [] l = "gif2" -> <<0, 140>>   [] l = "gif1" -> <<0, 70>>
    [] l = "text2" -> <<46, 74>>  [] l = "text1" -> <<21, 49>>
    [] l = "splash" -> <<100, 140>> [] l = "message" -> <<90, 124>>
    [] l \in {"pet", "info"} -> <<70, 240>>
    [] l = "approval" -> <<156, 240>>
    [] l = "overlay" -> <<94, 146>>
    [] l = "face" -> <<0, 240>>
    [] OTHER -> <<20, 220>>
Wipe(v, top, bottom) ==
  [v EXCEPT !.painted =
     {l \in @ : Rows(l)[1] < top \/ Rows(l)[2] > bottom}]
Fill(v) == [v EXCEPT !.painted = {}, !.known = @ \ {"switched", "unseen"}]
Paint(v, layers) == [v EXCEPT !.painted = @ \cup layers]
Pet(kind, small) ==
  CASE kind = "ascii" -> IF small THEN "ascii1" ELSE "ascii2"
    [] kind = "gif" -> IF small THEN "gif1" ELSE "gif2"
    [] kind = "text" -> IF small THEN "text1" ELSE "text2"

\* characterSetState: another state clears the sprite and draws from its start.
SetState(v, mood) ==
  IF loaded = "none" \/ v.mood = mood THEN v
  ELSE [Fill(v) EXCEPT !.mood = mood, !.due = TRUE]
\* characterInvalidate: the state it has, if any, is opened once more.
CharacterInvalidate(v) ==
  IF loaded = "none" THEN v
  ELSE IF v.mood # None THEN [Fill(v) EXCEPT !.due = TRUE]
  ELSE IF loaded = "text" THEN Fill(v) ELSE v
CharacterSetPeek(v, peek) ==
  IF v.peek = peek THEN v ELSE CharacterInvalidate([v EXCEPT !.peek = peek])
\* characterTick: an animation at its end is not drawn again.
CharacterTick(v) ==
  IF ~v.due THEN v
  ELSE LET band == Rows(Pet("text", v.peek))
           cleared == IF loaded = "text" THEN Wipe(v, band[1], band[2]) ELSE v
       IN [Paint(cleared, {Pet(loaded, v.peek)}) EXCEPT !.due = FALSE]

BuddyInvalidate(v) == [v EXCEPT !.invalid = TRUE]
BuddySetPeek(v, peek) ==
  IF v.small = peek THEN v ELSE [v EXCEPT !.small = peek, !.invalid = TRUE]
BuddyTick(v, ticked) ==
  IF ~v.invalid /\ ~ticked THEN v
  ELSE LET cleared == Wipe(v, 0, IF v.small THEN 82 ELSE 164)
       IN [Paint(cleared, {Pet("ascii", v.small)}) EXCEPT !.invalid = FALSE]

\* The pet's part of what several handlers do together.
PetInvalidate(v) ==
  IF buddyMode THEN BuddyInvalidate(CharacterInvalidate(v))
  ELSE CharacterInvalidate(v)
InvalidatePortraitSurface(v) ==
  BuddyInvalidate(CharacterInvalidate(Fill(v)))
ApplyDisplayMode(v, m) ==
  LET peeked == BuddySetPeek(CharacterSetPeek(v, m # "normal"), m # "normal")
  IN [InvalidatePortraitSurface(peeked) EXCEPT !.known = @ \ {"dismissed"}]

\* What clockSharedFaceSchedule keeps of a face; after clockSharedFaceCacheReset
\* the face is drawn whole the next time.
KeepCache(v, which, cache) == [v EXCEPT ![which] = cache]
ResetCache(v, which) == KeepCache(v, which, None)
ResetCaches(v) == ResetCache(ResetCache(v, "clock"), "face")

\* The display holds what the sprite had when it was pushed.
OnSprite == <<"sprite", 0>>

Init ==
  /\ step = "data"
  /\ prompt = "none" /\ inPrompt = FALSE /\ previousPrompt = FALSE
  /\ update = "none" /\ xfer = FALSE
  /\ loaded \in {"none"} \cup Kinds
  /\ gifAvailable = (loaded # "none")
  /\ buddyMode \in BOOLEAN /\ (~buddyMode => gifAvailable)
  /\ open = {} /\ mode = "normal" /\ overlay = FALSE
  /\ rest = "lit" /\ spentA = FALSE
  /\ previous = [kind |-> "none", facing |-> None]
  /\ view = [painted |-> {"splash"}, mood |-> None, due |-> FALSE,
             peek |-> FALSE, small |-> FALSE, invalid |-> TRUE,
             clock |-> None, face |-> None, approval |-> None,
             lcd |-> {OnSprite}, known |-> {}]
  /\ fresh = "none"

\* ---- The host's lines, and what follows from them

\* How the update goes on: an automatic one starts when nothing is in its way.
NextUpdate(u, asks, transfer) ==
  IF u = "pending" /\ ~asks /\ ~transfer THEN "auto" ELSE u

\* The rest of the data step, for a state the event left.
Settle(p, u, v, o, m, ov, expired, transfer, rested) ==
  LET asks == p = "asked"
      direct == u = "pending"
      \* an automatic offer closes every panel, and clears none of them
      o1 == IF direct THEN {} ELSE o
      m1 == IF direct THEN "normal" ELSE m
      v1 == IF direct /\ (o # {} \/ m # "normal")
            THEN [v EXCEPT !.known = @ \cup {"dismissed"}] ELSE v
      u1 == NextUpdate(u, asks, transfer)
      ov1 == u1 = "auto" /\ ~asks
      raise == ~ov1 /\ u1 = "manual" /\ "receive" \notin o1
      o2 == IF ov1 THEN o1 \ {"receive"}
            ELSE IF raise THEN {"receive"} ELSE o1
      m2 == IF raise THEN "normal" ELSE m1
      v2 == IF raise THEN ApplyDisplayMode(v1, "normal") ELSE v1
      v3 == IF ov /\ ~ov1
            THEN ResetCaches(InvalidatePortraitSurface(v2)) ELSE v2
      going == u1 \in {"auto", "manual"}
      over == "receive" \in o2 /\ ~going /\ expired
  IN /\ prompt' = p /\ inPrompt' = asks
     /\ update' = u1 /\ xfer' = transfer
     /\ overlay' = ov1 /\ mode' = m2
     /\ open' = IF over THEN o2 \ {"receive"} ELSE o2
     /\ view' = IF over THEN InvalidatePortraitSurface(v3) ELSE v3
     /\ rest' = IF going THEN "lit" ELSE rested
     /\ step' = "keys" /\ fresh' = "none"
     /\ UNCHANGED <<previousPrompt, spentA, previous>>
SameCharacter == UNCHANGED <<buddyMode, gifAvailable, loaded>>

\* Nothing, or a prompt that is gone, an update that ends, a window that closes.
Heartbeat ==
  /\ step = "data"
  /\ \E p \in {prompt, "none"}, u \in {update, "none"},
        expired \in IF "receive" \in open THEN BOOLEAN ELSE {FALSE} :
       Settle(p, u, view, open, mode, overlay, expired, xfer, rest)
  /\ SameCharacter

\* A new prompt comes to the front, whatever is open; the offer is dropped,
\* and the update is asked to stop.
PromptArrives ==
  /\ step = "data"
  /\ \E u \in {update, "none"} \ {"pending"} :
       Settle("asked", u,
              PetInvalidate(CharacterInvalidate(ApplyDisplayMode(view, "normal"))),
              open \ {"menu", "settings", "reset", "receive"}, "normal",
              FALSE, FALSE, xfer, "lit")
  /\ SameCharacter

\* A signed offer, taken at once or to be confirmed.
OfferArrives(kind) ==
  /\ step = "data" /\ update = "none"
  /\ kind = "manual" => prompt # "asked" /\ ~xfer
  /\ Settle(prompt, kind, view, open, mode, overlay, FALSE, xfer, rest)
  /\ SameCharacter

\* xfer.h: the host chooses the pet, or sends another character.
Species(ascii) ==
  /\ step = "data"
  /\ buddyMode' = ~(gifAvailable /\ ~ascii)
  /\ Settle(prompt, update,
            IF buddyMode' # buddyMode
            THEN [view EXCEPT !.known = @ \cup {"switched"}] ELSE view,
            open, mode, overlay, FALSE, xfer, rest)
  /\ UNCHANGED <<gifAvailable, loaded>>
CharBegin ==
  /\ step = "data" /\ ~Active
  /\ loaded' = "none"
  /\ Settle(prompt, update, [view EXCEPT !.mood = None, !.due = FALSE],
            open, mode, overlay, FALSE, TRUE, rest)
  /\ UNCHANGED <<buddyMode, gifAvailable>>
CharEnd(kind) ==
  /\ step = "data" /\ xfer /\ ~Active
  /\ loaded' = kind
  /\ buddyMode' = (buddyMode /\ kind = "none")
  /\ gifAvailable' = (gifAvailable \/ kind # "none")
  /\ Settle(prompt, update, view, open, mode, overlay, FALSE, FALSE, rest)

\* ---- The buttons

Show(panels, v) == open' = panels /\ view' = v
Cleared == InvalidatePortraitSurface(view)

\* What A held for a while, and B, do to the panel on top.
Back ==
  \/ /\ "receive" \in open
     /\ IF Active THEN Show(open, view)
        ELSE Show((open \ {"receive"}) \cup {"settings"}, Cleared)
     /\ update' = IF update = "pending" THEN "none" ELSE update
  \/ /\ "receive" \notin open /\ "wifi" \in open
     /\ Show(open, Cleared)
     /\ UNCHANGED update

LongA ==
  \/ overlay /\ Show(open, view) /\ UNCHANGED update
  \/ ~overlay /\ Back
  \/ /\ ~overlay /\ "receive" \notin open
     /\ IF "wifi" \in open
        THEN Show((open \ {"wifi"}) \cup {"settings"}, Cleared)
        ELSE IF "reset" \in open THEN Show(open \ {"reset"}, Cleared)
        ELSE IF "settings" \in open THEN Show(open \ {"settings"}, Cleared)
        ELSE IF "menu" \in open THEN Show(open \ {"menu"}, Cleared)
        ELSE Show(open \cup {"menu"}, view)
     /\ UNCHANGED update

\* A prompt that is answered is no longer shown, whatever the host still says
\* of it.  An answer in the pass of the prompt's arrival: the clock, whose sprite
\* the prompt has cleared, goes on as if nothing had been there.
Answer ==
  /\ prompt' = "none" /\ inPrompt' = FALSE
  /\ view' = IF previousPrompt THEN view
             ELSE [view EXCEPT !.known = @ \cup {"unseen"}]

NextMode(m) ==
  Modes[((CHOOSE i \in 1..3 : Modes[i] = m) % 3) + 1]
ReleaseA ==
  IF inPrompt
  THEN Answer /\ UNCHANGED mode
  ELSE /\ IF overlay \/ open # {} THEN UNCHANGED <<mode, view>>
          ELSE /\ mode' = NextMode(mode)
               /\ view' = ApplyDisplayMode(view, NextMode(mode))
       /\ UNCHANGED <<prompt, inPrompt>>

\* nextPet, from the settings.
NextPet(last) ==
  /\ buddyMode' = ~(buddyMode /\ last /\ gifAvailable)
  /\ view' = LET v == CharacterInvalidate(view)
             IN IF buddyMode' THEN BuddyInvalidate(v) ELSE v
  /\ UNCHANGED <<open, mode>>

SamePet == UNCHANGED buddyMode
ApplyWifiMenuAction ==
  /\ \E panel \in {"wifi", "settings"} :
       Show((open \ {"wifi"}) \cup {panel}, Cleared)
  /\ UNCHANGED mode /\ SamePet
ApplyReset ==
  /\ Show(open \ {"reset"}, Cleared) \/ Show(open, view)
  /\ UNCHANGED mode /\ SamePet
ApplySetting ==
  \/ /\ Show(open, view) \/ Show(open \cup {"reset"}, Cleared)
          \/ Show(open \ {"settings"}, Cleared)
          \/ Show((open \ {"settings"}) \cup {"wifi"}, Cleared)
     /\ UNCHANGED mode /\ SamePet
  \/ /\ Show((open \ {"settings"}) \cup {"receive"}, Cleared)
     /\ UNCHANGED mode /\ SamePet
  \/ \E last \in BOOLEAN : NextPet(last)
MenuConfirm ==
  \/ /\ Show((open \ {"menu"}) \cup {"settings"}, Cleared)
          \/ Show(open \ {"menu"}, Cleared) \/ Show(open, view)
     /\ UNCHANGED mode /\ SamePet
  \/ /\ mode' = "info"
     /\ Show(open \ {"menu"},
             CharacterInvalidate(ApplyDisplayMode(view, "info")))
     /\ SamePet
Confirm ==
  /\ \/ Top = "wifi" /\ ApplyWifiMenuAction
     \/ Top = "reset" /\ ApplyReset
     \/ Top = "settings" /\ ApplySetting
     \/ Top = "menu" /\ MenuConfirm
     \/ /\ open = {}
        /\ view' = IF mode = "pet" THEN ApplyDisplayMode(view, mode) ELSE view
        /\ UNCHANGED <<open, mode>> /\ SamePet
PressB ==
  IF inPrompt
  THEN Answer /\ UNCHANGED <<open, mode, update>> /\ SamePet
  ELSE /\ UNCHANGED <<prompt, inPrompt>>
       /\ \/ /\ overlay
             /\ UNCHANGED <<open, mode, view, update>> /\ SamePet
          \/ ~overlay /\ Back /\ UNCHANGED mode /\ SamePet
          \/ ~overlay /\ Confirm /\ UNCHANGED update

KeysStep ==
  /\ step = "keys" /\ step' = "draw"
  /\ UNCHANGED <<previousPrompt, xfer, gifAvailable, loaded, overlay,
                 previous, fresh>>
NoChoice == UNCHANGED <<update, open>> /\ SamePet

NoKey ==
  /\ KeysStep /\ NoChoice
  /\ UNCHANGED <<prompt, inPrompt, mode, view, rest, spentA>>
\* A press that wakes the screen does nothing else, up to its release; nor
\* does the release after A was held.  A press alone does nothing.
Wake ==
  /\ KeysStep /\ NoChoice
  /\ rest = "off" /\ rest' = "lit"
  /\ spentA' \in {spentA, TRUE}
  /\ UNCHANGED <<prompt, inPrompt, mode, view>>
HoldA ==
  /\ KeysStep
  /\ rest # "off"
  /\ ~spentA /\ spentA' = TRUE
  /\ LongA
  /\ UNCHANGED <<prompt, inPrompt, mode, rest>> /\ SamePet
LiftA ==
  /\ KeysStep /\ NoChoice
  /\ spentA' = FALSE
  /\ IF spentA THEN UNCHANGED <<prompt, inPrompt, mode, view>> ELSE ReleaseA
  /\ UNCHANGED rest
PushB ==
  /\ KeysStep
  /\ rest # "off"
  /\ PressB
  /\ UNCHANGED <<rest, spentA>>
PowerKey ==
  /\ KeysStep /\ NoChoice
  /\ rest' = IF rest = "off" \/ Active THEN "lit" ELSE "off"
  /\ UNCHANGED <<prompt, inPrompt, mode, view, spentA>>

\* ---- The drawing

SharedClockFaceSelected ==
  /\ mode = "normal" /\ open = {} /\ ~inPrompt /\ ~xfer
  /\ Active => overlay
\* What the host's sessions and the clock make of this pass: quiet; standby, on
\* USB with a clock; or busy.  Where there is no face it makes no difference, but
\* that the screen may go off only without USB.
Activities ==
  IF SharedClockFaceSelected THEN {"quiet", "standby", "busy"} ELSE {"quiet"}
Kind(activity) ==
  IF SharedClockFaceSelected /\ activity = "standby" THEN "clock"
  ELSE IF SharedClockFaceSelected /\ activity = "busy" THEN "face"
  ELSE IF mode = "normal" /\ open = {} /\ inPrompt THEN "prompt" ELSE "none"

\* A surface that was not there in the last pass may have to wait for its pose;
\* nothing is drawn meanwhile.
Facings(kind) ==
  IF kind = "none" THEN {None}
  ELSE {0} \cup Landscapes
         \cup (IF previous.kind = kind /\ previous.facing # None THEN {}
               ELSE {None})

\* What the pass does to the portrait surface before it draws.
Changed(v, surface) ==
  LET sideways == surface.facing \in Landscapes
      wasSideways == previous.facing \in Landscapes
      clocking == surface.kind = "clock"
      wasClocking == previous.kind = "clock"
      running == surface.kind \in {"face", "prompt"} /\ sideways
      wasRunning == previous.kind \in {"face", "prompt"} /\ wasSideways
      facing == surface.kind = "face"
      v1 == IF clocking = wasClocking
                 /\ (clocking /\ sideways) = (wasClocking /\ wasSideways)
            THEN v
            ELSE LET r == ResetCache(v, "clock")
                 IN PetInvalidate(IF clocking /\ ~sideways
                                  THEN CharacterSetPeek(r, TRUE)
                                  ELSE ApplyDisplayMode(r, mode))
      v2 == IF facing = (previous.kind = "face") THEN v1
            ELSE LET r == PetInvalidate(ResetCache(v1, "face"))
                 IN IF facing THEN r ELSE ApplyDisplayMode(r, mode)
      v3 == IF running = wasRunning THEN v2
            ELSE LET r == ResetCache(v2, "face")
                 IN PetInvalidate(
                      IF running
                      THEN BuddySetPeek(CharacterSetPeek(r, TRUE), TRUE)
                      ELSE [ApplyDisplayMode(r, mode) EXCEPT
                              !.approval = None])
  IN <<v3, running>>

\* A mutant: the first frame after a prompt is drawn over the prompt.
AfterPromptOver(v, running) ==
  IF previousPrompt /\ ~inPrompt THEN [v EXCEPT !.approval = None] ELSE v

\* The first frame after a prompt clears what the prompt was drawn on.
AfterPrompt(v, running) ==
  IF ~(previousPrompt /\ ~inPrompt) THEN v
  ELSE LET r == [v EXCEPT !.approval = None]
       IN IF running THEN r ELSE PetInvalidate(Fill(r))

\* The pet of the sprite, or a message where there is none.
PetStep(v, mood, ticked) ==
  IF buddyMode THEN BuddyTick(v, ticked)
  ELSE IF loaded # "none" THEN CharacterTick(SetState(v, mood))
  ELSE Paint(Fill(v), {"message"})

\* clockSharedFaceSchedule: drawn whole for its first frame, when it turns,
\* with another state of the pet, and after a prompt.
Whole(cache, facing, mood, exited) ==
  cache = None \/ cache # [facing |-> facing, mood |-> mood] \/ exited

\* drawSharedClockFace, on the sprite or sideways on the display.
FaceOnSprite(v, which, mood, exited) ==
  LET r == IF buddyMode THEN v
           ELSE SetState(CharacterSetPeek(v, TRUE), mood)
      cached == [KeepCache(r, which, [facing |-> 0, mood |-> mood]) EXCEPT
                   !.due = FALSE]
  IN IF Whole(v[which], 0, mood, exited)
     THEN Paint(Fill(cached), {"face"})
     ELSE [cached EXCEPT !.known = v.known]
FaceOnDisplay(v, which, facing, mood, exited) ==
  LET whole == Whole(v[which], facing, mood, exited)
  IN [KeepCache(v, which, [facing |-> facing, mood |-> mood]) EXCEPT
        !.lcd = IF whole THEN {<<"face", facing>>} ELSE @,
        !.known = IF whole THEN @ \ {"darkened", "unseen"} ELSE @]
\* drawRuntimeLandscape, for a prompt.
ApprovalOnDisplay(v, facing, mood) ==
  LET whole == v.approval # facing
      r == IF buddyMode THEN v ELSE SetState(v, mood)
  IN [r EXCEPT !.approval = facing,
        !.lcd = IF whole THEN {<<"prompt", facing>>}
                ELSE @ \cup {<<"prompt", facing>>},
        !.known = IF whole THEN @ \ {"darkened"} ELSE @]
Overlays(facing) == IF overlay THEN {<<"overlay", facing>>} ELSE {}
OverlayOnDisplay(v, facing) == [v EXCEPT !.lcd = @ \cup Overlays(facing)]

Push(v) == [v EXCEPT !.lcd = {OnSprite}]
Overlay == IF overlay THEN {"overlay"} ELSE {}
Page(v) ==
  LET paged == IF mode = "normal" THEN v ELSE Paint(Wipe(v, 70, 240), {mode})
      panel == IF Top = None THEN {} ELSE {Top}
  IN Paint(paged, panel \cup Overlay)

Drawn(v, surface, running, mood) ==
  LET f == surface.facing
      awaiting == surface.kind # "none" /\ f = None
      exited == previousPrompt /\ ~inPrompt
      lit == rest = "lit"
  IN IF awaiting THEN [on |-> "none", view |-> v]
     ELSE IF running /\ lit
     THEN [on |-> "lcd", view |-> OverlayOnDisplay(
             IF inPrompt THEN ApprovalOnDisplay(v, f, mood)
             ELSE FaceOnDisplay(v, "face", f, mood, exited), f)]
     ELSE IF inPrompt
     THEN [on |-> IF rest = "off" THEN "none" ELSE "sprite",
           view |-> LET r == Push(Paint(v, {"approval"}))
                    IN IF running
                       THEN [r EXCEPT !.known = @ \cup {"darkened"}] ELSE r]
     ELSE IF surface.kind = "clock" /\ f # 0
     THEN [on |-> IF rest = "off" THEN "none" ELSE "lcd",
           view |-> OverlayOnDisplay(
             FaceOnDisplay(v, "clock", f, mood, FALSE), f)]
     ELSE IF ~lit THEN [on |-> "none", view |-> v]
     ELSE [on |-> "sprite",
           view |-> Push(
             IF surface.kind = "clock"
             THEN Paint(FaceOnSprite(v, "clock", mood, FALSE), Overlay)
             ELSE IF surface.kind = "face"
             THEN Paint(FaceOnSprite(v, "face", mood, exited), Overlay)
             ELSE Page(v))]

Draw(kind, facing, mood, ticked) ==
  LET surface == [kind |-> kind, facing |-> facing]
      changed == Changed(view, surface)
      running == changed[2]
      ready == AfterPrompt(changed[1], running)
      pet == rest = "lit" /\ surface.kind = "none"
      drawn == Drawn(IF pet THEN PetStep(ready, mood, ticked) ELSE ready,
                     surface, running, mood)
  IN /\ view' = drawn.view
     /\ fresh' = drawn.on
     /\ previous' = surface

\* The end of the pass: turned face down or up again, and the screen's rest.
Rest(activity) ==
  \/ UNCHANGED rest
  \/ ~inPrompt /\ ~Active /\ rest' = "napping"
  \/ ~inPrompt /\ ~Active /\ rest = "napping" /\ rest' = "lit"
  \/ ~inPrompt /\ ~Active /\ activity # "standby" /\ rest' = "off"

DrawStep ==
  /\ step = "draw" /\ step' = "data"
  /\ previousPrompt' = inPrompt
  /\ UNCHANGED <<prompt, inPrompt, update, xfer, buddyMode, gifAvailable,
                 loaded, open, mode, overlay, spentA>>
  /\ \E activity \in Activities :
       LET kind == Kind(activity)
       IN /\ \E facing \in Facings(kind), mood \in Moods,
                ticked \in IF buddyMode /\ kind = "none" THEN BOOLEAN
                          ELSE {FALSE} :
               Draw(kind, facing, mood, ticked)
          /\ Rest(activity)

DataStep ==
  \/ Heartbeat
  \/ PromptArrives
  \/ \E kind \in {"pending", "manual"} : OfferArrives(kind)
  \/ \E ascii \in BOOLEAN : Species(ascii)
  \/ CharBegin
  \/ \E kind \in {"none"} \cup Kinds : CharEnd(kind)
Keys == NoKey \/ Wake \/ HoldA \/ LiftA \/ PushB \/ PowerKey

\* With at most MaxLapses of the four lapses' traces there at once; with four
\* that is no bound.
Next ==
  /\ DataStep \/ Keys \/ DrawStep
  /\ Cardinality(view'.known) <= MaxLapses

\* What a pass shows of the page and the panel that are open, and of the pet.  A
\* page covers the message that stands for a missing pet.
PetThere == buddyMode \/ loaded # "none"
Expected ==
  (IF PetThere
   THEN {Pet(IF buddyMode THEN "ascii" ELSE loaded, mode # "normal")} ELSE {})
    \cup ({mode} \ {"normal"}) \cup ({Top} \ {None}) \cup Overlay
Painted == IF PetThere THEN view.painted ELSE view.painted \ {"message"}
PetLayers == {"ascii2", "ascii1", "gif2", "gif1", "text2", "text1", "splash",
              "message"}

\* The three kinds of surface that a pass draws, each with nothing on it but
\* what is meant; of a page, but for the layers apart.
DisplayMeant ==
  view.lcd = {<<IF previous.kind = "prompt" THEN "prompt" ELSE "face",
                previous.facing>>} \cup Overlays(previous.facing)
FaceMeant == Painted = {"face"} \cup Overlay
PageMeant(apart) ==
  IF previousPrompt THEN (Painted \ Expected) \ apart = {"approval"}
  ELSE Painted \ apart = Expected \ apart
OnFace == previous.kind \in {"clock", "face"}

\* Of an earlier surface a pass leaves nothing but what one of four lapses
\* accounts for, and that only until it is wiped: a pet that the host switched,
\* a prompt that came and was answered within a pass, one that was drawn while
\* the display was dark, and a panel that an automatic update dismissed.
NoLeftovers ==
  /\ fresh = "lcd" =>
       \/ DisplayMeant
       \/ (IF previous.kind = "prompt" THEN "darkened" ELSE "unseen") \in view.known
  /\ fresh = "sprite" /\ OnFace =>
       FaceMeant \/ view.known \cap {"unseen", "switched"} # {}
  /\ fresh = "sprite" /\ ~OnFace =>
       \/ PageMeant(IF "switched" \in view.known THEN PetLayers ELSE {})
       \/ "dismissed" \in view.known

\* main.cpp: the clear on a mode switch guarantees no leftovers between modes: a
\* page that was left does not show in another mode.
NothingLeftBetweenModes ==
  fresh = "sprite" /\ ~OnFace => view.painted \cap {"pet", "info"} \subseteq {mode}

Spec == Init /\ [][Next]_vars
=============================================================================
