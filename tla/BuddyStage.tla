----------------------------- MODULE BuddyStage -----------------------------
\* The pet on the portrait sprite (src/firmware/src/buddy.cpp): the tick that
\* its animation runs on, the species, the scale, and the strip that is cleared
\* before each drawing.  Nothing else on the home screen clears the sprite, so
\* what a drawing leaves outside the strip stays there.
EXTENDS BuddyPoses, FiniteSets

CONSTANTS
  Ticks,                        \* the bound: the tick starts over after it
  Hold                          \* the bound: activity changes every Hold ticks

VARIABLES
  tickCount,
  currentSpecies,
  scale,                        \* 2 on the home screen, 1 beside a panel
  face,                         \* the shared clock face is on the sprite
  shown,                        \* the drawing that is on the sprite
  invalid,                      \* the next call draws, whatever was drawn last
  trail                         \* ink of earlier drawings that is still there

vars == <<tickCount, currentSpecies, scale, face, shown, invalid, trail>>

CanvasW == 135
CanvasH == 240
NoPet == [species |-> "none", persona |-> "none", tick |-> 0, scale |-> 0]

\* A part of the surface: left, top, right and bottom.
Clipped(x, y, w, h) ==
  <<IF x < 0 THEN 0 ELSE x, IF y < 0 THEN 0 ELSE y,
    IF x + w > CanvasW THEN CanvasW ELSE x + w,
    IF y + h > CanvasH THEN CanvasH ELSE y + h>>
Inside(part, region) ==
  /\ part[1] >= region[1] /\ part[2] >= region[2]
  /\ part[3] <= region[3] /\ part[4] <= region[4]

\* The rows of the body, and a character, at scale s.
PrintSprite(picture, s) ==
  Clipped(XCenter + (picture.dx - 6 * CharW) * s,
          YBase * s - (s - 1) * 14 + picture.dy * s,
          12 * CharW * s, 5 * CharH * s)
PrintAt(cell, s) ==
  Clipped(XCenter + (cell[1] - XCenter) * s, cell[2] * s,
          cell[3] * CharW * s, CharH * s)
Ink(drawing) ==
  IF drawing = NoPet THEN {}
  ELSE LET picture == Picture(drawing.species, drawing.persona, drawing.tick)
       IN {PrintSprite(picture, drawing.scale)}
            \cup {PrintAt(cell, drawing.scale) : cell \in picture.ink}

\* A mutant: the strip holds the body and nothing beside it.
ClearStripBody(s) == <<0, 0, CanvasW, (YBase + 5 * CharH) * s>>

\* What the pet is drawn over: a strip that holds the body and the characters
\* around it at either scale, and the pet's part of the clock face.
ClearStrip(s) == <<0, 0, CanvasW, (YBase + 5 * CharH + 12) * s>>
FacePet == <<0, 0, 135, 90>>

Init ==
  /\ tickCount = 0
  /\ currentSpecies \in 1..Len(Species)
  /\ scale = 2
  /\ face = FALSE
  /\ shown = NoPet
  /\ invalid = TRUE
  /\ trail = {}

NextTick == (tickCount + 1) % Ticks

\* A drawing over what was there, after "region" was cleared.
Render(region, s, persona, t) ==
  /\ trail' = {part \in trail \cup Ink(shown) : ~Inside(part, region)}
  /\ shown' = [species |-> Species[currentSpecies], persona |-> persona,
               tick |-> t, scale |-> s]
  /\ tickCount' = t
  /\ invalid' = FALSE

\* buddyTick: draws when the tick has come, or the species or the state is not
\* the one that was drawn last.
BuddyTick(ticked, persona) ==
  /\ ~face
  /\ \/ ticked
     \/ invalid
     \/ shown.persona # persona
     \/ shown.species # Species[currentSpecies]
  /\ Render(ClearStrip(scale), scale, persona,
            IF ticked THEN NextTick ELSE tickCount)
  /\ UNCHANGED <<currentSpecies, scale, face>>

\* buddyRenderTo for the clock face: always drawn, at its own scale.
RenderTo(ticked, persona) ==
  /\ face
  /\ Render(FacePet, 1, persona, IF ticked THEN NextTick ELSE tickCount)
  /\ UNCHANGED <<currentSpecies, scale, face>>

\* buddySetPeek, with the full clear that every change of the screen makes.
SetPeek(peek) ==
  /\ scale' = IF peek THEN 1 ELSE 2
  /\ scale' # scale \/ face
  /\ face' = FALSE
  /\ shown' = NoPet
  /\ trail' = {}
  /\ invalid' = TRUE
  /\ UNCHANGED <<tickCount, currentSpecies>>

\* The first frame of the clock face clears the sprite.
EnterFace ==
  /\ ~face /\ scale = 2
  /\ face' = TRUE
  /\ shown' = NoPet
  /\ trail' = {}
  /\ invalid' = TRUE
  /\ UNCHANGED <<tickCount, currentSpecies, scale>>

\* buddyNextSpecies, from the settings, leaves what is drawn alone: the next
\* call draws the new species over the old one.  A pass of the loop takes one
\* press and ends with a drawing.
NextSpecies ==
  /\ ~face /\ ~invalid
  /\ currentSpecies' = (currentSpecies % Len(Species)) + 1
  /\ invalid' = TRUE
  /\ UNCHANGED <<tickCount, scale, face, shown, trail>>

\* What main.cpp wants the pet to do: any of its states.
ActiveStates ==
  IF shown = NoPet \/ tickCount % Hold = 0 THEN Personas ELSE {shown.persona}

Next ==
  \/ \E ticked \in BOOLEAN, persona \in ActiveStates :
       BuddyTick(ticked, persona) \/ RenderTo(ticked, persona)
  \/ \E peek \in BOOLEAN : SetPeek(peek)
  \/ EnterFace
  \/ NextSpecies

\* Whatever the pet does, on whichever screen, the next drawing clears all of
\* it, and no drawing reads a table past its end.
PetLeavesNoTrail ==
  /\ trail = {}
  /\ shown # NoPet =>
       Picture(shown.species, shown.persona, shown.tick).inTables

Spec == Init /\ [][Next]_vars
=============================================================================
