-------------------------- MODULE DevicePartsProofs --------------------------
\* Proofs about the screens and the pet of DeviceParts, for any landscapes and
\* characters, any states of the pet, any number of lapses whose traces are there
\* at once, and any number of ticks.
EXTENDS DeviceParts, TLAPS

------------------------------------------------------------------------------
\* ---- The screens

\* What the proofs need of the constants; PartsAssumption says it of them.
ScreensAssumption ==
  /\ Landscapes \subseteq {1, 3}
  /\ Kinds \subseteq {"gif", "text"}
  /\ None \notin Moods /\ None \notin Nat
  /\ None \notin {"receive", "wifi", "reset", "settings", "menu"}

Layers == {"ascii2", "ascii1", "gif2", "gif1", "text2", "text1", "splash",
           "message", "pet", "info", "approval", "face", "overlay",
           "receive", "wifi", "reset", "settings", "menu"}
Large == {"ascii2", "gif2", "text2"}
Little == {"ascii1", "gif1", "text1"}
Bodies == Large \cup Little \cup {"splash", "message"}
OfScale(little) == Bodies \ (IF little THEN Large ELSE Little)

Caches == [facing : Landscapes \cup {0}, mood : Moods]
Marks == {Screens!OnSprite} \cup ({"face", "prompt", "overlay"} \X Landscapes)
Views ==
  [painted : SUBSET Layers, mood : Moods \cup {None}, due : BOOLEAN,
   peek : BOOLEAN, small : BOOLEAN, invalid : BOOLEAN,
   clock : Caches \cup {None}, face : Caches \cup {None},
   approval : Landscapes \cup {None}, lcd : SUBSET Marks,
   known : SUBSET {"dismissed", "switched", "darkened", "unseen"}]

\* w is v but for the fields F.
Only(v, w, F) ==
  /\ w \in Views
  /\ "painted" \in F \/ w.painted = v.painted
  /\ "mood" \in F \/ w.mood = v.mood
  /\ "due" \in F \/ w.due = v.due
  /\ "peek" \in F \/ w.peek = v.peek
  /\ "small" \in F \/ w.small = v.small
  /\ "invalid" \in F \/ w.invalid = v.invalid
  /\ "clock" \in F \/ w.clock = v.clock
  /\ "face" \in F \/ w.face = v.face
  /\ "approval" \in F \/ w.approval = v.approval
  /\ "lcd" \in F \/ w.lcd = v.lcd
  /\ "known" \in F \/ w.known = v.known

\* A character with a state is opened once more by what clears it.
Animated(v) == loaded # "none" /\ v.mood # None
Wiped(v) == v.known \ {"switched", "unseen"}
Reopened(v, w) ==
  /\ w.due = (v.due \/ Animated(v))
  /\ \/ w.painted = {} /\ w.known = Wiped(v)
     \/ w.painted = v.painted /\ w.known = v.known /\ ~Animated(v)

------------------------------------------------------------------------------
\* What each operator does to a view, field by field.

LEMMA SetField ==
  ASSUME NEW v \in Views
  PROVE  /\ \A d \in BOOLEAN :
              /\ Only(v, [v EXCEPT !.due = d], {"due"})
              /\ [v EXCEPT !.due = d].due = d
              /\ Only(v, [v EXCEPT !.peek = d], {"peek"})
              /\ [v EXCEPT !.peek = d].peek = d
              /\ Only(v, [v EXCEPT !.invalid = d], {"invalid"})
              /\ [v EXCEPT !.invalid = d].invalid = d
         /\ \A p \in SUBSET Layers :
              /\ Only(v, [v EXCEPT !.painted = p], {"painted"})
              /\ [v EXCEPT !.painted = p].painted = p
         /\ \A l \in SUBSET Marks :
              /\ Only(v, [v EXCEPT !.lcd = l], {"lcd"})
              /\ [v EXCEPT !.lcd = l].lcd = l
         /\ \A k \in SUBSET {"dismissed", "switched", "darkened", "unseen"} :
              /\ Only(v, [v EXCEPT !.known = k], {"known"})
              /\ [v EXCEPT !.known = k].known = k
<1>1. ASSUME NEW d \in BOOLEAN
      PROVE  /\ Only(v, [v EXCEPT !.due = d], {"due"})
             /\ [v EXCEPT !.due = d].due = d
  BY DEF Only, Views
<1>2. ASSUME NEW d \in BOOLEAN
      PROVE  /\ Only(v, [v EXCEPT !.peek = d], {"peek"})
             /\ [v EXCEPT !.peek = d].peek = d
  BY DEF Only, Views
<1>3. ASSUME NEW d \in BOOLEAN
      PROVE  /\ Only(v, [v EXCEPT !.invalid = d], {"invalid"})
             /\ [v EXCEPT !.invalid = d].invalid = d
  BY DEF Only, Views
<1>4. ASSUME NEW p \in SUBSET Layers
      PROVE  /\ Only(v, [v EXCEPT !.painted = p], {"painted"})
             /\ [v EXCEPT !.painted = p].painted = p
  BY DEF Only, Views
<1>5. ASSUME NEW l \in SUBSET Marks
      PROVE  /\ Only(v, [v EXCEPT !.lcd = l], {"lcd"})
             /\ [v EXCEPT !.lcd = l].lcd = l
  BY DEF Only, Views
<1>6. ASSUME NEW k \in SUBSET {"dismissed", "switched", "darkened", "unseen"}
      PROVE  /\ Only(v, [v EXCEPT !.known = k], {"known"})
             /\ [v EXCEPT !.known = k].known = k
  BY DEF Only, Views
<1> QED BY <1>1, <1>2, <1>3, <1>4, <1>5, <1>6

LEMMA SetCache ==
  ASSUME NEW v \in Views, NEW c \in Caches \cup {None}
  PROVE  /\ Only(v, [v EXCEPT !.clock = c], {"clock"})
         /\ [v EXCEPT !.clock = c].clock = c
         /\ Only(v, [v EXCEPT !.face = c], {"face"})
         /\ [v EXCEPT !.face = c].face = c
BY DEF Only, Views

LEMMA SetApproval ==
  ASSUME NEW v \in Views, NEW f \in Landscapes \cup {None}
  PROVE  /\ Only(v, [v EXCEPT !.approval = f], {"approval"})
         /\ [v EXCEPT !.approval = f].approval = f
BY DEF Only, Views

LEMMA ViewParts ==
  ASSUME NEW v \in Views
  PROVE  /\ Only(v, v, {}) /\ v.painted \in SUBSET Layers
         /\ v.mood \in Moods \cup {None} /\ v.due \in BOOLEAN
         /\ v.peek \in BOOLEAN /\ v.small \in BOOLEAN
         /\ v.invalid \in BOOLEAN /\ v.clock \in Caches \cup {None}
         /\ v.face \in Caches \cup {None}
         /\ v.approval \in Landscapes \cup {None} /\ v.lcd \in SUBSET Marks
         /\ v.known \in SUBSET {"dismissed", "switched", "darkened", "unseen"}
BY DEF Only, Views

LEMMA FillView ==
  ASSUME NEW v \in Views
  PROVE  LET w == Screens!Fill(v) IN
         /\ Only(v, w, {"painted", "known"})
         /\ w.painted = {} /\ w.known = Wiped(v)
BY DEF Screens!Fill, Views, Only, Wiped

LEMMA CharacterInvalidateView ==
  ASSUME NEW v \in Views
  PROVE  LET w == Screens!CharacterInvalidate(v) IN
         Only(v, w, {"painted", "known", "due"}) /\ Reopened(v, w)
<1> DEFINE f == Screens!Fill(v)
<1>1. /\ Only(v, f, {"painted", "known"})
      /\ f.painted = {} /\ f.known = Wiped(v)
  BY FillView
<1>2. Screens!CharacterInvalidate(v) =
        IF loaded = "none" THEN v
        ELSE IF v.mood # None THEN [f EXCEPT !.due = TRUE]
        ELSE IF loaded = "text" THEN f ELSE v
  BY DEF Screens!CharacterInvalidate
<1> HIDE DEF f
<1> DEFINE w == Screens!CharacterInvalidate(v)
<1>3. v.due \in BOOLEAN /\ Only(v, v, {}) BY ViewParts
<1>4. CASE loaded = "none"
  <2>1. w = v BY <1>2, <1>4
  <2> QED BY <2>1, <1>3, <1>4 DEF Reopened, Only, Animated
<1>5. CASE loaded # "none" /\ v.mood # None
  <2>1. w = [f EXCEPT !.due = TRUE] BY <1>2, <1>5
  <2>2. f \in Views BY <1>1 DEF Only
  <2>3. Only(f, w, {"due"}) /\ w.due = TRUE BY <2>1, <2>2, SetField
  <2> QED BY <2>3, <1>1, <1>5 DEF Reopened, Only, Animated
<1>6. CASE loaded # "none" /\ v.mood = None
  <2>1. w = f \/ w = v BY <1>2, <1>6
  <2> QED BY <2>1, <1>1, <1>3, <1>6 DEF Reopened, Only, Animated
<1> QED BY <1>4, <1>5, <1>6

LEMMA SetStateView ==
  ASSUME NEW v \in Views, NEW mood \in Moods
  PROVE  LET w == Screens!SetState(v, mood) IN
         IF loaded = "none" \/ v.mood = mood THEN w = v
         ELSE /\ Only(v, w, {"painted", "known", "mood", "due"})
              /\ w.painted = {} /\ w.known = Wiped(v)
              /\ w.mood = mood /\ w.due = TRUE
<1> DEFINE f == Screens!Fill(v)
<1>1. /\ Only(v, f, {"painted", "known"})
      /\ f.painted = {} /\ f.known = Wiped(v)
  BY FillView
<1>2. Screens!SetState(v, mood) =
        IF loaded = "none" \/ v.mood = mood THEN v
        ELSE [f EXCEPT !.mood = mood, !.due = TRUE]
  BY DEF Screens!SetState
<1> HIDE DEF f
<1>3. f \in Views BY <1>1 DEF Only
<1>4. LET w == [f EXCEPT !.mood = mood, !.due = TRUE] IN
      Only(f, w, {"mood", "due"}) /\ w.mood = mood /\ w.due = TRUE
  BY <1>3 DEF Only, Views
<1> DEFINE w == [f EXCEPT !.mood = mood, !.due = TRUE]
<1> HIDE DEF w
<1>5. Only(f, w, {"mood", "due"}) /\ w.mood = mood /\ w.due = TRUE
  BY <1>4 DEF w
<1>6. Screens!SetState(v, mood) =
        IF loaded = "none" \/ v.mood = mood THEN v ELSE w
  BY <1>2 DEF w
<1> QED BY <1>1, <1>5, <1>6 DEF Only

LEMMA CharacterSetPeekView ==
  ASSUME NEW v \in Views, NEW peek \in BOOLEAN
  PROVE  LET w == Screens!CharacterSetPeek(v, peek) IN
         /\ Only(v, w, {"painted", "known", "due", "peek"})
         /\ w.peek = peek
         /\ IF v.peek = peek THEN w = v ELSE Reopened(v, w)
<1> DEFINE p == [v EXCEPT !.peek = peek]
           w == Screens!CharacterSetPeek(v, peek)
<1>1. w = IF v.peek = peek THEN v ELSE Screens!CharacterInvalidate(p)
  BY DEF Screens!CharacterSetPeek
<1>2. Only(v, p, {"peek"}) /\ p.peek = peek BY SetField
<1> HIDE DEF p
<1>3. p \in Views BY <1>2 DEF Only
<1>4. /\ Only(p, Screens!CharacterInvalidate(p), {"painted", "known", "due"})
      /\ Reopened(p, Screens!CharacterInvalidate(p))
  BY <1>3, CharacterInvalidateView
<1>5. Only(v, v, {}) BY ViewParts
<1>6. CASE v.peek = peek BY <1>1, <1>5, <1>6 DEF Only
<1>7. CASE v.peek # peek
  <2>1. w = Screens!CharacterInvalidate(p) BY <1>1, <1>7
  <2> QED BY <2>1, <1>2, <1>4, <1>7 DEF Only, Reopened, Animated, Wiped
<1> QED BY <1>6, <1>7

LEMMA BuddySetPeekView ==
  ASSUME NEW v \in Views, NEW peek \in BOOLEAN
  PROVE  LET w == Screens!BuddySetPeek(v, peek) IN
         /\ Only(v, w, {"small", "invalid"})
         /\ w.small = peek
         /\ w.invalid = (v.invalid \/ v.small # peek)
BY DEF Screens!BuddySetPeek, Views, Only

LEMMA PetInvalidateView ==
  ASSUME NEW v \in Views
  PROVE  LET w == Screens!PetInvalidate(v) IN
         /\ Only(v, w, {"painted", "known", "due", "invalid"})
         /\ Reopened(v, w)
         /\ w.invalid = (v.invalid \/ buddyMode = TRUE)
<1> DEFINE c == Screens!CharacterInvalidate(v)
           w == Screens!PetInvalidate(v)
<1>1. Only(v, c, {"painted", "known", "due"}) /\ Reopened(v, c)
  BY CharacterInvalidateView
<1>2. w = IF buddyMode THEN [c EXCEPT !.invalid = TRUE] ELSE c
  BY DEF Screens!PetInvalidate, Screens!BuddyInvalidate
<1> HIDE DEF c
<1>3. c \in Views BY <1>1 DEF Only
<1>4. /\ Only(c, [c EXCEPT !.invalid = TRUE], {"invalid"})
      /\ [c EXCEPT !.invalid = TRUE].invalid = TRUE
  BY <1>3, SetField
<1>5. v.invalid \in BOOLEAN BY ViewParts
<1>6. CASE buddyMode
  <2>1. w = [c EXCEPT !.invalid = TRUE] BY <1>2, <1>6
  <2> QED BY <2>1, <1>1, <1>4, <1>6 DEF Only, Reopened
<1>7. CASE ~buddyMode
  <2>1. w = c BY <1>2, <1>7
  <2> QED BY <2>1, <1>1, <1>5, <1>7 DEF Only, Reopened
<1> QED BY <1>6, <1>7

LEMMA InvalidatePortraitView ==
  ASSUME NEW v \in Views
  PROVE  LET w == Screens!InvalidatePortraitSurface(v) IN
         /\ Only(v, w, {"painted", "known", "due", "invalid"})
         /\ w.painted = {} /\ w.known = Wiped(v) /\ w.invalid = TRUE
         /\ w.due = (v.due \/ Animated(v))
<1> DEFINE f == Screens!Fill(v)
           c == Screens!CharacterInvalidate(f)
           w == Screens!InvalidatePortraitSurface(v)
<1>1. /\ Only(v, f, {"painted", "known"})
      /\ f.painted = {} /\ f.known = Wiped(v)
  BY FillView
<1>2. w = [c EXCEPT !.invalid = TRUE]
  BY DEF Screens!InvalidatePortraitSurface, Screens!BuddyInvalidate
<1>3. f \in Views BY <1>1 DEF Only
<1>4. Only(f, c, {"painted", "known", "due"}) /\ Reopened(f, c)
  BY <1>3, CharacterInvalidateView
<1>5. c \in Views BY <1>4 DEF Only
<1> HIDE DEF c, f
<1>6. Only(c, w, {"invalid"}) /\ w.invalid = TRUE BY <1>2, <1>5, SetField
<1> QED BY <1>1, <1>4, <1>6 DEF Only, Reopened, Wiped, Animated

LEMMA ApplyDisplayModeView ==
  ASSUME NEW v \in Views, NEW m
  PROVE  LET w == Screens!ApplyDisplayMode(v, m) IN
         /\ Only(v, w, {"painted", "known", "due", "invalid", "peek", "small"})
         /\ w.painted = {} /\ w.known = Wiped(v) \ {"dismissed"}
         /\ w.invalid = TRUE /\ w.due = (v.due \/ Animated(v))
         /\ w.peek = (m # "normal") /\ w.small = (m # "normal")
<1> DEFINE peek == m # "normal"
           c == Screens!CharacterSetPeek(v, peek)
           b == Screens!BuddySetPeek(c, peek)
           i == Screens!InvalidatePortraitSurface(b)
           w == Screens!ApplyDisplayMode(v, m)
<1>1. w = [i EXCEPT !.known = i.known \ {"dismissed"}]
  BY DEF Screens!ApplyDisplayMode
<1> peek \in BOOLEAN OBVIOUS
<1> HIDE DEF peek
<1>2. /\ Only(v, c, {"painted", "known", "due", "peek"})
      /\ c.peek = peek
      /\ IF v.peek = peek THEN c = v ELSE Reopened(v, c)
  BY CharacterSetPeekView
<1>3. c \in Views BY <1>2 DEF Only
<1> HIDE DEF c
<1>4. Only(c, b, {"small", "invalid"}) /\ b.small = peek
  BY <1>3, BuddySetPeekView
<1>5. b \in Views BY <1>4 DEF Only
<1> HIDE DEF b
<1>6. /\ Only(b, i, {"painted", "known", "due", "invalid"})
      /\ i.painted = {} /\ i.known = Wiped(b) /\ i.invalid = TRUE
      /\ i.due = (b.due \/ Animated(b))
  BY <1>5, InvalidatePortraitView
<1>7. i \in Views BY <1>6 DEF Only
<1> HIDE DEF i
<1>8. i.known \ {"dismissed"} \in
        SUBSET {"dismissed", "switched", "darkened", "unseen"}
  BY <1>7, ViewParts
<1>9. Only(i, w, {"known"}) /\ w.known = i.known \ {"dismissed"}
  BY <1>1, <1>7, <1>8, SetField
<1>10. b.known = v.known \/ b.known = Wiped(v)
  BY <1>2, <1>4 DEF Only, Reopened
<1>11. w.known = Wiped(v) \ {"dismissed"}
  BY <1>6, <1>9, <1>10 DEF Wiped
<1>12. b.due = v.due \/ b.due = (v.due \/ Animated(v))
  BY <1>2, <1>4 DEF Only, Reopened
<1>13. b.mood = v.mood BY <1>2, <1>4 DEF Only
<1>14. i.due = (v.due \/ Animated(v))
  BY <1>6, <1>12, <1>13 DEF Animated
<1>15. /\ Only(v, w, {"painted", "known", "due", "invalid", "peek", "small"})
       /\ w.painted = {} /\ w.invalid = TRUE /\ w.due = (v.due \/ Animated(v))
       /\ w.peek = peek /\ w.small = peek
  BY <1>2, <1>4, <1>6, <1>9, <1>14 DEF Only
<1> QED BY <1>11, <1>15 DEF peek

LEMMA PanelNames ==
  Screens!Panels = {"receive", "wifi", "reset", "settings", "menu"}
<1>1. DOMAIN Screens!Order = 1..5 BY DEF Screens!Order
<1>2. Screens!Panels = {Screens!Order[i] : i \in 1..5}
  BY <1>1 DEF Screens!Panels, Screens!Range
<1>3. /\ Screens!Order[1] = "receive" /\ Screens!Order[2] = "wifi" /\ Screens!Order[3] = "reset"
      /\ Screens!Order[4] = "settings" /\ Screens!Order[5] = "menu"
  BY DEF Screens!Order
<1>4. 1..5 = {1, 2, 3, 4, 5} OBVIOUS
<1> HIDE DEF Screens!Order
<1> QED BY <1>2, <1>3, <1>4

LEMMA TopPanel ==
  ASSUME open \subseteq Screens!Panels
  PROVE  /\ open = {} => Screens!Top = None
         /\ open # {} => Screens!Top \in open
         /\ open # {} /\ "receive" \in open => Screens!Top = "receive"
         /\ open = {"menu"} => Screens!Top = "menu"
<1>1. DOMAIN Screens!Order = 1..5 BY DEF Screens!Order
<1>2. /\ Screens!Order[1] = "receive" /\ Screens!Order[2] = "wifi" /\ Screens!Order[3] = "reset"
      /\ Screens!Order[4] = "settings" /\ Screens!Order[5] = "menu"
  BY DEF Screens!Order
<1> DEFINE there == {i \in 1..5 : Screens!Order[i] \in open}
           first == CHOOSE i \in there : \A j \in there : i <= j
<1>3. Screens!Top = IF there = {} THEN None ELSE Screens!Order[first]
  BY <1>1 DEF Screens!Top
<1>4. 1..5 = {1, 2, 3, 4, 5} OBVIOUS
<1> HIDE DEF Screens!Order
<1>5. open = {} => there = {} OBVIOUS
<1>6. ASSUME open # {} PROVE there # {}
  <2>1. PICK p \in open : TRUE BY <1>6
  <2>2. p \in {"receive", "wifi", "reset", "settings", "menu"}
    BY <2>1, PanelNames
  <2>3. PICK i \in 1..5 : Screens!Order[i] = p BY <1>2, <2>2
  <2>4. i \in there BY <2>1, <2>3
  <2> HIDE DEF there
  <2> QED BY <2>4
<1>7. ASSUME there # {}
      PROVE  first \in there /\ \A j \in there : first <= j
  <2>1. \E i \in there : \A j \in there : i <= j
    <3>1. PICK i \in there : TRUE BY <1>7
    <3>2. CASE 1 \in there BY <3>2
    <3>3. CASE 1 \notin there /\ 2 \in there BY <3>3
    <3>4. CASE 1 \notin there /\ 2 \notin there /\ 3 \in there BY <3>4
    <3>5. CASE 1 \notin there /\ 2 \notin there /\ 3 \notin there
               /\ 4 \in there
      BY <3>5
    <3>6. CASE 1 \notin there /\ 2 \notin there /\ 3 \notin there
               /\ 4 \notin there
      BY <3>1, <3>6
    <3> QED BY <3>2, <3>3, <3>4, <3>5, <3>6
  <2> HIDE DEF there
  <2> QED BY <2>1
<1>8. open # {} => Screens!Top \in open BY <1>3, <1>6, <1>7
<1>9. ASSUME open # {}, "receive" \in open PROVE Screens!Top = "receive"
  <2>1. 1 \in there BY <1>2, <1>9
  <2>2. first \in there /\ first <= 1 BY <1>7, <2>1
  <2>3. first = 1 BY <2>2
  <2> HIDE DEF first
  <2> QED BY <1>3, <2>1, <2>3, <1>2
<1>10. ASSUME open = {"menu"} PROVE Screens!Top = "menu" BY <1>8, <1>10
<1> HIDE DEF there, first
<1> QED BY <1>3, <1>5, <1>8, <1>9, <1>10

\* The rows of a layer, and what each of the four wipes takes away.
LEMMA RowsOf ==
  /\ Screens!Rows("ascii2") = <<0, 150>> /\ Screens!Rows("ascii1") = <<0, 75>>
  /\ Screens!Rows("gif2") = <<0, 140>> /\ Screens!Rows("gif1") = <<0, 70>>
  /\ Screens!Rows("text2") = <<46, 74>> /\ Screens!Rows("text1") = <<21, 49>>
  /\ Screens!Rows("splash") = <<100, 140>> /\ Screens!Rows("message") = <<90, 124>>
  /\ Screens!Rows("pet") = <<70, 240>> /\ Screens!Rows("info") = <<70, 240>>
  /\ Screens!Rows("approval") = <<156, 240>> /\ Screens!Rows("overlay") = <<94, 146>>
  /\ Screens!Rows("face") = <<0, 240>>
  /\ \A p \in Screens!Panels : Screens!Rows(p) = <<20, 220>>
<1>1. \A l \in Layers :
        Screens!Rows(l) =
          CASE l = "ascii2" -> <<0, 150>> [] l = "ascii1" -> <<0, 75>>
            [] l = "gif2" -> <<0, 140>>   [] l = "gif1" -> <<0, 70>>
            [] l = "text2" -> <<46, 74>>  [] l = "text1" -> <<21, 49>>
            [] l = "splash" -> <<100, 140>> [] l = "message" -> <<90, 124>>
            [] l \in {"pet", "info"} -> <<70, 240>>
            [] l = "approval" -> <<156, 240>>
            [] l = "overlay" -> <<94, 146>>
            [] l = "face" -> <<0, 240>>
            [] OTHER -> <<20, 220>>
  BY PanelNames DEF Screens!Rows, Layers
<1> QED BY <1>1, PanelNames DEF Layers

Reached(top, bottom) ==
  {l \in Layers : ~(Screens!Rows(l)[1] < top \/ Screens!Rows(l)[2] > bottom)}

LEMMA ReachedLayers ==
  /\ Reached(0, 82) = {"ascii1", "gif1", "text1", "text2"}
  /\ Reached(0, 164) = Bodies \cup {"overlay"}
  /\ Reached(70, 240) =
       {"splash", "message", "pet", "info", "approval", "overlay"}
  /\ Reached(21, 49) = {"text1"} /\ Reached(46, 74) = {"text2"}
<1>1. Layers = {"ascii2", "ascii1", "gif2", "gif1", "text2", "text1",
                "splash", "message", "pet", "info", "approval", "overlay",
                "face"} \cup Screens!Panels
  BY PanelNames DEF Layers
<1>2. \A l \in Layers : l \in Reached(0, 82) <=>
        l \in {"ascii1", "gif1", "text1", "text2"}
  BY <1>1, RowsOf, PanelNames DEF Reached
<1>3. \A l \in Layers : l \in Reached(0, 164) <=>
        l \in Bodies \cup {"overlay"}
  BY <1>1, RowsOf, PanelNames DEF Reached, Bodies, Large, Little
<1>4. \A l \in Layers : l \in Reached(70, 240) <=>
        l \in {"splash", "message", "pet", "info", "approval", "overlay"}
  BY <1>1, RowsOf, PanelNames DEF Reached
<1>5. \A l \in Layers : l \in Reached(21, 49) <=> l \in {"text1"}
  BY <1>1, RowsOf, PanelNames DEF Reached
<1>6. \A l \in Layers : l \in Reached(46, 74) <=> l \in {"text2"}
  BY <1>1, RowsOf, PanelNames DEF Reached
<1>7. \A t, b : Reached(t, b) \subseteq Layers BY DEF Reached
<1>8. /\ Bodies \cup {"overlay"} \subseteq Layers
      /\ {"ascii1", "gif1", "text1", "text2"} \subseteq Layers
      /\ {"splash", "message", "pet", "info", "approval", "overlay"}
           \subseteq Layers
  BY DEF Bodies, Large, Little, Layers
<1> QED BY <1>2, <1>3, <1>4, <1>5, <1>6, <1>7, <1>8

LEMMA WipeView ==
  ASSUME NEW v \in Views, NEW top, NEW bottom
  PROVE  LET w == Screens!Wipe(v, top, bottom) IN
         /\ Only(v, w, {"painted"})
         /\ w.painted = v.painted \ Reached(top, bottom)
<1>1. Screens!Wipe(v, top, bottom) =
        [v EXCEPT !.painted = {l \in v.painted :
                                 Screens!Rows(l)[1] < top \/ Screens!Rows(l)[2] > bottom}]
  BY DEF Screens!Wipe
<1>2. v.painted \subseteq Layers BY ViewParts
<1>3. {l \in v.painted : Screens!Rows(l)[1] < top \/ Screens!Rows(l)[2] > bottom} =
      v.painted \ Reached(top, bottom)
  BY <1>2 DEF Reached
<1> DEFINE left == v.painted \ Reached(top, bottom)
<1>4. left \in SUBSET Layers BY <1>2
<1>5. Screens!Wipe(v, top, bottom) = [v EXCEPT !.painted = left] BY <1>1, <1>3
<1> HIDE DEF left
<1>6. /\ Only(v, Screens!Wipe(v, top, bottom), {"painted"})
      /\ Screens!Wipe(v, top, bottom).painted = left
  BY <1>4, <1>5, SetField
<1> QED BY <1>6 DEF left

LEMMA PaintView ==
  ASSUME NEW v \in Views, NEW layers \in SUBSET Layers
  PROVE  LET w == Screens!Paint(v, layers) IN
         Only(v, w, {"painted"}) /\ w.painted = v.painted \cup layers
<1>1. v.painted \cup layers \in SUBSET Layers BY ViewParts
<1> QED BY <1>1, SetField DEF Screens!Paint

LEMMA PushView ==
  ASSUME NEW v \in Views
  PROVE  Only(v, Screens!Push(v), {"lcd"}) /\ Screens!Push(v).lcd = {Screens!OnSprite}
<1>1. {Screens!OnSprite} \in SUBSET Marks BY DEF Marks
<1> QED BY <1>1, SetField DEF Screens!Push

LEMMA CharacterTickView ==
  ASSUME NEW v \in Views, loaded \in {"none", "gif", "text"},
         loaded = "none" => ~v.due
  PROVE  LET w == Screens!CharacterTick(v) IN
         IF v.due
         THEN /\ Only(v, w, {"painted", "due"}) /\ ~w.due
              /\ w.painted = v.painted \cup {Screens!Pet(loaded, v.peek)}
         ELSE w = v
<1> DEFINE band == Screens!Rows(Screens!Pet("text", v.peek))
           c == IF loaded = "text" THEN Screens!Wipe(v, band[1], band[2]) ELSE v
           d == {Screens!Pet(loaded, v.peek)}
           p == Screens!Paint(c, d)
           w == Screens!CharacterTick(v)
<1>1. w = IF ~v.due THEN v ELSE [p EXCEPT !.due = FALSE]
  BY DEF Screens!CharacterTick
<1>2. v.peek \in BOOLEAN /\ v.due \in BOOLEAN /\ Only(v, v, {})
  BY ViewParts
<1>3. CASE ~v.due BY <1>1, <1>3
<1>4. CASE v.due
  <2>1. loaded \in {"gif", "text"} BY <1>4
  <2>2. d \in SUBSET Layers BY <2>1, <1>2 DEF Screens!Pet, Layers
  <2>3. ASSUME loaded = "text"
        PROVE  Only(v, c, {"painted"}) /\ c.painted = v.painted \ d
    <3>1. c = Screens!Wipe(v, band[1], band[2]) BY <2>3
    <3>2. CASE v.peek
      <4>1. band = <<21, 49>> /\ d = {"text1"}
        BY <3>2, <2>3, RowsOf DEF Screens!Pet
      <4> QED BY <3>1, <4>1, WipeView, ReachedLayers
    <3>3. CASE ~v.peek
      <4>1. band = <<46, 74>> /\ d = {"text2"}
        BY <3>3, <2>3, RowsOf DEF Screens!Pet
      <4> QED BY <3>1, <4>1, WipeView, ReachedLayers
    <3> QED BY <3>2, <3>3
  <2>4. /\ Only(v, c, {"painted"})
        /\ c.painted \cup d = v.painted \cup d
    BY <2>3, <1>2 DEF Only
  <2>5. c \in Views BY <2>4 DEF Only
  <2> HIDE DEF c, d, band
  <2>6. Only(c, p, {"painted"}) /\ p.painted = c.painted \cup d
    BY <2>2, <2>5, PaintView
  <2>7. p \in Views BY <2>6 DEF Only
  <2> HIDE DEF p
  <2>8. Only(p, w, {"due"}) /\ w.due = FALSE BY <1>1, <1>4, <2>7, SetField
  <2>9. /\ Only(v, w, {"painted", "due"}) /\ ~w.due
        /\ w.painted = v.painted \cup d
    BY <2>4, <2>6, <2>8 DEF Only
  <2> QED BY <2>9, <1>4 DEF d
<1> QED BY <1>2, <1>3, <1>4

LEMMA BuddyTickView ==
  ASSUME NEW v \in Views, NEW ticked \in BOOLEAN
  PROVE  LET w == Screens!BuddyTick(v, ticked) IN
         IF v.invalid \/ ticked
         THEN /\ Only(v, w, {"painted", "invalid"}) /\ ~w.invalid
              /\ w.painted =
                   (v.painted \ (IF v.small
                                 THEN {"ascii1", "gif1", "text1", "text2"}
                                 ELSE Bodies \cup {"overlay"}))
                     \cup {Screens!Pet("ascii", v.small)}
         ELSE w = v
<1> DEFINE gone == IF v.small THEN {"ascii1", "gif1", "text1", "text2"}
                   ELSE Bodies \cup {"overlay"}
           c == Screens!Wipe(v, 0, IF v.small THEN 82 ELSE 164)
           d == {Screens!Pet("ascii", v.small)}
           p == Screens!Paint(c, d)
           w == Screens!BuddyTick(v, ticked)
<1>1. w = IF ~v.invalid /\ ~ticked THEN v ELSE [p EXCEPT !.invalid = FALSE]
  BY DEF Screens!BuddyTick
<1>2. v.small \in BOOLEAN BY ViewParts
<1>3. d \in SUBSET Layers BY <1>2 DEF Screens!Pet, Layers
<1>4. Only(v, c, {"painted"}) /\ c.painted = v.painted \ gone
  BY <1>2, WipeView, ReachedLayers
<1>5. c \in Views BY <1>4 DEF Only
<1> HIDE DEF c, d, gone
<1>6. Only(c, p, {"painted"}) /\ p.painted = c.painted \cup d
  BY <1>3, <1>5, PaintView
<1>7. p \in Views BY <1>6 DEF Only
<1> HIDE DEF p
<1>8. CASE v.invalid \/ ticked
  <2>1. Only(p, w, {"invalid"}) /\ w.invalid = FALSE
    BY <1>1, <1>7, <1>8, SetField
  <2>2. /\ Only(v, w, {"painted", "invalid"}) /\ ~w.invalid
        /\ w.painted = (v.painted \ gone) \cup d
    BY <2>1, <1>4, <1>6 DEF Only
  <2> QED BY <2>2, <1>8 DEF gone, d
<1>9. CASE ~(v.invalid \/ ticked) BY <1>1, <1>9
<1> QED BY <1>8, <1>9

\* A view that is laid out anew for the page of this mode.
Paged(v, w) ==
  /\ w.painted = {} /\ w.known = Wiped(v) \ {"dismissed"} /\ w.invalid = TRUE
  /\ w.due = (v.due \/ Animated(v))
  /\ w.peek = (mode # "normal") /\ w.small = (mode # "normal")
Layout == {"painted", "known", "due", "invalid", "peek", "small"}

LEMMA ApplyMode ==
  ASSUME NEW v \in Views
  PROVE  /\ Only(v, Screens!ApplyDisplayMode(v, mode), Layout)
         /\ Paged(v, Screens!ApplyDisplayMode(v, mode))
<1>1. LET w == Screens!ApplyDisplayMode(v, mode) IN
      /\ Only(v, w, {"painted", "known", "due", "invalid", "peek", "small"})
      /\ w.painted = {} /\ w.known = Wiped(v) \ {"dismissed"}
      /\ w.invalid = TRUE /\ w.due = (v.due \/ Animated(v))
      /\ w.peek = (mode # "normal") /\ w.small = (mode # "normal")
  BY ApplyDisplayModeView
<1> QED BY <1>1 DEF Paged, Layout

LEMMA PagedStays ==
  ASSUME NEW v, NEW a, NEW w, Paged(v, a), a.mood = v.mood, Reopened(a, w),
         w.peek = a.peek, w.small = a.small,
         w.invalid = (a.invalid \/ buddyMode = TRUE)
  PROVE  Paged(v, w)
<1>1. w.painted = {} BY DEF Paged, Reopened
<1>2. w.known = Wiped(v) \ {"dismissed"} BY DEF Paged, Reopened, Wiped
<1>3. w.due = (v.due \/ Animated(v)) BY DEF Paged, Reopened, Animated
<1>4. w.invalid = TRUE BY DEF Paged
<1>5. w.peek = (mode # "normal") /\ w.small = (mode # "normal") BY DEF Paged
<1> QED BY <1>1, <1>2, <1>3, <1>4, <1>5 DEF Paged

\* The three surfaces that a pass may enter or leave.
Sideways(surface) == surface.facing \in Landscapes
Running(surface) == surface.kind \in {"face", "prompt"} /\ Sideways(surface)
SameClock(surface) ==
  LET clocking == surface.kind = "clock"
      wasClocking == previous.kind = "clock"
  IN clocking = wasClocking
     /\ (clocking /\ Sideways(surface)) = (wasClocking /\ Sideways(previous))
SameFace(surface) == (surface.kind = "face") = (previous.kind = "face")
SameRunning(surface) == Running(surface) = Running(previous)

ChangedClock(v, surface) ==
  IF SameClock(surface) THEN v
  ELSE LET r == Screens!ResetCache(v, "clock")
       IN Screens!PetInvalidate(IF surface.kind = "clock" /\ ~Sideways(surface)
                        THEN Screens!CharacterSetPeek(r, TRUE)
                        ELSE Screens!ApplyDisplayMode(r, mode))
ChangedFace(v, surface) ==
  IF SameFace(surface) THEN v
  ELSE LET r == Screens!PetInvalidate(Screens!ResetCache(v, "face"))
       IN IF surface.kind = "face" THEN r ELSE Screens!ApplyDisplayMode(r, mode)
ChangedRunning(v, surface) ==
  IF SameRunning(surface) THEN v
  ELSE LET r == Screens!ResetCache(v, "face")
       IN Screens!PetInvalidate(
            IF Running(surface)
            THEN Screens!BuddySetPeek(Screens!CharacterSetPeek(r, TRUE), TRUE)
            ELSE [Screens!ApplyDisplayMode(r, mode) EXCEPT !.approval = None])

LEMMA ChangedInSteps ==
  ASSUME NEW v, NEW surface
  PROVE  Screens!Changed(v, surface) =
           <<ChangedRunning(ChangedFace(ChangedClock(v, surface), surface),
                            surface), Running(surface)>>
BY DEF Screens!Changed, ChangedClock, ChangedFace, ChangedRunning, SameClock,
       SameFace, SameRunning, Running, Sideways

LEMMA KeepCacheView ==
  ASSUME NEW v \in Views, NEW held \in Caches \cup {None}
  PROVE  /\ Only(v, Screens!KeepCache(v, "clock", held), {"clock"})
         /\ Screens!KeepCache(v, "clock", held).clock = held
         /\ Only(v, Screens!KeepCache(v, "face", held), {"face"})
         /\ Screens!KeepCache(v, "face", held).face = held
BY SetCache DEF Screens!KeepCache

LEMMA ResetCacheView ==
  ASSUME NEW v \in Views
  PROVE  /\ Only(v, Screens!ResetCache(v, "clock"), {"clock"})
         /\ Screens!ResetCache(v, "clock").clock = None
         /\ Only(v, Screens!ResetCache(v, "face"), {"face"})
         /\ Screens!ResetCache(v, "face").face = None
BY KeepCacheView DEF Screens!ResetCache

LEMMA ChangedClockView ==
  ASSUME NEW v \in Views, NEW surface
  PROVE  LET w == ChangedClock(v, surface) IN
         IF SameClock(surface) THEN w = v
         ELSE /\ Only(v, w, Layout \cup {"clock"}) /\ w.clock = None
              /\ loaded = "none" => w.due = v.due
              /\ surface.kind # "clock" \/ Sideways(surface) => Paged(v, w)
<1> DEFINE r == Screens!ResetCache(v, "clock")
           c == Screens!CharacterSetPeek(r, TRUE)
           a == Screens!ApplyDisplayMode(r, mode)
           flat == surface.kind = "clock" /\ ~Sideways(surface)
           w == ChangedClock(v, surface)
<1>1. Only(v, r, {"clock"}) /\ r.clock = None BY ResetCacheView
<1>2. r \in Views BY <1>1 DEF Only
<1>3. CASE SameClock(surface) BY <1>3 DEF ChangedClock
<1>4. CASE ~SameClock(surface) /\ flat
  <2>1. w = Screens!PetInvalidate(c) BY <1>4 DEF ChangedClock
  <2> HIDE DEF r
  <2>2. /\ Only(r, c, {"painted", "known", "due", "peek"})
        /\ c = r \/ Reopened(r, c)
    BY <1>2, CharacterSetPeekView
  <2>3. c \in Views BY <2>2 DEF Only
  <2> HIDE DEF c
  <2>4. /\ Only(c, w, {"painted", "known", "due", "invalid"})
        /\ Reopened(c, w)
    BY <2>1, <2>3, PetInvalidateView
  <2>5. Only(v, w, Layout \cup {"clock"}) /\ w.clock = None
    BY <1>1, <2>2, <2>4 DEF Only, Layout
  <2>6. ASSUME loaded = "none" PROVE w.due = v.due
    <3>1. v.due \in BOOLEAN /\ r.due = v.due
      BY <1>1, ViewParts DEF Only
    <3>2. c.due = r.due BY <2>2, <2>6, <3>1 DEF Reopened, Animated
    <3> QED BY <2>4, <2>6, <3>1, <3>2 DEF Reopened, Animated
  <2> QED BY <1>4, <2>5, <2>6
<1>5. CASE ~SameClock(surface) /\ ~flat
  <2>1. w = Screens!PetInvalidate(a) BY <1>5 DEF ChangedClock
  <2> HIDE DEF r
  <2>2. Only(r, a, Layout) /\ Paged(r, a) BY <1>2, ApplyMode
  <2>3. a \in Views BY <2>2 DEF Only
  <2> HIDE DEF a
  <2>4. /\ Only(a, w, {"painted", "known", "due", "invalid"})
        /\ Reopened(a, w) /\ w.invalid = (a.invalid \/ buddyMode = TRUE)
    BY <2>1, <2>3, PetInvalidateView
  <2>5. Only(v, w, Layout \cup {"clock"}) /\ w.clock = None
    BY <1>1, <2>2, <2>4 DEF Only, Layout
  <2>6. Paged(v, w)
    <3>1. Paged(v, a) BY <1>1, <2>2 DEF Paged, Only, Wiped, Animated
    <3>2. /\ w.peek = a.peek /\ w.small = a.small
          /\ a.mood = v.mood
      BY <1>1, <2>2, <2>4 DEF Only, Layout
    <3> QED BY <2>4, <3>1, <3>2, PagedStays
  <2>7. loaded = "none" => w.due = v.due
    BY <2>6, ViewParts DEF Paged, Animated
  <2> QED BY <1>5, <2>5, <2>6, <2>7
<1> QED BY <1>3, <1>4, <1>5

LEMMA ChangedFaceView ==
  ASSUME NEW v \in Views, NEW surface
  PROVE  LET w == ChangedFace(v, surface) IN
         IF SameFace(surface) THEN w = v
         ELSE /\ Only(v, w, Layout \cup {"face"}) /\ w.face = None
              /\ loaded = "none" => w.due = v.due
              /\ surface.kind # "face" => Paged(v, w)
<1> DEFINE r == Screens!ResetCache(v, "face")
           p == Screens!PetInvalidate(r)
           w == ChangedFace(v, surface)
<1>1. Only(v, r, {"face"}) /\ r.face = None BY ResetCacheView
<1>2. r \in Views BY <1>1 DEF Only
<1>3. /\ Only(r, p, {"painted", "known", "due", "invalid"})
      /\ Reopened(r, p)
  BY <1>2, PetInvalidateView
<1>4. p \in Views BY <1>3 DEF Only
<1>5. Only(v, p, Layout \cup {"face"}) /\ p.face = None
  BY <1>1, <1>3 DEF Only, Layout
<1>6. /\ p.due = (v.due \/ Animated(v))
      /\ p.known = v.known \/ p.known = Wiped(v)
      /\ p.mood = v.mood
  BY <1>1, <1>3 DEF Only, Reopened, Animated, Wiped
<1>7. loaded = "none" => p.due = v.due BY <1>6, ViewParts DEF Animated
<1>8. CASE SameFace(surface) BY <1>8 DEF ChangedFace
<1>9. CASE ~SameFace(surface) /\ surface.kind = "face"
  <2>1. w = p BY <1>9 DEF ChangedFace
  <2> QED BY <2>1, <1>5, <1>7, <1>9
<1>10. CASE ~SameFace(surface) /\ surface.kind # "face"
  <2>1. w = Screens!ApplyDisplayMode(p, mode) BY <1>10 DEF ChangedFace
  <2> HIDE DEF p
  <2>2. Only(p, w, Layout) /\ Paged(p, w) BY <1>4, <2>1, ApplyMode
  <2>3. Only(v, w, Layout \cup {"face"}) /\ w.face = None
    BY <1>5, <2>2 DEF Only, Layout
  <2>4. Paged(v, w) BY <1>6, <2>2 DEF Paged, Wiped, Animated
  <2>5. loaded = "none" => w.due = v.due
    BY <2>4, ViewParts DEF Paged, Animated
  <2> QED BY <1>10, <2>3, <2>4, <2>5
<1> QED BY <1>8, <1>9, <1>10

LEMMA ChangedRunningView ==
  ASSUME NEW v \in Views, NEW surface
  PROVE  LET w == ChangedRunning(v, surface) IN
         IF SameRunning(surface) THEN w = v
         ELSE /\ Only(v, w, Layout \cup {"face", "approval"}) /\ w.face = None
              /\ loaded = "none" => w.due = v.due
              /\ IF Running(surface) THEN w.approval = v.approval
                 ELSE w.approval = None /\ Paged(v, w)
<1> DEFINE r == Screens!ResetCache(v, "face")
           c == Screens!CharacterSetPeek(r, TRUE)
           b == Screens!BuddySetPeek(c, TRUE)
           a == Screens!ApplyDisplayMode(r, mode)
           n == [a EXCEPT !.approval = None]
           w == ChangedRunning(v, surface)
<1>1. Only(v, r, {"face"}) /\ r.face = None BY ResetCacheView
<1>2. r \in Views BY <1>1 DEF Only
<1>3. CASE SameRunning(surface) BY <1>3 DEF ChangedRunning
<1>4. CASE ~SameRunning(surface) /\ Running(surface)
  <2>1. w = Screens!PetInvalidate(b) BY <1>4 DEF ChangedRunning
  <2> HIDE DEF r
  <2>2. /\ Only(r, c, {"painted", "known", "due", "peek"})
        /\ c = r \/ Reopened(r, c)
    BY <1>2, CharacterSetPeekView
  <2>3. c \in Views BY <2>2 DEF Only
  <2> HIDE DEF c
  <2>4. Only(c, b, {"small", "invalid"}) BY <2>3, BuddySetPeekView
  <2>5. b \in Views BY <2>4 DEF Only
  <2> HIDE DEF b
  <2>6. /\ Only(b, w, {"painted", "known", "due", "invalid"})
        /\ Reopened(b, w)
    BY <2>1, <2>5, PetInvalidateView
  <2>7. /\ Only(v, w, Layout \cup {"face", "approval"}) /\ w.face = None
        /\ w.approval = v.approval
    BY <1>1, <2>2, <2>4, <2>6 DEF Only, Layout
  <2>8. ASSUME loaded = "none" PROVE w.due = v.due
    <3>1. v.due \in BOOLEAN /\ r.due = v.due
      BY <1>1, ViewParts DEF Only
    <3>2. c.due = r.due BY <2>2, <2>8, <3>1 DEF Reopened, Animated
    <3>3. b.due = c.due BY <2>4 DEF Only
    <3> QED BY <2>6, <2>8, <3>1, <3>2, <3>3 DEF Reopened, Animated
  <2> QED BY <1>4, <2>7, <2>8
<1>5. CASE ~SameRunning(surface) /\ ~Running(surface)
  <2>1. w = Screens!PetInvalidate(n) BY <1>5 DEF ChangedRunning
  <2> HIDE DEF r
  <2>2. Only(r, a, Layout) /\ Paged(r, a) BY <1>2, ApplyMode
  <2>3. a \in Views BY <2>2 DEF Only
  <2> HIDE DEF a
  <2>4. Only(a, n, {"approval"}) /\ n.approval = None
    BY <2>3, SetApproval
  <2>5. n \in Views BY <2>4 DEF Only
  <2> HIDE DEF n
  <2>6. /\ Only(n, w, {"painted", "known", "due", "invalid"})
        /\ Reopened(n, w) /\ w.invalid = (n.invalid \/ buddyMode = TRUE)
    BY <2>1, <2>5, PetInvalidateView
  <2>7. /\ Only(v, w, Layout \cup {"face", "approval"}) /\ w.face = None
        /\ w.approval = None
    BY <1>1, <2>2, <2>4, <2>6 DEF Only, Layout
  <2>8. Paged(r, n) BY <2>2, <2>4 DEF Paged, Only
  <2>9. Paged(v, w)
    <3>1. Paged(v, n) BY <1>1, <2>8 DEF Paged, Only, Wiped, Animated
    <3>2. /\ w.peek = n.peek /\ w.small = n.small
          /\ n.mood = v.mood
      BY <1>1, <2>2, <2>4, <2>6 DEF Only, Layout
    <3> QED BY <2>6, <3>1, <3>2, PagedStays
  <2>10. loaded = "none" => w.due = v.due
    BY <2>9, ViewParts DEF Paged, Animated
  <2> QED BY <1>5, <2>7, <2>9, <2>10
<1> QED BY <1>3, <1>4, <1>5

LEMMA AfterPromptView ==
  ASSUME NEW v \in Views, NEW running \in BOOLEAN
  PROVE  LET w == Screens!AfterPrompt(v, running) IN
         IF ~(previousPrompt /\ ~inPrompt) THEN w = v
         ELSE /\ w.approval = None
              /\ IF running THEN Only(v, w, {"approval"})
                 ELSE /\ Only(v, w, {"painted", "known", "due", "invalid",
                                     "approval"})
                      /\ w.painted = {} /\ w.known = Wiped(v)
                      /\ w.due = (v.due \/ Animated(v))
                      /\ w.invalid = (v.invalid \/ buddyMode = TRUE)
<1> DEFINE r == [v EXCEPT !.approval = None]
           f == Screens!Fill(r)
           w == Screens!AfterPrompt(v, running)
<1>1. Only(v, r, {"approval"}) /\ r.approval = None BY SetApproval
<1>2. r \in Views BY <1>1 DEF Only
<1>3. CASE ~(previousPrompt /\ ~inPrompt) BY <1>3 DEF Screens!AfterPrompt
<1>4. CASE previousPrompt /\ ~inPrompt
  <2>1. w = IF running THEN r ELSE Screens!PetInvalidate(f)
    BY <1>4 DEF Screens!AfterPrompt
  <2> HIDE DEF r
  <2>2. /\ Only(r, f, {"painted", "known"})
        /\ f.painted = {} /\ f.known = Wiped(r)
    BY <1>2, FillView
  <2>3. f \in Views BY <2>2 DEF Only
  <2> HIDE DEF f
  <2>4. CASE running
    <3>1. w = r BY <2>1, <2>4
    <3> QED BY <3>1, <1>1, <1>4, <2>4
  <2>5. CASE ~running
    <3>1. w = Screens!PetInvalidate(f) BY <2>1, <2>5
    <3>2. /\ Only(f, w, {"painted", "known", "due", "invalid"})
          /\ Reopened(f, w)
          /\ w.invalid = (f.invalid \/ buddyMode = TRUE)
      BY <3>1, <2>3, PetInvalidateView
    <3>3. /\ Only(v, w, {"painted", "known", "due", "invalid", "approval"})
          /\ w.approval = None
      BY <1>1, <2>2, <3>2 DEF Only
    <3>4. w.painted = {} /\ w.known = Wiped(v)
      BY <1>1, <2>2, <3>2 DEF Only, Reopened, Wiped
    <3>5. w.due = (v.due \/ Animated(v))
      BY <1>1, <2>2, <3>2 DEF Only, Reopened, Animated
    <3>6. w.invalid = (v.invalid \/ buddyMode = TRUE)
      BY <1>1, <2>2, <3>2 DEF Only
    <3> QED BY <1>4, <2>5, <3>3, <3>4, <3>5, <3>6
  <2> QED BY <2>4, <2>5
<1> QED BY <1>3, <1>4

LEMMA PageView ==
  ASSUME NEW v \in Views, mode \in {"normal", "pet", "info"},
         overlay \in BOOLEAN, open \subseteq Screens!Panels
  PROVE  LET w == Screens!Page(v) IN
         /\ Only(v, w, {"painted"})
         /\ w.painted =
              (v.painted \ (IF mode = "normal" THEN {}
                            ELSE {"splash", "message", "pet", "info",
                                  "approval", "overlay"}))
                \cup ({mode} \ {"normal"}) \cup ({Screens!Top} \ {None}) \cup Screens!Overlay
<1> DEFINE panel == IF Screens!Top = None THEN {} ELSE {Screens!Top}
           wiped == Screens!Wipe(v, 70, 240)
           paged == IF mode = "normal" THEN v ELSE Screens!Paint(wiped, {mode})
           w == Screens!Page(v)
           gone == IF mode = "normal" THEN {}
                   ELSE {"splash", "message", "pet", "info", "approval",
                         "overlay"}
<1>1. w = Screens!Paint(paged, panel \cup Screens!Overlay) BY DEF Screens!Page
<1>2. Only(v, v, {}) BY ViewParts
<1>3. /\ Only(v, wiped, {"painted"})
      /\ wiped.painted = v.painted \ {"splash", "message", "pet", "info",
                                      "approval", "overlay"}
  BY WipeView, ReachedLayers
<1>4. wiped \in Views BY <1>3 DEF Only
<1> HIDE DEF wiped
<1>5. /\ Only(v, paged, {"painted"})
      /\ paged.painted = (v.painted \ gone) \cup ({mode} \ {"normal"})
  <2>1. CASE mode = "normal" BY <2>1, <1>2 DEF Only
  <2>2. CASE mode # "normal"
    <3>1. {mode} \in SUBSET Layers BY <2>2 DEF Layers
    <3>2. /\ Only(wiped, paged, {"painted"})
          /\ paged.painted = wiped.painted \cup {mode}
      BY <2>2, <3>1, <1>4, PaintView
    <3> QED BY <2>2, <3>2, <1>3 DEF Only
  <2> QED BY <2>1, <2>2
<1>6. paged \in Views BY <1>5 DEF Only
<1>7. panel \cup Screens!Overlay \in SUBSET Layers
  BY TopPanel, PanelNames DEF Screens!Overlay, Layers
<1> HIDE DEF paged, gone
<1>8. panel = {Screens!Top} \ {None} OBVIOUS
<1>9. /\ Only(paged, w, {"painted"})
      /\ w.painted = paged.painted \cup panel \cup Screens!Overlay
  <2> DEFINE added == panel \cup Screens!Overlay
  <2> HIDE DEF added
  <2>1. added \in SUBSET Layers BY <1>7 DEF added
  <2>2. w = Screens!Paint(paged, added) BY <1>1 DEF added
  <2>3. Only(paged, w, {"painted"}) /\ w.painted = paged.painted \cup added
    BY <1>6, <2>1, <2>2, PaintView
  <2> QED BY <2>3 DEF added
<1>10. Only(v, w, {"painted"}) BY <1>5, <1>9 DEF Only
<1> QED BY <1>5, <1>8, <1>9, <1>10 DEF gone

\* The layers that show the pet are those of what is there, at its scale.
PetOk(v) ==
  /\ buddyMode /\ (~v.invalid \/ inPrompt) =>
       v.painted \cap Bodies \subseteq {Screens!Pet("ascii", v.small)}
  /\ buddyMode /\ ~v.invalid => Screens!Pet("ascii", v.small) \in v.painted
  /\ ~buddyMode /\ loaded # "none" /\ v.mood # None =>
       /\ v.painted \cap Bodies \subseteq {Screens!Pet(loaded, v.peek)}
       /\ ~v.due => Screens!Pet(loaded, v.peek) \in v.painted

\* A page holds bodies of its scale and what else belongs to it.
PageOk(v, more) ==
  "dismissed" \notin v.known =>
    /\ v.peek = (mode # "normal") /\ v.small = (mode # "normal")
    /\ v.painted \subseteq OfScale(mode # "normal") \cup more
    /\ "switched" \notin v.known => PetOk(v)

PetDrawn(v) ==
  "switched" \notin v.known =>
    /\ buddyMode =>
         /\ ~v.invalid /\ Screens!Pet("ascii", v.small) \in v.painted
         /\ v.painted \cap Bodies \subseteq
              {Screens!Pet("ascii", v.small)}
                \cup (IF v.small /\ ~inPrompt THEN {"splash", "message"}
                      ELSE {})
    /\ ~buddyMode /\ loaded # "none" =>
         v.mood # None /\ v.painted \cap Bodies = {Screens!Pet(loaded, v.peek)}
    /\ ~buddyMode /\ loaded = "none" => v.painted = {"message"}

LEMMA PetStepView ==
  ASSUME NEW v \in Views, NEW mood \in Moods, NEW ticked \in BOOLEAN,
         None \notin Moods,
         loaded \in {"none", "gif", "text"}, buddyMode \in BOOLEAN,
         inPrompt \in BOOLEAN, mode \in {"normal", "pet", "info"},
         loaded = "none" => v.mood = None /\ ~v.due,
         NEW more, more \cap Bodies = {}, PageOk(v, more)
  PROVE  LET w == Screens!PetStep(v, mood, ticked) IN
         /\ Only(v, w, {"painted", "known", "mood", "due", "invalid"})
         /\ w.known = v.known \/ w.known = Wiped(v)
         /\ loaded = "none" => w.mood = None /\ ~w.due
         /\ "dismissed" \notin w.known =>
              /\ w.peek = (mode # "normal") /\ w.small = (mode # "normal")
              /\ w.painted \subseteq OfScale(mode # "normal") \cup more
              /\ PetDrawn(w)
<1> DEFINE w == Screens!PetStep(v, mood, ticked)
<1>1. CASE buddyMode
  <2>1. w = Screens!BuddyTick(v, ticked) BY <1>1 DEF Screens!PetStep
  <2>2. IF v.invalid \/ ticked
        THEN /\ Only(v, w, {"painted", "invalid"}) /\ ~w.invalid
             /\ w.painted =
                  (v.painted \ (IF v.small
                                THEN {"ascii1", "gif1", "text1", "text2"}
                                ELSE Bodies \cup {"overlay"}))
                    \cup {Screens!Pet("ascii", v.small)}
        ELSE w = v
    BY <2>1, BuddyTickView
  <2> HIDE DEF w
  <2>3. Only(v, v, {}) BY ViewParts
  <2>4. Only(v, w, {"painted", "invalid"}) BY <2>2, <2>3 DEF Only
  <2>5. w.known = v.known /\ w.mood = v.mood /\ w.due = v.due
        /\ w.peek = v.peek /\ w.small = v.small
    BY <2>4 DEF Only
  <2>6. ASSUME "dismissed" \notin w.known
        PROVE  /\ w.peek = (mode # "normal") /\ w.small = (mode # "normal")
               /\ w.painted \subseteq OfScale(mode # "normal") \cup more
               /\ PetDrawn(w)
    <3>1. /\ v.peek = (mode # "normal") /\ v.small = (mode # "normal")
          /\ v.painted \subseteq OfScale(mode # "normal") \cup more
          /\ "switched" \notin v.known => PetOk(v)
      BY <2>5, <2>6 DEF PageOk
    <3>2. Screens!Pet("ascii", v.small) \in OfScale(mode # "normal")
      BY <3>1 DEF Screens!Pet, OfScale, Bodies, Large, Little
    <3>3. w.painted \subseteq OfScale(mode # "normal") \cup more
      BY <2>2, <3>1, <3>2
    <3>4. ASSUME "switched" \notin w.known
          PROVE  /\ ~w.invalid /\ Screens!Pet("ascii", w.small) \in w.painted
                 /\ w.painted \cap Bodies \subseteq
                      {Screens!Pet("ascii", w.small)}
                        \cup (IF w.small /\ ~inPrompt
                              THEN {"splash", "message"} ELSE {})
      <4>1. PetOk(v) BY <3>1, <3>4, <2>5
      <4>2. CASE ~(v.invalid \/ ticked)
        <5>1. w = v /\ ~v.invalid BY <2>2, <4>2
        <5> QED BY <4>1, <5>1, <1>1 DEF PetOk
      <4>3. CASE v.invalid \/ ticked
        <5>1. ~w.invalid /\ Screens!Pet("ascii", w.small) \in w.painted
          BY <2>2, <2>5, <4>3
        <5>2. CASE v.small
          <6>1. w.painted = (v.painted \ {"ascii1", "gif1", "text1", "text2"})
                              \cup {"ascii1"}
            BY <2>2, <4>3, <5>2 DEF Screens!Pet
          <6>2. w.painted \cap Bodies \subseteq
                  {"ascii1", "splash", "message"}
            BY <3>1, <5>2, <6>1 DEF OfScale, Bodies, Large, Little
          <6>3. inPrompt => v.painted \cap Bodies \subseteq {"ascii1"}
            BY <4>1, <5>2, <1>1 DEF PetOk, Screens!Pet
          <6>4. inPrompt => w.painted \cap Bodies \subseteq {"ascii1"}
            BY <6>1, <6>3
          <6>5. Screens!Pet("ascii", w.small) = "ascii1" /\ w.small
            BY <2>5, <5>2 DEF Screens!Pet
          <6> QED BY <5>1, <6>2, <6>4, <6>5
        <5>3. CASE ~v.small
          <6>1. w.painted = (v.painted \ (Bodies \cup {"overlay"}))
                              \cup {"ascii2"}
            BY <2>2, <4>3, <5>3 DEF Screens!Pet
          <6>2. Screens!Pet("ascii", w.small) = "ascii2"
            BY <2>5, <5>3 DEF Screens!Pet
          <6> QED BY <5>1, <6>1, <6>2
        <5> QED BY <5>2, <5>3, ViewParts
      <4> QED BY <4>2, <4>3
    <3> QED BY <1>1, <2>5, <3>1, <3>3, <3>4 DEF PetDrawn
  <2>7. Only(v, w, {"painted", "known", "mood", "due", "invalid"})
    BY <2>4 DEF Only
  <2> QED BY <2>5, <2>6, <2>7 DEF w
<1>2. CASE ~buddyMode /\ loaded # "none"
  <2> DEFINE s == Screens!SetState(v, mood)
  <2>1. w = Screens!CharacterTick(s) BY <1>2 DEF Screens!PetStep
  <2>2. IF v.mood = mood THEN s = v
        ELSE /\ Only(v, s, {"painted", "known", "mood", "due"})
             /\ s.painted = {} /\ s.known = Wiped(v)
             /\ s.mood = mood /\ s.due = TRUE
    BY <1>2, SetStateView
  <2>3. Only(v, v, {}) BY ViewParts
  <2>4. /\ Only(v, s, {"painted", "known", "mood", "due"}) /\ s.mood = mood
        /\ s.known = v.known \/ s.known = Wiped(v)
    BY <2>2, <2>3 DEF Only
  <2>5. s \in Views BY <2>4 DEF Only
  <2> HIDE DEF s
  <2>6. IF s.due
        THEN /\ Only(s, w, {"painted", "due"}) /\ ~w.due
             /\ w.painted = s.painted \cup {Screens!Pet(loaded, s.peek)}
        ELSE w = s
    BY <1>2, <2>1, <2>5, CharacterTickView
  <2> HIDE DEF w
  <2>7. Only(s, s, {}) BY <2>5, ViewParts
  <2>8. Only(s, w, {"painted", "due"}) BY <2>6, <2>7 DEF Only
  <2>9. /\ w.known = s.known /\ w.mood = mood /\ w.peek = v.peek
        /\ w.small = v.small /\ s.peek = v.peek
    BY <2>4, <2>8 DEF Only
  <2>10. Only(v, w, {"painted", "known", "mood", "due", "invalid"})
    BY <2>4, <2>8 DEF Only
  <2>11. ASSUME "dismissed" \notin w.known
         PROVE  /\ w.peek = (mode # "normal") /\ w.small = (mode # "normal")
                /\ w.painted \subseteq OfScale(mode # "normal") \cup more
                /\ PetDrawn(w)
    <3>1. /\ v.peek = (mode # "normal") /\ v.small = (mode # "normal")
          /\ v.painted \subseteq OfScale(mode # "normal") \cup more
          /\ "switched" \notin v.known => PetOk(v)
      BY <2>4, <2>9, <2>11 DEF PageOk, Wiped
    <3>2. Screens!Pet(loaded, v.peek) \in OfScale(mode # "normal")
      BY <3>1, <1>2 DEF Screens!Pet, OfScale, Bodies, Large, Little
    <3>3. s.painted \subseteq OfScale(mode # "normal") \cup more
      BY <2>2, <3>1
    <3>4. w.painted \subseteq OfScale(mode # "normal") \cup more
      BY <2>6, <2>9, <3>2, <3>3
    <3>5. Screens!Pet(loaded, v.peek) \in Bodies BY <3>2 DEF OfScale
    <3>6. ASSUME "switched" \notin w.known
          PROVE  w.painted \cap Bodies = {Screens!Pet(loaded, w.peek)}
      <4>1. CASE v.mood # mood
        <5>1. w.painted = {Screens!Pet(loaded, v.peek)}
          BY <2>2, <2>6, <2>9, <4>1
        <5> QED BY <5>1, <3>5, <2>9
      <4>2. CASE v.mood = mood
        <5>1. s = v /\ v.mood # None BY <2>2, <4>2
        <5>2. PetOk(v) BY <3>1, <3>6, <2>9, <5>1
        <5>3. /\ v.painted \cap Bodies \subseteq {Screens!Pet(loaded, v.peek)}
              /\ ~v.due => Screens!Pet(loaded, v.peek) \in v.painted
          BY <1>2, <5>1, <5>2 DEF PetOk
        <5> QED BY <2>6, <2>9, <3>5, <5>1, <5>3
      <4> QED BY <4>1, <4>2
    <3> QED BY <1>2, <2>9, <3>1, <3>4, <3>6 DEF PetDrawn
  <2> QED BY <1>2, <2>4, <2>9, <2>10, <2>11 DEF w
<1>3. CASE ~buddyMode /\ loaded = "none"
  <2> DEFINE f == Screens!Fill(v)
  <2>1. w = Screens!Paint(f, {"message"}) BY <1>3 DEF Screens!PetStep
  <2>2. /\ Only(v, f, {"painted", "known"})
        /\ f.painted = {} /\ f.known = Wiped(v)
    BY FillView
  <2>3. f \in Views BY <2>2 DEF Only
  <2>4. {"message"} \in SUBSET Layers BY DEF Layers
  <2> HIDE DEF f
  <2>5. Only(f, w, {"painted"}) /\ w.painted = f.painted \cup {"message"}
    BY <2>1, <2>3, <2>4, PaintView
  <2> HIDE DEF w
  <2>6. /\ Only(v, w, {"painted", "known", "mood", "due", "invalid"})
        /\ w.known = Wiped(v) /\ w.mood = v.mood /\ w.due = v.due
        /\ w.peek = v.peek /\ w.small = v.small
    BY <2>2, <2>5 DEF Only
  <2>7. w.painted = {"message"} BY <2>2, <2>5
  <2>8. "dismissed" \notin w.known =>
          v.peek = (mode # "normal") /\ v.small = (mode # "normal")
    BY <2>6 DEF PageOk, Wiped
  <2>9. {"message"} \subseteq OfScale(mode # "normal")
    BY DEF OfScale, Bodies, Large, Little
  <2>10. PetDrawn(w) BY <1>3, <2>7 DEF PetDrawn
  <2> QED BY <1>3, <2>6, <2>7, <2>8, <2>9, <2>10 DEF w
<1> QED BY <1>1, <1>2, <1>3

------------------------------------------------------------------------------
\* The inductive invariant, with the view, the surface and whether there was a
\* prompt as parameters, so that a pass can be followed step by step.

TypeOK ==
  /\ step \in {"data", "keys", "draw"}
  /\ inPrompt \in BOOLEAN /\ previousPrompt \in BOOLEAN
  /\ loaded \in {"none", "gif", "text"} /\ buddyMode \in BOOLEAN
  /\ open \subseteq Screens!Panels /\ mode \in {"normal", "pet", "info"}
  /\ overlay \in BOOLEAN /\ xfer \in BOOLEAN
  /\ rest \in {"lit", "napping", "off"}
  /\ view \in Views

Bare == open = {} /\ mode = "normal" /\ ~inPrompt /\ ~xfer
Hanging(v) == loaded = "none" => v.mood = None /\ ~v.due

\* A face that was drawn before and is not drawn whole again.
FaceKept(v, p, held) ==
  held # None =>
    IF Sideways(p)
    THEN /\ <<"face", held.facing>> \in v.lcd
         /\ Bare /\ "unseen" \notin v.known =>
              v.lcd \subseteq {<<"face", held.facing>>}
                                \cup Screens!Overlays(held.facing)
    ELSE Bare /\ v.known \cap {"unseen", "switched"} = {} =>
         /\ "face" \in v.painted /\ v.painted \subseteq {"face"} \cup Screens!Overlay
         /\ ~buddyMode => v.peek /\ (loaded # "none" => v.mood = held.mood)
FaceShown(v, p) ==
  /\ p.kind = "clock" => FaceKept(v, p, v.clock)
  /\ p.kind = "face" => FaceKept(v, p, v.face)

PromptShown(v, p) ==
  v.approval # None =>
    /\ p.kind = "prompt" /\ Sideways(p)
    /\ "darkened" \notin v.known => v.lcd = {<<"prompt", v.approval>>}

More(asked1) ==
  ({mode} \ {"normal"}) \cup ({Screens!Top} \ {None}) \cup Screens!Overlay
    \cup (IF asked1 THEN {"approval"} ELSE {})
PageShown(v, p, asked1) ==
  p.kind \in {"none", "prompt"} /\ ~Sideways(p) =>
    /\ PageOk(v, More(asked1))
    /\ "dismissed" \notin v.known /\ mode = "normal" /\ open = {} /\ inPrompt =>
         v.painted \subseteq {"approval"}

Shown(v, p, asked1) ==
  /\ v \in Views /\ Hanging(v)
  /\ FaceShown(v, p) /\ PromptShown(v, p) /\ PageShown(v, p, asked1)

\* NoLeftovers, of a view that a pass has drawn on the surface p.
Clean(v, p, on, asked1) ==
  LET painted == IF Screens!PetThere THEN v.painted ELSE v.painted \ {"message"}
      apart == IF "switched" \in v.known THEN Bodies ELSE {}
  IN /\ on = "lcd" =>
          \/ v.lcd = {<<IF p.kind = "prompt" THEN "prompt" ELSE "face",
                        p.facing>>} \cup Screens!Overlays(p.facing)
          \/ (IF p.kind = "prompt" THEN "darkened" ELSE "unseen") \in v.known
     /\ on = "sprite" /\ p.kind \in {"clock", "face"} =>
          \/ painted = {"face"} \cup Screens!Overlay
          \/ v.known \cap {"unseen", "switched"} # {}
     /\ on = "sprite" /\ p.kind \notin {"clock", "face"} =>
          \/ IF asked1 THEN (painted \ Screens!Expected) \ apart = {"approval"}
             ELSE painted \ apart = Screens!Expected \ apart
          \/ "dismissed" \in v.known

Surfaces ==
  /\ previous \in [kind : {"none", "clock", "face", "prompt"},
                   facing : Landscapes \cup {0, None}]
  /\ previous.kind = "prompt" => previousPrompt
  /\ previous.kind = "none" => previous.facing = None
  /\ previous.kind \in {"clock", "face"} => ~previousPrompt

Asked ==
  /\ inPrompt = (prompt = "asked")
  /\ inPrompt => ~overlay /\ rest # "napping"
  /\ update = "auto" => "receive" \notin open
  /\ step = "keys" /\ update = "auto" => overlay \/ inPrompt
  /\ xfer => loaded = "none"

Faced ==
  previous.kind \in {"clock", "face"} =>
    /\ step = "data" => Bare
    /\ step = "keys" =>
         mode = "normal" /\ (open = {} \/ (open = {"receive"} /\ update = "manual"))

Passing ==
  /\ step = "data" => previousPrompt = inPrompt
  /\ step # "data" => fresh = "none"

IInv ==
  /\ TypeOK /\ Surfaces /\ Asked /\ Faced /\ Passing
  /\ Shown(view, previous, previousPrompt)

LEMMA MoreApart ==
  ASSUME TypeOK, NEW asked1
  PROVE  /\ More(asked1) \cap Bodies = {}
         /\ More(FALSE) \subseteq More(asked1)
         /\ More(asked1) \subseteq More(FALSE) \cup {"approval"}
         /\ "approval" \notin More(FALSE) /\ "message" \notin More(asked1)
<1>1. {Screens!Top} \ {None} \subseteq Screens!Panels BY TopPanel DEF TypeOK
<1> QED BY <1>1, PanelNames
        DEF More, Bodies, Large, Little, Screens!Overlay, TypeOK

LEMMA NoneApart ==
  ASSUME ScreensAssumption
  PROVE  None \notin Landscapes /\ None \notin Moods /\ None # 0
           /\ 0 \notin Landscapes
<1>1. 0 \in Nat /\ 1 \in Nat /\ 3 \in Nat OBVIOUS
<1>2. None # 0 /\ None # 1 /\ None # 3
  BY <1>1, Zenon DEF ScreensAssumption
<1>3. Landscapes \subseteq {1, 3} /\ None \notin Moods
  BY DEF ScreensAssumption
<1>4. None \notin Landscapes BY <1>2, <1>3
<1>5. 0 \notin Landscapes BY <1>3
<1> QED BY <1>2, <1>3, <1>4, <1>5, Zenon

Surface(s, kind, facing) == s = [kind |-> kind, facing |-> facing]

Turned(s) == ChangedRunning(ChangedFace(ChangedClock(view, s), s), s)
Ready(s) == Screens!AfterPrompt(Turned(s), Running(s))
OnPage(s, mood, ticked) ==
  IF rest = "lit" /\ s.kind = "none" THEN Screens!PetStep(Ready(s), mood, ticked)
  ELSE Ready(s)

LEMMA DrawInSteps ==
  ASSUME NEW kind, NEW facing, NEW mood, NEW ticked, NEW s,
         Surface(s, kind, facing), Screens!Draw(kind, facing, mood, ticked)
  PROVE  LET drawn == Screens!Drawn(OnPage(s, mood, ticked), s, Running(s), mood)
         IN view' = drawn.view /\ fresh' = drawn.on /\ previous' = s
<1>1. Screens!Changed(view, s) = <<Turned(s), Running(s)>>
  BY ChangedInSteps DEF Turned
<1>2. Screens!Changed(view, s)[1] = Turned(s) /\ Screens!Changed(view, s)[2] = Running(s)
  BY <1>1
<1> QED BY <1>2, Zenon DEF Screens!Draw, Surface, OnPage, Ready

\* What is drawn, surface by surface.
LEMMA DrawnPage ==
  ASSUME NEW v, NEW s, NEW running, NEW mood, s.kind = "none", ~running
  PROVE  LET drawn == Screens!Drawn(v, s, running, mood) IN
         /\ inPrompt => /\ drawn.view = Screens!Push(Screens!Paint(v, {"approval"}))
                        /\ drawn.on = IF rest = "off" THEN "none" ELSE "sprite"
         /\ ~inPrompt /\ rest # "lit" => drawn.view = v /\ drawn.on = "none"
         /\ ~inPrompt /\ rest = "lit" =>
              drawn.view = Screens!Push(Screens!Page(v)) /\ drawn.on = "sprite"
<1>1. CASE inPrompt BY <1>1 DEF Screens!Drawn
<1>2. CASE ~inPrompt /\ rest # "lit" BY <1>2 DEF Screens!Drawn
<1>3. CASE ~inPrompt /\ rest = "lit" BY <1>3 DEF Screens!Drawn
<1> QED BY <1>1, <1>2, <1>3

\* What a pass has before it draws: the pages come in their layout, and what
\* is entered is drawn whole.
Stays(s) == SameClock(s) /\ SameFace(s) /\ SameRunning(s)
Turning(s, c) ==
  /\ Only(view, c, Layout \cup {"clock", "face", "approval"})
  /\ Hanging(c)
  /\ Stays(s) => c = view
  /\ ~SameClock(s) => c.clock = None
  /\ SameClock(s) => c.clock = view.clock
  /\ ~SameFace(s) \/ ~SameRunning(s) => c.face = None
  /\ c.approval \in {view.approval, None}
  /\ ~SameRunning(s) /\ ~Running(s) => c.approval = None
  /\ ~Stays(s) /\ s.kind \in {"none", "prompt"} /\ ~Running(s) =>
       /\ c.painted = {} /\ "dismissed" \notin c.known
       /\ c.invalid = TRUE /\ (Animated(c) => c.due)
       /\ c.peek = (mode # "normal") /\ c.small = (mode # "normal")

LEMMA ChangedView ==
  ASSUME ScreensAssumption, IInv, NEW s,
         s.kind \in {"none", "clock", "face", "prompt"}
  PROVE  Turning(s, Turned(s))
<1> DEFINE a == ChangedClock(view, s)
           b == ChangedFace(a, s)
           c == ChangedRunning(b, s)
           same == SameClock(s) /\ SameFace(s) /\ SameRunning(s)
           out == s.kind \in {"none", "prompt"} /\ ~Running(s)
<1>1. view \in Views /\ Hanging(view) BY DEF IInv, Shown
<1>2. IF SameClock(s) THEN a = view
      ELSE /\ Only(view, a, Layout \cup {"clock"}) /\ a.clock = None
           /\ loaded = "none" => a.due = view.due
           /\ s.kind # "clock" \/ Sideways(s) => Paged(view, a)
  BY <1>1, ChangedClockView
<1>3. a \in Views BY <1>1, <1>2 DEF Only
<1> HIDE DEF a
<1>4. IF SameFace(s) THEN b = a
      ELSE /\ Only(a, b, Layout \cup {"face"}) /\ b.face = None
           /\ loaded = "none" => b.due = a.due
           /\ s.kind # "face" => Paged(a, b)
  BY <1>3, ChangedFaceView
<1>5. b \in Views BY <1>3, <1>4 DEF Only
<1> HIDE DEF b
<1>6. IF SameRunning(s) THEN c = b
      ELSE /\ Only(b, c, Layout \cup {"face", "approval"}) /\ c.face = None
           /\ loaded = "none" => c.due = b.due
           /\ IF Running(s) THEN c.approval = b.approval
              ELSE c.approval = None /\ Paged(b, c)
  BY <1>5, ChangedRunningView
<1>7. c \in Views BY <1>5, <1>6 DEF Only
<1> HIDE DEF c
<1>8. /\ Only(view, view, {}) /\ Only(a, a, {}) /\ Only(b, b, {})
  BY <1>1, <1>3, <1>5, ViewParts
<1>9. Only(view, a, Layout \cup {"clock"}) BY <1>2, <1>8 DEF Only
<1>10. Only(a, b, Layout \cup {"face"}) BY <1>4, <1>8 DEF Only
<1>11. Only(b, c, Layout \cup {"face", "approval"}) BY <1>6, <1>8 DEF Only
<1>12. Only(view, c, Layout \cup {"clock", "face", "approval"})
  BY <1>9, <1>10, <1>11 DEF Only
<1>13. /\ a.mood = view.mood /\ b.mood = view.mood /\ c.mood = view.mood
       /\ b.clock = a.clock /\ c.clock = a.clock
       /\ a.approval = view.approval /\ b.approval = view.approval
       /\ a.face = view.face
  BY <1>9, <1>10, <1>11 DEF Only, Layout
<1>14. Hanging(c)
  <2>1. loaded = "none" => c.due = view.due BY <1>2, <1>4, <1>6
  <2> QED BY <1>1, <1>13, <2>1 DEF Hanging
<1>15. same => c = view BY <1>2, <1>4, <1>6
<1>16. /\ ~SameClock(s) => c.clock = None
       /\ SameClock(s) => c.clock = view.clock
  BY <1>2, <1>13
<1>17. ~SameFace(s) \/ ~SameRunning(s) => c.face = None BY <1>4, <1>6
<1>18. /\ c.approval \in {view.approval, None}
       /\ ~SameRunning(s) /\ ~Running(s) => c.approval = None
  BY <1>6, <1>13
<1>19. ASSUME ~same, out
       PROVE  /\ c.painted = {} /\ "dismissed" \notin c.known
              /\ c.invalid = TRUE /\ (Animated(c) => c.due)
              /\ c.peek = (mode # "normal") /\ c.small = (mode # "normal")
  <2>1. PICK v \in {view, a, b} : Paged(v, c)
    <3>1. CASE ~SameRunning(s) BY <1>6, <1>19, <3>1
    <3>2. CASE SameRunning(s) /\ ~SameFace(s) BY <1>4, <1>6, <1>19, <3>2
    <3>3. CASE SameRunning(s) /\ SameFace(s) /\ ~SameClock(s)
      BY <1>2, <1>4, <1>6, <1>19, <3>3
    <3> QED BY <1>19, <3>1, <3>2, <3>3
  <2>2. v.mood = c.mood BY <1>13
  <2> QED BY <2>1, <2>2 DEF Paged, Animated
<1> HIDE DEF same, out
<1>20. ~same /\ out =>
              /\ c.painted = {} /\ "dismissed" \notin c.known
              /\ c.invalid = TRUE /\ (Animated(c) => c.due)
              /\ c.peek = (mode # "normal") /\ c.small = (mode # "normal")
  BY <1>19
<1> QED BY <1>12, <1>14, <1>15, <1>16, <1>17, <1>18, <1>20
        DEF same, out, a, b, c, Turned, Stays, Turning

\* The page, with its panel and the pet.
LEMMA DrawPage ==
  ASSUME ScreensAssumption, IInv, NEW activity,
         Screens!Kind(activity) = "none", NEW mood \in Moods,
         NEW ticked \in BOOLEAN, Screens!Draw("none", None, mood, ticked)
  PROVE  /\ Shown(view', previous', inPrompt)
         /\ Clean(view', previous', fresh', inPrompt)
<1>1. PICK s : Surface(s, "none", None) BY DEF Surface
<1>2. /\ s.kind = "none" /\ s.facing = None /\ ~Sideways(s) /\ ~Running(s)
  BY <1>1, NoneApart DEF Surface, Sideways, Running
<1> DEFINE c == Turned(s)
           ready == Ready(s)
           lit == rest = "lit"
           pet == OnPage(s, mood, ticked)
           same == Stays(s)
           w == view'
           more == More(inPrompt /\ previousPrompt)
<1>3. /\ ready = Screens!AfterPrompt(c, Running(s))
      /\ lit => pet = Screens!PetStep(ready, mood, ticked)
      /\ ~lit => pet = ready
  BY <1>2 DEF Ready, OnPage
<1>4. /\ w = Screens!Drawn(pet, s, Running(s), mood).view
      /\ fresh' = Screens!Drawn(pet, s, Running(s), mood).on
      /\ previous' = s
  BY <1>1, DrawInSteps
<1> HIDE DEF pet, ready
<1>5. /\ Only(view, c, Layout \cup {"clock", "face", "approval"})
      /\ Hanging(c)
      /\ same => c = view
      /\ c.approval \in {view.approval, None}
      /\ ~SameRunning(s) => c.approval = None
      /\ ~same =>
           /\ c.painted = {} /\ "dismissed" \notin c.known
           /\ c.invalid = TRUE /\ (Animated(c) => c.due)
           /\ c.peek = (mode # "normal") /\ c.small = (mode # "normal")
  <2>1. s.kind \in {"none", "clock", "face", "prompt"} BY <1>2
  <2>2. Turning(s, c) BY <2>1, ChangedView
  <2> HIDE DEF c
  <2> QED BY <1>2, <2>2 DEF Turning
<1>6. c \in Views BY <1>5 DEF Only
<1>7. /\ TypeOK /\ Surfaces /\ Asked /\ view \in Views
      /\ PromptShown(view, previous)
      /\ PageShown(view, previous, previousPrompt)
  BY DEF IInv, Shown
<1> HIDE DEF c
<1>8. c.approval = None
  <2>1. CASE SameRunning(s)
    <3>1. ~(previous.kind = "prompt" /\ Sideways(previous))
      BY <1>2, <2>1 DEF SameRunning, Running
    <3> QED BY <3>1, <1>5, <1>7 DEF PromptShown
  <2> QED BY <1>5, <2>1
<1>9. PageOk(c, More(previousPrompt))
  <2>1. CASE same
    <3>1. previous.kind \in {"none", "prompt"}
      BY <1>2, <1>7, <2>1 DEF Stays, SameClock, SameFace, Surfaces
    <3>2. ~Sideways(previous)
      BY <1>2, <1>7, <2>1, <3>1, NoneApart
         DEF Stays, SameRunning, Running, Surfaces, Sideways
    <3> QED BY <1>5, <1>7, <2>1, <3>1, <3>2 DEF PageShown
  <2>2. CASE ~same
    <3>1. PetOk(c) BY <1>5, <2>2 DEF PetOk, Animated
    <3> QED BY <1>5, <2>2, <3>1 DEF PageOk
  <2> QED BY <2>1, <2>2
<1> DEFINE exits == previousPrompt /\ ~inPrompt
<1>10. IF ~exits THEN ready = c
       ELSE /\ ready.approval = None
            /\ Only(c, ready, {"painted", "known", "due", "invalid",
                               "approval"})
            /\ ready.painted = {} /\ ready.known = Wiped(c)
            /\ ready.due = (c.due \/ Animated(c))
            /\ ready.invalid = (c.invalid \/ buddyMode = TRUE)
  <2>1. Running(s) \in BOOLEAN BY DEF Running
  <2> QED BY <1>2, <1>3, <1>6, <2>1, AfterPromptView
<1>11. ready \in Views /\ ready.approval = None
  BY <1>6, <1>8, <1>10 DEF Only
<1>12. Hanging(ready)
  <2>1. CASE ~exits BY <1>5, <1>10, <2>1
  <2>2. CASE exits
    <3>1. ready.mood = c.mood BY <1>10, <2>2 DEF Only
    <3> QED BY <1>5, <1>10, <2>2, <3>1 DEF Hanging, Animated
  <2> QED BY <2>1, <2>2
<1>13. PageOk(ready, more)
  <2>1. CASE ~exits
    <3>1. more = More(previousPrompt) BY <2>1, <1>7 DEF More, TypeOK
    <3> QED BY <1>9, <1>10, <2>1, <3>1
  <2>2. CASE exits
    <3>1. /\ ready.mood = c.mood /\ ready.peek = c.peek
          /\ ready.small = c.small
      BY <1>10, <2>2 DEF Only
    <3>2. PetOk(ready) BY <1>10, <2>2, <3>1 DEF PetOk, Animated
    <3> QED BY <1>9, <1>10, <2>2, <3>1, <3>2 DEF PageOk, Wiped
  <2> QED BY <2>1, <2>2
<1>14. more \cap Bodies = {} BY <1>7, MoreApart
<1> HIDE DEF more
<1>15. lit =>
         /\ Only(ready, pet, {"painted", "known", "mood", "due", "invalid"})
         /\ pet.known = ready.known \/ pet.known = Wiped(ready)
         /\ Hanging(pet)
         /\ "dismissed" \notin pet.known =>
              /\ pet.peek = (mode # "normal") /\ pet.small = (mode # "normal")
              /\ pet.painted \subseteq OfScale(mode # "normal") \cup more
              /\ PetDrawn(pet)
  <2> SUFFICES ASSUME lit
               PROVE
         /\ Only(ready, pet, {"painted", "known", "mood", "due", "invalid"})
         /\ pet.known = ready.known \/ pet.known = Wiped(ready)
         /\ Hanging(pet)
         /\ "dismissed" \notin pet.known =>
              /\ pet.peek = (mode # "normal") /\ pet.small = (mode # "normal")
              /\ pet.painted \subseteq OfScale(mode # "normal") \cup more
              /\ PetDrawn(pet)
    OBVIOUS
  <2>1. pet = Screens!PetStep(ready, mood, ticked) BY <1>3
  <2>2. /\ Only(ready, pet, {"painted", "known", "mood", "due", "invalid"})
        /\ pet.known = ready.known \/ pet.known = Wiped(ready)
        /\ loaded = "none" => pet.mood = None /\ ~pet.due
        /\ "dismissed" \notin pet.known =>
             /\ pet.peek = (mode # "normal") /\ pet.small = (mode # "normal")
             /\ pet.painted \subseteq OfScale(mode # "normal") \cup more
             /\ PetDrawn(pet)
    <3>1. loaded = "none" => ready.mood = None /\ ~ready.due
      BY <1>12 DEF Hanging
    <3>2. /\ None \notin Moods /\ loaded \in {"none", "gif", "text"}
          /\ buddyMode \in BOOLEAN /\ inPrompt \in BOOLEAN
          /\ mode \in {"normal", "pet", "info"}
      BY <1>7, NoneApart DEF TypeOK
    <3> QED BY <1>11, <1>13, <1>14, <2>1, <3>1, <3>2, PetStepView
  <2> QED BY <2>2 DEF Hanging
<1> DEFINE goal == /\ w \in Views /\ Hanging(w) /\ w.approval = None
                    /\ PageOk(w, More(inPrompt))
                    /\ Clean(w, s, fresh', inPrompt)
<1>16. ASSUME ~lit, ~inPrompt PROVE goal
  <2>1. w = ready /\ fresh' = "none" BY <1>2, <1>3, <1>4, <1>16, DrawnPage
  <2>2. more = More(inPrompt) BY <1>16 DEF more, More
  <2> QED BY <1>11, <1>12, <1>13, <2>1, <2>2 DEF Clean
<1>17. ASSUME lit, ~inPrompt PROVE goal
  <2>1. w = Screens!Push(Screens!Page(pet)) /\ fresh' = "sprite"
    BY <1>2, <1>4, <1>17, DrawnPage
  <2>2. pet \in Views /\ pet.approval = None
    BY <1>11, <1>15, <1>17 DEF Only
  <2> DEFINE q == Screens!Page(pet)
             gone == IF mode = "normal" THEN {}
                     ELSE {"splash", "message", "pet", "info", "approval",
                           "overlay"}
  <2>3. /\ Only(pet, q, {"painted"})
        /\ q.painted = (pet.painted \ gone) \cup More(FALSE)
    <3>1. /\ Only(pet, q, {"painted"})
          /\ q.painted = (pet.painted \ gone)
               \cup ({mode} \ {"normal"}) \cup ({Screens!Top} \ {None}) \cup Screens!Overlay
      BY <1>7, <2>2, PageView DEF TypeOK
    <3> QED BY <3>1 DEF More
  <2>4. q \in Views BY <2>3 DEF Only
  <2> HIDE DEF q, gone
  <2>5. Only(q, w, {"lcd"}) BY <2>1, <2>4, PushView DEF q
  <2>6. /\ w \in Views /\ w.painted = (pet.painted \ gone) \cup More(FALSE)
        /\ w.known = pet.known /\ w.mood = pet.mood /\ w.due = pet.due
        /\ w.invalid = pet.invalid /\ w.peek = pet.peek
        /\ w.small = pet.small /\ w.approval = None
    BY <2>2, <2>3, <2>5 DEF Only
  <2>7. more = More(FALSE) BY <1>17 DEF more, More
  <2>8. More(FALSE) \cap Bodies = {} BY <1>7, MoreApart
  <2>9. w.painted \cap Bodies = (pet.painted \ gone) \cap Bodies
    BY <2>6, <2>8
  <2>10. ASSUME "dismissed" \notin w.known
         PROVE  /\ w.peek = (mode # "normal") /\ w.small = (mode # "normal")
                /\ w.painted \subseteq OfScale(mode # "normal") \cup More(FALSE)
                /\ PetDrawn(pet)
    BY <1>15, <1>17, <2>6, <2>7, <2>10
  <2>11. ASSUME "dismissed" \notin w.known, "switched" \notin w.known
         PROVE  w.painted \cap Bodies =
                  IF buddyMode THEN {Screens!Pet("ascii", w.small)}
                  ELSE IF loaded # "none" THEN {Screens!Pet(loaded, w.peek)}
                  ELSE {"message"} \ gone
    <3>1. PetDrawn(pet) BY <2>10, <2>11
    <3>2. CASE buddyMode
      <4>1. /\ Screens!Pet("ascii", pet.small) \in pet.painted
            /\ pet.painted \cap Bodies \subseteq
                 {Screens!Pet("ascii", pet.small)}
                   \cup (IF pet.small /\ ~inPrompt
                         THEN {"splash", "message"} ELSE {})
        BY <2>6, <2>11, <3>1, <3>2 DEF PetDrawn
      <4>2. /\ Screens!Pet("ascii", pet.small) \in Bodies
            /\ Screens!Pet("ascii", pet.small) \notin gone
        BY DEF Screens!Pet, Bodies, Large, Little, gone
      <4>3. pet.small => {"splash", "message"} \subseteq gone
        BY <2>6, <2>10, <2>11 DEF gone
      <4> QED BY <2>6, <2>9, <3>2, <4>1, <4>2, <4>3
    <3>3. CASE ~buddyMode /\ loaded # "none"
      <4>1. pet.painted \cap Bodies = {Screens!Pet(loaded, pet.peek)}
        BY <2>6, <2>11, <3>1, <3>3 DEF PetDrawn
      <4>2. Screens!Pet(loaded, pet.peek) \notin gone
        BY <1>7, <3>3 DEF Screens!Pet, gone, TypeOK
      <4> QED BY <2>6, <2>9, <3>3, <4>1, <4>2
    <3>4. CASE ~buddyMode /\ loaded = "none"
      <4>1. pet.painted = {"message"}
        BY <2>6, <2>11, <3>1, <3>4 DEF PetDrawn
      <4>2. "message" \in Bodies BY DEF Bodies
      <4> QED BY <2>9, <3>4, <4>1, <4>2
    <3> QED BY <3>2, <3>3, <3>4
  <2>12. PageOk(w, More(inPrompt))
    <3>1. More(inPrompt) = More(FALSE) BY <1>17 DEF More
    <3>2. ASSUME "dismissed" \notin w.known, "switched" \notin w.known
          PROVE  PetOk(w)
      <4>1. ~buddyMode /\ loaded # "none" =>
              Screens!Pet(loaded, w.peek) \in w.painted
        BY <2>11, <3>2
      <4>2. buddyMode => Screens!Pet("ascii", w.small) \in w.painted
        BY <2>11, <3>2
      <4> QED BY <2>11, <3>2, <4>1, <4>2 DEF PetOk
    <3> QED BY <2>10, <3>1, <3>2 DEF PageOk
  <2>13. Clean(w, s, fresh', inPrompt)
    <3> DEFINE seen == IF Screens!PetThere THEN w.painted
                       ELSE w.painted \ {"message"}
    <3>6. SUFFICES ASSUME "dismissed" \notin w.known
                   PROVE  IF "switched" \in w.known
                          THEN seen \ Bodies = Screens!Expected \ Bodies
                          ELSE seen = Screens!Expected
      <4>1. ("switched" \notin w.known /\ seen = Screens!Expected) =>
              seen \ {} = Screens!Expected \ {}
        OBVIOUS
      <4> HIDE DEF seen
      <4> QED BY <1>2, <1>17, <2>1, <4>1 DEF Clean, seen
    <3>7. CASE "switched" \in w.known
      <4>1. w.painted \ Bodies = More(FALSE)
        BY <2>6, <2>8, <2>10, <3>6 DEF OfScale
      <4>2. "message" \in Bodies BY DEF Bodies
      <4>3. Screens!Expected \ Bodies = More(FALSE)
        BY <1>7, <2>8 DEF Screens!Expected, More, Screens!Pet, Bodies, Large,
           Little, Screens!PetThere, TypeOK
      <4> QED BY <3>7, <4>1, <4>2, <4>3
    <3>8. SUFFICES ASSUME "switched" \notin w.known
                   PROVE  seen = Screens!Expected
      BY <3>7
    <3>1. w.painted =
            (w.painted \cap Bodies) \cup More(FALSE)
      BY <2>6, <2>10, <3>6 DEF OfScale
    <3>2. w.painted \cap Bodies =
                  IF buddyMode THEN {Screens!Pet("ascii", w.small)}
                  ELSE IF loaded # "none" THEN {Screens!Pet(loaded, w.peek)}
                  ELSE {"message"} \ gone
      BY <2>11, <3>6, <3>8
    <3>3. w.small = (mode # "normal") /\ w.peek = (mode # "normal")
      BY <2>10, <3>6
    <3>4. CASE Screens!PetThere
      <4>1. w.painted =
              {Screens!Pet(IF buddyMode THEN "ascii" ELSE loaded, mode # "normal")}
                \cup More(FALSE)
        BY <1>7, <3>1, <3>2, <3>3, <3>4 DEF Screens!PetThere, TypeOK
      <4> QED BY <3>4, <4>1 DEF Screens!Expected, More
    <3>5. CASE ~Screens!PetThere
      <4>1. w.painted \ {"message"} = More(FALSE)
        BY <1>7, <3>1, <3>2, <3>5, MoreApart DEF Screens!PetThere
      <4> QED BY <3>5, <4>1 DEF Screens!Expected, More
    <3> QED BY <3>4, <3>5
  <2>14. Hanging(w) BY <1>15, <1>17, <2>6 DEF Hanging
  <2> QED BY <2>6, <2>12, <2>13, <2>14
<1>18. ASSUME inPrompt PROVE goal
  <2>1. /\ w = Screens!Push(Screens!Paint(pet, {"approval"}))
        /\ fresh' = IF rest = "off" THEN "none" ELSE "sprite"
    BY <1>2, <1>4, <1>18, DrawnPage
  <2>2. lit \/ rest = "off" BY <1>7, <1>18 DEF Asked, TypeOK
  <2>3. pet \in Views /\ pet.approval = None /\ Hanging(pet)
    BY <1>3, <1>11, <1>12, <1>15 DEF Only
  <2> DEFINE q == Screens!Paint(pet, {"approval"})
  <2>4. {"approval"} \in SUBSET Layers BY DEF Layers
  <2>5. /\ Only(pet, q, {"painted"})
        /\ q.painted = pet.painted \cup {"approval"}
    BY <2>3, <2>4, PaintView
  <2>6. q \in Views BY <2>5 DEF Only
  <2> HIDE DEF q
  <2>7. Only(q, w, {"lcd"}) BY <2>1, <2>6, PushView DEF q
  <2>8. /\ w \in Views /\ w.painted = pet.painted \cup {"approval"}
        /\ w.known = pet.known /\ w.mood = pet.mood /\ w.due = pet.due
        /\ w.invalid = pet.invalid /\ w.peek = pet.peek
        /\ w.small = pet.small /\ w.approval = None
    BY <2>3, <2>5, <2>7 DEF Only
  <2>9. more \subseteq More(TRUE) /\ "approval" \in More(TRUE)
    BY DEF more, More
  <2>10. "approval" \notin Bodies BY DEF Bodies, Large, Little
  <2>11. w.painted \cap Bodies = pet.painted \cap Bodies BY <2>8, <2>10
  <2>12. ASSUME "dismissed" \notin w.known
         PROVE  /\ w.peek = (mode # "normal") /\ w.small = (mode # "normal")
                /\ w.painted \subseteq OfScale(mode # "normal") \cup More(TRUE)
    <3>1. CASE lit BY <1>15, <2>8, <2>9, <2>12, <3>1
    <3>2. CASE ~lit
      <4>1. pet = ready BY <1>3, <3>2
      <4> QED BY <1>13, <2>8, <2>9, <2>12, <4>1 DEF PageOk
    <3> QED BY <3>1, <3>2
  <2>13. ASSUME "dismissed" \notin w.known, "switched" \notin w.known
         PROVE  PetOk(w)
    <3>1. CASE lit
      <4>1. PetDrawn(pet) BY <1>15, <2>8, <2>13, <3>1
      <4>2. buddyMode =>
              /\ Screens!Pet("ascii", w.small) \in w.painted
              /\ w.painted \cap Bodies \subseteq {Screens!Pet("ascii", w.small)}
        BY <1>18, <2>8, <2>11, <2>13, <4>1 DEF PetDrawn
      <4>3. ~buddyMode /\ loaded # "none" =>
              w.painted \cap Bodies = {Screens!Pet(loaded, w.peek)}
        BY <2>8, <2>11, <2>13, <4>1 DEF PetDrawn
      <4> QED BY <4>2, <4>3 DEF PetOk
    <3>2. CASE ~lit
      <4>1. pet = ready BY <1>3, <3>2
      <4>2. PetOk(pet) BY <1>13, <2>8, <2>13, <4>1 DEF PageOk
      <4> QED BY <2>8, <2>11, <4>2 DEF PetOk
    <3> QED BY <3>1, <3>2
  <2>14. PageOk(w, More(inPrompt))
    <3>1. More(inPrompt) = More(TRUE) BY <1>18 DEF More
    <3> QED BY <2>12, <2>13, <3>1 DEF PageOk
  <2>15. Clean(w, s, fresh', inPrompt)
    <3> DEFINE seen == IF Screens!PetThere THEN w.painted
                       ELSE w.painted \ {"message"}
    <3>10. SUFFICES ASSUME "dismissed" \notin w.known, lit
                    PROVE  IF "switched" \in w.known
                           THEN (seen \ Screens!Expected) \ Bodies = {"approval"}
                           ELSE seen \ Screens!Expected = {"approval"}
      <4>1. ("switched" \notin w.known /\ seen \ Screens!Expected = {"approval"}) =>
              (seen \ Screens!Expected) \ {} = {"approval"}
        OBVIOUS
      <4> HIDE DEF seen
      <4> QED BY <1>2, <1>18, <2>1, <2>2, <4>1 DEF Clean, seen
    <3>2. pet.small = (mode # "normal") /\ pet.peek = (mode # "normal")
      BY <1>15, <2>8, <3>10
    <3>3. w.painted \subseteq (w.painted \cap Bodies) \cup More(TRUE)
      BY <2>12, <3>10 DEF OfScale
    <3>4. More(TRUE) = More(FALSE) \cup {"approval"} BY DEF More
    <3>5. Screens!Expected =
            (IF Screens!PetThere
             THEN {Screens!Pet(IF buddyMode THEN "ascii" ELSE loaded,
                       mode # "normal")} ELSE {}) \cup More(FALSE)
      BY DEF Screens!Expected, More
    <3>6. "approval" \notin More(FALSE) BY <1>7, MoreApart
    <3>11. CASE "switched" \in w.known
      <4>1. "message" \in Bodies BY DEF Bodies
      <4>2. "approval" \notin Screens!Expected
        BY <1>7, <3>5, <3>6
           DEF Screens!Pet, Screens!PetThere, TypeOK
      <4> QED BY <2>8, <2>10, <3>3, <3>4, <3>5, <3>11, <4>1, <4>2
    <3>12. SUFFICES ASSUME "switched" \notin w.known
                    PROVE  seen \ Screens!Expected = {"approval"}
      BY <3>11
    <3>1. PetDrawn(pet) BY <1>15, <2>8, <3>10
    <3>7. CASE buddyMode
      <4>1. pet.painted \cap Bodies \subseteq {Screens!Pet("ascii", mode # "normal")}
        BY <1>18, <2>8, <3>1, <3>2, <3>7, <3>12 DEF PetDrawn
      <4>2. Screens!Pet("ascii", mode # "normal") \in Bodies
        BY DEF Screens!Pet, Bodies, Large, Little
      <4>3. Screens!PetThere BY <3>7 DEF Screens!PetThere
      <4> QED BY <2>8, <2>10, <2>11, <3>3, <3>4, <3>5, <3>6, <3>7, <4>1,
                 <4>2, <4>3
    <3>8. CASE ~buddyMode /\ loaded # "none"
      <4>1. pet.painted \cap Bodies = {Screens!Pet(loaded, mode # "normal")}
        BY <2>8, <3>1, <3>2, <3>8, <3>12 DEF PetDrawn
      <4>2. Screens!PetThere BY <3>8 DEF Screens!PetThere
      <4> QED BY <2>8, <2>10, <2>11, <3>3, <3>4, <3>5, <3>6, <3>8, <4>1,
                 <4>2
    <3>9. CASE ~buddyMode /\ loaded = "none"
      <4>1. pet.painted = {"message"}
        BY <2>8, <3>1, <3>9, <3>12 DEF PetDrawn
      <4>2. ~Screens!PetThere BY <3>9 DEF Screens!PetThere
      <4> QED BY <2>8, <3>5, <3>6, <4>1, <4>2
    <3> QED BY <3>7, <3>8, <3>9
  <2>16. Hanging(w) BY <2>3, <2>8 DEF Hanging
  <2> QED BY <2>8, <2>14, <2>15, <2>16
<1>19. goal BY <1>16, <1>17, <1>18
<1>20. ~(mode = "normal" /\ open = {} /\ inPrompt)
  BY DEF Screens!Kind, Screens!SharedClockFaceSelected
<1>21. /\ FaceShown(w, s) /\ PromptShown(w, s) /\ PageShown(w, s, inPrompt)
  BY <1>2, <1>19, <1>20 DEF FaceShown, PromptShown, PageShown
<1> HIDE DEF w
<1>22. Shown(w, s, inPrompt) /\ Clean(w, s, fresh', inPrompt)
  BY <1>19, <1>21 DEF Shown
<1> QED BY <1>4, <1>22, Zenon DEF w

LEMMA ApprovalView ==
  ASSUME NEW v \in Views, NEW facing \in Landscapes, NEW mood \in Moods
  PROVE  LET w == Screens!ApprovalOnDisplay(v, facing, mood) IN
         /\ Only(v, w, {"painted", "known", "mood", "due", "approval", "lcd"})
         /\ w.approval = facing
         /\ loaded = "none" => w.mood = v.mood /\ w.due = v.due
         /\ IF v.approval # facing THEN w.lcd = {<<"prompt", facing>>}
            ELSE /\ w.lcd = v.lcd \cup {<<"prompt", facing>>}
                 /\ "darkened" \in v.known => "darkened" \in w.known
<1> DEFINE whole == v.approval # facing
           r == IF buddyMode THEN v ELSE Screens!SetState(v, mood)
           w == Screens!ApprovalOnDisplay(v, facing, mood)
           mark == {<<"prompt", facing>>}
           lcd == IF whole THEN mark ELSE r.lcd \cup mark
           known == IF whole THEN r.known \ {"darkened"} ELSE r.known
<1>1. w = [r EXCEPT !.approval = facing, !.lcd = lcd, !.known = known]
  BY DEF Screens!ApprovalOnDisplay
<1>2. Only(v, v, {}) BY ViewParts
<1>3. /\ Only(v, r, {"painted", "known", "mood", "due"})
      /\ loaded = "none" => r.mood = v.mood /\ r.due = v.due
      /\ r.known = v.known \/ r.known = Wiped(v)
  <2>1. CASE buddyMode BY <1>2, <2>1 DEF Only
  <2>2. CASE ~buddyMode
    <3>1. r = Screens!SetState(v, mood) BY <2>2
    <3> HIDE DEF r
    <3> DEFINE t == Screens!SetState(v, mood)
    <3> HIDE DEF t
    <3>5. IF loaded = "none" \/ v.mood = mood THEN t = v
          ELSE /\ Only(v, t, {"painted", "known", "mood", "due"})
               /\ t.painted = {} /\ t.known = Wiped(v)
               /\ t.mood = mood /\ t.due = TRUE
      BY SetStateView DEF t
    <3>2. IF loaded = "none" \/ v.mood = mood THEN r = v
          ELSE /\ Only(v, r, {"painted", "known", "mood", "due"})
               /\ r.painted = {} /\ r.known = Wiped(v)
               /\ r.mood = mood /\ r.due = TRUE
      BY <3>1, <3>5 DEF t
    <3>3. CASE loaded = "none" \/ v.mood = mood
      <4>1. r = v BY <3>2, <3>3
      <4> QED BY <4>1, <1>2 DEF Only
    <3>4. CASE ~(loaded = "none" \/ v.mood = mood) BY <3>2, <3>4
    <3> QED BY <3>3, <3>4
  <2> QED BY <2>1, <2>2
<1>4. r \in Views BY <1>3 DEF Only
<1> HIDE DEF r
<1>5. mark \in SUBSET Marks BY DEF Marks
<1>6. /\ lcd \in SUBSET Marks
      /\ known \in SUBSET {"dismissed", "switched", "darkened", "unseen"}
  BY <1>4, <1>5, ViewParts
<1> HIDE DEF lcd, known
<1>7. /\ Only(r, w, {"approval", "lcd", "known"})
      /\ w.approval = facing /\ w.lcd = lcd /\ w.known = known
  BY <1>1, <1>4, <1>6 DEF Only, Views
<1> HIDE DEF w, mark
<1>8. /\ Only(v, w, {"painted", "known", "mood", "due", "approval", "lcd"})
      /\ loaded = "none" => w.mood = v.mood /\ w.due = v.due
      /\ r.lcd = v.lcd
  BY <1>3, <1>7 DEF Only
<1>9. "darkened" \in v.known => "darkened" \in r.known BY <1>3 DEF Wiped
<1>10. IF whole THEN w.lcd = mark
       ELSE /\ w.lcd = v.lcd \cup mark
            /\ "darkened" \in v.known => "darkened" \in w.known
  BY <1>7, <1>8, <1>9 DEF lcd, known
<1> QED BY <1>7, <1>8, <1>10 DEF w, mark

LEMMA OverlayView ==
  ASSUME NEW v \in Views, NEW facing \in Landscapes
  PROVE  LET w == Screens!OverlayOnDisplay(v, facing) IN
         Only(v, w, {"lcd"}) /\ w.lcd = v.lcd \cup Screens!Overlays(facing)
<1> DEFINE l == v.lcd \cup Screens!Overlays(facing)
<1>1. l \in SUBSET Marks BY ViewParts DEF Screens!Overlays, Marks
<1>2. Screens!OverlayOnDisplay(v, facing) = [v EXCEPT !.lcd = l]
  BY DEF Screens!OverlayOnDisplay
<1> HIDE DEF l
<1>3. /\ Only(v, Screens!OverlayOnDisplay(v, facing), {"lcd"})
      /\ Screens!OverlayOnDisplay(v, facing).lcd = l
  BY <1>1, <1>2, SetField
<1> QED BY <1>3 DEF l

Pass(v, s, mood) == Screens!Drawn(v, s, Running(s), mood)

OnPrompt(v, s, mood, drawn) ==
  /\ s.facing = None => drawn.view = v /\ drawn.on = "none"
  /\ s.facing # None /\ Running(s) /\ rest = "lit" =>
       /\ drawn.view = Screens!OverlayOnDisplay(Screens!ApprovalOnDisplay(v, s.facing, mood),
                                        s.facing)
       /\ drawn.on = "lcd"
  /\ s.facing # None /\ Running(s) /\ rest # "lit" =>
       /\ drawn.view = [Screens!Push(Screens!Paint(v, {"approval"})) EXCEPT
                          !.known = @ \cup {"darkened"}]
       /\ drawn.on = IF rest = "off" THEN "none" ELSE "sprite"
  /\ s.facing # None /\ ~Running(s) =>
       /\ drawn.view = Screens!Push(Screens!Paint(v, {"approval"}))
       /\ drawn.on = IF rest = "off" THEN "none" ELSE "sprite"

LEMMA DrawnPrompt ==
  ASSUME NEW v, NEW s, NEW mood, s.kind = "prompt", inPrompt
  PROVE  OnPrompt(v, s, mood, Pass(v, s, mood))
<1>1. CASE s.facing = None BY <1>1 DEF Pass, Screens!Drawn, OnPrompt
<1>2. CASE s.facing # None /\ Running(s) /\ rest = "lit"
  BY <1>2 DEF Pass, Screens!Drawn, OnPrompt
<1>3. CASE s.facing # None /\ Running(s) /\ rest # "lit"
  BY <1>3 DEF Pass, Screens!Drawn, OnPrompt
<1>4. CASE s.facing # None /\ ~Running(s)
  BY <1>4 DEF Pass, Screens!Drawn, OnPrompt
<1> QED BY <1>1, <1>2, <1>3, <1>4

\* The prompt, on the sprite over nothing else or whole on the display.
LEMMA DrawPrompt ==
  ASSUME ScreensAssumption, IInv, NEW activity,
         Screens!Kind(activity) = "prompt", NEW mood \in Moods,
         NEW ticked \in BOOLEAN, NEW facing \in Landscapes \cup {0, None},
         Screens!Draw("prompt", facing, mood, ticked)
  PROVE  /\ Shown(view', previous', inPrompt)
         /\ Clean(view', previous', fresh', inPrompt)
<1>1. PICK s : Surface(s, "prompt", facing) BY DEF Surface
<1>2. s.kind = "prompt" /\ s.facing = facing BY <1>1 DEF Surface
<1>3. inPrompt /\ mode = "normal" /\ open = {}
  BY DEF Screens!Kind, Screens!SharedClockFaceSelected
<1> DEFINE c == Turned(s)
           w == view'
<1>4. OnPage(s, mood, ticked) = c
  BY <1>2, <1>3 DEF OnPage, Ready, Screens!AfterPrompt
<1>5. w = Pass(c, s, mood).view /\ fresh' = Pass(c, s, mood).on /\ previous' = s
  BY <1>1, <1>4, DrawInSteps DEF Pass
<1>21. OnPrompt(c, s, mood, Pass(c, s, mood)) BY <1>2, <1>3, DrawnPrompt
<1>6. Turning(s, c) BY <1>2, ChangedView
<1> HIDE DEF c
<1>7. c \in Views /\ Hanging(c) /\ c.lcd = view.lcd
  BY <1>6 DEF Turning, Only, Layout
<1>8. /\ TypeOK /\ Surfaces /\ Asked
      /\ PromptShown(view, previous)
      /\ PageShown(view, previous, previousPrompt)
  BY DEF IInv, Shown
<1>9. ~overlay /\ (rest = "lit" \/ rest = "off")
  BY <1>3, <1>8 DEF Asked, TypeOK
<1>10. FaceShown(w, s) BY <1>2 DEF FaceShown
<1> DEFINE q == Screens!Paint(c, {"approval"})
           p == Screens!Push(q)
<1>11. {"approval"} \in SUBSET Layers BY DEF Layers
<1>12. Only(c, q, {"painted"}) /\ q.painted = c.painted \cup {"approval"}
  BY <1>7, <1>11, PaintView
<1>13. q \in Views BY <1>12 DEF Only
<1> HIDE DEF q
<1>14. Only(q, p, {"lcd"}) BY <1>13, PushView
<1>15. /\ Only(c, p, {"painted", "lcd"})
       /\ p.painted = c.painted \cup {"approval"}
  BY <1>12, <1>14 DEF Only
<1>16. p \in Views BY <1>15 DEF Only
<1> HIDE DEF p
<1>17. ASSUME ~Running(s)
       PROVE  Shown(w, s, TRUE) /\ Clean(w, s, fresh', TRUE)
  <2>1. ~Sideways(s) BY <1>2, <1>17 DEF Running
  <2>2. c.approval = None
    <3>1. CASE SameRunning(s)
      <4>1. ~(previous.kind = "prompt" /\ Sideways(previous))
        BY <1>17, <3>1 DEF SameRunning, Running
      <4> QED BY <4>1, <1>6, <1>8 DEF PromptShown, Turning
    <3>2. CASE ~SameRunning(s) BY <1>6, <1>17, <3>2 DEF Turning
    <3> QED BY <3>1, <3>2
  <2>3. /\ PageOk(c, More(TRUE))
        /\ "dismissed" \notin c.known => c.painted \subseteq {"approval"}
    <3>1. CASE Stays(s)
      <4>1. previous.kind \in {"none", "prompt"}
        BY <1>2, <1>8, <3>1 DEF Stays, SameClock, SameFace, Surfaces
      <4>2. ~Sideways(previous)
        BY <1>17, <1>8, <3>1, <4>1, NoneApart
           DEF Stays, SameRunning, Running, Surfaces, Sideways
      <4>3. c = view BY <1>6, <3>1 DEF Turning
      <4>4. More(previousPrompt) \subseteq More(TRUE) BY DEF More
      <4> QED BY <1>3, <1>8, <4>1, <4>2, <4>3, <4>4 DEF PageShown, PageOk
    <3>2. CASE ~Stays(s)
      <4>1. /\ c.painted = {} /\ "dismissed" \notin c.known
            /\ c.invalid = TRUE /\ (Animated(c) => c.due)
            /\ c.peek = (mode # "normal") /\ c.small = (mode # "normal")
        BY <1>2, <1>6, <1>17, <3>2 DEF Turning
      <4>2. PetOk(c) BY <4>1 DEF PetOk, Animated
      <4> QED BY <4>1, <4>2 DEF PageOk
    <3> QED BY <3>1, <3>2
  <2>4. CASE s.facing = None
    <3>1. w = c /\ fresh' = "none" BY <1>2, <1>3, <1>5, <2>4, <1>21 DEF OnPrompt
    <3> HIDE DEF w
    <3> QED BY <1>7, <1>10, <2>2, <2>3, <3>1
            DEF Shown, Clean, PromptShown, PageShown
  <2>5. CASE s.facing # None
    <3>1. w = p BY <1>2, <1>3, <1>5, <1>17, <2>5, <1>21 DEF p, q, OnPrompt
    <3> HIDE DEF w
    <3>2. /\ w \in Views /\ w.painted = c.painted \cup {"approval"}
          /\ w.known = c.known /\ w.mood = c.mood /\ w.due = c.due
          /\ w.invalid = c.invalid /\ w.peek = c.peek
          /\ w.small = c.small /\ w.approval = None
      BY <1>15, <2>2, <3>1 DEF Only
    <3>3. "approval" \notin Bodies BY DEF Bodies, Large, Little
    <3>4. w.painted \cap Bodies = c.painted \cap Bodies BY <3>2, <3>3
    <3>5. PetOk(c) => PetOk(w) BY <3>2, <3>4 DEF PetOk
    <3>6. "approval" \in More(TRUE) BY DEF More
    <3>7. PageOk(w, More(TRUE)) BY <2>3, <3>2, <3>5, <3>6 DEF PageOk
    <3>8. "dismissed" \notin w.known => w.painted = {"approval"}
      BY <2>3, <3>2
    <3>9. "approval" \notin Screens!Expected
      <4>1. Screens!Expected \subseteq Bodies \cup More(FALSE)
        BY <1>8 DEF Screens!Expected, More, Screens!Pet, Bodies, Large, Little,
           Screens!PetThere,
                    TypeOK
      <4> QED BY <1>8, <3>3, <4>1, MoreApart
    <3>10. "dismissed" \notin w.known =>
             LET painted == IF Screens!PetThere THEN w.painted
                            ELSE w.painted \ {"message"}
             IN /\ (painted \ Screens!Expected) \ Bodies = {"approval"}
                /\ (painted \ Screens!Expected) \ {} = {"approval"}
      BY <3>3, <3>8, <3>9
    <3>11. fresh' # "lcd"
      BY <1>2, <1>3, <1>5, <1>17, <2>5, <1>21 DEF OnPrompt
    <3>12. Clean(w, s, fresh', TRUE) BY <1>2, <3>10, <3>11 DEF Clean
    <3>13. Hanging(w) BY <1>7, <3>2 DEF Hanging
    <3> QED BY <1>10, <3>2, <3>7, <3>8, <3>12, <3>13
            DEF Shown, PromptShown, PageShown
  <2> QED BY <2>4, <2>5
<1>18. ASSUME Running(s)
       PROVE  Shown(w, s, TRUE) /\ Clean(w, s, fresh', TRUE)
  <2>1. /\ Sideways(s) /\ s.facing \in Landscapes /\ s.facing # None
    BY <1>18, NoneApart DEF Running, Sideways
  <2>2. c.approval # None /\ "darkened" \notin c.known =>
          c.lcd = {<<"prompt", c.approval>>}
    <3>1. CASE SameRunning(s) /\ previous.kind = "prompt"
      <4>1. Stays(s)
        BY <1>2, <3>1 DEF Stays, SameClock, SameFace
      <4>2. c = view BY <1>6, <4>1 DEF Turning
      <4> QED BY <1>8, <4>2 DEF PromptShown
    <3>2. CASE SameRunning(s) /\ previous.kind # "prompt"
      BY <1>6, <1>8, <3>2 DEF PromptShown, Turning
    <3>3. CASE ~SameRunning(s)
      <4>1. ~(previous.kind = "prompt" /\ Sideways(previous))
        BY <1>18, <3>3 DEF SameRunning, Running
      <4> QED BY <1>6, <1>8, <4>1 DEF PromptShown, Turning
    <3> QED BY <3>1, <3>2, <3>3
  <2>3. PageShown(w, s, TRUE) BY <2>1 DEF PageShown
  <2>4. CASE rest = "lit"
    <3> DEFINE a == Screens!ApprovalOnDisplay(c, s.facing, mood)
    <3>1. w = Screens!OverlayOnDisplay(a, s.facing) /\ fresh' = "lcd"
      BY <1>2, <1>3, <1>5, <1>18, <2>1, <2>4, <1>21 DEF OnPrompt
    <3>2. /\ Only(c, a, {"painted", "known", "mood", "due", "approval", "lcd"})
          /\ a.approval = s.facing
          /\ loaded = "none" => a.mood = c.mood /\ a.due = c.due
          /\ IF c.approval # s.facing THEN a.lcd = {<<"prompt", s.facing>>}
             ELSE /\ a.lcd = c.lcd \cup {<<"prompt", s.facing>>}
                  /\ "darkened" \in c.known => "darkened" \in a.known
      BY <1>7, <2>1, ApprovalView
    <3>3. a \in Views BY <3>2 DEF Only
    <3> HIDE DEF a
    <3>4. Screens!Overlays(s.facing) = {} BY <1>9 DEF Screens!Overlays
    <3>5. Only(a, w, {"lcd"}) /\ w.lcd = a.lcd
      BY <2>1, <3>1, <3>3, <3>4, OverlayView
    <3> HIDE DEF w
    <3>6. /\ w \in Views /\ w.approval = s.facing /\ w.known = a.known
          /\ w.mood = a.mood /\ w.due = a.due
      BY <3>2, <3>5 DEF Only
    <3>7. "darkened" \notin w.known => w.lcd = {<<"prompt", s.facing>>}
      BY <2>1, <2>2, <3>2, <3>5, <3>6
    <3>8. PromptShown(w, s) BY <1>2, <2>1, <3>6, <3>7 DEF PromptShown
    <3>9. Hanging(w) BY <1>7, <3>2, <3>6 DEF Hanging
    <3>10. Clean(w, s, fresh', TRUE)
      BY <1>2, <3>1, <3>4, <3>7 DEF Clean
    <3> QED BY <1>10, <2>3, <3>6, <3>8, <3>9, <3>10 DEF Shown
  <2>5. CASE rest # "lit"
    <3> DEFINE known == p.known \cup {"darkened"}
    <3>1. w = [p EXCEPT !.known = known] /\ fresh' = "none"
      BY <1>2, <1>3, <1>5, <1>9, <1>18, <2>1, <2>5, <1>21 DEF p, q, OnPrompt
    <3>2. known \in SUBSET {"dismissed", "switched", "darkened", "unseen"}
      BY <1>16, ViewParts
    <3> HIDE DEF known
    <3>3. Only(p, w, {"known"}) /\ w.known = known
      BY <1>16, <3>1, <3>2, SetField
    <3> HIDE DEF w
    <3>4. "darkened" \in w.known BY <3>3 DEF known
    <3>5. w \in Views /\ w.mood = c.mood /\ w.due = c.due
      BY <1>15, <3>3 DEF Only
    <3>6. Hanging(w) BY <1>7, <3>5 DEF Hanging
    <3> QED BY <1>2, <1>10, <2>1, <2>3, <3>1, <3>4, <3>5, <3>6
            DEF Shown, Clean, PromptShown
  <2> QED BY <2>4, <2>5
<1>19. inPrompt = TRUE BY <1>3, <1>8 DEF TypeOK
<1> HIDE DEF w
<1>20. Shown(w, s, TRUE) /\ Clean(w, s, fresh', TRUE) BY <1>17, <1>18
<1> QED BY <1>5, <1>19, <1>20 DEF w

\* The face of a clock, or that of a running task, on the sprite.
CacheOf(v, k) == IF k = "clock" THEN v.clock ELSE v.face
SpriteFace(v, k, mood, exited, w) ==
  /\ Only(v, w, {"painted", "known", "mood", "due", "peek", "clock", "face"})
  /\ CacheOf(w, k) = [facing |-> 0, mood |-> mood]
  /\ w.due = FALSE
  /\ loaded = "none" => w.mood = v.mood
  /\ IF Screens!Whole(CacheOf(v, k), 0, mood, exited)
     THEN w.painted = {"face"} /\ w.known = Wiped(v)
     ELSE /\ w.known = v.known
          /\ buddyMode \/ (v.peek /\ (loaded = "none" \/ v.mood = mood)) =>
               w.painted = v.painted
  /\ ~buddyMode => w.peek = TRUE /\ (loaded # "none" => w.mood = mood)

LEMMA SpritePet ==
  ASSUME NEW v \in Views, NEW mood \in Moods
  PROVE  LET r == IF buddyMode THEN v
                  ELSE Screens!SetState(Screens!CharacterSetPeek(v, TRUE), mood)
         IN /\ Only(v, r, {"painted", "known", "mood", "due", "peek"})
            /\ loaded = "none" => r.mood = v.mood
            /\ r.known = v.known \/ r.known = Wiped(v)
            /\ ~buddyMode => r.peek = TRUE /\ (loaded # "none" => r.mood = mood)
            /\ buddyMode \/ (v.peek /\ (loaded = "none" \/ v.mood = mood)) =>
                 r.painted = v.painted
<1> DEFINE p == Screens!CharacterSetPeek(v, TRUE)
           t == Screens!SetState(p, mood)
           r == IF buddyMode THEN v ELSE t
<1>1. Only(v, v, {}) BY ViewParts
<1>2. /\ Only(v, p, {"painted", "known", "due", "peek"})
      /\ p.peek = TRUE
      /\ IF v.peek = TRUE THEN p = v ELSE Reopened(v, p)
  BY CharacterSetPeekView
<1>3. p \in Views BY <1>2 DEF Only
<1> HIDE DEF p
<1>4. IF loaded = "none" \/ p.mood = mood THEN t = p
      ELSE /\ Only(p, t, {"painted", "known", "mood", "due"})
           /\ t.painted = {} /\ t.known = Wiped(p)
           /\ t.mood = mood /\ t.due = TRUE
  BY <1>3, SetStateView
<1> HIDE DEF t
<1>5. CASE buddyMode BY <1>1, <1>5 DEF Only
<1>6. CASE ~buddyMode
  <2>1. r = t BY <1>6
  <2> HIDE DEF r
  <2>2. p.mood = v.mood /\ (v.peek = TRUE => p = v) BY <1>2 DEF Only
  <2>3. p.known = v.known \/ p.known = Wiped(v) BY <1>2 DEF Reopened
  <2>4. CASE loaded = "none" \/ p.mood = mood
    <3>1. t = p BY <1>4, <2>4
    <3>2. Only(v, t, {"painted", "known", "mood", "due", "peek"})
      BY <1>2, <3>1 DEF Only
    <3>3. v.peek \in BOOLEAN BY ViewParts
    <3> QED BY <1>2, <1>6, <2>1, <2>2, <2>3, <2>4, <3>1, <3>2, <3>3 DEF r, t, p
  <2>5. CASE ~(loaded = "none" \/ p.mood = mood)
    <3>1. /\ Only(p, t, {"painted", "known", "mood", "due"})
          /\ t.known = Wiped(p) /\ t.mood = mood
      BY <1>4, <2>5
    <3>2. Only(v, t, {"painted", "known", "mood", "due", "peek"})
      BY <1>2, <3>1 DEF Only
    <3>3. t.peek = TRUE BY <1>2, <3>1 DEF Only
    <3>4. t.known = Wiped(v) BY <2>3, <3>1 DEF Wiped
    <3> QED BY <1>6, <2>1, <2>2, <2>5, <3>1, <3>2, <3>3, <3>4
       DEF r, t, p
  <2> QED BY <2>4, <2>5
<1> QED BY <1>5, <1>6

LEMMA ClockFaceOnSprite ==
  ASSUME NEW v \in Views, NEW mood \in Moods, NEW exited \in BOOLEAN
  PROVE  SpriteFace(v, "clock", mood, exited,
                    Screens!FaceOnSprite(v, "clock", mood, exited))
<1> DEFINE r == IF buddyMode THEN v
                ELSE Screens!SetState(Screens!CharacterSetPeek(v, TRUE), mood)
           new == [facing |-> 0, mood |-> mood]
           k == Screens!KeepCache(r, "clock", new)
           c == [k EXCEPT !.due = FALSE]
           f == Screens!Fill(c)
           p == Screens!Paint(f, {"face"})
           whole == Screens!Whole(v.clock, 0, mood, exited)
           w == Screens!FaceOnSprite(v, "clock", mood, exited)
           seen == v.known
<1>1. w = IF whole THEN p ELSE [c EXCEPT !.known = seen]
  BY DEF Screens!FaceOnSprite
<1>2. /\ Only(v, r, {"painted", "known", "mood", "due", "peek"})
      /\ loaded = "none" => r.mood = v.mood
      /\ r.known = v.known \/ r.known = Wiped(v)
      /\ ~buddyMode => r.peek = TRUE /\ (loaded # "none" => r.mood = mood)
      /\ buddyMode \/ (v.peek /\ (loaded = "none" \/ v.mood = mood)) =>
           r.painted = v.painted
  BY SpritePet
<1>3. r \in Views BY <1>2 DEF Only
<1> HIDE DEF r
<1>4. new \in Caches /\ FALSE \in BOOLEAN BY DEF Caches
<1> HIDE DEF new
<1>9. Only(r, k, {"clock"}) /\ k.clock = new BY <1>3, <1>4, KeepCacheView
<1>10. k \in Views BY <1>9 DEF Only
<1> HIDE DEF k
<1>11. Only(k, c, {"due"}) /\ c.due = FALSE BY <1>4, <1>10, SetField
<1>5. Only(r, c, {"clock", "due"}) /\ c.clock = new /\ c.due = FALSE
  BY <1>9, <1>11 DEF Only
<1>6. c \in Views BY <1>5 DEF Only
<1> HIDE DEF c
<1>7. CASE whole
  <2>1. w = p BY <1>1, <1>7
  <2>2. /\ Only(c, f, {"painted", "known"})
        /\ f.painted = {} /\ f.known = Wiped(c)
    BY <1>6, FillView
  <2>3. f \in Views BY <2>2 DEF Only
  <2>4. {"face"} \in SUBSET Layers BY DEF Layers
  <2> HIDE DEF f
  <2>5. Only(f, p, {"painted"}) /\ p.painted = f.painted \cup {"face"}
    BY <2>3, <2>4, PaintView
  <2> HIDE DEF p
  <2>6. Only(v, w, {"painted", "known", "mood", "due", "peek", "clock", "face"})
    BY <1>2, <1>5, <2>1, <2>2, <2>5 DEF Only
  <2>7. /\ w.clock = new /\ w.due = FALSE /\ w.mood = r.mood /\ w.peek = r.peek
        /\ w.painted = {"face"} /\ w.known = Wiped(r)
    BY <1>5, <2>1, <2>2, <2>5 DEF Only, Wiped
  <2>8. w.known = Wiped(v) BY <1>2, <2>7 DEF Wiped
  <2> HIDE DEF w
  <2> QED BY <1>2, <1>7, <2>6, <2>7, <2>8 DEF SpriteFace, CacheOf, new, w
<1>8. CASE ~whole
  <2>1. w = [c EXCEPT !.known = seen] BY <1>1, <1>8
  <2>2. seen \in SUBSET {"dismissed", "switched", "darkened", "unseen"}
    BY ViewParts
  <2> HIDE DEF seen
  <2>4. /\ Only(c, [c EXCEPT !.known = seen], {"known"})
        /\ [c EXCEPT !.known = seen].known = seen
    BY <1>6, <2>2, SetField
  <2>3. Only(c, w, {"known"}) /\ w.known = seen BY <2>1, <2>4
  <2> HIDE DEF p
  <2>6. Only(v, w, {"painted", "known", "mood", "due", "peek", "clock", "face"})
    BY <1>2, <1>5, <2>3 DEF Only
  <2>7. /\ w.clock = new /\ w.due = FALSE /\ w.mood = r.mood /\ w.peek = r.peek
        /\ w.painted = r.painted /\ w.known = v.known
    BY <1>5, <2>3 DEF Only, seen
  <2> HIDE DEF w
  <2> QED BY <1>2, <1>8, <2>6, <2>7 DEF SpriteFace, CacheOf, new, w
<1> QED BY <1>7, <1>8

LEMMA TaskFaceOnSprite ==
  ASSUME NEW v \in Views, NEW mood \in Moods, NEW exited \in BOOLEAN
  PROVE  SpriteFace(v, "face", mood, exited,
                    Screens!FaceOnSprite(v, "face", mood, exited))
<1> DEFINE r == IF buddyMode THEN v
                ELSE Screens!SetState(Screens!CharacterSetPeek(v, TRUE), mood)
           new == [facing |-> 0, mood |-> mood]
           k == Screens!KeepCache(r, "face", new)
           c == [k EXCEPT !.due = FALSE]
           f == Screens!Fill(c)
           p == Screens!Paint(f, {"face"})
           whole == Screens!Whole(v.face, 0, mood, exited)
           w == Screens!FaceOnSprite(v, "face", mood, exited)
           seen == v.known
<1>1. w = IF whole THEN p ELSE [c EXCEPT !.known = seen]
  BY DEF Screens!FaceOnSprite
<1>2. /\ Only(v, r, {"painted", "known", "mood", "due", "peek"})
      /\ loaded = "none" => r.mood = v.mood
      /\ r.known = v.known \/ r.known = Wiped(v)
      /\ ~buddyMode => r.peek = TRUE /\ (loaded # "none" => r.mood = mood)
      /\ buddyMode \/ (v.peek /\ (loaded = "none" \/ v.mood = mood)) =>
           r.painted = v.painted
  BY SpritePet
<1>3. r \in Views BY <1>2 DEF Only
<1> HIDE DEF r
<1>4. new \in Caches /\ FALSE \in BOOLEAN BY DEF Caches
<1> HIDE DEF new
<1>9. Only(r, k, {"face"}) /\ k.face = new BY <1>3, <1>4, KeepCacheView
<1>10. k \in Views BY <1>9 DEF Only
<1> HIDE DEF k
<1>11. Only(k, c, {"due"}) /\ c.due = FALSE BY <1>4, <1>10, SetField
<1>5. Only(r, c, {"face", "due"}) /\ c.face = new /\ c.due = FALSE
  BY <1>9, <1>11 DEF Only
<1>6. c \in Views BY <1>5 DEF Only
<1> HIDE DEF c
<1>7. CASE whole
  <2>1. w = p BY <1>1, <1>7
  <2>2. /\ Only(c, f, {"painted", "known"})
        /\ f.painted = {} /\ f.known = Wiped(c)
    BY <1>6, FillView
  <2>3. f \in Views BY <2>2 DEF Only
  <2>4. {"face"} \in SUBSET Layers BY DEF Layers
  <2> HIDE DEF f
  <2>5. Only(f, p, {"painted"}) /\ p.painted = f.painted \cup {"face"}
    BY <2>3, <2>4, PaintView
  <2> HIDE DEF p
  <2>6. Only(v, w, {"painted", "known", "mood", "due", "peek", "clock", "face"})
    BY <1>2, <1>5, <2>1, <2>2, <2>5 DEF Only
  <2>7. /\ w.face = new /\ w.due = FALSE /\ w.mood = r.mood /\ w.peek = r.peek
        /\ w.painted = {"face"} /\ w.known = Wiped(r)
    BY <1>5, <2>1, <2>2, <2>5 DEF Only, Wiped
  <2>8. w.known = Wiped(v) BY <1>2, <2>7 DEF Wiped
  <2> HIDE DEF w
  <2> QED BY <1>2, <1>7, <2>6, <2>7, <2>8 DEF SpriteFace, CacheOf, new, w
<1>8. CASE ~whole
  <2>1. w = [c EXCEPT !.known = seen] BY <1>1, <1>8
  <2>2. seen \in SUBSET {"dismissed", "switched", "darkened", "unseen"}
    BY ViewParts
  <2> HIDE DEF seen
  <2>4. /\ Only(c, [c EXCEPT !.known = seen], {"known"})
        /\ [c EXCEPT !.known = seen].known = seen
    BY <1>6, <2>2, SetField
  <2>3. Only(c, w, {"known"}) /\ w.known = seen BY <2>1, <2>4
  <2> HIDE DEF p
  <2>6. Only(v, w, {"painted", "known", "mood", "due", "peek", "clock", "face"})
    BY <1>2, <1>5, <2>3 DEF Only
  <2>7. /\ w.face = new /\ w.due = FALSE /\ w.mood = r.mood /\ w.peek = r.peek
        /\ w.painted = r.painted /\ w.known = v.known
    BY <1>5, <2>3 DEF Only, seen
  <2> HIDE DEF w
  <2> QED BY <1>2, <1>8, <2>6, <2>7 DEF SpriteFace, CacheOf, new, w
<1> QED BY <1>7, <1>8

DisplayFace(v, k, facing, mood, exited, w) ==
  /\ Only(v, w, {"known", "lcd", "clock", "face"})
  /\ CacheOf(w, k) = [facing |-> facing, mood |-> mood]
  /\ IF Screens!Whole(CacheOf(v, k), facing, mood, exited)
     THEN w.lcd = {<<"face", facing>>} \cup Screens!Overlays(facing)
     ELSE w.lcd = v.lcd \cup Screens!Overlays(facing) /\ w.known = v.known

LEMMA ClockFaceOnDisplay ==
  ASSUME NEW v \in Views, NEW facing \in Landscapes, NEW mood \in Moods,
         NEW exited \in BOOLEAN
  PROVE  DisplayFace(v, "clock", facing, mood, exited,
           Screens!OverlayOnDisplay(Screens!FaceOnDisplay(v, "clock", facing, mood, exited),
                            facing))
<1> DEFINE new == [facing |-> facing, mood |-> mood]
           whole == Screens!Whole(v.clock, facing, mood, exited)
           lcd == IF whole THEN {<<"face", facing>>} ELSE v.lcd
           known == IF whole THEN v.known \ {"darkened", "unseen"} ELSE v.known
           k == Screens!KeepCache(v, "clock", new)
           d == Screens!FaceOnDisplay(v, "clock", facing, mood, exited)
           w == Screens!OverlayOnDisplay(d, facing)
<1>9. v["clock"] = v.clock OBVIOUS
<1>2. new \in Caches BY DEF Caches
<1>10. Only(v, k, {"clock"}) /\ k.clock = new BY <1>2, KeepCacheView
<1>11. k \in Views /\ k.lcd = v.lcd /\ k.known = v.known
  BY <1>10 DEF Only
<1>1. d = [k EXCEPT !.lcd = lcd, !.known = known]
  BY <1>9, <1>11 DEF Screens!FaceOnDisplay
<1>3. lcd \in SUBSET Marks BY ViewParts DEF Marks
<1>4. known \in SUBSET {"dismissed", "switched", "darkened", "unseen"}
  BY ViewParts
<1> HIDE DEF new, lcd, known, k
<1>12. /\ Only(k, d, {"lcd", "known"})
       /\ d.lcd = lcd /\ d.known = known
  BY <1>1, <1>3, <1>4, <1>11 DEF Only, Views
<1>5. /\ Only(v, d, {"clock", "lcd", "known"})
      /\ d.clock = new /\ d.lcd = lcd /\ d.known = known
  BY <1>10, <1>12 DEF Only
<1>6. d \in Views BY <1>5 DEF Only
<1> HIDE DEF d
<1>7. Only(d, w, {"lcd"}) /\ w.lcd = d.lcd \cup Screens!Overlays(facing)
  BY <1>6, OverlayView
<1> HIDE DEF w
<1>8. /\ Only(v, w, {"known", "lcd", "clock", "face"})
      /\ w.clock = new /\ w.lcd = lcd \cup Screens!Overlays(facing) /\ w.known = known
  BY <1>5, <1>7 DEF Only
<1> QED BY <1>8 DEF DisplayFace, CacheOf, new, lcd, known, w, d

LEMMA TaskFaceOnDisplay ==
  ASSUME NEW v \in Views, NEW facing \in Landscapes, NEW mood \in Moods,
         NEW exited \in BOOLEAN
  PROVE  DisplayFace(v, "face", facing, mood, exited,
           Screens!OverlayOnDisplay(Screens!FaceOnDisplay(v, "face", facing, mood, exited),
                            facing))
<1> DEFINE new == [facing |-> facing, mood |-> mood]
           whole == Screens!Whole(v.face, facing, mood, exited)
           lcd == IF whole THEN {<<"face", facing>>} ELSE v.lcd
           known == IF whole THEN v.known \ {"darkened", "unseen"} ELSE v.known
           k == Screens!KeepCache(v, "face", new)
           d == Screens!FaceOnDisplay(v, "face", facing, mood, exited)
           w == Screens!OverlayOnDisplay(d, facing)
<1>9. v["face"] = v.face OBVIOUS
<1>2. new \in Caches BY DEF Caches
<1>10. Only(v, k, {"face"}) /\ k.face = new BY <1>2, KeepCacheView
<1>11. k \in Views /\ k.lcd = v.lcd /\ k.known = v.known
  BY <1>10 DEF Only
<1>1. d = [k EXCEPT !.lcd = lcd, !.known = known]
  BY <1>9, <1>11 DEF Screens!FaceOnDisplay
<1>3. lcd \in SUBSET Marks BY ViewParts DEF Marks
<1>4. known \in SUBSET {"dismissed", "switched", "darkened", "unseen"}
  BY ViewParts
<1> HIDE DEF new, lcd, known, k
<1>12. /\ Only(k, d, {"lcd", "known"})
       /\ d.lcd = lcd /\ d.known = known
  BY <1>1, <1>3, <1>4, <1>11 DEF Only, Views
<1>5. /\ Only(v, d, {"face", "lcd", "known"})
      /\ d.face = new /\ d.lcd = lcd /\ d.known = known
  BY <1>10, <1>12 DEF Only
<1>6. d \in Views BY <1>5 DEF Only
<1> HIDE DEF d
<1>7. Only(d, w, {"lcd"}) /\ w.lcd = d.lcd \cup Screens!Overlays(facing)
  BY <1>6, OverlayView
<1> HIDE DEF w
<1>8. /\ Only(v, w, {"known", "lcd", "clock", "face"})
      /\ w.face = new /\ w.lcd = lcd \cup Screens!Overlays(facing) /\ w.known = known
  BY <1>5, <1>7 DEF Only
<1> QED BY <1>8 DEF DisplayFace, CacheOf, new, lcd, known, w, d

OnFace(v, s, mood, drawn) ==
  /\ s.facing = None => drawn.view = v /\ drawn.on = "none"
  /\ s.facing = 0 /\ rest # "lit" => drawn.view = v /\ drawn.on = "none"
  /\ s.facing = 0 /\ rest = "lit" =>
       /\ drawn.on = "sprite"
       /\ \E r \in Views, exited \in BOOLEAN :
            /\ exited => previousPrompt
            /\ SpriteFace(v, s.kind, mood, exited, r)
            /\ drawn.view = Screens!Push(Screens!Paint(r, Screens!Overlay))
  /\ s.facing \in Landscapes =>
       \/ drawn.view = v /\ drawn.on = "none"
       \/ /\ drawn.on \in {"none", "lcd"}
          /\ \E exited \in BOOLEAN :
               /\ exited => previousPrompt
               /\ DisplayFace(v, s.kind, s.facing, mood, exited, drawn.view)

LEMMA DrawnFace ==
  ASSUME ScreensAssumption, NEW v \in Views, NEW s, NEW mood \in Moods,
         s.kind \in {"clock", "face"}, s.facing \in Landscapes \cup {0, None},
         ~inPrompt, previousPrompt \in BOOLEAN
  PROVE  OnFace(v, s, mood, Pass(v, s, mood))
<1> DEFINE d == Pass(v, s, mood)
           f == s.facing
           exits == previousPrompt /\ ~inPrompt
<1>1. /\ 0 \notin Landscapes /\ None \notin Landscapes /\ None # 0
  BY NoneApart
<1>2. CASE f = None
  <2>1. d = [on |-> "none", view |-> v] BY <1>2 DEF Pass, Screens!Drawn
  <2> HIDE DEF d
  <2> QED BY <2>1, <1>1, <1>2 DEF OnFace, d
<1>3. CASE f = 0
  <2>1. ~Running(s) BY <1>1, <1>3 DEF Running, Sideways
  <2>2. CASE rest # "lit"
    <3>1. d = [on |-> "none", view |-> v]
      BY <1>1, <1>3, <2>1, <2>2 DEF Pass, Screens!Drawn
    <3> HIDE DEF d
    <3> QED BY <1>1, <1>3, <2>2, <3>1 DEF OnFace, d
  <2>3. CASE rest = "lit" /\ s.kind = "clock"
    <3> DEFINE r == Screens!FaceOnSprite(v, "clock", mood, FALSE)
    <3>1. d = [on |-> "sprite", view |-> Screens!Push(Screens!Paint(r, Screens!Overlay))]
      BY <1>1, <1>3, <2>1, <2>3 DEF Pass, Screens!Drawn
    <3>2. SpriteFace(v, "clock", mood, FALSE, r) BY ClockFaceOnSprite
    <3> HIDE DEF d, r
    <3>5. r \in Views BY <3>2 DEF SpriteFace, Only
    <3>6. d.view = Screens!Push(Screens!Paint(r, Screens!Overlay)) /\ d.on = "sprite"
      BY <3>1
    <3>3. \E x \in Views, exited \in BOOLEAN :
            /\ exited => previousPrompt
            /\ SpriteFace(v, s.kind, mood, exited, x)
            /\ d.view = Screens!Push(Screens!Paint(x, Screens!Overlay))
      BY <2>3, <3>2, <3>5, <3>6, Zenon
    <3> QED BY <1>1, <1>3, <2>3, <3>6, <3>3, Zenon DEF OnFace, d
  <2>4. CASE rest = "lit" /\ s.kind = "face"
    <3> DEFINE r == Screens!FaceOnSprite(v, "face", mood, exits)
    <3>1. d = [on |-> "sprite", view |-> Screens!Push(Screens!Paint(r, Screens!Overlay))]
      BY <1>1, <1>3, <2>1, <2>4 DEF Pass, Screens!Drawn
    <3>2. exits \in BOOLEAN /\ (exits => previousPrompt) OBVIOUS
    <3> HIDE DEF d, exits
    <3>3. SpriteFace(v, "face", mood, exits, r)
      BY <3>2, TaskFaceOnSprite, Zenon
    <3> HIDE DEF r
    <3>5. r \in Views BY <3>3 DEF SpriteFace, Only
    <3>6. d.view = Screens!Push(Screens!Paint(r, Screens!Overlay)) /\ d.on = "sprite"
      BY <3>1
    <3>4. \E x \in Views, exited \in BOOLEAN :
            /\ exited => previousPrompt
            /\ SpriteFace(v, s.kind, mood, exited, x)
            /\ d.view = Screens!Push(Screens!Paint(x, Screens!Overlay))
      BY <2>4, <3>2, <3>3, <3>5, <3>6, Zenon
    <3> QED BY <1>1, <1>3, <2>4, <3>6, <3>4, Zenon DEF OnFace, d
  <2> QED BY <2>2, <2>3, <2>4
<1>4. CASE f \in Landscapes
  <2>1. f # None /\ f # 0 BY <1>1, <1>4
  <2>2. Running(s) = (s.kind = "face") BY <1>4 DEF Running, Sideways
  <2>3. CASE s.kind = "clock"
    <3> DEFINE w == Screens!OverlayOnDisplay(
                      Screens!FaceOnDisplay(v, "clock", f, mood, FALSE), f)
    <3>1. d = [on |-> IF rest = "off" THEN "none" ELSE "lcd", view |-> w]
      BY <2>1, <2>2, <2>3 DEF Pass, Screens!Drawn
    <3>2. DisplayFace(v, "clock", f, mood, FALSE, w)
      BY <1>4, ClockFaceOnDisplay
    <3> HIDE DEF d, w
    <3>3. \E exited \in BOOLEAN :
            /\ exited => previousPrompt
            /\ DisplayFace(v, "clock", f, mood, exited, w)
      BY <3>2, Zenon
    <3> QED BY <2>1, <2>3, <3>1, <3>3 DEF OnFace, d
  <2>4. CASE s.kind = "face" /\ rest = "lit"
    <3> DEFINE w == Screens!OverlayOnDisplay(
                      Screens!FaceOnDisplay(v, "face", f, mood, exits), f)
    <3>1. d = [on |-> "lcd", view |-> w]
      BY <2>1, <2>2, <2>4 DEF Pass, Screens!Drawn
    <3>2. exits \in BOOLEAN /\ (exits => previousPrompt) OBVIOUS
    <3> HIDE DEF d, exits
    <3>3. DisplayFace(v, "face", f, mood, exits, w)
      BY <1>4, <3>2, TaskFaceOnDisplay, Zenon
    <3> HIDE DEF w
    <3>4. \E exited \in BOOLEAN :
            /\ exited => previousPrompt
            /\ DisplayFace(v, "face", f, mood, exited, w)
      BY <3>2, <3>3, Zenon
    <3> QED BY <2>1, <2>4, <3>1, <3>4 DEF OnFace, d
  <2>5. CASE s.kind = "face" /\ rest # "lit"
    <3>1. d = [on |-> "none", view |-> v]
      BY <2>1, <2>2, <2>5 DEF Pass, Screens!Drawn
    <3> HIDE DEF d
    <3> QED BY <2>1, <3>1 DEF OnFace, d
  <2> QED BY <2>3, <2>4, <2>5
<1> QED BY <1>2, <1>3, <1>4

\* A face comes to the first drawing of it without its cache, and to the next
\* ones as it was left.
LEMMA ReadyFace ==
  ASSUME ScreensAssumption, IInv, NEW s, s.kind \in {"clock", "face"},
         ~inPrompt
  PROVE  /\ Ready(s) \in Views /\ Hanging(Ready(s))
         /\ Ready(s).approval = None
         /\ IF Stays(s)
            THEN /\ Ready(s) = view /\ ~previousPrompt
                 /\ previous.kind = s.kind
                 /\ Sideways(previous) = Sideways(s)
            ELSE CacheOf(Ready(s), s.kind) = None
<1> DEFINE c == Turned(s)
           ready == Ready(s)
           exits == previousPrompt /\ ~inPrompt
<1>1. ready = Screens!AfterPrompt(c, Running(s)) BY DEF Ready
<1>2. Turning(s, c) BY ChangedView
<1> HIDE DEF c, ready
<1>3. c \in Views BY <1>2 DEF Turning, Only
<1>4. IF ~exits THEN ready = c
      ELSE /\ ready.approval = None
           /\ IF Running(s) THEN Only(c, ready, {"approval"})
              ELSE /\ Only(c, ready, {"painted", "known", "due", "invalid",
                                      "approval"})
                   /\ ready.due = (c.due \/ Animated(c))
  <2>1. Running(s) \in BOOLEAN BY DEF Running
  <2> QED BY <1>1, <1>3, <2>1, AfterPromptView
<1>5. /\ Only(c, ready, {"painted", "known", "due", "invalid", "approval"})
      /\ ready.due = c.due \/ ready.due = (c.due \/ Animated(c))
  <2>1. Only(c, c, {}) BY <1>3, ViewParts
  <2> QED BY <1>4, <2>1 DEF Only
<1>6. ready \in Views BY <1>5 DEF Only
<1>7. Hanging(ready)
  <2>1. Hanging(c) BY <1>2 DEF Turning
  <2>2. ready.mood = c.mood BY <1>5 DEF Only
  <2> QED BY <1>5, <2>1, <2>2 DEF Hanging, Animated
<1>8. TypeOK /\ Surfaces /\ PromptShown(view, previous) BY DEF IInv, Shown
<1>9. ready.approval = None
  <2>1. CASE exits BY <1>4, <2>1
  <2>2. CASE ~exits
    <3>1. ready = c /\ previous.kind # "prompt"
      BY <1>4, <1>8, <2>2 DEF Surfaces
    <3>2. view.approval = None BY <1>8, <3>1 DEF PromptShown
    <3> QED BY <1>2, <3>1, <3>2 DEF Turning
  <2> QED BY <2>1, <2>2
<1>10. ASSUME Stays(s)
       PROVE  /\ ready = view /\ ~previousPrompt
              /\ previous.kind = s.kind /\ Sideways(previous) = Sideways(s)
  <2>1. c = view BY <1>2, <1>10 DEF Turning
  <2>2. previous.kind = s.kind
    BY <1>8, <1>10 DEF Stays, SameClock, SameFace, Surfaces
  <2>3. ~previousPrompt BY <1>8, <2>2 DEF Surfaces
  <2>4. Sideways(previous) = Sideways(s)
    BY <1>10, <2>2 DEF Stays, SameClock, SameRunning, Running, Sideways
  <2> QED BY <1>4, <2>1, <2>2, <2>3, <2>4
<1>11. ASSUME ~Stays(s)
       PROVE  CacheOf(ready, s.kind) = None
  <2>1. ready.clock = c.clock /\ ready.face = c.face BY <1>5 DEF Only
  <2>2. CASE s.kind = "clock"
    <3>1. ~SameClock(s)
      <4> SUFFICES ASSUME SameClock(s) PROVE Stays(s) BY <1>11
      <4>1. previous.kind = "clock" BY <2>2 DEF SameClock
      <4> QED BY <2>2, <4>1 DEF Stays, SameFace, SameRunning, Running
    <3> QED BY <1>2, <2>1, <2>2, <3>1 DEF Turning, CacheOf
  <2>3. CASE s.kind = "face"
    <3>1. ~SameFace(s) \/ ~SameRunning(s)
      <4> SUFFICES ASSUME SameFace(s), SameRunning(s) PROVE Stays(s) BY <1>11
      <4>1. previous.kind = "face" BY <2>3 DEF SameFace
      <4> QED BY <2>3, <4>1 DEF Stays, SameClock
    <3> QED BY <1>2, <2>1, <2>3, <3>1 DEF Turning, CacheOf
  <2> QED BY <2>2, <2>3
<1> QED BY <1>6, <1>7, <1>9, <1>10, <1>11 DEF ready

\* The faces, as they were left or whole, and nothing but them.
LEMMA DrawFace ==
  ASSUME ScreensAssumption, IInv, NEW activity, NEW kind \in {"clock", "face"},
         Screens!Kind(activity) = kind, NEW mood \in Moods,
         NEW ticked \in BOOLEAN, NEW facing \in Screens!Facings(kind),
         Screens!Draw(kind, facing, mood, ticked)
  PROVE  /\ Shown(view', previous', inPrompt)
         /\ Clean(view', previous', fresh', inPrompt)
<1>1. PICK s : Surface(s, kind, facing) BY DEF Surface
<1>2. s.kind \in {"clock", "face"} /\ s.kind = kind /\ s.facing = facing
  BY <1>1 DEF Surface
<1>3. Bare BY DEF Screens!Kind, Screens!SharedClockFaceSelected, Bare
<1>4. facing \in Landscapes \cup {0, None} BY <1>2 DEF Screens!Facings
<1>5. /\ TypeOK /\ Surfaces /\ view \in Views /\ FaceShown(view, previous)
  BY DEF IInv, Shown
<1> DEFINE v == Ready(s)
           w == view'
           k == s.kind
           held == CacheOf(v, k)
<1>6. OnPage(s, mood, ticked) = v BY <1>2 DEF OnPage
<1>7. w = Pass(v, s, mood).view /\ fresh' = Pass(v, s, mood).on /\ previous' = s
  BY <1>1, <1>6, DrawInSteps DEF Pass
<1>8. /\ v \in Views /\ Hanging(v) /\ v.approval = None
      /\ IF Stays(s)
         THEN /\ v = view /\ ~previousPrompt /\ previous.kind = s.kind
              /\ Sideways(previous) = Sideways(s)
         ELSE CacheOf(v, s.kind) = None
  BY <1>2, <1>3, ReadyFace DEF Bare
<1> HIDE DEF v
<1>9. OnFace(v, s, mood, Pass(v, s, mood))
  <2>1. ~inPrompt /\ previousPrompt \in BOOLEAN
    BY <1>3, <1>5 DEF Bare, TypeOK
  <2>2. s.facing \in Landscapes \cup {0, None} BY <1>2, <1>4
  <2> QED BY <1>2, <1>8, <2>1, <2>2, DrawnFace, Zenon
<1>10. held # None =>
         /\ ~previousPrompt
         /\ IF Sideways(s)
            THEN /\ <<"face", held.facing>> \in v.lcd
                 /\ "unseen" \notin v.known =>
                      v.lcd \subseteq {<<"face", held.facing>>}
                                        \cup Screens!Overlays(held.facing)
            ELSE v.known \cap {"unseen", "switched"} = {} =>
                 /\ "face" \in v.painted
                 /\ v.painted \subseteq {"face"} \cup Screens!Overlay
                 /\ ~buddyMode =>
                      v.peek /\ (loaded # "none" => v.mood = held.mood)
  <2> SUFFICES ASSUME held # None
               PROVE  /\ ~previousPrompt
                      /\ FaceKept(v, previous, held)
                      /\ Sideways(previous) = Sideways(s)
    BY <1>3 DEF FaceKept
  <2>1. /\ v = view /\ ~previousPrompt /\ previous.kind = s.kind
        /\ Sideways(previous) = Sideways(s)
    BY <1>8
  <2>2. FaceKept(v, previous, held)
    <3>1. CASE s.kind = "clock"
      BY <1>5, <2>1, <3>1 DEF FaceShown, CacheOf
    <3>2. CASE s.kind = "face"
      BY <1>5, <2>1, <3>2 DEF FaceShown, CacheOf
    <3> QED BY <1>2, <3>1, <3>2
  <2> QED BY <2>1, <2>2
<1> DEFINE goal == Shown(w, s, inPrompt) /\ Clean(w, s, fresh', inPrompt)
<1>11. /\ 0 \notin Landscapes /\ None \notin Landscapes /\ None # 0
       /\ None \notin Moods
  BY NoneApart
<1>12. ASSUME NEW u, u \in Views, Hanging(u), u.approval = None,
              FaceKept(u, s, CacheOf(u, k))
       PROVE  Shown(u, s, inPrompt)
  <2>1. FaceShown(u, s) BY <1>12, <1>2 DEF FaceShown, CacheOf
  <2>2. PromptShown(u, s) /\ PageShown(u, s, inPrompt)
    BY <1>12, <1>2 DEF PromptShown, PageShown
  <2> QED BY <1>12, <2>1, <2>2 DEF Shown
<1>13. ASSUME w = v, fresh' = "none"
       PROVE  goal
  <2>1. FaceKept(v, s, held) BY <1>10 DEF FaceKept
  <2>2. Shown(v, s, inPrompt) BY <1>8, <1>12, <2>1
  <2>3. Clean(w, s, fresh', inPrompt) BY <1>13 DEF Clean
  <2> QED BY <1>13, <2>2, <2>3
<1>17. SUFFICES goal BY <1>7, Zenon
<1>14. CASE facing = None
  BY <1>2, <1>7, <1>9, <1>13, <1>14 DEF OnFace
<1>15. CASE facing = 0
  <2>1. CASE rest # "lit" BY <1>2, <1>7, <1>9, <1>13, <1>15, <2>1 DEF OnFace
  <2>2. CASE rest = "lit"
    <3>1. fresh' = "sprite" BY <1>2, <1>7, <1>9, <1>15, <2>2 DEF OnFace
    <3>2. PICK r \in Views, exited \in BOOLEAN :
             /\ exited => previousPrompt
             /\ SpriteFace(v, k, mood, exited, r)
             /\ w = Screens!Push(Screens!Paint(r, Screens!Overlay))
      BY <1>2, <1>7, <1>9, <1>15, <2>2 DEF OnFace
    <3>3. Screens!Overlay \in SUBSET Layers BY DEF Screens!Overlay, Layers
    <3> DEFINE q == Screens!Paint(r, Screens!Overlay)
    <3>4. Only(r, q, {"painted"}) /\ q.painted = r.painted \cup Screens!Overlay
      BY <3>3, PaintView
    <3>5. q \in Views BY <3>4 DEF Only
    <3> HIDE DEF q
    <3>6. Only(q, w, {"lcd"}) BY <3>2, <3>5, PushView DEF q
    <3> DEFINE new == [facing |-> 0, mood |-> mood]
    <3>8. /\ Only(v, r, {"painted", "known", "mood", "due", "peek", "clock",
                         "face"})
          /\ CacheOf(r, k) = new /\ r.due = FALSE
          /\ loaded = "none" => r.mood = v.mood
          /\ IF Screens!Whole(held, 0, mood, exited)
             THEN r.painted = {"face"}
             ELSE /\ r.known = v.known
                  /\ buddyMode \/ (v.peek /\ (loaded = "none" \/ v.mood = mood))
                       => r.painted = v.painted
          /\ ~buddyMode => r.peek = TRUE /\ (loaded # "none" => r.mood = mood)
      BY <3>2 DEF SpriteFace
    <3> HIDE DEF held
    <3>9. /\ w \in Views /\ w.approval = None /\ w.due = FALSE
          /\ w.painted = r.painted \cup Screens!Overlay /\ w.known = r.known
          /\ w.mood = r.mood /\ w.peek = r.peek
          /\ w.clock = r.clock /\ w.face = r.face
      BY <1>8, <3>4, <3>6, <3>8 DEF Only
    <3>10. CacheOf(w, k) = new BY <3>8, <3>9 DEF CacheOf
    <3> HIDE DEF w
    <3>11. ASSUME w.known \cap {"unseen", "switched"} = {}
           PROVE  w.painted = {"face"} \cup Screens!Overlay
      <4>1. CASE Screens!Whole(held, 0, mood, exited) BY <3>8, <3>9, <4>1
      <4>2. CASE ~Screens!Whole(held, 0, mood, exited)
        <5>1. held # None /\ held = new BY <4>2 DEF Screens!Whole
        <5>2. held.mood = mood BY <5>1
        <5>3. ~Sideways(s) BY <1>2, <1>11, <1>15 DEF Sideways
        <5>4. v.known \cap {"unseen", "switched"} = {}
          BY <3>8, <3>9, <3>11, <4>2
        <5>5. /\ "face" \in v.painted
              /\ v.painted \subseteq {"face"} \cup Screens!Overlay
              /\ ~buddyMode =>
                   v.peek /\ (loaded # "none" => v.mood = mood)
          BY <1>10, <5>1, <5>2, <5>3, <5>4 DEF held
        <5>6. r.painted = v.painted BY <3>8, <4>2, <5>5
        <5> QED BY <3>9, <5>5, <5>6
      <4> QED BY <4>1, <4>2
    <3>12. FaceKept(w, s, new)
      <4>1. ~Sideways(s) BY <1>2, <1>11, <1>15 DEF Sideways
      <4>2. new.mood = mood OBVIOUS
      <4> QED BY <3>8, <3>9, <3>11, <4>1, <4>2 DEF FaceKept
    <3>13. Hanging(w) BY <1>8, <3>8, <3>9 DEF Hanging
    <3>14. Shown(w, s, inPrompt)
      BY <1>12, <3>9, <3>10, <3>12, <3>13, Zenon
    <3>15. Clean(w, s, fresh', inPrompt)
      <4>1. w.known \cap {"unseen", "switched"} = {} =>
              w.painted = {"face"} \cup Screens!Overlay
        BY <3>11
      <4>2. "message" \notin {"face"} \cup Screens!Overlay
        BY DEF Screens!Overlay
      <4> QED BY <1>2, <3>1, <4>1, <4>2 DEF Clean
    <3> QED BY <3>14, <3>15 DEF w
  <2> QED BY <2>1, <2>2
<1>16. CASE facing \in Landscapes
  <2>1. CASE Pass(v, s, mood).view = v /\ Pass(v, s, mood).on = "none"
    BY <1>7, <1>13, <2>1
  <2>2. CASE ~(Pass(v, s, mood).view = v /\ Pass(v, s, mood).on = "none")
    <3>1. fresh' \in {"none", "lcd"} BY <1>2, <1>7, <1>9, <1>16, <2>2 DEF OnFace
    <3>2. PICK exited \in BOOLEAN :
             /\ exited => previousPrompt
             /\ DisplayFace(v, k, facing, mood, exited, w)
      BY <1>2, <1>7, <1>9, <1>16, <2>2 DEF OnFace
    <3> DEFINE new == [facing |-> facing, mood |-> mood]
               mark == {<<"face", facing>>} \cup Screens!Overlays(facing)
    <3>3. /\ Only(v, w, {"known", "lcd", "clock", "face"})
          /\ CacheOf(w, k) = new
          /\ IF Screens!Whole(held, facing, mood, exited) THEN w.lcd = mark
             ELSE w.lcd = v.lcd \cup Screens!Overlays(facing) /\ w.known = v.known
      BY <3>2 DEF DisplayFace
    <3>4. w \in Views /\ w.approval = None /\ w.mood = v.mood /\ w.due = v.due
      BY <1>8, <3>3 DEF Only
    <3> HIDE DEF w, held
    <3>5. Sideways(s) BY <1>2, <1>16 DEF Sideways
    <3>6. /\ <<"face", facing>> \in w.lcd
          /\ "unseen" \notin w.known => w.lcd = mark
      <4>1. CASE Screens!Whole(held, facing, mood, exited) BY <3>3, <4>1
      <4>2. CASE ~Screens!Whole(held, facing, mood, exited)
        <5>1. held # None /\ held = new BY <4>2 DEF Screens!Whole
        <5>2. held.facing = facing BY <5>1
        <5>3. /\ <<"face", facing>> \in v.lcd
              /\ "unseen" \notin v.known =>
                   v.lcd \subseteq {<<"face", facing>>} \cup Screens!Overlays(facing)
          BY <1>10, <3>5, <5>1, <5>2 DEF held
        <5> QED BY <3>3, <4>2, <5>3
      <4> QED BY <4>1, <4>2
    <3>7. FaceKept(w, s, new)
      <4>1. new.facing = facing OBVIOUS
      <4> QED BY <3>5, <3>6, <4>1 DEF FaceKept
    <3>8. Hanging(w) BY <1>8, <3>4 DEF Hanging
    <3>9. Shown(w, s, inPrompt) BY <1>12, <3>3, <3>4, <3>7, <3>8, Zenon
    <3>10. Clean(w, s, fresh', inPrompt) BY <1>2, <3>1, <3>6 DEF Clean
    <3> QED BY <3>9, <3>10 DEF w
  <2> QED BY <2>1, <2>2
<1> QED BY <1>4, <1>14, <1>15, <1>16

\* What the drawing leaves alone, the invariant may read before it or after.
LEMMA SameAsked ==
  ASSUME UNCHANGED <<inPrompt, xfer, buddyMode, loaded, open, mode, overlay>>,
         Shown(view', previous', previousPrompt')
  PROVE  Shown(view, previous, previousPrompt)'
<1>1. Screens!Top' = Screens!Top BY DEF Screens!Top
<1>2. Screens!Overlay' = Screens!Overlay BY DEF Screens!Overlay
<1>3. More(previousPrompt)' = More(previousPrompt') BY <1>1, <1>2 DEF More
<1>4. PageOk(view', More(previousPrompt')) =>
        PageOk(view, More(previousPrompt))'
  BY <1>3 DEF PageOk, PetOk
<1>5. PageShown(view', previous', previousPrompt') =>
        PageShown(view, previous, previousPrompt)'
  BY <1>4 DEF PageShown, Sideways
<1>6. PromptShown(view', previous') => PromptShown(view, previous)'
  BY DEF PromptShown, Sideways
<1>7. FaceKept(view', previous', view.clock') =>
        FaceKept(view, previous, view.clock)'
  BY <1>2 DEF FaceKept, Sideways, Bare, Screens!Overlays
<1>8. FaceKept(view', previous', view.face') =>
        FaceKept(view, previous, view.face)'
  BY <1>2 DEF FaceKept, Sideways, Bare, Screens!Overlays
<1>9. FaceShown(view', previous') => FaceShown(view, previous)'
  BY <1>7, <1>8 DEF FaceShown
<1> QED BY <1>5, <1>6, <1>9 DEF Shown, Hanging

LEMMA DrawKeeps ==
  ASSUME ScreensAssumption, IInv, Screens!DrawStep
  PROVE  /\ IInv'
         /\ Screens!NoLeftovers'
<1>1. TypeOK /\ Surfaces /\ Asked BY DEF IInv
<1>2. /\ step' = "data" /\ previousPrompt' = inPrompt
      /\ UNCHANGED <<prompt, inPrompt, update, xfer, buddyMode, gifAvailable,
                     loaded, open, mode, overlay, spentA>>
  BY DEF Screens!DrawStep
<1>3. PICK activity \in Screens!Activities :
        /\ \E facing \in Screens!Facings(Screens!Kind(activity)),
              mood \in Moods, ticked \in BOOLEAN :
             Screens!Draw(Screens!Kind(activity), facing, mood, ticked)
        /\ Screens!Rest(activity)
  BY DEF Screens!DrawStep
<1> DEFINE kind == Screens!Kind(activity)
<1>16. PICK facing \in Screens!Facings(kind), mood \in Moods,
            ticked \in BOOLEAN :
         Screens!Draw(kind, facing, mood, ticked)
  BY <1>3
<1>4. facing \in Landscapes \cup {0, None} /\ (kind = "none" => facing = None)
  BY <1>16 DEF Screens!Facings
<1>5. kind \in {"none", "clock", "face", "prompt"} BY DEF Screens!Kind
<1>8. /\ kind = "prompt" => inPrompt
      /\ kind \in {"clock", "face"} => Bare
  BY DEF Screens!Kind, Screens!SharedClockFaceSelected, Bare
<1>17. kind = Screens!Kind(activity) OBVIOUS
<1> HIDE DEF kind
<1>6. Shown(view', previous', inPrompt) /\ Clean(view', previous', fresh', inPrompt)
  <2>1. CASE kind = "none" BY <1>16, <1>17, <1>4, <2>1, DrawPage
  <2>2. CASE kind \in {"clock", "face"} BY <1>16, <1>17, <2>2, DrawFace
  <2>3. CASE kind = "prompt" BY <1>16, <1>17, <1>4, <2>3, DrawPrompt
  <2> QED BY <1>5, <2>1, <2>2, <2>3
<1>7. previous' = [kind |-> kind, facing |-> facing]
  BY <1>16 DEF Screens!Draw
<1>9. Shown(view, previous, previousPrompt)' BY <1>2, <1>6, SameAsked
<1>10. TypeOK'
  <2>1. view' \in Views BY <1>6 DEF Shown
  <2>2. rest' \in {"lit", "napping", "off"}
    BY <1>1, <1>2, <1>3 DEF Screens!Rest, TypeOK
  <2> QED
    BY <1>1, <1>2, <2>1, <2>2 DEF TypeOK, Screens!Panels, Views, Caches, Marks
<1>11. Surfaces'
  <2>1. previous' \in [kind : {"none", "clock", "face", "prompt"},
                       facing : Landscapes \cup {0, None}]
    BY <1>4, <1>5, <1>7
  <2>2. previous'.kind = kind /\ previous'.facing = facing BY <1>7
  <2> QED BY <1>2, <1>4, <1>8, <2>1, <2>2 DEF Surfaces, Bare
<1>12. Asked' BY <1>1, <1>2, <1>3 DEF Asked, Screens!Rest
<1>13. Faced'
  <2>1. previous'.kind = kind BY <1>7
  <2> QED BY <1>2, <1>8, <2>1 DEF Faced, Bare
<1>14. Passing' BY <1>2 DEF Passing
<1>15. Screens!NoLeftovers'
  <2>1. Screens!Top' = Screens!Top BY <1>2 DEF Screens!Top
  <2>2. Screens!Overlay' = Screens!Overlay /\ Screens!PetThere' = Screens!PetThere
    BY <1>2 DEF Screens!Overlay, Screens!PetThere
  <2>3. Screens!Expected' = Screens!Expected
    BY <1>2, <2>1, <2>2 DEF Screens!Expected
  <2>4. Screens!Painted' = IF Screens!PetThere THEN view'.painted
                   ELSE view'.painted \ {"message"}
    BY <2>2 DEF Screens!Painted
  <2>5. Screens!Overlays(previous.facing)' = Screens!Overlays(previous'.facing)
    BY <1>2 DEF Screens!Overlays
  <2>6. Screens!PetLayers = Bodies
    BY DEF Screens!PetLayers, Bodies, Large, Little
  <2> QED BY <1>2, <1>6, <2>2, <2>3, <2>4, <2>5, <2>6
          DEF Screens!NoLeftovers, Screens!DisplayMeant, Screens!FaceMeant,
              Screens!PageMeant, Screens!OnFace, Clean
<1> QED BY <1>9, <1>10, <1>11, <1>12, <1>13, <1>14, <1>15 DEF IInv

------------------------------------------------------------------------------
\* The buttons.  What a key does to the page and the view is one of six things.

KeyKept ==
  view' = view /\ UNCHANGED <<open, mode, inPrompt, buddyMode, update>>
KeyMenu ==
  /\ view' = view /\ open = {} /\ open' = {"menu"}
  /\ UNCHANGED <<mode, inPrompt, buddyMode, update>>
KeyCleared ==
  /\ view' = Screens!Cleared /\ open # {} /\ open' \subseteq Screens!Panels
  /\ ~("receive" \in open /\ Screens!Active)
  /\ UNCHANGED <<mode, inPrompt, buddyMode>>
  /\ update' \in {update, "none"}
  /\ "receive" \in open' => "receive" \in open \/ ~(inPrompt \/ overlay)
KeyLaid ==
  /\ \/ view' = Screens!ApplyDisplayMode(view, mode')
     \/ view' = Screens!CharacterInvalidate(Screens!ApplyDisplayMode(view, mode'))
  /\ mode' \in {"normal", "pet", "info"} /\ (mode # "normal" \/ mode' # "normal")
  /\ open' \subseteq open /\ UNCHANGED <<inPrompt, buddyMode, update>>
KeyPet ==
  /\ \E last \in BOOLEAN : Screens!NextPet(last)
  /\ "settings" \in open /\ "receive" \notin open
  /\ ~inPrompt /\ UNCHANGED <<inPrompt, update>>
KeyAnswer ==
  /\ inPrompt /\ Screens!Answer /\ UNCHANGED <<open, mode, buddyMode, update>>
KeyEffect ==
  KeyKept \/ KeyMenu \/ KeyCleared \/ KeyLaid \/ KeyPet \/ KeyAnswer

LEMMA BackEffect ==
  ASSUME TypeOK, Screens!Back, UNCHANGED <<mode, inPrompt, buddyMode>>
  PROVE  KeyKept \/ KeyCleared
<1>1. open \subseteq Screens!Panels BY DEF TypeOK
<1>2. CASE "receive" \in open /\ Screens!Active
  BY <1>2 DEF Screens!Back, Screens!Show, Screens!Active, KeyKept
<1>3. CASE "receive" \in open /\ ~Screens!Active
  <2>1. open' = (open \ {"receive"}) \cup {"settings"} /\ view' = Screens!Cleared
    BY <1>3 DEF Screens!Back, Screens!Show
  <2>2. update' \in {update, "none"} BY <1>3 DEF Screens!Back
  <2> QED BY <1>1, <1>3, <2>1, <2>2, PanelNames DEF KeyCleared
<1>4. CASE "receive" \notin open /\ "wifi" \in open
  BY <1>1, <1>4 DEF Screens!Back, Screens!Show, KeyCleared
<1> QED BY <1>2, <1>3, <1>4 DEF Screens!Back

LEMMA LongAEffect ==
  ASSUME TypeOK, Screens!LongA, UNCHANGED <<mode, inPrompt, buddyMode>>
  PROVE  KeyKept \/ KeyMenu \/ KeyCleared
<1>1. open \subseteq Screens!Panels BY DEF TypeOK
<1>2. CASE overlay /\ Screens!Show(open, view) /\ UNCHANGED update
  BY <1>2 DEF Screens!Show, KeyKept
<1>3. CASE ~overlay /\ Screens!Back BY <1>3, BackEffect
<1>4. CASE ~overlay /\ "receive" \notin open /\ "wifi" \in open
  <2>1. \/ Screens!Back
        \/ /\ open' = (open \ {"wifi"}) \cup {"settings"} /\ view' = Screens!Cleared
           /\ update' = update
    BY <1>4 DEF Screens!LongA, Screens!Show
  <2>2. CASE Screens!Back BY <2>2, BackEffect
  <2>3. CASE /\ open' = (open \ {"wifi"}) \cup {"settings"} /\ view' = Screens!Cleared
             /\ update' = update
    BY <1>1, <1>4, <2>3, PanelNames DEF KeyCleared
  <2> QED BY <2>1, <2>2, <2>3
<1>5. CASE /\ ~overlay /\ "receive" \notin open /\ "wifi" \notin open
           /\ open # {}
  <2>1. update' = update BY <1>5 DEF Screens!LongA, Screens!Back
  <2>2. PICK panel \in {"reset", "settings", "menu"} :
          open' = open \ {panel} /\ view' = Screens!Cleared
    BY <1>1, <1>5, PanelNames DEF Screens!LongA, Screens!Back, Screens!Show
  <2> QED BY <1>1, <1>5, <2>1, <2>2 DEF KeyCleared
<1>6. CASE ~overlay /\ open = {}
  BY <1>6 DEF Screens!LongA, Screens!Back, Screens!Show, KeyMenu
<1> QED BY <1>2, <1>3, <1>4, <1>5, <1>6 DEF Screens!LongA

LEMMA ReleaseEffect ==
  ASSUME TypeOK, Screens!ReleaseA, UNCHANGED <<open, buddyMode, update>>
  PROVE  KeyKept \/ KeyLaid \/ KeyAnswer
<1>1. CASE inPrompt BY <1>1 DEF Screens!ReleaseA, KeyAnswer
<1>2. CASE ~inPrompt /\ (overlay \/ open # {})
  BY <1>2 DEF Screens!ReleaseA, KeyKept
<1>3. CASE ~inPrompt /\ ~(overlay \/ open # {})
  <2>1. mode' = Screens!NextMode(mode) /\ view' = Screens!ApplyDisplayMode(view, mode')
    BY <1>3 DEF Screens!ReleaseA
  <2>2. mode' \in {"normal", "pet", "info"} /\ (mode = "normal" => mode' = "pet")
    <3>1. /\ Screens!Modes[1] = "normal" /\ Screens!Modes[2] = "pet" /\ Screens!Modes[3] = "info"
      BY DEF Screens!Modes
    <3>2. PICK i \in 1..3 : Screens!Modes[i] = mode
                 /\ (CHOOSE j \in 1..3 : Screens!Modes[j] = mode) = i
      BY <3>1 DEF TypeOK
    <3>3. Screens!NextMode(mode) = Screens!Modes[(i % 3) + 1]
      BY <3>2 DEF Screens!NextMode
    <3>4. i = 1 \/ i = 2 \/ i = 3 OBVIOUS
    <3>5. CASE i = 1
      <4>1. (i % 3) + 1 = 2 BY <3>5
      <4> QED BY <2>1, <3>1, <3>3, <4>1
    <3>6. CASE i = 2
      <4>1. (i % 3) + 1 = 3 BY <3>6
      <4> QED BY <2>1, <3>1, <3>2, <3>3, <3>6, <4>1
    <3>7. CASE i = 3
      <4>1. (i % 3) + 1 = 1 BY <3>7
      <4> QED BY <2>1, <3>1, <3>2, <3>3, <3>7, <4>1
    <3> QED BY <3>4, <3>5, <3>6, <3>7
  <2>3. UNCHANGED inPrompt BY <1>3 DEF Screens!ReleaseA
  <2> QED BY <2>1, <2>2, <2>3 DEF KeyLaid
<1> QED BY <1>1, <1>2, <1>3

LEMMA ConfirmEffect ==
  ASSUME ScreensAssumption, TypeOK, Screens!Confirm, ~inPrompt, ~overlay,
         UNCHANGED <<inPrompt, update>>
  PROVE  KeyKept \/ KeyCleared \/ KeyLaid \/ KeyPet
<1>1. open \subseteq Screens!Panels BY DEF TypeOK
<1>2. Screens!Top \in Screens!Panels => Screens!Top \in open /\ ("receive" \in open => Screens!Top = "receive")
  <2>1. None \notin Screens!Panels BY PanelNames DEF ScreensAssumption
  <2> QED BY <1>1, <2>1, TopPanel
<1>3. CASE Screens!Top = "wifi" /\ Screens!ApplyWifiMenuAction
  <2>1. "wifi" \in open /\ "receive" \notin open BY <1>2, <1>3, PanelNames
  <2>2. PICK panel \in {"wifi", "settings"} :
          open' = (open \ {"wifi"}) \cup {panel} /\ view' = Screens!Cleared
    BY <1>3 DEF Screens!ApplyWifiMenuAction, Screens!Show
  <2>3. UNCHANGED <<mode, buddyMode>>
    BY <1>3 DEF Screens!ApplyWifiMenuAction, Screens!SamePet
  <2> QED BY <1>1, <2>1, <2>2, <2>3, PanelNames DEF KeyCleared
<1>4. CASE Screens!Top = "reset" /\ Screens!ApplyReset
  <2>1. "reset" \in open /\ "receive" \notin open BY <1>2, <1>4, PanelNames
  <2>2. UNCHANGED <<mode, buddyMode>>
    BY <1>4 DEF Screens!ApplyReset, Screens!SamePet
  <2>3. CASE open' = open /\ view' = view BY <2>2, <2>3 DEF KeyKept
  <2>4. CASE open' = open \ {"reset"} /\ view' = Screens!Cleared
    BY <1>1, <2>1, <2>2, <2>4 DEF KeyCleared
  <2> QED BY <1>4, <2>3, <2>4 DEF Screens!ApplyReset, Screens!Show
<1>5. CASE Screens!Top = "settings" /\ Screens!ApplySetting
  <2>1. "settings" \in open /\ "receive" \notin open BY <1>2, <1>5, PanelNames
  <2>2. CASE \E last \in BOOLEAN : Screens!NextPet(last)
    BY <2>1, <2>2 DEF KeyPet
  <2>3. CASE open' = open /\ view' = view /\ UNCHANGED <<mode, buddyMode>>
    BY <2>3 DEF KeyKept
  <2>4. CASE /\ view' = Screens!Cleared /\ UNCHANGED <<mode, buddyMode>>
             /\ \/ open' = open \cup {"reset"} \/ open' = open \ {"settings"}
                \/ open' = (open \ {"settings"}) \cup {"wifi"}
                \/ open' = (open \ {"settings"}) \cup {"receive"}
    <3>1. open' \subseteq Screens!Panels BY <1>1, <2>4, PanelNames
    <3> QED BY <2>1, <2>4, <3>1 DEF KeyCleared
  <2> QED
    BY <1>5, <2>2, <2>3, <2>4 DEF Screens!ApplySetting, Screens!Show,
       Screens!SamePet
<1>6. CASE Screens!Top = "menu" /\ Screens!MenuConfirm
  <2>1. "menu" \in open /\ "receive" \notin open BY <1>2, <1>6, PanelNames
  <2>2. CASE open' = open /\ view' = view /\ UNCHANGED <<mode, buddyMode>>
    BY <2>2 DEF KeyKept
  <2>3. CASE /\ view' = Screens!Cleared /\ UNCHANGED <<mode, buddyMode>>
             /\ \/ open' = (open \ {"menu"}) \cup {"settings"}
                \/ open' = open \ {"menu"}
    <3>1. open' \subseteq Screens!Panels BY <1>1, <2>3, PanelNames
    <3> QED BY <2>1, <2>3, <3>1 DEF KeyCleared
  <2>4. CASE /\ mode' = "info" /\ open' = open \ {"menu"}
             /\ view' = Screens!CharacterInvalidate(Screens!ApplyDisplayMode(view, "info"))
             /\ UNCHANGED buddyMode
    BY <2>4 DEF KeyLaid
  <2> QED
    BY <1>6, <2>2, <2>3, <2>4 DEF Screens!MenuConfirm, Screens!Show,
       Screens!SamePet
<1>7. CASE /\ open = {}
           /\ view' = IF mode = "pet" THEN Screens!ApplyDisplayMode(view, mode) ELSE view
           /\ UNCHANGED <<open, mode>> /\ Screens!SamePet
  <2>1. CASE mode = "pet" BY <1>7, <2>1 DEF KeyLaid, Screens!SamePet
  <2>2. CASE mode # "pet" BY <1>7, <2>2 DEF KeyKept, Screens!SamePet
  <2> QED BY <2>1, <2>2
<1> QED BY <1>3, <1>4, <1>5, <1>6, <1>7 DEF Screens!Confirm

LEMMA KeysEffect ==
  ASSUME ScreensAssumption, TypeOK, Asked, Screens!Keys
  PROVE  /\ KeyEffect
         /\ step = "keys" /\ step' = "draw"
         /\ UNCHANGED <<previousPrompt, xfer, loaded, overlay, previous, fresh>>
         /\ rest' \in {rest, "lit"} \/ (rest' = "off" /\ ~Screens!Active)
         /\ \/ inPrompt' = inPrompt /\ prompt' = prompt
            \/ inPrompt' = FALSE /\ prompt' = "none"
<1>1. Screens!Keys => Screens!KeysStep
  BY DEF Screens!Keys, Screens!NoKey, Screens!Wake, Screens!HoldA,
     Screens!LiftA, Screens!PushB, Screens!PowerKey
<1>2. /\ step = "keys" /\ step' = "draw"
      /\ UNCHANGED <<previousPrompt, xfer, loaded, overlay, previous, fresh>>
  BY <1>1 DEF Screens!KeysStep
<1>3. CASE Screens!NoKey \/ Screens!Wake \/ Screens!PowerKey
  BY <1>2, <1>3 DEF Screens!NoKey, Screens!Wake, Screens!PowerKey,
     Screens!NoChoice, Screens!SamePet, KeyEffect, KeyKept
<1>4. CASE Screens!HoldA
  <2>1. /\ Screens!LongA /\ UNCHANGED <<mode, prompt, inPrompt, buddyMode>>
        /\ rest' = rest
    BY <1>4 DEF Screens!HoldA, Screens!SamePet
  <2>2. KeyKept \/ KeyMenu \/ KeyCleared BY <2>1, LongAEffect
  <2> QED BY <1>2, <2>1, <2>2 DEF KeyEffect
<1>5. CASE Screens!LiftA
  <2>1. UNCHANGED <<open, buddyMode, update, rest>>
    BY <1>5 DEF Screens!LiftA, Screens!NoChoice, Screens!SamePet
  <2>2. CASE ~Screens!ReleaseA
    BY <1>2, <1>5, <2>1, <2>2 DEF Screens!LiftA, KeyEffect, KeyKept
  <2>3. CASE Screens!ReleaseA
    <3>1. KeyEffect BY <2>1, <2>3, ReleaseEffect DEF KeyEffect
    <3> QED BY <1>2, <2>1, <2>3, <3>1 DEF Screens!ReleaseA, Screens!Answer
  <2> QED BY <2>2, <2>3, Zenon
<1>6. CASE Screens!PushB
  <2>1. Screens!PressB /\ UNCHANGED rest BY <1>6 DEF Screens!PushB
  <2>2. CASE inPrompt
    BY <1>2, <2>1, <2>2 DEF Screens!PressB, Screens!Answer, Screens!SamePet,
       KeyEffect, KeyAnswer
  <2>3. CASE ~inPrompt
    <3>1. UNCHANGED <<prompt, inPrompt>> BY <2>1, <2>3 DEF Screens!PressB
    <3>2. KeyEffect
      <4>1. CASE overlay /\ UNCHANGED <<open, mode, view, update>> /\ Screens!SamePet
        BY <3>1, <4>1 DEF KeyEffect, KeyKept, Screens!SamePet
      <4>2. CASE ~overlay /\ Screens!Back /\ UNCHANGED mode /\ Screens!SamePet
        BY <3>1, <4>2, BackEffect DEF KeyEffect, Screens!SamePet
      <4>3. CASE ~overlay /\ Screens!Confirm /\ UNCHANGED update
        BY <2>3, <3>1, <4>3, ConfirmEffect DEF KeyEffect
      <4> QED BY <2>1, <2>3, <4>1, <4>2, <4>3 DEF Screens!PressB
    <3> QED BY <1>2, <2>1, <3>1, <3>2
  <2> QED BY <2>2, <2>3, Zenon
<1> QED BY <1>3, <1>4, <1>5, <1>6, Zenon DEF Screens!Keys

\* A face is left as it was, unless something covers it or an answer passed by.
FaceStays ==
  previous.kind \in {"clock", "face"} /\ Bare' =>
    \/ "unseen" \in view'.known
    \/ view' = view /\ Bare /\ buddyMode' = buddyMode

LEMMA KeyShown ==
  ASSUME IInv, UNCHANGED <<previous, previousPrompt, overlay, xfer, loaded>>,
         Only(view, view', Layout),
         "darkened" \in view.known => "darkened" \in view'.known,
         loaded = "none" => view'.due = view.due, FaceStays,
         PageShown(view, previous, previousPrompt)'
  PROVE  Shown(view, previous, previousPrompt)'
<1>1. /\ Hanging(view) /\ FaceShown(view, previous) /\ view \in Views
      /\ PromptShown(view, previous)
  BY DEF IInv, Shown
<1>2. /\ view' \in Views /\ view'.mood = view.mood /\ view'.lcd = view.lcd
      /\ view'.clock = view.clock /\ view'.face = view.face
      /\ view'.approval = view.approval
  BY DEF Only, Layout
<1>3. (view \in Views)' BY <1>2 DEF Views, Caches, Marks
<1>4. Hanging(view)' BY <1>1, <1>2 DEF Hanging
<1>5. PromptShown(view, previous)' BY <1>1, <1>2 DEF PromptShown, Sideways
<1>6. Screens!Overlay' = Screens!Overlay BY DEF Screens!Overlay
<1>7. ASSUME previous.kind \in {"clock", "face"},
             FaceKept(view, previous, view.clock)
      PROVE  FaceKept(view, previous, view.clock)'
  BY <1>2, <1>6, <1>7 DEF FaceKept, Sideways, Screens!Overlays, FaceStays
<1>8. ASSUME previous.kind \in {"clock", "face"},
             FaceKept(view, previous, view.face)
      PROVE  FaceKept(view, previous, view.face)'
  BY <1>2, <1>6, <1>8 DEF FaceKept, Sideways, Screens!Overlays, FaceStays
<1>9. FaceShown(view, previous)' BY <1>1, <1>7, <1>8 DEF FaceShown
<1> QED BY <1>3, <1>4, <1>5, <1>9 DEF Shown

\* A page that was cleared is as good as any.
LEMMA ClearedPage ==
  ASSUME view' \in Views, view'.painted = {}, view'.invalid = TRUE,
         Animated(view)' => view'.due,
         "dismissed" \notin view'.known =>
           /\ view'.peek = (mode' # "normal") /\ view'.small = (mode' # "normal")
  PROVE  PageShown(view, previous, previousPrompt)'
<1>1. PetOk(view)' BY DEF PetOk, Animated
<1> QED BY <1>1 DEF PageShown, PageOk

LEMMA KeyKeptShown ==
  ASSUME IInv, UNCHANGED <<previous, previousPrompt, overlay, xfer, loaded>>,
         KeyKept \/ KeyMenu
  PROVE  Shown(view, previous, previousPrompt)'
<1>1. view' = view /\ UNCHANGED <<mode, inPrompt, buddyMode>>
  BY DEF KeyKept, KeyMenu
<1>2. /\ Only(view, view, {}) /\ PageShown(view, previous, previousPrompt)
      /\ TypeOK
  BY ViewParts DEF IInv, Shown
<1>3. Only(view, view', Layout) BY <1>1, <1>2 DEF Only
<1>4. FaceStays
  <2>1. ~Bare' \/ Bare BY <1>1 DEF KeyKept, KeyMenu, Bare
  <2> QED BY <1>1, <2>1 DEF FaceStays
<1>5. Screens!Overlay' = Screens!Overlay BY DEF Screens!Overlay
<1>6. More(previousPrompt) \subseteq More(previousPrompt)'
  <2>1. Screens!Top' = Screens!Top \/ Screens!Top = None
    <3>1. CASE KeyKept BY <3>1 DEF KeyKept, Screens!Top
    <3>2. CASE KeyMenu
      <4>1. open \subseteq Screens!Panels BY <1>2 DEF TypeOK
      <4> QED BY <3>2, <4>1, TopPanel DEF KeyMenu
    <3> QED BY <3>1, <3>2
  <2> QED BY <1>1, <1>5, <2>1 DEF More
<1>7. PageOk(view, More(previousPrompt)) =>
        PageOk(view, More(previousPrompt))'
  BY <1>1, <1>6 DEF PageOk, PetOk
<1>8. open' = {} => open = {} BY DEF KeyKept, KeyMenu
<1>9. PageShown(view, previous, previousPrompt)'
  BY <1>1, <1>2, <1>7, <1>8 DEF PageShown, Sideways
<1> QED BY <1>1, <1>3, <1>4, <1>9, KeyShown

LEMMA KeyClearedShown ==
  ASSUME IInv, step = "keys",
         UNCHANGED <<previous, previousPrompt, overlay, xfer, loaded>>,
         KeyCleared
  PROVE  Shown(view, previous, previousPrompt)'
<1>1. /\ view' = Screens!InvalidatePortraitSurface(view)
      /\ UNCHANGED <<mode, inPrompt, buddyMode>>
  BY DEF KeyCleared, Screens!Cleared
<1>2. /\ view \in Views /\ PageShown(view, previous, previousPrompt) /\ Faced
      /\ Surfaces
  BY DEF IInv, Shown
<1>3. /\ Only(view, view', {"painted", "known", "due", "invalid"})
      /\ view'.painted = {} /\ view'.known = Wiped(view)
      /\ view'.invalid = TRUE /\ view'.due = (view.due \/ Animated(view))
  BY <1>1, <1>2, InvalidatePortraitView
<1>4. Only(view, view', Layout) BY <1>3 DEF Only, Layout
<1>5. "darkened" \in view.known => "darkened" \in view'.known
  BY <1>3 DEF Wiped
<1>6. loaded = "none" => view'.due = view.due
  BY <1>2, <1>3, ViewParts DEF Animated
<1>7. FaceStays
  <2>1. previous.kind \notin {"clock", "face"}
    BY <1>2 DEF KeyCleared, Faced, Screens!Active
  <2> QED BY <2>1 DEF FaceStays
<1>8. PageShown(view, previous, previousPrompt)'
  <2>1. CASE previous.kind \in {"none", "prompt"} /\ ~Sideways(previous)
    <3>1. PageOk(view, More(previousPrompt)) BY <1>2, <2>1 DEF PageShown
    <3>2. "dismissed" \notin view'.known =>
            view'.peek = (mode' # "normal") /\ view'.small = (mode' # "normal")
      BY <1>1, <1>3, <3>1 DEF PageOk, Only, Wiped
    <3>3. view' \in Views BY <1>3 DEF Only
    <3>4. Animated(view)' => view'.due BY <1>3 DEF Animated, Only
    <3> QED BY <1>3, <3>2, <3>3, <3>4, ClearedPage
  <2>2. CASE ~(previous.kind \in {"none", "prompt"} /\ ~Sideways(previous))
    BY <2>2 DEF PageShown, Sideways
  <2> QED BY <2>1, <2>2
<1> QED BY <1>4, <1>5, <1>6, <1>7, <1>8, KeyShown

LEMMA KeyLaidShown ==
  ASSUME IInv, step = "keys",
         UNCHANGED <<previous, previousPrompt, overlay, xfer, loaded>>,
         KeyLaid
  PROVE  Shown(view, previous, previousPrompt)'
<1> DEFINE a == Screens!ApplyDisplayMode(view, mode')
<1>1. view \in Views /\ Faced BY DEF IInv, Shown
<1>2. /\ Only(view, a, {"painted", "known", "due", "invalid", "peek", "small"})
      /\ a.painted = {} /\ a.known = Wiped(view) \ {"dismissed"}
      /\ a.invalid = TRUE /\ a.due = (view.due \/ Animated(view))
      /\ a.peek = (mode' # "normal") /\ a.small = (mode' # "normal")
  BY <1>1, ApplyDisplayModeView
<1>3. a \in Views BY <1>2 DEF Only
<1>4. view' = a \/ view' = Screens!CharacterInvalidate(a) BY DEF KeyLaid
<1> HIDE DEF a
<1>5. /\ Only(a, view', {"painted", "known", "due"})
      /\ view' = a \/ Reopened(a, view')
  <2>1. Only(a, a, {}) BY <1>3, ViewParts
  <2>2. /\ Only(a, Screens!CharacterInvalidate(a), {"painted", "known", "due"})
        /\ Reopened(a, Screens!CharacterInvalidate(a))
    BY <1>3, CharacterInvalidateView
  <2> QED BY <1>4, <2>1, <2>2 DEF Only
<1>6. Only(view, view', Layout) BY <1>2, <1>5 DEF Only, Layout
<1>7. /\ view'.painted = {} /\ view'.invalid = TRUE
      /\ view'.due = (view.due \/ Animated(view))
      /\ view'.peek = (mode' # "normal") /\ view'.small = (mode' # "normal")
  BY <1>2, <1>5 DEF Only, Reopened, Animated
<1>8. view'.known = Wiped(view) \ {"dismissed"}
  BY <1>2, <1>5 DEF Reopened, Wiped
<1>9. "darkened" \in view.known => "darkened" \in view'.known
  BY <1>8 DEF Wiped
<1>10. loaded = "none" => view'.due = view.due
  BY <1>1, <1>7, ViewParts DEF Animated
<1>11. FaceStays
  <2>1. previous.kind \in {"clock", "face"} => mode' # "normal"
    BY <1>1 DEF KeyLaid, Faced
  <2> QED BY <2>1 DEF FaceStays, Bare
<1>12. PageShown(view, previous, previousPrompt)'
  <2>1. view' \in Views BY <1>6 DEF Only
  <2>2. Animated(view)' => view'.due BY <1>6, <1>7 DEF Animated, Only, Layout
  <2> QED BY <1>7, <2>1, <2>2, ClearedPage
<1> QED BY <1>6, <1>9, <1>10, <1>11, <1>12, KeyShown

LEMMA KeyPetShown ==
  ASSUME IInv, step = "keys",
         UNCHANGED <<previous, previousPrompt, overlay, xfer, loaded>>,
         KeyPet
  PROVE  Shown(view, previous, previousPrompt)'
<1> DEFINE c == Screens!CharacterInvalidate(view)
<1>1. PICK last \in BOOLEAN : Screens!NextPet(last) BY DEF KeyPet
<1>2. /\ view \in Views /\ PageShown(view, previous, previousPrompt)
  BY DEF IInv, Shown
<1>3. Only(view, c, {"painted", "known", "due"}) /\ Reopened(view, c)
  BY <1>2, CharacterInvalidateView
<1>4. view' = IF buddyMode' THEN [c EXCEPT !.invalid = TRUE] ELSE c
  BY <1>1 DEF Screens!NextPet, Screens!BuddyInvalidate
<1>5. UNCHANGED <<open, mode, inPrompt>> BY <1>1 DEF Screens!NextPet, KeyPet
<1>6. c \in Views BY <1>3 DEF Only
<1> HIDE DEF c
<1>7. /\ Only(c, view', {"invalid"}) /\ (buddyMode' => view'.invalid = TRUE)
  <2>1. Only(c, c, {}) BY <1>6, ViewParts
  <2>2. /\ Only(c, [c EXCEPT !.invalid = TRUE], {"invalid"})
        /\ [c EXCEPT !.invalid = TRUE].invalid = TRUE
    BY <1>6, SetField
  <2>3. CASE buddyMode'
    <3>1. view' = [c EXCEPT !.invalid = TRUE] BY <1>4, <2>3
    <3> QED BY <2>2, <3>1
  <2>4. CASE ~buddyMode'
    <3>1. view' = c BY <1>4, <2>4
    <3> QED BY <2>1, <2>4, <3>1 DEF Only
  <2> QED BY <2>3, <2>4
<1>8. Only(view, view', Layout) BY <1>3, <1>7 DEF Only, Layout
<1>9. Reopened(view, view') BY <1>3, <1>7 DEF Reopened, Only
<1>10. "darkened" \in view.known => "darkened" \in view'.known
  BY <1>9 DEF Reopened, Wiped
<1>11. loaded = "none" => view'.due = view.due
  BY <1>2, <1>9, ViewParts DEF Reopened, Animated
<1>12. FaceStays BY <1>5 DEF FaceStays, Bare, KeyPet
<1>13. PageShown(view, previous, previousPrompt)'
  <2> SUFFICES ASSUME previous.kind \in {"none", "prompt"}, ~Sideways(previous)
               PROVE  PageOk(view, More(previousPrompt))'
    BY <1>5 DEF PageShown, Sideways, KeyPet
  <2>1. PageOk(view, More(previousPrompt)) BY <1>2 DEF PageShown
  <2>2. PetOk(view)'
    <3>1. ASSUME ~buddyMode', loaded # "none", view'.mood # None
          PROVE  view'.painted = {} /\ view'.due
      <4>1. Animated(view) BY <1>8, <3>1 DEF Animated, Only, Layout
      <4> QED BY <1>9, <4>1 DEF Reopened
    <3> QED BY <1>5, <1>7, <3>1 DEF PetOk, KeyPet
  <2>3. More(previousPrompt)' = More(previousPrompt)
    <3>1. Screens!Top' = Screens!Top BY <1>5 DEF Screens!Top
    <3>2. Screens!Overlay' = Screens!Overlay BY DEF Screens!Overlay
    <3> QED BY <1>5, <3>1, <3>2 DEF More
  <2>4. /\ view'.painted \subseteq view.painted
        /\ view'.peek = view.peek /\ view'.small = view.small
        /\ "dismissed" \notin view'.known => "dismissed" \notin view.known
    BY <1>3, <1>7, <1>9 DEF Reopened, Wiped, Only
  <2> QED BY <1>3, <1>5, <1>7, <1>9, <2>1, <2>2, <2>3, <2>4
          DEF PageOk, Only
<1> QED BY <1>8, <1>10, <1>11, <1>12, <1>13, KeyShown

LEMMA KeyAnswerShown ==
  ASSUME IInv, step = "keys",
         UNCHANGED <<previous, previousPrompt, overlay, xfer, loaded>>,
         KeyAnswer
  PROVE  Shown(view, previous, previousPrompt)'
<1>1. /\ view \in Views /\ PageShown(view, previous, previousPrompt)
      /\ Surfaces /\ TypeOK
  BY DEF IInv, Shown
<1>2. /\ inPrompt' = FALSE /\ UNCHANGED <<open, mode, buddyMode>>
      /\ view' = IF previousPrompt THEN view
                 ELSE [view EXCEPT !.known = view.known \cup {"unseen"}]
  BY DEF KeyAnswer, Screens!Answer
<1>3. /\ Only(view, view', {"known"}) /\ view.known \subseteq view'.known
      /\ ~previousPrompt => "unseen" \in view'.known
      /\ view'.known \subseteq view.known \cup {"unseen"}
  <2> DEFINE k == view.known \cup {"unseen"}
  <2>1. k \in SUBSET {"dismissed", "switched", "darkened", "unseen"}
    BY <1>1, ViewParts
  <2>2. Only(view, view, {}) BY <1>1, ViewParts
  <2>3. CASE previousPrompt
    <3>1. view' = view BY <1>2, <2>3
    <3> QED BY <2>2, <2>3, <3>1 DEF Only
  <2>4. CASE ~previousPrompt
    <3>1. view' = [view EXCEPT !.known = k] BY <1>2, <2>4
    <3> HIDE DEF k
    <3>2. /\ Only(view, [view EXCEPT !.known = k], {"known"})
          /\ [view EXCEPT !.known = k].known = k
      BY <1>1, <2>1, SetField
    <3>3. Only(view, view', {"known"}) /\ view'.known = k BY <3>1, <3>2
    <3> QED BY <3>3 DEF k
  <2> QED BY <2>3, <2>4
<1>4. Only(view, view', Layout) BY <1>3 DEF Only, Layout
<1>5. FaceStays
  BY <1>1, <1>3 DEF FaceStays, Surfaces
<1>6. PageShown(view, previous, previousPrompt)'
  <2>1. Screens!Top' = Screens!Top BY <1>2 DEF Screens!Top
  <2>2. Screens!Overlay' = Screens!Overlay BY DEF Screens!Overlay
  <2>3. More(previousPrompt)' = More(previousPrompt)
    BY <1>2, <2>1, <2>2 DEF More
  <2>4. /\ view'.painted = view.painted /\ view'.due = view.due
        /\ view'.invalid = view.invalid /\ view'.mood = view.mood
        /\ view'.peek = view.peek /\ view'.small = view.small
    BY <1>3 DEF Only
  <2>5. PetOk(view) => PetOk(view)' BY <1>2, <2>4 DEF PetOk
  <2>6. PageOk(view, More(previousPrompt)) =>
          PageOk(view, More(previousPrompt))'
    BY <1>2, <1>3, <2>3, <2>4, <2>5 DEF PageOk
  <2> QED BY <1>1, <1>2, <2>6 DEF PageShown, Sideways
<1>7. "darkened" \in view.known => "darkened" \in view'.known BY <1>3
<1>8. loaded = "none" => view'.due = view.due BY <1>3 DEF Only
<1> QED BY <1>4, <1>5, <1>6, <1>7, <1>8, KeyShown

LEMMA KeysKeep ==
  ASSUME ScreensAssumption, IInv, Screens!Keys
  PROVE  IInv' /\ Screens!NoLeftovers'
<1>1. TypeOK /\ Asked /\ Surfaces /\ Passing BY DEF IInv
<1>2. /\ KeyEffect
      /\ step = "keys" /\ step' = "draw"
      /\ UNCHANGED <<previousPrompt, xfer, loaded, overlay, previous, fresh>>
      /\ rest' \in {rest, "lit"} \/ (rest' = "off" /\ ~Screens!Active)
      /\ \/ inPrompt' = inPrompt /\ prompt' = prompt
         \/ inPrompt' = FALSE /\ prompt' = "none"
  BY <1>1, KeysEffect, Zenon
<1>3. Shown(view, previous, previousPrompt)'
  BY <1>2, KeyKeptShown, KeyClearedShown, KeyLaidShown, KeyPetShown,
     KeyAnswerShown DEF KeyEffect
<1>4. TypeOK'
  <2>1. view' \in Views BY <1>3 DEF Shown, Views, Caches, Marks
  <2>2. mode' \in {"normal", "pet", "info"}
    BY <1>1, <1>2 DEF KeyEffect, KeyKept, KeyMenu, KeyCleared, KeyLaid, KeyPet,
                      KeyAnswer, Screens!NextPet, TypeOK
  <2>3. open' \subseteq Screens!Panels
    BY <1>1, <1>2, PanelNames
       DEF KeyEffect, KeyKept, KeyMenu, KeyCleared, KeyLaid, KeyPet,
           KeyAnswer, Screens!NextPet, TypeOK
  <2>4. buddyMode' \in BOOLEAN
    <3>1. CASE KeyPet
      <4>1. PICK last \in BOOLEAN : Screens!NextPet(last) BY <3>1 DEF KeyPet
      <4> QED BY <4>1 DEF Screens!NextPet
    <3>2. CASE ~KeyPet
      BY <1>1, <1>2, <3>2 DEF KeyEffect, KeyKept, KeyMenu, KeyCleared, KeyLaid,
                              KeyAnswer, TypeOK
    <3> QED BY <3>1, <3>2
  <2>5. inPrompt' \in BOOLEAN BY <1>1, <1>2, Zenon DEF TypeOK
  <2>6. rest' \in {"lit", "napping", "off"} BY <1>1, <1>2 DEF TypeOK
  <2>7. step' \in {"data", "keys", "draw"} BY <1>2
  <2>8. (view \in Views)' BY <1>3 DEF Shown
  <2>9. (open \subseteq Screens!Panels)' BY <2>3 DEF Screens!Panels
  <2> QED BY <1>1, <1>2, <2>2, <2>4, <2>5, <2>6, <2>7, <2>8, <2>9 DEF TypeOK
<1>5. Surfaces' BY <1>1, <1>2 DEF Surfaces
<1>6. Asked'
  <2>1. inPrompt' = (prompt' = "asked")
    BY <1>1, <1>2 DEF Asked
  <2>2. inPrompt' => inPrompt BY <1>2, Zenon
  <2>3. inPrompt' => ~overlay' /\ rest' # "napping"
    BY <1>1, <1>2, <2>2 DEF Asked
  <2>4. update' = "auto" => "receive" \notin open'
    BY <1>1, <1>2
       DEF Asked, KeyEffect, KeyKept, KeyMenu, KeyCleared, KeyLaid, KeyPet,
           KeyAnswer, Screens!NextPet
  <2>5. xfer' => loaded' = "none" BY <1>1, <1>2 DEF Asked
  <2> QED BY <1>2, <2>1, <2>3, <2>4, <2>5 DEF Asked
<1>7. Faced' BY <1>2 DEF Faced
<1>8. fresh' = "none" BY <1>1, <1>2 DEF Passing
<1>9. Passing' BY <1>2, <1>8 DEF Passing
<1>10. Screens!NoLeftovers' BY <1>8 DEF Screens!NoLeftovers
<1> QED BY <1>3, <1>4, <1>5, <1>6, <1>7, <1>9, <1>10 DEF IInv

------------------------------------------------------------------------------
\* The host's lines: what the rest of the data step makes of a view.

LEMMA ResetCachesView ==
  ASSUME NEW v \in Views
  PROVE  LET w == Screens!ResetCaches(v) IN
         Only(v, w, {"clock", "face"}) /\ w.clock = None /\ w.face = None
<1> DEFINE c == Screens!ResetCache(v, "clock")
           w == Screens!ResetCaches(v)
<1>1. Only(v, c, {"clock"}) /\ c.clock = None BY ResetCacheView
<1>2. c \in Views BY <1>1 DEF Only
<1>3. w = Screens!ResetCache(c, "face") BY DEF Screens!ResetCaches
<1> HIDE DEF c
<1>4. Only(c, w, {"face"}) /\ w.face = None BY <1>2, <1>3, ResetCacheView
<1> QED BY <1>1, <1>4 DEF Only

\* Of a view v: dismissed if its panels are closed unseen, laid out if the
\* offer is raised, reset if the overlay goes, cleared if a window is over.
Settling(v, w, direct, raise, ends, over) ==
  /\ Only(v, w, Layout \cup {"clock", "face"})
  /\ "darkened" \in v.known => "darkened" \in w.known
  /\ IF raise \/ ends \/ over
     THEN /\ w.painted = {} /\ w.invalid = TRUE
          /\ w.due = (v.due \/ Animated(v))
     ELSE /\ Only(v, w, {"known"})
          /\ direct => "dismissed" \in w.known
          /\ ~direct => w = v
  /\ IF ends THEN w.clock = None /\ w.face = None
     ELSE w.clock = v.clock /\ w.face = v.face
  /\ "dismissed" \notin w.known =>
       IF raise THEN w.peek = FALSE /\ w.small = FALSE
       ELSE /\ "dismissed" \notin v.known /\ ~direct
            /\ w.peek = v.peek /\ w.small = v.small

Dismissing(v, direct) ==
  IF direct THEN [v EXCEPT !.known = v.known \cup {"dismissed"}] ELSE v
Raising(v, raise) == IF raise THEN Screens!ApplyDisplayMode(v, "normal") ELSE v
Ending(v, ends) ==
  IF ends THEN Screens!ResetCaches(Screens!InvalidatePortraitSurface(v)) ELSE v
Over(v, over) == IF over THEN Screens!InvalidatePortraitSurface(v) ELSE v

LEMMA SettlingView ==
  ASSUME NEW v \in Views, NEW direct \in BOOLEAN, NEW raise \in BOOLEAN,
         NEW ends \in BOOLEAN, NEW over \in BOOLEAN
  PROVE  Settling(v, Over(Ending(Raising(Dismissing(v, direct), raise), ends),
                          over), direct, raise, ends, over)
<1> DEFINE v1 == Dismissing(v, direct)
           v2 == Raising(v1, raise)
           v3 == Ending(v2, ends)
           w == Over(v3, over)
<1>26. /\ v1 = IF direct
               THEN [v EXCEPT !.known = v.known \cup {"dismissed"}] ELSE v
       /\ v2 = IF raise THEN Screens!ApplyDisplayMode(v1, "normal") ELSE v1
       /\ v3 = IF ends THEN Screens!ResetCaches(Screens!InvalidatePortraitSurface(v2)) ELSE v2
       /\ w = IF over THEN Screens!InvalidatePortraitSurface(v3) ELSE v3
  BY Zenon DEF Dismissing, Raising, Ending, Over
<1> HIDE DEF v1, v2, v3, w
<1> DEFINE k == v.known \cup {"dismissed"}
<1>1. k \in SUBSET {"dismissed", "switched", "darkened", "unseen"}
  BY ViewParts
<1>2. Only(v, v, {}) BY ViewParts
<1>3. /\ Only(v, v1, {"known"})
      /\ v1.known = IF direct THEN k ELSE v.known
      /\ ~direct => v1 = v
  <2>1. CASE direct
    <3>1. v1 = [v EXCEPT !.known = k] BY <1>26, <2>1
    <3> HIDE DEF k
    <3>2. /\ Only(v, [v EXCEPT !.known = k], {"known"})
          /\ [v EXCEPT !.known = k].known = k
      BY <1>1, SetField
    <3>3. Only(v, v1, {"known"}) /\ v1.known = k BY <3>1, <3>2
    <3> QED BY <2>1, <3>3
  <2>2. CASE ~direct BY <1>2, <1>26, <2>2 DEF Only
  <2> QED BY <2>1, <2>2
<1>4. v1 \in Views BY <1>3 DEF Only
<1>5. Only(v1, v1, {}) BY <1>4, ViewParts
<1>6. IF raise
      THEN /\ Only(v1, v2, Layout)
           /\ v2.painted = {} /\ v2.known = Wiped(v1) \ {"dismissed"}
           /\ v2.invalid = TRUE /\ v2.due = (v1.due \/ Animated(v1))
           /\ v2.peek = FALSE /\ v2.small = FALSE
      ELSE v2 = v1
  <2>1. CASE raise
    <3> DEFINE a == Screens!ApplyDisplayMode(v1, "normal")
    <3>1. v2 = a BY <1>26, <2>1
    <3> HIDE DEF a
    <3>2. /\ Only(v1, a, {"painted", "known", "due", "invalid", "peek", "small"})
          /\ a.painted = {} /\ a.known = Wiped(v1) \ {"dismissed"}
          /\ a.invalid = TRUE /\ a.due = (v1.due \/ Animated(v1))
          /\ a.peek = ("normal" # "normal") /\ a.small = ("normal" # "normal")
      BY <1>4, ApplyDisplayModeView DEF a
    <3> QED BY <2>1, <3>1, <3>2 DEF Layout
  <2>2. CASE ~raise BY <1>26, <2>2
  <2> QED BY <2>1, <2>2
<1>7. v2 \in Views /\ Only(v1, v2, Layout) BY <1>5, <1>6 DEF Only, Layout
<1> DEFINE i == Screens!InvalidatePortraitSurface(v2)
<1>8. /\ Only(v2, i, {"painted", "known", "due", "invalid"})
      /\ i.painted = {} /\ i.known = Wiped(v2) /\ i.invalid = TRUE
      /\ i.due = (v2.due \/ Animated(v2))
  BY <1>7, InvalidatePortraitView
<1>9. i \in Views BY <1>8 DEF Only
<1> HIDE DEF i
<1>10. Only(v2, v2, {}) BY <1>7, ViewParts
<1>11. IF ends
       THEN /\ Only(v2, v3, {"painted", "known", "due", "invalid", "clock",
                             "face"})
            /\ v3.painted = {} /\ v3.known = Wiped(v2) /\ v3.invalid = TRUE
            /\ v3.due = (v2.due \/ Animated(v2))
            /\ v3.clock = None /\ v3.face = None
       ELSE v3 = v2
  <2>1. CASE ends
    <3>1. v3 = Screens!ResetCaches(i) BY <1>26, <2>1 DEF i
    <3>2. Only(i, v3, {"clock", "face"}) /\ v3.clock = None /\ v3.face = None
      BY <1>9, <3>1, ResetCachesView
    <3> QED BY <1>8, <2>1, <3>2 DEF Only
  <2>2. CASE ~ends BY <1>26, <2>2
  <2> QED BY <2>1, <2>2
<1>12. /\ v3 \in Views
       /\ Only(v2, v3, {"painted", "known", "due", "invalid", "clock", "face"})
  BY <1>10, <1>11 DEF Only
<1> DEFINE j == Screens!InvalidatePortraitSurface(v3)
<1>13. /\ Only(v3, j, {"painted", "known", "due", "invalid"})
       /\ j.painted = {} /\ j.known = Wiped(v3) /\ j.invalid = TRUE
       /\ j.due = (v3.due \/ Animated(v3))
  BY <1>12, InvalidatePortraitView
<1>14. Only(v3, v3, {}) BY <1>12, ViewParts
<1>15. IF over
       THEN /\ Only(v3, w, {"painted", "known", "due", "invalid"})
            /\ w.painted = {} /\ w.known = Wiped(v3) /\ w.invalid = TRUE
            /\ w.due = (v3.due \/ Animated(v3))
       ELSE w = v3
  <2>1. w = IF over THEN j ELSE v3 BY <1>26
  <2> HIDE DEF j
  <2> QED BY <1>13, <2>1
<1>16. Only(v3, w, {"painted", "known", "due", "invalid"})
  BY <1>14, <1>15 DEF Only
<1>17. Only(v, w, Layout \cup {"clock", "face"})
  BY <1>3, <1>7, <1>12, <1>16 DEF Only, Layout
<1>18. v1.mood = v.mood /\ v2.mood = v.mood /\ v3.mood = v.mood
  BY <1>3, <1>7, <1>12 DEF Only, Layout
<1>19. v1.due = v.due BY <1>3 DEF Only
<1>20. raise \/ ends \/ over =>
         /\ w.painted = {} /\ w.invalid = TRUE
         /\ w.due = (v.due \/ Animated(v))
  BY <1>6, <1>11, <1>15, <1>18, <1>19 DEF Animated
<1>21. ~(raise \/ ends \/ over) => w = v1
  BY <1>6, <1>11, <1>15
<1>22. IF ends THEN w.clock = None /\ w.face = None
       ELSE w.clock = v.clock /\ w.face = v.face
  BY <1>3, <1>7, <1>11, <1>16 DEF Only, Layout
<1>23. "darkened" \in v.known => "darkened" \in w.known
  <2>1. "darkened" \in v.known => "darkened" \in v1.known BY <1>3
  <2>2. "darkened" \in v1.known => "darkened" \in v2.known
    BY <1>6 DEF Wiped
  <2>3. "darkened" \in v2.known => "darkened" \in v3.known
    BY <1>11 DEF Wiped
  <2>4. "darkened" \in v3.known => "darkened" \in w.known
    BY <1>15 DEF Wiped
  <2> QED BY <2>1, <2>2, <2>3, <2>4
<1>24. "dismissed" \notin w.known =>
         IF raise THEN w.peek = FALSE /\ w.small = FALSE
         ELSE /\ "dismissed" \notin v.known /\ ~direct
              /\ w.peek = v.peek /\ w.small = v.small
  <2>1. w.peek = v2.peek /\ w.small = v2.small BY <1>12, <1>16 DEF Only
  <2>2. v1.peek = v.peek /\ v1.small = v.small BY <1>3 DEF Only
  <2>3. "dismissed" \notin w.known => "dismissed" \notin v2.known
    BY <1>11, <1>15 DEF Wiped
  <2> QED BY <1>3, <1>6, <2>1, <2>2, <2>3
<1>25. ~(raise \/ ends \/ over) =>
         /\ Only(v, w, {"known"}) /\ (~direct => w = v)
         /\ direct => "dismissed" \in w.known
  BY <1>3, <1>21
<1> QED BY <1>17, <1>20, <1>22, <1>23, <1>24, <1>25
       DEF Settling, w, v3, v2, v1

\* What an event may do to the view before the data step settles it: it leaves
\* it to a page that is laid out anew, or to the one that is there.
LaidOut(v, m) ==
  /\ v.painted = {} /\ v.invalid = TRUE /\ "dismissed" \notin v.known
  /\ v.peek = (m # "normal") /\ v.small = (m # "normal")
  /\ loaded' # "none" /\ v.mood # None => v.due
LeftThere(p, u, v, o, m, ov) ==
  /\ o = open /\ m = mode /\ ov = overlay /\ (p = "asked" => inPrompt)
  /\ u = "auto" => update = "auto"
  /\ v.painted = view.painted /\ v.invalid = view.invalid
  /\ v.peek = view.peek /\ v.small = view.small
  /\ view.known \subseteq v.known
  /\ \/ "switched" \in v.known
     \/ /\ buddyMode' => buddyMode
        /\ buddyMode => buddyMode' \/ loaded = "none"
        /\ loaded' # "none" /\ v.mood # None =>
             loaded' = loaded /\ v.mood = view.mood /\ v.due = view.due
FaceThere(p, v, o, m, ov, transfer) ==
  previous.kind \in {"clock", "face"} =>
    /\ o = {} /\ m = "normal"
    /\ \/ p = "asked" \/ transfer
       \/ /\ ov = overlay /\ Only(view, v, {"known"})
          /\ view.known \subseteq v.known
          /\ "unseen" \in v.known => "unseen" \in view.known
          /\ \/ "switched" \in v.known
             \/ buddyMode' = buddyMode /\ loaded' = loaded
Event(p, u, v, o, m, ov, transfer, rested) ==
  /\ v \in Views /\ o \subseteq Screens!Panels /\ m \in {"normal", "pet", "info"}
  /\ loaded' \in {"none", "gif", "text"} /\ buddyMode' \in BOOLEAN
  /\ rested \in {"lit", "napping", "off"}
  /\ p = "asked" => rested # "napping"
  /\ u = "auto" => "receive" \notin o
  /\ transfer => loaded' = "none"
  /\ loaded' = "none" => v.mood = None /\ ~v.due
  /\ loaded' # "none" /\ v.mood # None => loaded # "none"
  /\ Only(view, v, Layout \cup {"mood"})
  /\ "darkened" \in view.known => "darkened" \in v.known
  /\ FaceThere(p, v, o, m, ov, transfer)
  /\ (m = "normal" /\ LaidOut(v, m)) \/ LeftThere(p, u, v, o, m, ov)

LEMMA SettleKeeps ==
  ASSUME ScreensAssumption, IInv, step = "data",
         NEW p, NEW u, NEW v, NEW o, NEW m, NEW ov \in BOOLEAN,
         NEW expired \in BOOLEAN, NEW transfer \in BOOLEAN, NEW rested,
         Event(p, u, v, o, m, ov, transfer, rested),
         Screens!Settle(p, u, v, o, m, ov, expired, transfer, rested)
  PROVE  IInv' /\ Screens!NoLeftovers'
<1> DEFINE asks == p = "asked"
           direct == u = "pending"
           o1 == IF direct THEN {} ELSE o
           m1 == IF direct THEN "normal" ELSE m
           closes == direct /\ (o # {} \/ m # "normal")
           u1 == Screens!NextUpdate(u, asks, transfer)
           ov1 == u1 = "auto" /\ ~asks
           raise == ~ov1 /\ u1 = "manual" /\ "receive" \notin o1
           o2 == IF ov1 THEN o1 \ {"receive"}
                 ELSE IF raise THEN {"receive"} ELSE o1
           m2 == IF raise THEN "normal" ELSE m1
           ends == ov /\ ~ov1
           going == u1 \in {"auto", "manual"}
           over == "receive" \in o2 /\ ~going /\ expired
           w == view'
<1>1. /\ prompt' = p /\ inPrompt' = asks /\ update' = u1 /\ xfer' = transfer
      /\ overlay' = ov1 /\ mode' = m2
      /\ open' = IF over THEN o2 \ {"receive"} ELSE o2
      /\ view' = Over(Ending(Raising(Dismissing(v, closes), raise), ends), over)
      /\ rest' = IF going THEN "lit" ELSE rested
      /\ step' = "keys" /\ fresh' = "none"
      /\ UNCHANGED <<previousPrompt, spentA, previous>>
  BY DEF Screens!Settle, Over, Ending, Raising, Dismissing
<1>2. /\ direct \in BOOLEAN /\ closes \in BOOLEAN /\ raise \in BOOLEAN
      /\ ends \in BOOLEAN /\ over \in BOOLEAN /\ ov1 \in BOOLEAN
      /\ asks \in BOOLEAN
  OBVIOUS
<1>3. /\ u1 = IF direct /\ ~asks /\ ~transfer THEN "auto" ELSE u
      /\ u1 = "auto" /\ asks => u = "auto"
  BY DEF Screens!NextUpdate
<1> HIDE DEF u1
<1>4. v \in Views BY DEF Event
<1>5. Settling(v, w, closes, raise, ends, over)
  <2> HIDE DEF closes, raise, ends, over
  <2>1. w = Over(Ending(Raising(Dismissing(v, closes), raise), ends), over)
    BY <1>1
  <2> HIDE DEF w
  <2>2. /\ closes \in BOOLEAN /\ raise \in BOOLEAN /\ ends \in BOOLEAN
        /\ over \in BOOLEAN
    BY <1>2
  <2>3. Settling(v, Over(Ending(Raising(Dismissing(v, closes), raise), ends),
                         over), closes, raise, ends, over)
    BY <1>4, <2>2, SettlingView, Zenon
  <2> QED BY <2>1, <2>3, Zenon
<1>6. /\ TypeOK /\ Surfaces /\ Asked /\ Faced /\ Passing /\ view \in Views
      /\ Hanging(view) /\ FaceShown(view, previous)
      /\ PromptShown(view, previous)
      /\ PageShown(view, previous, previousPrompt)
  BY DEF IInv, Shown
<1> HIDE DEF w
<1>7. w \in Views /\ w.mood = v.mood BY <1>5 DEF Settling, Only, Layout
<1>8. (view \in Views)' BY <1>7 DEF w, Views, Caches, Marks
<1>9. TypeOK'
  <2>1. o2 \subseteq Screens!Panels BY PanelNames DEF Event
  <2>2. (open \subseteq Screens!Panels)' BY <1>1, <2>1 DEF Screens!Panels
  <2>3. m2 \in {"normal", "pet", "info"} BY DEF Event
  <2>4. rest' \in {"lit", "napping", "off"} BY <1>1 DEF Event
  <2>5. previousPrompt' \in BOOLEAN BY <1>1, <1>6 DEF TypeOK
  <2> HIDE DEF asks, ov1, m2
  <2> QED BY <1>1, <1>2, <1>8, <2>2, <2>3, <2>4, <2>5 DEF TypeOK, Event
<1>10. Surfaces' BY <1>1, <1>6 DEF Surfaces
<1>11. Asked'
  <2>1. inPrompt' = (prompt' = "asked") BY <1>1
  <2>2. inPrompt' => ~overlay' /\ rest' # "napping" BY <1>1 DEF Event
  <2>3. update' = "auto" => "receive" \notin open'
    BY <1>1, <1>3 DEF Event
  <2>4. update' = "auto" => overlay' \/ inPrompt' BY <1>1
  <2>5. xfer' => loaded' = "none" BY <1>1 DEF Event
  <2> QED BY <2>1, <2>2, <2>3, <2>4, <2>5 DEF Asked
<1>12. Faced'
  <2> SUFFICES ASSUME previous.kind \in {"clock", "face"}
               PROVE  /\ mode' = "normal"
                      /\ \/ open' = {}
                         \/ open' = {"receive"} /\ update' = "manual"
    BY <1>1 DEF Faced
  <2>1. o = {} /\ m = "normal" BY DEF Event, FaceThere
  <2> QED BY <1>1, <2>1
<1>13. Passing' BY <1>1 DEF Passing
<1>14. Screens!NoLeftovers' BY <1>1 DEF Screens!NoLeftovers
<1>15. Hanging(view)'
  BY <1>5, <1>7 DEF Hanging, Event, Settling, Animated, Only, w
<1>16. PromptShown(view, previous)'
  <2>1. w.lcd = view.lcd /\ w.approval = view.approval
    BY <1>5 DEF Settling, Only, Layout, Event
  <2>2. "darkened" \in view.known => "darkened" \in w.known
    BY <1>5 DEF Settling, Event
  <2> QED BY <1>1, <1>6, <2>1, <2>2 DEF PromptShown, Sideways, w
<1>17. ~closes => o1 = o /\ m1 = m OBVIOUS
<1>18. ASSUME previous.kind \in {"clock", "face"}
       PROVE  /\ FaceKept(view, previous, view.clock) =>
                   FaceKept(view, previous, view.clock)'
              /\ FaceKept(view, previous, view.face) =>
                   FaceKept(view, previous, view.face)'
  <2>1. CASE ends BY <1>5, <2>1 DEF FaceKept, Settling, w
  <2>2. CASE ~ends
    <3>1. /\ w.clock = view.clock /\ w.face = view.face /\ w.lcd = view.lcd
      BY <1>5, <2>2 DEF Settling, Only, Layout, Event
    <3>2. o = {} /\ m = "normal" BY <1>18 DEF Event, FaceThere
    <3>3. ~over /\ ~closes BY <3>2
    <3>4. ASSUME Bare'
          PROVE  /\ Bare /\ (overlay => overlay')
                 /\ Only(view, w, {"known"}) /\ view.known \subseteq w.known
                 /\ "unseen" \in w.known => "unseen" \in view.known
                 /\ \/ "switched" \in w.known
                    \/ buddyMode' = buddyMode /\ loaded' = loaded
      <4>1. ~raise BY <1>1, <3>2, <3>4 DEF Bare
      <4>2. w = v BY <1>5, <2>2, <3>3, <4>1 DEF Settling
      <4>3. p # "asked" /\ ~transfer BY <1>1, <3>4 DEF Bare
      <4>4. /\ ov = overlay /\ Only(view, v, {"known"})
            /\ view.known \subseteq v.known
            /\ "unseen" \in v.known => "unseen" \in view.known
            /\ \/ "switched" \in v.known
               \/ buddyMode' = buddyMode /\ loaded' = loaded
        BY <1>18, <4>3 DEF Event, FaceThere
      <4>5. Bare BY <1>6, <1>18 DEF Faced
      <4> QED BY <1>1, <2>2, <4>2, <4>4, <4>5
    <3>5. Bare' => Screens!Overlay \subseteq Screens!Overlay'
      BY <3>4 DEF Screens!Overlay
    <3>6. Bare' => \A f : Screens!Overlays(f) \subseteq Screens!Overlays(f)'
      BY <3>4 DEF Screens!Overlays
    <3>7. Bare' => w.painted = view.painted /\ w.peek = view.peek
                     /\ w.mood = view.mood
      BY <3>4 DEF Only
    <3>8. UNCHANGED previous BY <1>1
    <3> HIDE DEF ends, over, raise, closes, ov1
    <3>9. ASSUME NEW c, FaceKept(view, previous, c), c # None
          PROVE  IF Sideways(previous)
                 THEN /\ <<"face", c.facing>> \in w.lcd
                      /\ Bare' /\ "unseen" \notin w.known =>
                           w.lcd \subseteq {<<"face", c.facing>>}
                                             \cup Screens!Overlays(c.facing)'
                 ELSE Bare' /\ w.known \cap {"unseen", "switched"} = {} =>
                   /\ "face" \in w.painted
                   /\ w.painted \subseteq {"face"} \cup Screens!Overlay'
                   /\ ~buddyMode' =>
                        w.peek /\ (loaded' # "none" => w.mood = c.mood)
      <4>1. CASE Sideways(previous)
        <5>1. <<"face", c.facing>> \in w.lcd BY <3>1, <3>9, <4>1 DEF FaceKept
        <5>2. ASSUME Bare', "unseen" \notin w.known
              PROVE  w.lcd \subseteq {<<"face", c.facing>>}
                                       \cup Screens!Overlays(c.facing)'
          <6>1. "unseen" \notin view.known BY <3>4, <5>2
          <6>2. w.lcd \subseteq {<<"face", c.facing>>} \cup Screens!Overlays(c.facing)
            BY <3>1, <3>4, <3>9, <4>1, <5>2, <6>1 DEF FaceKept
          <6> QED BY <3>6, <5>2, <6>2
        <5> QED BY <4>1, <5>1, <5>2
      <4>2. CASE ~Sideways(previous)
        <5> SUFFICES ASSUME Bare', w.known \cap {"unseen", "switched"} = {}
                     PROVE  /\ "face" \in w.painted
                            /\ w.painted \subseteq {"face"} \cup Screens!Overlay'
                            /\ ~buddyMode' =>
                                 /\ w.peek
                                 /\ loaded' # "none" => w.mood = c.mood
          BY <4>2
        <5>1. view.known \cap {"unseen", "switched"} = {} BY <3>4
        <5>2. /\ "face" \in view.painted
              /\ view.painted \subseteq {"face"} \cup Screens!Overlay
              /\ ~buddyMode =>
                   view.peek /\ (loaded # "none" => view.mood = c.mood)
          BY <3>4, <3>9, <4>2, <5>1 DEF FaceKept
        <5> QED BY <3>4, <3>5, <3>7, <5>2
      <4> QED BY <4>1, <4>2
    <3>10. ASSUME FaceKept(view, previous, view.clock)
           PROVE  FaceKept(view, previous, view.clock)'
      BY <3>1, <3>8, <3>9, <3>10 DEF FaceKept, Sideways, w
    <3>11. ASSUME FaceKept(view, previous, view.face)
           PROVE  FaceKept(view, previous, view.face)'
      BY <3>1, <3>8, <3>9, <3>11 DEF FaceKept, Sideways, w
    <3> QED BY <3>10, <3>11
  <2> QED BY <2>1, <2>2
<1>19. FaceShown(view, previous)' BY <1>1, <1>6, <1>18 DEF FaceShown
<1>20. PageShown(view, previous, previousPrompt)'
  <2> SUFFICES ASSUME previous.kind \in {"none", "prompt"}, ~Sideways(previous),
                      "dismissed" \notin w.known
               PROVE  PageShown(view, previous, previousPrompt)'
    BY <1>1 DEF PageShown, PageOk, Sideways, w
  <2>1. /\ PageOk(view, More(previousPrompt))
        /\ "dismissed" \notin view.known /\ mode = "normal" /\ open = {}
             /\ inPrompt => view.painted \subseteq {"approval"}
    BY <1>6 DEF PageShown
  <2>2. ~raise => ~closes /\ "dismissed" \notin v.known /\ w.peek = v.peek
                    /\ w.small = v.small
    BY <1>5 DEF Settling
  <2>3. "dismissed" \notin v.known =>
          v.peek = (m # "normal") /\ v.small = (m # "normal")
    BY <2>1 DEF Event, LaidOut, LeftThere, PageOk
  <2>4. w.peek = (mode' # "normal") /\ w.small = (mode' # "normal")
    <3>1. CASE raise
      <4>1. mode' = "normal" BY <1>1, <3>1
      <4>2. w.peek = FALSE /\ w.small = FALSE BY <1>5, <3>1 DEF Settling
      <4> QED BY <4>1, <4>2
    <3>2. CASE ~raise
      <4>1. mode' = m BY <1>1, <1>17, <2>2, <3>2
      <4> QED BY <2>2, <2>3, <3>2, <4>1
    <3> QED BY <3>1, <3>2
  <2>5. CASE raise \/ ends \/ over
    <3>1. w.painted = {} /\ w.invalid = TRUE /\ w.due = (v.due \/ Animated(v))
      BY <1>5, <2>5 DEF Settling
    <3>2. Animated(view)' => w.due
      BY <1>7, <3>1 DEF Animated, Event, w
    <3> QED BY <1>7, <2>4, <3>1, <3>2, ClearedPage DEF w
  <2>6. CASE ~(raise \/ ends \/ over)
    <3>1. w = v /\ ~closes BY <1>5, <2>2, <2>6 DEF Settling
    <3>2. CASE LaidOut(v, m)
      <4>1. Animated(view)' => w.due
        BY <3>1, <3>2 DEF Animated, LaidOut, w
      <4>2. w.painted = {} /\ w.invalid = TRUE BY <3>1, <3>2 DEF LaidOut
      <4> QED BY <1>7, <2>4, <4>1, <4>2, ClearedPage DEF w
    <3>3. CASE LeftThere(p, u, v, o, m, ov)
      <4>1. open' = open
        <5>1. o1 = open BY <1>17, <3>1, <3>3 DEF LeftThere
        <5>2. ov1 => "receive" \notin o1
          BY <1>3, <3>1 DEF Event
        <5> HIDE DEF o1, ov1
        <5> QED BY <1>1, <2>6, <5>1, <5>2
      <4>2. mode' = mode BY <1>1, <1>17, <2>6, <3>1, <3>3 DEF LeftThere
      <4>3. overlay => overlay' BY <1>1, <2>6, <3>3 DEF LeftThere
      <4>4. inPrompt' => inPrompt BY <1>1, <3>3 DEF LeftThere
      <4>5. More(previousPrompt) \subseteq More(previousPrompt)'
        <5>1. Screens!Top' = Screens!Top BY <4>1 DEF Screens!Top
        <5>2. Screens!Overlay \subseteq Screens!Overlay'
          BY <4>3 DEF Screens!Overlay
        <5> QED BY <1>1, <4>2, <5>1, <5>2 DEF More
      <4>6. /\ w.painted = view.painted /\ w.invalid = view.invalid
            /\ w.peek = view.peek /\ w.small = view.small
            /\ view.known \subseteq w.known
        BY <3>1, <3>3 DEF LeftThere
      <4>7. ASSUME "switched" \notin w.known, PetOk(view)
            PROVE  PetOk(view)'
        <5>1. /\ buddyMode' => buddyMode
              /\ buddyMode => buddyMode' \/ loaded = "none"
              /\ loaded' # "none" /\ w.mood # None =>
                   /\ loaded' = loaded /\ w.mood = view.mood
                   /\ w.due = view.due
          BY <3>1, <3>3, <4>7 DEF LeftThere
        <5>2. buddyMode' => /\ ~w.invalid \/ inPrompt' =>
                                 w.painted \cap Bodies \subseteq
                                   {Screens!Pet("ascii", w.small)}
                            /\ ~w.invalid => Screens!Pet("ascii", w.small) \in w.painted
          BY <4>4, <4>6, <4>7, <5>1 DEF PetOk
        <5>3. ~buddyMode' /\ loaded' # "none" /\ w.mood # None =>
                /\ w.painted \cap Bodies \subseteq {Screens!Pet(loaded', w.peek)}
                /\ ~w.due => Screens!Pet(loaded', w.peek) \in w.painted
          BY <4>6, <4>7, <5>1 DEF PetOk
        <5>4. /\ (Screens!Pet("ascii", view.small))' = Screens!Pet("ascii", w.small)
              /\ (Screens!Pet(loaded, view.peek))' = Screens!Pet(loaded', w.peek)
          BY DEF w, Screens!Pet
        <5>5. w = view' BY DEF w
        <5> QED BY <5>2, <5>3, <5>4, <5>5 DEF PetOk
      <4>8. PageOk(view, More(previousPrompt))'
        <5>1. "switched" \notin w.known => PetOk(view)'
          BY <2>1, <4>6, <4>7 DEF PageOk
        <5>2. w.painted \subseteq OfScale(mode' # "normal")
                                    \cup More(previousPrompt)'
          BY <2>1, <4>2, <4>5, <4>6 DEF PageOk
        <5>3. (OfScale(mode # "normal"))' = OfScale(mode' # "normal")
          BY DEF OfScale
        <5> QED BY <2>4, <5>1, <5>2, <5>3 DEF PageOk, w
      <4> QED BY <2>1, <4>1, <4>2, <4>4, <4>6, <4>8
              DEF PageShown, w
    <3> QED BY <3>2, <3>3 DEF Event
  <2> QED BY <2>5, <2>6
<1>21. Shown(view, previous, previousPrompt)'
  BY <1>8, <1>15, <1>16, <1>19, <1>20 DEF Shown
<1> QED BY <1>9, <1>10, <1>11, <1>12, <1>13, <1>14, <1>21 DEF IInv

\* An event that leaves the view and what is open as they are.
LEMMA SameEvent ==
  ASSUME IInv, step = "data", Screens!SameCharacter, NEW p, NEW u,
         p = "asked" => inPrompt, u = "auto" => update = "auto"
  PROVE  Event(p, u, view, open, mode, overlay, xfer, rest)
<1>1. TypeOK /\ Asked /\ Faced /\ Hanging(view) /\ view \in Views
  BY DEF IInv, Shown
<1>2. Only(view, view, {}) BY <1>1, ViewParts
<1>3. Only(view, view, Layout \cup {"mood"}) /\ Only(view, view, {"known"})
  BY <1>2 DEF Only
<1>4. FaceThere(p, view, open, mode, overlay, xfer)
  BY <1>1, <1>3 DEF FaceThere, Faced, Bare, Screens!SameCharacter
<1>5. LeftThere(p, u, view, open, mode, overlay)
  BY DEF LeftThere, Screens!SameCharacter
<1>6. loaded' \in {"none", "gif", "text"} /\ buddyMode' \in BOOLEAN
  BY <1>1 DEF TypeOK, Screens!SameCharacter
<1>7. loaded' = loaded BY DEF Screens!SameCharacter
<1> QED BY <1>1, <1>3, <1>4, <1>5, <1>6, <1>7
        DEF Event, TypeOK, Asked, Hanging

LEMMA HeartbeatKeeps ==
  ASSUME ScreensAssumption, IInv, Screens!Heartbeat
  PROVE  IInv' /\ Screens!NoLeftovers'
<1>1. step = "data" /\ Screens!SameCharacter BY DEF Screens!Heartbeat
<1>2. PICK p \in {prompt, "none"}, u \in {update, "none"}, expired \in BOOLEAN :
        Screens!Settle(p, u, view, open, mode, overlay, expired, xfer, rest)
  BY DEF Screens!Heartbeat
<1>3. TypeOK /\ Asked BY DEF IInv
<1>4. (p = "asked" => inPrompt) /\ (u = "auto" => update = "auto")
  BY <1>3 DEF Asked
<1>5. Event(p, u, view, open, mode, overlay, xfer, rest)
  BY <1>1, <1>4, SameEvent
<1>6. overlay \in BOOLEAN /\ xfer \in BOOLEAN BY <1>3 DEF TypeOK
<1> QED BY <1>1, <1>2, <1>5, <1>6, SettleKeeps, Zenon

LEMMA OfferKeeps ==
  ASSUME ScreensAssumption, IInv, NEW kind \in {"pending", "manual"},
         Screens!OfferArrives(kind)
  PROVE  IInv' /\ Screens!NoLeftovers'
<1>1. /\ step = "data" /\ Screens!SameCharacter
      /\ Screens!Settle(prompt, kind, view, open, mode, overlay, FALSE, xfer, rest)
  BY Zenon DEF Screens!OfferArrives
<1>2. TypeOK /\ Asked BY DEF IInv
<1>3. (prompt = "asked" => inPrompt) /\ (kind = "auto" => update = "auto")
  BY <1>2 DEF Asked
<1>4. Event(prompt, kind, view, open, mode, overlay, xfer, rest)
  BY <1>1, <1>3, SameEvent
<1>5. overlay \in BOOLEAN /\ xfer \in BOOLEAN /\ FALSE \in BOOLEAN
  BY <1>2 DEF TypeOK
<1> QED BY <1>1, <1>4, <1>5, SettleKeeps, Zenon

LEMMA PromptKeeps ==
  ASSUME ScreensAssumption, IInv, Screens!PromptArrives
  PROVE  IInv' /\ Screens!NoLeftovers'
<1> DEFINE l == Screens!ApplyDisplayMode(view, "normal")
           c == Screens!CharacterInvalidate(l)
           v == Screens!PetInvalidate(c)
           o == open \ {"menu", "settings", "reset", "receive"}
<1>1. step = "data" /\ Screens!SameCharacter BY DEF Screens!PromptArrives
<1>2. PICK u \in {update, "none"} \ {"pending"} :
        Screens!Settle("asked", u, v, o, "normal", FALSE, FALSE, xfer, "lit")
  BY DEF Screens!PromptArrives
<1>3. TypeOK /\ Asked /\ Faced /\ Hanging(view) /\ view \in Views
  BY DEF IInv, Shown
<1>4. /\ Only(view, l, {"painted", "known", "due", "invalid", "peek", "small"})
      /\ l.painted = {} /\ l.known = Wiped(view) \ {"dismissed"}
      /\ l.invalid = TRUE /\ l.due = (view.due \/ Animated(view))
      /\ l.peek = FALSE /\ l.small = FALSE
  <2>1. /\ Only(view, l, {"painted", "known", "due", "invalid", "peek", "small"})
        /\ l.painted = {} /\ l.known = Wiped(view) \ {"dismissed"}
        /\ l.invalid = TRUE /\ l.due = (view.due \/ Animated(view))
        /\ l.peek = ("normal" # "normal") /\ l.small = ("normal" # "normal")
    BY <1>3, ApplyDisplayModeView
  <2> HIDE DEF l
  <2> QED BY <2>1
<1>5. l \in Views BY <1>4 DEF Only
<1> HIDE DEF l
<1>6. Only(l, c, {"painted", "known", "due"}) /\ Reopened(l, c)
  BY <1>5, CharacterInvalidateView
<1>7. c \in Views BY <1>6 DEF Only
<1> HIDE DEF c
<1>8. /\ Only(c, v, {"painted", "known", "due", "invalid"})
      /\ Reopened(c, v) /\ v.invalid = (c.invalid \/ buddyMode = TRUE)
  BY <1>7, PetInvalidateView
<1> HIDE DEF v
<1>9. Only(view, v, Layout) BY <1>4, <1>6, <1>8 DEF Only, Layout
<1>10. v.mood = view.mood /\ l.mood = view.mood /\ c.mood = view.mood
  BY <1>4, <1>6, <1>8 DEF Only
<1>11. /\ v.painted = {} /\ v.invalid = TRUE
       /\ v.peek = FALSE /\ v.small = FALSE
  BY <1>4, <1>6, <1>8 DEF Reopened, Only
<1>12. v.due = (view.due \/ Animated(view))
  BY <1>4, <1>6, <1>8, <1>10 DEF Reopened, Animated
<1>13. /\ "dismissed" \notin v.known
       /\ "darkened" \in view.known => "darkened" \in v.known
  BY <1>4, <1>6, <1>8 DEF Reopened, Wiped
<1>14. loaded' = loaded /\ buddyMode' = buddyMode
  BY <1>1 DEF Screens!SameCharacter
<1>15. LaidOut(v, "normal")
  <2>1. loaded' # "none" /\ v.mood # None => v.due
    BY <1>10, <1>12, <1>14 DEF Animated
  <2> QED BY <1>11, <1>13, <2>1 DEF LaidOut
<1>16. FaceThere("asked", v, o, "normal", FALSE, xfer)
  BY <1>1, <1>3 DEF FaceThere, Faced, Bare
<1>17. Event("asked", u, v, o, "normal", FALSE, xfer, "lit")
  <2>1. v \in Views /\ Only(view, v, Layout \cup {"mood"})
    BY <1>9 DEF Only
  <2>2. loaded' = "none" => v.mood = None /\ ~v.due
    BY <1>3, <1>10, <1>12, <1>14 DEF Hanging, Animated
  <2>3. o \subseteq Screens!Panels /\ "receive" \notin o BY <1>3 DEF TypeOK
  <2>4. xfer => loaded' = "none" BY <1>3, <1>14 DEF Asked
  <2> HIDE DEF o
  <2> QED BY <1>3, <1>13, <1>14, <1>15, <1>16, <2>1, <2>2, <2>3, <2>4
          DEF Event, TypeOK
<1>18. xfer \in BOOLEAN /\ FALSE \in BOOLEAN BY <1>3 DEF TypeOK
<1> HIDE DEF o
<1> QED BY <1>1, <1>2, <1>17, <1>18, SettleKeeps, Zenon

LEMMA SpeciesKeeps ==
  ASSUME ScreensAssumption, IInv, NEW ascii \in BOOLEAN, Screens!Species(ascii)
  PROVE  IInv' /\ Screens!NoLeftovers'
<1> DEFINE k == view.known \cup {"switched"}
           other == buddyMode' # buddyMode
           v == IF other THEN [view EXCEPT !.known = k] ELSE view
<1>1. /\ step = "data" /\ UNCHANGED <<gifAvailable, loaded>>
      /\ buddyMode' = ~(gifAvailable /\ ~ascii)
      /\ Screens!Settle(prompt, update, v, open, mode, overlay, FALSE, xfer, rest)
  BY DEF Screens!Species
<1>2. TypeOK /\ Asked /\ Faced /\ Hanging(view) /\ view \in Views
  BY DEF IInv, Shown
<1>3. /\ Only(view, v, {"known"}) /\ view.known \subseteq v.known
      /\ v.known \subseteq view.known \cup {"switched"}
      /\ "switched" \in v.known \/ buddyMode' = buddyMode
  <2>1. k \in SUBSET {"dismissed", "switched", "darkened", "unseen"}
    BY <1>2, ViewParts
  <2>2. Only(view, view, {}) BY <1>2, ViewParts
  <2>3. CASE other
    <3>1. v = [view EXCEPT !.known = k] BY <2>3
    <3> HIDE DEF k, v
    <3>2. /\ Only(view, [view EXCEPT !.known = k], {"known"})
          /\ [view EXCEPT !.known = k].known = k
      BY <1>2, <2>1, SetField
    <3>3. Only(view, v, {"known"}) /\ v.known = k BY <3>1, <3>2
    <3> QED BY <3>3 DEF k
  <2>4. CASE ~other
    <3>1. v = view BY <2>4
    <3> HIDE DEF v
    <3> QED BY <2>2, <2>4, <3>1 DEF Only
  <2> QED BY <2>3, <2>4
<1> HIDE DEF v
<1>4. /\ v \in Views /\ Only(view, v, Layout \cup {"mood"})
      /\ v.mood = view.mood /\ v.due = view.due /\ v.painted = view.painted
      /\ v.invalid = view.invalid /\ v.peek = view.peek /\ v.small = view.small
  BY <1>3 DEF Only, Layout
<1>5. FaceThere(prompt, v, open, mode, overlay, xfer)
  BY <1>1, <1>2, <1>3 DEF FaceThere, Faced, Bare
<1>6. LeftThere(prompt, update, v, open, mode, overlay)
  BY <1>1, <1>2, <1>3, <1>4 DEF LeftThere, Asked
<1>7. buddyMode' \in BOOLEAN BY <1>1
<1>8. "darkened" \in view.known => "darkened" \in v.known BY <1>3
<1>9. Event(prompt, update, v, open, mode, overlay, xfer, rest)
  BY <1>1, <1>2, <1>4, <1>5, <1>6, <1>7, <1>8 DEF Event, TypeOK, Asked, Hanging
<1>10. overlay \in BOOLEAN /\ xfer \in BOOLEAN /\ FALSE \in BOOLEAN
  BY <1>2 DEF TypeOK
<1> QED BY <1>1, <1>9, <1>10, SettleKeeps, Zenon

LEMMA CharBeginKeeps ==
  ASSUME ScreensAssumption, IInv, Screens!CharBegin
  PROVE  IInv' /\ Screens!NoLeftovers'
<1> DEFINE v == [view EXCEPT !.mood = None, !.due = FALSE]
<1>1. /\ step = "data" /\ loaded' = "none" /\ buddyMode' = buddyMode
      /\ Screens!Settle(prompt, update, v, open, mode, overlay, FALSE, TRUE, rest)
  <2>1. /\ step = "data" /\ loaded' = "none"
        /\ Screens!Settle(prompt, update, v, open, mode, overlay, FALSE, TRUE, rest)
    BY Zenon DEF Screens!CharBegin
  <2>2. UNCHANGED <<buddyMode, gifAvailable>>
    BY Zenon DEF Screens!CharBegin
  <2>3. buddyMode' = buddyMode BY <2>2
  <2> QED BY <2>1, <2>3, Zenon
<1>2. TypeOK /\ Asked /\ Faced /\ view \in Views BY DEF IInv, Shown
<1>3. /\ Only(view, v, {"mood", "due"}) /\ v.mood = None /\ v.due = FALSE
  BY <1>2 DEF Only, Views
<1> HIDE DEF v
<1>4. /\ v \in Views /\ Only(view, v, Layout \cup {"mood"})
      /\ v.known = view.known /\ v.painted = view.painted
      /\ v.invalid = view.invalid /\ v.peek = view.peek /\ v.small = view.small
  BY <1>3 DEF Only, Layout
<1>5. FaceThere(prompt, v, open, mode, overlay, TRUE)
  BY <1>1, <1>2 DEF FaceThere, Faced, Bare
<1>6. LeftThere(prompt, update, v, open, mode, overlay)
  BY <1>1, <1>2, <1>3, <1>4 DEF LeftThere, Asked
<1>7. Event(prompt, update, v, open, mode, overlay, TRUE, rest)
  BY <1>1, <1>2, <1>3, <1>4, <1>5, <1>6 DEF Event, TypeOK, Asked
<1>8. overlay \in BOOLEAN /\ TRUE \in BOOLEAN /\ FALSE \in BOOLEAN
  BY <1>2 DEF TypeOK
<1> QED BY <1>1, <1>7, <1>8, SettleKeeps, Zenon

LEMMA CharEndKeeps ==
  ASSUME ScreensAssumption, IInv, NEW kind \in {"none"} \cup Kinds,
         Screens!CharEnd(kind)
  PROVE  IInv' /\ Screens!NoLeftovers'
<1>1. /\ step = "data" /\ xfer /\ loaded' = kind
      /\ buddyMode' = (buddyMode /\ kind = "none")
      /\ Screens!Settle(prompt, update, view, open, mode, overlay, FALSE, FALSE, rest)
  BY DEF Screens!CharEnd
<1>2. TypeOK /\ Asked /\ Faced /\ Hanging(view) /\ view \in Views
  BY DEF IInv, Shown
<1>3. loaded = "none" /\ view.mood = None /\ ~view.due
  BY <1>1, <1>2 DEF Asked, Hanging
<1>4. Only(view, view, {}) BY <1>2, ViewParts
<1>5. Only(view, view, Layout \cup {"mood"}) BY <1>4 DEF Only
<1>6. previous.kind \notin {"clock", "face"} BY <1>1, <1>2 DEF Faced, Bare
<1>7. FaceThere(prompt, view, open, mode, overlay, FALSE)
  BY <1>6 DEF FaceThere
<1>8. LeftThere(prompt, update, view, open, mode, overlay)
  <2>1. /\ buddyMode' => buddyMode
        /\ buddyMode => buddyMode' \/ loaded = "none"
    BY <1>1, <1>3
  <2> QED BY <1>2, <1>3, <2>1 DEF LeftThere, Asked
<1>9. kind \in {"none", "gif", "text"} BY DEF ScreensAssumption
<1>10. buddyMode' \in BOOLEAN BY <1>1
<1>11. Event(prompt, update, view, open, mode, overlay, FALSE, rest)
  BY <1>1, <1>2, <1>3, <1>5, <1>7, <1>8, <1>9, <1>10 DEF Event, TypeOK, Asked
<1>12. overlay \in BOOLEAN /\ FALSE \in BOOLEAN BY <1>2 DEF TypeOK
<1> QED BY <1>1, <1>11, <1>12, SettleKeeps, Zenon

LEMMA DataKeeps ==
  ASSUME ScreensAssumption, IInv, Screens!DataStep
  PROVE  IInv' /\ Screens!NoLeftovers'
BY HeartbeatKeeps, PromptKeeps, OfferKeeps, SpeciesKeeps, CharBeginKeeps,
   CharEndKeeps DEF Screens!DataStep

LEMMA InitShown ==
  ASSUME ScreensAssumption, Screens!Init
  PROVE  IInv /\ Screens!NoLeftovers
<1>1. view \in Views
  <2>1. {"splash"} \in SUBSET Layers /\ {Screens!OnSprite} \in SUBSET Marks
    BY DEF Layers, Marks
  <2> QED BY <2>1 DEF Screens!Init, Views
<1>2. /\ view.mood = None /\ view.due = FALSE /\ view.approval = None
      /\ view.painted = {"splash"} /\ view.invalid = TRUE
      /\ view.peek = FALSE /\ view.small = FALSE
  BY DEF Screens!Init
<1>3. previous.kind = "none" /\ previous.facing = None BY DEF Screens!Init
<1>4. TypeOK BY <1>1 DEF Screens!Init, TypeOK, ScreensAssumption
<1>5. Surfaces BY DEF Screens!Init, Surfaces
<1>6. Asked BY DEF Screens!Init, Asked
<1>7. Faced /\ Passing BY <1>3 DEF Screens!Init, Faced, Passing
<1>8. PageOk(view, More(previousPrompt))
  <2>1. PetOk(view) BY <1>2 DEF PetOk, Screens!Init
  <2>2. "splash" \in OfScale(FALSE) BY DEF OfScale, Bodies, Large, Little
  <2>3. mode = "normal" BY DEF Screens!Init
  <2> QED BY <1>2, <2>1, <2>2, <2>3 DEF PageOk
<1>9. Shown(view, previous, previousPrompt)
  BY <1>1, <1>2, <1>3, <1>8
     DEF Screens!Init, Shown, Hanging, FaceShown, PromptShown, PageShown
<1>10. Screens!NoLeftovers BY DEF Screens!Init, Screens!NoLeftovers
<1> QED BY <1>4, <1>5, <1>6, <1>7, <1>9, <1>10 DEF IInv

LEMMA NextKeeps ==
  ASSUME ScreensAssumption, IInv, Screens!Next
  PROVE  IInv' /\ Screens!NoLeftovers'
BY DataKeeps, KeysKeep, DrawKeeps DEF Screens!Next

\* A pass in which nothing changes.
LEMMA StandStill ==
  ASSUME IInv, Screens!NoLeftovers, UNCHANGED Screens!vars
  PROVE  IInv' /\ Screens!NoLeftovers'
<1>1. /\ step' = step /\ prompt' = prompt /\ inPrompt' = inPrompt
      /\ previousPrompt' = previousPrompt /\ update' = update /\ xfer' = xfer
      /\ buddyMode' = buddyMode /\ loaded' = loaded /\ open' = open
      /\ mode' = mode /\ overlay' = overlay /\ rest' = rest
      /\ previous' = previous /\ view' = view /\ fresh' = fresh
  BY DEF Screens!vars, Screens!asked, Screens!opened
<1>2. Screens!Top' = Screens!Top
  <2> DEFINE there == {i \in DOMAIN Screens!Order : Screens!Order[i] \in open}
  <2>1. there' = there BY <1>1
  <2>2. Screens!Top = IF there = {} THEN None
              ELSE Screens!Order[CHOOSE i \in there : \A j \in there : i <= j]
    BY DEF Screens!Top
  <2>3. Screens!Top' = IF there' = {} THEN None
               ELSE Screens!Order[CHOOSE i \in there' : \A j \in there' : i <= j]
    BY DEF Screens!Top
  <2> HIDE DEF there
  <2> QED BY <2>1, <2>2, <2>3
<1>3. Screens!Overlay' = Screens!Overlay /\ Bare' = Bare
  BY <1>1, Zenon DEF Screens!Overlay, Bare
<1>4. TypeOK' BY <1>1 DEF IInv, TypeOK
<1>5. Surfaces' BY <1>1 DEF IInv, Surfaces
<1>6. Asked' /\ Passing' BY <1>1 DEF IInv, Asked, Passing
<1>7. Faced' BY <1>1, <1>3 DEF IInv, Faced
<1>8. Shown(view, previous, previousPrompt) BY DEF IInv
<1>9. (view \in Views)' BY <1>4 DEF TypeOK
<1>10. Hanging(view)' BY <1>1, <1>8 DEF Shown, Hanging
<1>11. FaceShown(view, previous)'
  <2>1. FaceKept(view, previous, view.clock)'
          = FaceKept(view, previous, view.clock)
    BY <1>1, <1>3, Zenon DEF FaceKept, Screens!Overlays, Sideways
  <2>2. FaceKept(view, previous, view.face)'
          = FaceKept(view, previous, view.face)
    BY <1>1, <1>3, Zenon DEF FaceKept, Screens!Overlays, Sideways
  <2> QED BY <1>1, <1>8, <2>1, <2>2 DEF Shown, FaceShown
<1>12. PromptShown(view, previous)'
  BY <1>1, <1>8, Zenon DEF Shown, PromptShown, Sideways
<1>13. PageShown(view, previous, previousPrompt)'
  <2>1. More(previousPrompt)' = More(previousPrompt)
    BY <1>1, <1>2, <1>3, Zenon DEF More
  <2>2. PetOk(view)' = PetOk(view) BY <1>1, Zenon DEF PetOk
  <2>3. PageOk(view, More(previousPrompt))'
          = PageOk(view, More(previousPrompt))
    BY <1>1, <2>1, <2>2, Zenon DEF PageOk
  <2> QED BY <1>1, <1>8, <2>3, Zenon DEF Shown, PageShown, Sideways
<1>14. Screens!NoLeftovers'
  <2>1. Screens!PetThere' = Screens!PetThere BY <1>1 DEF Screens!PetThere
  <2>2. Screens!Expected' = Screens!Expected
    BY <1>1, <1>2, <1>3, <2>1, Zenon DEF Screens!Expected
  <2>3. Screens!Painted' = Screens!Painted
    BY <1>1, <2>1, Zenon DEF Screens!Painted
  <2>4. Screens!Overlays(previous.facing)' = Screens!Overlays(previous.facing)
    BY <1>1, Zenon DEF Screens!Overlays
  <2>6. Screens!DisplayMeant' = Screens!DisplayMeant
    BY <1>1, <2>4, Zenon DEF Screens!DisplayMeant
  <2>7. Screens!FaceMeant' = Screens!FaceMeant
    BY <1>3, <2>3, Zenon DEF Screens!FaceMeant
  <2>8. \A apart : Screens!PageMeant(apart)' = Screens!PageMeant(apart)
    BY <1>1, <2>2, <2>3, Zenon DEF Screens!PageMeant
  <2>9. Screens!OnFace' = Screens!OnFace BY <1>1, Zenon DEF Screens!OnFace
  <2>10. view' = view /\ fresh' = fresh /\ previous' = previous BY <1>1
  <2>5. Screens!NoLeftovers' = Screens!NoLeftovers
    BY <2>6, <2>7, <2>8, <2>9, <2>10, Zenon
       DEF Screens!NoLeftovers, Screens!PetLayers
  <2> QED BY <2>5
<1>15. Shown(view, previous, previousPrompt)'
  BY <1>9, <1>10, <1>11, <1>12, <1>13, Zenon DEF Shown
<1> QED BY <1>4, <1>5, <1>6, <1>7, <1>14, <1>15, Zenon DEF IInv

------------------------------------------------------------------------------
\* The screens among the parts of the device.

ScreensInv == part = "screens" => IInv /\ Screens!NoLeftovers

LEMMA ScreensAssumed == ScreensAssumption
BY PartsAssumption DEF ScreensAssumption

LEMMA ScreensStart ==
  ASSUME Init
  PROVE  ScreensInv
<1> SUFFICES ASSUME part = "screens"
             PROVE  IInv /\ Screens!NoLeftovers
  BY DEF ScreensInv
<1>1. Screens!Init BY DEF Init
<1> QED BY <1>1, ScreensAssumed, InitShown

LEMMA ScreensStay ==
  ASSUME ScreensInv, [Next]_vars
  PROVE  ScreensInv'
<1> SUFFICES ASSUME part' = "screens"
             PROVE  IInv' /\ Screens!NoLeftovers'
  BY DEF ScreensInv
<1>1. part = "screens" BY DEF Next, vars
<1>2. IInv /\ Screens!NoLeftovers BY <1>1 DEF ScreensInv
<1>3. CASE Next
  <2>1. Screens!Next BY <1>1, <1>3 DEF Next
  <2> QED BY <1>2, <2>1, ScreensAssumed, NextKeeps
<1>4. CASE UNCHANGED vars
  <2>1. UNCHANGED screenVars BY <1>4 DEF vars
  <2>2. UNCHANGED Screens!vars
    BY <2>1 DEF screenVars, Screens!vars, Screens!asked, Screens!opened
  <2> QED BY <1>2, <2>2, StandStill
<1> QED BY <1>3, <1>4

\* What a pass of loop (main.cpp) has pushed or drawn is the surface that is
\* meant and nothing of an earlier one, whatever was open, asked, transferred
\* or pressed before, but for the lapses that are followed until they are
\* wiped: for any landscapes, characters and states of the pet.
THEOREM NothingIsLeftOver == Spec => []NoLeftovers
<1>1. Init => ScreensInv BY ScreensStart
<1>2. ScreensInv /\ [Next]_vars => ScreensInv' BY ScreensStay
<1>3. ScreensInv => NoLeftovers BY DEF ScreensInv, NoLeftovers
<1> QED BY <1>1, <1>2, <1>3, PTL DEF Spec

------------------------------------------------------------------------------
\* ---- The pet

\* A character that is printed above row 82, and a drawing of which that is true
\* of every character, whose body is lowered by no more than a line and a half,
\* and for which no table was read past its end.
Cells == {c \in Int \X Int \X (1..3) : c[2] <= 74}
Lifts == {d \in Int : d <= 12}
Pictures ==
  [pose : Nat, dx : Int, dy : Lifts, inTables : {TRUE}, ink : SUBSET Cells]

\* A sequence of the first n poses, and a table of moves that is as long.
Table(seq, n) == seq \in Seq(0..n - 1) /\ seq # <<>>
Moves(xs, seq) ==
  xs = Stage!Still \/ (xs \in Seq(-12..12) /\ Len(xs) >= Len(seq))

LEMMA Beat ==
  ASSUME NEW n \in Nat \ {0}, NEW div \in Nat \ {0}, NEW t \in Nat
  PROVE  ((t \div div) % n) + 1 \in 1..n
<1>1. t \div div \in Nat BY SMT
<1> DEFINE k == t \div div
<1> HIDE DEF k
<1>2. k \in Nat BY <1>1 DEF k
<1>3. k % n \in 0..n - 1 BY <1>2
<1> QED BY <1>3 DEF k

LEMMA FrameFine ==
  ASSUME NEW n \in Nat, NEW div \in Nat \ {0}, NEW t \in Nat,
         NEW seq, Table(seq, n), NEW xs, Moves(xs, seq), NEW ys, Moves(ys, seq)
  PROVE  Stage!Frame(n, div, t, seq, xs, ys) \in Pictures
<1> DEFINE beat == ((t \div div) % Len(seq)) + 1
           f == Stage!Frame(n, div, t, seq, xs, ys)
           ok == seq[beat] < n /\ Stage!Fits(xs, beat) /\ Stage!Fits(ys, beat)
<1>1. seq \in Seq(0..n - 1) /\ Len(seq) \in Nat \ {0} BY DEF Table
<1>2. beat \in 1..Len(seq) BY <1>1, Beat
<1>3. f = [pose |-> seq[beat], dx |-> Stage!Entry(xs, beat),
           dy |-> Stage!Entry(ys, beat), inTables |-> ok, ink |-> {}]
  BY DEF Stage!Frame
<1> HIDE DEF beat
<1>4. seq[beat] \in 0..n - 1 BY <1>1, <1>2
<1>5. ASSUME NEW s, Moves(s, seq)
      PROVE  Stage!Fits(s, beat) /\ Stage!Entry(s, beat) \in -12..12
  <2>1. CASE s = Stage!Still BY <2>1 DEF Stage!Fits, Stage!Entry
  <2>2. CASE s \in Seq(-12..12) /\ Len(s) >= Len(seq)
    <3>1. beat \in DOMAIN s /\ s[beat] \in -12..12
      BY <1>1, <1>2, <2>2
    <3> QED BY <3>1 DEF Stage!Fits, Stage!Entry
  <2> QED BY <1>5, <2>1, <2>2 DEF Moves
<1>6. Stage!Entry(xs, beat) \in -12..12 /\ Stage!Entry(ys, beat) \in -12..12
  BY <1>5
<1>7. ok = TRUE
  <2>1. seq[beat] < n BY <1>4
  <2>2. Stage!Fits(xs, beat) /\ Stage!Fits(ys, beat) BY <1>5
  <2> QED BY <2>1, <2>2
<1> HIDE DEF ok
<1>8. f = [pose |-> seq[beat], dx |-> Stage!Entry(xs, beat),
           dy |-> Stage!Entry(ys, beat), inTables |-> TRUE, ink |-> {}]
  BY <1>3, <1>7, Zenon
<1> HIDE DEF f
<1>9. Stage!Entry(ys, beat) \in Lifts BY <1>6 DEF Lifts
<1>10. seq[beat] \in Nat /\ Stage!Entry(xs, beat) \in Int BY <1>4, <1>6
<1>11. f \in Pictures BY <1>8, <1>9, <1>10 DEF Pictures
<1> QED BY <1>11 DEF f

LEMMA StillFine ==
  ASSUME NEW n \in Nat, NEW div \in Nat \ {0}, NEW t \in Nat,
         NEW seq, Table(seq, n)
  PROVE  Stage!Frame(n, div, t, seq, Stage!Still, Stage!Still) \in Pictures
BY FrameFine, Zenon DEF Moves

LEMMA DrawFine ==
  ASSUME NEW f \in Pictures, NEW cells \in SUBSET Cells
  PROVE  Stage!Draw(f, cells) \in Pictures
BY DEF Pictures, Stage!Draw

LEMMA ShakenFine ==
  ASSUME NEW f \in Pictures, NEW t, NEW pose, NEW amount \in Int
  PROVE  Stage!Shaken(f, t, pose, amount) \in Pictures
<1> DEFINE d == IF Stage!Odd(t) THEN amount ELSE -amount
<1>1. d \in Int OBVIOUS
<1>2. Stage!Shaken(f, t, pose, amount)
        = IF f.pose # pose THEN f ELSE [f EXCEPT !.dx = d]
  BY DEF Stage!Shaken
<1> HIDE DEF d
<1>3. [f EXCEPT !.dx = d] \in Pictures BY <1>1 DEF Pictures
<1> QED BY <1>2, <1>3

LEMMA NoddingFine ==
  ASSUME NEW f \in Pictures, NEW t, NEW pose
  PROVE  Stage!Nodding(f, t, pose) \in Pictures
<1>1. 1 \in Lifts BY DEF Lifts
<1> QED BY <1>1 DEF Pictures, Stage!Nodding

LEMMA OverFine ==
  ASSUME NEW x \in Int, NEW y \in Int
  PROVE  /\ y <= 68 => Stage!Over(x, y) \in Cells
         /\ y <= 68 => Stage!Wide(Stage!Over(x, y)) \in Cells
         /\ y <= 44 => Stage!Low(x, y) \in Cells
BY DEF Cells, Stage!Over, Stage!Low, Stage!Wide, Stage!XCenter,
       Stage!YOverlay, Stage!YBase

LEMMA WhenFine ==
  ASSUME NEW condition, NEW cells \in SUBSET Cells
  PROVE  Stage!When(condition, cells) \in SUBSET Cells
BY DEF Stage!When

LEMMA EntryIn ==
  ASSUME NEW S, NEW s \in Seq(S), NEW k \in 1..Len(s)
  PROVE  s[k] \in S
OBVIOUS

LEMMA AroundFine ==
  ASSUME NEW xs, xs \in Seq(-12..12), Len(xs) = 8,
         NEW ys, ys \in Seq(-12..12), Len(ys) = 8,
         NEW t \in Nat, NEW offsets \in SUBSET Nat, NEW y \in 0..50
  PROVE  Stage!Around(xs, ys, t, offsets, y) \in SUBSET Cells
<1>1. ASSUME NEW o \in offsets
      PROVE  Stage!Over(xs[((t + o) % 8) + 1] - 2, y + ys[((t + o) % 8) + 1])
               \in Cells
  <2> DEFINE k == ((t + o) % 8) + 1
  <2>1. k \in 1..8 OBVIOUS
  <2> HIDE DEF k
  <2>2. ASSUME NEW s, s \in Seq(-12..12), Len(s) = 8
        PROVE  s[k] \in -12..12
    <3>1. k \in 1..Len(s) BY <2>1, <2>2
    <3> QED BY <2>2, <3>1, EntryIn
  <2>3. xs[k] \in -12..12 BY <2>2
  <2>4. ys[k] \in -12..12 BY <2>2
  <2> DEFINE a == xs[k]
             b == ys[k]
  <2> HIDE DEF a, b
  <2>5. a \in -12..12 /\ b \in -12..12 BY <2>3, <2>4 DEF a, b
  <2>6. a - 2 \in Int /\ y + b \in Int /\ y + b <= 68 BY <2>5
  <2>7. Stage!Over(a - 2, y + b) \in Cells BY <2>6, OverFine
  <2> QED BY <2>7 DEF k, a, b
<1> QED BY <1>1 DEF Stage!Around

LEMMA StarsFine ==
  ASSUME NEW t \in Nat, NEW offsets \in SUBSET Nat, NEW y \in 0..50
  PROVE  /\ Stage!Stars(t, offsets, y) \in SUBSET Cells
         /\ Stage!WideStars(t, offsets, y) \in SUBSET Cells
<1>1. ASSUME NEW xs, xs \in Seq(-12..12), Len(xs) = 8,
             NEW ys, ys \in Seq(-12..12), Len(ys) = 8
      PROVE  Stage!Around(xs, ys, t, offsets, y) \in SUBSET Cells
  BY <1>1, AroundFine
<1>2. /\ <<0, 5, 7, 5, 0, -5, -7, -5>> \in Seq(-12..12)
      /\ Len(<<0, 5, 7, 5, 0, -5, -7, -5>>) = 8
  OBVIOUS
<1>3. /\ <<-5, -3, 0, 3, 5, 3, 0, -3>> \in Seq(-12..12)
      /\ Len(<<-5, -3, 0, 3, 5, 3, 0, -3>>) = 8
  OBVIOUS
<1>4. /\ <<0, 6, 9, 6, 0, -6, -9, -6>> \in Seq(-12..12)
      /\ Len(<<0, 6, 9, 6, 0, -6, -9, -6>>) = 8
  OBVIOUS
<1>5. /\ <<-6, -4, 0, 4, 6, 4, 0, -4>> \in Seq(-12..12)
      /\ Len(<<-6, -4, 0, 4, 6, 4, 0, -4>>) = 8
  OBVIOUS
<1> QED BY <1>1, <1>2, <1>3, <1>4, <1>5, Zenon DEF Stage!Stars, Stage!WideStars

LEMMA HeartsFine ==
  ASSUME NEW t \in Nat, NEW n \in Nat, NEW step0 \in Nat,
         NEW cycle \in Nat \ {0}, NEW x0 \in Nat
  PROVE  Stage!Hearts(t, n, step0, cycle, x0) \in SUBSET Cells
<1> DEFINE Phase(i) == (t + i * step0) % cycle
           X(i) == 67 - x0 + i * 8 + ((Phase(i) \div 3) % 2) * 2 - 1
           Y(i) == 6 + 16 - Phase(i)
           Heart(i) == <<X(i), Y(i), 1>>
           dropped == {j \in 0..n - 1 : Heart(j)[2] \in -2..30}
<1>1. Stage!Hearts(t, n, step0, cycle, x0) = {Heart(i) : i \in dropped}
  BY DEF Stage!Hearts, Stage!XCenter, Stage!YOverlay, Stage!YBase
<1>2. ASSUME NEW i \in dropped
      PROVE  Heart(i) \in Cells
  <2>1. i \in Int /\ Y(i) \in -2..30 OBVIOUS
  <2>2. X(i) \in Int
    <3>1. t + i * step0 \in Int BY <2>1
    <3>2. Phase(i) \in Int BY <3>1
    <3> HIDE DEF Phase
    <3>3. (Phase(i) \div 3) % 2 \in Int BY <3>2
    <3> QED BY <2>1, <3>3
  <2> HIDE DEF X, Y
  <2> QED BY <2>1, <2>2 DEF Cells
<1> HIDE DEF Heart, dropped
<1> QED BY <1>1, <1>2

LEMMA ConfettiFine ==
  ASSUME NEW t \in Nat, NEW n \in Nat, NEW step0 \in Nat,
         NEW cycle \in Nat \ {0}, NEW x0 \in Nat, NEW dx \in Nat,
         NEW y0 \in Nat, NEW low \in 0..44
  PROVE  Stage!Confetti(t, n, step0, cycle, x0, dx, y0, low) \in SUBSET Cells
<1> DEFINE X(i) == 67 - x0 + i * dx
           Y(i) == 6 - y0 + ((t * 2 + i * step0) % cycle)
           falling == {j \in 0..n - 1 : Y(j) \in 0..30 + low}
<1>1. Stage!Confetti(t, n, step0, cycle, x0, dx, y0, low)
        = {<<X(i), Y(i), 1>> : i \in falling}
  BY DEF Stage!Confetti, Stage!XCenter, Stage!YOverlay, Stage!YBase
<1>2. ASSUME NEW i \in falling
      PROVE  <<X(i), Y(i), 1>> \in Cells
  <2>1. i \in Int /\ Y(i) \in Int /\ Y(i) <= 74 OBVIOUS
  <2>2. X(i) \in Int BY <2>1
  <2> HIDE DEF X, Y
  <2> QED BY <2>1, <2>2 DEF Cells
<1> HIDE DEF X, Y, falling
<1> QED BY <1>1, <1>2

------------------------------------------------------------------------------
\* What several pets do alike.
LEMMA IdlePose ==
  ASSUME NEW t \in Nat, NEW seq, Table(seq, 10)
  PROVE  Stage!Frame(10, 5, t, seq, Stage!Still, Stage!Still) \in Pictures
BY StillFine

LEMMA RestPose ==
  ASSUME NEW t \in Nat, NEW seq, Table(seq, 10), NEW cells \in SUBSET Cells
  PROVE  Stage!Draw(Stage!Frame(10, 5, t, seq, Stage!Still, Stage!Still),
                    cells) \in Pictures
BY IdlePose, DrawFine

LEMMA LoosePose ==
  ASSUME NEW t \in Nat, NEW seq, Table(seq, 6), NEW cells \in SUBSET Cells
  PROVE  Stage!Draw(Stage!Frame(6, 5, t, seq, Stage!Still, Stage!Still),
                    cells) \in Pictures
BY StillFine, DrawFine

LEMMA SleepPose ==
  ASSUME NEW t \in Nat, NEW seq, Table(seq, 6),
         NEW a \in Cells, NEW b \in Cells, NEW c \in Cells
  PROVE  Stage!Draw(Stage!Frame(6, 5, t, seq, Stage!Still, Stage!Still),
                    {a, b, c}) \in Pictures
BY StillFine, DrawFine

LEMMA BusyPose ==
  ASSUME NEW t \in Nat, NEW seq, Table(seq, 6)
  PROVE  Stage!Draw(Stage!Frame(6, 5, t, seq, Stage!Still, Stage!Still),
                    {Stage!Wide(Stage!Over(22, 14))}) \in Pictures
<1>1. {Stage!Wide(Stage!Over(22, 14))} \in SUBSET Cells BY OverFine
<1> QED BY <1>1, StillFine, DrawFine

LEMMA Flashes ==
  ASSUME NEW c1, NEW c2, NEW x1 \in Int, NEW x2 \in Int
  PROVE  Stage!When(c1, {Stage!Over(x1, 0)})
           \cup Stage!When(c2, {Stage!Over(x2, 4)}) \in SUBSET Cells
<1>1. Stage!Over(x1, 0) \in Cells /\ Stage!Over(x2, 4) \in Cells BY OverFine
<1> QED BY <1>1 DEF Stage!When

LEMMA ShakenStill ==
  ASSUME NEW t \in Nat, NEW n \in Nat, NEW seq, Table(seq, n),
         NEW amount \in Int
  PROVE  Stage!Shaken(Stage!Frame(n, 5, t, seq, Stage!Still, Stage!Still), t,
                      4, amount) \in Pictures
BY StillFine, ShakenFine

LEMMA AlertTable ==
  Table(<<0, 4, 0, 1, 0, 2, 0, 3, 4, 4, 0, 1, 2, 0, 5, 0>>, 6)
BY DEF Table

LEMMA AttentionPose ==
  ASSUME NEW t \in Nat, NEW amount \in Int, NEW x1 \in Int, NEW x2 \in Int
  PROVE  Stage!Draw(
           Stage!Shaken(
             Stage!Frame(6, 5, t, <<0, 4, 0, 1, 0, 2, 0, 3, 4, 4, 0, 1, 2, 0,
               5, 0>>, Stage!Still, Stage!Still), t, 4, amount),
           Stage!When(Stage!Odd(t \div 2), {Stage!Over(x1, 0)})
             \cup Stage!When(Stage!Odd(t \div 3), {Stage!Over(x2, 4)}))
           \in Pictures
<1> DEFINE cells ==
             Stage!When(Stage!Odd(t \div 2), {Stage!Over(x1, 0)})
               \cup Stage!When(Stage!Odd(t \div 3), {Stage!Over(x2, 4)})
<1>1. cells \in SUBSET Cells BY Flashes, Zenon
<1> HIDE DEF cells
<1>2. Stage!Draw(
        Stage!Shaken(
          Stage!Frame(6, 5, t, <<0, 4, 0, 1, 0, 2, 0, 3, 4, 4, 0, 1, 2, 0,
            5, 0>>, Stage!Still, Stage!Still), t, 4, amount), cells)
        \in Pictures
  BY <1>1, AlertTable, ShakenStill, DrawFine
<1> QED BY <1>2 DEF cells

LEMMA JumpPose ==
  ASSUME NEW t \in Nat, NEW ys \in Seq(-12..12), Len(ys) = 16,
         NEW cells \in SUBSET Cells
  PROVE  Stage!Draw(Stage!Frame(6, 3, t, Stage!JumpSeq, Stage!Still, ys),
                    cells) \in Pictures
<1>1. Table(Stage!JumpSeq, 6) /\ Len(Stage!JumpSeq) = 16
  BY DEF Table, Stage!JumpSeq
<1>2. Moves(Stage!Still, Stage!JumpSeq) /\ Moves(ys, Stage!JumpSeq)
  BY <1>1 DEF Moves
<1>3. Stage!Frame(6, 3, t, Stage!JumpSeq, Stage!Still, ys) \in Pictures
  BY <1>1, <1>2, FrameFine
<1> QED BY <1>3, DrawFine

LEMMA HopTable == Stage!Hop \in Seq(-12..12) /\ Len(Stage!Hop) = 16
BY DEF Stage!Hop

LEMMA CelebratePose ==
  ASSUME NEW t \in Nat
  PROVE  Stage!Draw(
           Stage!Frame(6, 3, t, Stage!JumpSeq, Stage!Still, Stage!Hop),
           Stage!Confetti(t, 6, 11, 22, 36, 14, 6, 20)) \in Pictures
<1>1. /\ 6 \in Nat /\ 11 \in Nat /\ 22 \in Nat \ {0} /\ 36 \in Nat
      /\ 14 \in Nat /\ 6 \in Nat /\ 20 \in 0..44
  OBVIOUS
<1>2. Stage!Confetti(t, 6, 11, 22, 36, 14, 6, 20) \in SUBSET Cells
  BY <1>1, ConfettiFine, Zenon
<1> QED BY <1>2, JumpPose, HopTable

LEMMA SwayTable ==
  /\ Table(Stage!SwaySeq, 5)
  /\ Moves(Stage!Sway, Stage!SwaySeq) /\ Moves(Stage!Still, Stage!SwaySeq)
<1>1. Stage!Sway \in Seq(-12..12) /\ Len(Stage!Sway) = 14 BY DEF Stage!Sway
<1>2. Len(Stage!SwaySeq) = 14 BY DEF Stage!SwaySeq
<1>3. Table(Stage!SwaySeq, 5) BY DEF Table, Stage!SwaySeq
<1> QED BY <1>1, <1>2, <1>3 DEF Moves

LEMMA DizzyPose ==
  ASSUME NEW t \in Nat, NEW cells \in SUBSET Cells
  PROVE  Stage!Draw(
           Stage!Frame(5, 4, t, Stage!SwaySeq, Stage!Sway, Stage!Still),
           cells) \in Pictures
BY SwayTable, FrameFine, DrawFine

LEMMA BobTable == Stage!Bob \in Seq(-12..12) /\ Len(Stage!Bob) = 20
BY DEF Stage!Bob

LEMMA BeatingPose ==
  ASSUME NEW t \in Nat, NEW ys \in Seq(-12..12), Len(ys) = 20,
         NEW cells \in SUBSET Cells
  PROVE  Stage!Draw(
           Stage!Frame(5, 5, t, <<0, 0, 1, 0, 2, 2, 0, 1, 0, 4, 0, 0, 3, 3, 0,
             1, 0, 2, 1, 0>>, Stage!Still, ys), cells) \in Pictures
<1> DEFINE seq == <<0, 0, 1, 0, 2, 2, 0, 1, 0, 4, 0, 0, 3, 3, 0, 1, 0, 2, 1,
                    0>>
<1>1. Table(seq, 5) /\ Len(seq) = 20 BY DEF Table
<1> HIDE DEF seq
<1>2. Moves(Stage!Still, seq) /\ Moves(ys, seq) BY <1>1 DEF Moves
<1>3. Stage!Frame(5, 5, t, seq, Stage!Still, ys) \in Pictures
  BY <1>1, <1>2, FrameFine
<1>4. Stage!Draw(Stage!Frame(5, 5, t, seq, Stage!Still, ys), cells)
        \in Pictures
  BY <1>3, DrawFine
<1> QED BY <1>4 DEF seq

LEMMA HeartPose ==
  ASSUME NEW t \in Nat
  PROVE  Stage!Draw(
           Stage!Frame(5, 5, t, <<0, 0, 1, 0, 2, 2, 0, 1, 0, 4, 0, 0, 3, 3, 0,
             1, 0, 2, 1, 0>>, Stage!Still, Stage!Bob),
           Stage!Hearts(t, 5, 4, 16, 20)) \in Pictures
<1>1. Stage!Hearts(t, 5, 4, 16, 20) \in SUBSET Cells BY HeartsFine
<1> QED BY <1>1, BeatingPose, BobTable

------------------------------------------------------------------------------
\* Each species, in each of its states.

LEMMA CapybaraFine ==
  ASSUME NEW t \in Nat, NEW persona \in Stage!Personas
  PROVE  Stage!CapybaraStates(persona, t) \in Pictures
<1>1. Stage!CapybaraSleep(t) \in Pictures
  <2> DEFINE p1 == t % 10
             p2 == (t + 4) % 10
             p3 == (t + 7) % 10
  <2>1. Table(<<0, 1, 0, 1, 0, 1, 2, 1, 0, 1, 0, 1, 3, 4, 3, 4, 3, 4, 3, 3, 1,
              5, 1, 1>>, 6) BY DEF Table
  <2>2. p1 \in 0..9 /\ p2 \in 0..9 /\ p3 \in 0..9 OBVIOUS
  <2> HIDE DEF p1, p2, p3
  <2>3. /\ Stage!Over(20 + p1, 18 - p1 * 2) \in Cells
        /\ Stage!Over(26 + p2, 14 - p2) \in Cells
        /\ Stage!Over(16 + p3 \div 2, 10 - p3 \div 2) \in Cells
    BY <2>2, OverFine
  <2> QED BY <2>1, <2>3, SleepPose DEF Stage!CapybaraSleep, p1, p2, p3
<1>2. Stage!CapybaraIdle(t) \in Pictures
  <2>1. Table(<<0, 0, 0, 1, 0, 2, 0, 4, 0, 5, 0, 0, 6, 7, 6, 7, 0, 0, 3, 3, 0,
              4, 8, 8, 0, 0, 9, 9, 0, 0>>, 10) BY DEF Table
  <2> QED BY <2>1, IdlePose DEF Stage!CapybaraIdle
<1>3. Stage!CapybaraBusy(t) \in Pictures
  <2>1. Table(<<0, 1, 0, 1, 0, 1, 2, 2, 0, 1, 0, 1, 3, 3, 2, 4, 0, 1, 0, 1,
              5>>, 6) BY DEF Table
  <2> QED BY <2>1, BusyPose DEF Stage!CapybaraBusy
<1>4. Stage!CapybaraAttention(t) \in Pictures
  <2>1. 1 \in Int /\ -4 \in Int /\ 4 \in Int OBVIOUS
  <2> QED BY <2>1, AttentionPose, Zenon DEF Stage!CapybaraAttention
<1>5. Stage!CapybaraCelebrate(t) \in Pictures
  BY CelebratePose DEF Stage!CapybaraCelebrate
<1>6. Stage!CapybaraDizzy(t) \in Pictures
  BY DizzyPose, StarsFine DEF Stage!CapybaraDizzy
<1>7. Stage!CapybaraHeart(t) \in Pictures
  BY HeartPose DEF Stage!CapybaraHeart
<1> QED BY <1>1, <1>2, <1>3, <1>4, <1>5, <1>6, <1>7
           DEF Stage!CapybaraStates, Stage!Personas

LEMMA DuckFine ==
  ASSUME NEW t \in Nat, NEW persona \in Stage!Personas
  PROVE  Stage!DuckStates(persona, t) \in Pictures
<1>1. Stage!DuckSleep(t) \in Pictures
  <2> DEFINE p1 == t % 10
             p2 == (t + 4) % 10
             p3 == (t + 7) % 10
  <2>1. Table(<<0, 0, 1, 0, 1, 2, 1, 0, 1, 0, 1, 3, 3, 4, 4, 3, 4, 0, 0, 1, 5,
              1, 1>>, 6) BY DEF Table
  <2>2. p1 \in 0..9 /\ p2 \in 0..9 /\ p3 \in 0..9 OBVIOUS
  <2> HIDE DEF p1, p2, p3
  <2>3. /\ Stage!Over(18 + p1, 18 - p1 * 2) \in Cells
        /\ Stage!Over(24 + p2, 14 - p2) \in Cells
        /\ Stage!Over(14 + p3 \div 2, 10 - p3 \div 2) \in Cells
    BY <2>2, OverFine
  <2> QED BY <2>1, <2>3, SleepPose DEF Stage!DuckSleep, p1, p2, p3
<1>2. Stage!DuckIdle(t) \in Pictures
  <2>1. Table(<<0, 0, 0, 1, 0, 2, 0, 4, 0, 5, 0, 0, 6, 7, 6, 7, 0, 0, 3, 3, 0,
              4, 8, 0, 8, 0, 9, 9, 0, 0>>, 10) BY DEF Table
  <2> QED BY <2>1, IdlePose DEF Stage!DuckIdle
<1>3. Stage!DuckBusy(t) \in Pictures
  <2>1. Table(<<0, 1, 0, 1, 0, 1, 5, 5, 0, 1, 0, 1, 2, 3, 3, 2, 4, 4, 0, 1, 0,
              1, 5>>, 6) BY DEF Table
  <2> QED BY <2>1, BusyPose DEF Stage!DuckBusy
<1>4. Stage!DuckAttention(t) \in Pictures
  <2> DEFINE seq == <<0, 5, 0, 1, 0, 2, 0, 3, 4, 4, 0, 1, 2, 0, 5, 0>>
  <2>1. Table(seq, 6) BY DEF Table
  <2> HIDE DEF seq
  <2> DEFINE f == Stage!Shaken(Stage!Frame(6, 5, t, seq, Stage!Still,
                                       Stage!Still), t, 4, 1)
  <2>2. f \in Pictures BY <2>1, ShakenStill
  <2>4. /\ Stage!Over(-4, 0) \in Cells
        /\ Stage!Over(4, 4) \in Cells
    BY OverFine
  <2> DEFINE c1 == Stage!When(Stage!Odd(t \div 2), {Stage!Over(-4, 0)})
             c2 == Stage!When(Stage!Odd(t \div 3), {Stage!Over(4, 4)})
  <2>5. c1 \cup c2 \in SUBSET Cells BY <2>4 DEF Stage!When
  <2> HIDE DEF f, c1, c2
  <2>6. Stage!Draw(f, c1 \cup c2) \in Pictures BY <2>2, <2>5, DrawFine
  <2> QED BY <2>6 DEF Stage!DuckAttention, seq, f, c1, c2
<1>5. Stage!DuckCelebrate(t) \in Pictures
  BY CelebratePose DEF Stage!DuckCelebrate
<1>6. Stage!DuckDizzy(t) \in Pictures
  BY DizzyPose, StarsFine DEF Stage!DuckDizzy
<1>7. Stage!DuckHeart(t) \in Pictures
  BY HeartPose DEF Stage!DuckHeart
<1> QED BY <1>1, <1>2, <1>3, <1>4, <1>5, <1>6, <1>7
           DEF Stage!DuckStates, Stage!Personas

LEMMA GooseFine ==
  ASSUME NEW t \in Nat, NEW persona \in Stage!Personas
  PROVE  Stage!GooseStates(persona, t) \in Pictures
<1>1. Stage!GooseSleep(t) \in Pictures
  <2> DEFINE p1 == t % 10
             p2 == (t + 4) % 10
             p3 == (t + 7) % 10
  <2>1. Table(<<0, 1, 0, 1, 0, 1, 2, 1, 0, 1, 0, 3, 4, 4, 4, 1, 0, 1, 2, 2, 0,
              1, 5, 1>>, 6) BY DEF Table
  <2>2. p1 \in 0..9 /\ p2 \in 0..9 /\ p3 \in 0..9 OBVIOUS
  <2> HIDE DEF p1, p2, p3
  <2>3. /\ Stage!Over(18 + p1, 18 - p1 * 2) \in Cells
        /\ Stage!Over(24 + p2, 14 - p2) \in Cells
        /\ Stage!Over(14 + p3 \div 2, 10 - p3 \div 2) \in Cells
    BY <2>2, OverFine
  <2> QED BY <2>1, <2>3, SleepPose DEF Stage!GooseSleep, p1, p2, p3
<1>2. Stage!GooseIdle(t) \in Pictures
  <2>1. Table(<<0, 0, 4, 0, 1, 0, 2, 0, 7, 8, 7, 8, 0, 0, 3, 0, 4, 5, 5, 0, 6,
              6, 0, 0, 9, 9, 0, 4, 0>>, 10) BY DEF Table
  <2> QED BY <2>1, IdlePose DEF Stage!GooseIdle
<1>3. Stage!GooseBusy(t) \in Pictures
  <2>1. Table(<<0, 1, 0, 1, 0, 1, 3, 3, 0, 1, 0, 1, 2, 2, 4, 4, 0, 1, 5, 5,
              0>>, 6) BY DEF Table
  <2> QED BY <2>1, BusyPose DEF Stage!GooseBusy
<1>4. Stage!GooseAttention(t) \in Pictures
  <2> DEFINE seq == <<0, 3, 0, 1, 0, 2, 0, 3, 4, 4, 0, 1, 2, 0, 5, 0>>
  <2>1. Table(seq, 6) BY DEF Table
  <2> HIDE DEF seq
  <2> DEFINE f == Stage!Shaken(Stage!Frame(6, 5, t, seq, Stage!Still,
                                       Stage!Still), t, 4, 2)
             g == Stage!Shaken(f, t, 3, 1)
  <2>2. f \in Pictures BY <2>1, ShakenStill
  <2>3. g \in Pictures BY <2>2, ShakenFine
  <2>4. /\ Stage!Over(-6, 0) \in Cells
        /\ Stage!Over(6, 4) \in Cells
        /\ Stage!Over(14, 8) \in Cells
    BY OverFine
  <2> DEFINE c1 == Stage!When(Stage!Odd(t \div 2), {Stage!Over(-6, 0)})
             c2 == Stage!When(Stage!Odd(t \div 3), {Stage!Over(6, 4)})
             c3 == Stage!When(Stage!Odd(t \div 4), {Stage!Over(14, 8)})
  <2>5. c1 \cup c2 \cup c3 \in SUBSET Cells BY <2>4 DEF Stage!When
  <2> HIDE DEF f, g, c1, c2, c3
  <2>6. Stage!Draw(g, c1 \cup c2 \cup c3) \in Pictures BY <2>3, <2>5, DrawFine
  <2> QED BY <2>6 DEF Stage!GooseAttention, seq, f, g, c1, c2, c3
<1>5. Stage!GooseCelebrate(t) \in Pictures
  <2>1. /\ 7 \in Nat /\ 9 \in Nat /\ 22 \in Nat \ {0} /\ 40 \in Nat
        /\ 12 \in Nat /\ 6 \in Nat /\ 20 \in 0..44
    OBVIOUS
  <2>2. Stage!Confetti(t, 7, 9, 22, 40, 12, 6, 20) \in SUBSET Cells
    BY <2>1, ConfettiFine, Zenon
  <2>3. /\ <<0, -3, -7, -3, 0, 0, 0, 0, 0, 0, -3, -7, -3, 0, 0, 0>> \in
              Seq(-12..12)
        /\ Len(<<0, -3, -7, -3, 0, 0, 0, 0, 0, 0, -3, -7, -3, 0, 0, 0>>) = 16
    OBVIOUS
  <2> QED BY <2>2, <2>3, JumpPose DEF Stage!GooseCelebrate
<1>6. Stage!GooseDizzy(t) \in Pictures
  BY DizzyPose, StarsFine DEF Stage!GooseDizzy
<1>7. Stage!GooseHeart(t) \in Pictures
  BY HeartPose DEF Stage!GooseHeart
<1> QED BY <1>1, <1>2, <1>3, <1>4, <1>5, <1>6, <1>7
           DEF Stage!GooseStates, Stage!Personas

LEMMA BlobFine ==
  ASSUME NEW t \in Nat, NEW persona \in Stage!Personas
  PROVE  Stage!BlobStates(persona, t) \in Pictures
<1>1. Stage!BlobSleep(t) \in Pictures
  <2> DEFINE p1 == t % 10
             p2 == (t + 4) % 10
             p3 == (t + 7) % 10
             d == (t \div 2) % 12
  <2>1. Table(<<0, 1, 2, 1, 0, 1, 2, 1, 0, 4, 4, 0, 1, 2, 5, 2, 1, 3, 3, 0, 0,
              1, 2, 1, 0>>, 6) BY DEF Table
  <2>2. p1 \in 0..9 /\ p2 \in 0..9 /\ p3 \in 0..9 /\ d \in 0..11 OBVIOUS
  <2> HIDE DEF p1, p2, p3, d
  <2>3. /\ Stage!Over(20 + p1, 18 - p1 * 2) \in Cells
        /\ Stage!Over(26 + p2, 14 - p2) \in Cells
        /\ Stage!Over(16 + p3 \div 2, 10 - p3 \div 2) \in Cells
        /\ Stage!Low(-6, 26 + d) \in Cells
    BY <2>2, OverFine
  <2>4. {Stage!Over(20 + p1, 18 - p1 * 2), Stage!Over(26 + p2, 14 - p2), Stage!Over(16 + p3 \div 2, 10 - p3 \div 2), Stage!Low(-6, 26 + d)} \in SUBSET Cells BY <2>3
  <2> QED BY <2>1, <2>4, LoosePose DEF Stage!BlobSleep, p1, p2, p3, d
<1>2. Stage!BlobIdle(t) \in Pictures
  <2>1. Table(<<1, 2, 1, 0, 1, 2, 1, 3, 1, 4, 1, 5, 2, 2, 8, 8, 2, 6, 7, 6, 7,
              1, 1, 2, 9, 9, 1, 1, 3, 4, 3, 4, 1, 5, 1, 0, 0, 2, 2>>, 10) BY DEF Table
  <2> QED BY <2>1, IdlePose DEF Stage!BlobIdle
<1>3. Stage!BlobBusy(t) \in Pictures
  <2> DEFINE b == (t \div 2) % 8
  <2>1. Table(<<0, 1, 0, 1, 0, 1, 2, 2, 0, 1, 0, 1, 3, 3, 4, 4, 0, 1, 5, 5,
              2>>, 6) BY DEF Table
  <2>2. b \in 0..7 OBVIOUS
  <2> HIDE DEF b
  <2>3. /\ Stage!Wide(Stage!Over(22, 14)) \in Cells
        /\ Stage!Over(-2, 18 - b) \in Cells
    BY <2>2, OverFine
  <2>4. {Stage!Wide(Stage!Over(22, 14)), Stage!Over(-2, 18 - b)} \in SUBSET Cells BY <2>3
  <2> QED BY <2>1, <2>4, LoosePose DEF Stage!BlobBusy, b
<1>4. Stage!BlobAttention(t) \in Pictures
  <2> DEFINE seq == <<0, 4, 0, 1, 0, 2, 0, 3, 4, 4, 0, 1, 2, 0, 5, 3, 0, 0, 6,
                    0>>
  <2>1. Table(seq, 7) BY DEF Table
  <2> HIDE DEF seq
  <2> DEFINE f == Stage!Shaken(Stage!Frame(7, 5, t, seq, Stage!Still,
                                       Stage!Still), t, 4, 1)
  <2>2. f \in Pictures BY <2>1, ShakenStill
  <2>4. /\ Stage!Over(-8, -4) \in Cells
        /\ Stage!Over(8, 0) \in Cells
        /\ Stage!Over(0, -8) \in Cells
    BY OverFine
  <2> DEFINE c1 == Stage!When(Stage!Odd(t \div 2), {Stage!Over(-8, -4)})
             c2 == Stage!When(Stage!Odd(t \div 3), {Stage!Over(8, 0)})
             c3 == Stage!When(Stage!Odd(t \div 4), {Stage!Over(0, -8)})
  <2>5. c1 \cup c2 \cup c3 \in SUBSET Cells BY <2>4 DEF Stage!When
  <2> HIDE DEF f, c1, c2, c3
  <2>6. Stage!Draw(f, c1 \cup c2 \cup c3) \in Pictures BY <2>2, <2>5, DrawFine
  <2> QED BY <2>6 DEF Stage!BlobAttention, seq, f, c1, c2, c3
<1>5. Stage!BlobCelebrate(t) \in Pictures
  <2>1. /\ 6 \in Nat /\ 11 \in Nat /\ 22 \in Nat \ {0} /\ 36 \in Nat
        /\ 14 \in Nat /\ 6 \in Nat /\ 20 \in 0..44
    OBVIOUS
  <2>2. Stage!Confetti(t, 6, 11, 22, 36, 14, 6, 20) \in SUBSET Cells
    BY <2>1, ConfettiFine, Zenon
  <2>3. /\ <<0, -2, -7, -2, 0, 0, 0, 0, 0, 0, -2, -7, -2, 0, 0, 0>> \in
              Seq(-12..12)
        /\ Len(<<0, -2, -7, -2, 0, 0, 0, 0, 0, 0, -2, -7, -2, 0, 0, 0>>) = 16
    OBVIOUS
  <2> QED BY <2>2, <2>3, JumpPose DEF Stage!BlobCelebrate
<1>6. Stage!BlobDizzy(t) \in Pictures
  BY DizzyPose, StarsFine DEF Stage!BlobDizzy
<1>7. Stage!BlobHeart(t) \in Pictures
  BY HeartPose DEF Stage!BlobHeart
<1> QED BY <1>1, <1>2, <1>3, <1>4, <1>5, <1>6, <1>7
           DEF Stage!BlobStates, Stage!Personas

LEMMA CatFine ==
  ASSUME NEW t \in Nat, NEW persona \in Stage!Personas
  PROVE  Stage!CatStates(persona, t) \in Pictures
<1>1. Stage!CatSleep(t) \in Pictures
  <2> DEFINE p1 == t % 12
             p2 == (t + 5) % 12
             p3 == (t + 9) % 12
  <2>1. Table(<<0, 1, 0, 1, 0, 1, 3, 3, 0, 1, 4, 5, 4, 5, 4, 5, 2, 2, 0, 1, 0,
              1, 5, 5, 4, 4>>, 6) BY DEF Table
  <2>2. p1 \in 0..11 /\ p2 \in 0..11 /\ p3 \in 0..11 OBVIOUS
  <2> HIDE DEF p1, p2, p3
  <2>3. /\ Stage!Over(18 + p1, 18 - p1 * 2) \in Cells
        /\ Stage!Over(24 + p2, 14 - p2) \in Cells
        /\ Stage!Over(14 + p3 \div 2, 8 - p3 \div 2) \in Cells
    BY <2>2, OverFine
  <2> QED BY <2>1, <2>3, SleepPose DEF Stage!CatSleep, p1, p2, p3
<1>2. Stage!CatIdle(t) \in Pictures
  <2>1. Table(<<0, 0, 0, 3, 0, 1, 0, 2, 0, 7, 8, 7, 8, 7, 0, 5, 0, 6, 0, 4, 4,
              0, 9, 9, 9, 0, 0, 3, 0, 8, 7, 8, 7, 0, 0, 4, 0>>, 10) BY DEF Table
  <2> QED BY <2>1, IdlePose DEF Stage!CatIdle
<1>3. Stage!CatBusy(t) \in Pictures
  <2>1. Table(<<2, 2, 2, 0, 1, 0, 1, 3, 4, 3, 4, 5, 5, 2, 2, 0, 1, 0, 1, 5,
              2>>, 6) BY DEF Table
  <2> QED BY <2>1, BusyPose DEF Stage!CatBusy
<1>4. Stage!CatAttention(t) \in Pictures
  <2>1. 1 \in Int /\ -4 \in Int /\ 4 \in Int OBVIOUS
  <2> QED BY <2>1, AttentionPose, Zenon DEF Stage!CatAttention
<1>5. Stage!CatCelebrate(t) \in Pictures
  BY CelebratePose DEF Stage!CatCelebrate
<1>6. Stage!CatDizzy(t) \in Pictures
  BY DizzyPose, StarsFine DEF Stage!CatDizzy
<1>7. Stage!CatHeart(t) \in Pictures
  BY HeartPose DEF Stage!CatHeart
<1> QED BY <1>1, <1>2, <1>3, <1>4, <1>5, <1>6, <1>7
           DEF Stage!CatStates, Stage!Personas

LEMMA DragonFine ==
  ASSUME NEW t \in Nat, NEW persona \in Stage!Personas
  PROVE  Stage!DragonStates(persona, t) \in Pictures
<1>1. Stage!DragonSleep(t) \in Pictures
  <2> DEFINE p1 == t % 10
             p2 == (t + 4) % 10
             p3 == (t + 7) % 12
  <2>1. Table(<<0, 1, 0, 1, 0, 1, 2, 1, 0, 1, 0, 1, 3, 4, 3, 4, 1, 2, 1, 5, 5,
              0, 0, 1, 2, 1, 2>>, 6) BY DEF Table
  <2>2. p1 \in 0..9 /\ p2 \in 0..9 /\ p3 \in 0..11 OBVIOUS
  <2> HIDE DEF p1, p2, p3
  <2>3. /\ Stage!Over(22 + p1, 18 - p1 * 2) \in Cells
        /\ Stage!Over(28 + p2, 12 - p2) \in Cells
        /\ Stage!Over(18, 16 - p3) \in Cells
    BY <2>2, OverFine
  <2> QED BY <2>1, <2>3, SleepPose DEF Stage!DragonSleep, p1, p2, p3
<1>2. Stage!DragonIdle(t) \in Pictures
  <2> DEFINE seq == <<0, 0, 1, 0, 2, 0, 3, 4, 5, 4, 5, 4, 5, 0, 0, 6, 7, 0, 3,
                    0, 8, 8, 0, 1, 2, 0, 9, 9, 0, 0, 7, 0, 8, 0>>
  <2>1. Table(seq, 10) BY DEF Table
  <2> HIDE DEF seq
  <2> DEFINE f == Stage!Frame(10, 5, t, seq, Stage!Still, Stage!Still)
             s == t % 8
             x == IF f.pose = 7 THEN 14 ELSE 0
  <2>2. f \in Pictures BY <2>1, StillFine
  <2>3. s \in 0..7 /\ x \in Int OBVIOUS
  <2> HIDE DEF f, s, x
  <2>4. Stage!Over(x, -4 - s) \in Cells BY <2>3, OverFine
  <2> DEFINE c == Stage!When(f.pose \in {6, 7}, {Stage!Over(x, -4 - s)})
  <2>5. c \in SUBSET Cells BY <2>4 DEF Stage!When
  <2> HIDE DEF c
  <2>6. Stage!Draw(f, c) \in Pictures BY <2>2, <2>5, DrawFine
  <2> QED BY <2>6 DEF Stage!DragonIdle, seq, f, s, x, c
<1>3. Stage!DragonBusy(t) \in Pictures
  <2>1. Table(<<0, 1, 0, 1, 0, 1, 2, 2, 0, 1, 0, 1, 3, 3, 2, 4, 0, 1, 0, 1,
              5>>, 6) BY DEF Table
  <2>3. /\ Stage!Wide(Stage!Over(22, 14)) \in Cells
        /\ Stage!Over(24, 10) \in Cells
    BY OverFine
  <2>4. {Stage!Wide(Stage!Over(22, 14))} \cup Stage!When(Stage!Odd(t \div 2),
        {Stage!Over(24, 10)}) \in SUBSET Cells
    BY <2>3 DEF Stage!When
  <2> QED BY <2>1, <2>4, LoosePose DEF Stage!DragonBusy
<1>4. Stage!DragonAttention(t) \in Pictures
  <2> DEFINE seq == <<0, 4, 0, 1, 0, 2, 0, 3, 4, 4, 0, 1, 2, 3, 5, 0>>
  <2>1. Table(seq, 6) BY DEF Table
  <2> HIDE DEF seq
  <2> DEFINE f == Stage!Shaken(Stage!Frame(6, 5, t, seq, Stage!Still,
                                       Stage!Still), t, 4, 1)
             s == (t * 2) % 8
  <2>2. f \in Pictures BY <2>1, ShakenStill
  <2>3. s \in 0..7 OBVIOUS
  <2> HIDE DEF f, s
  <2>4. /\ Stage!Over(-6, 0) \in Cells /\ Stage!Over(6, 4) \in Cells
        /\ Stage!Over(18, 12 - s) \in Cells
    BY <2>3, OverFine
  <2> DEFINE c1 == Stage!When(Stage!Odd(t \div 2), {Stage!Over(-6, 0)})
             c2 == Stage!When(Stage!Odd(t \div 3), {Stage!Over(6, 4)})
             c3 == Stage!When(f.pose \in {3, 4}, {Stage!Over(18, 12 - s)})
  <2>5. c1 \cup c2 \cup c3 \in SUBSET Cells BY <2>4 DEF Stage!When
  <2> HIDE DEF c1, c2, c3
  <2>6. Stage!Draw(f, c1 \cup c2 \cup c3) \in Pictures BY <2>2, <2>5, DrawFine
  <2> QED BY <2>6 DEF Stage!DragonAttention, seq, f, s, c1, c2, c3
<1>5. Stage!DragonCelebrate(t) \in Pictures
  BY CelebratePose DEF Stage!DragonCelebrate
<1>6. Stage!DragonDizzy(t) \in Pictures
  BY DizzyPose, StarsFine DEF Stage!DragonDizzy
<1>7. Stage!DragonHeart(t) \in Pictures
  <2> DEFINE sp == (t * 2) % 18
  <2>1. sp \in 0..17 OBVIOUS
  <2> HIDE DEF sp
  <2>2. Stage!Over(14, 14 - sp) \in Cells BY <2>1, OverFine
  <2>3. Stage!Hearts(t, 5, 4, 16, 20) \in SUBSET Cells BY HeartsFine
  <2>4. {Stage!Over(14, 14 - sp)} \cup Stage!Hearts(t, 5, 4, 16, 20) \in SUBSET Cells
    BY <2>2, <2>3
  <2> QED BY <2>4, BeatingPose, BobTable DEF Stage!DragonHeart, sp
<1> QED BY <1>1, <1>2, <1>3, <1>4, <1>5, <1>6, <1>7
           DEF Stage!DragonStates, Stage!Personas

LEMMA OctopusFine ==
  ASSUME NEW t \in Nat, NEW persona \in Stage!Personas
  PROVE  Stage!OctopusStates(persona, t) \in Pictures
<1>1. Stage!OctopusSleep(t) \in Pictures
  <2> DEFINE p1 == t % 10
             p2 == (t + 4) % 10
             p3 == (t + 7) % 10
  <2>1. Table(<<0, 0, 1, 1, 0, 0, 2, 2, 1, 1, 0, 0, 3, 3, 4, 4, 3, 4, 1, 1, 2,
              2, 0, 5, 1, 1>>, 6) BY DEF Table
  <2>2. p1 \in 0..9 /\ p2 \in 0..9 /\ p3 \in 0..9 OBVIOUS
  <2> HIDE DEF p1, p2, p3
  <2>3. /\ Stage!Over(18 + p1, 16 - p1 * 2) \in Cells
        /\ Stage!Over(24 + p2, 12 - p2) \in Cells
        /\ Stage!Over(14 + p3 \div 2, 8 - p3 \div 2) \in Cells
    BY <2>2, OverFine
  <2> QED BY <2>1, <2>3, SleepPose DEF Stage!OctopusSleep, p1, p2, p3
<1>2. Stage!OctopusIdle(t) \in Pictures
  <2>1. Table(<<0, 1, 0, 1, 0, 2, 1, 3, 0, 1, 4, 0, 5, 6, 5, 6, 0, 1, 0, 4, 1,
              0, 7, 7, 0, 1, 8, 8, 0, 1, 9, 9, 0, 1>>, 10) BY DEF Table
  <2> QED BY <2>1, IdlePose DEF Stage!OctopusIdle
<1>3. Stage!OctopusBusy(t) \in Pictures
  <2> DEFINE b == (t * 2) % 18
  <2>1. Table(<<0, 1, 0, 1, 0, 1, 2, 2, 0, 1, 0, 1, 3, 3, 2, 4, 0, 1, 0, 1,
              5>>, 6) BY DEF Table
  <2>2. b \in 0..17 OBVIOUS
  <2> HIDE DEF b
  <2>3. /\ Stage!Wide(Stage!Over(22, 14)) \in Cells
        /\ Stage!Over(-30, 18 - b) \in Cells
    BY <2>2, OverFine
  <2>4. {Stage!Wide(Stage!Over(22, 14)), Stage!Over(-30, 18 - b)} \in SUBSET Cells BY <2>3
  <2> QED BY <2>1, <2>4, LoosePose DEF Stage!OctopusBusy, b
<1>4. Stage!OctopusAttention(t) \in Pictures
  <2>1. 1 \in Int /\ -6 \in Int /\ 6 \in Int OBVIOUS
  <2> QED BY <2>1, AttentionPose, Zenon DEF Stage!OctopusAttention
<1>5. Stage!OctopusCelebrate(t) \in Pictures
  BY CelebratePose DEF Stage!OctopusCelebrate
<1>6. Stage!OctopusDizzy(t) \in Pictures
  <2> DEFINE puff == t % 8
  <2>1. puff \in 0..7 OBVIOUS
  <2> HIDE DEF puff
  <2>2. /\ Stage!Over(-24 - puff, 10 + puff) \in Cells
        /\ Stage!Over(24 + puff, 10 + puff) \in Cells
    BY <2>1, OverFine
  <2>3. Stage!Stars(t, {0, 4}, 4) \in SUBSET Cells BY StarsFine
  <2>4. Stage!Stars(t, {0, 4}, 4)
          \cup Stage!When(Stage!Odd(t \div 8), {Stage!Over(-24 - puff, 10 + puff),
                            Stage!Over(24 + puff, 10 + puff)}) \in SUBSET Cells
    BY <2>2, <2>3 DEF Stage!When
  <2> QED BY <2>4, DizzyPose DEF Stage!OctopusDizzy, puff
<1>7. Stage!OctopusHeart(t) \in Pictures
  <2> DEFINE seq == <<0, 0, 1, 0, 2, 2, 0, 1, 0, 4, 0, 0, 3, 3, 0, 1, 0, 2, 5,
                    5, 1, 0>>
             ys == <<0, -1, 0, -1, 0, -1, 0, -1, 0, 0, -1, 0, 0, 0, -1, 0, -1,
                   0, 0, -1, 0, -1>>
  <2>1. Table(seq, 6) BY DEF Table
  <2>2. ys \in Seq(-12..12) /\ Len(ys) = Len(seq) OBVIOUS
  <2> HIDE DEF seq, ys
  <2>3. Moves(ys, seq) /\ Moves(Stage!Still, seq) BY <2>2 DEF Moves
  <2>4. Stage!Frame(6, 5, t, seq, Stage!Still, ys) \in Pictures
    BY <2>1, <2>3, FrameFine
  <2>7. Stage!Hearts(t, 5, 4, 16, 20) \in SUBSET Cells BY HeartsFine
  <2>8. Stage!Hearts(t, 5, 4, 16, 20) \in SUBSET Cells
    BY <2>7
  <2> QED BY <2>4, <2>8, DrawFine DEF Stage!OctopusHeart, seq, ys
<1> QED BY <1>1, <1>2, <1>3, <1>4, <1>5, <1>6, <1>7
           DEF Stage!OctopusStates, Stage!Personas

LEMMA OwlFine ==
  ASSUME NEW t \in Nat, NEW persona \in Stage!Personas
  PROVE  Stage!OwlStates(persona, t) \in Pictures
<1>1. Stage!OwlSleep(t) \in Pictures
  <2> DEFINE p1 == t % 12
             p2 == (t + 5) % 12
             p3 == (t + 9) % 12
  <2>1. Table(<<0, 1, 0, 1, 2, 2, 1, 0, 1, 0, 3, 3, 0, 4, 4, 0, 1, 2, 2, 1, 0,
              5, 0, 0>>, 6) BY DEF Table
  <2>2. p1 \in 0..11 /\ p2 \in 0..11 /\ p3 \in 0..11 OBVIOUS
  <2> HIDE DEF p1, p2, p3
  <2>3. /\ Stage!Over(18 + p1, 20 - p1 * 2) \in Cells
        /\ Stage!Over(24 + p2, 16 - p2) \in Cells
        /\ Stage!Over(14 + p3 \div 2, 12 - p3 \div 2) \in Cells
    BY <2>2, OverFine
  <2> QED BY <2>1, <2>3, SleepPose DEF Stage!OwlSleep, p1, p2, p3
<1>2. Stage!OwlIdle(t) \in Pictures
  <2>1. Table(<<0, 0, 0, 1, 0, 0, 2, 2, 0, 3, 3, 0, 1, 0, 4, 4, 0, 5, 5, 0, 6,
              0, 7, 7, 0, 8, 8, 0, 9, 9, 0, 0>>, 10) BY DEF Table
  <2> QED BY <2>1, IdlePose DEF Stage!OwlIdle
<1>3. Stage!OwlBusy(t) \in Pictures
  <2>1. Table(<<0, 1, 0, 2, 0, 1, 0, 2, 3, 3, 0, 1, 0, 2, 5, 5, 0, 1, 4, 4, 0,
              2, 0, 1, 3>>, 6) BY DEF Table
  <2> QED BY <2>1, BusyPose DEF Stage!OwlBusy
<1>4. Stage!OwlAttention(t) \in Pictures
  <2>1. 1 \in Int /\ -4 \in Int /\ 6 \in Int OBVIOUS
  <2> QED BY <2>1, AttentionPose, Zenon DEF Stage!OwlAttention
<1>5. Stage!OwlCelebrate(t) \in Pictures
  <2>1. /\ 6 \in Nat /\ 11 \in Nat /\ 22 \in Nat \ {0} /\ 36 \in Nat
        /\ 14 \in Nat /\ 6 \in Nat /\ 20 \in 0..44
    OBVIOUS
  <2>2. Stage!Confetti(t, 6, 11, 22, 36, 14, 6, 20) \in SUBSET Cells
    BY <2>1, ConfettiFine, Zenon
  <2>3. /\ <<0, -4, -7, -4, 0, 0, 0, 0, 0, 0, -4, -7, -4, 0, 0, 0>> \in
              Seq(-12..12)
        /\ Len(<<0, -4, -7, -4, 0, 0, 0, 0, 0, 0, -4, -7, -4, 0, 0, 0>>) = 16
    OBVIOUS
  <2> QED BY <2>2, <2>3, JumpPose DEF Stage!OwlCelebrate
<1>6. Stage!OwlDizzy(t) \in Pictures
  BY DizzyPose, StarsFine DEF Stage!OwlDizzy
<1>7. Stage!OwlHeart(t) \in Pictures
  BY HeartPose DEF Stage!OwlHeart
<1> QED BY <1>1, <1>2, <1>3, <1>4, <1>5, <1>6, <1>7
           DEF Stage!OwlStates, Stage!Personas

LEMMA PenguinFine ==
  ASSUME NEW t \in Nat, NEW persona \in Stage!Personas
  PROVE  Stage!PenguinStates(persona, t) \in Pictures
<1>1. Stage!PenguinSleep(t) \in Pictures
  <2> DEFINE p1 == t % 10
             p2 == (t + 4) % 10
             p3 == (t + 7) % 10
  <2>1. Table(<<0, 1, 0, 1, 0, 1, 2, 1, 0, 1, 0, 1, 3, 4, 3, 4, 3, 4, 3, 3, 1,
              5, 1, 1>>, 6) BY DEF Table
  <2>2. p1 \in 0..9 /\ p2 \in 0..9 /\ p3 \in 0..9 OBVIOUS
  <2> HIDE DEF p1, p2, p3
  <2>3. /\ Stage!Over(20 + p1, 18 - p1 * 2) \in Cells
        /\ Stage!Over(26 + p2, 14 - p2) \in Cells
        /\ Stage!Over(16 + p3 \div 2, 10 - p3 \div 2) \in Cells
    BY <2>2, OverFine
  <2> QED BY <2>1, <2>3, SleepPose DEF Stage!PenguinSleep, p1, p2, p3
<1>2. Stage!PenguinIdle(t) \in Pictures
  <2>1. Table(<<0, 0, 1, 2, 1, 2, 0, 3, 0, 4, 0, 5, 0, 6, 6, 0, 3, 0, 1, 2, 1,
              2, 0, 7, 7, 0, 0, 8, 8, 0, 9, 9, 0, 0>>, 10) BY DEF Table
  <2> QED BY <2>1, IdlePose DEF Stage!PenguinIdle
<1>3. Stage!PenguinBusy(t) \in Pictures
  <2>1. Table(<<0, 1, 0, 1, 0, 1, 2, 2, 0, 1, 0, 1, 3, 3, 2, 4, 0, 1, 0, 1,
              5>>, 6) BY DEF Table
  <2> QED BY <2>1, BusyPose DEF Stage!PenguinBusy
<1>4. Stage!PenguinAttention(t) \in Pictures
  <2>1. 1 \in Int /\ -4 \in Int /\ 4 \in Int OBVIOUS
  <2> QED BY <2>1, AttentionPose, Zenon DEF Stage!PenguinAttention
<1>5. Stage!PenguinCelebrate(t) \in Pictures
  BY CelebratePose DEF Stage!PenguinCelebrate
<1>6. Stage!PenguinDizzy(t) \in Pictures
  BY DizzyPose, StarsFine DEF Stage!PenguinDizzy
<1>7. Stage!PenguinHeart(t) \in Pictures
  BY HeartPose DEF Stage!PenguinHeart
<1> QED BY <1>1, <1>2, <1>3, <1>4, <1>5, <1>6, <1>7
           DEF Stage!PenguinStates, Stage!Personas

LEMMA TurtleFine ==
  ASSUME NEW t \in Nat, NEW persona \in Stage!Personas
  PROVE  Stage!TurtleStates(persona, t) \in Pictures
<1>1. Stage!TurtleSleep(t) \in Pictures
  <2> DEFINE p1 == t % 12
             p2 == (t + 5) % 12
             p3 == (t + 9) % 12
  <2>1. Table(<<0, 0, 0, 0, 1, 0, 2, 3, 2, 3, 2, 3, 2, 3, 0, 0, 4, 4, 4, 2, 3,
              2, 3, 1, 5, 1, 0>>, 6) BY DEF Table
  <2>2. p1 \in 0..11 /\ p2 \in 0..11 /\ p3 \in 0..11 OBVIOUS
  <2> HIDE DEF p1, p2, p3
  <2>3. /\ Stage!Over(18 + p1, 16 - p1 * 2) \in Cells
        /\ Stage!Over(24 + p2 \div 2, 12 - p2) \in Cells
        /\ Stage!Over(14 + p3 \div 2, 8 - p3 \div 2) \in Cells
    BY <2>2, OverFine
  <2> QED BY <2>1, <2>3, SleepPose DEF Stage!TurtleSleep, p1, p2, p3
<1>2. Stage!TurtleIdle(t) \in Pictures
  <2>1. Table(<<0, 0, 0, 1, 0, 2, 0, 3, 0, 0, 4, 4, 0, 5, 5, 0, 0, 3, 0, 0, 7,
              8, 7, 8, 7, 8, 0, 0, 6, 6, 0, 0, 3, 0, 0, 9, 9, 9, 0, 0>>, 10) BY DEF Table
  <2> QED BY <2>1, IdlePose DEF Stage!TurtleIdle
<1>3. Stage!TurtleBusy(t) \in Pictures
  <2>1. Table(<<0, 1, 0, 1, 0, 1, 2, 2, 0, 1, 0, 1, 3, 3, 3, 2, 4, 0, 1, 0, 1,
              5>>, 6) BY DEF Table
  <2> QED BY <2>1, BusyPose DEF Stage!TurtleBusy
<1>4. Stage!TurtleAttention(t) \in Pictures
  <2>1. 1 \in Int /\ -4 \in Int /\ 6 \in Int OBVIOUS
  <2> QED BY <2>1, AttentionPose, Zenon DEF Stage!TurtleAttention
<1>5. Stage!TurtleCelebrate(t) \in Pictures
  BY CelebratePose DEF Stage!TurtleCelebrate
<1>6. Stage!TurtleDizzy(t) \in Pictures
  BY DizzyPose, StarsFine DEF Stage!TurtleDizzy
<1>7. Stage!TurtleHeart(t) \in Pictures
  BY HeartPose DEF Stage!TurtleHeart
<1> QED BY <1>1, <1>2, <1>3, <1>4, <1>5, <1>6, <1>7
           DEF Stage!TurtleStates, Stage!Personas

LEMMA SnailFine ==
  ASSUME NEW t \in Nat, NEW persona \in Stage!Personas
  PROVE  Stage!SnailStates(persona, t) \in Pictures
<1>1. Stage!SnailSleep(t) \in Pictures
  <2> DEFINE p1 == t % 12
             p2 == (t + 5) % 12
             p3 == (t + 9) % 12
  <2>1. Table(<<0, 1, 0, 1, 0, 1, 2, 1, 0, 1, 0, 1, 3, 3, 3, 3, 4, 4, 4, 4, 1,
              5, 1, 1>>, 6) BY DEF Table
  <2>2. p1 \in 0..11 /\ p2 \in 0..11 /\ p3 \in 0..11 OBVIOUS
  <2> HIDE DEF p1, p2, p3
  <2>3. /\ Stage!Over(8 - p1, 14 - p1) \in Cells
        /\ Stage!Over(14 - p2, 10 - p2) \in Cells
        /\ Stage!Over(4 - p3 \div 2, 6 - p3 \div 2) \in Cells
    BY <2>2, OverFine
  <2> QED BY <2>1, <2>3, SleepPose DEF Stage!SnailSleep, p1, p2, p3
<1>2. Stage!SnailIdle(t) \in Pictures
  <2>1. Table(<<0, 0, 0, 1, 0, 2, 0, 4, 0, 5, 6, 5, 6, 0, 0, 0, 3, 3, 0, 4, 7,
              8, 7, 8, 0, 9, 9, 9, 0, 0>>, 10) BY DEF Table
  <2>3. /\ Stage!Low(-10, 32) \in Cells
    BY OverFine
  <2>4. Stage!When(Stage!Odd(t \div 6), {Stage!Low(-10, 32)}) \in SUBSET Cells
    BY <2>3 DEF Stage!When
  <2> QED BY <2>1, <2>4, RestPose DEF Stage!SnailIdle
<1>3. Stage!SnailBusy(t) \in Pictures
  <2>1. Table(<<0, 1, 2, 3, 0, 1, 2, 3, 4, 4, 0, 1, 2, 3, 4, 4, 5, 0, 1, 2,
              3>>, 6) BY DEF Table
  <2>3. /\ Stage!Wide(Stage!Over(24, 12)) \in Cells
    BY OverFine
  <2>4. {Stage!Wide(Stage!Over(24, 12))} \in SUBSET Cells BY <2>3
  <2> QED BY <2>1, <2>4, LoosePose DEF Stage!SnailBusy
<1>4. Stage!SnailAttention(t) \in Pictures
  <2>1. 1 \in Int /\ -6 \in Int /\ 6 \in Int OBVIOUS
  <2> QED BY <2>1, AttentionPose, Zenon DEF Stage!SnailAttention
<1>5. Stage!SnailCelebrate(t) \in Pictures
  BY CelebratePose DEF Stage!SnailCelebrate
<1>6. Stage!SnailDizzy(t) \in Pictures
  BY DizzyPose, StarsFine DEF Stage!SnailDizzy
<1>7. Stage!SnailHeart(t) \in Pictures
  BY HeartPose DEF Stage!SnailHeart
<1> QED BY <1>1, <1>2, <1>3, <1>4, <1>5, <1>6, <1>7
           DEF Stage!SnailStates, Stage!Personas

LEMMA GhostFine ==
  ASSUME NEW t \in Nat, NEW persona \in Stage!Personas
  PROVE  Stage!GhostStates(persona, t) \in Pictures
<1>1. Stage!GhostSleep(t) \in Pictures
  <2> DEFINE seq == <<0, 1, 0, 1, 0, 1, 5, 5, 0, 1, 0, 1, 2, 2, 3, 3, 4, 4, 0,
                    1, 0, 1, 5, 5, 2, 3, 4, 0, 1>>
             ys == <<0, -1, 0, -1, 0, -1, 0, -1, -1, -2, -1, -2, -2, -3, -3,
                   -3, -2, -1, -1, 0, 0, -1, 0, -1, -1, -2, -1, 0, -1>>
  <2>1. Table(seq, 6) BY DEF Table
  <2>2. ys \in Seq(-12..12) /\ Len(ys) = Len(seq) OBVIOUS
  <2> HIDE DEF seq, ys
  <2>3. Moves(ys, seq) /\ Moves(Stage!Still, seq) BY <2>2 DEF Moves
  <2>4. Stage!Frame(6, 5, t, seq, Stage!Still, ys) \in Pictures
    BY <2>1, <2>3, FrameFine
  <2> DEFINE p1 == t % 12
             p2 == (t + 4) % 12
             p3 == (t + 8) % 12
  <2>5. p1 \in 0..11 /\ p2 \in 0..11 /\ p3 \in 0..11 OBVIOUS
  <2> HIDE DEF p1, p2, p3
  <2>6. /\ Stage!Over(18 + p1, 16 - p1 * 2) \in Cells
        /\ Stage!Over(24 + p2, 12 - p2) \in Cells
        /\ Stage!Over(14 + p3 \div 2, 8 - p3 \div 2) \in Cells
    BY <2>5, OverFine
  <2>8. {Stage!Over(18 + p1, 16 - p1 * 2), Stage!Over(24 + p2, 12 - p2),
        Stage!Over(14 + p3 \div 2, 8 - p3 \div 2)} \in SUBSET Cells
    BY <2>6
  <2> QED BY <2>4, <2>8, DrawFine DEF Stage!GhostSleep, seq, ys, p1, p2, p3
<1>2. Stage!GhostIdle(t) \in Pictures
  <2> DEFINE seq == <<0, 0, 6, 7, 0, 1, 0, 2, 0, 4, 0, 6, 5, 5, 0, 0, 7, 6, 0,
                    3, 0, 4, 8, 8, 0, 0, 9, 9, 0, 6, 7, 0>>
             ys == <<0, -1, -1, 0, -1, 0, -1, 0, -1, 0, -1, -1, -1, 0, -1, 0,
                   0, -1, 0, -1, 0, -1, -2, -1, -1, 0, -1, 0, -1, 0, -1, 0>>
  <2>1. Table(seq, 10) BY DEF Table
  <2>2. ys \in Seq(-12..12) /\ Len(ys) = Len(seq) OBVIOUS
  <2> HIDE DEF seq, ys
  <2>3. Moves(ys, seq) /\ Moves(Stage!Still, seq) BY <2>2 DEF Moves
  <2>4. Stage!Frame(10, 5, t, seq, Stage!Still, ys) \in Pictures
    BY <2>1, <2>3, FrameFine
  <2> QED BY <2>4 DEF Stage!GhostIdle, seq, ys
<1>3. Stage!GhostBusy(t) \in Pictures
  <2>1. Table(<<0, 1, 0, 1, 0, 1, 2, 2, 0, 1, 0, 1, 3, 3, 2, 4, 0, 1, 0, 1,
              5>>, 6) BY DEF Table
  <2> QED BY <2>1, BusyPose DEF Stage!GhostBusy
<1>4. Stage!GhostAttention(t) \in Pictures
  <2>1. 1 \in Int /\ -6 \in Int /\ 6 \in Int OBVIOUS
  <2> QED BY <2>1, AttentionPose, Zenon DEF Stage!GhostAttention
<1>5. Stage!GhostCelebrate(t) \in Pictures
  BY CelebratePose DEF Stage!GhostCelebrate
<1>6. Stage!GhostDizzy(t) \in Pictures
  BY DizzyPose, StarsFine DEF Stage!GhostDizzy
<1>7. Stage!GhostHeart(t) \in Pictures
  <2>1. /\ <<-1, -2, -1, -2, -1, -2, -1, -2, -1, -1, -2, -1, -1, -1, -2, -1, -2, -1, -2, -1>> \in Seq(-12..12)
        /\ Len(<<-1, -2, -1, -2, -1, -2, -1, -2, -1, -1, -2, -1, -1, -1, -2, -1, -2, -1, -2, -1>>) = 20
    OBVIOUS
  <2>2. Stage!Hearts(t, 5, 4, 16, 20) \in SUBSET Cells BY HeartsFine
  <2> QED BY <2>1, <2>2, BeatingPose DEF Stage!GhostHeart
<1> QED BY <1>1, <1>2, <1>3, <1>4, <1>5, <1>6, <1>7
           DEF Stage!GhostStates, Stage!Personas

LEMMA AxolotlFine ==
  ASSUME NEW t \in Nat, NEW persona \in Stage!Personas
  PROVE  Stage!AxolotlStates(persona, t) \in Pictures
<1>1. Stage!AxolotlSleep(t) \in Pictures
  <2> DEFINE p1 == t % 12
             p2 == (t + 5) % 12
             p3 == (t + 9) % 12
  <2>1. Table(<<0, 1, 0, 1, 0, 1, 2, 1, 0, 1, 0, 1, 3, 3, 4, 4, 3, 4, 3, 3, 1,
              5, 1, 1>>, 6) BY DEF Table
  <2>2. p1 \in 0..11 /\ p2 \in 0..11 /\ p3 \in 0..11 OBVIOUS
  <2> HIDE DEF p1, p2, p3
  <2>3. /\ Stage!Over(18 + (p1 % 3), 20 - p1 * 2) \in Cells
        /\ Stage!Over(26 - (p2 % 4), 18 - p2) \in Cells
        /\ Stage!Over(14 + (p3 % 5), 12 - p3 \div 2) \in Cells
    BY <2>2, OverFine
  <2> QED BY <2>1, <2>3, SleepPose DEF Stage!AxolotlSleep, p1, p2, p3
<1>2. Stage!AxolotlIdle(t) \in Pictures
  <2> DEFINE p == (t \div 2) % 14
  <2>1. Table(<<0, 0, 0, 1, 0, 2, 0, 4, 0, 5, 0, 6, 0, 7, 8, 7, 8, 0, 0, 3, 3,
              0, 4, 9, 9, 0, 0, 1, 2, 1, 2, 0>>, 10) BY DEF Table
  <2>2. p \in 0..13 OBVIOUS
  <2> HIDE DEF p
  <2>3. /\ Stage!Over(24, 16 - p) \in Cells
    BY <2>2, OverFine
  <2>4. {Stage!Over(24, 16 - p)} \in SUBSET Cells BY <2>3
  <2> QED BY <2>1, <2>4, RestPose DEF Stage!AxolotlIdle, p
<1>3. Stage!AxolotlBusy(t) \in Pictures
  <2> DEFINE b == (t * 2) % 10
  <2>1. Table(<<0, 1, 0, 1, 0, 1, 2, 2, 0, 1, 0, 1, 3, 3, 2, 4, 0, 1, 0, 1,
              5>>, 6) BY DEF Table
  <2>2. b \in 0..9 OBVIOUS
  <2> HIDE DEF b
  <2>3. /\ Stage!Wide(Stage!Over(22, 14)) \in Cells
        /\ Stage!Over(-28, 18 - b) \in Cells
    BY <2>2, OverFine
  <2>4. {Stage!Wide(Stage!Over(22, 14)), Stage!Over(-28, 18 - b)} \in SUBSET Cells BY <2>3
  <2> QED BY <2>1, <2>4, LoosePose DEF Stage!AxolotlBusy, b
<1>4. Stage!AxolotlAttention(t) \in Pictures
  <2>1. 1 \in Int /\ -4 \in Int /\ 4 \in Int OBVIOUS
  <2> QED BY <2>1, AttentionPose, Zenon DEF Stage!AxolotlAttention
<1>5. Stage!AxolotlCelebrate(t) \in Pictures
  <2>1. /\ 7 \in Nat /\ 9 \in Nat /\ 24 \in Nat \ {0} /\ 36 \in Nat
        /\ 12 \in Nat /\ 6 \in Nat /\ 20 \in 0..44
    OBVIOUS
  <2>2. Stage!Confetti(t, 7, 9, 24, 36, 12, 6, 20) \in SUBSET Cells
    BY <2>1, ConfettiFine, Zenon
  <2> QED BY <2>2, JumpPose, HopTable DEF Stage!AxolotlCelebrate
<1>6. Stage!AxolotlDizzy(t) \in Pictures
  BY DizzyPose, StarsFine DEF Stage!AxolotlDizzy
<1>7. Stage!AxolotlHeart(t) \in Pictures
  <2> DEFINE seq == <<0, 0, 1, 0, 2, 2, 0, 1, 0, 4, 0, 0, 3, 3, 0, 1, 0, 2, 5,
                    0>>
             ys == Stage!Bob
  <2>1. Table(seq, 6) BY DEF Table
  <2>2. ys \in Seq(-12..12) /\ Len(ys) = Len(seq)
    BY BobTable
  <2> HIDE DEF seq, ys
  <2>3. Moves(ys, seq) /\ Moves(Stage!Still, seq) BY <2>2 DEF Moves
  <2>4. Stage!Frame(6, 5, t, seq, Stage!Still, ys) \in Pictures
    BY <2>1, <2>3, FrameFine
  <2> DEFINE b == (t + 3) % 14
  <2>5. b \in 0..13 OBVIOUS
  <2> HIDE DEF b
  <2>6. /\ Stage!Over(26, 16 - b) \in Cells
    BY <2>5, OverFine
  <2>7. Stage!Hearts(t, 5, 4, 16, 20) \in SUBSET Cells BY HeartsFine
  <2>8. {Stage!Over(26, 16 - b)} \cup Stage!Hearts(t, 5, 4, 16, 20) \in SUBSET
        Cells
    BY <2>6, <2>7
  <2> QED BY <2>4, <2>8, DrawFine DEF Stage!AxolotlHeart, seq, ys, b
<1> QED BY <1>1, <1>2, <1>3, <1>4, <1>5, <1>6, <1>7
           DEF Stage!AxolotlStates, Stage!Personas

LEMMA CactusFine ==
  ASSUME NEW t \in Nat, NEW persona \in Stage!Personas
  PROVE  Stage!CactusStates(persona, t) \in Pictures
<1>1. Stage!CactusSleep(t) \in Pictures
  <2> DEFINE p1 == t % 10
             p2 == (t + 4) % 10
             p3 == (t + 7) % 10
  <2>1. Table(<<0, 1, 0, 1, 0, 1, 2, 1, 0, 1, 0, 1, 3, 3, 4, 4, 3, 4, 0, 0, 1,
              5, 1, 1>>, 6) BY DEF Table
  <2>2. p1 \in 0..9 /\ p2 \in 0..9 /\ p3 \in 0..9 OBVIOUS
  <2> HIDE DEF p1, p2, p3
  <2>3. /\ Stage!Over(20 + p1, 18 - p1 * 2) \in Cells
        /\ Stage!Over(26 + p2, 14 - p2) \in Cells
        /\ Stage!Over(16 + p3 \div 2, 10 - p3 \div 2) \in Cells
    BY <2>2, OverFine
  <2> QED BY <2>1, <2>3, SleepPose DEF Stage!CactusSleep, p1, p2, p3
<1>2. Stage!CactusIdle(t) \in Pictures
  <2>1. Table(<<0, 0, 0, 1, 0, 2, 0, 4, 0, 3, 0, 0, 5, 5, 0, 6, 6, 0, 0, 7, 8,
              7, 8, 0, 9, 9, 0, 4, 0, 0, 1, 2, 0>>, 10) BY DEF Table
  <2> QED BY <2>1, IdlePose DEF Stage!CactusIdle
<1>3. Stage!CactusBusy(t) \in Pictures
  <2>1. Table(<<0, 1, 0, 1, 0, 1, 2, 2, 0, 1, 0, 1, 3, 3, 2, 4, 0, 1, 0, 1,
              5>>, 6) BY DEF Table
  <2> QED BY <2>1, BusyPose DEF Stage!CactusBusy
<1>4. Stage!CactusAttention(t) \in Pictures
  <2>1. 1 \in Int /\ -4 \in Int /\ 4 \in Int OBVIOUS
  <2> QED BY <2>1, AttentionPose, Zenon DEF Stage!CactusAttention
<1>5. Stage!CactusCelebrate(t) \in Pictures
  BY CelebratePose DEF Stage!CactusCelebrate
<1>6. Stage!CactusDizzy(t) \in Pictures
  BY DizzyPose, StarsFine DEF Stage!CactusDizzy
<1>7. Stage!CactusHeart(t) \in Pictures
  BY HeartPose DEF Stage!CactusHeart
<1> QED BY <1>1, <1>2, <1>3, <1>4, <1>5, <1>6, <1>7
           DEF Stage!CactusStates, Stage!Personas

LEMMA RobotFine ==
  ASSUME NEW t \in Nat, NEW persona \in Stage!Personas
  PROVE  Stage!RobotStates(persona, t) \in Pictures
<1>1. Stage!RobotSleep(t) \in Pictures
  <2> DEFINE p1 == t % 10
             p2 == (t + 4) % 10
             p3 == (t + 7) % 10
  <2>1. Table(<<0, 1, 2, 1, 0, 1, 2, 1, 0, 0, 3, 3, 4, 4, 4, 3, 0, 1, 2, 1, 0,
              5, 0, 1, 0>>, 6) BY DEF Table
  <2>2. p1 \in 0..9 /\ p2 \in 0..9 /\ p3 \in 0..9 OBVIOUS
  <2> HIDE DEF p1, p2, p3
  <2>3. /\ Stage!Over(20 + p1, 18 - p1 * 2) \in Cells
        /\ Stage!Over(26 + p2, 14 - p2) \in Cells
        /\ Stage!Over(16 + p3 \div 2, 10 - p3 \div 2) \in Cells
    BY <2>2, OverFine
  <2> QED BY <2>1, <2>3, SleepPose DEF Stage!RobotSleep, p1, p2, p3
<1>2. Stage!RobotIdle(t) \in Pictures
  <2>1. Table(<<0, 0, 1, 1, 0, 2, 2, 0, 3, 0, 0, 4, 5, 4, 5, 0, 6, 7, 6, 7, 0,
              0, 8, 8, 0, 9, 9, 0, 3, 0>>, 10) BY DEF Table
  <2>3. /\ Stage!Low(-1, -4) \in Cells
    BY OverFine
  <2>4. Stage!When(Stage!Odd(t \div 4), {Stage!Low(-1, -4)}) \in SUBSET Cells
    BY <2>3 DEF Stage!When
  <2> QED BY <2>1, <2>4, RestPose DEF Stage!RobotIdle
<1>3. Stage!RobotBusy(t) \in Pictures
  <2>1. Table(<<0, 1, 0, 1, 0, 1, 2, 2, 0, 1, 0, 1, 3, 3, 2, 4, 0, 1, 0, 1,
              5>>, 6) BY DEF Table
  <2> QED BY <2>1, BusyPose DEF Stage!RobotBusy
<1>4. Stage!RobotAttention(t) \in Pictures
  <2> DEFINE seq == <<0, 4, 0, 1, 0, 2, 0, 3, 4, 4, 0, 1, 2, 0, 5, 0>>
  <2>1. Table(seq, 6) BY DEF Table
  <2> HIDE DEF seq
  <2> DEFINE f == Stage!Shaken(Stage!Frame(6, 5, t, seq, Stage!Still,
                                       Stage!Still), t, 4, 1)
  <2>2. f \in Pictures BY <2>1, ShakenStill
  <2>4. /\ Stage!Over(-6, 0) \in Cells
        /\ Stage!Over(6, 4) \in Cells
        /\ Stage!Low(-1, -4) \in Cells
    BY OverFine
  <2> DEFINE c1 == Stage!When(Stage!Odd(t \div 2), {Stage!Over(-6, 0)})
             c2 == Stage!When(Stage!Odd(t \div 3), {Stage!Over(6, 4)})
             c3 == Stage!When(Stage!Odd(t \div 2), {Stage!Low(-1, -4)})
  <2>5. c1 \cup c2 \cup c3 \in SUBSET Cells BY <2>4 DEF Stage!When
  <2> HIDE DEF f, c1, c2, c3
  <2>6. Stage!Draw(f, c1 \cup c2 \cup c3) \in Pictures BY <2>2, <2>5, DrawFine
  <2> QED BY <2>6 DEF Stage!RobotAttention, seq, f, c1, c2, c3
<1>5. Stage!RobotCelebrate(t) \in Pictures
  BY CelebratePose DEF Stage!RobotCelebrate
<1>6. Stage!RobotDizzy(t) \in Pictures
  BY DizzyPose, StarsFine DEF Stage!RobotDizzy
<1>7. Stage!RobotHeart(t) \in Pictures
  BY HeartPose DEF Stage!RobotHeart
<1> QED BY <1>1, <1>2, <1>3, <1>4, <1>5, <1>6, <1>7
           DEF Stage!RobotStates, Stage!Personas

LEMMA RabbitFine ==
  ASSUME NEW t \in Nat, NEW persona \in Stage!Personas
  PROVE  Stage!RabbitStates(persona, t) \in Pictures
<1>1. Stage!RabbitSleep(t) \in Pictures
  <2> DEFINE p1 == t % 10
             p2 == (t + 4) % 10
             p3 == (t + 7) % 10
  <2>1. Table(<<0, 1, 0, 1, 0, 1, 4, 1, 0, 1, 0, 1, 3, 3, 3, 3, 2, 2, 1, 5, 1,
              1>>, 6) BY DEF Table
  <2>2. p1 \in 0..9 /\ p2 \in 0..9 /\ p3 \in 0..9 OBVIOUS
  <2> HIDE DEF p1, p2, p3
  <2>3. /\ Stage!Over(20 + p1, 18 - p1 * 2) \in Cells
        /\ Stage!Over(26 + p2, 14 - p2) \in Cells
        /\ Stage!Over(16 + p3 \div 2, 10 - p3 \div 2) \in Cells
    BY <2>2, OverFine
  <2> QED BY <2>1, <2>3, SleepPose DEF Stage!RabbitSleep, p1, p2, p3
<1>2. Stage!RabbitIdle(t) \in Pictures
  <2>1. Table(<<0, 0, 0, 1, 0, 2, 0, 4, 0, 5, 0, 0, 6, 7, 6, 7, 0, 0, 3, 3, 0,
              4, 8, 8, 0, 0, 9, 9, 0, 0>>, 10) BY DEF Table
  <2> QED BY <2>1, IdlePose DEF Stage!RabbitIdle
<1>3. Stage!RabbitBusy(t) \in Pictures
  <2>1. Table(<<0, 1, 0, 1, 0, 1, 2, 2, 0, 1, 0, 1, 3, 3, 2, 4, 0, 1, 0, 1,
              5>>, 6) BY DEF Table
  <2> QED BY <2>1, BusyPose DEF Stage!RabbitBusy
<1>4. Stage!RabbitAttention(t) \in Pictures
  <2>1. 1 \in Int /\ -4 \in Int /\ 4 \in Int OBVIOUS
  <2> QED BY <2>1, AttentionPose, Zenon DEF Stage!RabbitAttention
<1>5. Stage!RabbitCelebrate(t) \in Pictures
  <2>1. /\ 6 \in Nat /\ 11 \in Nat /\ 22 \in Nat \ {0} /\ 36 \in Nat
        /\ 14 \in Nat /\ 6 \in Nat /\ 20 \in 0..44
    OBVIOUS
  <2>2. Stage!Confetti(t, 6, 11, 22, 36, 14, 6, 20) \in SUBSET Cells
    BY <2>1, ConfettiFine, Zenon
  <2>3. /\ <<0, -4, -8, -4, 0, 0, 0, 0, 0, 0, -4, -8, -4, 0, 0, 0>> \in
              Seq(-12..12)
        /\ Len(<<0, -4, -8, -4, 0, 0, 0, 0, 0, 0, -4, -8, -4, 0, 0, 0>>) = 16
    OBVIOUS
  <2> QED BY <2>2, <2>3, JumpPose DEF Stage!RabbitCelebrate
<1>6. Stage!RabbitDizzy(t) \in Pictures
  BY DizzyPose, StarsFine DEF Stage!RabbitDizzy
<1>7. Stage!RabbitHeart(t) \in Pictures
  BY HeartPose DEF Stage!RabbitHeart
<1> QED BY <1>1, <1>2, <1>3, <1>4, <1>5, <1>6, <1>7
           DEF Stage!RabbitStates, Stage!Personas

LEMMA MushroomFine ==
  ASSUME NEW t \in Nat, NEW persona \in Stage!Personas
  PROVE  Stage!MushroomStates(persona, t) \in Pictures
<1>1. Stage!MushroomSleep(t) \in Pictures
  <2> DEFINE p1 == t % 10
             p2 == (t + 4) % 10
             p3 == (t + 7) % 10
  <2>1. Table(<<0, 1, 0, 1, 0, 1, 2, 1, 0, 1, 0, 1, 3, 4, 3, 4, 3, 4, 3, 3, 1,
              5, 1, 1>>, 6) BY DEF Table
  <2>2. p1 \in 0..9 /\ p2 \in 0..9 /\ p3 \in 0..9 OBVIOUS
  <2> HIDE DEF p1, p2, p3
  <2>3. /\ Stage!Over(20 + p1, 18 - p1 * 2) \in Cells
        /\ Stage!Over(26 + p2, 14 - p2) \in Cells
        /\ Stage!Over(16 + p3 \div 2, 10 - p3 \div 2) \in Cells
    BY <2>2, OverFine
  <2> QED BY <2>1, <2>3, SleepPose DEF Stage!MushroomSleep, p1, p2, p3
<1>2. Stage!MushroomIdle(t) \in Pictures
  <2>1. Table(<<0, 0, 0, 1, 0, 2, 0, 4, 0, 5, 0, 0, 6, 7, 6, 7, 0, 0, 3, 3, 0,
              4, 8, 8, 0, 0, 9, 9, 0, 0>>, 10) BY DEF Table
  <2> QED BY <2>1, IdlePose DEF Stage!MushroomIdle
<1>3. Stage!MushroomBusy(t) \in Pictures
  <2>1. Table(<<0, 1, 0, 1, 0, 1, 2, 2, 0, 1, 0, 1, 3, 3, 2, 4, 0, 1, 0, 1,
              5>>, 6) BY DEF Table
  <2> QED BY <2>1, BusyPose DEF Stage!MushroomBusy
<1>4. Stage!MushroomAttention(t) \in Pictures
  <2>1. 1 \in Int /\ -4 \in Int /\ 4 \in Int OBVIOUS
  <2> QED BY <2>1, AttentionPose, Zenon DEF Stage!MushroomAttention
<1>5. Stage!MushroomCelebrate(t) \in Pictures
  BY CelebratePose DEF Stage!MushroomCelebrate
<1>6. Stage!MushroomDizzy(t) \in Pictures
  BY DizzyPose, StarsFine DEF Stage!MushroomDizzy
<1>7. Stage!MushroomHeart(t) \in Pictures
  BY HeartPose DEF Stage!MushroomHeart
<1> QED BY <1>1, <1>2, <1>3, <1>4, <1>5, <1>6, <1>7
           DEF Stage!MushroomStates, Stage!Personas

LEMMA ChonkFine ==
  ASSUME NEW t \in Nat, NEW persona \in Stage!Personas
  PROVE  Stage!ChonkStates(persona, t) \in Pictures
<1>1. Stage!ChonkSleep(t) \in Pictures
  <2> DEFINE p1 == t % 12
             p2 == (t + 5) % 12
             p3 == (t + 9) % 12
  <2>1. Table(<<0, 0, 0, 1, 2, 1, 2, 1, 2, 1, 2, 3, 3, 1, 2, 1, 2, 1, 2, 5, 4,
              5, 4, 0, 0, 1, 2, 3, 2>>, 6) BY DEF Table
  <2>2. p1 \in 0..11 /\ p2 \in 0..11 /\ p3 \in 0..11 OBVIOUS
  <2> HIDE DEF p1, p2, p3
  <2>3. /\ Stage!Over(18 + p1, 20 - p1 * 2) \in Cells
        /\ Stage!Over(24 + p2, 16 - p2) \in Cells
        /\ Stage!Over(30 + p3 \div 2, 12 - p3 \div 2) \in Cells
    BY <2>2, OverFine
  <2>4. {Stage!Over(18 + p1, 20 - p1 * 2), Stage!Over(24 + p2, 16 - p2),
        Stage!Over(30 + p3 \div 2, 12 - p3 \div 2)} \in SUBSET Cells BY <2>3
  <2> QED BY <2>1, <2>4, StillFine, NoddingFine, DrawFine DEF Stage!ChonkSleep, p1, p2, p3
<1>2. Stage!ChonkIdle(t) \in Pictures
  <2>1. Table(<<0, 0, 0, 4, 0, 1, 1, 0, 2, 2, 0, 4, 5, 0, 6, 0, 0, 3, 3, 0, 7,
              8, 7, 8, 0, 0, 4, 0, 9, 9, 0, 0, 0, 5, 6, 0>>, 10) BY DEF Table
  <2> QED BY <2>1, IdlePose DEF Stage!ChonkIdle
<1>3. Stage!ChonkBusy(t) \in Pictures
  <2>1. Table(<<1, 2, 1, 2, 1, 2, 0, 0, 1, 2, 1, 2, 3, 3, 3, 4, 4, 1, 2, 1, 2,
              5, 5>>, 6) BY DEF Table
  <2>3. /\ Stage!Wide(Stage!Over(24, 12)) \in Cells
        /\ Stage!Wide(Stage!Over(30, 18)) \in Cells
    BY OverFine
  <2>4. {Stage!Wide(Stage!Over(24, 12)), Stage!Wide(Stage!Over(30, 18))} \in SUBSET Cells BY <2>3
  <2> QED BY <2>1, <2>4, LoosePose DEF Stage!ChonkBusy
<1>4. Stage!ChonkAttention(t) \in Pictures
  <2> DEFINE seq == <<0, 4, 0, 1, 0, 2, 0, 3, 4, 4, 0, 1, 2, 0, 5, 0>>
  <2>1. Table(seq, 6) BY DEF Table
  <2> HIDE DEF seq
  <2> DEFINE f == Stage!Shaken(Stage!Frame(6, 5, t, seq, Stage!Still,
                                       Stage!Still), t, 4, 2)
  <2>2. f \in Pictures BY <2>1, ShakenStill
  <2>4. /\ Stage!Over(-6, 0) \in Cells
        /\ Stage!Over(6, 4) \in Cells
        /\ Stage!Over(-14, 6) \in Cells
    BY OverFine
  <2> DEFINE c1 == Stage!When(Stage!Odd(t \div 2), {Stage!Over(-6, 0)})
             c2 == Stage!When(Stage!Odd(t \div 3), {Stage!Over(6, 4)})
             c3 == Stage!When(Stage!Odd(t \div 4), {Stage!Over(-14, 6)})
  <2>5. c1 \cup c2 \cup c3 \in SUBSET Cells BY <2>4 DEF Stage!When
  <2> HIDE DEF f, c1, c2, c3
  <2>6. Stage!Draw(f, c1 \cup c2 \cup c3) \in Pictures BY <2>2, <2>5, DrawFine
  <2> QED BY <2>6 DEF Stage!ChonkAttention, seq, f, c1, c2, c3
<1>5. Stage!ChonkCelebrate(t) \in Pictures
  <2>1. /\ 7 \in Nat /\ 9 \in Nat /\ 24 \in Nat \ {0} /\ 42 \in Nat
        /\ 14 \in Nat /\ 8 \in Nat /\ 22 \in 0..44
    OBVIOUS
  <2>2. Stage!Confetti(t, 7, 9, 24, 42, 14, 8, 22) \in SUBSET Cells
    BY <2>1, ConfettiFine, Zenon
  <2>3. /\ <<0, -3, -7, -3, 0, 0, 0, 0, 0, 0, -3, -7, -3, 0, 0, 0>> \in
              Seq(-12..12)
        /\ Len(<<0, -3, -7, -3, 0, 0, 0, 0, 0, 0, -3, -7, -3, 0, 0, 0>>) = 16
    OBVIOUS
  <2> QED BY <2>2, <2>3, JumpPose DEF Stage!ChonkCelebrate
<1>6. Stage!ChonkDizzy(t) \in Pictures
  <2> DEFINE xs == <<-4, 4, -4, 4, 0, 0, -4, 4, -4, 4, 0, 0, 0, 0>>
  <2>1. xs \in Seq(-12..12) /\ Len(xs) = 14 OBVIOUS
  <2> HIDE DEF xs
  <2>2. Len(Stage!SwaySeq) = 14 BY DEF Stage!SwaySeq
  <2>3. Moves(xs, Stage!SwaySeq) BY <2>1, <2>2 DEF Moves
  <2>4. Stage!Frame(5, 4, t, Stage!SwaySeq, xs, Stage!Still) \in Pictures
    BY <2>3, SwayTable, FrameFine
  <2>5. Stage!WideStars(t, {0, 3, 5}, 6) \in SUBSET Cells BY StarsFine
  <2> QED BY <2>4, <2>5, DrawFine DEF Stage!ChonkDizzy, xs
<1>7. Stage!ChonkHeart(t) \in Pictures
  <2> DEFINE seq == <<0, 0, 1, 0, 2, 2, 0, 1, 0, 4, 0, 0, 3, 3, 0, 1, 0, 2, 5,
                    5, 0, 1, 0>>
             ys == <<0, -1, 0, -1, 0, -1, 0, -1, 0, 0, -1, 0, 0, 0, -1, 0, -1,
                   0, 0, -1, 0, -1, 0>>
  <2>1. Table(seq, 6) BY DEF Table
  <2>2. ys \in Seq(-12..12) /\ Len(ys) = Len(seq) OBVIOUS
  <2> HIDE DEF seq, ys
  <2>3. Moves(ys, seq) /\ Moves(Stage!Still, seq) BY <2>2 DEF Moves
  <2>4. Stage!Frame(6, 5, t, seq, Stage!Still, ys) \in Pictures
    BY <2>1, <2>3, FrameFine
  <2>7. Stage!Hearts(t, 6, 3, 18, 22) \in SUBSET Cells BY HeartsFine
  <2>8. Stage!Hearts(t, 6, 3, 18, 22) \in SUBSET Cells
    BY <2>7
  <2> QED BY <2>4, <2>8, DrawFine DEF Stage!ChonkHeart, seq, ys
<1> QED BY <1>1, <1>2, <1>3, <1>4, <1>5, <1>6, <1>7
           DEF Stage!ChonkStates, Stage!Personas

------------------------------------------------------------------------------
\* The states of a pet, and all pets.
LEMMA PictureFine ==
  ASSUME NEW species \in {Stage!Species[i] : i \in 1..18},
         NEW persona \in Stage!Personas, NEW t \in Nat
  PROVE  Stage!Picture(species, persona, t) \in Pictures
<1>1. species \in {"capybara", "duck", "goose", "blob", "cat", "dragon",
        "octopus", "owl", "penguin", "turtle", "snail", "ghost", "axolotl",
        "cactus", "robot", "rabbit", "mushroom", "chonk"}
  BY DEF Stage!Species
<1> QED
  BY <1>1, CapybaraFine, DuckFine, GooseFine, BlobFine, CatFine, DragonFine,
     OctopusFine, OwlFine, PenguinFine, TurtleFine, SnailFine, GhostFine,
     AxolotlFine, CactusFine, RobotFine, RabbitFine, MushroomFine, ChonkFine,
     Zenon DEF Stage!Picture

------------------------------------------------------------------------------
\* The pet among the parts of the device.

\* A drawing, at the scale it was made at.
Drawings ==
  [species : {Stage!Species[i] : i \in 1..18}, persona : Stage!Personas,
   tick : Nat, scale : {1, 2}]

\* What is on the sprite is of the scale that the next drawing is cleared for.
StageInv ==
  /\ trail = {} /\ tickCount \in Nat /\ currentSpecies \in 1..18
  /\ scale \in {1, 2} /\ face \in BOOLEAN
  /\ \/ shown = Stage!NoPet
     \/ shown \in Drawings /\ shown.scale = IF face THEN 1 ELSE scale

LEMMA NumberOfSpecies == Len(Stage!Species) = 18
BY DEF Stage!Species

LEMMA InkCleared ==
  ASSUME NEW d \in Drawings, NEW part1 \in Stage!Ink(d)
  PROVE  /\ Stage!Inside(part1, Stage!ClearStrip(d.scale))
         /\ d.scale = 1 => Stage!Inside(part1, Stage!FacePet)
<1> DEFINE p == Stage!Picture(d.species, d.persona, d.tick)
           s == d.scale
<1>1. p \in Pictures /\ s \in {1, 2} BY PictureFine DEF Drawings
<1>2. d # Stage!NoPet BY DEF Drawings, Stage!NoPet, Stage!Personas
<1>3. part1 \in {Stage!PrintSprite(p, s)}
                 \cup {Stage!PrintAt(cell, s) : cell \in p.ink}
  BY <1>2 DEF Stage!Ink
<1> HIDE DEF p, s
<1>4. ASSUME NEW x \in Int, NEW y \in Int, NEW w \in Int, NEW h \in Int,
             y + h <= 82 * s
      PROVE  /\ Stage!Inside(Stage!Clipped(x, y, w, h), Stage!ClearStrip(s))
             /\ s = 1 =>
                  Stage!Inside(Stage!Clipped(x, y, w, h), Stage!FacePet)
  BY <1>1, <1>4 DEF Stage!Inside, Stage!Clipped, Stage!ClearStrip,
     Stage!FacePet, Stage!CanvasW, Stage!CanvasH, Stage!YBase, Stage!CharH
<1>5. CASE part1 = Stage!PrintSprite(p, s)
  <2>1. p.dx \in Int /\ p.dy \in Int /\ p.dy <= 12
    BY <1>1 DEF Pictures, Lifts
  <2> DEFINE x == 67 + (p.dx - 36) * s
             y == 30 * s - (s - 1) * 14 + p.dy * s
             w == 72 * s
             h == 40 * s
  <2>2. part1 = Stage!Clipped(x, y, w, h)
    BY <1>5, <1>1 DEF Stage!PrintSprite, Stage!XCenter, Stage!YBase,
       Stage!CharW, Stage!CharH
  <2>3. x \in Int /\ y \in Int /\ w \in Int /\ h \in Int /\ y + h <= 82 * s
    BY <1>1, <2>1
  <2> HIDE DEF x, y, w, h
  <2>4. /\ Stage!Inside(part1, Stage!ClearStrip(s))
        /\ s = 1 => Stage!Inside(part1, Stage!FacePet)
    BY <1>4, <2>2, <2>3
  <2> QED BY <2>4 DEF s
<1>6. CASE part1 \in {Stage!PrintAt(cell, s) : cell \in p.ink}
  <2>1. PICK cell \in p.ink : part1 = Stage!PrintAt(cell, s) BY <1>6
  <2>2. cell \in Cells BY <1>1 DEF Pictures
  <2>3. /\ cell[1] \in Int /\ cell[2] \in Int /\ cell[3] \in Int
        /\ cell[2] <= 74
    BY <2>2 DEF Cells
  <2> DEFINE x == 67 + (cell[1] - 67) * s
             y == cell[2] * s
             w == cell[3] * 6 * s
             h == 8 * s
  <2>4. part1 = Stage!Clipped(x, y, w, h)
    BY <2>1, <1>1, <2>3 DEF Stage!PrintAt, Stage!XCenter, Stage!CharW,
       Stage!CharH
  <2>5. x \in Int /\ y \in Int /\ w \in Int /\ h \in Int /\ y + h <= 82 * s
    BY <1>1, <2>3
  <2> HIDE DEF x, y, w, h
  <2>6. /\ Stage!Inside(part1, Stage!ClearStrip(s))
        /\ s = 1 => Stage!Inside(part1, Stage!FacePet)
    BY <1>4, <2>4, <2>5
  <2> QED BY <2>6 DEF s
<1> QED BY <1>3, <1>5, <1>6

LEMMA RenderKeeps ==
  ASSUME StageInv, NEW region, NEW s \in {1, 2}, NEW persona \in Stage!Personas,
         NEW t \in Nat, Stage!Render(region, s, persona, t),
         s = (IF face THEN 1 ELSE scale),
         region = IF face THEN Stage!FacePet ELSE Stage!ClearStrip(scale),
         UNCHANGED <<currentSpecies, scale, face>>
  PROVE  StageInv'
<1>1. ASSUME NEW part1 \in Stage!Ink(shown)
      PROVE  Stage!Inside(part1, region)
  <2>1. shown # Stage!NoPet BY <1>1 DEF Stage!Ink
  <2>2. shown \in Drawings /\ shown.scale = s BY <2>1 DEF StageInv
  <2>3. /\ Stage!Inside(part1, Stage!ClearStrip(s))
        /\ s = 1 => Stage!Inside(part1, Stage!FacePet)
    BY <1>1, <2>2, InkCleared
  <2> QED BY <2>3
<1>2. trail' = {}
  <2>1. trail = {} BY DEF StageInv
  <2>2. trail' = {part1 \in Stage!Ink(shown) : ~Stage!Inside(part1, region)}
    BY <2>1 DEF Stage!Render
  <2> QED BY <1>1, <2>2
<1>3. shown' \in Drawings /\ shown'.scale = s /\ tickCount' = t
  <2>1. Stage!Species[currentSpecies] \in {Stage!Species[i] : i \in 1..18}
    BY DEF StageInv
  <2> QED BY <2>1 DEF Stage!Render, Drawings
<1> QED BY <1>2, <1>3 DEF StageInv

LEMMA Ticking ==
  ASSUME tickCount \in Nat, NEW ticked
  PROVE  (IF ticked THEN Stage!NextTick ELSE tickCount) \in Nat
<1>1. Ticks \in Nat \ {0} BY PartsAssumption
<1> QED BY <1>1 DEF Stage!NextTick

LEMMA StageStep ==
  ASSUME StageInv, Stage!Next
  PROVE  StageInv'
<1>1. ASSUME NEW ticked \in BOOLEAN, NEW persona \in Stage!ActiveStates,
             Stage!BuddyTick(ticked, persona) \/ Stage!RenderTo(ticked, persona)
      PROVE  StageInv'
  <2>1. persona \in Stage!Personas
    BY DEF StageInv, Stage!ActiveStates, Drawings
  <2> DEFINE t == IF ticked THEN Stage!NextTick ELSE tickCount
  <2>2. t \in Nat BY Ticking DEF StageInv
  <2>3. CASE Stage!BuddyTick(ticked, persona)
    <3>1. /\ ~face /\ Stage!Render(Stage!ClearStrip(scale), scale, persona, t)
          /\ UNCHANGED <<currentSpecies, scale, face>>
      BY <2>3, Zenon DEF Stage!BuddyTick
    <3>2. scale \in {1, 2} BY DEF StageInv
    <3> HIDE DEF t
    <3> QED BY <2>1, <2>2, <3>1, <3>2, RenderKeeps
  <2>4. CASE Stage!RenderTo(ticked, persona)
    <3>1. /\ face /\ Stage!Render(Stage!FacePet, 1, persona, t)
          /\ UNCHANGED <<currentSpecies, scale, face>>
      BY <2>4, Zenon DEF Stage!RenderTo
    <3> HIDE DEF t
    <3> QED BY <2>1, <2>2, <3>1, RenderKeeps
  <2> QED BY <1>1, <2>3, <2>4
<1>2. ASSUME NEW peek \in BOOLEAN, Stage!SetPeek(peek)
      PROVE  StageInv'
  BY <1>2 DEF Stage!SetPeek, StageInv
<1>3. CASE Stage!EnterFace
  BY <1>3 DEF Stage!EnterFace, StageInv
<1>4. CASE Stage!NextSpecies
  <2>1. (currentSpecies % 18) + 1 \in 1..18 BY DEF StageInv
  <2> QED BY <1>4, <2>1, NumberOfSpecies DEF Stage!NextSpecies, StageInv
<1> QED BY <1>1, <1>2, <1>3, <1>4 DEF Stage!Next

LEMMA StageStart ==
  ASSUME Stage!Init
  PROVE  StageInv
BY NumberOfSpecies DEF Stage!Init, StageInv

PetInv == part = "pet" => StageInv

LEMMA PetStay ==
  ASSUME PetInv, [Next]_vars
  PROVE  PetInv'
<1> SUFFICES ASSUME part' = "pet"
             PROVE  StageInv'
  BY DEF PetInv
<1>1. part = "pet" BY DEF Next, vars
<1>2. StageInv BY <1>1 DEF PetInv
<1>3. CASE Next
  <2>1. Stage!Next BY <1>1, <1>3 DEF Next
  <2> QED BY <1>2, <2>1, StageStep
<1>4. CASE UNCHANGED vars
  BY <1>2, <1>4 DEF vars, stageVars, StageInv
<1> QED BY <1>3, <1>4

LEMMA PetClean ==
  ASSUME PetInv
  PROVE  PetLeavesNoTrail
<1> SUFFICES ASSUME part = "pet"
             PROVE  Stage!PetLeavesNoTrail
  BY DEF PetLeavesNoTrail
<1>1. StageInv BY DEF PetInv
<1>2. ASSUME shown # Stage!NoPet
      PROVE  Stage!Picture(shown.species, shown.persona, shown.tick).inTables
  <2>1. shown \in Drawings BY <1>1, <1>2 DEF StageInv
  <2>2. Stage!Picture(shown.species, shown.persona, shown.tick) \in Pictures
    BY <2>1, PictureFine DEF Drawings
  <2> DEFINE p == Stage!Picture(shown.species, shown.persona, shown.tick)
  <2> HIDE DEF p
  <2>3. p.inTables = TRUE BY <2>2 DEF Pictures, p
  <2>4. p.inTables BY <2>3
  <2> QED BY <2>4 DEF p
<1>3. trail = {} BY <1>1 DEF StageInv
<1> QED BY <1>2, <1>3, Zenon DEF Stage!PetLeavesNoTrail

\* Whatever the pet does, on whichever screen and at whichever scale, the next
\* drawing clears all of it, and no drawing reads a table past its end, on any
\* tick (buddy.cpp, buddyRenderTo, and the drawings of buddies/*.cpp).
THEOREM NoTrailIsLeft == Spec => []PetLeavesNoTrail
<1>1. Init => PetInv
  BY StageStart DEF Init, PetInv
<1>2. PetInv /\ [Next]_vars => PetInv' BY PetStay
<1>3. PetInv => PetLeavesNoTrail BY PetClean
<1> QED BY <1>1, <1>2, <1>3, PTL DEF Spec
=============================================================================
