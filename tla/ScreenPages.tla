---------------------------- MODULE ScreenPages ----------------------------
\* Where the screens of main.cpp put what they draw.  A page is the name of a
\* screen and what the place of its lines depends on: how many cells its texts
\* take, as many as they are clipped to, and how high their font is.  A page
\* is drawn as sheets: a frame and the boxes that it holds, in the order in
\* which they are drawn.  Colours and wording are left out.
EXTENDS Integers, Sequences

CONSTANTS
  NameCells,      \* pairs: the cells of the owner's and of the pet's name
  SsidCells,      \* the cells of a network's name
  VersionCells,   \* the cells of the version of an update
  ToolCells,      \* pairs: the cells of a tool's name and its font's height
  HintRows        \* numbers of rows that a hint is wrapped into

AtMost(limit, n) == IF n > limit THEN limit ELSE n

Box(x, y, w, h) == [x |-> x, y |-> y, w |-> w, h |-> h]
Written(x, y, cells, height) == Box(x, y, 6 * cells, height)
Text(x, y, cells) == Written(x, y, cells, 8)
Large(x, y, cells) == Box(x, y, 12 * cells, 16)
Centred(w, h) == Box((135 - w) \div 2, (240 - h) \div 2, w, h)
Sheet(frame, lines) == [frame |-> frame, lines |-> lines]

Portrait == Box(0, 0, 135, 240)
Landscape == Box(0, 0, 240, 135)

\* Lines below each other: how far each one is below the last, its cells and
\* how much room it takes.
Stacked(x, y, rows) ==
  LET top[i \in 1..Len(rows)] ==
        IF i = 1 THEN y + rows[1][1]
        ELSE top[i - 1] + rows[i - 1][3] + rows[i][1]
  IN  [i \in 1..Len(rows) |-> Written(x, top[i], rows[i][2], rows[i][3])]
Plain(gap, cells) == <<gap, cells, 8>>
Wide(gap, cells) == <<gap, cells, 13>>

------------------------------------------------------------------------------
\* The line at the foot of a panel: what the two keys do, each with its arrow.
Hint(x, y, cells) ==
  IF cells = 0 THEN << >>
  ELSE <<Text(x, y, cells), Box(x + 6 * cells + 4, y, 6, 7)>>
MenuHints(panel, down, right) ==
  LET y == panel.y + panel.h - 12
  IN  <<Box(panel.x + 6, y - 4, panel.w - 12, 1)>>
      \o Hint(panel.x + 8, y, down)
      \o Hint(panel.x + panel.w \div 2 + 4, y, right)

\* A menu of rows, "> " and a label, some with a value at the right.
Rows(panel, labels) ==
  [i \in 1..Len(labels) |->
     Text(panel.x + 6, panel.y + 8 + 14 * (i - 1), 2 + labels[i])]
Panel(panel, lines) ==
  {Sheet(panel, lines), Sheet(Portrait, <<panel>>)}

Menu ==
  LET panel == Centred(118, 16 + 6 * 14 + 14)
  IN  Panel(panel, Rows(panel, <<8, 8, 4, 5, 4 + 5, 5>>)
                   \o MenuHints(panel, 1, 1))
Reset ==
  LET panel == Centred(118, 16 + 3 * 14 + 14)
  IN  Panel(panel, Rows(panel, <<11, 13, 4>>) \o MenuHints(panel, 1, 1))

\* A value takes the columns from the 82nd on.
SettingsLabels == <<10, 5, 9, 4, 3, 9, 9, 8, 10, 5, 4>>
SettingsValues == <<3, 3, 3, 3, 3, 4, 5, 3>>
Settings ==
  LET panel == Centred(118, 16 + 11 * 14 + 14)
      value(i) == Text(panel.x + panel.w - 36, panel.y + 8 + 14 * (i - 1),
                       SettingsValues[i])
  IN  Panel(panel, Rows(panel, SettingsLabels)
                   \o [i \in 1..Len(SettingsValues) |-> value(i)]
                   \o MenuHints(panel, 4, 6))

WifiMenu(provisioned) ==
  LET labels == IF provisioned THEN <<6, 11, 11, 4>> ELSE <<5, 4>>
      panel == Centred(118, 28 + Len(labels) * 18 + 14)
  IN  Panel(panel,
        <<Text(panel.x + 7, panel.y + 8, 5)>>
        \o [i \in 1..Len(labels) |->
              Text(panel.x + 7, panel.y + 26 + 18 * (i - 1), 2 + labels[i])]
        \o MenuHints(panel, 4, 6))

\* The state of the Wi-Fi: the hot spot, the network with its address, the
\* network that is out of reach, or a message.
WifiStatus(state, ssid) ==
  LET panel == Centred(124, 128)
      row(y, cells) == Text(panel.x + 7, panel.y + y, cells)
      network == row(44, 6 + AtMost(18, ssid))
      body ==
        CASE state = 1 -> <<row(25, 13), row(38, 14), row(55, 9),
                            row(68, 12), row(85, 18)>>
          [] state = 2 -> <<row(27, 9), network, row(61, 13), row(78, 19)>>
          [] state = 3 -> <<row(27, 18), network, row(61, 7), row(78, 5)>>
          [] state = 4 -> <<row(31, 18)>>
  IN  Panel(panel, <<row(8, 5)>> \o body
                   \o MenuHints(panel, 0, IF state = 1 THEN 6 ELSE 4))

------------------------------------------------------------------------------
\* The screen of the update: what it asks for, what it downloads, or how an
\* offer is made.
ReceiveWindow(state, version) ==
  LET panel == Centred(124, 124)
      row(y, cells) == Text(panel.x + 7, panel.y + y, cells)
      named == IF version = 0 THEN << >>
               ELSE <<row(45, 9 + AtMost(12, version))>>
      sized == <<row(57, 6 + 9)>>
  IN  Panel(panel,
        IF state = 3
        THEN <<row(9, 9), row(30, 16), row(47, 10), row(60, 15), row(78, 12),
               row(94, 16)>> \o MenuHints(panel, 0, 6)
        ELSE <<row(9, 10), row(29, 18)>> \o named \o sized
             \o (IF state = 2
                 THEN <<Box(panel.x + 7, panel.y + 72, 110, 8), row(84, 4)>>
                 ELSE <<row(72, 17)>>)
             \o MenuHints(panel, IF state = 1 THEN 7 ELSE 0, 6))

\* The update in a corner of another screen: its version, how far it is, what
\* it does and a bar.
CompactOverlay(landscape, version, percent) ==
  LET box == IF landscape THEN Box(40, 45, 160, 44) ELSE Box(8, 94, 119, 52)
      named == IF version = 0 THEN 3 ELSE 4 + AtMost(12, version)
  IN  {Sheet(IF landscape THEN Landscape ELSE Portrait, <<box>>),
       Sheet(box,
         <<Text(box.x + 7, box.y + 5, named),
           Text(box.x + box.w - 7 - 6 * percent, box.y + 5, percent),
           Text(box.x + 7, box.y + 18, IF landscape THEN 24 ELSE 17),
           Box(box.x + 7, box.y + box.h - 10, box.w - 14, 6)>>)}

------------------------------------------------------------------------------
\* The pages of information: a title with its number, a section and lines
\* that are clipped to 20 cells.
InfoHeader(section) ==
  <<Text(4, 72, 4), Text(135 - 28, 72, 3), Text(4, 84, section)>>
InfoBody == Box(0, 70, 135, 170)
Info(section, rows) ==
  {Sheet(InfoBody, InfoHeader(section) \o Stacked(4, 96, rows))}

About ==
  Info(5, <<Plain(0, 18), Plain(0, 17), Plain(6, 20), Plain(0, 20),
            Plain(0, 18), Plain(0, 18), Plain(0, 18), Plain(6, 19),
            Plain(0, 20), Plain(6, 20), Plain(0, 20)>>)
Buttons ==
  Info(7, <<Plain(0, 9), Plain(0, 15), Plain(0, 18), Plain(4, 14),
            Plain(0, 13), Plain(0, 15), Plain(4, 6), Plain(0, 8),
            Plain(4, 16), Plain(0, 20), Plain(0, 17)>>)
Codex ==
  Info(5, <<Plain(0, 15), Plain(0, 15), Plain(0, 15), Plain(8, 4),
            Plain(0, 20), Plain(0, 20), Plain(0, 20), Plain(0, 20)>>)
Device(owner, height) ==
  {Sheet(InfoBody,
     InfoHeader(6) \o <<Large(4, 96, 4), Text(60, 100, 8)>>
     \o Stacked(4, 116,
          <<Plain(0, 16), Plain(0, 18), Plain(0, 16), Plain(8, 6)>>
          \o (IF owner = 0 THEN << >>
              ELSE <<(IF height = 8 THEN Plain(0, AtMost(20, 11 + owner))
                      ELSE Wide(0, 20))>>)
          \o <<Plain(0, 20), Plain(0, 18), Plain(0, 14), Plain(0, 19),
               Plain(0, 14)>>))}
Bluetooth(linked) ==
  {Sheet(InfoBody,
     InfoHeader(9) \o <<Large(4, 96, IF linked THEN 6 ELSE 8)>>
     \o Stacked(4, 116,
          <<Plain(0, 20), Plain(0, 19)>>
          \o (IF linked THEN <<Plain(8, 20)>>
              ELSE <<Plain(8, 7), Plain(0, 11), Plain(4, 14),
                     Plain(0, 10)>>)))}
Credits ==
  Info(7, <<Plain(0, 7), Plain(4, 7), Plain(12, 6), Plain(4, 11),
            Plain(0, 13), Plain(12, 8), Plain(4, 10), Plain(0, 16)>>)

------------------------------------------------------------------------------
\* The pages of the pet, with the names of both as their title.
PetHeader(owner, pet) ==
  <<Text(4, 72, IF owner = 0 THEN pet ELSE owner + 3 + pet),
    Text(135 - 28, 72, 3)>>
Hearts == [i \in 1..4 |-> Box(54 + 16 * (i - 1) - 4, 86, 9, 8)]
FedDots == [i \in 1..10 |-> Box(38 + 9 * (i - 1) - 2, 105, 5, 5)]
EnergyBars == [i \in 1..5 |-> Box(54 + 13 * (i - 1), 124, 9, 6)]
LevelBox == Box(6, 148, 42, 14)
PetStats(owner, pet) ==
  {Sheet(InfoBody,
     PetHeader(owner, pet)
     \o <<Text(6, 84, 4)>> \o Hearts \o <<Text(6, 104, 3)>> \o FedDots
     \o <<Text(6, 124, 6)>> \o EnergyBars \o <<LevelBox>>
     \o <<Text(6, 170, 14), Text(6, 180, 14), Text(6, 190, 20),
          Text(6, 200, 16), Text(6, 210, 16)>>),
   Sheet(LevelBox, <<Text(11, 151, 6)>>)}
HowToRow(gap, cells) == <<gap, cells, 9>>
PetHowTo(owner, pet) ==
  {Sheet(InfoBody,
     PetHeader(owner, pet)
     \o Stacked(6, 84,
          <<HowToRow(0, 4), HowToRow(0, 18), HowToRow(0, 17), HowToRow(4, 3),
            HowToRow(0, 13), HowToRow(0, 20), HowToRow(4, 6),
            HowToRow(0, 17), HowToRow(0, 16), HowToRow(4, 14),
            HowToRow(0, 17), HowToRow(4, 19), HowToRow(0, 12)>>))}

\* The greeting of a start: "<owner>'s" and the pet's name, in large letters
\* about the middle.
Greeting(owner, pet) ==
  LET line(y, cells) == Large(67 - 6 * cells, y - 8, cells)
  IN  {Sheet(Portrait,
         IF owner = 0
         THEN <<line(108, 6), Text(67 - 45, 128, 15)>>
         ELSE <<line(108, owner + 2), line(132, pet)>>)}

\* The key to pair with, and the character that is being installed.
Passkey ==
  {Sheet(Portrait, <<Text(8, 56, 17), Text(8, 184, 17),
                     Box((135 - 18 * 6) \div 2, 110, 18 * 6, 24)>>)}
Installing ==
  {Sheet(Portrait, <<Text(8, 90, 10), Text(8, 102, 15),
                     Box(8, 116, 135 - 16, 8)>>)}

------------------------------------------------------------------------------
\* A prompt: how long it waits, the tool, rows of the hint, and at the foot
\* what the keys answer, above the meter.
ApprovalArea(landscape) ==
  IF landscape THEN Box(0, 47, 240, 88) ELSE Box(0, 156, 135, 84)
Footer(inset) == 228 - AtMost(16, inset)
LandscapeFooter(inset) == 135 - 12 - AtMost(16, inset)
MaxHintRows(inset) == IF AtMost(16, inset) <= 6 THEN 2 ELSE 1
ToolLine(cells, height) ==
  CASE height > 8 -> Written(4, 174, AtMost(14, cells), 12)
    [] height = 8 /\ cells <= 10 -> Large(4, 170, cells)
    [] height = 8 /\ cells > 10 -> Text(4, 174, AtMost(20, cells))
Approval(tool, rows, inset) ==
  {Sheet(ApprovalArea(FALSE),
     <<Text(4, 160, 20), ToolLine(tool[1], tool[2])>>
     \o [i \in 1..AtMost(MaxHintRows(inset), rows) |->
           Written(4, 194 + 12 * (i - 1), 20, 12)]
     \o <<Text(4, Footer(inset), 10), Text(135 - 48, Footer(inset), 7)>>)}
LandscapeApproval(tool, rows, inset) ==
  {Sheet(ApprovalArea(TRUE),
     <<Text(4, 51, 20),
       Written(4, 65, AtMost(IF tool[2] > 8 THEN 24 ELSE 32, tool[1]),
               tool[2])>>
     \o [i \in 1..AtMost(2, rows) |->
           Written(4, 81 + 12 * (i - 1), 36, 12)]
     \o <<Text(4, LandscapeFooter(inset), 10),
          Text(240 - 52, LandscapeFooter(inset), 7)>>)}

\* The shared face, with the pet above the time and the date.
Face ==
  {Sheet(Portrait, <<Box(0, 0, 135, 90), Box(3, 154, 5 * 16, 36),
                     Box(83, 154, 3 * 16, 36), Box(67 - 30, 197, 60, 21)>>)}

\* The dashboard, the face in landscape: the status, the heartbeat, the time
\* with its seconds and four cells, the date and three cards.
StatusArea == Box(0, 0, 120, 18)
TimeArea == Box(4, 34, 160, 40)
DateArea == Box(4, 79, 160, 14)
Card(i) == Box(172, <<34, 57, 79>>[i], 64, 14)
Status == Sheet(StatusArea, <<Box(4, 7, 8, 8), Box(16, 3, 7 * 8, 15)>>)
Time ==
  Sheet(TimeArea,
    <<Box(4, 34, 5 * 23, 40), Box(129, 46, 2 * 16, 28)>>
    \o [i \in 1..4 |-> Box(129 + 8 * (i - 1), 34, 8, 7)])
Date(weekday) ==
  LET right == 164 - 8 * weekday - 8
      line == IF right > 63 THEN <<Box(63, 86, right - 63, 1)>> ELSE << >>
  IN  Sheet(DateArea, <<Box(4, 79, 6 * 8, 14),
                        Box(164 - 8 * weekday, 79, 8 * weekday, 14)>> \o line)
Cards(digits) ==
  {Sheet(Card(i), <<Box(172, Card(i).y, 30, 14),
                    Box(219 - 4 * digits, Card(i).y, 8 * digits, 14)>>) :
     i \in 1..3}
Dashboard(weekday, digits) ==
  {Sheet(Landscape, <<StatusArea, Box(172, 4, 64, 14), TimeArea, DateArea,
                      Card(1), Card(2), Card(3)>>),
   Status, Time, Date(weekday)} \cup Cards(digits)

------------------------------------------------------------------------------
\* Every page, and the texts that may be on it.
Page(name, data) == [name |-> name, data |-> data]
Pages ==
  {Page(name, << >>) :
     name \in {"menu", "settings", "reset", "about", "buttons", "codex",
               "credits", "passkey", "installing", "face"}}
  \cup {Page(name, <<n>>) :
          name \in {"wifiMenu", "bluetooth"}, n \in {0, 1}}
  \cup {Page("wifiStatus", <<state, ssid>>) :
          state \in 1..4, ssid \in SsidCells}
  \cup {Page("receiveWindow", <<state, version>>) :
          state \in 1..3, version \in VersionCells}
  \cup {Page("overlay", <<landscape, version, percent>>) :
          landscape \in {0, 1}, version \in VersionCells, percent \in 2..4}
  \cup {Page("device", <<names[1], height>>) :
          names \in NameCells, height \in {8, 12}}
  \cup {Page(name, names) :
          name \in {"pet", "petHowTo", "greeting"}, names \in NameCells}
  \cup {Page(name, <<tool[1], tool[2], rows>>) :
          name \in {"approval", "landscapeApproval"}, tool \in ToolCells,
          rows \in HintRows}
  \cup {Page("dashboard", <<weekday, digits>>) :
          weekday \in {3, 6, 7, 8, 9}, digits \in 1..3}

Sheets(page, inset) ==
  LET d == page.data IN
  CASE page.name = "menu" -> Menu
    [] page.name = "settings" -> Settings
    [] page.name = "reset" -> Reset
    [] page.name = "about" -> About
    [] page.name = "buttons" -> Buttons
    [] page.name = "codex" -> Codex
    [] page.name = "credits" -> Credits
    [] page.name = "passkey" -> Passkey
    [] page.name = "installing" -> Installing
    [] page.name = "face" -> Face
    [] page.name = "wifiMenu" -> WifiMenu(d[1] = 1)
    [] page.name = "bluetooth" -> Bluetooth(d[1] = 1)
    [] page.name = "wifiStatus" -> WifiStatus(d[1], d[2])
    [] page.name = "receiveWindow" -> ReceiveWindow(d[1], d[2])
    [] page.name = "overlay" -> CompactOverlay(d[1] = 1, d[2], d[3])
    [] page.name = "device" -> Device(d[1], d[2])
    [] page.name = "pet" -> PetStats(d[1], d[2])
    [] page.name = "petHowTo" -> PetHowTo(d[1], d[2])
    [] page.name = "greeting" -> Greeting(d[1], d[2])
    [] page.name = "approval" -> Approval(<<d[1], d[2]>>, d[3], inset)
    [] page.name = "landscapeApproval" ->
         LandscapeApproval(<<d[1], d[2]>>, d[3], inset)
    [] page.name = "dashboard" -> Dashboard(d[1], d[2])

\* Nothing leaves its frame and nothing lies on something else.
Inside(box, frame) ==
  /\ box.x >= frame.x /\ box.x + box.w <= frame.x + frame.w
  /\ box.y >= frame.y /\ box.y + box.h <= frame.y + frame.h
Apart(a, b) ==
  \/ a.x + a.w <= b.x \/ b.x + b.w <= a.x
  \/ a.y + a.h <= b.y \/ b.y + b.h <= a.y
Tidy(sheet) ==
  /\ \A i \in DOMAIN sheet.lines : Inside(sheet.lines[i], sheet.frame)
  /\ \A i, j \in DOMAIN sheet.lines :
       i < j => Apart(sheet.lines[i], sheet.lines[j])

\* The longest texts that the screens have room for, where they do not clip
\* them to it.
Short(page) ==
  LET d == page.data IN
  CASE page.name \in {"pet", "petHowTo"} ->
         (IF d[1] = 0 THEN d[2] ELSE d[1] + 3 + d[2]) <= 17
    [] page.name = "greeting" -> d[1] = 0 \/ (d[1] <= 9 /\ d[2] <= 11)
    [] page.name = "wifiStatus" -> d[1] \in {2, 3} => d[2] <= 13
    [] page.name = "receiveWindow" -> d[1] \in {1, 2} => d[2] <= 10
    [] page.name = "overlay" -> (d[1] = 0 /\ d[2] > 0) => d[2] + d[3] <= 13
    [] OTHER -> TRUE
=============================================================================
