---------------------------- MODULE DeviceParts ----------------------------
\* Five parts of the firmware that keep their state to themselves: the pet on
\* its sprite (BuddyStage), the screens (DeviceScreens), what a page holds
\* above the meter (UsageMeter), the pet's progress (DeviceStats) and the
\* Wi-Fi (WifiManager).  None reads what another keeps here, so that what a
\* part may do is what it may do alone: "part" says which one a behaviour
\* follows, and the others stand still.
EXTENDS Integers, DeviceStats, WifiManager

CONSTANTS
  Ticks, Hold,                                        \* BuddyStage
  Landscapes, Kinds, Moods, MaxLapses,                \* DeviceScreens
  NameCells, SsidCells, VersionCells, ToolCells, HintRows,
  Percents                                            \* UsageMeter

ASSUME PartsAssumption ==
  /\ Ticks \in Nat \ {0} /\ Hold \in Nat \ {0}
  /\ Landscapes \subseteq {1, 3}
  /\ Kinds \subseteq {"gif", "text"} /\ MaxLapses \in Nat
  /\ NameCells \subseteq Nat \X (Nat \ {0})
  /\ SsidCells \subseteq Nat /\ VersionCells \subseteq Nat
  /\ ToolCells \subseteq Nat \X {8, 12} /\ HintRows \subseteq 0..8
  /\ Percents \subseteq Int
  /\ TokensPerLevel \in Nat \ {0} /\ LevelWidth \in Nat \ {0}
  /\ MaxEarned \in Nat /\ MaxDelta \in Nat
  /\ Reachable \subseteq Ssids \X Passwords
  /\ None \notin Moods \cup Ssids \cup Passwords \cup (Ssids \X Passwords)
  /\ None \notin Percents /\ None \notin Nat
  /\ None \notin {"receive", "wifi", "reset", "settings", "menu"}
  /\ None \notin [five : Percents \cup {None}, seven : Percents \cup {None}]

VARIABLES
  part,
  tickCount, currentSpecies, scale, face, shown, invalid, trail,
  step, prompt, inPrompt, previousPrompt, update, xfer, buddyMode,
  gifAvailable, loaded, open, mode, overlay, spentA, rest, previous, view, fresh,
  usage, page, cache, ink, inset, age

stageVars ==
  <<tickCount, currentSpecies, scale, face, shown, invalid, trail>>
screenVars ==
  <<step, prompt, inPrompt, previousPrompt, update, xfer, buddyMode,
    gifAvailable, loaded, open, mode, overlay, spentA, rest, previous, view,
    fresh>>
pageVars == <<usage, page, cache, ink, inset, age>>
vars == <<part, stageVars, screenVars, pageVars, statsVars, wifiVars>>

Stage == INSTANCE BuddyStage
Screens == INSTANCE DeviceScreens
Pages == INSTANCE UsageMeter

\* A part that stands still.
NoStage ==
  /\ tickCount = None /\ currentSpecies = None /\ scale = None /\ face = None
  /\ shown = None /\ invalid = None /\ trail = None
NoScreens ==
  /\ step = None /\ prompt = None /\ inPrompt = None
  /\ previousPrompt = None /\ update = None /\ xfer = None /\ buddyMode = None
  /\ gifAvailable = None /\ loaded = None /\ open = None /\ mode = None
  /\ overlay = None /\ spentA = None /\ rest = None /\ previous = None
  /\ view = None /\ fresh = None
NoPages ==
  /\ usage = None /\ page = None /\ cache = None /\ ink = None
  /\ inset = None /\ age = None
NoStats == StatsInit
NoWifi == WifiInit /\ saved = {None}

Init ==
  \/ part = "pet" /\ Stage!Init /\ NoScreens /\ NoPages /\ NoStats /\ NoWifi
  \/ /\ part = "screens" /\ Screens!Init
     /\ NoStage /\ NoPages /\ NoStats /\ NoWifi
  \/ part = "pages" /\ Pages!Init /\ NoStage /\ NoScreens /\ NoStats /\ NoWifi
  \/ part = "stats" /\ StatsInit /\ NoStage /\ NoScreens /\ NoPages /\ NoWifi
  \/ part = "wifi" /\ WifiInit /\ NoStage /\ NoScreens /\ NoPages /\ NoStats

Next ==
  /\ UNCHANGED part
  /\ \/ /\ part = "pet"
        /\ UNCHANGED <<screenVars, pageVars, statsVars, wifiVars>>
        /\ Stage!Next
     \/ /\ part = "screens"
        /\ UNCHANGED <<stageVars, pageVars, statsVars, wifiVars>>
        /\ Screens!Next
     \/ /\ part = "pages"
        /\ UNCHANGED <<stageVars, screenVars, statsVars, wifiVars>>
        /\ Pages!Next
     \/ /\ part = "stats"
        /\ UNCHANGED <<stageVars, screenVars, pageVars, wifiVars>>
        /\ StatsNext
     \/ /\ part = "wifi"
        /\ UNCHANGED <<stageVars, screenVars, pageVars, statsVars>>
        /\ WifiNext

\* Whatever the pet does, on whichever screen, the next drawing clears all of
\* it, and no drawing reads a table past its end (buddy.cpp, buddyRenderTo).
PetLeavesNoTrail == part = "pet" => Stage!PetLeavesNoTrail

\* What a pass of loop in main.cpp has pushed or drawn is the surface that is
\* meant and nothing of an earlier one, but for what one of four lapses of the
\* code has left and nothing has wiped since, each on its own kind of surface.
NoLeftovers == part = "screens" => Screens!NoLeftovers

\* What the comment of applyDisplayMode says (main.cpp, "guarantees no leftovers
\* between modes"): of a page that was left nothing shows in another mode.
NothingLeftBetweenModes ==
  part = "screens" => Screens!NothingLeftBetweenModes

\* Whatever was reported and shown before, a pass leaves the meter of the
\* last good report and nothing of an earlier one; and a second later at most
\* nothing on the page leaves its frame or lies on something else, unless a
\* text is longer than the screen has room for, and then something does
\* (usageMeterRenderTransition, and the pages of main.cpp).
EverythingInPlace == part = "pages" => Pages!EverythingInPlace

Spec == Init /\ [][Next]_vars
=============================================================================
