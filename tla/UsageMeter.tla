---------------------------- MODULE UsageMeter -----------------------------
\* The bars at the foot of the screen, of what the host reports to be left of
\* two limits (usage_meter_logic.h), and the page above them.  The bars are
\* painted by what the pass finds to have changed, and the page makes room
\* for them.  The colours that run over the dots are left out, and so is what
\* the face redraws besides the meter.
EXTENDS ScreenPages

CONSTANTS
  Percents,   \* what a report may say is left, good values and bad ones
  None        \* no limit, nothing painted

VARIABLES
  usage,   \* tama: what is left of the five hours and of the seven days
  page,    \* the page that is shown
  cache,   \* UsageMeterRenderState of its surface
  ink,     \* the bars that are painted: band -> width that is filled
  inset,   \* the room that the page was last drawn with
  age      \* since the last change: 0 not drawn, 1 drawn, 2 a second later

vars == <<usage, page, cache, ink, inset, age>>

\* The dashboard, alone or with the update in its corner; what is drawn over
\* again only when something changed; what turns the display.
OnDashboard(p) ==
  p.name = "dashboard" \/ (p.name = "overlay" /\ p.data[1] = 1)
Kept(p) == p.name = "face" \/ OnDashboard(p)
Turned(p) == p.name = "landscapeApproval" \/ OnDashboard(p)

ValidPercent(remaining) == remaining >= 0 /\ remaining <= 100
FillWidth(full, remaining) ==
  CASE remaining <= 0 -> 0
    [] remaining >= 100 -> full
    [] remaining > 0 /\ remaining < 100 -> (full * remaining) \div 100

\* Two limits take 16 lines, one takes 8.
Visible(state) == state.five # None \/ state.seven # None
Both(state) == state.five # None /\ state.seven # None
Footprint(state) == IF Both(state) THEN 16 ELSE 8
FooterInset(state) == IF Visible(state) THEN Footprint(state) ELSE 0

\* The bars: bands of the whole width, each with what is filled of it.
Surface(p) == IF Turned(p) THEN Landscape ELSE Portrait
Band(p, y) == Box(2, y, Surface(p).w - 4, 6)
Bars(state, p) ==
  LET y == Surface(p).h - Footprint(state)
      fill(remaining) == FillWidth(Surface(p).w - 4, remaining)
  IN  CASE ~Visible(state) -> << >>
        [] Both(state) ->
             [b \in {Band(p, y), Band(p, y + 8)} |->
                fill(IF b.y = y THEN state.five ELSE state.seven)]
        [] Visible(state) /\ ~Both(state) ->
             [b \in {Band(p, y)} |->
                fill(IF state.five # None THEN state.five ELSE state.seven)]

\* The dots of the dashboard, for one limit: the seven days before the five
\* hours.
DotColumns == (240 - 8 + 2) \div 8
DotBand == Box(4, 135 - 26, DotColumns * 8 - 2, 3 * 8 - 2)
Dotted(state) ==
  IF state.seven # None THEN [five |-> None, seven |-> state.seven]
  ELSE [five |-> state.five, seven |-> None]
Dots(state) ==
  IF ~Visible(state) THEN << >>
  ELSE [b \in {DotBand} |->
          FillWidth(DotColumns, IF state.seven # None THEN state.seven
                                ELSE state.five)]

Plan(state, p) ==
  IF OnDashboard(p) THEN Dots(state) ELSE Bars(state, p)
Measured(state, p) == IF OnDashboard(p) THEN Dotted(state) ELSE state

\* What a pass does with the meter, from what it did before.
Layout(state) == <<state.five # None, state.seven # None>>
\* A mutant: the bars of an earlier layout stay.
ClearsAtTheEnd(before, state) == before # None /\ ~Visible(state)
Clears(before, state) ==
  /\ before # None
  /\ Visible(state) => Layout(before) # Layout(state)
Draws(before, state, force) ==
  Visible(state) /\ (force \/ before = None \/ before # state)

\* The lines that a pass clears the meter by.
Cleared(p) ==
  LET h == IF OnDashboard(p) THEN 26 ELSE 16
  IN  Box(0, Surface(p).h - h, Surface(p).w, h)
Wiped(painted, area) ==
  [b \in {b \in DOMAIN painted : ~Inside(b, area)} |-> painted[b]]
Painted(over, painted) ==
  [b \in DOMAIN over \cup DOMAIN painted |->
     IF b \in DOMAIN over THEN over[b] ELSE painted[b]]

------------------------------------------------------------------------------
Init ==
  /\ usage = [five |-> None, seven |-> None]
  /\ page \in Pages
  /\ cache = None /\ ink = << >> /\ inset = None /\ age = 0

\* A status names what is left of a limit or of both; one that is not a whole
\* percentage spoils the report.
Report(five, seven) ==
  LET state == [five |-> five, seven |-> seven]
      valid == /\ Visible(state)
               /\ five # None => ValidPercent(five)
               /\ seven # None => ValidPercent(seven)
  IN  /\ valid /\ state # usage
      /\ usage' = state /\ age' = 0
      /\ UNCHANGED <<page, cache, ink, inset>>

\* Another page: the surface is filled and the meter's state is reset.
Show(p) ==
  /\ p # page
  /\ page' = p
  /\ cache' = None /\ ink' = << >> /\ inset' = None /\ age' = 0
  /\ UNCHANGED usage

\* A pass of loop.  The approval in landscape is drawn over again when a
\* second has passed, all other pages but the face on every pass.
Pass(second) ==
  LET state == Measured(usage, page)
      redraw == \/ inset = None
                \/ page.name = "landscapeApproval" => second
      force == ~Kept(page) /\ redraw
      left == IF Clears(cache, state) THEN Wiped(ink, Cleared(page)) ELSE ink
  IN  /\ second \/ age = 0
      /\ ink' = IF Draws(cache, state, force)
                THEN Painted(Plan(usage, page), left) ELSE left
      /\ cache' = IF Visible(state) THEN state ELSE None
      /\ inset' = IF redraw THEN FooterInset(usage) ELSE inset
      /\ age' = IF second THEN 2 ELSE 1
      /\ UNCHANGED <<usage, page>>

Next ==
  \/ \E five, seven \in Percents \cup {None} : Report(five, seven)
  \/ \E p \in Pages : Show(p)
  \/ \E second \in BOOLEAN : Pass(second)

Spec == Init /\ [][Next]_vars

\* Whatever was reported and shown before, a pass leaves the meter of the
\* last good report and nothing of an earlier one (usageMeterRenderTransition
\* and paintUsageMeter); and a second later at most nothing on the page leaves
\* its frame, lies on another line or on the meter, unless a name, a network,
\* a version or a percentage is longer than the screen has room for, and then
\* something does (drawApproval, drawPet and the other pages of main.cpp).
EverythingInPlace ==
  /\ age > 0 => ink = Plan(usage, page)
  /\ age = 2 \/ (age = 1 /\ page.name # "landscapeApproval") =>
       LET whole == {Sheet(Surface(page), <<b, line>>) :
                       b \in DOMAIN ink,
                       line \in UNION {{s.lines[i] : i \in DOMAIN s.lines} :
                                         s \in Sheets(page, inset)}}
       IN  (\A s \in Sheets(page, inset) \cup whole : Tidy(s)) <=> Short(page)
=============================================================================
