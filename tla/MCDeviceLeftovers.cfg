SPECIFICATION Spec
CONSTANTS
  Ticks = 200
  Hold = 20
  Landscapes = {1}
  Kinds = {"gif"}
  Calm = Calm
  Happy = Happy
  Moods = {Calm, Happy}
  MaxLapses = 1
  NameCells <- Names
  SsidCells = {1, 13, 14, 32}
  VersionCells = {0, 9, 10, 11, 12, 63}
  ToolCells <- Tools
  HintRows = {0, 1, 8}
  Percents <- SomePercents
  TokensPerLevel = 3
  LevelWidth = 4
  MaxEarned = 14
  MaxDelta = 4
  Home = Home
  Cafe = Cafe
  Key = Key
  Word = Word
  Ssids = {Home, Cafe}
  Passwords = {Key, Word}
  Reachable <- Networks
  None = None
SYMMETRY AlikeMoods
INVARIANT
  NothingLeftBetweenModes
CHECK_DEADLOCK FALSE
