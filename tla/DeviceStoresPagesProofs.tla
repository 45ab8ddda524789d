---------------------- MODULE DeviceStoresPagesProofs ----------------------
\* Proofs about the parts of the device that DevicePartsProofs leaves: the
\* pet's progress (DeviceStats), for any number of tokens to a level and any
\* width of the level, the Wi-Fi (WifiManager), for any networks and whatever
\* works with them, and the pages above the meter (UsageMeter), for texts of
\* any length.
EXTENDS DeviceParts, FiniteSetTheorems, WellFoundedInduction, TLAPS

------------------------------------------------------------------------------
\* ---- The pet's progress

\* What the firmware's two constants are.
LevelsAssumption == TokensPerLevel \in Nat \ {0} /\ LevelWidth \in Nat \ {0}

StatsTypeOK ==
  /\ bridgeTotal \in Nat /\ earned \in Nat
  /\ lastBridgeTokens \in Nat /\ tokensSynced \in BOOLEAN
  /\ tokens \in Nat /\ level \in Nat
  /\ stored \in [lvl : Nat, tok : Nat]
  /\ unsaved \in {<<>>, <<"tok">>, SaveOrder}
  /\ dirty = (unsaved # <<>>)
  /\ credited \in Nat /\ (unsaved = <<>> => credited = 0)

\* The level that tokens make, before it is cut to its byte.
Reached(n) == n \div TokensPerLevel

\* No token counts twice: what the next message will add was produced since.
Earned ==
  /\ tokens <= earned /\ stored.tok <= earned
  /\ level * TokensPerLevel <= earned
  /\ stored.lvl * TokensPerLevel <= earned
  /\ tokensSynced /\ bridgeTotal >= lastBridgeTokens =>
       tokens + (bridgeTotal - lastBridgeTokens) <= earned

\* What the flash and memory say of one another, at each point of a save.
Fits == tokens < LevelWidth * TokensPerLevel
StatsSaved ==
  /\ tokens = 0 => level = 0
  /\ unsaved # SaveOrder => stored.lvl = level
  /\ unsaved = <<>> /\ Fits => Reached(tokens) = Reached(Loaded)
  /\ Fits => tokens - credited < Loaded + TokensPerLevel
  /\ unsaved = SaveOrder /\ Fits /\ stored.tok = 0 =>
       tokens < (level + 1) * TokensPerLevel

StatsIInv == StatsTypeOK /\ Earned /\ StatsSaved

\* ---- Arithmetic

LEMMA Block ==
  ASSUME LevelsAssumption, NEW n \in Nat
  PROVE  /\ Reached(n) \in Nat
         /\ Reached(n) * TokensPerLevel <= n
         /\ n < (Reached(n) + 1) * TokensPerLevel
BY SMT DEF LevelsAssumption, Reached

LEMMA Product ==
  ASSUME LevelsAssumption, NEW n \in Nat
  PROVE  n * TokensPerLevel \in Nat
BY SMT DEF LevelsAssumption

LEMMA SameBlock ==
  ASSUME LevelsAssumption, NEW a \in Nat, NEW b \in Nat,
         Reached(a) = Reached(b)
  PROVE  a < b + TokensPerLevel
<1> DEFINE q == Reached(a)
<1>1. q \in Nat /\ q * TokensPerLevel <= b /\ a < (q + 1) * TokensPerLevel
  BY Block
<1>2. (q + 1) * TokensPerLevel = q * TokensPerLevel + TokensPerLevel
  BY <1>1, SMT DEF LevelsAssumption
<1> HIDE DEF q
<1>3. TokensPerLevel \in Nat /\ q * TokensPerLevel \in Nat
  BY <1>1, SMT DEF LevelsAssumption
<1>4. QED
  BY <1>1, <1>2, <1>3, SMT

LEMMA Exact ==
  ASSUME LevelsAssumption, NEW l \in Nat
  PROVE  Reached(l * TokensPerLevel) = l
BY SMT DEF LevelsAssumption, Reached

LEMMA LevelBelow ==
  ASSUME LevelsAssumption, NEW n \in Nat
  PROVE  /\ LevelOf(n) \in Nat /\ LevelOf(n) <= Reached(n)
         /\ n < LevelWidth * TokensPerLevel => LevelOf(n) = Reached(n)
<1>1. Reached(n) \in Nat
  BY Block
<1>2. LevelOf(n) = Reached(n) % LevelWidth
  BY DEF LevelOf, Reached
<1>3. LevelOf(n) \in Nat /\ LevelOf(n) <= Reached(n)
  BY <1>1, <1>2, SMT DEF LevelsAssumption
<1>4. ASSUME n < LevelWidth * TokensPerLevel PROVE Reached(n) < LevelWidth
  <2>1. SUFFICES ASSUME Reached(n) >= LevelWidth PROVE FALSE
    BY <1>1, SMT DEF LevelsAssumption
  <2>2. PICK d \in Nat : Reached(n) = LevelWidth + d
    BY <1>1, <2>1, SMT DEF LevelsAssumption
  <2>3. Reached(n) * TokensPerLevel
          = LevelWidth * TokensPerLevel + d * TokensPerLevel
    BY <2>2, SMT DEF LevelsAssumption
  <2>4. d * TokensPerLevel \in Nat /\ LevelWidth * TokensPerLevel \in Nat
    BY SMT DEF LevelsAssumption
  <2>5. LevelWidth * TokensPerLevel <= n
    BY <2>3, <2>4, Block, SMT
  <2>6. QED
    BY <1>4, <2>4, <2>5, SMT
<1>5. QED
  BY <1>1, <1>2, <1>3, <1>4, SMT DEF LevelsAssumption

LEMMA Monotone ==
  ASSUME LevelsAssumption, NEW a \in Nat, NEW b \in Nat, a <= b
  PROVE  Reached(a) <= Reached(b)
BY SMT DEF LevelsAssumption, Reached

\* The host's total grows with what was produced, from what it was or from 0.
LEMMA Ahead ==
  ASSUME NEW t \in Nat, NEW last \in Nat, NEW e \in Nat, NEW e2 \in Nat,
         NEW b \in Nat, NEW b2 \in Nat, b2 - b <= e2 - e,
         b2 = 0 \/ b2 - b = e2 - e, t <= e, b2 >= last,
         b >= last => t + (b - last) <= e
  PROVE  t + (b2 - last) <= e2
BY SMT

\* ---- The steps

LEMMA LoadedEarned ==
  ASSUME LevelsAssumption, StatsTypeOK, Earned
  PROVE  Loaded \in Nat /\ Loaded <= earned /\ Loaded >= stored.tok
BY SMT DEF LevelsAssumption, StatsTypeOK, Earned, Loaded

LEMMA StatsInitGood == ASSUME LevelsAssumption, StatsInit PROVE StatsIInv
<1>0. 0 * TokensPerLevel = 0 /\ TokensPerLevel \in Nat
  BY SMT DEF LevelsAssumption
<1>1. StatsTypeOK /\ Earned /\ Loaded = 0
  <2>1. StatsTypeOK
    BY DEF StatsInit, StatsTypeOK, SaveOrder
  <2>2. Earned
    BY <1>0, SMT DEF StatsInit, Earned
  <2>3. Loaded = 0
    BY <1>0 DEF StatsInit, Loaded
  <2>4. QED
    BY <2>1, <2>2, <2>3
<1>2. StatsSaved
  BY <1>1, SMT DEF LevelsAssumption, StatsInit, StatsSaved, SaveOrder
<1>3. QED
  BY <1>1, <1>2 DEF StatsIInv

\* The hosts' steps leave what the device keeps alone.
LEMMA HostKeeps ==
  ASSUME LevelsAssumption, StatsIInv,
         (\E n \in 1..MaxDelta : Produce(n)) \/ BridgeRestart
  PROVE  StatsIInv'
<1>1. /\ bridgeTotal' \in Nat /\ earned' \in Nat /\ earned' >= earned
      /\ bridgeTotal' - bridgeTotal <= earned' - earned
      /\ bridgeTotal' = 0 \/ bridgeTotal' - bridgeTotal = earned' - earned
  <2>1. bridgeTotal \in Nat /\ earned \in Nat
    BY DEF StatsIInv, StatsTypeOK
  <2>2. CASE \E n \in 1..MaxDelta : Produce(n)
    BY <2>1, <2>2, SMT DEF Produce
  <2>3. CASE BridgeRestart
    BY <2>1, <2>3, SMT DEF BridgeRestart
  <2>4. QED
    BY <2>2, <2>3
<1>2. UNCHANGED <<lastBridgeTokens, tokensSynced, tokens, level, dirty,
                     stored, unsaved, credited>>
  BY DEF Produce, BridgeRestart
<1>3. StatsTypeOK'
  BY <1>1, <1>2 DEF StatsIInv, StatsTypeOK
<1>4. Earned'
  <2>0. /\ bridgeTotal \in Nat /\ earned \in Nat /\ tokens \in Nat
        /\ lastBridgeTokens \in Nat
    BY DEF StatsIInv, StatsTypeOK
  <2>1. level * TokensPerLevel \in Nat /\ stored.lvl * TokensPerLevel \in Nat
    BY SMT DEF StatsIInv, StatsTypeOK, LevelsAssumption
  <2>2. /\ tokens <= earned' /\ stored.tok <= earned'
        /\ level * TokensPerLevel <= earned'
        /\ stored.lvl * TokensPerLevel <= earned'
    BY <1>1, <2>1, SMT DEF StatsIInv, StatsTypeOK, Earned
  <2>3. ASSUME tokensSynced, bridgeTotal' >= lastBridgeTokens
        PROVE  tokens + (bridgeTotal' - lastBridgeTokens) <= earned'
    BY <1>1, <2>0, <2>2, <2>3, Ahead DEF StatsIInv, Earned
  <2>4. QED
    BY <1>2, <2>2, <2>3 DEF Earned
<1>5. StatsSaved'
  BY <1>2 DEF StatsIInv, StatsSaved, Fits, Loaded
<1>6. QED
  BY <1>3, <1>4, <1>5 DEF StatsIInv

LEMMA OnBridgeTokensKeeps ==
  ASSUME LevelsAssumption, StatsIInv, OnBridgeTokens
  PROVE  StatsIInv'
<1>1. Delta \in Nat /\ tokens + Delta <= earned
  BY SMT DEF StatsIInv, StatsTypeOK, Earned, Delta
<1>2. /\ tokens' = tokens + Delta /\ tokens' \in Nat
      /\ unsaved = <<>> /\ credited = 0 /\ dirty = FALSE
      /\ UNCHANGED <<bridgeTotal, earned, stored>>
      /\ Loaded' = Loaded
  <2>1. /\ tokens' = tokens + Delta /\ unsaved = <<>>
        /\ UNCHANGED <<bridgeTotal, earned, stored>>
    BY DEF OnBridgeTokens, NotSaving
  <2>2. credited = 0 /\ dirty = FALSE
    BY <2>1 DEF StatsIInv, StatsTypeOK
  <2>3. Loaded' = Loaded
    BY <2>1 DEF Loaded
  <2>4. tokens' \in Nat
    BY <1>1, <2>1, SMT DEF StatsIInv, StatsTypeOK
  <2>5. QED
    BY <2>1, <2>2, <2>3, <2>4
<1>3. StatsTypeOK'
  <2>1. LevelOf(tokens + Delta) \in Nat
    BY <1>1, <1>2, LevelBelow
  <2>2. QED
    BY <1>1, <1>2, <2>1 DEF StatsIInv, StatsTypeOK, OnBridgeTokens, SaveOrder
<1>4. Earned'
  <2>1. level' * TokensPerLevel <= earned
    <3>1. CASE LevelUp
      <4>1. level' = LevelOf(tokens')
        BY <1>2, <3>1 DEF OnBridgeTokens
      <4>2. /\ level' \in Nat /\ level' <= Reached(tokens')
            /\ Reached(tokens') \in Nat
            /\ Reached(tokens') * TokensPerLevel <= tokens'
        BY <1>2, <4>1, LevelBelow, Block
      <4>3. level' * TokensPerLevel <= Reached(tokens') * TokensPerLevel
        BY <4>2, SMT DEF LevelsAssumption
      <4>4. /\ level' * TokensPerLevel \in Nat
            /\ Reached(tokens') * TokensPerLevel \in Nat
            /\ earned \in Nat
        <5>1. earned \in Nat
          BY DEF StatsIInv, StatsTypeOK
        <5>2. QED
          BY <4>2, <5>1, Product
      <4>5. QED
        BY <1>1, <1>2, <4>2, <4>3, <4>4, SMT
    <3>2. CASE ~LevelUp
      BY <3>2 DEF OnBridgeTokens, StatsIInv, Earned
    <3>3. QED
      BY <3>1, <3>2
  <2>2. stored' = stored /\ lastBridgeTokens' = bridgeTotal'
    BY <1>2 DEF OnBridgeTokens
  <2>3. QED
    BY <1>1, <1>2, <2>1, <2>2, SMT DEF StatsIInv, StatsTypeOK, Earned
<1>5. StatsSaved'
  <2>1. Fits' => Fits
    BY <1>1, <1>2, SMT DEF Fits, LevelsAssumption, StatsIInv, StatsTypeOK
  <2>2. Fits' => /\ LevelOf(tokens') = Reached(tokens')
                 /\ LevelOf(tokens) = Reached(tokens)
    BY <1>1, <1>2, <2>1, LevelBelow DEF Fits, StatsIInv, StatsTypeOK
  <2>3. /\ Reached(tokens) \in Nat /\ Reached(tokens') \in Nat
        /\ Reached(tokens) <= Reached(tokens')
    <3>1. tokens \in Nat /\ tokens' \in Nat /\ tokens <= tokens'
      BY <1>1, <1>2, SMT DEF StatsIInv, StatsTypeOK
    <3>2. QED
      BY <3>1, Block, Monotone
  <2>4. LevelUp <=> LevelOf(tokens') > LevelOf(tokens)
    BY <1>2 DEF LevelUp
  <2>5. CASE LevelUp
    <3>1. /\ level' = LevelOf(tokens') /\ unsaved' = SaveOrder
          /\ credited' = Delta
      BY <1>2, <2>5 DEF OnBridgeTokens
    <3>3. tokens' # 0
      <4>1. SUFFICES ASSUME tokens' = 0 PROVE FALSE
        OBVIOUS
      <4>2. tokens' = tokens
        BY <1>1, <1>2, <4>1, SMT DEF StatsIInv, StatsTypeOK
      <4>3. LevelOf(tokens) \in Nat
        BY LevelBelow DEF StatsIInv, StatsTypeOK
      <4>4. QED
        BY <2>4, <2>5, <4>2, <4>3, SMT
    <3>4. Fits' => tokens' - credited' < Loaded' + TokensPerLevel
      BY <1>1, <1>2, <2>1, <3>1, SMT DEF StatsIInv, StatsSaved, StatsTypeOK
    <3>5. Fits' => tokens' < (level' + 1) * TokensPerLevel
      BY <1>2, <2>2, <3>1, Block
    <3>6. QED
      BY <3>1, <3>3, <3>4, <3>5 DEF StatsSaved, SaveOrder
  <2>6. CASE ~LevelUp
    <3>1. level' = level /\ unsaved' = <<>> /\ credited' = 0
      BY <2>6 DEF OnBridgeTokens
    <3>2. Fits' => Reached(tokens') = Reached(tokens)
      BY <2>2, <2>3, <2>4, <2>6, SMT
    <3>3. Fits' => Reached(tokens') = Reached(Loaded')
      BY <1>2, <2>1, <3>2 DEF StatsIInv, StatsSaved
    <3>4. Loaded' \in Nat
      BY <1>2, LoadedEarned DEF StatsIInv
    <3>5. Fits' => tokens' - credited' < Loaded' + TokensPerLevel
      BY <1>2, <3>1, <3>3, <3>4, SameBlock, SMT
    <3>6. tokens' = 0 => level' = 0
      BY <1>1, <1>2, <3>1, SMT DEF StatsIInv, StatsSaved, StatsTypeOK
    <3>7. stored' = stored /\ stored.lvl = level /\ <<>> # SaveOrder
      BY <1>2 DEF StatsIInv, StatsSaved, SaveOrder
    <3>8. QED
      BY <3>1, <3>3, <3>5, <3>6, <3>7 DEF StatsSaved
  <2>7. QED
    BY <2>5, <2>6
<1>6. QED
  BY <1>3, <1>4, <1>5 DEF StatsIInv

LEMMA DecisionKeeps ==
  ASSUME LevelsAssumption, StatsIInv, Decision
  PROVE  StatsIInv'
<1>1. /\ unsaved = <<>> /\ unsaved' = SaveOrder /\ dirty' = TRUE
      /\ UNCHANGED <<bridgeTotal, earned, lastBridgeTokens, tokensSynced,
                     tokens, level, stored, credited>>
  BY DEF Decision, NotSaving
<1>2. StatsTypeOK' /\ Earned'
  BY <1>1 DEF StatsIInv, StatsTypeOK, Earned, SaveOrder
<1>3. ASSUME Fits, stored.tok = 0
      PROVE  tokens < (level + 1) * TokensPerLevel
  <2>1. unsaved # SaveOrder /\ stored.lvl = level
    BY <1>1 DEF StatsIInv, StatsSaved, SaveOrder
  <2>2. Loaded = level * TokensPerLevel
    BY <1>3, <2>1 DEF Loaded
  <2>3. Reached(tokens) = level
    BY <1>1, <1>3, <2>2, Exact DEF StatsIInv, StatsTypeOK, StatsSaved
  <2>4. QED
    BY <2>3, Block DEF StatsIInv, StatsTypeOK
<1>4. StatsSaved'
  <2>1. Loaded' = Loaded /\ (Fits' <=> Fits)
    BY <1>1 DEF Loaded, Fits
  <2>2. <<>> # SaveOrder
    BY DEF SaveOrder
  <2>3. QED
    BY <1>1, <1>3, <2>1, <2>2 DEF StatsIInv, StatsSaved
<1>5. QED
  BY <1>2, <1>4 DEF StatsIInv

\* The level goes first: what it stands for alone is not more than there is.
LEMMA SaveKeeps ==
  ASSUME LevelsAssumption, StatsIInv, Save
  PROVE  StatsIInv'
<1>1. UNCHANGED <<bridgeTotal, earned, lastBridgeTokens, tokensSynced, tokens,
                  level>>
  BY DEF Save
<1>2. /\ tokens \in Nat /\ level \in Nat /\ stored \in [lvl : Nat, tok : Nat]
      /\ credited \in Nat
  BY DEF StatsIInv, StatsTypeOK
<1>3. CASE unsaved = SaveOrder
  <2>1. /\ unsaved' = <<"tok">> /\ dirty' = TRUE /\ credited' = credited
        /\ stored' = [stored EXCEPT !.lvl = level]
    <3>1. Head(unsaved) = "lvl" /\ Tail(unsaved) = <<"tok">>
      BY <1>3, SMT DEF SaveOrder
    <3>2. Len(unsaved) = 2
      BY <1>3, SMT DEF SaveOrder
    <3>3. Len(unsaved) > 1 /\ "lvl" # "tok"
      BY <3>2, SMT
    <3>4. QED
      BY <3>1, <3>3 DEF Save
  <2>2. stored'.lvl = level /\ stored'.tok = stored.tok
    BY <1>2, <2>1
  <2>3. StatsTypeOK'
    BY <1>1, <1>2, <2>1 DEF StatsIInv, StatsTypeOK
  <2>4. Earned'
    BY <1>1, <2>2 DEF StatsIInv, Earned
  <2>5. Fits' => tokens' - credited' < Loaded' + TokensPerLevel
    <3>1. SUFFICES ASSUME Fits
                   PROVE  tokens - credited < Loaded' + TokensPerLevel
      BY <1>1, <2>1 DEF Fits
    <3>2. CASE stored.tok = 0
      <4>1. tokens < (level + 1) * TokensPerLevel
        BY <1>3, <3>1, <3>2 DEF StatsIInv, StatsSaved
      <4>2. (level + 1) * TokensPerLevel
              = level * TokensPerLevel + TokensPerLevel
        BY <1>2, SMT DEF LevelsAssumption
      <4>3. Loaded' = level * TokensPerLevel /\ Loaded' \in Nat
        BY <1>2, <2>2, <3>2, Product DEF Loaded
      <4>4. TokensPerLevel \in Nat
        BY DEF LevelsAssumption
      <4>5. QED
        BY <1>2, <4>1, <4>2, <4>3, <4>4, SMT
    <3>3. CASE stored.tok # 0
      <4>1. Loaded' = Loaded
        BY <2>2, <3>3 DEF Loaded
      <4>2. QED
        BY <3>1, <4>1 DEF StatsIInv, StatsSaved
    <3>4. QED
      BY <3>2, <3>3
  <2>6. StatsSaved'
    BY <1>1, <2>1, <2>2, <2>5 DEF StatsIInv, StatsSaved, SaveOrder
  <2>7. QED
    BY <2>3, <2>4, <2>6 DEF StatsIInv
<1>4. CASE unsaved = <<"tok">>
  <2>1. /\ unsaved' = <<>> /\ dirty' = FALSE /\ credited' = 0
        /\ stored' = [stored EXCEPT !.tok = tokens]
    <3>1. Head(unsaved) = "tok" /\ Tail(unsaved) = <<>>
      BY <1>4, SMT
    <3>2. Len(unsaved) = 1
      BY <1>4, SMT
    <3>3. (Len(unsaved) > 1) = FALSE
      BY <3>2, SMT
    <3>4. dirty' = FALSE /\ credited' = 0
      BY <3>3, Zenon DEF Save
    <3>5. "lvl" # "tok"
      OBVIOUS
    <3>6. QED
      BY <3>1, <3>4, <3>5 DEF Save
  <2>2. stored'.lvl = stored.lvl /\ stored'.tok = tokens
    BY <1>2, <2>1
  <2>3. stored.lvl = level
    BY <1>4 DEF StatsIInv, StatsSaved, SaveOrder
  <2>4. Loaded' = tokens
    <3>1. CASE tokens = 0
      <4>1. level = 0 /\ 0 * TokensPerLevel = 0
        BY <3>1, SMT DEF StatsIInv, StatsSaved, LevelsAssumption
      <4>2. QED
        BY <2>2, <2>3, <3>1, <4>1 DEF Loaded
    <3>2. CASE tokens # 0
      BY <2>2, <3>2 DEF Loaded
    <3>3. QED
      BY <3>1, <3>2
  <2>5. StatsTypeOK'
    BY <1>1, <1>2, <2>1 DEF StatsIInv, StatsTypeOK
  <2>6. Earned'
    BY <1>1, <2>2 DEF StatsIInv, Earned
  <2>7. tokens - 0 < tokens + TokensPerLevel
    BY <1>2, SMT DEF LevelsAssumption
  <2>8. StatsSaved'
    <3>1. tokens' = tokens /\ level' = level /\ (tokens = 0 => level = 0)
      BY <1>1 DEF StatsIInv, StatsSaved
    <3>2. <<>> # SaveOrder
      BY DEF SaveOrder
    <3>3. stored'.lvl = level'
      BY <2>2, <2>3, <3>1
    <3>4. Reached(tokens') = Reached(Loaded')
      BY <2>4, <3>1
    <3>5. tokens' - credited' < Loaded' + TokensPerLevel
      BY <2>1, <2>4, <2>7, <3>1
    <3>6. QED
      BY <2>1, <3>1, <3>2, <3>3, <3>4, <3>5 DEF StatsSaved
  <2>9. QED
    BY <2>5, <2>6, <2>8 DEF StatsIInv
<1>5. unsaved # <<>>
  BY DEF Save, NotSaving
<1>6. QED
  BY <1>3, <1>4, <1>5 DEF StatsIInv, StatsTypeOK

LEMMA RestartKeeps ==
  ASSUME LevelsAssumption, StatsIInv, Restart
  PROVE  StatsIInv'
<1>1. /\ tokens' = Loaded /\ level' = stored.lvl
      /\ lastBridgeTokens' = 0 /\ tokensSynced' = FALSE
      /\ dirty' = FALSE /\ unsaved' = <<>> /\ credited' = 0
      /\ UNCHANGED <<bridgeTotal, earned, stored>>
  BY DEF Restart
<1>2. Loaded \in Nat /\ Loaded <= earned /\ Loaded' = Loaded
  BY <1>1, LoadedEarned DEF StatsIInv, Loaded
<1>3. StatsTypeOK'
  BY <1>1, <1>2 DEF StatsIInv, StatsTypeOK
<1>4. Earned'
  BY <1>1, <1>2 DEF StatsIInv, Earned
<1>5. Loaded = 0 => stored.lvl = 0
  <2>1. SUFFICES ASSUME Loaded = 0, stored.lvl # 0 PROVE FALSE
    OBVIOUS
  <2>2. stored.lvl * TokensPerLevel = 0 /\ 0 * TokensPerLevel = 0
    BY <2>1, SMT DEF Loaded, LevelsAssumption
  <2>3. stored.lvl \in Nat \ {0}
    BY <2>1 DEF StatsIInv, StatsTypeOK
  <2>4. QED
    BY <2>2, <2>3, Exact
<1>6. Loaded - 0 < Loaded + TokensPerLevel
  BY <1>2, SMT DEF LevelsAssumption
<1>7. StatsSaved'
  BY <1>1, <1>2, <1>5, <1>6 DEF StatsSaved, SaveOrder
<1>8. QED
  BY <1>3, <1>4, <1>7 DEF StatsIInv

\* ---- The theorems

LEMMA StatsInductive ==
  ASSUME LevelsAssumption
  PROVE  StatsIInv /\ [StatsNext]_statsVars => StatsIInv'
<1> SUFFICES ASSUME StatsIInv, [StatsNext]_statsVars PROVE StatsIInv'
  OBVIOUS
<1>1. CASE UNCHANGED statsVars
  BY <1>1
     DEF statsVars, StatsIInv, StatsTypeOK, Earned, StatsSaved, Fits, Loaded
<1>2. CASE StatsNext
  BY <1>2, HostKeeps, OnBridgeTokensKeeps, DecisionKeeps, SaveKeeps,
     RestartKeeps DEF StatsNext
<1>3. QED
  BY <1>1, <1>2

\* The inductive invariant: what is counted was produced, and flash and memory
\* agree on the level except in the middle of a save (stats.h, statsSave).
THEOREM StatsInvariant == ASSUME LevelsAssumption PROVE StatsSpec => []StatsIInv
<1>1. StatsInit => StatsIInv
  BY StatsInitGood
<1>2. StatsIInv /\ [StatsNext]_statsVars => StatsIInv'
  BY StatsInductive
<1>3. QED
  BY <1>1, <1>2, PTL DEF StatsSpec

\* Whenever power is lost, and whenever the host starts again, no token counts
\* twice, and less than a level is lost besides the message that is being
\* handled (stats.h, statsOnBridgeTokens, statsSave and statsLoad).
THEOREM ProgressIsHonest ==
  ASSUME LevelsAssumption PROVE StatsSpec => []ProgressHonest
<1>1. StatsIInv => ProgressHonest
  <2>1. SUFFICES ASSUME StatsIInv PROVE ProgressHonest
    OBVIOUS
  <2>2. tokens <= earned /\ Loaded <= earned
    BY <2>1, LoadedEarned DEF StatsIInv, Earned
  <2>3. Fits => tokens - credited < Loaded + TokensPerLevel
    BY <2>1 DEF StatsIInv, StatsSaved
  <2>4. QED
    BY <2>2, <2>3 DEF ProgressHonest, Fits
<1>2. QED
  BY <1>1, StatsInvariant, PTL

------------------------------------------------------------------------------
\* ---- The Wi-Fi

\* "None" is neither a name, a password nor a pair of them.
NetworksAssumption ==
  /\ Reachable \subseteq Credentials
  /\ None \notin Ssids \cup Passwords \cup Credentials

Slots == 0..1
Slot == [ssid : Ssids \cup {None}, pass : Passwords \cup {None},
         gen : BOOLEAN, valid : 0..1]
Store == [slot : [Slots -> Slot], active : Slots \cup {Nowhere},
          migrated : 0..1, ssid : Ssids \cup {None},
          password : Passwords \cup {None}]

\* What is left of a commit, and of a rollback.
FromSsid == <<"ssid", "pass", "gen", "valid", "active", "migrated",
              "no_ssid", "no_password">>
FromPass == <<"pass", "gen", "valid", "active", "migrated", "no_ssid",
              "no_password">>
FromGen == <<"gen", "valid", "active", "migrated", "no_ssid", "no_password">>
FromValid == <<"valid", "active", "migrated", "no_ssid", "no_password">>
FromActive == <<"active", "migrated", "no_ssid", "no_password">>
FromMigrated == <<"migrated", "no_ssid", "no_password">>
FromNoSsid == <<"no_ssid", "no_password">>
FromNoPassword == <<"no_password">>
FromBack == <<"back", "unmigrated">>
FromUnmigrated == <<"unmigrated">>

Blanked == {FromSsid, FromPass, FromGen, FromValid}
Turned == {FromMigrated, FromNoSsid, FromNoPassword}
Unturned == {CommitWrites, FromActive} \cup Blanked
Commits == Unturned \cup Turned
Rollbacks == {RollbackWrites, FromBack, FromUnmigrated}

WifiTypeOK ==
  /\ store \in Store
  /\ active \in [slot : Slots \cup {Nowhere}, valid : BOOLEAN]
  /\ active.slot \in Slots => active.valid
  /\ pending \in Credentials \cup {None}
  /\ begun \in Credentials \cup {None}
  /\ up \in BOOLEAN /\ connectingPending \in BOOLEAN /\ broken \in BOOLEAN
  /\ writes \in {<<>>} \cup Commits \cup Rollbacks
  /\ IsFiniteSet(saved)

Whole(s) ==
  LET slot == store.slot[s]
  IN slot.valid = 1 /\ slot.gen /\ None \notin {slot.ssid, slot.pass}
Pair(s) == <<store.slot[s].ssid, store.slot[s].pass>>
Known == active.slot \in Slots

\* Whatever the flash may yield has worked once.
Worked ==
  /\ None \in tried /\ OldPair \in tried
  /\ \A s \in Slots : Whole(s) => Pair(s) \in tried

\* The slot in use is never touched.
InUse ==
  Known => /\ Whole(active.slot) /\ Pair(active.slot) \in saved
           /\ writes \in {<<>>, FromUnmigrated} \cup Unturned =>
                store.active = active.slot

\* Without a slot in use, the old keys are what is fallen back to.
Unused ==
  ~Known => /\ writes # FromNoPassword => OldPair \in saved
            /\ writes \in {<<>>} \cup Unturned /\ store.migrated = 1 =>
                 None \in saved
            /\ writes = FromUnmigrated => store.active = Nowhere

\* How far a commit has come.
Progress ==
  LET slot == store.slot[Target]
  IN /\ writes \in Blanked \cup {FromBack, FromUnmigrated} => slot.valid = 0
     /\ writes \in (Commits \ {CommitWrites, FromSsid}) =>
          slot.ssid = pending[1]
     /\ writes \in (Commits \ {CommitWrites, FromSsid, FromPass}) =>
          slot.pass = pending[2]
     /\ writes \in {FromValid, FromActive} \cup Turned => slot.gen
     /\ writes \in {FromActive} \cup Turned => slot.valid = 1
     /\ writes \in Turned => store.active = Target

\* The pair that the radio was started with, when it matters.
Begun ==
  /\ writes # <<>> => phase = "connecting" /\ connectingPending
  /\ writes \in Commits =>
       begun = pending /\ pending \in tried /\ pending # None
  /\ writes \in Rollbacks => broken
  /\ up => begun \in tried /\ begun # None
  /\ phase = "connecting" /\ connectingPending => begun = pending
  /\ phase = "connecting" /\ ~connectingPending => begun \in saved
  /\ phase = "online" => begun \in saved

StoredSaved ==
  writes \notin Rollbacks =>
    Stored \in saved \cup (IF writes \in Commits THEN {pending} ELSE {})

WifiIInv ==
  /\ WifiTypeOK /\ Worked /\ InUse /\ Unused /\ Progress /\ Begun /\ StoredSaved

\* ---- What is left to write

LEMMA CommitFacts ==
  /\ Len(CommitWrites) = 9 /\ Head(CommitWrites) = "invalid"
  /\ Len(FromSsid) = 8 /\ Head(FromSsid) = "ssid"
  /\ Len(FromPass) = 7 /\ Head(FromPass) = "pass"
  /\ Len(FromGen) = 6 /\ Head(FromGen) = "gen"
  /\ Len(FromValid) = 5 /\ Head(FromValid) = "valid"
  /\ Len(FromActive) = 4 /\ Head(FromActive) = "active"
  /\ Len(FromMigrated) = 3 /\ Head(FromMigrated) = "migrated"
  /\ Len(FromNoSsid) = 2 /\ Head(FromNoSsid) = "no_ssid"
  /\ Len(FromNoPassword) = 1 /\ Head(FromNoPassword) = "no_password"
BY DEF CommitWrites, FromSsid, FromPass, FromGen, FromValid, FromActive,
       FromMigrated, FromNoSsid, FromNoPassword

LEMMA CommitTails ==
  /\ Tail(CommitWrites) = FromSsid
  /\ Tail(FromSsid) = FromPass
  /\ Tail(FromPass) = FromGen
  /\ Tail(FromGen) = FromValid
  /\ Tail(FromValid) = FromActive
  /\ Tail(FromActive) = FromMigrated
  /\ Tail(FromMigrated) = FromNoSsid
  /\ Tail(FromNoSsid) = FromNoPassword
<1>1. Tail(CommitWrites) = FromSsid
  BY DEF CommitWrites, FromSsid
<1>2. Tail(FromSsid) = FromPass
  BY DEF FromSsid, FromPass
<1>3. Tail(FromPass) = FromGen
  BY DEF FromPass, FromGen
<1>4. Tail(FromGen) = FromValid
  BY DEF FromGen, FromValid
<1>5. Tail(FromValid) = FromActive
  BY DEF FromValid, FromActive
<1>6. Tail(FromActive) = FromMigrated
  BY DEF FromActive, FromMigrated
<1>7. Tail(FromMigrated) = FromNoSsid
  BY DEF FromMigrated, FromNoSsid
<1>8. Tail(FromNoSsid) = FromNoPassword
  BY DEF FromNoSsid, FromNoPassword
<1> QED
  BY <1>1, <1>2, <1>3, <1>4, <1>5, <1>6, <1>7, <1>8

LEMMA RollbackFacts ==
  /\ Len(RollbackWrites) = 3 /\ Head(RollbackWrites) = "invalid"
  /\ Len(FromBack) = 2 /\ Head(FromBack) = "back"
  /\ Len(FromUnmigrated) = 1 /\ Head(FromUnmigrated) = "unmigrated"
  /\ Tail(RollbackWrites) = FromBack
  /\ Tail(FromBack) = FromUnmigrated
BY DEF RollbackWrites, FromBack, FromUnmigrated

LEMMA LastWrite ==
  /\ \A w \in Commits : w # <<>> /\ w[Len(w)] = "no_password"
  /\ \A w \in Rollbacks : w # <<>> /\ w[Len(w)] = "unmigrated"
<1>1. \A w \in Commits : w # <<>> /\ w[Len(w)] = "no_password"
  <2>1. CommitWrites # <<>> /\ CommitWrites[Len(CommitWrites)] = "no_password"
    BY DEF CommitWrites
  <2>2. FromSsid # <<>> /\ FromSsid[Len(FromSsid)] = "no_password"
    BY DEF FromSsid
  <2>3. FromPass # <<>> /\ FromPass[Len(FromPass)] = "no_password"
    BY DEF FromPass
  <2>4. FromGen # <<>> /\ FromGen[Len(FromGen)] = "no_password"
    BY DEF FromGen
  <2>5. FromValid # <<>> /\ FromValid[Len(FromValid)] = "no_password"
    BY DEF FromValid
  <2>6. FromActive # <<>> /\ FromActive[Len(FromActive)] = "no_password"
    BY DEF FromActive
  <2>7. FromMigrated # <<>> /\ FromMigrated[Len(FromMigrated)] = "no_password"
    BY DEF FromMigrated
  <2>8. FromNoSsid # <<>> /\ FromNoSsid[Len(FromNoSsid)] = "no_password"
    BY DEF FromNoSsid
  <2>9. /\ FromNoPassword # <<>>
        /\ FromNoPassword[Len(FromNoPassword)] = "no_password"
    BY DEF FromNoPassword
  <2> QED
    BY <2>1, <2>2, <2>3, <2>4, <2>5, <2>6, <2>7, <2>8, <2>9
       DEF Commits, Unturned, Turned, Blanked
<1>2. \A w \in Rollbacks : w # <<>> /\ w[Len(w)] = "unmigrated"
  <2>1. /\ RollbackWrites # <<>>
        /\ RollbackWrites[Len(RollbackWrites)] = "unmigrated"
    BY DEF RollbackWrites
  <2>2. FromBack # <<>> /\ FromBack[Len(FromBack)] = "unmigrated"
    BY DEF FromBack
  <2>3. /\ FromUnmigrated # <<>>
        /\ FromUnmigrated[Len(FromUnmigrated)] = "unmigrated"
    BY DEF FromUnmigrated
  <2> QED
    BY <2>1, <2>2, <2>3 DEF Rollbacks
<1> QED
  BY <1>1, <1>2

LEMMA WhichWrites ==
  ASSUME WifiTypeOK
  PROVE  /\ RollingBack <=> writes \in Rollbacks
         /\ Committing <=> writes \in Commits
         /\ Idle <=> writes = <<>>
BY LastWrite DEF WifiTypeOK, RollingBack, Committing, Idle

\* ---- The flash

LEMMA TargetFacts ==
  ASSUME WifiTypeOK
  PROVE  /\ Target \in Slots
         /\ Known <=> active.valid /\ active.slot < 2
         /\ Known => Target # active.slot
         /\ ~Known => Target = 0 /\ active.slot = Nowhere
BY DEF WifiTypeOK, Target, Slots, Nowhere, Known

LEMMA StoredIs ==
  /\ Loadable <=> store.active \in Slots /\ Whole(store.active)
  /\ Loadable => Stored = Pair(store.active)
  /\ ~Loadable => Stored = IF store.migrated = 1 THEN None ELSE OldPair
<1>1. Loadable <=> store.active \in Slots /\ Whole(store.active)
  BY DEF Loadable, Whole, Slots
<1>2. Loadable => Stored = Pair(store.active)
  BY DEF Stored, CredentialLoad, Pair
<1>3. ~Loadable => Stored = IF store.migrated = 1 THEN None ELSE OldPair
  BY DEF Stored, LegacyUsable, MayUseLegacy
<1> QED
  BY <1>1, <1>2, <1>3

LEMMA StoredIsNext ==
  /\ Loadable' <=> store'.active \in Slots /\ Whole(store.active)'
  /\ Loadable' => Stored' = Pair(store.active)'
  /\ ~Loadable' => Stored' = IF store'.migrated = 1 THEN None ELSE OldPair'
<1>1. Loadable' <=> store'.active \in Slots /\ Whole(store.active)'
  BY DEF Loadable, Whole, Slots
<1>2. Loadable' => Stored' = Pair(store.active)'
  BY DEF Stored, CredentialLoad, Pair
<1>3. ~Loadable' => Stored' = IF store'.migrated = 1 THEN None ELSE OldPair'
  BY DEF Stored, LegacyUsable, MayUseLegacy
<1> QED
  BY <1>1, <1>2, <1>3

LEMMA StoredFacts ==
  ASSUME NetworksAssumption, WifiTypeOK
  PROVE  /\ \A s \in Slots : Whole(s) => Pair(s) \in Credentials
         /\ OldPair \in Credentials \cup {None}
         /\ None \notin Credentials
<1>1. ASSUME NEW s \in Slots, Whole(s)
      PROVE  Pair(s) \in Credentials
  <2>1. store.slot[s] \in Slot
    BY <1>1 DEF WifiTypeOK, Store
  <2> QED
    BY <1>1, <2>1 DEF Slot, Whole, Pair, Credentials
<1>2. OldPair \in Credentials \cup {None}
  BY DEF OldPair, WifiTypeOK, Store, Credentials
<1> QED
  BY <1>1, <1>2 DEF NetworksAssumption

\* What a write to the slot that is not in use leaves alone.
SlotWritten(slot) ==
  store' = [store EXCEPT !.slot = [store.slot EXCEPT ![Target] = slot]]

LEMMA Puts ==
  ASSUME WifiTypeOK, NEW write, store' = Put(write)
  PROVE  LET slot == store.slot[Target]
         IN /\ write = "invalid" => SlotWritten([slot EXCEPT !.valid = 0])
            /\ write = "ssid" => SlotWritten([slot EXCEPT !.ssid = pending[1]])
            /\ write = "pass" => SlotWritten([slot EXCEPT !.pass = pending[2]])
            /\ write = "gen" => SlotWritten([slot EXCEPT !.gen = TRUE])
            /\ write = "valid" => SlotWritten([slot EXCEPT !.valid = 1])
            /\ write = "active" => store' = [store EXCEPT !.active = Target]
            /\ write = "migrated" => store' = [store EXCEPT !.migrated = 1]
            /\ write = "no_ssid" => store' = [store EXCEPT !.ssid = None]
            /\ write = "no_password" =>
                 store' = [store EXCEPT !.password = None]
            /\ write = "back" =>
                 store' = [store EXCEPT !.active =
                             IF Known THEN active.slot ELSE Nowhere]
            /\ write = "unmigrated" =>
                 store' = [store EXCEPT !.migrated = IF Known THEN 1 ELSE 0]
<1> DEFINE slot == store.slot[Target]
<1>1. CASE write = "invalid"
  BY <1>1, TargetFacts DEF Put, SlotWritten, WifiTypeOK, Store, Slot
<1>2. CASE write = "ssid"
  BY <1>2, TargetFacts DEF Put, SlotWritten, WifiTypeOK, Store, Slot
<1>3. CASE write = "pass"
  BY <1>3, TargetFacts DEF Put, SlotWritten, WifiTypeOK, Store, Slot
<1>4. CASE write = "gen"
  BY <1>4, TargetFacts DEF Put, SlotWritten, WifiTypeOK, Store, Slot
<1>5. CASE write = "valid"
  BY <1>5, TargetFacts DEF Put, SlotWritten, WifiTypeOK, Store, Slot
<1>6. CASE write \in {"active", "migrated", "no_ssid", "no_password"}
  BY <1>6 DEF Put
<1>7. CASE write \in {"back", "unmigrated"}
  BY <1>7, TargetFacts DEF Put
<1> QED
  BY <1>1, <1>2, <1>3, <1>4, <1>5, <1>6, <1>7

LEMMA SlotWriteKeeps ==
  ASSUME WifiTypeOK, NEW slot \in Slot, SlotWritten(slot)
  PROVE  /\ store' \in Store
         /\ store'.slot[Target] = slot
         /\ store'.active = store.active /\ store'.migrated = store.migrated
         /\ \A s \in Slots : s # Target => store'.slot[s] = store.slot[s]
         /\ OldPair' = OldPair
<1>1. Target \in Slots
  BY TargetFacts
<1>2. /\ store'.slot \in [Slots -> Slot] /\ store'.slot[Target] = slot
      /\ \A s \in Slots : s # Target => store'.slot[s] = store.slot[s]
  BY <1>1 DEF SlotWritten, WifiTypeOK, Store
<1>3. /\ OldPair' = OldPair
      /\ store'.active = store.active /\ store'.migrated = store.migrated
  BY DEF SlotWritten, OldPair, WifiTypeOK, Store
<1>4. store' \in Store
  BY <1>2 DEF SlotWritten, WifiTypeOK, Store
<1> QED
  BY <1>2, <1>3, <1>4

\* ---- A step of a commit or of its rollback

SlotWrites == {CommitWrites, FromSsid, FromPass, FromGen, FromValid,
               RollbackWrites}

\* What the slot holds that is written next.
Written ==
  LET slot == store.slot[Target]
  IN CASE Head(writes) = "invalid" -> [slot EXCEPT !.valid = 0]
       [] Head(writes) = "ssid" -> [slot EXCEPT !.ssid = pending[1]]
       [] Head(writes) = "pass" -> [slot EXCEPT !.pass = pending[2]]
       [] Head(writes) = "gen" -> [slot EXCEPT !.gen = TRUE]
       [] Head(writes) = "valid" -> [slot EXCEPT !.valid = 1]

LEMMA SlotWrite ==
  ASSUME WifiIInv, Write, writes \in SlotWrites
  PROVE  Written \in Slot /\ SlotWritten(Written)
<1> DEFINE slot == store.slot[Target]
<1>1. WifiTypeOK /\ store' = Put(Head(writes))
  BY DEF WifiIInv, Write
<1>2. slot \in Slot
  BY <1>1, TargetFacts DEF WifiTypeOK, Store
<1>3. writes \in Commits => pending \in Credentials
  BY <1>1 DEF WifiIInv, Begun, WifiTypeOK
<1>4. CASE Head(writes) \in {"invalid", "gen", "valid"}
  <2>1. CASE Head(writes) = "invalid"
    <3>1. Written = [slot EXCEPT !.valid = 0]
      BY <2>1 DEF Written
    <3>2. [slot EXCEPT !.valid = 0] \in Slot
      BY <1>2 DEF Slot
    <3> QED
      BY <1>1, <2>1, <3>1, <3>2, Puts
  <2>2. CASE Head(writes) = "gen"
    <3>1. Written = [slot EXCEPT !.gen = TRUE]
      BY <2>2 DEF Written
    <3>2. [slot EXCEPT !.gen = TRUE] \in Slot
      BY <1>2 DEF Slot
    <3> QED
      BY <1>1, <2>2, <3>1, <3>2, Puts
  <2>3. CASE Head(writes) = "valid"
    <3>1. Written = [slot EXCEPT !.valid = 1]
      BY <2>3 DEF Written
    <3>2. [slot EXCEPT !.valid = 1] \in Slot
      BY <1>2 DEF Slot
    <3> QED
      BY <1>1, <2>3, <3>1, <3>2, Puts
  <2> QED
    BY <1>4, <2>1, <2>2, <2>3
<1>5. CASE writes \in {FromSsid, FromPass}
  <2>1. pending[1] \in Ssids /\ pending[2] \in Passwords
    BY <1>3, <1>5 DEF Commits, Unturned, Blanked, Credentials
  <2> QED
    BY <1>1, <1>2, <1>5, <2>1, Puts, CommitFacts DEF Written, Slot
<1> QED
  BY <1>4, <1>5, CommitFacts, RollbackFacts DEF SlotWrites

LEMMA SlotWritePreserves ==
  ASSUME NetworksAssumption, WifiIInv, Write, writes \in SlotWrites
  PROVE  WifiIInv'
<1>1. /\ WifiTypeOK /\ Worked /\ InUse /\ Unused /\ Progress /\ Begun
      /\ StoredSaved
  BY DEF WifiIInv
<1>2. /\ Target' = Target /\ Target \in Slots /\ Known' = Known
      /\ Known => Target # active.slot
      /\ ~Known => Target = 0
  BY <1>1, TargetFacts DEF Write, screen, Target, Known
<1>3. /\ store' \in Store
      /\ store'.slot[Target] = Written
      /\ store'.active = store.active /\ store'.migrated = store.migrated
      /\ \A s \in Slots : s # Target => store'.slot[s] = store.slot[s]
      /\ OldPair' = OldPair
  BY <1>1, SlotWrite, SlotWriteKeeps
<1>4. /\ writes = CommitWrites => writes' = FromSsid
      /\ writes = FromSsid => writes' = FromPass
      /\ writes = FromPass => writes' = FromGen
      /\ writes = FromGen => writes' = FromValid
      /\ writes = FromValid => writes' = FromActive
      /\ writes = RollbackWrites => writes' = FromBack
  BY CommitTails, RollbackFacts DEF Write
<1>5. WifiTypeOK'
  BY <1>1, <1>3, <1>4
     DEF WifiTypeOK, Write, screen, radio, SlotWrites, Commits, Unturned,
         Blanked,
         Rollbacks
<1>6. /\ writes \in {CommitWrites, FromSsid, FromPass, FromGen,
                     RollbackWrites} => Written.valid = 0
      /\ writes = FromValid => Written.valid = 1
      /\ writes \in {FromSsid, FromPass, FromGen, FromValid} =>
           Written.ssid = pending[1]
      /\ writes \in {FromPass, FromGen, FromValid} =>
           Written.pass = pending[2]
      /\ writes \in {FromGen, FromValid} => Written.gen
  <2> DEFINE slot == store.slot[Target]
  <2>1. slot \in Slot
    BY <1>1, <1>2 DEF WifiTypeOK, Store
  <2>2. /\ writes \in {CommitWrites, RollbackWrites} =>
             Written = [slot EXCEPT !.valid = 0]
        /\ writes = FromSsid => Written = [slot EXCEPT !.ssid = pending[1]]
        /\ writes = FromPass => Written = [slot EXCEPT !.pass = pending[2]]
        /\ writes = FromGen => Written = [slot EXCEPT !.gen = TRUE]
        /\ writes = FromValid => Written = [slot EXCEPT !.valid = 1]
    BY CommitFacts, RollbackFacts DEF Written
  <2> QED
    BY <1>1, <2>1, <2>2, CommitFacts, RollbackFacts
       DEF Progress, Slot, Blanked, Commits, Unturned
<1>7. /\ pending \in Credentials \cup {None} /\ pending' = pending
      /\ active' = active /\ saved' = saved /\ tried' = tried
      /\ writes \in Commits =>
           pending \in tried /\ pending = <<pending[1], pending[2]>>
  BY <1>1 DEF Write, screen, WifiTypeOK, Begun, Credentials
<1>8. \A s \in Slots : Whole(s)' =>
        \/ s # Target /\ Whole(s) /\ Pair(s)' = Pair(s)
        \/ s = Target /\ writes = FromValid /\ Pair(s)' = pending
  <2> SUFFICES ASSUME NEW s \in Slots, Whole(s)'
               PROVE  \/ s # Target /\ Whole(s) /\ Pair(s)' = Pair(s)
                      \/ s = Target /\ writes = FromValid /\ Pair(s)' = pending
    OBVIOUS
  <2>1. CASE s = Target
    <3>1. writes = FromValid
      BY <1>3, <1>6, <2>1 DEF Whole, SlotWrites
    <3> QED
      BY <1>3, <1>6, <1>7, <2>1, <3>1 DEF Pair, Commits, Unturned, Blanked
  <2>2. CASE s # Target
    BY <1>3, <2>2 DEF Whole, Pair
  <2> QED
    BY <2>1, <2>2
<1>9. Worked'
  BY <1>1, <1>3, <1>7, <1>8 DEF Worked, Commits, Unturned, Blanked
<1>10. InUse'
  <2> SUFFICES ASSUME Known
               PROVE  InUse'
    BY <1>2 DEF InUse
  <2>1. store'.slot[active.slot] = store.slot[active.slot]
    BY <1>2, <1>3 DEF Known
  <2>2. Whole(active.slot)' /\ Pair(active.slot)' \in saved'
    BY <1>1, <1>7, <2>1 DEF InUse, Whole, Pair
  <2>3. writes' \in {<<>>, FromUnmigrated} \cup Unturned =>
          store'.active = active'.slot
    BY <1>1, <1>3, <1>4, <1>7, CommitFacts, RollbackFacts
       DEF InUse, SlotWrites, Unturned, Blanked
  <2> QED
    BY <1>7, <2>2, <2>3 DEF InUse
<1>11. Unused'
  BY <1>1, <1>2, <1>3, <1>4, <1>7, CommitFacts, RollbackFacts
     DEF Unused, SlotWrites, Unturned, Blanked
<1>12. Progress'
  <2>1. writes' \in Blanked \cup {FromBack, FromUnmigrated} =>
          Written.valid = 0
    BY <1>4, <1>6, CommitFacts, RollbackFacts DEF SlotWrites, Blanked
  <2>2. writes' \in (Commits \ {CommitWrites, FromSsid}) =>
          Written.ssid = pending[1]
    BY <1>4, <1>6, CommitFacts, RollbackFacts
       DEF SlotWrites, Commits, Unturned, Blanked, Turned
  <2>3. writes' \in (Commits \ {CommitWrites, FromSsid, FromPass}) =>
          Written.pass = pending[2]
    BY <1>4, <1>6, CommitFacts, RollbackFacts
       DEF SlotWrites, Commits, Unturned, Blanked, Turned
  <2>4. /\ writes' \in {FromValid, FromActive} \cup Turned => Written.gen
        /\ writes' \in {FromActive} \cup Turned => Written.valid = 1
        /\ writes' \notin Turned
    BY <1>4, <1>6, CommitFacts, RollbackFacts DEF SlotWrites, Turned
  <2> QED
    BY <1>2, <1>3, <1>7, <2>1, <2>2, <2>3, <2>4 DEF Progress
<1>13. Begun'
  <2>1. \/ writes \in Commits /\ writes' \notin Rollbacks
        \/ writes \in Rollbacks /\ writes' \notin Commits
    <3>1. CASE writes = RollbackWrites
      BY <1>4, <3>1, CommitFacts, RollbackFacts
         DEF Rollbacks, Commits, Unturned, Blanked, Turned
    <3>2. CASE writes # RollbackWrites
      BY <1>4, <3>2, CommitFacts, RollbackFacts
         DEF SlotWrites, Rollbacks, Commits, Unturned, Blanked
    <3> QED
      BY <3>1, <3>2
  <2>2. writes # <<>>
    BY LastWrite DEF SlotWrites, Commits, Rollbacks, Unturned, Blanked
  <2> QED
    BY <1>1, <2>1, <2>2 DEF Begun, Write, screen, radio
<1>14. StoredSaved'
  <2> SUFFICES ASSUME writes # RollbackWrites
               PROVE  Stored' \in saved \cup {pending}
    <3>1. writes = RollbackWrites => writes' \in Rollbacks
      BY <1>4 DEF Rollbacks
    <3>2. writes # RollbackWrites => writes' \in Commits
      BY <1>4 DEF SlotWrites, Commits, Unturned, Blanked
    <3> QED
      BY <1>7, <3>1, <3>2 DEF StoredSaved
  <2>1. /\ writes \in Unturned /\ writes # FromActive
        /\ writes \in Commits /\ writes \notin Rollbacks
    BY CommitFacts, RollbackFacts
       DEF SlotWrites, Rollbacks, Commits, Unturned, Blanked
  <2>2. Stored \in saved \cup {pending}
    BY <1>1, <2>1 DEF StoredSaved
  <2>3. CASE Loadable'
    BY <1>3, <1>8, <2>2, <2>3, StoredIs, StoredIsNext
  <2>4. CASE ~Loadable'
    <3>1. writes' \in Unturned
      BY <1>4, <2>1, RollbackFacts, CommitFacts
         DEF SlotWrites, Unturned, Blanked
    <3>2. Known' => Loadable'
      BY <1>5, <1>10, <3>1, StoredIsNext DEF InUse, Known, Whole
    <3>3. ~Known
      BY <1>2, <2>4, <3>2
    <3>4. writes # FromNoPassword
      BY <2>1, CommitFacts DEF Unturned, Blanked
    <3> QED
      BY <1>1, <1>3, <2>1, <2>4, <3>3, <3>4, StoredIsNext DEF Unused
  <2> QED
    BY <2>3, <2>4
<1> QED
  BY <1>5, <1>9, <1>10, <1>11, <1>12, <1>13, <1>14 DEF WifiIInv

\* The writes that leave both slots alone.
LEMMA TurnPreserves ==
  ASSUME NetworksAssumption, WifiIInv, Write,
         writes \in {FromActive, FromMigrated, FromNoSsid, FromBack}
  PROVE  WifiIInv'
<1>1. /\ WifiTypeOK /\ Worked /\ InUse /\ Unused /\ Progress /\ Begun
      /\ StoredSaved
  BY DEF WifiIInv
<1>2. /\ Target' = Target /\ Target \in Slots /\ Known' = Known
      /\ Known => Target # active.slot
      /\ ~Known => Target = 0
  BY <1>1, TargetFacts DEF Write, screen, Target, Known
<1>3. /\ writes = FromActive =>
           /\ store' = [store EXCEPT !.active = Target]
           /\ writes' = FromMigrated
      /\ writes = FromMigrated =>
           /\ store' = [store EXCEPT !.migrated = 1]
           /\ writes' = FromNoSsid
      /\ writes = FromNoSsid =>
           /\ store' = [store EXCEPT !.ssid = None]
           /\ writes' = FromNoPassword
      /\ writes = FromBack =>
           /\ store' = [store EXCEPT !.active =
                           IF Known THEN active.slot ELSE Nowhere]
           /\ writes' = FromUnmigrated
  <2>1. WifiTypeOK /\ store' = Put(Head(writes)) /\ writes' = Tail(writes)
    BY <1>1 DEF Write
  <2>2. ASSUME writes = FromActive
        PROVE  /\ store' = [store EXCEPT !.active = Target]
               /\ writes' = FromMigrated
    <3>1. store' = Put("active")
      BY <2>1, <2>2, CommitFacts, RollbackFacts
    <3>2. store' = [store EXCEPT !.active = Target]
      BY <3>1 DEF Put
    <3> QED
      BY <2>1, <2>2, <3>2, CommitTails, RollbackFacts
  <2>3. ASSUME writes = FromMigrated
        PROVE  /\ store' = [store EXCEPT !.migrated = 1]
               /\ writes' = FromNoSsid
    <3>1. store' = Put("migrated")
      BY <2>1, <2>3, CommitFacts, RollbackFacts
    <3>2. store' = [store EXCEPT !.migrated = 1]
      BY <3>1 DEF Put
    <3> QED
      BY <2>1, <2>3, <3>2, CommitTails, RollbackFacts
  <2>4. ASSUME writes = FromNoSsid
        PROVE  /\ store' = [store EXCEPT !.ssid = None]
               /\ writes' = FromNoPassword
    <3>1. store' = Put("no_ssid")
      BY <2>1, <2>4, CommitFacts, RollbackFacts
    <3>2. store' = [store EXCEPT !.ssid = None]
      BY <3>1 DEF Put
    <3> QED
      BY <2>1, <2>4, <3>2, CommitTails, RollbackFacts
  <2>5. ASSUME writes = FromBack
        PROVE  /\ store' = [store EXCEPT !.active =
                             IF Known THEN active.slot ELSE Nowhere]
               /\ writes' = FromUnmigrated
    <3>1. store' = Put("back")
      BY <2>1, <2>5, CommitFacts, RollbackFacts
    <3>2. store' = [store EXCEPT !.active =
                             IF Known THEN active.slot ELSE Nowhere]
      BY <3>1, TargetFacts, <2>1 DEF Put
    <3> QED
      BY <2>1, <2>5, <3>2, CommitTails, RollbackFacts
  <2> QED
    BY <2>2, <2>3, <2>4, <2>5
<1>4. /\ pending' = pending /\ pending \in Credentials \cup {None}
      /\ active' = active /\ saved' = saved /\ tried' = tried
  BY <1>1 DEF Write, screen, WifiTypeOK
<1>5. /\ store' \in Store /\ store'.slot = store.slot
      /\ OldPair' \in {OldPair, None}
      /\ writes # FromNoSsid => OldPair' = OldPair
  BY <1>1, <1>2, <1>3 DEF WifiTypeOK, Store, OldPair, Known
<1>6. \A s \in Slots : (Whole(s)' <=> Whole(s)) /\ Pair(s)' = Pair(s)
  BY <1>5 DEF Whole, Pair
<1>7. WifiTypeOK'
  BY <1>1, <1>3, <1>5
     DEF WifiTypeOK, Write, screen, radio, Commits, Unturned, Turned, Rollbacks
<1>8. Worked'
  BY <1>1, <1>4, <1>5, <1>6 DEF Worked
<1>9. CASE writes = FromBack
  <2>1. /\ writes' = FromUnmigrated /\ writes' \in Rollbacks
        /\ writes' \notin Commits \cup Blanked \cup {FromActive} \cup Turned
        /\ writes' # <<>>
    BY <1>3, <1>9, RollbackFacts, CommitFacts, LastWrite
       DEF Rollbacks, Commits, Unturned, Blanked, Turned
  <2>2. store'.active = IF Known THEN active.slot ELSE Nowhere
    BY <1>1, <1>3, <1>9 DEF WifiTypeOK, Store
  <2>3. InUse'
    BY <1>1, <1>2, <1>4, <1>6, <2>2 DEF InUse, Known
  <2>4. Unused'
    BY <1>1, <1>2, <1>4, <1>5, <1>9, <2>1, <2>2, RollbackFacts, CommitFacts
       DEF Unused, Unturned, Commits
  <2>5. Progress'
    BY <1>1, <1>2, <1>5, <1>9, <2>1 DEF Progress, Blanked
  <2>6. Begun' /\ StoredSaved'
    BY <1>1, <1>9, <2>1, LastWrite
       DEF Begun, StoredSaved, Write, screen, radio, Rollbacks
  <2> QED
    BY <1>7, <1>8, <2>3, <2>4, <2>5, <2>6 DEF WifiIInv
<1>10. CASE writes # FromBack
  <2>1. /\ writes \in Commits /\ writes' \in Turned /\ writes' \in Commits
        /\ writes' \notin Unturned \cup Rollbacks \cup {<<>>}
        /\ writes \notin {CommitWrites, FromNoPassword} \cup Blanked
    BY <1>3, <1>10, RollbackFacts, CommitFacts, LastWrite
       DEF Rollbacks, Commits, Unturned, Blanked, Turned
  <2>2. store'.active = Target
    BY <1>1, <1>3, <1>10, <2>1 DEF WifiTypeOK, Store, Progress, Turned
  <2>3. InUse'
    BY <1>1, <1>2, <1>4, <1>6, <2>1, RollbackFacts, CommitFacts
       DEF InUse, Known, Turned
  <2>4. Unused'
    BY <1>1, <1>2, <1>3, <1>4, <1>5, <1>10, <2>1, RollbackFacts, CommitFacts
       DEF Unused, Turned
  <2>5. Progress'
    BY <1>1, <1>2, <1>4, <1>5, <1>10, <2>1, <2>2, RollbackFacts, CommitFacts
       DEF Progress, Turned, Unturned
  <2>6. Begun'
    BY <1>1, <2>1, LastWrite DEF Begun, Write, screen, radio
  <2>7. StoredSaved'
    <3>1. pending \in Credentials
      BY <1>1, <1>4, <2>1 DEF Begun
    <3>2. Whole(Target)' /\ Pair(Target)' = pending
      BY <1>2, <1>4, <2>1, <2>5, <3>1, CommitFacts
         DEF Progress, Whole, Pair, Turned, Credentials, NetworksAssumption
    <3>3. Stored' = pending'
      BY <1>2, <1>4, <2>2, <3>2, StoredIsNext DEF Whole, Pair
    <3> QED
      BY <1>4, <2>1, <3>3 DEF StoredSaved
  <2> QED
    BY <1>7, <1>8, <2>3, <2>4, <2>5, <2>6, <2>7 DEF WifiIInv
<1> QED
  BY <1>9, <1>10

LEMMA WritePreserves ==
  ASSUME NetworksAssumption, WifiIInv, Write
  PROVE  WifiIInv'
<1>1. writes \in SlotWrites
                 \cup {FromActive, FromMigrated, FromNoSsid, FromBack}
  <2>1. writes # <<>> /\ writes # FromNoPassword /\ writes # FromUnmigrated
    BY CommitFacts, RollbackFacts DEF Write
  <2> QED
    BY <2>1
       DEF WifiIInv, WifiTypeOK, SlotWrites, Commits, Unturned, Blanked, Turned,
                Rollbacks
<1> QED
  BY <1>1, SlotWritePreserves, TurnPreserves

LEMMA IdleProgress ==
  ASSUME writes' = <<>>
  PROVE  /\ Progress'
         /\ writes' \notin Commits \cup Rollbacks
BY LastWrite DEF Progress, Commits, Rollbacks, Unturned, Turned, Blanked

LEMMA RolledBackPreserves ==
  ASSUME NetworksAssumption, WifiIInv, RolledBack
  PROVE  WifiIInv'
<1>1. /\ WifiTypeOK /\ Worked /\ InUse /\ Unused /\ Progress /\ Begun
      /\ StoredSaved
  BY DEF WifiIInv
<1>2. writes = FromUnmigrated
  BY <1>1, WhichWrites, RollbackFacts DEF RolledBack, Rollbacks
<1>3. store' = [store EXCEPT !.migrated = IF Known THEN 1 ELSE 0]
  <2>1. store' = Put("unmigrated")
    BY <1>2, RollbackFacts DEF RolledBack
  <2> QED
    BY <1>1, <2>1, TargetFacts DEF Put
<1>4. /\ store' \in Store /\ store'.slot = store.slot
      /\ store'.active = store.active
      /\ store'.migrated = IF Known THEN 1 ELSE 0
      /\ OldPair' = OldPair
  BY <1>1, <1>3 DEF WifiTypeOK, Store, OldPair
<1>5. \A s \in Slots : (Whole(s)' <=> Whole(s)) /\ Pair(s)' = Pair(s)
  BY <1>4 DEF Whole, Pair
<1>6. /\ writes' = <<>> /\ active' = active /\ saved' = saved
      /\ tried' = tried /\ Known' = Known /\ pending' = None
      /\ <<>> \notin Commits \cup Rollbacks
  BY LastWrite DEF RolledBack, Known
<1>7. WifiTypeOK'
  BY <1>1, <1>4, <1>6 DEF WifiTypeOK, RolledBack, radio, Fail
<1>8. Worked'
  BY <1>1, <1>4, <1>5, <1>6 DEF Worked
<1>9. InUse'
  BY <1>1, <1>2, <1>4, <1>5, <1>6 DEF InUse, Known
<1>10. Unused'
  BY <1>1, <1>2, <1>4, <1>6, RollbackFacts, CommitFacts, LastWrite
     DEF Unused, Rollbacks
<1>11. Progress'
  BY <1>6, IdleProgress
<1>12. Begun'
  BY <1>1, <1>6 DEF Begun, RolledBack, radio, Fail
<1>13. Stored' \in saved'
  <2>1. CASE Known
    BY <1>6, <1>9, <2>1, StoredIsNext DEF InUse, Known, Whole, Pair
  <2>2. CASE ~Known
    <3>1. store'.active = Nowhere /\ OldPair \in saved
      BY <1>1, <1>2, <1>4, <2>2, RollbackFacts, CommitFacts DEF Unused
    <3> QED
      BY <1>4, <1>6, <2>2, <3>1, StoredIsNext DEF Slots, Nowhere
  <2> QED
    BY <2>1, <2>2
<1> QED
  BY <1>7, <1>8, <1>9, <1>10, <1>11, <1>12, <1>13 DEF WifiIInv, StoredSaved

LEMMA CommittedPreserves ==
  ASSUME NetworksAssumption, WifiIInv, Committed
  PROVE  WifiIInv'
<1>1. /\ WifiTypeOK /\ Worked /\ InUse /\ Unused /\ Progress /\ Begun
      /\ StoredSaved
  BY DEF WifiIInv
<1>2. writes = FromNoPassword
  <2>1. writes \in Commits /\ Len(writes) = 1
    BY <1>1, WhichWrites DEF Committed
  <2> QED
    BY <2>1, CommitFacts DEF Commits, Unturned, Blanked, Turned
<1>3. /\ store' \in Store /\ store'.slot = store.slot
      /\ store'.active = store.active /\ OldPair' \in {OldPair, None}
  <2>1. PICK removed \in BOOLEAN :
          store' = IF removed THEN Put("no_password") ELSE store
    BY <1>2, CommitFacts DEF Committed
  <2>2. Put("no_password") = [store EXCEPT !.password = None]
    BY DEF Put
  <2> QED
    BY <1>1, <2>1, <2>2 DEF WifiTypeOK, Store, OldPair
<1>4. \A s \in Slots : (Whole(s)' <=> Whole(s)) /\ Pair(s)' = Pair(s)
  BY <1>3 DEF Whole, Pair
<1>5. /\ writes' = <<>> /\ active' = [slot |-> Target, valid |-> TRUE]
      /\ saved' = {pending} /\ tried' = tried /\ pending' = None
      /\ phase' = "online" /\ connectingPending' = FALSE
      /\ begun' = begun /\ up' = up /\ broken' = FALSE
      /\ <<>> \notin Commits \cup Rollbacks
  BY LastWrite DEF Committed, Succeeded, Cleanup, radio
<1>6. /\ writes \in Commits \ ({CommitWrites, FromActive} \cup Blanked)
      /\ writes \in Turned
  BY <1>2, CommitFacts DEF Commits, Turned, Blanked
<1>7. /\ pending \in Credentials /\ pending \in tried /\ begun = pending
      /\ Target \in Slots
  BY <1>1, <1>6, TargetFacts DEF Begun, WifiTypeOK
<1>8. Whole(Target) /\ Pair(Target) = pending /\ store.active = Target
  BY <1>1, <1>6, <1>7, CommitFacts
     DEF Progress, Whole, Pair, Turned, Blanked, Credentials,
         NetworksAssumption
<1>9. WifiTypeOK'
  <2>1. IsFiniteSet(saved')
    BY <1>5, FS_Singleton
  <2> QED
    BY <1>1, <1>3, <1>5, <1>7, <2>1 DEF WifiTypeOK
<1>10. Worked'
  BY <1>1, <1>3, <1>4, <1>5 DEF Worked
<1>11. Known' /\ active'.slot = Target
  BY <1>5, <1>7 DEF Known
<1>12. InUse' /\ Unused'
  BY <1>3, <1>4, <1>5, <1>7, <1>8, <1>11 DEF InUse, Unused, Whole, Pair
<1>13. Progress'
  BY <1>5, IdleProgress
<1>14. Begun'
  BY <1>1, <1>5, <1>7 DEF Begun
<1>15. Stored' \in saved'
  BY <1>5, <1>11, <1>12, StoredIsNext DEF InUse, Known, Whole, Pair
<1> QED
  BY <1>9, <1>10, <1>12, <1>13, <1>14, <1>15 DEF WifiIInv, StoredSaved

\* ---- The other operations

LEMMA CommitPreserves ==
  ASSUME NetworksAssumption, WifiIInv, Commit
  PROVE  WifiIInv'
<1>1. /\ WifiTypeOK /\ Worked /\ InUse /\ Unused /\ Progress /\ Begun
      /\ StoredSaved
  BY DEF WifiIInv
<1>2. /\ writes = <<>> /\ writes' = CommitWrites
      /\ writes' \in Commits /\ writes' # <<>> /\ writes' \notin Rollbacks
      /\ writes' \notin Blanked \cup {FromBack, FromUnmigrated, FromActive}
                        \cup Turned
      /\ writes # FromNoPassword /\ writes \notin Rollbacks
  BY CommitFacts, RollbackFacts, LastWrite
     DEF Commit, Idle, Commits, Unturned, Blanked, Turned, Rollbacks
<1>3. UNCHANGED <<store, screen, begun, up, saved, tried>> /\ broken' = FALSE
  BY DEF Commit, radio
<1>4. WifiTypeOK'
  BY <1>1, <1>2, <1>3 DEF WifiTypeOK, screen
<1>5. Worked'
  BY <1>1, <1>3 DEF Worked, OldPair, Whole, Pair
<1>6. InUse' /\ Unused'
  BY <1>1, <1>2, <1>3
     DEF InUse, Unused, Known, Whole, Pair, OldPair, screen
<1>7. Progress'
  <2>1. Commits \ {CommitWrites, FromSsid, FromPass}
          \subseteq Commits \ {CommitWrites, FromSsid}
    OBVIOUS
  <2> QED
    BY <1>2, <2>1 DEF Progress, Blanked
<1>8. Begun'
  BY <1>1, <1>2, <1>3 DEF Begun, Commit, screen
<1>9. Stored' \in saved'
  <2>1. Stored' = Stored
    BY <1>3, StoredIs, StoredIsNext DEF Whole, Pair, OldPair
  <2> QED
    BY <1>1, <1>2, <1>3, <2>1, LastWrite DEF StoredSaved
<1> QED
  BY <1>2, <1>4, <1>5, <1>6, <1>7, <1>8, <1>9 DEF WifiIInv, StoredSaved

LEMMA WriteFailsPreserves ==
  ASSUME NetworksAssumption, WifiIInv, WriteFails
  PROVE  WifiIInv'
<1>1. /\ WifiTypeOK /\ Worked /\ InUse /\ Unused /\ Progress /\ Begun
      /\ StoredSaved
  BY DEF WifiIInv
<1>2. /\ writes' = RollbackWrites /\ writes' \in Rollbacks
      /\ writes' \notin Commits \cup {<<>>, FromUnmigrated, FromBack}
      /\ writes # <<>> /\ writes # FromNoPassword
  BY CommitFacts, RollbackFacts, LastWrite
     DEF WriteFails, Commits, Unturned, Blanked, Turned, Rollbacks
<1>3. UNCHANGED <<store, screen, begun, up, saved, tried>> /\ broken' = TRUE
  BY DEF WriteFails, radio
<1>4. WifiTypeOK'
  BY <1>1, <1>2, <1>3 DEF WifiTypeOK, screen
<1>5. Worked'
  BY <1>1, <1>3 DEF Worked, OldPair, Whole, Pair
<1>6. InUse' /\ Unused'
  BY <1>1, <1>2, <1>3
     DEF InUse, Unused, Known, Whole, Pair, OldPair, screen, Commits
<1>7. Progress'
  <2>1. writes' \notin Commits \cup Blanked \cup Turned
                      \cup {FromBack, FromUnmigrated, FromValid, FromActive}
    BY <1>2 DEF Commits, Unturned, Blanked
  <2> QED
    BY <2>1 DEF Progress
<1>8. Begun'
  BY <1>1, <1>2, <1>3 DEF Begun, screen
<1>9. StoredSaved'
  BY <1>2 DEF StoredSaved
<1> QED
  BY <1>4, <1>5, <1>6, <1>7, <1>8, <1>9 DEF WifiIInv

\* The link comes and goes.
LEMMA LinkPreserves ==
  ASSUME NetworksAssumption, WifiIInv, LinkUp \/ LinkDown
  PROVE  WifiIInv'
<1>1. /\ WifiTypeOK /\ Worked /\ InUse /\ Unused /\ Progress /\ Begun
      /\ StoredSaved
  BY DEF WifiIInv
<1>2. /\ UNCHANGED <<store, screen, begun, writes, broken, saved>>
      /\ up' \in BOOLEAN /\ tried \subseteq tried'
      /\ up' => begun' \in tried' /\ begun' # None
  BY DEF LinkUp, LinkDown, NetworksAssumption
<1>3. WifiTypeOK'
  BY <1>1, <1>2 DEF WifiTypeOK, screen
<1>4. Worked'
  BY <1>1, <1>2 DEF Worked, OldPair, Whole, Pair
<1>5. InUse' /\ Unused'
  BY <1>1, <1>2 DEF InUse, Unused, Known, Whole, Pair, OldPair, screen
<1>6. Progress'
  BY <1>1, <1>2 DEF Progress, Target, screen
<1>7. Begun'
  BY <1>1, <1>2 DEF Begun, screen
<1>8. Stored' = Stored
  BY <1>2, StoredIs, StoredIsNext DEF Whole, Pair, OldPair
<1>9. StoredSaved'
  BY <1>1, <1>2, <1>8 DEF StoredSaved, screen
<1> QED
  BY <1>3, <1>4, <1>5, <1>6, <1>7, <1>9 DEF WifiIInv

\* A step between two commits that leaves the flash alone.
LEMMA IdleStep ==
  ASSUME NetworksAssumption, WifiIInv, Idle, Kept, UNCHANGED <<active, tried>>,
         pending' \in Credentials \cup {None},
         begun' \in Credentials \cup {None},
         up' \in BOOLEAN, connectingPending' \in BOOLEAN, Begun'
  PROVE  WifiIInv'
<1>1. /\ WifiTypeOK /\ Worked /\ InUse /\ Unused /\ Progress /\ Begun
      /\ StoredSaved
  BY DEF WifiIInv
<1>2. /\ UNCHANGED <<store, writes, broken, saved, active, tried>>
      /\ writes = <<>>
  BY DEF Kept, Idle
<1>3. WifiTypeOK'
  BY <1>1, <1>2 DEF WifiTypeOK
<1>4. Worked'
  BY <1>1, <1>2 DEF Worked, OldPair, Whole, Pair
<1>5. InUse' /\ Unused'
  BY <1>1, <1>2 DEF InUse, Unused, Known, Whole, Pair, OldPair
<1>6. Progress'
  BY <1>2, IdleProgress
<1>7. Stored' = Stored
  BY <1>2, StoredIs, StoredIsNext DEF Whole, Pair, OldPair
<1>8. StoredSaved'
  BY <1>1, <1>2, <1>7, LastWrite DEF StoredSaved
<1> QED
  BY <1>3, <1>4, <1>5, <1>6, <1>8 DEF WifiIInv

\* What is begun is what is saved.
LEMMA BeginSavedFacts ==
  ASSUME NetworksAssumption, WifiIInv, Idle, BeginSaved(active)
  PROVE  /\ begun' \in Credentials \cup {None} /\ up' = FALSE
         /\ connectingPending' = FALSE
         /\ phase' \in {"connecting", "unprovisioned"}
         /\ phase' = "connecting" => begun' \in saved
<1>1. WifiTypeOK /\ InUse /\ Unused /\ writes = <<>>
  BY DEF WifiIInv, Idle
<1>2. CASE Known
  <2>1. Loadable /\ CredentialLoad = Pair(active.slot)
    BY <1>1, <1>2, StoredIs DEF InUse, CredentialLoad, Pair, Known
  <2>2. Saved(active) = Pair(active.slot)
    BY <1>1, <1>2, <2>1, TargetFacts DEF Saved
  <2>3. Pair(active.slot) \in Credentials \cap saved
    BY <1>1, <1>2, StoredFacts DEF InUse, Known
  <2> QED
    BY <2>2, <2>3 DEF BeginSaved, Try, RadioOff
<1>3. CASE ~Known
  <2>1. Saved(active) \in {None, OldPair}
    BY <1>1, <1>3, TargetFacts DEF Saved, Nowhere
  <2>2. OldPair \in saved
    BY <1>1, <1>3, CommitFacts, LastWrite
       DEF Unused, Commits, Turned
  <2> QED
    BY <1>1, <2>1, <2>2, StoredFacts DEF BeginSaved, Try, RadioOff
<1> QED
  BY <1>2, <1>3

\* The operations that find the flash as it is and leave it so.
LEMMA IdleOperations ==
  ASSUME NetworksAssumption, WifiIInv,
         \/ StartProvisioning \/ StartFails \/ CancelProvisioning \/ GetPage
         \/ \E entered \in Credentials : PostForm(entered)
         \/ PauseForApproval \/ Connected \/ SaveFails \/ ConnectTimesOut
         \/ Reconnect \/ Disconnected
  PROVE  WifiIInv'
<1>1. WifiTypeOK /\ Begun
  BY DEF WifiIInv
<1>2. <<>> \notin Commits \cup Rollbacks
  BY LastWrite
<1>3. CASE StartProvisioning
  <2>1. Begun'
    BY <1>1, <1>2, <1>3 DEF Begun, StartProvisioning, Kept, Idle, RadioOff
  <2> QED
    BY <1>1, <1>3, <2>1, IdleStep DEF StartProvisioning, RadioOff, WifiTypeOK
<1>4. CASE StartFails
  <2>1. BeginSaved(active) /\ Idle
    BY <1>4 DEF StartFails
  <2>2. Begun'
    BY <1>1, <1>2, <1>4, <2>1, BeginSavedFacts
       DEF Begun, StartFails, Kept, Idle, Cleanup
  <2> QED
    BY <1>1, <1>4, <2>1, <2>2, BeginSavedFacts, IdleStep
       DEF StartFails, Cleanup, WifiTypeOK
<1>5. CASE CancelProvisioning
  <2>1. BeginSaved(active) /\ Idle
    BY <1>5 DEF CancelProvisioning
  <2>2. Begun'
    BY <1>1, <1>2, <1>5, <2>1, BeginSavedFacts
       DEF Begun, CancelProvisioning, Kept, Idle, Cleanup
  <2> QED
    BY <1>1, <1>5, <2>1, <2>2, BeginSavedFacts, IdleStep
       DEF CancelProvisioning, Cleanup, WifiTypeOK
<1>6. CASE GetPage
  <2>1. Begun'
    BY <1>1, <1>2, <1>6 DEF Begun, GetPage, Kept, Idle, radio
  <2> QED
    BY <1>1, <1>6, <2>1, IdleStep DEF GetPage, radio, WifiTypeOK
<1>7. CASE PauseForApproval
  <2>1. Begun'
    BY <1>1, <1>2, <1>7 DEF Begun, PauseForApproval, Kept, Idle, RadioOff
  <2> QED
    BY <1>1, <1>7, <2>1, IdleStep DEF PauseForApproval, RadioOff, WifiTypeOK
<1>8. CASE Connected
  <2>1. Begun'
    BY <1>1, <1>2, <1>8
       DEF Begun, Connected, Kept, Idle, Succeeded, Cleanup, radio
  <2> QED
    BY <1>1, <1>8, <2>1, IdleStep
       DEF Connected, Succeeded, Cleanup, radio, WifiTypeOK
<1>9. CASE SaveFails
  <2>1. Begun'
    BY <1>1, <1>2, <1>9 DEF Begun, SaveFails, Kept, Idle, Fail, radio
  <2> QED
    BY <1>1, <1>9, <2>1, IdleStep DEF SaveFails, Fail, radio, WifiTypeOK
<1>10. CASE ConnectTimesOut
  <2>1. Begun'
    BY <1>1, <1>2, <1>10 DEF Begun, ConnectTimesOut, Kept, Idle, Fail, RadioOff
  <2> QED
    BY <1>1, <1>10, <2>1, IdleStep
       DEF ConnectTimesOut, Fail, RadioOff, WifiTypeOK
<1>11. CASE Reconnect
  <2>1. BeginSaved(active) /\ Idle
    BY <1>11 DEF Reconnect
  <2>2. Begun'
    BY <1>1, <1>2, <1>11, <2>1, BeginSavedFacts
       DEF Begun, Reconnect, Kept, Idle
  <2> QED
    BY <1>1, <1>11, <2>1, <2>2, BeginSavedFacts, IdleStep
       DEF Reconnect, WifiTypeOK
<1>12. CASE Disconnected
  <2>1. Begun'
    BY <1>1, <1>2, <1>12 DEF Begun, Disconnected, Kept, Idle, radio
  <2> QED
    BY <1>1, <1>12, <2>1, IdleStep DEF Disconnected, radio, WifiTypeOK
<1>13. CASE \E entered \in Credentials : PostForm(entered)
  <2>1. PICK entered \in Credentials : PostForm(entered)
    BY <1>13
  <2>2. Begun'
    BY <1>1, <1>2, <2>1 DEF Begun, PostForm, Try, Kept, Idle
  <2> QED
    BY <1>1, <2>1, <2>2, IdleStep DEF PostForm, Try, WifiTypeOK
<1> QED
  BY <1>3, <1>4, <1>5, <1>6, <1>7, <1>8, <1>9, <1>10, <1>11, <1>12, <1>13

LEMMA ForgetPreserves ==
  ASSUME NetworksAssumption, WifiIInv, NEW cleared \in BOOLEAN, Forget(cleared)
  PROVE  WifiIInv'
<1>1. WifiTypeOK /\ Worked /\ Unused /\ StoredSaved /\ Begun
  BY DEF WifiIInv
<1>2. /\ store' = IF cleared THEN EmptyStore ELSE store
      /\ saved' = IF cleared THEN {None} ELSE saved \cup {None, OldPair}
      /\ active' = NoActive /\ pending' = None /\ begun' = None /\ up' = FALSE
      /\ connectingPending' = FALSE /\ phase' = "unprovisioned"
      /\ writes' = <<>> /\ writes = <<>> /\ broken' = broken /\ tried' = tried
  BY DEF Forget, Idle, Cleanup, RadioOff
<1>3. /\ EmptyStore \in Store /\ EmptyStore.active = Nowhere
      /\ \A s \in Slots : EmptyStore.slot[s].valid = 0
      /\ EmptyStore.ssid = None /\ EmptyStore.migrated = 0
  BY DEF EmptyStore, EmptySlot, Store, Slot, Slots
<1>4. active'.slot = Nowhere /\ active'.valid = FALSE /\ ~Known'
  BY <1>2 DEF NoActive, Known, Nowhere, Slots
<1>5. WifiTypeOK'
  <2>1. IsFiniteSet(saved')
    <3>1. /\ IsFiniteSet({None})
          /\ IsFiniteSet((saved \cup {None}) \cup {OldPair})
      BY <1>1, FS_Singleton, FS_AddElement DEF WifiTypeOK
    <3>2. saved \cup {None, OldPair} = (saved \cup {None}) \cup {OldPair}
      OBVIOUS
    <3> QED
      BY <1>2, <3>1, <3>2
  <2>2. store' \in Store
    BY <1>1, <1>2, <1>3 DEF WifiTypeOK
  <2>3. active' \in [slot : Slots \cup {Nowhere}, valid : BOOLEAN]
    BY <1>2 DEF NoActive
  <2>4. active'.slot \notin Slots
    BY <1>4 DEF Nowhere, Slots
  <2> QED
    BY <1>1, <1>2, <2>1, <2>2, <2>3, <2>4 DEF WifiTypeOK
<1>6. Worked'
  BY <1>1, <1>2, <1>3 DEF Worked, Whole, Pair, OldPair
<1>7. /\ None \in saved' /\ OldPair' \in saved'
  BY <1>2, <1>3 DEF OldPair
<1>8. InUse' /\ Unused'
  BY <1>2, <1>4, <1>7, RollbackFacts, LastWrite DEF InUse, Unused, Rollbacks
<1>9. Progress' /\ Begun'
  BY <1>2, IdleProgress DEF Begun
<1>10. Stored' \in saved'
  <2>1. CASE cleared
    BY <1>2, <1>3, <1>7, <2>1, StoredIsNext DEF Whole
  <2>2. CASE ~cleared
    <3>1. Stored' = Stored
      BY <1>2, <2>2, StoredIs, StoredIsNext DEF Whole, Pair, OldPair
    <3> QED
      BY <1>1, <1>2, <2>2, <3>1, LastWrite DEF StoredSaved
  <2> QED
    BY <2>1, <2>2
<1> QED
  BY <1>5, <1>6, <1>8, <1>9, <1>10 DEF WifiIInv, StoredSaved

LEMMA TwoForgetFailed ==
  ASSUME WifiTypeOK, NEW a \in saved, NEW b \in saved, a # b
  PROVE  ForgetFailed
<1>1. IsFiniteSet({a}) /\ Cardinality({a}) = 1
  BY FS_Singleton
<1>2. Cardinality({a} \cup {b}) = 2
  BY <1>1, FS_AddElement
<1>3. Cardinality({a} \cup {b}) <= Cardinality(saved)
  BY FS_Subset DEF WifiTypeOK
<1>4. Cardinality(saved) \in Nat
  BY FS_CardinalityType DEF WifiTypeOK
<1> QED
  BY <1>2, <1>3, <1>4 DEF ForgetFailed

LEMMA ResetPreserves ==
  ASSUME NetworksAssumption, WifiIInv, Reset
  PROVE  WifiIInv'
<1>1. /\ WifiTypeOK /\ Worked /\ InUse /\ Unused /\ Progress /\ Begun
      /\ StoredSaved
  BY DEF WifiIInv
<1>2. /\ store' = store /\ tried' = tried /\ active' = StoredActive
      /\ pending' = None /\ writes' = <<>> /\ broken' = FALSE
      /\ BeginSaved(StoredActive)
  BY DEF Reset, Cleanup
<1>3. \/ writes = <<>> /\ saved' = saved
      \/ /\ writes \in Commits
         /\ saved' = {Stored} \cup (IF ForgetFailed THEN saved ELSE {})
  <2>1. writes \in {<<>>} \cup Commits
    BY <1>1, WhichWrites DEF Reset, Begun, WifiTypeOK
  <2> QED
    BY <1>1, <2>1, WhichWrites, LastWrite DEF Reset
<1>4. Stored \in saved'
  BY <1>1, <1>3, LastWrite DEF StoredSaved
<1>5. ASSUME ~Loadable
      PROVE  /\ OldPair \in saved'
             /\ store.migrated = 1 => None \in saved'
  <2>1. writes \notin Turned
    <3>1. SUFFICES ASSUME writes \in Turned
                   PROVE  FALSE
      OBVIOUS
    <3>2. /\ writes \in Commits \ ({CommitWrites} \cup Blanked)
          /\ pending \in Credentials /\ Target \in Slots
      BY <1>1, <3>1, CommitFacts, TargetFacts
         DEF Commits, Turned, Blanked, Begun, WifiTypeOK
    <3>3. Whole(Target) /\ store.active = Target
      BY <1>1, <3>1, <3>2, CommitFacts
         DEF Progress, Whole, Blanked, Credentials, NetworksAssumption
    <3> QED
      BY <1>5, <3>2, <3>3, StoredIs
  <2>2. writes \in {<<>>} \cup Unturned /\ writes # FromNoPassword
    BY <1>3, <2>1 DEF Commits, Turned
  <2>3. ~Known
    BY <1>1, <1>5, <2>2, StoredIs DEF InUse, Known
  <2>4. /\ OldPair \in saved
        /\ store.migrated = 1 => None \in saved
    BY <1>1, <2>2, <2>3 DEF Unused
  <2>5. Stored = IF store.migrated = 1 THEN None ELSE OldPair
    BY <1>5, StoredIs
  <2>6. CASE store.migrated = 1 /\ OldPair # None
    BY <1>1, <1>3, <1>4, <2>4, <2>5, <2>6, TwoForgetFailed
  <2>7. CASE store.migrated # 1 \/ OldPair = None
    BY <1>4, <2>5, <2>7
  <2> QED
    BY <2>6, <2>7
<1>6. /\ active' \in [slot : Slots \cup {Nowhere}, valid : BOOLEAN]
      /\ active'.slot = IF Loadable THEN store.active ELSE Nowhere
      /\ active'.valid = (Stored # None)
      /\ Loadable => store.active \in Slots /\ Stored # None
  BY <1>1, <1>2, StoredIs, StoredFacts DEF StoredActive, Slots
<1>7. Known' <=> Loadable
  BY <1>6 DEF Known, Nowhere, Slots
<1>8. IsFiniteSet(saved')
  <2>1. IsFiniteSet({Stored}) /\ IsFiniteSet(saved \cup {Stored})
    BY <1>1, FS_Singleton, FS_AddElement DEF WifiTypeOK
  <2>2. saved' \in {saved, {Stored}, saved \cup {Stored}}
    BY <1>3
  <2> QED
    BY <1>1, <2>1, <2>2 DEF WifiTypeOK
<1>9. /\ connectingPending' = FALSE /\ up' = FALSE
      /\ phase' \in {"connecting", "unprovisioned"}
      /\ begun' \in Credentials \cup {None}
      /\ phase' = "connecting" => begun' \in saved'
  <2>1. Saved(StoredActive)
          \in (Credentials \cup {None}) \cap (saved' \cup {None})
    <3>1. CASE Loadable
      <4>1. Saved(StoredActive) = Stored /\ Stored = Pair(store.active)
        <5>1. StoredActive.valid /\ StoredActive.slot < 2
          <6>1. StoredActive.valid = TRUE /\ StoredActive.slot = store.active
            BY <1>2, <1>6, <3>1
          <6> QED
            BY <1>6, <3>1, <6>1 DEF Slots
        <5>2. Stored = CredentialLoad
          BY <3>1 DEF Stored
        <5> QED
          BY <3>1, <5>1, <5>2, StoredIs DEF Saved
      <4> QED
        BY <1>1, <1>4, <1>6, <3>1, <4>1, StoredFacts, StoredIs
    <3>2. CASE ~Loadable
      <4>1. Saved(StoredActive) \in {None, OldPair}
        BY <3>2 DEF Saved, StoredActive, Nowhere
      <4> QED
        BY <1>1, <1>5, <3>2, <4>1, StoredFacts
    <3> QED
      BY <3>1, <3>2
  <2> QED
    BY <1>2, <2>1 DEF BeginSaved, Try, RadioOff
<1>10. WifiTypeOK'
  <2>1. active'.slot \in Slots => active'.valid
    BY <1>6 DEF Nowhere, Slots
  <2>2. store' \in Store
    BY <1>1, <1>2 DEF WifiTypeOK
  <2> QED
    BY <1>2, <1>6, <1>8, <1>9, <2>1, <2>2 DEF WifiTypeOK
<1>11. Worked'
  BY <1>1, <1>2 DEF Worked, Whole, Pair, OldPair
<1>12. InUse'
  BY <1>2, <1>4, <1>6, <1>7, StoredIs DEF InUse, Whole, Pair
<1>13. Unused'
  BY <1>2, <1>5, <1>7, RollbackFacts, LastWrite
     DEF Unused, OldPair, Rollbacks
<1>14. Progress' /\ Begun'
  BY <1>2, <1>9, IdleProgress DEF Begun
<1>15. Stored' \in saved'
  BY <1>2, <1>4, StoredIs, StoredIsNext DEF Whole, Pair, OldPair
<1> QED
  BY <1>10, <1>11, <1>12, <1>13, <1>14, <1>15 DEF WifiIInv, StoredSaved

LEMMA InitIInv ==
  ASSUME NetworksAssumption, WifiInit
  PROVE  WifiIInv
<1>1. PICK old \in Reachable \cup {None} :
        /\ store = IF old = None THEN EmptyStore
                   ELSE [EmptyStore EXCEPT !.ssid = old[1],
                                           !.password = old[2]]
        /\ saved = {old} /\ tried = {old, None}
        /\ active = [slot |-> Nowhere, valid |-> old # None]
        /\ phase = IF old # None THEN "connecting" ELSE "unprovisioned"
        /\ begun = old
  BY DEF WifiInit
<1>2. /\ up = FALSE /\ pending = None /\ connectingPending = FALSE
      /\ writes = <<>> /\ broken = FALSE
  BY DEF WifiInit
<1>3. old \in Credentials \cup {None} /\ None \notin Credentials
  BY DEF NetworksAssumption
<1>4. EmptyStore \in Store
  BY DEF EmptyStore, EmptySlot, Store, Slot, Slots
<1>5. /\ store \in Store /\ store.slot = EmptyStore.slot
      /\ store.active = Nowhere /\ store.migrated = 0
      /\ OldPair = old
  <2>1. CASE old = None
    BY <1>1, <1>4, <2>1 DEF EmptyStore, OldPair
  <2>2. CASE old # None
    <3>1. /\ old[1] \in Ssids /\ old[2] \in Passwords
          /\ old = <<old[1], old[2]>>
      BY <1>3, <2>2 DEF Credentials
    <3>2. store = [EmptyStore EXCEPT !.ssid = old[1], !.password = old[2]]
      BY <1>1, <2>2
    <3>3. store \in Store /\ store.slot = EmptyStore.slot
      BY <1>4, <3>1, <3>2 DEF Store
    <3>4. /\ store.active = Nowhere /\ store.migrated = 0
          /\ store.ssid = old[1] /\ store.password = old[2]
      BY <3>2 DEF EmptyStore
    <3> QED
      BY <3>1, <3>3, <3>4 DEF OldPair, NetworksAssumption
  <2> QED
    BY <2>1, <2>2
<1>6. \A s \in Slots : ~Whole(s)
  BY <1>5 DEF EmptyStore, EmptySlot, Slots, Whole
<1>7. WifiTypeOK
  <2>1. IsFiniteSet(saved)
    BY <1>1, FS_Singleton
  <2>2. active \in [slot : Slots \cup {Nowhere}, valid : BOOLEAN]
    BY <1>1
  <2>3. active.slot = Nowhere /\ Nowhere \notin Slots
    BY <1>1 DEF Nowhere, Slots
  <2> QED
    BY <1>1, <1>2, <1>3, <1>5, <2>1, <2>2, <2>3 DEF WifiTypeOK
<1>8. Worked
  BY <1>1, <1>5, <1>6 DEF Worked
<1>9. ~Known
  BY <1>1 DEF Known, Nowhere, Slots
<1>10. InUse /\ Unused
  BY <1>1, <1>2, <1>5, <1>9, RollbackFacts, LastWrite
     DEF InUse, Unused, Rollbacks
<1>11. Progress /\ Begun
  BY <1>1, <1>2, LastWrite
     DEF Progress, Begun, Commits, Rollbacks, Unturned, Turned, Blanked
<1>12. Stored \in saved
  BY <1>1, <1>5, StoredIs DEF Slots, Nowhere
<1> QED
  BY <1>7, <1>8, <1>10, <1>11, <1>12 DEF WifiIInv, StoredSaved

LEMMA NextPreserves ==
  ASSUME NetworksAssumption, WifiIInv, [WifiNext]_wifiVars
  PROVE  WifiIInv'
<1>1. CASE Reset
  BY <1>1, ResetPreserves
<1>2. CASE \E cleared \in BOOLEAN : Forget(cleared)
  BY <1>2, ForgetPreserves
<1>3. CASE \/ StartProvisioning \/ StartFails \/ CancelProvisioning
           \/ GetPage \/ \E entered \in Credentials : PostForm(entered)
           \/ PauseForApproval \/ Connected \/ SaveFails
           \/ ConnectTimesOut \/ Reconnect \/ Disconnected
  BY <1>3, IdleOperations
<1>4. CASE Commit \/ WriteFails \/ RolledBack \/ Committed \/ Write
  BY <1>4, CommitPreserves, WriteFailsPreserves, RolledBackPreserves,
     CommittedPreserves, WritePreserves
<1>5. CASE LinkUp \/ LinkDown
  BY <1>5, LinkPreserves, SMTT(30)
<1>6. CASE UNCHANGED wifiVars
  <2>1. UNCHANGED <<store, screen, radio, writes, broken, saved, tried>>
    BY <1>6 DEF wifiVars
  <2> QED
    BY <2>1 DEF WifiIInv, WifiTypeOK, Worked, InUse, Unused, Progress, Begun,
       StoredSaved, Stored, Loadable, CredentialLoad, LegacyUsable,
       MayUseLegacy, OldPair, Whole, Pair, Known, Target, screen, radio
<1> QED
  BY <1>1, <1>2, <1>3, <1>4, <1>5, <1>6 DEF WifiNext, Poll

\* The flash, the writes that are due and what was begun always fit together.
THEOREM WifiInvariant ==
  ASSUME NetworksAssumption
  PROVE  WifiSpec => []WifiIInv
<1>1. WifiInit => WifiIInv
  BY InitIInv
<1>2. WifiIInv /\ [WifiNext]_wifiVars => WifiIInv'
  BY NextPreserves
<1> QED
  BY <1>1, <1>2, PTL DEF WifiSpec

\* Whatever is interrupted and whichever write fails, a restart finds what was
\* saved last or is just being saved, and nothing that never worked; what is
\* online is what was saved (wifiCredentialCommit and its rollback).
THEOREM CredentialsAreWhole ==
  ASSUME NetworksAssumption
  PROVE  WifiSpec => []CredentialsWhole
<1>1. ASSUME WifiIInv
      PROVE  CredentialsWhole
  <2>1. /\ WifiTypeOK /\ Worked /\ Unused /\ Begun /\ StoredSaved
    BY <1>1 DEF WifiIInv
  <2>2. ~RollingBack =>
          Stored \in saved \cup (IF Committing THEN {pending} ELSE {})
    BY <2>1, WhichWrites DEF StoredSaved
  <2>3. Stored \in tried
    BY <2>1, StoredIs DEF Worked
  <2> QED
    BY <2>1, <2>2, <2>3 DEF CredentialsWhole, Begun
<1>2. WifiIInv => CredentialsWhole
  BY <1>1
<1> QED
  BY <1>2, WifiInvariant, PTL

------------------------------------------------------------------------------
\* ---- The pages

\* What the induction over a list rests on: a set of numbers has a least one.
LEMMA Least ==
  ASSUME NEW T \in SUBSET Nat, T # {}
  PROVE  \E x \in T : \A y \in T : x <= y
<1> DEFINE R == OpToRel(<, Nat)
<1>1. \A x, y \in Nat : <<y, x>> \in R <=> y < x
  BY DEF OpToRel
<1>2. IsWellFoundedOn(R, Nat) BY NatLessThanWellFounded, PTL
<1> HIDE DEF R
<1>3. PICK x \in T : \A y \in T : <<y, x>> \notin R BY <1>2, WFMin
<1>4. \A y \in T : x <= y
  <2> TAKE y \in T
  <2>1. x \in Nat /\ y \in Nat OBVIOUS
  <2>2. ~(y < x) BY <1>1, <1>3, <2>1
  <2> QED BY <2>1, <2>2
<1> QED BY <1>4

\* ---- Boxes

Boxes == [x : Int, y : Int, w : Int, h : Int]

\* Lines that lie beside each other within an area.
Neat(lines, area) == lines \in Seq(Boxes)
    /\ Pages!Tidy(Pages!Sheet(area, lines))

\* The fields of a box.
LEMMA BoxIs ==
  ASSUME NEW x \in Int, NEW y \in Int, NEW w \in Int, NEW h \in Int
  PROVE  /\ Pages!Box(x, y, w, h) \in Boxes
         /\ Pages!Box(x, y, w, h).x = x /\ Pages!Box(x, y, w, h).y = y
         /\ Pages!Box(x, y, w, h).w = w /\ Pages!Box(x, y, w, h).h = h
BY DEF Pages!Box, Boxes

\* What is neat, in terms of each line and of each two.
LEMMA NeatIs ==
  ASSUME NEW lines \in Seq(Boxes), NEW area
  PROVE  Neat(lines, area) <=>
           /\ \A i \in 1..Len(lines) : Pages!Inside(lines[i], area)
           /\ \A i, j \in 1..Len(lines) : i < j
                => Pages!Apart(lines[i], lines[j])
BY DEF Neat, Pages!Tidy, Pages!Sheet

\* No lines are neat anywhere.
LEMMA NeatNone == ASSUME NEW area PROVE Neat(<< >>, area)
<1> DEFINE l == << >>
<1>1. l \in Seq(Boxes) /\ Len(l) = 0 OBVIOUS
<1> HIDE DEF l
<1>2. 1..Len(l) = {} BY <1>1
<1>3. Neat(l, area) BY <1>1, <1>2, NeatIs, Zenon
<1> QED BY <1>3 DEF l

\* One line is neat in its own box.
LEMMA NeatOne ==
  ASSUME NEW box \in Boxes
  PROVE  Neat(<<box>>, box)
<1> DEFINE l == <<box>>
<1>1. l \in Seq(Boxes) /\ Len(l) = 1 /\ l[1] = box OBVIOUS
<1>2. Pages!Inside(box, box) BY DEF Pages!Inside, Boxes
<1> HIDE DEF l
<1>3. Neat(l, box) BY <1>1, <1>2, NeatIs
<1> QED BY <1>3 DEF l

\* Inside is transitive.
LEMMA InsideIn ==
  ASSUME NEW a \in Boxes, NEW b \in Boxes, NEW c \in Boxes,
         Pages!Inside(a, b), Pages!Inside(b, c)
  PROVE  Pages!Inside(a, c)
BY DEF Pages!Inside, Boxes

\* What lies within boxes that are apart is apart.
LEMMA ApartIn ==
  ASSUME NEW a \in Boxes, NEW b \in Boxes, NEW c \in Boxes, NEW d \in Boxes,
         Pages!Inside(a, c), Pages!Inside(b, d), Pages!Apart(c, d)
  PROVE  Pages!Apart(a, b)
BY DEF Pages!Inside, Pages!Apart, Boxes

\* What is neat in an area is neat in every larger one.
LEMMA NeatWider ==
  ASSUME NEW lines, NEW a \in Boxes, NEW b \in Boxes,
         Neat(lines, a), Pages!Inside(a, b)
  PROVE  Neat(lines, b)
<1>1. lines \in Seq(Boxes) BY DEF Neat
<1>2. \A i \in 1..Len(lines) : lines[i] \in Boxes BY <1>1
<1> QED BY <1>1, <1>2, NeatIs, InsideIn

\* Two lists of lines whose areas are beside each other.
LEMMA NeatJoin ==
  ASSUME NEW f, NEW a \in Boxes, NEW g, NEW b \in Boxes, NEW c \in Boxes,
         Neat(f, a), Neat(g, b), Pages!Inside(a, c), Pages!Inside(b, c),
             Pages!Apart(a, b)
  PROVE  Neat(f \o g, c)
<1>1. f \in Seq(Boxes) /\ g \in Seq(Boxes) BY DEF Neat
<1> DEFINE m == Len(f)
           n == Len(g)
           l == f \o g
<1>2. /\ m \in Nat /\ n \in Nat /\ l \in Seq(Boxes) /\ Len(l) = m + n
      /\ \A i \in 1..m : f[i] \in Boxes
      /\ \A i \in 1..n : g[i] \in Boxes
  BY <1>1
<1>3. \A i \in 1..m + n : l[i] = IF i <= m THEN f[i] ELSE g[i - m] BY <1>1
<1> HIDE DEF l, m, n
<1>4. /\ \A i \in 1..m : Pages!Inside(f[i], a)
      /\ \A i, j \in 1..m : i < j => Pages!Apart(f[i], f[j])
      /\ \A i \in 1..n : Pages!Inside(g[i], b)
      /\ \A i, j \in 1..n : i < j => Pages!Apart(g[i], g[j])
  BY <1>1, NeatIs DEF m, n
<1>5. \A i \in 1..m + n : Pages!Inside(l[i], c)
  <2> TAKE i \in 1..m + n
  <2>1. CASE i <= m
    <3>1. i \in 1..m BY <1>2, <2>1
    <3> QED BY <1>2, <1>3, <1>4, <2>1, <3>1, InsideIn
  <2>2. CASE i > m
    <3>1. i - m \in 1..n BY <1>2, <2>2
    <3>2. l[i] = g[i - m] BY <1>2, <1>3, <2>2
    <3> QED BY <1>2, <1>4, <3>1, <3>2, InsideIn
  <2> QED BY <1>2, <2>1, <2>2
<1>6. \A i, j \in 1..m + n : i < j => Pages!Apart(l[i], l[j])
  <2> SUFFICES ASSUME NEW i \in 1..m + n, NEW j \in 1..m + n, i < j
               PROVE  Pages!Apart(l[i], l[j])
    OBVIOUS
  <2>1. CASE j <= m
    <3>1. i \in 1..m /\ j \in 1..m /\ i <= m BY <1>2, <2>1
    <3> QED BY <1>3, <1>4, <2>1, <3>1
  <2>2. CASE i <= m /\ j > m
    <3>1. i \in 1..m /\ j - m \in 1..n BY <1>2, <2>2
    <3>2. l[i] = f[i] /\ l[j] = g[j - m] BY <1>2, <1>3, <2>2
    <3>3. Pages!Inside(f[i], a) /\ Pages!Inside(g[j - m], b) BY <1>4, <3>1
    <3>4. f[i] \in Boxes /\ g[j - m] \in Boxes BY <1>2, <3>1
    <3> QED BY <3>2, <3>3, <3>4, ApartIn
  <2>3. CASE i > m
    <3>1. i - m \in 1..n /\ j - m \in 1..n /\ i - m < j - m BY <1>2, <2>3
    <3>2. l[i] = g[i - m] /\ l[j] = g[j - m] BY <1>2, <1>3, <2>3
    <3> QED BY <1>4, <3>1, <3>2
  <2> QED BY <1>2, <2>1, <2>2, <2>3
<1>7. l \in Seq(Boxes) /\ Len(l) = m + n BY <1>2
<1> QED BY <1>5, <1>6, <1>7, NeatIs DEF l

\* ---- Lines below each other

Row == Nat \X Nat \X Nat

\* The places of the lines, for any list of them.
Tops(y, rows, top) ==
  /\ top[1] = y + rows[1][1]
  /\ \A i \in 2..Len(rows) :
       top[i] = top[i - 1] + rows[i - 1][3] + rows[i][1]

\* Lines at these places, of so many cells and of this height.
Placed(n, x, top, cells, high) ==
  [i \in 1..n |-> Pages!Written(x, top[i], cells[i], high[i])]
Placing(x, y, rows, top) ==
  /\ Tops(y, rows, top)
  /\ Pages!Stacked(x, y, rows) =
       Placed(Len(rows), x, top, [i \in 1..Len(rows) |-> rows[i][2]],
              [i \in 1..Len(rows) |-> rows[i][3]])

\* Sums of places and sizes are places.
LEMMA SumOf ==
  ASSUME NEW a \in Int, NEW b \in Nat, NEW c \in Nat
  PROVE  a + b + c \in Int
OBVIOUS

\* Every list of rows has the places that Stacked gives it.
LEMMA StackedTops ==
  ASSUME NEW x, NEW y \in Int, NEW rows \in Seq(Row), Len(rows) > 0
  PROVE  \E top \in [1..Len(rows) -> Int] : Placing(x, y, rows, top)
<1> DEFINE n == Len(rows)
           E(f, i) == IF i = 1 THEN y + rows[1][1]
                      ELSE f[i - 1] + rows[i - 1][3] + rows[i][1]
           Good(m) == \E f \in [1..m -> Int] : \A i \in 1..m : f[i] = E(f, i)
           Bad == {m \in 1..n : ~Good(m)}
<1>1. n \in Nat \ {0} OBVIOUS
<1>2. \A i \in 1..n : rows[i] \in Row OBVIOUS
<1>3. \A i \in 1..n : rows[i][1] \in Nat /\ rows[i][2] \in Nat
      /\ rows[i][3] \in Nat
  BY <1>2 DEF Row
<1>4. Good(1)
  <2> DEFINE f == [i \in 1..1 |-> y + rows[1][1]]
  <2>1. f \in [1..1 -> Int] BY <1>1, <1>3
  <2>2. \A i \in 1..1 : f[i] = E(f, i) OBVIOUS
  <2> HIDE DEF f
  <2> QED BY <2>1, <2>2
<1>5. ASSUME NEW m \in 1..n, Good(m), m < n
      PROVE  Good(m + 1)
  <2>1. PICK f \in [1..m -> Int] : \A i \in 1..m : f[i] = E(f, i)
    BY <1>5
  <2> DEFINE v == f[m] + rows[m][3] + rows[m + 1][1]
             g == [i \in 1..m + 1 |-> IF i <= m THEN f[i] ELSE v]
  <2>2. v \in Int
    <3>1. m \in 1..n /\ m + 1 \in 1..n BY <1>1, <1>5
    <3>2. f[m] \in Int BY <2>1
    <3>3. rows[m][3] \in Nat /\ rows[m + 1][1] \in Nat BY <1>3, <3>1
    <3> QED BY <3>2, <3>3, SumOf, Zenon
  <2>3. g \in [1..m + 1 -> Int] BY <2>1, <2>2
  <2>4. \A i \in 1..m + 1 : g[i] = E(g, i)
    <3> TAKE i \in 1..m + 1
    <3>1. CASE i = 1
      <4>1. g[1] = f[1] /\ f[1] = E(f, 1) BY <1>5, <2>1
      <4> QED BY <3>1, <4>1
    <3>2. CASE i # 1 /\ i <= m
      <4>1. i \in 1..m /\ i - 1 \in 1..m /\ i - 1 <= m BY <1>1, <3>2
      <4>2. g[i] = f[i] /\ g[i - 1] = f[i - 1] BY <1>5, <4>1, <3>2
      <4> QED BY <2>1, <3>2, <4>1, <4>2
    <3>3. CASE i = m + 1
      <4>1. g[i] = v /\ g[i - 1] = f[m] /\ i - 1 = m /\ i # 1
        BY <1>1, <3>3
      <4> QED BY <3>3, <4>1
    <3> QED BY <1>1, <3>1, <3>2, <3>3
  <2> HIDE DEF g
  <2> QED BY <2>3, <2>4
<1> HIDE DEF Good
<1>6. Bad = {}
  <2> SUFFICES ASSUME Bad # {} PROVE FALSE OBVIOUS
  <2>1. PICK m \in Bad : \A k \in Bad : m <= k
    <3>1. Bad \in SUBSET Nat OBVIOUS
    <3> HIDE DEF Bad
    <3> QED BY <3>1, Least
  <2>2. m \in 1..n /\ ~Good(m) OBVIOUS
  <2>3. m # 1 BY <1>4, <2>2
  <2>4. m - 1 \in 1..n /\ m - 1 < n /\ (m - 1) + 1 = m BY <1>1, <2>2, <2>3
  <2>5. ~Good(m - 1) BY <1>5, <2>2, <2>4
  <2>6. m - 1 \in Bad BY <2>4, <2>5
  <2> QED BY <2>1, <2>2, <2>6
<1>7. Good(n) BY <1>1, <1>6
<1> DEFINE pitch(t) == [i \in 1..n |-> E(t, i)]
           top == CHOOSE t : t = pitch(t)
<1>8. top = pitch(top)
  <2>1. PICK f \in [1..n -> Int] : \A i \in 1..n : f[i] = E(f, i)
    BY <1>7 DEF Good
  <2>2. f = pitch(f) BY <2>1
  <2> HIDE DEF pitch
  <2> QED BY <2>2
<1>9. Pages!Stacked(x, y, rows) =
        [i \in 1..n |-> Pages!Written(x, top[i], rows[i][2], rows[i][3])]
  BY DEF Pages!Stacked
<1> HIDE DEF top
<1>10. \A i \in 1..n : top[i] = E(top, i) BY <1>8
<1>11. top \in [1..n -> Int]
  <2> DEFINE B == {i \in 1..n : top[i] \notin Int}
  <2>0. top[1] \in Int
    <3>1. 1 \in 1..n BY <1>1
    <3>2. top[1] = y + rows[1][1] BY <1>10, <3>1
    <3>3. rows[1][1] \in Nat BY <1>3, <3>1
    <3> QED BY <3>2, <3>3
  <2>1. B = {}
    <3> SUFFICES ASSUME B # {} PROVE FALSE OBVIOUS
    <3>1. PICK i \in B : \A k \in B : i <= k
      <4>1. B \in SUBSET Nat OBVIOUS
      <4> HIDE DEF B
      <4> QED BY <4>1, Least
    <3>2. i \in 1..n /\ top[i] \notin Int OBVIOUS
    <3>3. i # 1 BY <2>0, <3>2, Zenon
    <3>4. i - 1 \in 1..n /\ i - 1 < i BY <1>1, <3>2, <3>3
    <3>5. top[i - 1] \in Int BY <3>1, <3>2, <3>4
    <3>6. top[i] = top[i - 1] + rows[i - 1][3] + rows[i][1]
      BY <1>10, <3>2, <3>3
    <3>7. rows[i - 1][3] \in Nat /\ rows[i][1] \in Nat BY <1>3, <3>2, <3>4
    <3>8. top[i] \in Int BY <3>5, <3>6, <3>7, SumOf, Zenon
    <3> QED BY <3>2, <3>8
  <2> QED BY <1>8, <2>1
<1>12. Tops(y, rows, top) BY <1>1, <1>10 DEF Tops
<1> HIDE DEF E, pitch
<1>13. Placing(x, y, rows, top) BY <1>9, <1>12 DEF Placing, Placed
<1> QED BY <1>11, <1>13

\* What the additions of heights need.
LEMMA AddUp ==
  /\ \A a, c \in Int, b \in Nat : a + b <= c => a <= c
  /\ \A a, c \in Int, b \in Nat : a <= c => a <= c + b
  /\ \A a, c \in Int, b, d \in Nat : a + b <= c => a + b <= c + d
  /\ \A a \in Int, b \in Nat : a + b <= a + b /\ a <= a
OBVIOUS

\* Places are ordered.
LEMMA Transitive ==
  \A a, b, c \in Int : a <= b /\ b <= c => a <= c
OBVIOUS

\* Lines none of which begins above the end of the one before.
LEMMA Ladder ==
  ASSUME NEW n \in Nat \ {0}, NEW top \in [1..n -> Int],
         NEW high \in [1..n -> Nat],
         \A i \in 2..n : top[i - 1] + high[i - 1] <= top[i]
  PROVE  /\ \A i, j \in 1..n : i < j => top[i] + high[i] <= top[j]
         /\ \A i \in 1..n : top[1] <= top[i]
         /\ \A i \in 1..n : top[i] + high[i] <= top[n] + high[n]
<1>0. \A i \in 1..n : top[i] \in Int /\ high[i] \in Nat OBVIOUS
<1>1. \A i, j \in 1..n : i < j => top[i] + high[i] <= top[j]
  <2> DEFINE Bad == {j \in 1..n : \E i \in 1..n :
                       i < j /\ ~(top[i] + high[i] <= top[j])}
  <2>1. Bad = {}
    <3> SUFFICES ASSUME Bad # {} PROVE FALSE OBVIOUS
    <3>1. PICK j \in Bad : \A k \in Bad : j <= k
      <4>1. Bad \in SUBSET Nat OBVIOUS
      <4> HIDE DEF Bad
      <4> QED BY <4>1, Least
    <3>2. PICK i \in 1..n : i < j /\ ~(top[i] + high[i] <= top[j]) OBVIOUS
    <3>3. j \in 2..n /\ j \in 1..n /\ j - 1 \in 1..n /\ ~(j <= j - 1)
      BY <3>2
    <3>4. top[j - 1] + high[j - 1] <= top[j] BY <3>3
    <3>5. i # j - 1 BY <3>2, <3>4
    <3>6. i < j - 1 BY <3>2, <3>3, <3>5
    <3>7. j - 1 \notin Bad BY <3>1, <3>3
    <3>8. top[i] + high[i] <= top[j - 1] BY <3>3, <3>6, <3>7
    <3>9. /\ top[i] \in Int /\ high[i] \in Nat /\ top[j] \in Int
          /\ top[j - 1] \in Int /\ high[j - 1] \in Nat
      BY <1>0, <3>3, Zenon
    <3>11. top[j - 1] <= top[j] BY <3>4, <3>9, AddUp, Zenon
    <3>12. top[i] + high[i] \in Int BY <3>9
    <3>10. top[i] + high[i] <= top[j]
      BY <3>8, <3>9, <3>11, <3>12, Transitive, Zenon
    <3> QED BY <3>2, <3>10
  <2> QED BY <2>1
<1>2. \A i \in 1..n : top[1] <= top[i]
  <2> TAKE i \in 1..n
  <2>1. CASE i = 1 BY <1>0, <2>1, AddUp, Zenon
  <2>2. CASE i # 1
    <3>1. 1 \in 1..n /\ 1 < i BY <2>2
    <3>2. top[1] + high[1] <= top[i] BY <1>1, <3>1
    <3> QED BY <1>0, <3>1, <3>2, AddUp, Zenon
  <2> QED BY <2>1, <2>2
<1>3. \A i \in 1..n : top[i] + high[i] <= top[n] + high[n]
  <2> TAKE i \in 1..n
  <2>1. CASE i = n BY <1>0, <2>1, AddUp, Zenon
  <2>2. CASE i # n
    <3>1. n \in 1..n /\ i < n BY <2>2
    <3>2. top[i] + high[i] <= top[n] BY <1>1, <3>1
    <3> QED BY <1>0, <3>1, <3>2, AddUp, Zenon
  <2> QED BY <2>1, <2>2
<1> QED BY <1>1, <1>2, <1>3

\* So they do not lie on each other, and take the room down to the last's end.
LEMMA LadderNeat ==
  ASSUME NEW n \in Nat \ {0}, NEW x \in Int, NEW y \in Int, NEW w \in Nat,
         NEW h \in Int, NEW top \in [1..n -> Int], NEW high \in [1..n -> Nat],
         NEW cells \in [1..n -> Nat],
         \A i \in 2..n : top[i - 1] + high[i - 1] <= top[i],
         y <= top[1], top[n] + high[n] <= y + h,
         \A i \in 1..n : 6 * cells[i] <= w
  PROVE  Neat(Placed(n, x, top, cells, high), Pages!Box(x, y, w, h))
<1> DEFINE line(i) == Pages!Written(x, top[i], cells[i], high[i])
           lines == [i \in 1..n |-> line(i)]
           area == Pages!Box(x, y, w, h)
<1>1. ASSUME NEW i \in 1..n
      PROVE  /\ line(i) \in Boxes /\ line(i).x = x /\ line(i).y = top[i]
             /\ line(i).w = 6 * cells[i] /\ line(i).h = high[i]
  BY SMTT(30) DEF Pages!Written, Pages!Box, Boxes
<1>2. /\ area.x = x /\ area.y = y /\ area.w = w /\ area.h = h
  BY DEF Pages!Box
<1> HIDE DEF area, line
<1>3. lines \in Seq(Boxes) /\ Len(lines) = n BY <1>1
<1>4. \A i \in 1..n : lines[i] = line(i) OBVIOUS
<1> HIDE DEF lines
<1>5. ASSUME NEW i \in 1..n PROVE Pages!Inside(line(i), area)
  <2>1. top[1] <= top[i] /\ top[i] + high[i] <= top[n] + high[n]
    BY Ladder, Zenon
  <2>2. 1 \in 1..n /\ n \in 1..n OBVIOUS
  <2>3. /\ top[1] \in Int /\ top[i] \in Int /\ top[n] \in Int
        /\ high[i] \in Nat /\ high[n] \in Nat /\ cells[i] \in Nat
    BY <2>2
  <2>7. \A a \in Int, b \in Nat : a + b \in Int /\ a + h \in Int
        /\ 6 * b \in Int
    OBVIOUS
  <2>8. /\ top[i] + high[i] \in Int /\ top[n] + high[n] \in Int
        /\ y + h \in Int /\ 6 * cells[i] \in Int
    BY <2>3, <2>7, Zenon
  <2>9. y <= top[i] BY <2>1, <2>3, Transitive, Zenon
  <2>10. top[i] + high[i] <= y + h
    BY <2>1, <2>8, Transitive, Zenon
  <2>4. \A a, b \in Int : a <= b => b >= a /\ x >= x /\ x + a <= x + b OBVIOUS
  <2>5. 6 * cells[i] <= w /\ w \in Int OBVIOUS
  <2>6. top[i] >= y /\ x >= x /\ x + 6 * cells[i] <= x + w
    BY <2>3, <2>4, <2>5, <2>8, <2>9, Zenon
  <2> QED BY <1>1, <1>2, <2>6, <2>10, Zenon DEF Pages!Inside
<1>6. ASSUME NEW i \in 1..n, NEW j \in 1..n, i < j
      PROVE  Pages!Apart(line(i), line(j))
  <2>1. top[i] + high[i] <= top[j] BY <1>6, Ladder, Zenon
  <2> QED BY <1>1, <2>1, Zenon DEF Pages!Apart
<1>7. Neat(lines, area) BY <1>3, <1>4, <1>5, <1>6, NeatIs
<1> QED BY <1>7 DEF lines, line, area, Placed

\* Rows below each other are neat, down to the end of the last.
LEMMA StackedNeat ==
  ASSUME NEW x \in Int, NEW y \in Int, NEW rows \in Seq(Row), Len(rows) > 0,
         NEW w \in Nat, \A i \in 1..Len(rows) : 6 * rows[i][2] <= w
  PROVE  \E top \in [1..Len(rows) -> Int] :
           /\ Tops(y, rows, top)
           /\ \A h \in Int : top[Len(rows)] + rows[Len(rows)][3] <= y + h =>
                Neat(Pages!Stacked(x, y, rows), Pages!Box(x, y, w, h))
<1> DEFINE n == Len(rows)
           high == [i \in 1..n |-> rows[i][3]]
           cells == [i \in 1..n |-> rows[i][2]]
<1>1. PICK top \in [1..n -> Int] : Placing(x, y, rows, top)
  BY StackedTops, Zenon
<1>2. Tops(y, rows, top) /\ Pages!Stacked(x, y, rows) =
      Placed(n, x, top, cells, high)
  BY <1>1 DEF Placing
<1>3. n \in Nat \ {0} OBVIOUS
<1>4. \A i \in 1..n : rows[i] \in Row OBVIOUS
<1>5. \A i \in 1..n :
         rows[i][1] \in Nat /\ rows[i][2] \in Nat /\ rows[i][3] \in Nat
  BY <1>4 DEF Row
<1>6. high \in [1..n -> Nat] /\ cells \in [1..n -> Nat] BY <1>5
<1>7. \A i \in 1..n : high[i] = rows[i][3] /\ cells[i] = rows[i][2] OBVIOUS
<1>9. \A i \in 1..n : 6 * cells[i] <= w BY <1>7
<1> HIDE DEF high, cells
<1>10. \A a \in Int, b, c \in Nat : a + b <= a + b + c /\ a <= a + c OBVIOUS
<1>11. \A i \in 2..n : top[i - 1] + high[i - 1] <= top[i]
  <2> TAKE i \in 2..n
  <2>1. i \in 1..n /\ i - 1 \in 1..n BY <1>3
  <2>2. top[i] = top[i - 1] + rows[i - 1][3] + rows[i][1]
    BY <1>2 DEF Tops
  <2>3. top[i - 1] \in Int /\ rows[i - 1][3] \in Nat /\ rows[i][1] \in Nat
    BY <1>5, <2>1
  <2>4. high[i - 1] = rows[i - 1][3] BY <1>7, <2>1
  <2> QED BY <1>10, <2>2, <2>3, <2>4, Zenon
<1>12. y <= top[1]
  <2>1. top[1] = y + rows[1][1] BY <1>2 DEF Tops
  <2>2. rows[1][1] \in Nat BY <1>3, <1>5
  <2> QED BY <1>10, <2>1, <2>2, Zenon
<1>13. ASSUME NEW h \in Int, top[n] + rows[n][3] <= y + h
       PROVE  Neat(Pages!Stacked(x, y, rows), Pages!Box(x, y, w, h))
  <2>1. n \in 1..n BY <1>3
  <2>2. top[n] + high[n] <= y + h BY <1>7, <1>13, <2>1, Zenon
  <2>3. Neat(Placed(n, x, top, cells, high), Pages!Box(x, y, w, h))
    <3> HIDE DEF n
    <3> QED BY <1>3, <1>6, <1>9, <1>11, <1>12, <2>2, LadderNeat, Zenon
  <2> QED BY <1>2, <2>3, Zenon
<1> QED BY <1>2, <1>13


\* What the sheets of a page have to be: each neat, and above the meter.
FitsIn(sheets, space) ==
  \A s \in sheets :
    Neat(s.lines, s.frame) /\ \A i \in 1..Len(s.lines) :
        Pages!Inside(s.lines[i], space)
Above == Pages!Box(0, 0, 135, 224)

\* The room above the largest meter.
LEMMA AboveIs == Above \in Boxes /\ Pages!Portrait \in Boxes
    /\ Pages!Inside(Above, Pages!Portrait)
BY DEF Above, Pages!Portrait, Boxes, Pages!Box, Pages!Inside

\* A sheet whose lines keep to an area fits where the area does.
LEMMA SheetFits ==
  ASSUME NEW lines, NEW area \in Boxes, NEW frame \in Boxes,
         NEW space \in Boxes,
         Neat(lines, area), Pages!Inside(area, frame), Pages!Inside(area, space)
  PROVE  FitsIn({Pages!Sheet(frame, lines)}, space)
<1>1. Neat(lines, frame) BY NeatWider
<1>2. lines \in Seq(Boxes) BY DEF Neat
<1>3. \A i \in 1..Len(lines) : lines[i] \in Boxes
      /\ Pages!Inside(lines[i], area)
  BY <1>2, NeatIs
<1>4. \A i \in 1..Len(lines) : Pages!Inside(lines[i], space)
  BY <1>3, InsideIn, Zenon
<1> QED BY <1>1, <1>4 DEF FitsIn, Pages!Sheet

\* Two sets of sheets fit when each does.
LEMMA FitsBoth ==
  ASSUME NEW a, NEW b, NEW space, FitsIn(a, space), FitsIn(b, space)
  PROVE  FitsIn(a \cup b, space)
BY DEF FitsIn

\* A panel fits when its lines keep to it.
LEMMA PanelFits ==
  ASSUME NEW panel \in Boxes, NEW lines, Neat(lines, panel),
         Pages!Inside(panel, Above)
  PROVE  FitsIn(Pages!Panel(panel, lines), Above)
<1>1. Pages!Inside(panel, panel) BY DEF Pages!Inside, Boxes
<1>2. Pages!Inside(panel, Pages!Portrait) BY AboveIs, InsideIn
<1>3. FitsIn({Pages!Sheet(panel, lines)}, Above) BY <1>1, AboveIs, SheetFits
<1>4. Neat(<<panel>>, panel) BY NeatOne
<1>5. FitsIn({Pages!Sheet(Pages!Portrait, <<panel>>)}, Above)
  BY <1>2, <1>4, AboveIs, SheetFits
<1>6. Pages!Panel(panel, lines) =
        {Pages!Sheet(panel, lines)}
            \cup {Pages!Sheet(Pages!Portrait, <<panel>>)}
  BY DEF Pages!Panel
<1> QED BY <1>3, <1>5, <1>6, FitsBoth

\* The members of a list of numbers.
LEMMA NatSeq ==
  ASSUME NEW s \in Seq(Nat)
  PROVE  Len(s) \in Nat /\ \A i \in 1..Len(s) : s[i] \in Nat
OBVIOUS

\* What is neat, line by line.
LEMMA NeatBy ==
  ASSUME NEW lines, lines \in Seq(Boxes), NEW area,
         \A i \in 1..Len(lines) : Pages!Inside(lines[i], area),
         \A i, j \in 1..Len(lines) : i < j => Pages!Apart(lines[i], lines[j])
  PROVE  Neat(lines, area)
BY NeatIs


\* The place of a box, and those next to it.
LEMMA BoxPlace ==
  \A b \in Boxes :
    /\ b.x \in Int /\ b.y \in Int /\ b.w \in Int /\ b.h \in Int
    /\ b.x + 6 \in Int /\ b.y + 8 \in Int
BY DEF Boxes

\* Texts in a column, each so much below the one before.
Column(n, x, y, pitch, cells) ==
  [i \in 1..n |-> Pages!Text(x, y + pitch * (i - 1), cells[i])]

\* A column is neat in the room from its first to its last text.
LEMMA ColumnNeat ==
  ASSUME NEW n \in Nat \ {0}, NEW x \in Int, NEW y \in Int,
         NEW pitch \in {14, 18}, NEW cells \in [1..n -> Nat], NEW w \in Nat,
         \A i \in 1..n : 6 * cells[i] <= w
  PROVE  Neat(Column(n, x, y, pitch, cells),
              Pages!Box(x, y, w, pitch * (n - 1) + 8))
<1> DEFINE top == [i \in 1..n |-> y + pitch * (i - 1)]
           high == [i \in 1..n |-> 8]
           h == pitch * (n - 1) + 8
<1>1. Column(n, x, y, pitch, cells) = Placed(n, x, top, cells, high)
  BY DEF Placed, Pages!Text, Column
<1>2. h \in Int BY pitch = 14 \/ pitch = 18
<1>3. top \in [1..n -> Int] /\ high \in [1..n -> Nat]
  BY pitch = 14 \/ pitch = 18
<1>4. \A i \in 2..n : top[i - 1] + high[i - 1] <= top[i]
  BY pitch = 14 \/ pitch = 18
<1>5. y <= top[1] /\ top[n] + high[n] <= y + h
  BY pitch = 14 \/ pitch = 18
<1> HIDE DEF top, high, h
<1>6. Neat(Placed(n, x, top, cells, high), Pages!Box(x, y, w, h))
  BY <1>2, <1>3, <1>4, <1>5, LadderNeat, Zenon
<1> QED BY <1>1, <1>6 DEF h

\* What a key does, and its arrow.
LEMMA HintNeat ==
  ASSUME NEW x \in Int, NEW y \in Int, NEW cells \in Nat
  PROVE  Neat(Pages!Hint(x, y, cells), Pages!Box(x, y, 6 * cells + 10, 8))
<1> DEFINE area == Pages!Box(x, y, 6 * cells + 10, 8)
           lines == <<Pages!Text(x, y, cells),
                      Pages!Box(x + 6 * cells + 4, y, 6, 7)>>
<1>1. CASE cells = 0 BY <1>1, NeatNone DEF Pages!Hint
<1>2. CASE cells # 0
  <2>1. lines \in Seq(Boxes) BY DEF Pages!Text, Pages!Written, Boxes, Pages!Box
  <2>2. \A i \in 1..Len(lines) : Pages!Inside(lines[i], area)
    BY DEF Pages!Text, Pages!Written, Pages!Inside, Pages!Box
  <2>3. \A i, j \in 1..Len(lines) : i < j => Pages!Apart(lines[i], lines[j])
    BY DEF Pages!Text, Pages!Written, Pages!Apart, Pages!Box
  <2>4. Pages!Hint(x, y, cells) = lines BY <1>2 DEF Pages!Hint
  <2> HIDE DEF lines, area
  <2>5. Neat(lines, area) BY <2>1, <2>2, <2>3, NeatBy, Zenon
  <2> QED BY <2>4, <2>5 DEF area
<1> QED BY <1>1, <1>2

\* The hints of a panel are neat in its last 16 lines.
LEMMA HintsNeat ==
  ASSUME NEW panel \in Boxes, panel.w \in {118, 124},
         NEW down \in 0..7, NEW right \in 0..6
  PROVE  Neat(Pages!MenuHints(panel, down, right),
              Pages!Box(panel.x + 6, panel.y + panel.h - 16, panel.w - 12, 12))
<1> DEFINE y == panel.y + panel.h - 12
           x == panel.x + panel.w \div 2 + 4
           area == Pages!Box(panel.x + 6, panel.y + panel.h - 16, panel.w - 12,
                             12)
           rule == Pages!Box(panel.x + 6, y - 4, panel.w - 12, 1)
           one == Pages!Box(panel.x + 8, y, 6 * down + 10, 8)
           two == Pages!Box(x, y, 6 * right + 10, 8)
           both == Pages!Box(panel.x + 6, panel.y + panel.h - 16, panel.w - 12,
                             12)
           left == Pages!Box(panel.x + 6, y - 4, x - panel.x - 6, 12)
           f == <<rule>>
           g == Pages!Hint(panel.x + 8, y, down)
           k == Pages!Hint(x, y, right)
           upper == Pages!Box(panel.x + 6, y - 4, panel.w - 12, 1)
           lower == Pages!Box(panel.x + 6, y, panel.w - 12, 8)
<1>1. panel.x \in Int /\ panel.y \in Int /\ panel.h \in Int /\ y \in Int
  BY DEF Boxes
<1>2. /\ x \in Int
      /\ \/ panel.w = 118 /\ x = panel.x + 63
         \/ panel.w = 124 /\ x = panel.x + 66
  <2>1. CASE panel.w = 118
    <3>1. panel.w \div 2 = 59 BY <2>1
    <3> QED BY <1>1, <2>1, <3>1
  <2>2. CASE panel.w = 124
    <3>1. panel.w \div 2 = 62 BY <2>2
    <3> QED BY <1>1, <2>2, <3>1
  <2> QED BY <2>1, <2>2
<1>3. /\ rule \in Boxes /\ one \in Boxes /\ two \in Boxes /\ area \in Boxes
      /\ lower \in Boxes
  BY <1>1, <1>2 DEF Pages!Box, Boxes
<1>4. Neat(f, rule) BY <1>3, NeatOne
<1>14. down \in Nat /\ right \in Nat /\ panel.x + 8 \in Int BY <1>1
<1>5. Neat(g, one) BY <1>1, <1>14, HintNeat, Zenon
<1>6. Neat(k, two)
  <2>1. x \in Int BY <1>2
  <2>2. y \in Int BY <1>1
  <2> HIDE DEF x, y
  <2> QED BY <2>1, <2>2, <1>14, HintNeat, Zenon
<1>7. Pages!Inside(rule, area) /\ Pages!Inside(lower, area)
      /\ Pages!Apart(rule, lower)
  BY <1>1, <1>2 DEF Pages!Inside, Pages!Apart, Pages!Box
<1>8. Pages!Inside(one, lower) /\ Pages!Inside(two, lower)
      /\ Pages!Apart(one, two)
  BY <1>1, <1>2 DEF Pages!Inside, Pages!Apart, Pages!Box
<1>9. Pages!MenuHints(panel, down, right) = (f \o g) \o k BY DEF Pages!MenuHints
<1>10. f \in Seq(Boxes) /\ g \in Seq(Boxes) /\ k \in Seq(Boxes)
  BY <1>4, <1>5, <1>6 DEF Neat
<1> HIDE DEF rule, one, two, area, lower, f, g, k
<1>11. (f \o g) \o k = f \o (g \o k) BY <1>10
<1>12. Neat(g \o k, lower) BY <1>3, <1>5, <1>6, <1>8, NeatJoin
<1>13. Neat(f \o (g \o k), area) BY <1>3, <1>4, <1>7, <1>12, NeatJoin
<1> QED BY <1>9, <1>11, <1>13 DEF area

\* A panel with lines above its hints.
LEMMA PanelHintsFits ==
  ASSUME NEW panel \in Boxes, panel.w \in {118, 124},
         NEW down \in 0..7, NEW right \in 0..6, NEW lines,
         NEW area \in Boxes, Neat(lines, area), Pages!Inside(area, panel),
         area.y + area.h <= panel.y + panel.h - 16,
         panel.h >= 16, Pages!Inside(panel, Above)
  PROVE  FitsIn(Pages!Panel(panel, lines
                            \o Pages!MenuHints(panel, down, right)), Above)
<1> DEFINE foot == Pages!Box(panel.x + 6, panel.y + panel.h - 16, panel.w - 12,
                             12)
           hints == Pages!MenuHints(panel, down, right)
<1>1. foot \in Boxes /\ Pages!Inside(foot, panel) /\ Pages!Apart(area, foot)
  BY DEF Pages!Box, Boxes, Pages!Inside, Pages!Apart
<1>2. Neat(hints, foot) BY HintsNeat
<1> HIDE DEF foot, hints
<1>3. Neat(lines \o hints, panel) BY <1>1, <1>2, NeatJoin
<1>4. FitsIn(Pages!Panel(panel, lines \o hints), Above) BY <1>3, PanelFits
<1> QED BY <1>4 DEF hints

\* The rows of a menu.
Narrow(labels, w) == \A i \in 1..Len(labels) : 6 * (2 + labels[i]) <= w

\* The rows of a menu are neat in the room from the first to the last.
LEMMA RowsNeat ==
  ASSUME NEW panel \in Boxes, NEW labels \in Seq(Nat), Len(labels) > 0,
         NEW w \in Nat, Narrow(labels, w)
  PROVE  Neat(Pages!Rows(panel, labels),
              Pages!Box(panel.x + 6, panel.y + 8, w,
                        14 * (Len(labels) - 1) + 8))
<1> DEFINE n == Len(labels)
           cells == [i \in 1..n |-> 2 + labels[i]]
<1>1. n \in Nat \ {0} /\ panel.x + 6 \in Int /\ panel.y + 8 \in Int
  <2>1. Len(labels) \in Nat \ {0} BY NatSeq
  <2> QED BY <2>1, BoxPlace, Zenon
<1>2. \A i \in 1..n : labels[i] \in Nat BY NatSeq, Zenon
<1>3. cells \in [1..n -> Nat] BY <1>2
<1>4. Pages!Rows(panel, labels) =
        Column(n, panel.x + 6, panel.y + 8, 14, cells)
  BY DEF Pages!Rows, Column
<1>5. \A i \in 1..n : 6 * cells[i] <= w BY <1>2 DEF Narrow
<1>6. 14 \in {14, 18} OBVIOUS
<1> HIDE DEF cells, n
<1>7. Neat(Column(n, panel.x + 6, panel.y + 8, 14, cells),
           Pages!Box(panel.x + 6, panel.y + 8, w, 14 * (n - 1) + 8))
  BY <1>1, <1>3, <1>5, <1>6, ColumnNeat, Zenon
<1> QED BY <1>4, <1>7 DEF n


\* ---- The menus

\* The menu is in place.
LEMMA MenuPage == FitsIn(Pages!Menu, Above)
<1> DEFINE panel == Pages!Centred(118, 16 + 6 * 14 + 14)
           area == Pages!Box(14, 71, 72, 78)
           labels == <<8, 8, 4, 5, 4 + 5, 5>>
           lines == Pages!Rows(panel, labels)
<1>1. panel = Pages!Box(8, 63, 118, 114) BY DEF Pages!Centred
<1>2. /\ panel \in Boxes /\ panel.w \in {118, 124} /\ panel.h >= 16
      /\ area \in Boxes /\ Pages!Inside(area, panel)
      /\ Pages!Inside(panel, Above)
      /\ area.y + area.h <= panel.y + panel.h - 16
      /\ panel.x + 6 = 14 /\ panel.y + 8 = 71
  BY <1>1 DEF Pages!Box, Boxes, Pages!Inside, Above
<1>3. /\ labels \in Seq(Nat) /\ Len(labels) = 6 /\ Len(labels) > 0
      /\ Narrow(labels, 72) /\ 14 * (Len(labels) - 1) + 8 = 78
  BY DEF Narrow
<1>4. Pages!Menu = Pages!Panel(panel, lines \o Pages!MenuHints(panel, 1, 1))
  BY DEF Pages!Menu
<1>5. 1 \in 0..7 /\ 1 \in 0..6 OBVIOUS
<1>8. panel \in Boxes BY <1>2
<1>9. labels \in Seq(Nat) /\ Len(labels) > 0 /\ Narrow(labels, 72) /\ 72 \in Nat
  BY <1>3
<1> HIDE DEF panel, labels
<1>6. Neat(lines,
           Pages!Box(panel.x + 6, panel.y + 8, 72, 14 * (Len(labels) - 1) + 8))
  BY <1>8, <1>9, RowsNeat, Zenon
<1>7. Neat(lines, area) BY <1>2, <1>3, <1>6
<1> HIDE DEF area, lines
<1> QED BY <1>2, <1>4, <1>5, <1>7, PanelHintsFits

\* The menu of the resets is in place.
LEMMA ResetPage == FitsIn(Pages!Reset, Above)
<1> DEFINE panel == Pages!Centred(118, 16 + 3 * 14 + 14)
           area == Pages!Box(14, 92, 90, 36)
           labels == <<11, 13, 4>>
           lines == Pages!Rows(panel, labels)
<1>1. panel = Pages!Box(8, 84, 118, 72) BY DEF Pages!Centred
<1>2. /\ panel \in Boxes /\ panel.w \in {118, 124} /\ panel.h >= 16
      /\ area \in Boxes /\ Pages!Inside(area, panel)
      /\ Pages!Inside(panel, Above)
      /\ area.y + area.h <= panel.y + panel.h - 16
      /\ panel.x + 6 = 14 /\ panel.y + 8 = 92
  BY <1>1 DEF Pages!Box, Boxes, Pages!Inside, Above
<1>3. /\ labels \in Seq(Nat) /\ Len(labels) = 3 /\ Len(labels) > 0
      /\ Narrow(labels, 90) /\ 14 * (Len(labels) - 1) + 8 = 36
  BY DEF Narrow
<1>4. Pages!Reset = Pages!Panel(panel, lines \o Pages!MenuHints(panel, 1, 1))
  BY DEF Pages!Reset
<1>5. 1 \in 0..7 /\ 1 \in 0..6 OBVIOUS
<1>8. panel \in Boxes BY <1>2
<1>9. labels \in Seq(Nat) /\ Len(labels) > 0 /\ Narrow(labels, 90) /\ 90 \in Nat
  BY <1>3
<1> HIDE DEF panel, labels
<1>6. Neat(lines,
           Pages!Box(panel.x + 6, panel.y + 8, 90, 14 * (Len(labels) - 1) + 8))
  BY <1>8, <1>9, RowsNeat, Zenon
<1>7. Neat(lines, area) BY <1>2, <1>3, <1>6
<1> HIDE DEF area, lines
<1> QED BY <1>2, <1>4, <1>5, <1>7, PanelHintsFits

\* The values of the settings lie to the right of all labels.
LEMMA SettingsPage == FitsIn(Pages!Settings, Above)
<1> DEFINE panel == Pages!Centred(118, 16 + 11 * 14 + 14)
           left == Pages!Box(14, 36, 72, 148)
           right == Pages!Box(90, 36, 30, 106)
           area == Pages!Box(14, 36, 110, 148)
           value(i) == Pages!Text(panel.x + panel.w - 36,
                                  panel.y + 8 + 14 * (i - 1),
                            Pages!SettingsValues[i])
           rows == Pages!Rows(panel, Pages!SettingsLabels)
           values == [i \in 1..Len(Pages!SettingsValues) |-> value(i)]
           hints == Pages!MenuHints(panel, 4, 6)
<1>1. panel = Pages!Box(8, 28, 118, 184) BY DEF Pages!Centred
<1>2. /\ panel \in Boxes /\ panel.w \in {118, 124} /\ panel.h >= 16
      /\ area \in Boxes /\ Pages!Inside(area, panel)
      /\ Pages!Inside(panel, Above)
      /\ area.y + area.h <= panel.y + panel.h - 16
      /\ panel.x + 6 = 14 /\ panel.y + 8 = 36 /\ panel.x + panel.w - 36 = 90
      /\ left \in Boxes /\ right \in Boxes
      /\ Pages!Inside(left, area) /\ Pages!Inside(right, area)
      /\ Pages!Apart(left, right)
  BY <1>1 DEF Pages!Box, Boxes, Pages!Inside, Pages!Apart, Above
<1>3. /\ Pages!SettingsLabels \in Seq(Nat) /\ Len(Pages!SettingsLabels) = 11
      /\ Len(Pages!SettingsLabels) > 0 /\ Narrow(Pages!SettingsLabels, 72)
      /\ 14 * (Len(Pages!SettingsLabels) - 1) + 8 = 148
  BY DEF Narrow, Pages!SettingsLabels
<1>4. /\ Pages!SettingsValues \in [1..8 -> Nat] /\ Len(Pages!SettingsValues) = 8
      /\ \A i \in 1..8 : 6 * Pages!SettingsValues[i] <= 30
  BY DEF Pages!SettingsValues
<1>5. Pages!Settings = Pages!Panel(panel, rows \o values \o hints)
  BY DEF Pages!Settings
<1>6. 4 \in 0..7 /\ 6 \in 0..6 OBVIOUS
<1>7. values = Column(8, 90, 36, 14, Pages!SettingsValues)
  BY <1>2, <1>4 DEF Column
<1>19. panel \in Boxes /\ area \in Boxes BY <1>2
<1>20. /\ Pages!SettingsLabels \in Seq(Nat) /\ Len(Pages!SettingsLabels) > 0
       /\ Narrow(Pages!SettingsLabels, 72) /\ 72 \in Nat
  BY <1>3
<1>21. /\ panel.w \in {118, 124} /\ Pages!Inside(area, panel)
       /\ area.y + area.h <= panel.y + panel.h - 16
       /\ panel.h >= 16 /\ Pages!Inside(panel, Above)
  BY <1>2
<1> HIDE DEF panel, values
<1>12. Neat(rows, Pages!Box(panel.x + 6, panel.y + 8, 72,
                      14 * (Len(Pages!SettingsLabels) - 1) + 8))
  BY <1>19, <1>20, RowsNeat, Zenon
<1>8. Neat(rows, left) BY <1>2, <1>3, <1>12
<1> DEFINE n == 8  pitch == 14  w == 30  x == 90  y == 36
<1>15. /\ n \in Nat \ {0} /\ pitch \in {14, 18} /\ w \in Nat
       /\ x \in Int /\ y \in Int
  OBVIOUS
<1>16. \A i \in 1..n : 6 * Pages!SettingsValues[i] <= w
  BY <1>4
<1>17. /\ Pages!SettingsValues \in [1..n -> Nat]
       /\ values = Column(n, x, y, pitch, Pages!SettingsValues)
  BY <1>4, <1>7
<1>18. Pages!Box(x, y, w, pitch * (n - 1) + 8) = right
  BY <1>4
<1> HIDE DEF n, pitch, w, x, y
<1>14. Neat(Column(n, x, y, pitch, Pages!SettingsValues),
            Pages!Box(x, y, w, pitch * (n - 1) + 8))
  BY <1>15, <1>16, <1>17, ColumnNeat, Zenon
<1>9. Neat(values, right) BY <1>14, <1>17, <1>18, Zenon
<1> DEFINE lines == rows \o values
<1> HIDE DEF area, left, right, rows
<1>10. Neat(lines, area) BY <1>2, <1>8, <1>9, NeatJoin, Zenon
<1> HIDE DEF lines
<1>11. FitsIn(Pages!Panel(panel, lines \o Pages!MenuHints(panel, 4, 6)), Above)
  BY <1>6, <1>10, <1>19, <1>21, PanelHintsFits
<1> QED BY <1>5, <1>11 DEF lines

\* ---- The menu of the Wi-Fi and its status

\* What is not neat stays so among other lines.
LEMMA Untidy ==
  ASSUME NEW f \in Seq(Boxes), NEW g \in Seq(Boxes), NEW frame,
         ~Pages!Tidy(Pages!Sheet(frame, f))
             \/ ~Pages!Tidy(Pages!Sheet(frame, g))
  PROVE  ~Pages!Tidy(Pages!Sheet(frame, f \o g))
<1> SUFFICES ASSUME Pages!Tidy(Pages!Sheet(frame, f \o g))
             PROVE  Pages!Tidy(Pages!Sheet(frame, f))
                 /\ Pages!Tidy(Pages!Sheet(frame, g))
  OBVIOUS
<1> DEFINE m == Len(f)
           n == Len(g)
           l == f \o g
<1>1. m \in Nat /\ n \in Nat /\ l \in Seq(Boxes) /\ Len(l) = m + n OBVIOUS
<1>2. /\ \A i \in 1..m : i \in 1..m + n /\ l[i] = f[i]
      /\ \A i \in 1..n : m + i \in 1..m + n /\ l[m + i] = g[i]
  OBVIOUS
<1>3. /\ \A i \in 1..m + n : Pages!Inside(l[i], frame)
      /\ \A i, j \in 1..m + n : i < j => Pages!Apart(l[i], l[j])
  <2> HIDE DEF l, m, n
  <2>1. Neat(l, frame) BY <1>1 DEF Neat, l
  <2> QED BY <1>1, <2>1, NeatIs
<1> HIDE DEF l, m, n
<1>4. Pages!Tidy(Pages!Sheet(frame, f))
  <2>1. \A i \in 1..m : Pages!Inside(f[i], frame) BY <1>2, <1>3
  <2>2. \A i, j \in 1..m : i < j => Pages!Apart(f[i], f[j]) BY <1>2, <1>3
  <2> QED BY <2>1, <2>2, NeatIs DEF Neat, m
<1>5. Pages!Tidy(Pages!Sheet(frame, g))
  <2>1. \A i \in 1..n : Pages!Inside(g[i], frame) BY <1>2, <1>3
  <2>2. \A i, j \in 1..n : i < j => Pages!Apart(g[i], g[j])
    <3> TAKE i \in 1..n, j \in 1..n
    <3>1. i < j => m + i < m + j BY <1>1
    <3> QED BY <1>2, <1>3, <3>1
  <2> QED BY <2>1, <2>2, NeatIs DEF Neat, n
<1> QED BY <1>4, <1>5

Rough(lines, frame) == lines \in Seq(Boxes)
    /\ ~Pages!Tidy(Pages!Sheet(frame, lines))

\* The hints are boxes.
LEMMA HintsBoxes ==
  ASSUME NEW panel \in Boxes, panel.w \in {118, 124}
  PROVE  \A down \in 0..7, right \in 0..6 :
           Pages!MenuHints(panel, down, right) \in Seq(Boxes)
BY HintsNeat DEF Neat

\* What is not neat stays so with lines after it.
LEMMA RoughLeft ==
  ASSUME NEW f, NEW g \in Seq(Boxes), NEW frame, Rough(f, frame)
  PROVE  Rough(f \o g, frame)
<1>1. f \in Seq(Boxes) /\ ~Pages!Tidy(Pages!Sheet(frame, f)) BY DEF Rough
<1>2. f \o g \in Seq(Boxes) BY <1>1
<1>3. ~Pages!Tidy(Pages!Sheet(frame, f \o g)) BY <1>1, Untidy
<1> QED BY <1>2, <1>3 DEF Rough

\* What is not neat stays so with lines before it.
LEMMA RoughRight ==
  ASSUME NEW f \in Seq(Boxes), NEW g, NEW frame, Rough(g, frame)
  PROVE  Rough(f \o g, frame)
<1>1. g \in Seq(Boxes) /\ ~Pages!Tidy(Pages!Sheet(frame, g)) BY DEF Rough
<1>2. f \o g \in Seq(Boxes) BY <1>1
<1>3. ~Pages!Tidy(Pages!Sheet(frame, f \o g)) BY <1>1, Untidy
<1> QED BY <1>2, <1>3 DEF Rough

\* A panel with such lines has a sheet that is not tidy.
LEMMA RoughPanel ==
  ASSUME NEW panel, NEW lines, Rough(lines, panel)
  PROVE  \E s \in Pages!Panel(panel, lines) : ~Pages!Tidy(s)
BY DEF Pages!Panel, Rough


\* The menu of the Wi-Fi with a network is in place.
LEMMA WifiMenuPageTRUE == FitsIn(Pages!WifiMenu(TRUE), Above)
<1> DEFINE panel == Pages!Centred(118, 28 + 4 * 18 + 14)
           title == Pages!Text(15, 71, 5)
           rows == Column(4, 15, 89, 18,
                          [i \in 1..4 |-> 2 + <<6, 11, 11, 4>>[i]])
           below == Pages!Box(15, 89, 84, 62)
           area == Pages!Box(15, 71, 84, 80)
           hints == Pages!MenuHints(panel, 4, 6)
<1>1. panel = Pages!Box(8, 63, 118, 114) BY DEF Pages!Centred
<1>2. /\ panel \in Boxes /\ panel.w \in {118, 124} /\ panel.h >= 16
      /\ area \in Boxes /\ Pages!Inside(area, panel)
      /\ Pages!Inside(panel, Above)
      /\ area.y + area.h <= panel.y + panel.h - 16
      /\ panel.x + 7 = 15 /\ panel.y + 8 = 71 /\ panel.y + 26 = 89
  BY <1>1 DEF Pages!Box, Boxes, Pages!Inside, Above
<1>3. /\ below \in Boxes /\ Pages!Inside(below, area) /\ title \in Boxes
      /\ Pages!Inside(title, area) /\ Pages!Apart(title, below)
  BY DEF Pages!Box, Boxes, Pages!Inside, Pages!Apart, Pages!Text, Pages!Written
<1>4. Pages!WifiMenu(TRUE) = Pages!Panel(panel, <<title>> \o rows \o hints)
  BY <1>2 DEF Pages!WifiMenu, Column
<1>5. Neat(rows, below)
  <2> DEFINE n == 4  pitch == 18  w == 84  x == 15  y == 89
             cells == [i \in 1..4 |-> 2 + <<6, 11, 11, 4>>[i]]
  <2>1. /\ n \in Nat \ {0} /\ pitch \in {14, 18} /\ w \in Nat
        /\ x \in Int /\ y \in Int /\ cells \in [1..n -> Nat]
        /\ \A i \in 1..n : 6 * cells[i] <= w
        /\ rows = Column(n, x, y, pitch, cells)
        /\ Pages!Box(x, y, w, pitch * (n - 1) + 8) = below
    OBVIOUS
  <2> HIDE DEF n, pitch, w, x, y, cells
  <2>2. Neat(Column(n, x, y, pitch, cells),
             Pages!Box(x, y, w, pitch * (n - 1) + 8))
    BY <2>1, ColumnNeat, ZenonT(30)
  <2> QED BY <2>1, <2>2, Zenon
<1> HIDE DEF panel, rows, title, below, area
<1>6. Neat(<<title>> \o rows, area) BY <1>2, <1>3, <1>5, NeatOne, NeatJoin
<1>7. 4 \in 0..7 /\ 6 \in 0..6 OBVIOUS
<1>8. FitsIn(Pages!Panel(panel, (<<title>> \o rows) \o hints), Above)
  BY <1>2, <1>6, <1>7, PanelHintsFits
<1> QED BY <1>4, <1>8

\* And without one.
LEMMA WifiMenuPageFALSE == FitsIn(Pages!WifiMenu(FALSE), Above)
<1> DEFINE panel == Pages!Centred(118, 28 + 2 * 18 + 14)
           title == Pages!Text(15, 89, 5)
           rows == Column(2, 15, 107, 18, [i \in 1..2 |-> 2 + <<5, 4>>[i]])
           below == Pages!Box(15, 107, 84, 26)
           area == Pages!Box(15, 89, 84, 44)
           hints == Pages!MenuHints(panel, 4, 6)
<1>1. panel = Pages!Box(8, 81, 118, 78) BY DEF Pages!Centred
<1>2. /\ panel \in Boxes /\ panel.w \in {118, 124} /\ panel.h >= 16
      /\ area \in Boxes /\ Pages!Inside(area, panel)
      /\ Pages!Inside(panel, Above)
      /\ area.y + area.h <= panel.y + panel.h - 16
      /\ panel.x + 7 = 15 /\ panel.y + 8 = 89 /\ panel.y + 26 = 107
  BY <1>1 DEF Pages!Box, Boxes, Pages!Inside, Above
<1>3. /\ below \in Boxes /\ Pages!Inside(below, area) /\ title \in Boxes
      /\ Pages!Inside(title, area) /\ Pages!Apart(title, below)
  BY DEF Pages!Box, Boxes, Pages!Inside, Pages!Apart, Pages!Text, Pages!Written
<1>4. Pages!WifiMenu(FALSE) = Pages!Panel(panel, <<title>> \o rows \o hints)
  BY <1>2 DEF Pages!WifiMenu, Column
<1>5. Neat(rows, below)
  <2> DEFINE n == 2  pitch == 18  w == 84  x == 15  y == 107
             cells == [i \in 1..2 |-> 2 + <<5, 4>>[i]]
  <2>1. /\ n \in Nat \ {0} /\ pitch \in {14, 18} /\ w \in Nat
        /\ x \in Int /\ y \in Int /\ cells \in [1..n -> Nat]
        /\ \A i \in 1..n : 6 * cells[i] <= w
        /\ rows = Column(n, x, y, pitch, cells)
        /\ Pages!Box(x, y, w, pitch * (n - 1) + 8) = below
    OBVIOUS
  <2> HIDE DEF n, pitch, w, x, y, cells
  <2>2. Neat(Column(n, x, y, pitch, cells),
             Pages!Box(x, y, w, pitch * (n - 1) + 8))
    BY <2>1, ColumnNeat, Zenon
  <2> QED BY <2>1, <2>2, Zenon
<1> HIDE DEF panel, rows, title, below, area
<1>6. Neat(<<title>> \o rows, area) BY <1>2, <1>3, <1>5, NeatOne, NeatJoin
<1>7. 4 \in 0..7 /\ 6 \in 0..6 OBVIOUS
<1>8. FitsIn(Pages!Panel(panel, (<<title>> \o rows) \o hints), Above)
  BY <1>2, <1>6, <1>7, PanelHintsFits
<1> QED BY <1>4, <1>8

\* The status of the Wi-Fi: the lines between its title and its hints.
WifiBody(state, ssid) ==
  CASE state = 1 ->
         <<Pages!Text(12, 81, 13), Pages!Text(12, 94, 14),
           Pages!Text(12, 111, 9),
           Pages!Text(12, 124, 12), Pages!Text(12, 141, 18)>>
    [] state = 2 ->
         <<Pages!Text(12, 83, 9),
           Pages!Text(12, 100, 6 + Pages!AtMost(18, ssid)),
           Pages!Text(12, 117, 13), Pages!Text(12, 134, 19)>>
    [] state = 3 ->
         <<Pages!Text(12, 83, 18),
           Pages!Text(12, 100, 6 + Pages!AtMost(18, ssid)),
           Pages!Text(12, 117, 7), Pages!Text(12, 134, 5)>>
    [] state = 4 ->
         <<Pages!Text(12, 87, 18)>>
WifiPanel == Pages!Box(5, 56, 124, 128)

\* The status as its title, its lines and its hints.
LEMMA WifiStatusIs ==
  ASSUME NEW state \in 1..4, NEW ssid \in Nat
  PROVE  Pages!WifiStatus(state, ssid) =
           Pages!Panel(WifiPanel,
                 (<<Pages!Text(12, 64, 5)>> \o WifiBody(state, ssid))
                 \o Pages!MenuHints(WifiPanel, 0, IF state = 1 THEN 6 ELSE 4))
<1> DEFINE panel == Pages!Centred(124, 128)
<1>1. panel = WifiPanel BY DEF Pages!Centred, WifiPanel
<1>2. WifiPanel.x = 5 /\ WifiPanel.y = 56 BY DEF WifiPanel, Pages!Box
<1>3. state = 1 \/ state = 2 \/ state = 3 \/ state = 4 OBVIOUS
<1> HIDE DEF panel
<1> QED BY <1>1, <1>2, <1>3 DEF Pages!WifiStatus, WifiBody, panel

\* The lines of a short network's status are neat.
LEMMA WifiBodyNeat ==
  ASSUME NEW state \in 1..4, NEW ssid \in Nat, state \in {2, 3} => ssid <= 13
  PROVE  Neat(WifiBody(state, ssid), Pages!Box(12, 80, 117, 88))
<1> DEFINE area == Pages!Box(12, 80, 117, 88)
<1>5. state = 1 \/ state = 2 \/ state = 3 \/ state = 4 OBVIOUS
<1>1. CASE state = 1
  <2> DEFINE body == <<Pages!Text(12, 81, 13), Pages!Text(12, 94, 14),
                       Pages!Text(12, 111, 9),
                  Pages!Text(12, 124, 12), Pages!Text(12, 141, 18)>>
  <2>1. body \in Seq(Boxes)
    BY DEF Pages!Text, Pages!Written, Pages!Large, Pages!Box, Boxes
  <2>2. \A i \in 1..Len(body) : Pages!Inside(body[i], area)
    BY DEF Pages!Text, Pages!Written, Pages!Large, Pages!Box, Pages!Inside
  <2>3. \A i, j \in 1..Len(body) : i < j => Pages!Apart(body[i], body[j])
    BY DEF Pages!Text, Pages!Written, Pages!Large, Pages!Box, Pages!Apart
  <2>4. Neat(body, area)
    <3> HIDE DEF body, area
    <3> QED BY <2>1, <2>2, <2>3, NeatBy, Zenon
  <2>5. WifiBody(state, ssid) = body BY <1>1 DEF WifiBody
  <2> QED BY <2>4, <2>5
<1>2. CASE state = 2
  <2> DEFINE body == <<Pages!Text(12, 83, 9),
                       Pages!Text(12, 100, 6 + Pages!AtMost(18, ssid)),
                  Pages!Text(12, 117, 13), Pages!Text(12, 134, 19)>>
  <2>6. ssid <= 13 BY <1>2
  <2>1. body \in Seq(Boxes)
    BY <2>6 DEF Pages!Text, Pages!Written, Pages!Large, Pages!Box, Boxes,
       Pages!AtMost
  <2>2. \A i \in 1..Len(body) : Pages!Inside(body[i], area)
    BY <2>6 DEF Pages!Text, Pages!Written, Pages!Large, Pages!Box, Pages!Inside,
       Pages!AtMost
  <2>3. \A i, j \in 1..Len(body) : i < j => Pages!Apart(body[i], body[j])
    BY <2>6 DEF Pages!Text, Pages!Written, Pages!Large, Pages!Box, Pages!Apart,
       Pages!AtMost
  <2>4. Neat(body, area)
    <3> HIDE DEF body, area
    <3> QED BY <2>1, <2>2, <2>3, NeatBy, Zenon
  <2>5. WifiBody(state, ssid) = body BY <1>2 DEF WifiBody
  <2> QED BY <2>4, <2>5
<1>3. CASE state = 3
  <2> DEFINE body == <<Pages!Text(12, 83, 18),
                       Pages!Text(12, 100, 6 + Pages!AtMost(18, ssid)),
                  Pages!Text(12, 117, 7), Pages!Text(12, 134, 5)>>
  <2>6. ssid <= 13 BY <1>3
  <2>1. body \in Seq(Boxes)
    BY <2>6 DEF Pages!Text, Pages!Written, Pages!Large, Pages!Box, Boxes,
       Pages!AtMost
  <2>2. \A i \in 1..Len(body) : Pages!Inside(body[i], area)
    BY <2>6 DEF Pages!Text, Pages!Written, Pages!Large, Pages!Box, Pages!Inside,
       Pages!AtMost
  <2>3. \A i, j \in 1..Len(body) : i < j => Pages!Apart(body[i], body[j])
    BY <2>6 DEF Pages!Text, Pages!Written, Pages!Large, Pages!Box, Pages!Apart,
       Pages!AtMost
  <2>4. Neat(body, area)
    <3> HIDE DEF body, area
    <3> QED BY <2>1, <2>2, <2>3, NeatBy, Zenon
  <2>5. WifiBody(state, ssid) = body BY <1>3 DEF WifiBody
  <2> QED BY <2>4, <2>5
<1>4. CASE state = 4
  <2> DEFINE body == <<Pages!Text(12, 87, 18)>>
  <2>1. body \in Seq(Boxes)
    BY DEF Pages!Text, Pages!Written, Pages!Large, Pages!Box, Boxes
  <2>2. \A i \in 1..Len(body) : Pages!Inside(body[i], area)
    BY DEF Pages!Text, Pages!Written, Pages!Large, Pages!Box, Pages!Inside
  <2>3. \A i, j \in 1..Len(body) : i < j => Pages!Apart(body[i], body[j])
    BY DEF Pages!Text, Pages!Written, Pages!Large, Pages!Box, Pages!Apart
  <2>4. Neat(body, area)
    <3> HIDE DEF body, area
    <3> QED BY <2>1, <2>2, <2>3, NeatBy, Zenon
  <2>5. WifiBody(state, ssid) = body BY <1>4 DEF WifiBody
  <2> QED BY <2>4, <2>5
<1> QED BY <1>1, <1>2, <1>3, <1>4, <1>5

\* The status of a network with a short name is in place.
LEMMA WifiStatusPage ==
  ASSUME NEW state \in 1..4, NEW ssid \in Nat, state \in {2, 3} => ssid <= 13
  PROVE  FitsIn(Pages!WifiStatus(state, ssid), Above)
<1> DEFINE panel == WifiPanel
           title == Pages!Text(12, 64, 5)
           below == Pages!Box(12, 80, 117, 88)
           area == Pages!Box(12, 64, 117, 104)
           body == WifiBody(state, ssid)
           right == IF state = 1 THEN 6 ELSE 4
<1>1. /\ panel \in Boxes /\ panel.w \in {118, 124} /\ panel.h >= 16
      /\ area \in Boxes /\ Pages!Inside(area, panel)
      /\ Pages!Inside(panel, Above)
      /\ area.y + area.h <= panel.y + panel.h - 16
  BY DEF WifiPanel, Pages!Box, Boxes, Pages!Inside, Above
<1>2. /\ below \in Boxes /\ Pages!Inside(below, area) /\ title \in Boxes
      /\ Pages!Inside(title, area) /\ Pages!Apart(title, below)
  BY DEF Pages!Box, Boxes, Pages!Inside, Pages!Apart, Pages!Text, Pages!Written
<1>3. Neat(body, below) BY WifiBodyNeat
<1>4. 0 \in 0..7 /\ right \in 0..6 OBVIOUS
<1>5. Pages!WifiStatus(state, ssid) =
        Pages!Panel(panel, (<<title>> \o body)
                    \o Pages!MenuHints(panel, 0, right))
  BY WifiStatusIs
<1> HIDE DEF panel, title, below, area, body, right
<1>6. Neat(<<title>> \o body, area) BY <1>1, <1>2, <1>3, NeatOne, NeatJoin
<1>7. FitsIn(Pages!Panel(panel, (<<title>> \o body)
                         \o Pages!MenuHints(panel, 0, right)), Above)
  BY <1>1, <1>4, <1>6, PanelHintsFits
<1> QED BY <1>5, <1>7

\* And with a longer one it is not: its line leaves the panel.
LEMMA WifiStatusOver ==
  ASSUME NEW state \in {2, 3}, NEW ssid \in Nat, ssid > 13
  PROVE  \E s \in Pages!WifiStatus(state, ssid) : ~Pages!Tidy(s)
<1> DEFINE title == <<Pages!Text(12, 64, 5)>>
           body == WifiBody(state, ssid)
           hints == Pages!MenuHints(WifiPanel, 0, 4)
           line == Pages!Text(12, 100, 6 + Pages!AtMost(18, ssid))
<1>1. /\ WifiPanel \in Boxes /\ WifiPanel.w \in {118, 124}
      /\ title \in Seq(Boxes) /\ 0 \in 0..7 /\ 4 \in 0..6
  BY DEF WifiPanel, Pages!Box, Boxes, Pages!Text, Pages!Written
<1>2. hints \in Seq(Boxes)
  <2>1. \A down \in 0..7, right \in 0..6 :
           Pages!MenuHints(WifiPanel, down, right) \in Seq(Boxes)
    BY <1>1, HintsBoxes, Zenon
  <2> QED BY <1>1, <2>1
<1>3. Pages!WifiStatus(state, ssid) =
      Pages!Panel(WifiPanel, (title \o body) \o hints)
  BY WifiStatusIs
<1>4. body \in Seq(Boxes)
  <2>1. CASE state = 2
    BY <2>1 DEF WifiBody, Pages!AtMost, Pages!Text, Pages!Written, Pages!Box,
       Boxes
  <2>2. CASE state = 3
    BY <2>2 DEF WifiBody, Pages!AtMost, Pages!Text, Pages!Written, Pages!Box,
       Boxes
  <2> QED BY <2>1, <2>2
<1>5. 2 \in DOMAIN body /\ body[2] = line BY DEF WifiBody
<1>6. ~Pages!Inside(line, WifiPanel)
  BY DEF Pages!AtMost, Pages!Text, Pages!Written, Pages!Box, Pages!Inside,
     WifiPanel
<1> HIDE DEF body, title, hints, line
<1>7. Rough(body, WifiPanel)
  BY <1>4, <1>5, <1>6 DEF Pages!Tidy, Pages!Sheet, Rough
<1>8. Rough((title \o body) \o hints, WifiPanel)
  BY <1>1, <1>2, <1>7, RoughLeft, RoughRight, Zenon
<1> QED BY <1>3, <1>8, RoughPanel

\* ---- The screen of the update and its corner

ReceivePanel == Pages!Box(5, 58, 124, 124)
ReceiveHead == <<Pages!Text(12, 67, 10), Pages!Text(12, 87, 18)>>
ReceiveNamed(version) ==
  IF version = 0 THEN << >>
      ELSE <<Pages!Text(12, 103, 9 + Pages!AtMost(12, version))>>
ReceiveTail(state) ==
  IF state = 2 THEN <<Pages!Box(12, 130, 110, 8), Pages!Text(12, 142, 4)>>
  ELSE <<Pages!Text(12, 130, 17)>>
ReceiveAsked ==
  <<Pages!Text(12, 67, 9), Pages!Text(12, 88, 16), Pages!Text(12, 105, 10),
    Pages!Text(12, 118, 15),
    Pages!Text(12, 136, 12), Pages!Text(12, 152, 16)>>

\* The screen of the update as lists of lines.
LEMMA ReceiveWindowIs ==
  ASSUME NEW state \in 1..3, NEW version \in Nat
  PROVE  Pages!ReceiveWindow(state, version) =
           IF state = 3
           THEN Pages!Panel(ReceivePanel,
                      ReceiveAsked \o Pages!MenuHints(ReceivePanel, 0, 6))
           ELSE Pages!Panel(ReceivePanel,
                  (((ReceiveHead \o ReceiveNamed(version))
                    \o <<Pages!Text(12, 115, 15)>>) \o ReceiveTail(state))
                  \o Pages!MenuHints(ReceivePanel, IF state = 1 THEN 7 ELSE 0,
                                     6))
<1> DEFINE panel == Pages!Centred(124, 124)
<1>1. panel = ReceivePanel BY DEF Pages!Centred, ReceivePanel
<1>2. /\ panel.x + 7 = 12 /\ panel.y + 9 = 67 /\ panel.y + 29 = 87
      /\ panel.y + 30 = 88 /\ panel.y + 45 = 103 /\ panel.y + 47 = 105
      /\ panel.y + 57 = 115 /\ panel.y + 60 = 118 /\ panel.y + 72 = 130
      /\ panel.y + 78 = 136 /\ panel.y + 84 = 142 /\ panel.y + 94 = 152
      /\ 6 + 9 = 15
  BY <1>1 DEF ReceivePanel, Pages!Box
<1>4. CASE state = 3
  BY <1>1, <1>2, <1>4 DEF Pages!ReceiveWindow, ReceiveAsked
<1>5. CASE state # 3
  <2> DEFINE row(y, cells) == Pages!Text(panel.x + 7, panel.y + y, cells)
             head == <<row(9, 10), row(29, 18)>>
             named == IF version = 0 THEN << >>
                      ELSE <<row(45, 9 + Pages!AtMost(12, version))>>
             sized == <<row(57, 6 + 9)>>
             tail == IF state = 2
                     THEN <<Pages!Box(panel.x + 7, panel.y + 72, 110, 8),
                            row(84, 4)>>
                     ELSE <<row(72, 17)>>
             hints == Pages!MenuHints(panel, IF state = 1 THEN 7 ELSE 0, 6)
             lines == (((head \o named) \o sized) \o tail) \o hints
  <2>1. Pages!ReceiveWindow(state, version) = Pages!Panel(panel, lines)
    BY <1>5, ZenonT(30) DEF Pages!ReceiveWindow
  <2>2. head = ReceiveHead BY <1>2 DEF ReceiveHead
  <2>3. named = ReceiveNamed(version) BY <1>2 DEF ReceiveNamed
  <2>4. sized = <<Pages!Text(12, 115, 15)>> BY <1>2
  <2>5. tail = ReceiveTail(state) BY <1>2 DEF ReceiveTail
  <2>6. hints = Pages!MenuHints(ReceivePanel, IF state = 1 THEN 7 ELSE 0, 6)
    BY <1>1
  <2> HIDE DEF panel, head, named, sized, tail, hints
  <2> QED BY <1>1, <1>5, <2>1, <2>2, <2>3, <2>4, <2>5, <2>6
<1> QED BY <1>4, <1>5

\* Where its panel is.
LEMMA ReceiveIs ==
  /\ ReceivePanel \in Boxes /\ ReceivePanel.w \in {118, 124}
  /\ ReceivePanel.h >= 16 /\ Pages!Inside(ReceivePanel, Above)
  /\ ReceivePanel.y + ReceivePanel.h - 16 = 166
BY DEF ReceivePanel, Pages!Box, Boxes, Pages!Inside, Above

\* Its lists are neat, each in a room of its own.
LEMMA ReceiveLines ==
  /\ Neat(ReceiveAsked, Pages!Box(12, 66, 117, 100))
  /\ Neat(ReceiveHead, Pages!Box(12, 66, 117, 30))
  /\ \A version \in Nat :
       /\ ReceiveNamed(version) \in Seq(Boxes)
       /\ version <= 10
            => Neat(ReceiveNamed(version), Pages!Box(12, 102, 117, 10))
  /\ Neat(<<Pages!Text(12, 115, 15)>>, Pages!Box(12, 114, 117, 10))
  /\ \A state \in 1..2 : Neat(ReceiveTail(state), Pages!Box(12, 129, 117, 22))
<1>1. Neat(ReceiveAsked, Pages!Box(12, 66, 117, 100))
  <2> DEFINE lines == ReceiveAsked
             area == Pages!Box(12, 66, 117, 100)
  <2>1. lines \in Seq(Boxes)
    BY DEF Pages!Text, Pages!Written, Pages!Large, Pages!Box, Boxes,
       ReceiveAsked
  <2>2. \A i \in 1..Len(lines) : Pages!Inside(lines[i], area)
    BY DEF Pages!Text, Pages!Written, Pages!Large, Pages!Box, Pages!Inside,
       ReceiveAsked
  <2>3. \A i, j \in 1..Len(lines) : i < j => Pages!Apart(lines[i], lines[j])
    BY DEF Pages!Text, Pages!Written, Pages!Large, Pages!Box, Pages!Apart,
       ReceiveAsked
  <2>4. Neat(lines, area)
    <3> HIDE DEF lines, area
    <3> QED BY <2>1, <2>2, <2>3, NeatBy, Zenon
  <2> QED BY <2>4
<1>2. Neat(ReceiveHead, Pages!Box(12, 66, 117, 30))
  <2> DEFINE lines == ReceiveHead
             area == Pages!Box(12, 66, 117, 30)
  <2>1. lines \in Seq(Boxes)
    BY DEF Pages!Text, Pages!Written, Pages!Large, Pages!Box, Boxes, ReceiveHead
  <2>2. \A i \in 1..Len(lines) : Pages!Inside(lines[i], area)
    BY DEF Pages!Text, Pages!Written, Pages!Large, Pages!Box, Pages!Inside,
       ReceiveHead
  <2>3. \A i, j \in 1..Len(lines) : i < j => Pages!Apart(lines[i], lines[j])
    BY DEF Pages!Text, Pages!Written, Pages!Large, Pages!Box, Pages!Apart,
       ReceiveHead
  <2>4. Neat(lines, area)
    <3> HIDE DEF lines, area
    <3> QED BY <2>1, <2>2, <2>3, NeatBy, Zenon
  <2> QED BY <2>4
<1>3. ASSUME NEW version \in Nat
      PROVE  /\ ReceiveNamed(version) \in Seq(Boxes)
             /\ version <= 10 =>
                  Neat(ReceiveNamed(version), Pages!Box(12, 102, 117, 10))
  <2> DEFINE line == Pages!Text(12, 103, 9 + Pages!AtMost(12, version))
             area == Pages!Box(12, 102, 117, 10)
  <2>1. CASE version = 0
    <3>1. ReceiveNamed(version) = << >> BY <2>1 DEF ReceiveNamed
    <3> QED BY <3>1, NeatNone
  <2>2. CASE version # 0
    <3>1. ReceiveNamed(version) = <<line>> BY <2>2 DEF ReceiveNamed
    <3>2. line \in Boxes /\ area \in Boxes
      BY DEF Pages!AtMost, Pages!Text, Pages!Written, Pages!Box, Boxes
    <3>3. version <= 10 => Pages!Inside(line, area)
      BY DEF Pages!AtMost, Pages!Text, Pages!Written, Pages!Box, Pages!Inside
    <3> HIDE DEF line, area
    <3>4. version <= 10 => Neat(<<line>>, area)
      BY <3>2, <3>3, NeatOne, NeatWider
    <3> QED BY <3>1, <3>2, <3>4 DEF area
  <2> QED BY <2>1, <2>2
<1>4. Neat(<<Pages!Text(12, 115, 15)>>, Pages!Box(12, 114, 117, 10))
  <2> DEFINE lines == <<Pages!Text(12, 115, 15)>>
             area == Pages!Box(12, 114, 117, 10)
  <2>1. lines \in Seq(Boxes)
    BY DEF Pages!Text, Pages!Written, Pages!Large, Pages!Box, Boxes
  <2>2. \A i \in 1..Len(lines) : Pages!Inside(lines[i], area)
    BY DEF Pages!Text, Pages!Written, Pages!Large, Pages!Box, Pages!Inside
  <2>3. \A i, j \in 1..Len(lines) : i < j => Pages!Apart(lines[i], lines[j])
    BY DEF Pages!Text, Pages!Written, Pages!Large, Pages!Box, Pages!Apart
  <2>4. Neat(lines, area)
    <3> HIDE DEF lines, area
    <3> QED BY <2>1, <2>2, <2>3, NeatBy, Zenon
  <2> QED BY <2>4
<1>5. ASSUME NEW state \in 1..2
      PROVE  Neat(ReceiveTail(state), Pages!Box(12, 129, 117, 22))
  <2>5. CASE state = 2
    <3> DEFINE lines == <<Pages!Box(12, 130, 110, 8), Pages!Text(12, 142, 4)>>
               area == Pages!Box(12, 129, 117, 22)
    <3>1. lines \in Seq(Boxes)
      BY DEF Pages!Text, Pages!Written, Pages!Large, Pages!Box, Boxes
    <3>2. \A i \in 1..Len(lines) : Pages!Inside(lines[i], area)
      BY DEF Pages!Text, Pages!Written, Pages!Large, Pages!Box, Pages!Inside
    <3>3. \A i, j \in 1..Len(lines) : i < j => Pages!Apart(lines[i], lines[j])
      BY DEF Pages!Text, Pages!Written, Pages!Large, Pages!Box, Pages!Apart
    <3>4. Neat(lines, area)
      <4> HIDE DEF lines, area
      <4> QED BY <3>1, <3>2, <3>3, NeatBy, Zenon
    <3>5. ReceiveTail(state) = lines BY <2>5 DEF ReceiveTail
    <3> QED BY <3>4, <3>5
  <2>6. CASE state # 2
    <3> DEFINE lines == <<Pages!Text(12, 130, 17)>>
               area == Pages!Box(12, 129, 117, 22)
    <3>1. lines \in Seq(Boxes)
      BY DEF Pages!Text, Pages!Written, Pages!Large, Pages!Box, Boxes
    <3>2. \A i \in 1..Len(lines) : Pages!Inside(lines[i], area)
      BY DEF Pages!Text, Pages!Written, Pages!Large, Pages!Box, Pages!Inside
    <3>3. \A i, j \in 1..Len(lines) : i < j => Pages!Apart(lines[i], lines[j])
      BY DEF Pages!Text, Pages!Written, Pages!Large, Pages!Box, Pages!Apart
    <3>4. Neat(lines, area)
      <4> HIDE DEF lines, area
      <4> QED BY <3>1, <3>2, <3>3, NeatBy, Zenon
    <3>5. ReceiveTail(state) = lines BY <2>6 DEF ReceiveTail
    <3> QED BY <3>4, <3>5
  <2> QED BY <2>5, <2>6
<1> QED BY <1>1, <1>2, <1>3, <1>4, <1>5

\* With a short version the screen of the update is in place.
LEMMA ReceiveWindowPage ==
  ASSUME NEW state \in 1..3, NEW version \in Nat,
         state \in {1, 2} => version <= 10
  PROVE  FitsIn(Pages!ReceiveWindow(state, version), Above)
<1>1. CASE state = 3
  <2> DEFINE area == Pages!Box(12, 66, 117, 100)
  <2>1. area \in Boxes /\ Pages!Inside(area, ReceivePanel) /\ area.y + area.h =
        166
    BY DEF Pages!Box, Boxes, Pages!Inside, ReceivePanel
  <2>2. Neat(ReceiveAsked, area) BY ReceiveLines
  <2> HIDE DEF area
  <2>3. 0 \in 0..7 /\ 6 \in 0..6 /\ 166 <= 166 OBVIOUS
  <2>4. FitsIn(Pages!Panel(ReceivePanel,
                   ReceiveAsked \o Pages!MenuHints(ReceivePanel, 0, 6)), Above)
    BY <2>1, <2>2, <2>3, ReceiveIs, PanelHintsFits
  <2> QED BY <1>1, <2>4, ReceiveWindowIs
<1>2. CASE state # 3
  <2> DEFINE a == Pages!Box(12, 66, 117, 30)
             b == Pages!Box(12, 102, 117, 10)
             c == Pages!Box(12, 114, 117, 10)
             d == Pages!Box(12, 129, 117, 22)
             ab == Pages!Box(12, 66, 117, 46)
             abc == Pages!Box(12, 66, 117, 58)
             area == Pages!Box(12, 66, 117, 100)
             named == ReceiveNamed(version)
             sized == <<Pages!Text(12, 115, 15)>>
             tail == ReceiveTail(state)
             down == IF state = 1 THEN 7 ELSE 0
  <2>1. /\ a \in Boxes /\ b \in Boxes /\ c \in Boxes /\ d \in Boxes
        /\ ab \in Boxes /\ abc \in Boxes /\ area \in Boxes
    BY DEF Pages!Box, Boxes
  <2>2. /\ Pages!Inside(a, ab) /\ Pages!Inside(b, ab) /\ Pages!Apart(a, b)
        /\ Pages!Inside(ab, abc) /\ Pages!Inside(c, abc) /\ Pages!Apart(ab, c)
        /\ Pages!Inside(abc, area) /\ Pages!Inside(d, area)
        /\ Pages!Apart(abc, d)
    BY DEF Pages!Box, Pages!Inside, Pages!Apart
  <2>3. Pages!Inside(area, ReceivePanel) /\ area.y + area.h = 166
    BY DEF Pages!Box, Pages!Inside, ReceivePanel
  <2>4. /\ Neat(ReceiveHead, a) /\ Neat(named, b) /\ Neat(sized, c)
        /\ Neat(tail, d)
    <3>1. state \in 1..2 /\ version <= 10 BY <1>2
    <3> QED BY <3>1, ReceiveLines
  <2>5. down \in 0..7 /\ 6 \in 0..6 /\ 166 <= 166 OBVIOUS
  <2>6. Pages!ReceiveWindow(state, version) =
          Pages!Panel(ReceivePanel, (((ReceiveHead \o named) \o sized) \o tail)
                              \o Pages!MenuHints(ReceivePanel, down, 6))
    BY <1>2, ReceiveWindowIs
  <2> HIDE DEF a, b, c, d, ab, abc, area, named, sized, tail, down
  <2>7. Neat(ReceiveHead \o named, ab) BY <2>1, <2>2, <2>4, NeatJoin
  <2>8. Neat((ReceiveHead \o named) \o sized, abc)
    BY <2>1, <2>2, <2>4, <2>7, NeatJoin
  <2>9. Neat(((ReceiveHead \o named) \o sized) \o tail, area)
    BY <2>1, <2>2, <2>4, <2>8, NeatJoin
  <2>10. FitsIn(Pages!Panel(ReceivePanel,
                            (((ReceiveHead \o named) \o sized) \o tail)
                              \o Pages!MenuHints(ReceivePanel, down, 6)), Above)
    BY <2>1, <2>3, <2>5, <2>9, ReceiveIs, PanelHintsFits
  <2> QED BY <2>6, <2>10
<1> QED BY <1>1, <1>2

\* And with a longer one it is not.
LEMMA ReceiveWindowOver ==
  ASSUME NEW state \in {1, 2}, NEW version \in Nat, version > 10
  PROVE  \E s \in Pages!ReceiveWindow(state, version) : ~Pages!Tidy(s)
<1> DEFINE named == ReceiveNamed(version)
           sized == <<Pages!Text(12, 115, 15)>>
           tail == ReceiveTail(state)
           down == IF state = 1 THEN 7 ELSE 0
           hints == Pages!MenuHints(ReceivePanel, down, 6)
           line == Pages!Text(12, 103, 9 + Pages!AtMost(12, version))
<1>1. /\ ReceiveHead \in Seq(Boxes) /\ named \in Seq(Boxes)
      /\ sized \in Seq(Boxes) /\ tail \in Seq(Boxes)
  <2>1. state \in 1..2 OBVIOUS
  <2> HIDE DEF sized
  <2> QED BY <2>1, ReceiveLines, Zenon DEF Neat, sized
<1>2. down \in 0..7 /\ 6 \in 0..6 OBVIOUS
<1>3. hints \in Seq(Boxes)
  <2>1. \A k \in 0..7, right \in 0..6 :
           Pages!MenuHints(ReceivePanel, k, right) \in Seq(Boxes)
    BY ReceiveIs, HintsBoxes, Zenon
  <2> QED BY <1>2, <2>1
<1>4. named = <<line>> BY DEF ReceiveNamed
<1>5. ~Pages!Inside(line, ReceivePanel)
  BY DEF Pages!AtMost, Pages!Text, Pages!Written, Pages!Box, Pages!Inside,
     ReceivePanel
<1>6. Pages!ReceiveWindow(state, version) =
        Pages!Panel(ReceivePanel, (((ReceiveHead \o named) \o sized) \o tail)
                    \o hints)
  BY ReceiveWindowIs
<1> HIDE DEF named, sized, tail, down, hints, line
<1>7. 1 \in DOMAIN named /\ named[1] = line BY <1>4
<1>8. Rough(named, ReceivePanel)
  BY <1>1, <1>5, <1>7 DEF Pages!Tidy, Pages!Sheet, Rough
<1>9. Rough(ReceiveHead \o named, ReceivePanel)
  BY <1>1, <1>8, RoughRight, Zenon
<1>10. Rough((((ReceiveHead \o named) \o sized) \o tail) \o hints, ReceivePanel)
  BY <1>1, <1>3, <1>9, RoughLeft, Zenon
<1> QED BY <1>6, <1>10, RoughPanel

\* The corner: what it holds fits beside each other, or the version and the
\* percentage do not.
Beside == Pages!Box(0, 0, 240, 109)
UpperCorner == Pages!Box(40, 45, 160, 44)
LowerCorner == Pages!Box(8, 94, 119, 52)
CornerLines(box, version, percent, below) ==
  <<Pages!Text(box.x + 7, box.y + 5,
         IF version = 0 THEN 3 ELSE 4 + Pages!AtMost(12, version)),
    Pages!Text(box.x + box.w - 7 - 6 * percent, box.y + 5, percent),
    Pages!Text(box.x + 7, box.y + 18, below),
    Pages!Box(box.x + 7, box.y + box.h - 10, box.w - 14, 6)>>

\* The corner in landscape and in portrait.
LEMMA OverlayIs ==
  ASSUME NEW version \in Nat, NEW percent \in 2..4
  PROVE  /\ Pages!CompactOverlay(TRUE, version, percent) =
              {Pages!Sheet(Pages!Landscape, <<UpperCorner>>)}
              \cup {Pages!Sheet(UpperCorner,
                                CornerLines(UpperCorner, version, percent, 24))}
         /\ Pages!CompactOverlay(FALSE, version, percent) =
              {Pages!Sheet(Pages!Portrait, <<LowerCorner>>)}
              \cup {Pages!Sheet(LowerCorner,
                                CornerLines(LowerCorner, version, percent, 17))}
BY DEF Pages!CompactOverlay, CornerLines, UpperCorner, LowerCorner

\* The corner is in place, in portrait with a short version.
LEMMA OverlayPage ==
  ASSUME NEW version \in Nat, NEW percent \in 2..4
  PROVE  /\ FitsIn(Pages!CompactOverlay(TRUE, version, percent), Beside)
         /\ (version > 0 => version + percent <= 13) =>
              FitsIn(Pages!CompactOverlay(FALSE, version, percent), Above)
<1>1. FitsIn(Pages!CompactOverlay(TRUE, version, percent), Beside)
  <2> DEFINE box == UpperCorner
             lines == CornerLines(box, version, percent, 24)
  <2>1. /\ box \in Boxes /\ Pages!Inside(box, box)
        /\ Pages!Inside(box, Pages!Landscape)
        /\ Pages!Inside(box, Beside) /\ Pages!Landscape \in Boxes
        /\ Beside \in Boxes
    BY DEF Pages!Box, Boxes, Pages!Inside, Pages!Landscape, Beside, UpperCorner
  <2>2. lines \in Seq(Boxes)
    BY DEF Pages!Text, Pages!Written, Pages!Large, Pages!Box, Boxes,
       CornerLines, Pages!AtMost, UpperCorner
  <2>3. \A i \in 1..Len(lines) : Pages!Inside(lines[i], box)
    BY DEF Pages!Text, Pages!Written, Pages!Large, Pages!Box, Pages!Inside,
       CornerLines, Pages!AtMost, UpperCorner
  <2>4. \A i, j \in 1..Len(lines) : i < j => Pages!Apart(lines[i], lines[j])
    BY DEF Pages!Text, Pages!Written, Pages!Large, Pages!Box, Pages!Apart,
       CornerLines, Pages!AtMost, UpperCorner
  <2>5. Neat(lines, box)
    <3> HIDE DEF lines, box
    <3> QED BY <2>2, <2>3, <2>4, NeatBy, Zenon
  <2>6. FitsIn({Pages!Sheet(box, lines)}, Beside)
    <3> HIDE DEF box, lines
    <3> QED BY <2>1, <2>5, SheetFits
  <2>7. FitsIn({Pages!Sheet(Pages!Landscape, <<box>>)}, Beside)
    <3> HIDE DEF box
    <3> QED BY <2>1, NeatOne, SheetFits
  <2>8. FitsIn({Pages!Sheet(Pages!Landscape, <<box>>)}
               \cup {Pages!Sheet(box, lines)}, Beside)
    BY <2>6, <2>7, FitsBoth, Zenon
  <2> QED BY <2>8, OverlayIs, Zenon
<1>2. ASSUME version > 0 => version + percent <= 13
      PROVE  FitsIn(Pages!CompactOverlay(FALSE, version, percent), Above)
  <2> DEFINE box == LowerCorner
             lines == CornerLines(box, version, percent, 17)
  <2>1. /\ box \in Boxes /\ Pages!Inside(box, box)
        /\ Pages!Inside(box, Pages!Portrait)
        /\ Pages!Inside(box, Above) /\ Pages!Portrait \in Boxes
        /\ Above \in Boxes
    BY DEF Pages!Box, Boxes, Pages!Inside, Pages!Portrait, Above, LowerCorner
  <2>2. lines \in Seq(Boxes)
    BY <1>2 DEF Pages!Text, Pages!Written, Pages!Large, Pages!Box, Boxes,
       CornerLines, Pages!AtMost, LowerCorner
  <2>3. \A i \in 1..Len(lines) : Pages!Inside(lines[i], box)
    BY <1>2 DEF Pages!Text, Pages!Written, Pages!Large, Pages!Box, Pages!Inside,
       CornerLines, Pages!AtMost, LowerCorner
  <2>4. \A i, j \in 1..Len(lines) : i < j => Pages!Apart(lines[i], lines[j])
    BY <1>2 DEF Pages!Text, Pages!Written, Pages!Large, Pages!Box, Pages!Apart,
       CornerLines, Pages!AtMost, LowerCorner
  <2>5. Neat(lines, box)
    <3> HIDE DEF lines, box
    <3> QED BY <2>2, <2>3, <2>4, NeatBy, Zenon
  <2>6. FitsIn({Pages!Sheet(box, lines)}, Above)
    <3> HIDE DEF box, lines
    <3> QED BY <2>1, <2>5, SheetFits
  <2>7. FitsIn({Pages!Sheet(Pages!Portrait, <<box>>)}, Above)
    <3> HIDE DEF box
    <3> QED BY <2>1, NeatOne, SheetFits
  <2>8. FitsIn({Pages!Sheet(Pages!Portrait, <<box>>)}
               \cup {Pages!Sheet(box, lines)}, Above)
    BY <2>6, <2>7, FitsBoth, Zenon
  <2> QED BY <2>8, OverlayIs, Zenon
<1> QED BY <1>1, <1>2

\* In portrait a longer version lies on the percentage.
LEMMA OverlayOver ==
  ASSUME NEW version \in Nat, NEW percent \in 2..4,
         version > 0, version + percent > 13
  PROVE  \E s \in Pages!CompactOverlay(FALSE, version, percent) : ~Pages!Tidy(s)
<1> DEFINE box == LowerCorner
           lines == CornerLines(box, version, percent, 17)
<1>1. 1 \in DOMAIN lines /\ 2 \in DOMAIN lines /\ 1 < 2
  BY DEF CornerLines
<1>2. ~Pages!Apart(lines[1], lines[2])
  BY DEF CornerLines, Pages!AtMost, Pages!Text, Pages!Written, Pages!Box,
     Pages!Apart, LowerCorner
<1> HIDE DEF lines
<1>3. ~Pages!Tidy(Pages!Sheet(box, lines))
  BY <1>1, <1>2 DEF Pages!Tidy, Pages!Sheet
<1>4. Pages!CompactOverlay(FALSE, version, percent) =
        {Pages!Sheet(Pages!Portrait, <<box>>)} \cup {Pages!Sheet(box, lines)}
  BY OverlayIs, Zenon DEF lines
<1> QED BY <1>3, <1>4

\* ---- Pages with a few lines

\* The key to pair with is in place.
LEMMA PasskeyPage == FitsIn(Pages!Passkey, Above)
<1> DEFINE lines == <<Pages!Text(8, 56, 17), Pages!Text(8, 184, 17),
                     Pages!Box((135 - 18 * 6) \div 2, 110, 18 * 6, 24)>>
           area == Above
<1>1. Pages!Passkey = {Pages!Sheet(Pages!Portrait, lines)} BY DEF Pages!Passkey
<1>2. lines \in Seq(Boxes)
  BY DEF Pages!Text, Pages!Written, Pages!Large, Pages!Box, Boxes, Above
<1>3. \A i \in 1..Len(lines) : Pages!Inside(lines[i], area)
  BY DEF Pages!Text, Pages!Written, Pages!Large, Pages!Box, Pages!Inside, Above
<1>4. \A i, j \in 1..Len(lines) : i < j => Pages!Apart(lines[i], lines[j])
  BY DEF Pages!Text, Pages!Written, Pages!Large, Pages!Box, Pages!Apart, Above
<1>5. Neat(lines, area)
  <2> HIDE DEF lines, area
  <2> QED BY <1>2, <1>3, <1>4, NeatBy, Zenon
<1> HIDE DEF lines
<1>6. Pages!Inside(area, area) BY DEF Above, Pages!Inside, Pages!Box
<1> QED BY <1>1, <1>5, <1>6, AboveIs, SheetFits

\* The character that is being installed is in place.
LEMMA InstallingPage == FitsIn(Pages!Installing, Above)
<1> DEFINE lines == <<Pages!Text(8, 90, 10), Pages!Text(8, 102, 15),
                     Pages!Box(8, 116, 135 - 16, 8)>>
           area == Above
<1>1. Pages!Installing = {Pages!Sheet(Pages!Portrait, lines)}
  BY DEF Pages!Installing
<1>2. lines \in Seq(Boxes)
  BY DEF Pages!Text, Pages!Written, Pages!Large, Pages!Box, Boxes, Above
<1>3. \A i \in 1..Len(lines) : Pages!Inside(lines[i], area)
  BY DEF Pages!Text, Pages!Written, Pages!Large, Pages!Box, Pages!Inside, Above
<1>4. \A i, j \in 1..Len(lines) : i < j => Pages!Apart(lines[i], lines[j])
  BY DEF Pages!Text, Pages!Written, Pages!Large, Pages!Box, Pages!Apart, Above
<1>5. Neat(lines, area)
  <2> HIDE DEF lines, area
  <2> QED BY <1>2, <1>3, <1>4, NeatBy, Zenon
<1> HIDE DEF lines
<1>6. Pages!Inside(area, area) BY DEF Above, Pages!Inside, Pages!Box
<1> QED BY <1>1, <1>5, <1>6, AboveIs, SheetFits

\* The face is in place.
LEMMA FacePage == FitsIn(Pages!Face, Above)
<1> DEFINE lines == <<Pages!Box(0, 0, 135, 90), Pages!Box(3, 154, 5 * 16, 36),
                     Pages!Box(83, 154, 3 * 16, 36),
                         Pages!Box(67 - 30, 197, 60, 21)>>
           area == Above
<1>1. Pages!Face = {Pages!Sheet(Pages!Portrait, lines)} BY DEF Pages!Face
<1>2. lines \in Seq(Boxes)
  BY DEF Pages!Text, Pages!Written, Pages!Large, Pages!Box, Boxes, Above
<1>3. \A i \in 1..Len(lines) : Pages!Inside(lines[i], area)
  BY DEF Pages!Text, Pages!Written, Pages!Large, Pages!Box, Pages!Inside, Above
<1>4. \A i, j \in 1..Len(lines) : i < j => Pages!Apart(lines[i], lines[j])
  BY DEF Pages!Text, Pages!Written, Pages!Large, Pages!Box, Pages!Apart, Above
<1>5. Neat(lines, area)
  <2> HIDE DEF lines, area
  <2> QED BY <1>2, <1>3, <1>4, NeatBy, Zenon
<1> HIDE DEF lines
<1>6. Pages!Inside(area, area) BY DEF Above, Pages!Inside, Pages!Box
<1> QED BY <1>1, <1>5, <1>6, AboveIs, SheetFits

\* ---- Pages of lines below each other

\* Lists of rows that are narrow enough, and where they end.
Thin(rows, w) == \A i \in 1..Len(rows) : 6 * rows[i][2] <= w
Ends(y, rows, last) ==
  \A top : Tops(y, rows, top) =>
             top[Len(rows)] + rows[Len(rows)][3] <= last

\* Thin rows that end above a line are neat in the room above it.
LEMMA ListNeat ==
  ASSUME NEW x \in Int, NEW y \in Int, NEW rows \in Seq(Row), Len(rows) > 0,
         NEW w \in Nat, Thin(rows, w), NEW h \in Int, Ends(y, rows, y + h)
  PROVE  Neat(Pages!Stacked(x, y, rows), Pages!Box(x, y, w, h))
<1>1. \A i \in 1..Len(rows) : 6 * rows[i][2] <= w BY Zenon DEF Thin
<1>2. PICK top \in [1..Len(rows) -> Int] :
        /\ Tops(y, rows, top)
        /\ \A k \in Int : top[Len(rows)] + rows[Len(rows)][3] <= y + k =>
             Neat(Pages!Stacked(x, y, rows), Pages!Box(x, y, w, k))
  BY <1>1, StackedNeat, Zenon
<1>3. top[Len(rows)] + rows[Len(rows)][3] <= y + h BY <1>2, Zenon DEF Ends
<1> QED BY <1>2, <1>3, Zenon

\* The room of the pages of information.
LEMMA InfoBodyIs ==
  /\ Pages!InfoBody \in Boxes /\ Above \in Boxes
  /\ Pages!Box(4, 72, 131, 152) \in Boxes
  /\ Pages!Inside(Pages!Box(4, 72, 131, 152), Pages!InfoBody)
  /\ Pages!Inside(Pages!Box(4, 72, 131, 152), Above)
BY DEF Pages!InfoBody, Above, Pages!Box, Boxes, Pages!Inside

\* Their header is neat.
LEMMA InfoHeaderNeat ==
  ASSUME NEW section \in 0..20
  PROVE  Neat(Pages!InfoHeader(section), Pages!Box(4, 72, 131, 20))
<1> DEFINE lines == Pages!InfoHeader(section)
           area == Pages!Box(4, 72, 131, 20)
<1>1. lines \in Seq(Boxes)
  BY DEF Pages!Text, Pages!Written, Pages!Large, Pages!Box, Boxes,
     Pages!InfoHeader
<1>2. \A i \in 1..Len(lines) : Pages!Inside(lines[i], area)
  BY DEF Pages!Text, Pages!Written, Pages!Large, Pages!Box, Pages!Inside,
     Pages!InfoHeader
<1>3. \A i, j \in 1..Len(lines) : i < j => Pages!Apart(lines[i], lines[j])
  BY DEF Pages!Text, Pages!Written, Pages!Large, Pages!Box, Pages!Apart,
     Pages!InfoHeader
<1>4. Neat(lines, area)
  <2> HIDE DEF lines, area
  <2> QED BY <1>1, <1>2, <1>3, NeatBy, Zenon
<1> QED BY <1>4

\* A page of information is in place when its rows are thin and end in time.
LEMMA InfoFits ==
  ASSUME NEW section \in 0..20, NEW rows \in Seq(Row), Len(rows) > 0,
         Thin(rows, 131), Ends(96, rows, 224)
  PROVE  FitsIn(Pages!Info(section, rows), Above)
<1> DEFINE x == 4  y == 96  w == 131  h == 128
           head == Pages!Box(4, 72, 131, 20)
           below == Pages!Box(x, y, w, h)
           area == Pages!Box(4, 72, 131, 152)
           list == Pages!Stacked(x, y, rows)
<1>1. x \in Int /\ y \in Int /\ w \in Nat /\ h \in Int /\ y + h = 224 OBVIOUS
<1>2. /\ head \in Boxes /\ below \in Boxes /\ area \in Boxes
      /\ Pages!Inside(head, area) /\ Pages!Inside(below, area)
      /\ Pages!Apart(head, below)
  BY DEF Pages!Box, Boxes, Pages!Inside, Pages!Apart
<1>3. Neat(Pages!InfoHeader(section), head) BY InfoHeaderNeat
<1>4. Pages!Info(section, rows) =
      {Pages!Sheet(Pages!InfoBody, Pages!InfoHeader(section) \o list)}
  BY DEF Pages!Info
<1>5. Thin(rows, w) /\ Ends(y, rows, y + h) BY <1>1
<1> HIDE DEF x, y, w, h
<1>6. Neat(list, below) BY <1>1, <1>5, ListNeat, Zenon
<1> HIDE DEF head, below, list
<1>7. Neat(Pages!InfoHeader(section) \o list, area)
  BY <1>2, <1>3, <1>6, NeatJoin, Zenon
<1> QED BY <1>4, <1>7, InfoBodyIs, SheetFits

\* The page about the device is in place.
LEMMA AboutPage == FitsIn(Pages!About, Above)
<1> DEFINE rows == <<Pages!Plain(0, 18), Pages!Plain(0, 17), Pages!Plain(6, 20),
                     Pages!Plain(0, 20),
                    Pages!Plain(0, 18), Pages!Plain(0, 18), Pages!Plain(0, 18),
                        Pages!Plain(6, 19),
                    Pages!Plain(0, 20), Pages!Plain(6, 20), Pages!Plain(0, 20)>>
           section == 5
<1>1. rows \in Seq(Row) /\ Len(rows) = 11 /\ Len(rows) > 0 /\ section \in 0..20
  BY DEF Pages!Plain, Row
<1>2. Thin(rows, 131) BY DEF Thin, Pages!Plain
<1>3. Ends(96, rows, 224)
  <2> SUFFICES ASSUME NEW top, Tops(96, rows, top)
               PROVE  top[11] + 8 <= 224
    BY <1>1 DEF Ends, Pages!Plain
  <2>1. top[1] = 96 BY DEF Tops, Pages!Plain
  <2>2. top[2] = top[1] + 8 BY <1>1 DEF Tops, Pages!Plain
  <2>3. top[3] = top[2] + 14 BY <1>1 DEF Tops, Pages!Plain
  <2>4. top[4] = top[3] + 8 BY <1>1 DEF Tops, Pages!Plain
  <2>5. top[5] = top[4] + 8 BY <1>1 DEF Tops, Pages!Plain
  <2>6. top[6] = top[5] + 8 BY <1>1 DEF Tops, Pages!Plain
  <2>7. top[7] = top[6] + 8 BY <1>1 DEF Tops, Pages!Plain
  <2>8. top[8] = top[7] + 14 BY <1>1 DEF Tops, Pages!Plain
  <2>9. top[9] = top[8] + 8 BY <1>1 DEF Tops, Pages!Plain
  <2>10. top[10] = top[9] + 14 BY <1>1 DEF Tops, Pages!Plain
  <2>11. top[11] = top[10] + 8 BY <1>1 DEF Tops, Pages!Plain
  <2> QED BY <2>1, <2>2, <2>3, <2>4, <2>5, <2>6, <2>7, <2>8, <2>9, <2>10, <2>11
<1>4. Pages!About = Pages!Info(section, rows) BY DEF Pages!About
<1> HIDE DEF rows, section
<1>5. FitsIn(Pages!Info(section, rows), Above)
  BY <1>1, <1>2, <1>3, InfoFits, Zenon
<1> QED BY <1>4, <1>5

\* The page about the buttons is in place.
LEMMA ButtonsPage == FitsIn(Pages!Buttons, Above)
<1> DEFINE rows == <<Pages!Plain(0, 9), Pages!Plain(0, 15), Pages!Plain(0, 18),
                     Pages!Plain(4, 14),
                    Pages!Plain(0, 13), Pages!Plain(0, 15), Pages!Plain(4, 6),
                        Pages!Plain(0, 8),
                    Pages!Plain(4, 16), Pages!Plain(0, 20), Pages!Plain(0, 17)>>
           section == 7
<1>1. rows \in Seq(Row) /\ Len(rows) = 11 /\ Len(rows) > 0 /\ section \in 0..20
  BY DEF Pages!Plain, Row
<1>2. Thin(rows, 131) BY DEF Thin, Pages!Plain
<1>3. Ends(96, rows, 224)
  <2> SUFFICES ASSUME NEW top, Tops(96, rows, top)
               PROVE  top[11] + 8 <= 224
    BY <1>1 DEF Ends, Pages!Plain
  <2>1. top[1] = 96 BY DEF Tops, Pages!Plain
  <2>2. top[2] = top[1] + 8 BY <1>1 DEF Tops, Pages!Plain
  <2>3. top[3] = top[2] + 8 BY <1>1 DEF Tops, Pages!Plain
  <2>4. top[4] = top[3] + 12 BY <1>1 DEF Tops, Pages!Plain
  <2>5. top[5] = top[4] + 8 BY <1>1 DEF Tops, Pages!Plain
  <2>6. top[6] = top[5] + 8 BY <1>1 DEF Tops, Pages!Plain
  <2>7. top[7] = top[6] + 12 BY <1>1 DEF Tops, Pages!Plain
  <2>8. top[8] = top[7] + 8 BY <1>1, SMTT(30) DEF Tops, Pages!Plain
  <2>9. top[9] = top[8] + 12 BY <1>1, SMTT(30) DEF Tops, Pages!Plain
  <2>10. top[10] = top[9] + 8 BY <1>1, SMTT(30) DEF Tops, Pages!Plain
  <2>11. top[11] = top[10] + 8 BY <1>1, SMTT(30) DEF Tops, Pages!Plain
  <2> QED BY <2>1, <2>2, <2>3, <2>4, <2>5, <2>6, <2>7, <2>8, <2>9, <2>10, <2>11
<1>4. Pages!Buttons = Pages!Info(section, rows) BY DEF Pages!Buttons
<1> HIDE DEF rows, section
<1>5. FitsIn(Pages!Info(section, rows), Above)
  BY <1>1, <1>2, <1>3, InfoFits, Zenon
<1> QED BY <1>4, <1>5

\* The page about the host is in place.
LEMMA CodexPage == FitsIn(Pages!Codex, Above)
<1> DEFINE rows == <<Pages!Plain(0, 15), Pages!Plain(0, 15), Pages!Plain(0, 15),
                     Pages!Plain(8, 4),
                    Pages!Plain(0, 20), Pages!Plain(0, 20), Pages!Plain(0, 20),
                        Pages!Plain(0, 20)>>
           section == 5
<1>1. rows \in Seq(Row) /\ Len(rows) = 8 /\ Len(rows) > 0 /\ section \in 0..20
  BY DEF Pages!Plain, Row
<1>2. Thin(rows, 131) BY DEF Thin, Pages!Plain
<1>3. Ends(96, rows, 224)
  <2> SUFFICES ASSUME NEW top, Tops(96, rows, top)
               PROVE  top[8] + 8 <= 224
    BY <1>1 DEF Ends, Pages!Plain
  <2>1. top[1] = 96 BY DEF Tops, Pages!Plain
  <2>2. top[2] = top[1] + 8 BY <1>1 DEF Tops, Pages!Plain
  <2>3. top[3] = top[2] + 8 BY <1>1 DEF Tops, Pages!Plain
  <2>4. top[4] = top[3] + 16 BY <1>1 DEF Tops, Pages!Plain
  <2>5. top[5] = top[4] + 8 BY <1>1 DEF Tops, Pages!Plain
  <2>6. top[6] = top[5] + 8 BY <1>1 DEF Tops, Pages!Plain
  <2>7. top[7] = top[6] + 8 BY <1>1 DEF Tops, Pages!Plain
  <2>8. top[8] = top[7] + 8 BY <1>1 DEF Tops, Pages!Plain
  <2> QED BY <2>1, <2>2, <2>3, <2>4, <2>5, <2>6, <2>7, <2>8
<1>4. Pages!Codex = Pages!Info(section, rows) BY DEF Pages!Codex
<1> HIDE DEF rows, section
<1>5. FitsIn(Pages!Info(section, rows), Above)
  BY <1>1, <1>2, <1>3, InfoFits, Zenon
<1> QED BY <1>4, <1>5

\* The page of the credits is in place.
LEMMA CreditsPage == FitsIn(Pages!Credits, Above)
<1> DEFINE rows == <<Pages!Plain(0, 7), Pages!Plain(4, 7), Pages!Plain(12, 6),
                     Pages!Plain(4, 11),
                    Pages!Plain(0, 13), Pages!Plain(12, 8), Pages!Plain(4, 10),
                        Pages!Plain(0, 16)>>
           section == 7
<1>1. rows \in Seq(Row) /\ Len(rows) = 8 /\ Len(rows) > 0 /\ section \in 0..20
  BY DEF Pages!Plain, Row
<1>2. Thin(rows, 131) BY DEF Thin, Pages!Plain
<1>3. Ends(96, rows, 224)
  <2> SUFFICES ASSUME NEW top, Tops(96, rows, top)
               PROVE  top[8] + 8 <= 224
    BY <1>1 DEF Ends, Pages!Plain
  <2>1. top[1] = 96 BY DEF Tops, Pages!Plain
  <2>2. top[2] = top[1] + 12 BY <1>1 DEF Tops, Pages!Plain
  <2>3. top[3] = top[2] + 20 BY <1>1 DEF Tops, Pages!Plain
  <2>4. top[4] = top[3] + 12 BY <1>1 DEF Tops, Pages!Plain
  <2>5. top[5] = top[4] + 8 BY <1>1 DEF Tops, Pages!Plain
  <2>6. top[6] = top[5] + 20 BY <1>1 DEF Tops, Pages!Plain
  <2>7. top[7] = top[6] + 12 BY <1>1 DEF Tops, Pages!Plain
  <2>8. top[8] = top[7] + 8 BY <1>1 DEF Tops, Pages!Plain
  <2> QED BY <2>1, <2>2, <2>3, <2>4, <2>5, <2>6, <2>7, <2>8
<1>4. Pages!Credits = Pages!Info(section, rows) BY DEF Pages!Credits
<1> HIDE DEF rows, section
<1>5. FitsIn(Pages!Info(section, rows), Above)
  BY <1>1, <1>2, <1>3, InfoFits, Zenon
<1> QED BY <1>4, <1>5

\* Two lists of rows are the same when all their rows are.
LEMMA SameRows ==
  ASSUME NEW f \in Seq(Row), NEW g \in Seq(Row), Len(f) = Len(g),
         \A i \in 1..Len(f) : f[i] = g[i]
  PROVE  f = g
OBVIOUS
\* A page with large letters between its header and its lines.
LEMMA TitledFits ==
  ASSUME NEW section \in 0..20, NEW title,
      Neat(title, Pages!Box(4, 96, 131, 16)),
         NEW rows \in Seq(Row), Len(rows) > 0,
         Thin(rows, 131), Ends(116, rows, 224)
  PROVE  FitsIn({Pages!Sheet(Pages!InfoBody,
                     (Pages!InfoHeader(section) \o title)
                         \o Pages!Stacked(4, 116, rows))},
              Above)
<1> DEFINE x == 4  y == 116  w == 131  h == 108
           head == Pages!Box(4, 72, 131, 20)
           large == Pages!Box(4, 96, 131, 16)
           above == Pages!Box(4, 72, 131, 40)
           below == Pages!Box(x, y, w, h)
           area == Pages!Box(4, 72, 131, 152)
           list == Pages!Stacked(x, y, rows)
<1>1. x \in Int /\ y \in Int /\ w \in Nat /\ h \in Int /\ y + h = 224 OBVIOUS
<1>2. /\ head \in Boxes /\ below \in Boxes /\ area \in Boxes
      /\ large \in Boxes /\ above \in Boxes
      /\ Pages!Inside(head, above) /\ Pages!Inside(large, above)
      /\ Pages!Apart(head, large)
      /\ Pages!Inside(above, area) /\ Pages!Inside(below, area)
      /\ Pages!Apart(above, below)
  BY DEF Pages!Box, Boxes, Pages!Inside, Pages!Apart
<1>3. Neat(Pages!InfoHeader(section), head) BY InfoHeaderNeat
<1>4. Neat(title, large) OBVIOUS
<1>5. Thin(rows, w) /\ Ends(y, rows, y + h) BY <1>1
<1> HIDE DEF x, y, w, h
<1>6. Neat(list, below) BY <1>1, <1>5, ListNeat, Zenon
<1> HIDE DEF head, below, large, above, list, area
<1>7. Neat(Pages!InfoHeader(section) \o title, above)
  BY <1>2, <1>3, <1>4, NeatJoin, Zenon
<1>8. Neat((Pages!InfoHeader(section) \o title) \o list, area)
  BY <1>2, <1>6, <1>7, NeatJoin, Zenon
<1>9. FitsIn({Pages!Sheet(Pages!InfoBody, (Pages!InfoHeader(section) \o title)
                          \o list)}, Above)
  BY <1>8, InfoBodyIs, SheetFits DEF area
<1> QED BY <1>9 DEF list, x, y

\* The page about the device's state is in place, whoever owns it.
LEMMA DevicePage ==
  ASSUME NEW owner \in Nat, NEW height \in {8, 12}
  PROVE  FitsIn(Pages!Device(owner, height), Above)
<1> DEFINE first == <<Pages!Plain(0, 16), Pages!Plain(0, 18),
                      Pages!Plain(0, 16), Pages!Plain(8, 6)>>
           named == IF owner = 0 THEN << >>
                    ELSE <<(IF height = 8
                            THEN Pages!Plain(0, Pages!AtMost(20, 11 + owner))
                            ELSE Pages!Wide(0, 20))>>
           last == <<Pages!Plain(0, 20), Pages!Plain(0, 18), Pages!Plain(0, 14),
                     Pages!Plain(0, 19),
                     Pages!Plain(0, 14)>>
           all == (first \o named) \o last
           title == <<Pages!Large(4, 96, 4), Pages!Text(60, 100, 8)>>
           area == Pages!Box(4, 96, 131, 16)
           section == 6
<1>1. Pages!Device(owner, height) =
        {Pages!Sheet(Pages!InfoBody,
               (Pages!InfoHeader(section) \o title)
                   \o Pages!Stacked(4, 116, all))}
  BY DEF Pages!Device
<1>2. title \in Seq(Boxes)
  BY DEF Pages!Text, Pages!Written, Pages!Large, Pages!Box, Boxes
<1>3. \A i \in 1..Len(title) : Pages!Inside(title[i], area)
  BY DEF Pages!Text, Pages!Written, Pages!Large, Pages!Box, Pages!Inside
<1>4. \A i, j \in 1..Len(title) : i < j => Pages!Apart(title[i], title[j])
  BY DEF Pages!Text, Pages!Written, Pages!Large, Pages!Box, Pages!Apart
<1>5. Neat(title, area)
  <2> HIDE DEF title, area
  <2> QED BY <1>2, <1>3, <1>4, NeatBy, Zenon
<1>6. section \in 0..20 /\ Neat(title, Pages!Box(4, 96, 131, 16)) BY <1>5
<1>7. ASSUME all \in Seq(Row), Len(all) > 0, Thin(all, 131),
             Ends(116, all, 224)
      PROVE  FitsIn(Pages!Device(owner, height), Above)
  <2> HIDE DEF all, title, section
  <2>1. FitsIn({Pages!Sheet(Pages!InfoBody,
                     (Pages!InfoHeader(section) \o title)
                         \o Pages!Stacked(4, 116, all))},
              Above)
    BY <1>6, <1>7, TitledFits, ZenonT(30)
  <2> QED BY <1>1, <2>1
<1>8. CASE owner = 0
  <2> DEFINE list == (first \o << >>) \o last
  <2> DEFINE rows == <<Pages!Plain(0, 16), Pages!Plain(0, 18),
                       Pages!Plain(0, 16), Pages!Plain(8, 6),
                     Pages!Plain(0, 20), Pages!Plain(0, 18), Pages!Plain(0, 14),
                         Pages!Plain(0, 19),
                     Pages!Plain(0, 14)>>
  <2>1. rows \in Seq(Row) /\ Len(rows) = 9 /\ Len(rows) > 0
    BY DEF Pages!Plain, Row
  <2>2. Thin(rows, 131) BY <2>1 DEF Thin, Pages!Plain
  <2>3. Ends(116, rows, 224)
    <3> SUFFICES ASSUME NEW top, Tops(116, rows, top)
                 PROVE  top[9] + 8 <= 224
      BY <2>1 DEF Ends, Pages!Plain
    <3>1. top[1] = 116 BY DEF Tops, Pages!Plain
    <3>2. top[2] = top[1] + 8 BY <2>1 DEF Tops, Pages!Plain
    <3>3. top[3] = top[2] + 8 BY <2>1 DEF Tops, Pages!Plain
    <3>4. top[4] = top[3] + 16 BY <2>1 DEF Tops, Pages!Plain
    <3>5. top[5] = top[4] + 8 BY <2>1 DEF Tops, Pages!Plain
    <3>6. top[6] = top[5] + 8 BY <2>1 DEF Tops, Pages!Plain
    <3>7. top[7] = top[6] + 8 BY <2>1 DEF Tops, Pages!Plain
    <3>8. top[8] = top[7] + 8 BY <2>1 DEF Tops, Pages!Plain
    <3>9. top[9] = top[8] + 8 BY <2>1 DEF Tops, Pages!Plain
    <3> QED BY <3>1, <3>2, <3>3, <3>4, <3>5, <3>6, <3>7, <3>8, <3>9
  <2>4. list \in Seq(Row) /\ Len(list) = 9
    BY DEF Pages!Plain, Row
  <2>5. /\ list[1] = rows[1] /\ list[2] = rows[2] /\ list[3] = rows[3]
        /\ list[4] = rows[4] /\ list[5] = rows[5] /\ list[6] = rows[6]
        /\ list[7] = rows[7] /\ list[8] = rows[8] /\ list[9] = rows[9]
    OBVIOUS
  <2>6. \A i \in 1..9 : list[i] = rows[i] BY <2>5
  <2>7. list = rows
    <3> HIDE DEF list, rows
    <3> QED BY <2>1, <2>4, <2>6, SameRows
  <2>8. all = list BY <1>8
  <2> HIDE DEF all, list, rows
  <2> QED BY <1>7, <2>1, <2>2, <2>3, <2>7, <2>8
<1>9. CASE owner # 0 /\ height = 8
  <2> DEFINE cells == Pages!AtMost(20, 11 + owner)
             list == (first \o <<Pages!Plain(0, cells)>>) \o last
  <2>20. cells \in 0..20 BY DEF Pages!AtMost
  <2> HIDE DEF cells
  <2> DEFINE rows == <<Pages!Plain(0, 16), Pages!Plain(0, 18),
                       Pages!Plain(0, 16), Pages!Plain(8, 6),
                     Pages!Plain(0, cells),
                     Pages!Plain(0, 20), Pages!Plain(0, 18), Pages!Plain(0, 14),
                         Pages!Plain(0, 19),
                     Pages!Plain(0, 14)>>
  <2>1. rows \in Seq(Row) /\ Len(rows) = 10 /\ Len(rows) > 0
    BY <2>20 DEF Pages!Plain, Row
  <2>2. Thin(rows, 131) BY <2>20, <2>1 DEF Thin, Pages!Plain
  <2>3. Ends(116, rows, 224)
    <3> SUFFICES ASSUME NEW top, Tops(116, rows, top)
                 PROVE  top[10] + 8 <= 224
      BY <2>20, <2>1 DEF Ends, Pages!Plain
    <3>1. top[1] = 116 BY DEF Tops, Pages!Plain
    <3>2. top[2] = top[1] + 8 BY <2>20, <2>1 DEF Tops, Pages!Plain
    <3>3. top[3] = top[2] + 8 BY <2>20, <2>1 DEF Tops, Pages!Plain
    <3>4. top[4] = top[3] + 16 BY <2>20, <2>1 DEF Tops, Pages!Plain
    <3>5. top[5] = top[4] + 8 BY <2>20, <2>1 DEF Tops, Pages!Plain
    <3>6. top[6] = top[5] + 8 BY <2>20, <2>1 DEF Tops, Pages!Plain
    <3>7. top[7] = top[6] + 8 BY <2>20, <2>1 DEF Tops, Pages!Plain
    <3>8. top[8] = top[7] + 8 BY <2>20, <2>1 DEF Tops, Pages!Plain
    <3>9. top[9] = top[8] + 8 BY <2>20, <2>1 DEF Tops, Pages!Plain
    <3>10. top[10] = top[9] + 8 BY <2>20, <2>1 DEF Tops, Pages!Plain
    <3> QED BY <3>1, <3>2, <3>3, <3>4, <3>5, <3>6, <3>7, <3>8, <3>9, <3>10
  <2>4. list \in Seq(Row) /\ Len(list) = 10
    BY <2>20 DEF Pages!Plain, Row
  <2>5. /\ list[1] = rows[1] /\ list[2] = rows[2] /\ list[3] = rows[3]
        /\ list[4] = rows[4] /\ list[5] = rows[5] /\ list[6] = rows[6]
        /\ list[7] = rows[7] /\ list[8] = rows[8] /\ list[9] = rows[9]
        /\ list[10] = rows[10]
    OBVIOUS
  <2>6. \A i \in 1..10 : list[i] = rows[i] BY <2>5
  <2>7. list = rows
    <3> HIDE DEF list, rows
    <3> QED BY <2>1, <2>4, <2>6, SameRows
  <2>8. all = list BY <1>9 DEF cells
  <2> HIDE DEF all, list, rows
  <2> QED BY <1>7, <2>1, <2>2, <2>3, <2>7, <2>8
<1>10. CASE owner # 0 /\ height = 12
  <2> DEFINE list == (first \o <<Pages!Wide(0, 20)>>) \o last
  <2> DEFINE rows == <<Pages!Plain(0, 16), Pages!Plain(0, 18),
                       Pages!Plain(0, 16), Pages!Plain(8, 6),
                     Pages!Wide(0, 20),
                     Pages!Plain(0, 20), Pages!Plain(0, 18), Pages!Plain(0, 14),
                         Pages!Plain(0, 19),
                     Pages!Plain(0, 14)>>
  <2>1. rows \in Seq(Row) /\ Len(rows) = 10 /\ Len(rows) > 0
    BY DEF Pages!Plain, Pages!Wide, Row
  <2>2. Thin(rows, 131) BY <2>1 DEF Thin, Pages!Plain, Pages!Wide
  <2>3. Ends(116, rows, 224)
    <3> SUFFICES ASSUME NEW top, Tops(116, rows, top)
                 PROVE  top[10] + 8 <= 224
      BY <2>1 DEF Ends, Pages!Plain, Pages!Wide
    <3>1. top[1] = 116 BY DEF Tops, Pages!Plain, Pages!Wide
    <3>2. top[2] = top[1] + 8 BY <2>1 DEF Tops, Pages!Plain, Pages!Wide
    <3>3. top[3] = top[2] + 8 BY <2>1 DEF Tops, Pages!Plain, Pages!Wide
    <3>4. top[4] = top[3] + 16 BY <2>1 DEF Tops, Pages!Plain, Pages!Wide
    <3>5. top[5] = top[4] + 8 BY <2>1 DEF Tops, Pages!Plain, Pages!Wide
    <3>6. top[6] = top[5] + 13 BY <2>1 DEF Tops, Pages!Plain, Pages!Wide
    <3>7. top[7] = top[6] + 8 BY <2>1 DEF Tops, Pages!Plain, Pages!Wide
    <3>8. top[8] = top[7] + 8 BY <2>1 DEF Tops, Pages!Plain, Pages!Wide
    <3>9. top[9] = top[8] + 8 BY <2>1 DEF Tops, Pages!Plain, Pages!Wide
    <3>10. top[10] = top[9] + 8 BY <2>1 DEF Tops, Pages!Plain, Pages!Wide
    <3> QED BY <3>1, <3>2, <3>3, <3>4, <3>5, <3>6, <3>7, <3>8, <3>9, <3>10
  <2>4. list \in Seq(Row) /\ Len(list) = 10
    BY DEF Pages!Plain, Pages!Wide, Row
  <2>5. /\ list[1] = rows[1] /\ list[2] = rows[2] /\ list[3] = rows[3]
        /\ list[4] = rows[4] /\ list[5] = rows[5] /\ list[6] = rows[6]
        /\ list[7] = rows[7] /\ list[8] = rows[8] /\ list[9] = rows[9]
        /\ list[10] = rows[10]
    OBVIOUS
  <2>6. \A i \in 1..10 : list[i] = rows[i] BY <2>5
  <2>7. list = rows
    <3> HIDE DEF list, rows
    <3> QED BY <2>1, <2>4, <2>6, SameRows
  <2>8. all = list BY <1>10
  <2> HIDE DEF all, list, rows
  <2> QED BY <1>7, <2>1, <2>2, <2>3, <2>7, <2>8
<1> QED BY <1>8, <1>9, <1>10

\* The page about Bluetooth is in place.
LEMMA BluetoothPage ==
  ASSUME NEW linked \in BOOLEAN
  PROVE  FitsIn(Pages!Bluetooth(linked), Above)
<1> DEFINE all == <<Pages!Plain(0, 20), Pages!Plain(0, 19)>>
                  \o (IF linked THEN <<Pages!Plain(8, 20)>>
                      ELSE <<Pages!Plain(8, 7), Pages!Plain(0, 11),
                             Pages!Plain(4, 14),
                             Pages!Plain(0, 10)>>)
           cells == IF linked THEN 6 ELSE 8
           title == <<Pages!Large(4, 96, cells)>>
           area == Pages!Box(4, 96, 131, 16)
           section == 9
<1>1. Pages!Bluetooth(linked) =
        {Pages!Sheet(Pages!InfoBody,
               (Pages!InfoHeader(section) \o title)
                   \o Pages!Stacked(4, 116, all))}
  BY DEF Pages!Bluetooth
<1>11. cells \in {6, 8} OBVIOUS
<1> HIDE DEF cells
<1>2. title \in Seq(Boxes)
  BY <1>11 DEF Pages!Text, Pages!Written, Pages!Large, Pages!Box, Boxes
<1>3. \A i \in 1..Len(title) : Pages!Inside(title[i], area)
  BY <1>11 DEF Pages!Text, Pages!Written, Pages!Large, Pages!Box, Pages!Inside
<1>4. \A i, j \in 1..Len(title) : i < j => Pages!Apart(title[i], title[j])
  BY <1>11 DEF Pages!Text, Pages!Written, Pages!Large, Pages!Box, Pages!Apart
<1>5. Neat(title, area)
  <2> HIDE DEF title, area
  <2> QED BY <1>2, <1>3, <1>4, NeatBy, Zenon
<1>6. section \in 0..20 /\ Neat(title, Pages!Box(4, 96, 131, 16)) BY <1>5
<1>7. ASSUME all \in Seq(Row), Len(all) > 0, Thin(all, 131),
             Ends(116, all, 224)
      PROVE  FitsIn(Pages!Bluetooth(linked), Above)
  <2> HIDE DEF all, title, section
  <2>1. FitsIn({Pages!Sheet(Pages!InfoBody,
                     (Pages!InfoHeader(section) \o title)
                         \o Pages!Stacked(4, 116, all))},
              Above)
    BY <1>6, <1>7, TitledFits, ZenonT(30)
  <2> QED BY <1>1, <2>1
<1>8. CASE linked
  <2> DEFINE list == <<Pages!Plain(0, 20), Pages!Plain(0, 19)>>
        \o <<Pages!Plain(8, 20)>>
  <2> DEFINE rows == <<Pages!Plain(0, 20), Pages!Plain(0, 19),
                       Pages!Plain(8, 20)>>
  <2>1. rows \in Seq(Row) /\ Len(rows) = 3 /\ Len(rows) > 0
    BY DEF Pages!Plain, Row
  <2>2. Thin(rows, 131) BY <2>1 DEF Thin, Pages!Plain
  <2>3. Ends(116, rows, 224)
    <3> SUFFICES ASSUME NEW top, Tops(116, rows, top)
                 PROVE  top[3] + 8 <= 224
      BY <2>1 DEF Ends, Pages!Plain
    <3>1. top[1] = 116 BY DEF Tops, Pages!Plain
    <3>2. top[2] = top[1] + 8 BY <2>1 DEF Tops, Pages!Plain
    <3>3. top[3] = top[2] + 16 BY <2>1 DEF Tops, Pages!Plain
    <3> QED BY <3>1, <3>2, <3>3
  <2>4. list \in Seq(Row) /\ Len(list) = 3
    BY DEF Pages!Plain, Row
  <2>5. /\ list[1] = rows[1] /\ list[2] = rows[2] /\ list[3] = rows[3]
    OBVIOUS
  <2>6. \A i \in 1..3 : list[i] = rows[i] BY <2>5
  <2>7. list = rows
    <3> HIDE DEF list, rows
    <3> QED BY <2>1, <2>4, <2>6, SameRows
  <2>8. all = list BY <1>8
  <2> HIDE DEF all, list, rows
  <2> QED BY <1>7, <2>1, <2>2, <2>3, <2>7, <2>8
<1>9. CASE ~linked
  <2> DEFINE list == <<Pages!Plain(0, 20), Pages!Plain(0, 19)>>
                     \o <<Pages!Plain(8, 7), Pages!Plain(0, 11),
                          Pages!Plain(4, 14),
                          Pages!Plain(0, 10)>>
  <2> DEFINE rows == <<Pages!Plain(0, 20), Pages!Plain(0, 19),
                       Pages!Plain(8, 7), Pages!Plain(0, 11),
                     Pages!Plain(4, 14), Pages!Plain(0, 10)>>
  <2>1. rows \in Seq(Row) /\ Len(rows) = 6 /\ Len(rows) > 0
    BY DEF Pages!Plain, Row
  <2>2. Thin(rows, 131) BY <2>1 DEF Thin, Pages!Plain
  <2>3. Ends(116, rows, 224)
    <3> SUFFICES ASSUME NEW top, Tops(116, rows, top)
                 PROVE  top[6] + 8 <= 224
      BY <2>1 DEF Ends, Pages!Plain
    <3>1. top[1] = 116 BY DEF Tops, Pages!Plain
    <3>2. top[2] = top[1] + 8 BY <2>1 DEF Tops, Pages!Plain
    <3>3. top[3] = top[2] + 16 BY <2>1 DEF Tops, Pages!Plain
    <3>4. top[4] = top[3] + 8 BY <2>1 DEF Tops, Pages!Plain
    <3>5. top[5] = top[4] + 12 BY <2>1 DEF Tops, Pages!Plain
    <3>6. top[6] = top[5] + 8 BY <2>1 DEF Tops, Pages!Plain
    <3> QED BY <3>1, <3>2, <3>3, <3>4, <3>5, <3>6
  <2>4. list \in Seq(Row) /\ Len(list) = 6
    BY DEF Pages!Plain, Row
  <2>5. /\ list[1] = rows[1] /\ list[2] = rows[2] /\ list[3] = rows[3]
        /\ list[4] = rows[4] /\ list[5] = rows[5] /\ list[6] = rows[6]
    OBVIOUS
  <2>6. \A i \in 1..6 : list[i] = rows[i] BY <2>5
  <2>7. list = rows
    <3> HIDE DEF list, rows
    <3> QED BY <2>1, <2>4, <2>6, SameRows
  <2>8. all = list BY <1>9
  <2> HIDE DEF all, list, rows
  <2> QED BY <1>7, <2>1, <2>2, <2>3, <2>7, <2>8
<1> QED BY <1>8, <1>9

\* ---- The pages of the pet and the greeting

\* Lists may be joined in any order.
LEMMA Regroup ==
  ASSUME NEW f \in Seq(Boxes), NEW g \in Seq(Boxes), NEW k \in Seq(Boxes)
  PROVE  (f \o g) \o k = f \o (g \o k)
BY SMTT(60)

\* Short names are neat in the header of the pet's pages.
LEMMA PetHeaderNeat ==
  ASSUME NEW owner \in Nat, NEW pet \in Nat,
         (IF owner = 0 THEN pet ELSE owner + 3 + pet) <= 17
  PROVE  Neat(Pages!PetHeader(owner, pet), Pages!Box(4, 72, 131, 8))
<1> DEFINE cells == IF owner = 0 THEN pet ELSE owner + 3 + pet
           lines == <<Pages!Text(4, 72, cells), Pages!Text(135 - 28, 72, 3)>>
           area == Pages!Box(4, 72, 131, 8)
<1>1. cells \in 0..17 OBVIOUS
<1>6. Pages!PetHeader(owner, pet) = lines BY DEF Pages!PetHeader
<1> HIDE DEF cells
<1>2. lines \in Seq(Boxes)
  BY <1>1 DEF Pages!Text, Pages!Written, Pages!Large, Pages!Box, Boxes
<1>3. \A i \in 1..Len(lines) : Pages!Inside(lines[i], area)
  BY <1>1 DEF Pages!Text, Pages!Written, Pages!Large, Pages!Box, Pages!Inside
<1>4. \A i, j \in 1..Len(lines) : i < j => Pages!Apart(lines[i], lines[j])
  BY <1>1 DEF Pages!Text, Pages!Written, Pages!Large, Pages!Box, Pages!Apart
<1>5. Neat(lines, area)
  <2> HIDE DEF lines, area
  <2> QED BY <1>2, <1>3, <1>4, NeatBy, Zenon
<1> QED BY <1>5, <1>6

\* Longer ones are not: they lie on the number of the page.
LEMMA PetHeaderOver ==
  ASSUME NEW owner \in Nat, NEW pet \in Nat,
         (IF owner = 0 THEN pet ELSE owner + 3 + pet) > 17
  PROVE  Rough(Pages!PetHeader(owner, pet), Pages!InfoBody)
<1> DEFINE cells == IF owner = 0 THEN pet ELSE owner + 3 + pet
           lines == <<Pages!Text(4, 72, cells), Pages!Text(135 - 28, 72, 3)>>
<1>1. cells \in Nat /\ cells > 17 OBVIOUS
<1>2. Pages!PetHeader(owner, pet) = lines BY DEF Pages!PetHeader
<1> HIDE DEF cells
<1>3. lines \in Seq(Boxes) /\ 1 \in DOMAIN lines /\ 2 \in DOMAIN lines /\ 1 < 2
  BY <1>1 DEF Pages!Text, Pages!Written, Pages!Box, Boxes
<1>4. ~Pages!Apart(lines[1], lines[2])
  BY <1>1 DEF Pages!Text, Pages!Written, Pages!Box, Pages!Apart
<1> HIDE DEF lines
<1> QED BY <1>2, <1>3, <1>4 DEF Rough, Pages!Tidy, Pages!Sheet

\* The hearts, the dots and the bars of the pet are neat.
LEMMA PetGauges ==
  /\ Neat(Pages!Hearts, Pages!Box(50, 86, 57, 8))
  /\ Neat(Pages!FedDots, Pages!Box(36, 105, 86, 5))
  /\ Neat(Pages!EnergyBars, Pages!Box(54, 124, 61, 6))
<1>1. Neat(Pages!Hearts, Pages!Box(50, 86, 57, 8))
  <2> DEFINE area == Pages!Box(50, 86, 57, 8)
  <2>1. Pages!Hearts \in Seq(Boxes) /\ Len(Pages!Hearts) = 4
    BY DEF Pages!Hearts, Pages!Box, Boxes
  <2>2. \A i \in 1..4 : Pages!Inside(Pages!Hearts[i], area)
    BY DEF Pages!Hearts, Pages!Box, Pages!Inside
  <2>3. \A i, j \in 1..4 : i < j
        => Pages!Apart(Pages!Hearts[i], Pages!Hearts[j])
    BY DEF Pages!Hearts, Pages!Box, Pages!Apart
  <2> HIDE DEF area
  <2>4. Neat(Pages!Hearts, area) BY <2>1, <2>2, <2>3, NeatBy
  <2> QED BY <2>4 DEF area
<1>2. Neat(Pages!FedDots, Pages!Box(36, 105, 86, 5))
  <2> DEFINE area == Pages!Box(36, 105, 86, 5)
  <2>1. Pages!FedDots \in Seq(Boxes) /\ Len(Pages!FedDots) = 10
    BY DEF Pages!FedDots, Pages!Box, Boxes
  <2>2. \A i \in 1..10 : Pages!Inside(Pages!FedDots[i], area)
    BY DEF Pages!FedDots, Pages!Box, Pages!Inside
  <2>3. \A i, j \in 1..10 : i < j
        => Pages!Apart(Pages!FedDots[i], Pages!FedDots[j])
    BY DEF Pages!FedDots, Pages!Box, Pages!Apart
  <2> HIDE DEF area
  <2>4. Neat(Pages!FedDots, area) BY <2>1, <2>2, <2>3, NeatBy
  <2> QED BY <2>4 DEF area
<1>3. Neat(Pages!EnergyBars, Pages!Box(54, 124, 61, 6))
  <2> DEFINE area == Pages!Box(54, 124, 61, 6)
  <2>1. Pages!EnergyBars \in Seq(Boxes) /\ Len(Pages!EnergyBars) = 5
    BY DEF Pages!EnergyBars, Pages!Box, Boxes
  <2>2. \A i \in 1..5 : Pages!Inside(Pages!EnergyBars[i], area)
    BY DEF Pages!EnergyBars, Pages!Box, Pages!Inside
  <2>3. \A i, j \in 1..5 : i < j
        => Pages!Apart(Pages!EnergyBars[i], Pages!EnergyBars[j])
    BY DEF Pages!EnergyBars, Pages!Box, Pages!Apart
  <2> HIDE DEF area
  <2>4. Neat(Pages!EnergyBars, area) BY <2>1, <2>2, <2>3, NeatBy
  <2> QED BY <2>4 DEF area
<1> QED BY <1>1, <1>2, <1>3

\* And so are its texts.
LEMMA PetTexts ==
  /\ Neat(<<Pages!Text(6, 170, 14), Pages!Text(6, 180, 14),
            Pages!Text(6, 190, 20),
            Pages!Text(6, 200, 16), Pages!Text(6, 210, 16)>>,
                Pages!Box(6, 168, 129, 50))
  /\ Neat(<<Pages!Text(11, 151, 6)>>, Pages!LevelBox)
<1>1. Neat(<<Pages!Text(6, 170, 14), Pages!Text(6, 180, 14),
             Pages!Text(6, 190, 20),
            Pages!Text(6, 200, 16), Pages!Text(6, 210, 16)>>,
                Pages!Box(6, 168, 129, 50))
  <2> DEFINE lines == <<Pages!Text(6, 170, 14), Pages!Text(6, 180, 14),
                        Pages!Text(6, 190, 20),
                       Pages!Text(6, 200, 16), Pages!Text(6, 210, 16)>>
             area == Pages!Box(6, 168, 129, 50)
  <2>1. lines \in Seq(Boxes)
    BY DEF Pages!Text, Pages!Written, Pages!Large, Pages!Box, Boxes
  <2>2. \A i \in 1..Len(lines) : Pages!Inside(lines[i], area)
    BY DEF Pages!Text, Pages!Written, Pages!Large, Pages!Box, Pages!Inside
  <2>3. \A i, j \in 1..Len(lines) : i < j => Pages!Apart(lines[i], lines[j])
    BY DEF Pages!Text, Pages!Written, Pages!Large, Pages!Box, Pages!Apart
  <2>4. Neat(lines, area)
    <3> HIDE DEF lines, area
    <3> QED BY <2>1, <2>2, <2>3, NeatBy, Zenon
  <2> QED BY <2>4
<1>2. Neat(<<Pages!Text(11, 151, 6)>>, Pages!LevelBox)
  <2> DEFINE lines == <<Pages!Text(11, 151, 6)>>
             area == Pages!LevelBox
  <2>1. lines \in Seq(Boxes)
    BY DEF Pages!Text, Pages!Written, Pages!Large, Pages!Box, Boxes,
       Pages!LevelBox
  <2>2. \A i \in 1..Len(lines) : Pages!Inside(lines[i], area)
    BY DEF Pages!Text, Pages!Written, Pages!Large, Pages!Box, Pages!Inside,
       Pages!LevelBox
  <2>3. \A i, j \in 1..Len(lines) : i < j => Pages!Apart(lines[i], lines[j])
    BY DEF Pages!Text, Pages!Written, Pages!Large, Pages!Box, Pages!Apart,
       Pages!LevelBox
  <2>4. Neat(lines, area)
    <3> HIDE DEF lines, area
    <3> QED BY <2>1, <2>2, <2>3, NeatBy, Zenon
  <2> QED BY <2>4
<1> QED BY <1>1, <1>2

\* The page of the pet's values as lists of lines.
LEMMA PetStatsIs ==
  ASSUME NEW owner, NEW pet
  PROVE  Pages!PetStats(owner, pet) =
           {Pages!Sheet(Pages!InfoBody,
              (((((((Pages!PetHeader(owner, pet) \o <<Pages!Text(6, 84, 4)>>)
                    \o Pages!Hearts)
                  \o <<Pages!Text(6, 104, 3)>>) \o Pages!FedDots)
                      \o <<Pages!Text(6, 124, 6)>>)
                \o Pages!EnergyBars) \o <<Pages!LevelBox>>)
              \o <<Pages!Text(6, 170, 14), Pages!Text(6, 180, 14),
                   Pages!Text(6, 190, 20),
                   Pages!Text(6, 200, 16), Pages!Text(6, 210, 16)>>)}
           \cup {Pages!Sheet(Pages!LevelBox, <<Pages!Text(11, 151, 6)>>)}
BY DEF Pages!PetStats

\* With short names the page of the pet's values is in place.
LEMMA PetStatsPage ==
  ASSUME NEW owner \in Nat, NEW pet \in Nat,
         (IF owner = 0 THEN pet ELSE owner + 3 + pet) <= 17
  PROVE  FitsIn(Pages!PetStats(owner, pet), Above)
<1> DEFINE head == Pages!PetHeader(owner, pet)
           mood == Pages!Text(6, 84, 4)
           fed == Pages!Text(6, 104, 3)
           energy == Pages!Text(6, 124, 6)
           texts == <<Pages!Text(6, 170, 14), Pages!Text(6, 180, 14),
                      Pages!Text(6, 190, 20),
                      Pages!Text(6, 200, 16), Pages!Text(6, 210, 16)>>
           storey == <<Pages!Text(11, 151, 6)>>
           a == Pages!Box(4, 72, 131, 8)
           b1 == Pages!Box(50, 86, 57, 8)
           b2 == Pages!Box(36, 105, 86, 5)
           b3 == Pages!Box(54, 124, 61, 6)
           r1 == Pages!Box(4, 84, 131, 10)
           r2 == Pages!Box(4, 104, 131, 8)
           r3 == Pages!Box(4, 124, 131, 8)
           a1 == Pages!Box(4, 72, 131, 22)
           a2 == Pages!Box(4, 72, 131, 40)
           a3 == Pages!Box(4, 72, 131, 60)
           a4 == Pages!Box(4, 72, 131, 90)
           t == Pages!Box(6, 168, 129, 50)
           area == Pages!Box(4, 72, 131, 152)
<1>1. /\ a \in Boxes /\ b1 \in Boxes /\ b2 \in Boxes /\ b3 \in Boxes
      /\ r1 \in Boxes /\ r2 \in Boxes /\ r3 \in Boxes
      /\ a1 \in Boxes /\ a2 \in Boxes /\ a3 \in Boxes /\ a4 \in Boxes
      /\ t \in Boxes /\ area \in Boxes /\ Pages!LevelBox \in Boxes
  BY DEF Pages!Box, Boxes, Pages!LevelBox
<1>2. mood \in Boxes /\ fed \in Boxes /\ energy \in Boxes
  BY DEF Pages!Box, Boxes, Pages!Text, Pages!Written
<1>3. /\ Pages!Inside(mood, r1) /\ Pages!Inside(b1, r1) /\ Pages!Apart(mood, b1)
      /\ Pages!Inside(a, a1) /\ Pages!Inside(r1, a1) /\ Pages!Apart(a, r1)
  BY DEF Pages!Box, Pages!Inside, Pages!Apart, Pages!Text, Pages!Written
<1>4. /\ Pages!Inside(fed, r2) /\ Pages!Inside(b2, r2) /\ Pages!Apart(fed, b2)
      /\ Pages!Inside(a1, a2) /\ Pages!Inside(r2, a2) /\ Pages!Apart(a1, r2)
  BY DEF Pages!Box, Pages!Inside, Pages!Apart, Pages!Text, Pages!Written
<1>5. /\ Pages!Inside(energy, r3) /\ Pages!Inside(b3, r3)
      /\ Pages!Apart(energy, b3)
      /\ Pages!Inside(a2, a3) /\ Pages!Inside(r3, a3) /\ Pages!Apart(a2, r3)
  BY DEF Pages!Box, Pages!Inside, Pages!Apart, Pages!Text, Pages!Written
<1>6. /\ Pages!Inside(a3, a4) /\ Pages!Inside(Pages!LevelBox, a4)
      /\ Pages!Apart(a3, Pages!LevelBox)
      /\ Pages!Inside(a4, area) /\ Pages!Inside(t, area) /\ Pages!Apart(a4, t)
      /\ Pages!Inside(Pages!LevelBox, Pages!LevelBox)
      /\ Pages!Inside(Pages!LevelBox, Above)
  BY DEF Pages!Box, Pages!Inside, Pages!Apart, Pages!LevelBox, Above
<1>7. /\ Neat(head, a) /\ Neat(Pages!Hearts, b1) /\ Neat(Pages!FedDots, b2)
      /\ Neat(Pages!EnergyBars, b3) /\ Neat(texts, t)
      /\ Neat(storey, Pages!LevelBox)
  BY PetHeaderNeat, PetGauges, PetTexts
<1> DEFINE one == (head \o <<mood>>) \o Pages!Hearts
           two == (one \o <<fed>>) \o Pages!FedDots
           three == (two \o <<energy>>) \o Pages!EnergyBars
           all == (three \o <<Pages!LevelBox>>) \o texts
<1>8. Pages!PetStats(owner, pet) =
        {Pages!Sheet(Pages!InfoBody, all)}
            \cup {Pages!Sheet(Pages!LevelBox, storey)}
  BY PetStatsIs
<1>9. Pages!Inside(area, Pages!InfoBody) /\ Pages!Inside(area, Above)
      /\ Pages!InfoBody \in Boxes
      /\ Above \in Boxes
  BY InfoBodyIs
<1> HIDE DEF head, mood, fed, energy, texts, storey, a, b1, b2, b3, r1, r2, r3,
             a1, a2, a3, a4, t, area
<1>10. /\ Neat(<<mood>>, mood) /\ Neat(<<fed>>, fed) /\ Neat(<<energy>>, energy)
       /\ Neat(<<Pages!LevelBox>>, Pages!LevelBox)
  BY <1>1, <1>2, NeatOne
<1> DEFINE m == <<mood>>  f == <<fed>>  e == <<energy>>
<1>19. /\ head \in Seq(Boxes) /\ m \in Seq(Boxes) /\ f \in Seq(Boxes)
       /\ e \in Seq(Boxes) /\ Pages!Hearts \in Seq(Boxes)
       /\ Pages!FedDots \in Seq(Boxes)
       /\ Pages!EnergyBars \in Seq(Boxes)
  BY <1>7, <1>10 DEF Neat
<1>20. Neat(m, mood) /\ Neat(f, fed) /\ Neat(e, energy) BY <1>10
<1> HIDE DEF m, f, e
<1>11. Neat(one, a1)
  <2>1. Neat(m \o Pages!Hearts, r1)
    BY <1>1, <1>2, <1>3, <1>7, <1>20, NeatJoin, Zenon
  <2>6. /\ a \in Boxes /\ r1 \in Boxes /\ a1 \in Boxes /\ Neat(head, a)
        /\ Pages!Inside(a, a1) /\ Pages!Inside(r1, a1) /\ Pages!Apart(a, r1)
    BY <1>1, <1>3, <1>7
  <2>2. Neat(head \o (m \o Pages!Hearts), a1) BY <2>1, <2>6, NeatJoin, Zenon
  <2>3. head \in Seq(Boxes) BY <1>7 DEF Neat
  <2>7. m \in Seq(Boxes) /\ Pages!Hearts \in Seq(Boxes) BY <1>19
  <2>4. (head \o m) \o Pages!Hearts = head \o (m \o Pages!Hearts)
    BY <2>3, <2>7, Regroup, Zenon
  <2>5. one = (head \o m) \o Pages!Hearts BY DEF m, f, e
  <2> HIDE DEF one
  <2> QED BY <2>2, <2>4, <2>5
<1> HIDE DEF one
<1>12. Neat(two, a2)
  <2>1. Neat(f \o Pages!FedDots, r2)
    BY <1>1, <1>2, <1>4, <1>7, <1>20, NeatJoin, Zenon
  <2>6. /\ a1 \in Boxes /\ r2 \in Boxes /\ a2 \in Boxes /\ Neat(one, a1)
        /\ Pages!Inside(a1, a2) /\ Pages!Inside(r2, a2) /\ Pages!Apart(a1, r2)
    BY <1>1, <1>4, <1>11
  <2>2. Neat(one \o (f \o Pages!FedDots), a2) BY <2>1, <2>6, NeatJoin, Zenon
  <2>3. one \in Seq(Boxes) BY <1>11 DEF Neat
  <2>7. f \in Seq(Boxes) /\ Pages!FedDots \in Seq(Boxes) BY <1>19
  <2>4. (one \o f) \o Pages!FedDots = one \o (f \o Pages!FedDots)
    BY <2>3, <2>7, Regroup, Zenon
  <2>5. two = (one \o f) \o Pages!FedDots BY DEF m, f, e
  <2> HIDE DEF two
  <2> QED BY <2>2, <2>4, <2>5
<1> HIDE DEF two
<1>13. Neat(three, a3)
  <2>1. Neat(e \o Pages!EnergyBars, r3)
    BY <1>1, <1>2, <1>5, <1>7, <1>20, NeatJoin, Zenon
  <2>6. /\ a2 \in Boxes /\ r3 \in Boxes /\ a3 \in Boxes /\ Neat(two, a2)
        /\ Pages!Inside(a2, a3) /\ Pages!Inside(r3, a3) /\ Pages!Apart(a2, r3)
    BY <1>1, <1>5, <1>12
  <2>2. Neat(two \o (e \o Pages!EnergyBars), a3) BY <2>1, <2>6, NeatJoin, Zenon
  <2>3. two \in Seq(Boxes) BY <1>12 DEF Neat
  <2>7. e \in Seq(Boxes) /\ Pages!EnergyBars \in Seq(Boxes) BY <1>19
  <2>4. (two \o e) \o Pages!EnergyBars = two \o (e \o Pages!EnergyBars)
    BY <2>3, <2>7, Regroup, Zenon
  <2>5. three = (two \o e) \o Pages!EnergyBars BY DEF m, f, e
  <2> HIDE DEF three
  <2> QED BY <2>2, <2>4, <2>5
<1> HIDE DEF three
<1>14. Neat(three \o <<Pages!LevelBox>>, a4)
  BY <1>1, <1>6, <1>10, <1>13, NeatJoin, Zenon
<1>15. Neat(all, area) BY <1>1, <1>6, <1>7, <1>14, NeatJoin, Zenon
<1> HIDE DEF all
<1>16. FitsIn({Pages!Sheet(Pages!InfoBody, all)}, Above)
  BY <1>1, <1>9, <1>15, SheetFits, Zenon
<1>17. FitsIn({Pages!Sheet(Pages!LevelBox, storey)}, Above)
  BY <1>1, <1>6, <1>7, <1>9, SheetFits, Zenon
<1>18. FitsIn({Pages!Sheet(Pages!InfoBody, all)}
              \cup {Pages!Sheet(Pages!LevelBox, storey)}, Above)
  BY <1>16, <1>17, FitsBoth, Zenon
<1> QED BY <1>8, <1>18

\* And with longer ones it is not.
LEMMA PetStatsOver ==
  ASSUME NEW owner \in Nat, NEW pet \in Nat,
         (IF owner = 0 THEN pet ELSE owner + 3 + pet) > 17
  PROVE  \E s \in Pages!PetStats(owner, pet) : ~Pages!Tidy(s)
<1> DEFINE head == Pages!PetHeader(owner, pet)
           m == <<Pages!Text(6, 84, 4)>>
           f == <<Pages!Text(6, 104, 3)>>
           e == <<Pages!Text(6, 124, 6)>>
           l == <<Pages!LevelBox>>
           texts == <<Pages!Text(6, 170, 14), Pages!Text(6, 180, 14),
                      Pages!Text(6, 190, 20),
                      Pages!Text(6, 200, 16), Pages!Text(6, 210, 16)>>
           all == (((((((head \o m) \o Pages!Hearts) \o f) \o Pages!FedDots)
                     \o e)
                    \o Pages!EnergyBars) \o l) \o texts
<1>1. /\ m \in Seq(Boxes) /\ f \in Seq(Boxes) /\ e \in Seq(Boxes)
      /\ l \in Seq(Boxes)
  BY DEF Pages!Text, Pages!Written, Pages!Box, Boxes, Pages!LevelBox
<1>2. /\ Pages!Hearts \in Seq(Boxes) /\ Pages!FedDots \in Seq(Boxes)
      /\ Pages!EnergyBars \in Seq(Boxes) /\ texts \in Seq(Boxes)
  BY PetGauges, PetTexts, Zenon DEF Neat
<1>3. Rough(head, Pages!InfoBody) BY PetHeaderOver
<1>4. Pages!PetStats(owner, pet) =
        {Pages!Sheet(Pages!InfoBody, all)}
            \cup {Pages!Sheet(Pages!LevelBox, <<Pages!Text(11, 151, 6)>>)}
  BY PetStatsIs
<1> HIDE DEF head, m, f, e, l, texts
<1>5. Rough((head \o m) \o Pages!Hearts, Pages!InfoBody)
  BY <1>1, <1>2, <1>3, RoughLeft, Zenon
<1>6. Rough((((head \o m) \o Pages!Hearts) \o f) \o Pages!FedDots,
            Pages!InfoBody)
  BY <1>1, <1>2, <1>5, RoughLeft, Zenon
<1>7. Rough((((((head \o m) \o Pages!Hearts) \o f) \o Pages!FedDots) \o e)
            \o Pages!EnergyBars,
            Pages!InfoBody)
  BY <1>1, <1>2, <1>6, RoughLeft, Zenon
<1>8. Rough(all, Pages!InfoBody) BY <1>1, <1>2, <1>7, RoughLeft, Zenon
<1> HIDE DEF all
<1> QED BY <1>4, <1>8 DEF Rough

\* The page of what the pet likes as a list of rows.
LEMMA PetHowToIs ==
  ASSUME NEW owner, NEW pet
  PROVE  \E rows \in Seq(Row) :
           /\ Len(rows) > 0 /\ Thin(rows, 129) /\ Ends(84, rows, 224)
           /\ Pages!PetHowTo(owner, pet) =
                {Pages!Sheet(Pages!InfoBody, Pages!PetHeader(owner, pet)
                             \o Pages!Stacked(6, 84, rows))}
<1> DEFINE rows ==
             <<Pages!HowToRow(0, 4), Pages!HowToRow(0, 18),
               Pages!HowToRow(0, 17), Pages!HowToRow(4, 3),
               Pages!HowToRow(0, 13), Pages!HowToRow(0, 20),
                   Pages!HowToRow(4, 6),
               Pages!HowToRow(0, 17), Pages!HowToRow(0, 16),
                   Pages!HowToRow(4, 14),
               Pages!HowToRow(0, 17), Pages!HowToRow(4, 19),
                   Pages!HowToRow(0, 12)>>
<1>1. rows \in Seq(Row) /\ Len(rows) = 13 /\ Len(rows) > 0
  BY DEF Pages!HowToRow, Row
<1>2. Thin(rows, 129) BY DEF Thin, Pages!HowToRow
<1>3. Ends(84, rows, 224)
  <2> SUFFICES ASSUME NEW top, Tops(84, rows, top)
               PROVE  top[13] + 9 <= 224
    BY <1>1 DEF Ends, Pages!HowToRow
  <2>1. top[1] = 84 BY DEF Tops, Pages!HowToRow
  <2>2. top[2] = top[1] + 9 BY <1>1 DEF Tops, Pages!HowToRow
  <2>3. top[3] = top[2] + 9 BY <1>1 DEF Tops, Pages!HowToRow
  <2>4. top[4] = top[3] + 13 BY <1>1 DEF Tops, Pages!HowToRow
  <2>5. top[5] = top[4] + 9 BY <1>1 DEF Tops, Pages!HowToRow
  <2>6. top[6] = top[5] + 9 BY <1>1 DEF Tops, Pages!HowToRow
  <2>7. top[7] = top[6] + 13 BY <1>1 DEF Tops, Pages!HowToRow
  <2>8. top[8] = top[7] + 9 BY <1>1, SMTT(30) DEF Tops, Pages!HowToRow
  <2>9. top[9] = top[8] + 9 BY <1>1, SMTT(30) DEF Tops, Pages!HowToRow
  <2>10. top[10] = top[9] + 13 BY <1>1, SMTT(30) DEF Tops, Pages!HowToRow
  <2>11. top[11] = top[10] + 9 BY <1>1, SMTT(30) DEF Tops, Pages!HowToRow
  <2>12. top[12] = top[11] + 13 BY <1>1, SMTT(30) DEF Tops, Pages!HowToRow
  <2>13. top[13] = top[12] + 9 BY <1>1, SMTT(30) DEF Tops, Pages!HowToRow
  <2> QED
    BY <2>1, <2>2, <2>3, <2>4, <2>5, <2>6, <2>7, <2>8, <2>9, <2>10, <2>11,
       <2>12, <2>13
<1>4. Pages!PetHowTo(owner, pet) =
        {Pages!Sheet(Pages!InfoBody, Pages!PetHeader(owner, pet)
                     \o Pages!Stacked(6, 84, rows))}
  BY DEF Pages!PetHowTo
<1> HIDE DEF rows
<1> QED BY <1>1, <1>2, <1>3, <1>4

\* With short names the page of what the pet likes is in place.
LEMMA PetHowToPage ==
  ASSUME NEW owner \in Nat, NEW pet \in Nat,
         (IF owner = 0 THEN pet ELSE owner + 3 + pet) <= 17
  PROVE  FitsIn(Pages!PetHowTo(owner, pet), Above)
<1> DEFINE x == 6  y == 84  w == 129  h == 140
           head == Pages!Box(4, 72, 131, 8)
           below == Pages!Box(x, y, w, h)
           area == Pages!Box(4, 72, 131, 152)
<1>1. /\ x \in Int /\ y \in Int /\ w \in Nat /\ h \in Int /\ y + h = 224
  OBVIOUS
<1>20. x = 6 /\ y = 84 /\ w = 129 OBVIOUS
<1>2. /\ head \in Boxes /\ below \in Boxes /\ area \in Boxes
      /\ Pages!Inside(head, area) /\ Pages!Inside(below, area)
      /\ Pages!Apart(head, below)
  BY DEF Pages!Box, Boxes, Pages!Inside, Pages!Apart
<1>3. Neat(Pages!PetHeader(owner, pet), head) BY PetHeaderNeat
<1> HIDE DEF x, y, w, h
<1>4. PICK rows \in Seq(Row) :
        /\ Len(rows) > 0 /\ Thin(rows, w) /\ Ends(y, rows, y + h)
        /\ Pages!PetHowTo(owner, pet) =
             {Pages!Sheet(Pages!InfoBody, Pages!PetHeader(owner, pet)
                          \o Pages!Stacked(x, y, rows))}
  BY <1>1, <1>20, PetHowToIs
<1>5. Neat(Pages!Stacked(x, y, rows), below) BY <1>1, <1>4, ListNeat, Zenon
<1> HIDE DEF head, below
<1>6. Neat(Pages!PetHeader(owner, pet) \o Pages!Stacked(x, y, rows), area)
  BY <1>2, <1>3, <1>5, NeatJoin, Zenon
<1> QED BY <1>4, <1>6, InfoBodyIs, SheetFits

\* And with longer ones it is not.
LEMMA PetHowToOver ==
  ASSUME NEW owner \in Nat, NEW pet \in Nat,
         (IF owner = 0 THEN pet ELSE owner + 3 + pet) > 17
  PROVE  \E s \in Pages!PetHowTo(owner, pet) : ~Pages!Tidy(s)
<1> DEFINE x == 6  y == 84  w == 129  h == 140
           head == Pages!PetHeader(owner, pet)
<1>1. /\ x \in Int /\ y \in Int /\ w \in Nat /\ h \in Int /\ y + h = 224
  OBVIOUS
<1>20. x = 6 /\ y = 84 /\ w = 129 OBVIOUS
<1> HIDE DEF x, y, w, h
<1>2. PICK rows \in Seq(Row) :
        /\ Len(rows) > 0 /\ Thin(rows, w) /\ Ends(y, rows, y + h)
        /\ Pages!PetHowTo(owner, pet) =
             {Pages!Sheet(Pages!InfoBody, head \o Pages!Stacked(x, y, rows))}
  BY <1>1, <1>20, PetHowToIs
<1>3. Neat(Pages!Stacked(x, y, rows), Pages!Box(x, y, w, h))
  BY <1>1, <1>2, ListNeat, Zenon
<1>4. Rough(head, Pages!InfoBody) BY PetHeaderOver
<1> HIDE DEF head
<1>5. Rough(head \o Pages!Stacked(x, y, rows), Pages!InfoBody)
  BY <1>3, <1>4, RoughLeft, Zenon DEF Neat
<1> QED BY <1>2, <1>5 DEF Rough

\* The greeting is in place for short names.
LEMMA GreetingPage ==
  ASSUME NEW owner \in Nat, NEW pet \in Nat,
         owner = 0 \/ (owner <= 9 /\ pet <= 11)
  PROVE  FitsIn(Pages!Greeting(owner, pet), Above)
<1> DEFINE area == Above
<1>1. Pages!Inside(area, area) BY DEF Above, Pages!Inside, Pages!Box
<1>2. CASE owner = 0
  <2> DEFINE lines == <<Pages!Large(67 - 6 * 6, 108 - 8, 6),
                        Pages!Text(67 - 45, 128, 15)>>
  <2>1. lines \in Seq(Boxes)
    BY DEF Pages!Text, Pages!Written, Pages!Large, Pages!Box, Boxes, Above
  <2>2. \A i \in 1..Len(lines) : Pages!Inside(lines[i], area)
    BY DEF Pages!Text, Pages!Written, Pages!Large, Pages!Box, Pages!Inside,
       Above
  <2>3. \A i, j \in 1..Len(lines) : i < j => Pages!Apart(lines[i], lines[j])
    BY DEF Pages!Text, Pages!Written, Pages!Large, Pages!Box, Pages!Apart, Above
  <2>4. Neat(lines, area)
    <3> HIDE DEF lines, area
    <3> QED BY <2>1, <2>2, <2>3, NeatBy, Zenon
  <2>5. Pages!Greeting(owner, pet) = {Pages!Sheet(Pages!Portrait, lines)}
    BY <1>2 DEF Pages!Greeting
  <2> HIDE DEF lines
  <2> QED BY <1>1, <2>4, <2>5, AboveIs, SheetFits
<1>3. CASE owner # 0
  <2> DEFINE lines == <<Pages!Large(67 - 6 * (owner + 2), 108 - 8, owner + 2),
                        Pages!Large(67 - 6 * pet, 132 - 8, pet)>>
  <2>6. owner \in 0..9 /\ pet \in 0..11 BY <1>3
  <2>1. lines \in Seq(Boxes)
    BY <2>6 DEF Pages!Text, Pages!Written, Pages!Large, Pages!Box, Boxes, Above
  <2>2. \A i \in 1..Len(lines) : Pages!Inside(lines[i], area)
    BY <2>6 DEF Pages!Text, Pages!Written, Pages!Large, Pages!Box, Pages!Inside,
       Above
  <2>3. \A i, j \in 1..Len(lines) : i < j => Pages!Apart(lines[i], lines[j])
    BY <2>6 DEF Pages!Text, Pages!Written, Pages!Large, Pages!Box, Pages!Apart,
       Above
  <2>4. Neat(lines, area)
    <3> HIDE DEF lines, area
    <3> QED BY <2>1, <2>2, <2>3, NeatBy, Zenon
  <2>5. Pages!Greeting(owner, pet) = {Pages!Sheet(Pages!Portrait, lines)}
    BY <1>3 DEF Pages!Greeting
  <2> HIDE DEF lines
  <2> QED BY <1>1, <2>4, <2>5, AboveIs, SheetFits
<1> QED BY <1>2, <1>3

\* A longer name leaves the screen.
LEMMA GreetingOver ==
  ASSUME NEW owner \in Nat, NEW pet \in Nat,
         ~(owner = 0 \/ (owner <= 9 /\ pet <= 11))
  PROVE  \E s \in Pages!Greeting(owner, pet) : ~Pages!Tidy(s)
<1> DEFINE one == Pages!Large(67 - 6 * (owner + 2), 108 - 8, owner + 2)
           two == Pages!Large(67 - 6 * pet, 132 - 8, pet)
           lines == <<one, two>>
<1>1. ~Pages!Inside(one, Pages!Portrait) \/ ~Pages!Inside(two, Pages!Portrait)
  BY DEF Pages!Large, Pages!Box, Pages!Inside, Pages!Portrait
<1>2. 1 \in DOMAIN lines /\ 2 \in DOMAIN lines /\ lines[1] = one /\ lines[2] =
      two
  OBVIOUS
<1>3. Pages!Greeting(owner, pet) = {Pages!Sheet(Pages!Portrait, lines)}
  BY DEF Pages!Greeting
<1> HIDE DEF one, two, lines
<1> QED BY <1>1, <1>2, <1>3 DEF Pages!Tidy, Pages!Sheet

\* ---- The prompt, with the room for the meter that it was drawn with

Insets == {0, 8, 16}
Room(margin) == Pages!Box(0, 0, 135, 240 - margin)
LandscapeRoom(margin) == Pages!Box(0, 0, 240, 135 - margin)

HintLines(n, y, cells) ==
  [i \in 1..n |-> Pages!Written(4, y + 12 * (i - 1), cells, 12)]

\* The rows of a hint are neat.
LEMMA RowsOfHint ==
  ASSUME NEW n \in 0..2, NEW y \in {81, 194}, NEW cells \in 0..36
  PROVE  Neat(HintLines(n, y, cells), Pages!Box(4, y, 6 * cells, 12 * n))
<1> DEFINE lines == [i \in 1..n |-> Pages!Written(4, y + 12 * (i - 1), cells,
                                                  12)]
           area == Pages!Box(4, y, 6 * cells, 12 * n)
<1>1. lines \in Seq(Boxes) /\ Len(lines) = n
  BY DEF Pages!Written, Pages!Box, Boxes
<1>2. \A i \in 1..n : Pages!Inside(lines[i], area)
  BY DEF Pages!Written, Pages!Box, Pages!Inside
<1>3. \A i, j \in 1..n : i < j => Pages!Apart(lines[i], lines[j])
  BY DEF Pages!Written, Pages!Box, Pages!Apart
<1> HIDE DEF lines, area
<1>4. Neat(lines, area) BY <1>1, <1>2, <1>3, NeatBy
<1> QED BY <1>4 DEF lines, area, HintLines

\* However it is written, a tool's name keeps to its line.
LEMMA ToolLineIs ==
  ASSUME NEW cells \in Nat, NEW height \in {8, 12}
  PROVE  /\ Pages!ToolLine(cells, height) \in Boxes
         /\ Pages!Inside(Pages!ToolLine(cells, height),
                         Pages!Box(4, 170, 131, 16))
<1>1. CASE height = 12
  <2>1. Pages!ToolLine(cells, height) =
        Pages!Written(4, 174, Pages!AtMost(14, cells), 12)
    BY <1>1 DEF Pages!ToolLine
  <2> QED
    BY <2>1 DEF Pages!AtMost, Pages!Written, Pages!Box, Boxes, Pages!Inside
<1>2. CASE height = 8 /\ cells <= 10
  <2>1. Pages!ToolLine(cells, height) = Pages!Large(4, 170, cells)
    BY <1>2 DEF Pages!ToolLine
  <2> QED BY <1>2, <2>1 DEF Pages!Large, Pages!Box, Boxes, Pages!Inside
<1>3. CASE height = 8 /\ cells > 10
  <2>1. Pages!ToolLine(cells, height) =
        Pages!Text(4, 174, Pages!AtMost(20, cells))
    BY <1>3 DEF Pages!ToolLine
  <2> QED
    BY <2>1 DEF Pages!AtMost, Pages!Text, Pages!Written, Pages!Box, Boxes,
       Pages!Inside
<1> QED BY <1>1, <1>2, <1>3

\* Three lists above each other.
LEMMA NeatThree ==
  ASSUME NEW f, NEW a \in Boxes, NEW g, NEW b \in Boxes, NEW k,
         NEW c \in Boxes, NEW ab \in Boxes, NEW area \in Boxes,
         Neat(f, a), Neat(g, b), Neat(k, c),
         Pages!Inside(a, ab), Pages!Inside(b, ab), Pages!Apart(a, b),
         Pages!Inside(ab, area), Pages!Inside(c, area), Pages!Apart(ab, c)
  PROVE  Neat((f \o g) \o k, area)
<1>1. Neat(f \o g, ab) BY NeatJoin, Zenon
<1> QED BY <1>1, NeatJoin, Zenon

\* A prompt is in place above the meter that it was drawn with.
LEMMA ApprovalPage ==
  ASSUME NEW cells \in Nat, NEW height \in {8, 12}, NEW rows \in 0..8,
         NEW margin \in Insets
  PROVE  FitsIn(Pages!Approval(<<cells, height>>, rows, margin), Room(margin))
<1> DEFINE tool == Pages!ToolLine(cells, height)
           frame == Pages!ApprovalArea(FALSE)
           n == Pages!AtMost(Pages!MaxHintRows(margin), rows)
           m == 12 * n
           foot == Pages!Footer(margin)
           top == <<Pages!Text(4, 160, 20)>>
           line == <<tool>>
           head == <<Pages!Text(4, 160, 20), tool>>
           hint == [i \in 1..n |-> Pages!Written(4, 194 + 12 * (i - 1), 20, 12)]
           keys == <<Pages!Text(4, foot, 10), Pages!Text(135 - 48, foot, 7)>>
           a == Pages!Box(4, 160, 131, 26)
           b == Pages!Box(4, 194, 6 * 20, m)
           c == Pages!Box(4, foot, 131, 8)
           ab == Pages!Box(4, 160, 131, 34 + m)
           area == Pages!Box(4, 160, 131, foot + 8 - 160)
           space == Room(margin)
<1>1. \/ margin = 0 /\ foot = 228 /\ n \in 0..2
      \/ margin = 8 /\ foot = 220 /\ n \in 0..1
      \/ margin = 16 /\ foot = 212 /\ n \in 0..1
  <2>1. margin = 0 \/ margin = 8 \/ margin = 16 BY DEF Insets
  <2>2. Pages!AtMost(16, margin) = margin BY <2>1 DEF Pages!AtMost
  <2>3. foot = 228 - margin BY <2>2 DEF Pages!Footer
  <2> DEFINE k == Pages!MaxHintRows(margin)
  <2>4. k = IF margin = 0 THEN 2 ELSE 1 BY <2>1, <2>2 DEF Pages!MaxHintRows
  <2> HIDE DEF k
  <2>5. n = Pages!AtMost(k, rows) BY DEF k
  <2> HIDE DEF n, foot
  <2>6. n \in 0..k BY <2>4, <2>5 DEF Pages!AtMost
  <2> QED BY <2>1, <2>3, <2>4, <2>6
<1>2. tool \in Boxes /\ Pages!Inside(tool, Pages!Box(4, 170, 131, 16))
  BY ToolLineIs
<1>3. Pages!Approval(<<cells, height>>, rows, margin) =
        {Pages!Sheet(frame, (head \o hint) \o keys)}
  BY DEF Pages!Approval
<1> HIDE DEF tool, n, foot
<1>4. n \in 0..2 /\ foot \in 212..228 /\ m \in Int /\ 194 + m <= foot
      /\ foot + 8 = 236 - margin /\ m >= 0
  BY <1>1
<1>5. /\ a \in Boxes /\ b \in Boxes /\ c \in Boxes /\ ab \in Boxes
      /\ area \in Boxes /\ frame \in Boxes /\ space \in Boxes
  BY <1>4 DEF Pages!Box, Boxes, Pages!ApprovalArea, Room, Insets
<1>6. /\ Pages!Inside(a, ab) /\ Pages!Inside(b, ab) /\ Pages!Apart(a, b)
      /\ Pages!Inside(ab, area) /\ Pages!Inside(c, area) /\ Pages!Apart(ab, c)
  BY <1>4 DEF Pages!Box, Pages!Inside, Pages!Apart
<1>7. Pages!Inside(area, frame) /\ Pages!Inside(area, space)
  BY <1>4 DEF Pages!Box, Pages!Inside, Pages!ApprovalArea, Room, Insets
<1>8. Neat(head, a)
  <2>1. head \in Seq(Boxes) /\ Len(head) = 2 /\ head[1] = Pages!Text(4, 160, 20)
        /\ head[2] = tool
    BY <1>2 DEF Pages!Text, Pages!Written, Pages!Box, Boxes
  <2>2. Pages!Inside(Pages!Text(4, 160, 20), a) /\ Pages!Inside(tool, a)
        /\ Pages!Apart(Pages!Text(4, 160, 20), tool)
    BY <1>2 DEF Pages!Text, Pages!Written, Pages!Box, Boxes, Pages!Inside,
       Pages!Apart
  <2> HIDE DEF head, a
  <2> QED BY <2>1, <2>2, NeatIs
<1>9. Neat(hint, b)
  <2> DEFINE y == 194  k == 20
  <2>1. y \in {81, 194} OBVIOUS
  <2>6. k \in 0..36 OBVIOUS
  <2>3. n \in 0..2 BY <1>4
  <2>4. hint = HintLines(n, y, k) BY DEF HintLines
  <2>5. b = Pages!Box(4, y, 6 * k, 12 * n) OBVIOUS
  <2> HIDE DEF y, k, hint, b
  <2>2. Neat(HintLines(n, y, k), Pages!Box(4, y, 6 * k, 12 * n))
    BY <2>1, <2>3, <2>6, RowsOfHint
  <2> QED BY <2>2, <2>4, <2>5
<1>10. Neat(keys, c)
  <2> DEFINE lines == keys
             here == c
  <2>1. lines \in Seq(Boxes)
    BY <1>4 DEF Pages!Text, Pages!Written, Pages!Large, Pages!Box, Boxes
  <2>2. \A i \in 1..Len(lines) : Pages!Inside(lines[i], here)
    BY <1>4 DEF Pages!Text, Pages!Written, Pages!Large, Pages!Box, Pages!Inside
  <2>3. \A i, j \in 1..Len(lines) : i < j => Pages!Apart(lines[i], lines[j])
    BY <1>4 DEF Pages!Text, Pages!Written, Pages!Large, Pages!Box, Pages!Apart
  <2>4. Neat(lines, here)
    <3> HIDE DEF lines, here
    <3> QED BY <2>1, <2>2, <2>3, NeatBy, Zenon
  <2> QED BY <2>4
<1> HIDE DEF head, hint, keys, a, b, c, ab, area, space, frame
<1>11. Neat((head \o hint) \o keys, area)
  BY <1>5, <1>6, <1>8, <1>9, <1>10, NeatThree, Zenon
<1>12. FitsIn({Pages!Sheet(frame, (head \o hint) \o keys)}, space)
  BY <1>5, <1>7, <1>11, SheetFits, Zenon
<1> QED BY <1>3, <1>12 DEF space

\* And so is one in landscape.
LEMMA LandscapeApprovalPage ==
  ASSUME NEW cells \in Nat, NEW height \in {8, 12}, NEW rows \in 0..8,
         NEW margin \in Insets
  PROVE  FitsIn(Pages!LandscapeApproval(<<cells, height>>, rows, margin),
              LandscapeRoom(margin))
<1> DEFINE wide == Pages!AtMost(IF height > 8 THEN 24 ELSE 32, cells)
           frame == Pages!ApprovalArea(TRUE)
           n == Pages!AtMost(2, rows)
           m == 12 * n
           foot == Pages!LandscapeFooter(margin)
           head == <<Pages!Text(4, 51, 20), Pages!Written(4, 65, wide, height)>>
           hint == [i \in 1..n |-> Pages!Written(4, 81 + 12 * (i - 1), 36, 12)]
           keys == <<Pages!Text(4, foot, 10), Pages!Text(240 - 52, foot, 7)>>
           a == Pages!Box(4, 51, 236, 28)
           b == Pages!Box(4, 81, 6 * 36, m)
           c == Pages!Box(4, foot, 236, 8)
           ab == Pages!Box(4, 51, 236, 30 + m)
           area == Pages!Box(4, 51, 236, foot + 8 - 51)
           space == LandscapeRoom(margin)
<1>1. /\ margin \in {0, 8, 16} /\ foot = 123 - margin /\ n \in 0..2
      /\ wide \in 0..32
  BY DEF Insets, Pages!LandscapeFooter, Pages!AtMost
<1>3. Pages!LandscapeApproval(<<cells, height>>, rows, margin) =
        {Pages!Sheet(frame, (head \o hint) \o keys)}
  BY DEF Pages!LandscapeApproval
<1> HIDE DEF wide, n, foot
<1>4. n \in 0..2 /\ foot \in 107..123 /\ m \in Int /\ 81 + m <= foot
      /\ foot + 8 = 131 - margin /\ m >= 0 /\ wide \in 0..32
  BY <1>1
<1>5. /\ a \in Boxes /\ b \in Boxes /\ c \in Boxes /\ ab \in Boxes
      /\ area \in Boxes /\ frame \in Boxes /\ space \in Boxes
  BY <1>1, <1>4 DEF Pages!Box, Boxes, Pages!ApprovalArea, LandscapeRoom
<1>6. /\ Pages!Inside(a, ab) /\ Pages!Inside(b, ab) /\ Pages!Apart(a, b)
      /\ Pages!Inside(ab, area) /\ Pages!Inside(c, area) /\ Pages!Apart(ab, c)
  BY <1>4 DEF Pages!Box, Pages!Inside, Pages!Apart
<1>7. Pages!Inside(area, frame) /\ Pages!Inside(area, space)
  BY <1>1, <1>4 DEF Pages!Box, Pages!Inside, Pages!ApprovalArea, LandscapeRoom
<1>8. Neat(head, a)
  <2> DEFINE lines == head
             here == a
  <2>1. lines \in Seq(Boxes)
    BY <1>4 DEF Pages!Text, Pages!Written, Pages!Large, Pages!Box, Boxes
  <2>2. \A i \in 1..Len(lines) : Pages!Inside(lines[i], here)
    BY <1>4 DEF Pages!Text, Pages!Written, Pages!Large, Pages!Box, Pages!Inside
  <2>3. \A i, j \in 1..Len(lines) : i < j => Pages!Apart(lines[i], lines[j])
    BY <1>4 DEF Pages!Text, Pages!Written, Pages!Large, Pages!Box, Pages!Apart
  <2>4. Neat(lines, here)
    <3> HIDE DEF lines, here
    <3> QED BY <2>1, <2>2, <2>3, NeatBy, Zenon
  <2> QED BY <2>4
<1>9. Neat(hint, b)
  <2> DEFINE y == 81  k == 36
  <2>1. y \in {81, 194} OBVIOUS
  <2>6. k \in 0..36 OBVIOUS
  <2>3. n \in 0..2 BY <1>4
  <2>4. hint = HintLines(n, y, k) BY DEF HintLines
  <2>5. b = Pages!Box(4, y, 6 * k, 12 * n) OBVIOUS
  <2> HIDE DEF y, k, hint, b
  <2>2. Neat(HintLines(n, y, k), Pages!Box(4, y, 6 * k, 12 * n))
    BY <2>1, <2>3, <2>6, RowsOfHint
  <2> QED BY <2>2, <2>4, <2>5
<1>10. Neat(keys, c)
  <2> DEFINE lines == keys
             here == c
  <2>1. lines \in Seq(Boxes)
    BY <1>4 DEF Pages!Text, Pages!Written, Pages!Large, Pages!Box, Boxes
  <2>2. \A i \in 1..Len(lines) : Pages!Inside(lines[i], here)
    BY <1>4 DEF Pages!Text, Pages!Written, Pages!Large, Pages!Box, Pages!Inside
  <2>3. \A i, j \in 1..Len(lines) : i < j => Pages!Apart(lines[i], lines[j])
    BY <1>4 DEF Pages!Text, Pages!Written, Pages!Large, Pages!Box, Pages!Apart
  <2>4. Neat(lines, here)
    <3> HIDE DEF lines, here
    <3> QED BY <2>1, <2>2, <2>3, NeatBy, Zenon
  <2> QED BY <2>4
<1> HIDE DEF head, hint, keys, a, b, c, ab, area, space, frame
<1>11. Neat((head \o hint) \o keys, area)
  BY <1>5, <1>6, <1>8, <1>9, <1>10, NeatThree, Zenon
<1>12. FitsIn({Pages!Sheet(frame, (head \o hint) \o keys)}, space)
  BY <1>5, <1>7, <1>11, SheetFits, Zenon
<1> QED BY <1>3, <1>12 DEF space

\* ---- The dashboard

\* The room above the dots of the dashboard.
LEMMA BesideIs == Beside \in Boxes /\ Pages!Landscape \in Boxes
    /\ Pages!Inside(Beside, Pages!Landscape)
BY DEF Beside, Pages!Landscape, Boxes, Pages!Box, Pages!Inside

DashboardAreas ==
  <<Pages!StatusArea, Pages!Box(172, 4, 64, 14), Pages!TimeArea, Pages!DateArea,
    Pages!Card(1), Pages!Card(2),
    Pages!Card(3)>>
StatusLines == <<Pages!Box(4, 7, 8, 8), Pages!Box(16, 3, 7 * 8, 15)>>
TimeLines ==
  <<Pages!Box(4, 34, 5 * 23, 40), Pages!Box(129, 46, 2 * 16, 28)>>
  \o [i \in 1..4 |-> Pages!Box(129 + 8 * (i - 1), 34, 8, 7)]
DateLines(weekday) ==
  LET right == 164 - 8 * weekday - 8
      line == IF right > 63 THEN <<Pages!Box(63, 86, right - 63, 1)>> ELSE << >>
  IN  <<Pages!Box(4, 79, 6 * 8, 14),
        Pages!Box(164 - 8 * weekday, 79, 8 * weekday, 14)>> \o line
CardLines(i, digits) ==
  <<Pages!Box(172, Pages!Card(i).y, 30, 14),
    Pages!Box(219 - 4 * digits, Pages!Card(i).y, 8 * digits, 14)>>

\* The areas of the dashboard lie beside each other, above the dots.
LEMMA AreasFit == FitsIn({Pages!Sheet(Pages!Landscape, DashboardAreas)}, Beside)
<1> DEFINE lines == DashboardAreas
           area == Beside
<1>2. lines \in Seq(Boxes)
  BY DEF Pages!Text, Pages!Written, Pages!Large, Pages!Box, Boxes,
     DashboardAreas, Pages!StatusArea, Pages!TimeArea, Pages!DateArea,
     Pages!Card, Beside
<1>3. \A i \in 1..Len(lines) : Pages!Inside(lines[i], area)
  BY DEF Pages!Text, Pages!Written, Pages!Large, Pages!Box, Pages!Inside,
     DashboardAreas, Pages!StatusArea, Pages!TimeArea, Pages!DateArea,
     Pages!Card, Beside
<1>4. \A i, j \in 1..Len(lines) : i < j => Pages!Apart(lines[i], lines[j])
  BY DEF Pages!Text, Pages!Written, Pages!Large, Pages!Box, Pages!Apart,
     DashboardAreas, Pages!StatusArea, Pages!TimeArea, Pages!DateArea,
     Pages!Card, Beside
<1>5. Neat(lines, area)
  <2> HIDE DEF lines, area
  <2> QED BY <1>2, <1>3, <1>4, NeatBy, Zenon
<1>1. Pages!Inside(area, area) BY DEF Pages!Inside, Beside, Pages!Box
<1> HIDE DEF lines
<1>6. FitsIn({Pages!Sheet(Pages!Landscape, lines)}, Beside)
  BY <1>1, <1>5, BesideIs, SheetFits
<1> QED BY <1>6 DEF lines

\* The status keeps to its area.
LEMMA StatusFits ==
  FitsIn({Pages!Sheet(Pages!StatusArea, StatusLines)}, Beside)
<1> DEFINE lines == StatusLines
           area == Pages!StatusArea
<1>1. area \in Boxes /\ Pages!Inside(area, area) /\ Pages!Inside(area, Beside)
  BY DEF Pages!Box, Boxes, Pages!Inside, Beside, StatusLines, Pages!StatusArea
<1>2. lines \in Seq(Boxes)
  BY DEF Pages!Text, Pages!Written, Pages!Large, Pages!Box, Boxes, StatusLines,
     Pages!StatusArea
<1>3. \A i \in 1..Len(lines) : Pages!Inside(lines[i], area)
  BY DEF Pages!Text, Pages!Written, Pages!Large, Pages!Box, Pages!Inside,
     StatusLines, Pages!StatusArea
<1>4. \A i, j \in 1..Len(lines) : i < j => Pages!Apart(lines[i], lines[j])
  BY DEF Pages!Text, Pages!Written, Pages!Large, Pages!Box, Pages!Apart,
     StatusLines, Pages!StatusArea
<1>5. Neat(lines, area)
  <2> HIDE DEF lines, area
  <2> QED BY <1>2, <1>3, <1>4, NeatBy, Zenon
<1> HIDE DEF lines, area
<1>6. FitsIn({Pages!Sheet(area, lines)}, Beside)
  BY <1>1, <1>5, BesideIs, SheetFits
<1> QED BY <1>6 DEF lines, area

\* The time keeps to its area.
LEMMA TimeFits == FitsIn({Pages!Sheet(Pages!TimeArea, TimeLines)}, Beside)
<1> DEFINE first == <<Pages!Box(4, 34, 5 * 23, 40),
                      Pages!Box(129, 46, 2 * 16, 28)>>
           cells == [i \in 1..4 |-> Pages!Box(129 + 8 * (i - 1), 34, 8, 7)]
           a == Pages!Box(4, 34, 115, 40)
           b == Pages!Box(129, 46, 32, 28)
           right == Pages!Box(129, 34, 32, 40)
           c == Pages!Box(129, 34, 32, 7)
           area == Pages!TimeArea
           one == <<a>>
           two == <<b>>
<1>1. /\ a \in Boxes /\ b \in Boxes /\ c \in Boxes /\ area \in Boxes
      /\ right \in Boxes
      /\ Pages!Inside(a, area) /\ Pages!Inside(right, area)
      /\ Pages!Apart(a, right)
      /\ Pages!Inside(b, right) /\ Pages!Inside(c, right) /\ Pages!Apart(b, c)
      /\ Pages!Inside(area, area) /\ Pages!Inside(area, Beside)
  BY DEF Pages!Box, Boxes, Pages!Inside, Pages!Apart, Pages!TimeArea, Beside
<1>2. Neat(cells, c)
  <2>1. cells \in Seq(Boxes) /\ Len(cells) = 4 BY DEF Pages!Box, Boxes
  <2>2. \A i \in 1..4 : Pages!Inside(cells[i], c) BY DEF Pages!Box, Pages!Inside
  <2>3. \A i, j \in 1..4 : i < j => Pages!Apart(cells[i], cells[j])
    BY DEF Pages!Box, Pages!Apart
  <2> HIDE DEF cells, c
  <2> QED BY <2>1, <2>2, <2>3, NeatBy
<1>3. TimeLines = first \o cells BY DEF TimeLines
<1>4. first = one \o two OBVIOUS
<1> HIDE DEF a, b, c, right, area, cells, first
<1>5. Neat(one, a) /\ Neat(two, b) BY <1>1, NeatOne
<1>6. one \in Seq(Boxes) /\ two \in Seq(Boxes) /\ cells \in Seq(Boxes)
  BY <1>2, <1>5 DEF Neat
<1> HIDE DEF one, two
<1>7. Neat(two \o cells, right) BY <1>1, <1>2, <1>5, NeatJoin, Zenon
<1>8. Neat(one \o (two \o cells), area) BY <1>1, <1>5, <1>7, NeatJoin, Zenon
<1>9. (one \o two) \o cells = one \o (two \o cells) BY <1>6, Regroup, Zenon
<1>10. Neat(TimeLines, area) BY <1>3, <1>4, <1>8, <1>9
<1>11. FitsIn({Pages!Sheet(area, TimeLines)}, Beside)
  BY <1>1, <1>10, BesideIs, SheetFits
<1> QED BY <1>11 DEF area

\* The date keeps to its area, with the line before it.
LEMMA DateFits ==
  ASSUME NEW weekday \in {3, 6, 7, 8, 9}
  PROVE  FitsIn({Pages!Sheet(Pages!DateArea, DateLines(weekday))}, Beside)
<1> DEFINE right == 164 - 8 * weekday - 8
           one == Pages!Box(4, 79, 6 * 8, 14)
           two == Pages!Box(164 - 8 * weekday, 79, 8 * weekday, 14)
           line == Pages!Box(63, 86, right - 63, 1)
           area == Pages!DateArea
           lines == <<one, two>> \o (IF right > 63 THEN <<line>> ELSE << >>)
<1>1. weekday \in 3..9 /\ right \in Int OBVIOUS
<1>2. /\ one \in Boxes /\ two \in Boxes /\ line \in Boxes
      /\ Pages!Inside(one, area) /\ Pages!Inside(two, area)
      /\ Pages!Apart(one, two)
  BY <1>1 DEF Pages!Box, Boxes, Pages!Inside, Pages!Apart, Pages!DateArea
<1>3. right > 63 => Pages!Inside(line, area) /\ Pages!Apart(one, line)
      /\ Pages!Apart(two, line)
  BY <1>1 DEF Pages!Box, Pages!Inside, Pages!Apart, Pages!DateArea
<1>4. DateLines(weekday) = lines BY DEF DateLines
<1>5. area \in Boxes /\ Pages!Inside(area, area) /\ Pages!Inside(area, Beside)
  BY DEF Pages!Box, Boxes, Pages!Inside, Beside, Pages!DateArea
<1> HIDE DEF one, two, line, right, area
<1>6. Neat(lines, area)
  <2>1. CASE right > 63
    <3> DEFINE all == <<one, two>> \o <<line>>
    <3>1. all \in Seq(Boxes) /\ Len(all) = 3 /\ all[1] = one /\ all[2] = two
          /\ all[3] = line
      BY <1>2
    <3>2. lines = all BY <2>1
    <3> HIDE DEF all, lines
    <3> QED BY <1>2, <1>3, <2>1, <3>1, <3>2, NeatIs
  <2>2. CASE ~(right > 63)
    <3> DEFINE all == <<one, two>> \o << >>
    <3>1. all \in Seq(Boxes) /\ Len(all) = 2 /\ all[1] = one /\ all[2] = two
      BY <1>2
    <3>2. lines = all BY <2>2
    <3> HIDE DEF all, lines
    <3> QED BY <1>2, <3>1, <3>2, NeatIs
  <2> QED BY <2>1, <2>2
<1> HIDE DEF lines
<1>7. FitsIn({Pages!Sheet(area, lines)}, Beside)
  BY <1>5, <1>6, BesideIs, SheetFits
<1> QED BY <1>4, <1>7 DEF area

\* A card's number keeps to the card.
LEMMA CardFits ==
  ASSUME NEW card \in 1..3, NEW digits \in 1..3
  PROVE  FitsIn({Pages!Sheet(Pages!Card(card), CardLines(card, digits))},
                Beside)
<1> DEFINE y == Pages!Card(card).y
           lines == <<Pages!Box(172, y, 30, 14),
                      Pages!Box(219 - 4 * digits, y, 8 * digits, 14)>>
           area == Pages!Box(172, y, 64, 14)
<1>1. y \in {34, 57, 79} /\ Pages!Card(card) = Pages!Box(172, y, 64, 14)
  BY DEF Pages!Card, Pages!Box
<1>2. CardLines(card, digits) = lines BY DEF CardLines
<1> HIDE DEF y
<1>3. area \in Boxes /\ Pages!Inside(area, area) /\ Pages!Inside(area, Beside)
  BY <1>1 DEF Pages!Box, Boxes, Pages!Inside, Beside
<1>4. lines \in Seq(Boxes)
  BY <1>1 DEF Pages!Text, Pages!Written, Pages!Large, Pages!Box, Boxes
<1>5. \A i \in 1..Len(lines) : Pages!Inside(lines[i], area)
  BY <1>1 DEF Pages!Text, Pages!Written, Pages!Large, Pages!Box, Pages!Inside
<1>6. \A i, j \in 1..Len(lines) : i < j => Pages!Apart(lines[i], lines[j])
  BY <1>1 DEF Pages!Text, Pages!Written, Pages!Large, Pages!Box, Pages!Apart
<1>7. Neat(lines, area)
  <2> HIDE DEF lines, area
  <2> QED BY <1>4, <1>5, <1>6, NeatBy, Zenon
<1> HIDE DEF lines, area
<1>8. FitsIn({Pages!Sheet(area, lines)}, Beside)
  BY <1>3, <1>7, BesideIs, SheetFits
<1> QED BY <1>1, <1>2, <1>8 DEF area

\* The dashboard is in place.
LEMMA DashboardPage ==
  ASSUME NEW weekday \in {3, 6, 7, 8, 9}, NEW digits \in 1..3
  PROVE  FitsIn(Pages!Dashboard(weekday, digits), Beside)
<1>1. Pages!Dashboard(weekday, digits) =
        {Pages!Sheet(Pages!Landscape, DashboardAreas),
         Pages!Sheet(Pages!StatusArea, StatusLines),
         Pages!Sheet(Pages!TimeArea, TimeLines),
             Pages!Sheet(Pages!DateArea, DateLines(weekday))}
        \cup {Pages!Sheet(Pages!Card(i), CardLines(i, digits)) : i \in 1..3}
  BY DEF Pages!Dashboard, DashboardAreas, StatusLines, TimeLines, DateLines,
     CardLines, Pages!Status, Pages!Time, Pages!Date, Pages!Cards
<1>2. \A i \in 1..3 : FitsIn({Pages!Sheet(Pages!Card(i), CardLines(i, digits))},
                             Beside)
  BY CardFits
<1> QED BY <1>1, <1>2, AreasFit, StatusFits, TimeFits, DateFits DEF FitsIn

\* ---- The meter

Reported == [five : Percents \cup {None}, seven : Percents \cup {None}]
Telling(state, p) == IF Pages!Visible(state) THEN Pages!Measured(state, p)
    ELSE None
Fresh(p) == age = 2 \/ (age = 1 /\ p.name # "landscapeApproval")

\* The bars are those of some report, and of the last one after a pass; the
\* page has left them room.
MeterInv ==
  /\ usage \in Reported /\ page \in Pages!Pages
  /\ \E s \in Reported : cache = Telling(s, page) /\ ink = Pages!Plan(s, page)
  /\ age > 0 => ink = Pages!Plan(usage, page)
  /\ Fresh(page) => inset = Pages!FooterInset(usage)

Clean == << >>

\* A function of nothing.
LEMMA EmptyFunction ==
  ASSUME NEW f, NEW D, D = {} PROVE [b \in D |-> f[b]] = Clean
BY DEF Clean

\* What is painted over all that was there.
LEMMA PaintedAll ==
  ASSUME NEW D, NEW over, over = [b \in D |-> over[b]], NEW under,
         DOMAIN under \subseteq D
  PROVE  Pages!Painted(over, under) = over
<1>1. DOMAIN over = D OBVIOUS
<1>2. D \cup DOMAIN under = D OBVIOUS
<1>3. Pages!Painted(over, under) =
      [b \in D |-> IF b \in D THEN over[b] ELSE under[b]]
  BY <1>1, <1>2 DEF Pages!Painted
<1>4. [b \in D |-> IF b \in D THEN over[b] ELSE under[b]] =
      [b \in D |-> over[b]]
  OBVIOUS
<1> QED BY <1>3, <1>4

\* The bands of a plan, and that it has no other.
Bands(state, p) ==
  IF ~Pages!Visible(state) THEN {}
  ELSE IF Pages!OnDashboard(p) THEN {Pages!DotBand}
  ELSE LET y == Pages!Surface(p).h - Pages!Footprint(state)
       IN  IF Pages!Both(state) THEN {Pages!Band(p, y), Pages!Band(p, y + 8)}
           ELSE {Pages!Band(p, y)}

\* The bars of a report are the bands that it takes, and no report has none.
LEMMA PlanIs ==
  ASSUME NEW state, NEW p
  PROVE  /\ Pages!Plan(state, p) =
              [b \in Bands(state, p) |-> Pages!Plan(state, p)[b]]
         /\ DOMAIN Pages!Plan(state, p) = Bands(state, p)
         /\ ~Pages!Visible(state) => Pages!Plan(state, p) = Clean
<1>1. CASE ~Pages!Visible(state)
  <2>1. Pages!Dots(state) = Clean BY <1>1 DEF Pages!Dots, Clean
  <2>5. Pages!Bars(state, p) = Clean
    <3> DEFINE y == Pages!Surface(p).h - Pages!Footprint(state)
               fill(remaining) == Pages!FillWidth(Pages!Surface(p).w - 4,
                                                  remaining)
               two == [b \in {Pages!Band(p, y), Pages!Band(p, y + 8)} |->
                         fill(IF b.y = y THEN state.five ELSE state.seven)]
               one == [b \in {Pages!Band(p, y)} |->
                         fill(IF state.five # None THEN state.five
                              ELSE state.seven)]
    <3>1. Pages!Bars(state, p) = CASE ~Pages!Visible(state) -> Clean
                             [] Pages!Both(state) -> two
                             [] Pages!Visible(state)
                                 /\ ~Pages!Both(state) -> one
      BY Zenon DEF Pages!Bars, Clean
    <3>2. ~Pages!Both(state) BY <1>1 DEF Pages!Visible, Pages!Both
    <3> HIDE DEF one, two
    <3> QED BY <1>1, <3>1, <3>2
  <2>6. Pages!Plan(state, p) = Clean BY <2>1, <2>5 DEF Pages!Plan
  <2>2. Bands(state, p) = {} BY <1>1 DEF Bands
  <2>3. [b \in Bands(state, p) |-> Pages!Plan(state, p)[b]] = Clean
    BY <2>2, EmptyFunction, Zenon
  <2>4. DOMAIN Clean = {} BY DEF Clean
  <2> QED BY <2>6, <2>2, <2>3, <2>4
<1>2. CASE Pages!Visible(state) /\ Pages!OnDashboard(p)
  BY <1>2 DEF Pages!Plan, Pages!Dots, Bands
<1>3. CASE Pages!Visible(state) /\ ~Pages!OnDashboard(p) /\ Pages!Both(state)
  BY <1>3 DEF Pages!Plan, Pages!Bars, Bands
<1>4. CASE Pages!Visible(state) /\ ~Pages!OnDashboard(p) /\ ~Pages!Both(state)
  BY <1>4 DEF Pages!Plan, Pages!Bars, Bands
<1> QED BY <1>1, <1>2, <1>3, <1>4

\* The surface is the one that the page turns the display to.
LEMMA SurfaceIs ==
  ASSUME NEW p
  PROVE  \/ Pages!Surface(p) = Pages!Portrait /\ ~Pages!Turned(p)
         \/ Pages!Surface(p) = Pages!Landscape /\ Pages!Turned(p)
BY DEF Pages!Surface

\* A bar lies within what is cleared, at the foot of the surface.
LEMMA BandIs ==
  ASSUME NEW p, NEW state, NEW b \in Bands(state, p)
  PROVE  /\ b \in Boxes /\ Pages!Inside(b, Pages!Surface(p))
         /\ Pages!Inside(b, Pages!Cleared(p))
         /\ Pages!Visible(state)
         /\ Pages!OnDashboard(p) => b.y = 109
         /\ ~Pages!OnDashboard(p)
              => b.y >= Pages!Surface(p).h - Pages!FooterInset(state)
         /\ ~Pages!OnDashboard(p) => b.y >= Pages!Surface(p).h - 16
<1>1. Pages!Visible(state) BY DEF Bands
<1>2. CASE Pages!OnDashboard(p)
  <2>1. b = Pages!DotBand BY <1>1, <1>2 DEF Bands
  <2>2. Pages!Surface(p) = Pages!Landscape
    BY <1>2 DEF Pages!Surface, Pages!Turned
  <2>3. Pages!DotColumns = 29 BY DEF Pages!DotColumns
  <2> QED
    BY <1>1, <1>2, <2>1, <2>2, <2>3 DEF Pages!DotBand, Pages!Box, Boxes,
       Pages!Inside, Pages!Landscape, Pages!Cleared
<1>3. CASE ~Pages!OnDashboard(p)
  <2> DEFINE s == Pages!Surface(p)
             n == Pages!Footprint(state)
             y == s.h - n
  <2>1. s = Pages!Portrait \/ s = Pages!Landscape BY SurfaceIs
  <2>2. /\ s.x = 0 /\ s.y = 0 /\ s.w \in {135, 240} /\ s.h \in {135, 240}
    BY <2>1 DEF Pages!Portrait, Pages!Landscape, Pages!Box
  <2>3. Pages!Cleared(p) = Pages!Box(0, s.h - 16, s.w, 16)
    BY <1>3 DEF Pages!Cleared
  <2>4. /\ n \in {8, 16} /\ Pages!FooterInset(state) = n
             /\ (Pages!Both(state) <=> n = 16)
    BY <1>1 DEF Pages!Footprint, Pages!FooterInset
  <2>5. b = Pages!Band(p, y) \/ (n = 16 /\ b = Pages!Band(p, y + 8))
    BY <1>1, <1>3, <2>4 DEF Bands
  <2>6. b = Pages!Box(2, y, s.w - 4, 6)
        \/ (n = 16 /\ b = Pages!Box(2, y + 8, s.w - 4, 6))
    BY <2>5 DEF Pages!Band
  <2> HIDE DEF s, n
  <2>7. b \in Boxes /\ Pages!Inside(b, s) /\ Pages!Inside(b, Pages!Cleared(p))
        /\ b.y >= s.h - n /\ b.y >= s.h - 16
    BY <2>2, <2>3, <2>4, <2>6 DEF Pages!Box, Boxes, Pages!Inside
  <2> QED BY <1>1, <1>3, <2>4, <2>7 DEF s
<1> QED BY <1>2, <1>3

\* Clearing leaves nothing of a meter.
LEMMA WipedClean ==
  ASSUME NEW p, NEW state
  PROVE  Pages!Wiped(Pages!Plan(state, p), Pages!Cleared(p)) = Clean
<1> DEFINE D == {b \in DOMAIN Pages!Plan(state, p) :
                 ~Pages!Inside(b, Pages!Cleared(p))}
<1>1. D = {} BY PlanIs, BandIs
<1>2. Pages!Wiped(Pages!Plan(state, p), Pages!Cleared(p)) =
      [b \in D |-> Pages!Plan(state, p)[b]]
  BY DEF Pages!Wiped
<1> HIDE DEF D
<1> QED BY <1>1, <1>2, EmptyFunction

\* What the meter of a page is told of a report.
LEMMA MeasuredIs ==
  ASSUME NEW state \in Reported, NEW p,
         None \notin Reported
  PROVE  /\ Pages!Measured(state, p) \in Reported
         /\ Pages!Visible(Pages!Measured(state, p)) <=> Pages!Visible(state)
         /\ Pages!Visible(state) <=> Telling(state, p) # None
BY DEF Pages!Measured, Pages!Dotted, Pages!Visible, Reported, Telling

\* The same layout takes the same bands, and the same report the same plan.
LEMMA SameBands ==
  ASSUME NEW s \in Reported, NEW u \in Reported, NEW p,
         Pages!Visible(s), Pages!Visible(u),
         Pages!Layout(Pages!Measured(s, p)) = Pages!Layout(Pages!Measured(u, p))
  PROVE  /\ Bands(s, p) = Bands(u, p)
         /\ Pages!Measured(s, p) = Pages!Measured(u, p) => Pages!Plan(s, p) =
              Pages!Plan(u, p)
<1>1. CASE Pages!OnDashboard(p)
  <2>1. Bands(s, p) = Bands(u, p) BY <1>1 DEF Bands
  <2>2. ASSUME Pages!Dotted(s) = Pages!Dotted(u) PROVE Pages!Dots(s) =
        Pages!Dots(u)
    <3> DEFINE left(v) == IF v.seven # None THEN v.seven ELSE v.five
    <3>1. left(s) = left(u) BY <2>2 DEF Pages!Dotted, Reported
    <3>2. Pages!Dots(s) =
          [b \in {Pages!DotBand} |-> Pages!FillWidth(Pages!DotColumns, left(s))]
      BY DEF Pages!Dots
    <3>3. Pages!Dots(u) =
          [b \in {Pages!DotBand} |-> Pages!FillWidth(Pages!DotColumns, left(u))]
      BY DEF Pages!Dots
    <3> HIDE DEF left
    <3> QED BY <3>1, <3>2, <3>3
  <2> QED BY <1>1, <2>1, <2>2 DEF Pages!Measured, Pages!Plan
<1>2. CASE ~Pages!OnDashboard(p)
  <2>1. Pages!Measured(s, p) = s /\ Pages!Measured(u, p) = u
    BY <1>2 DEF Pages!Measured
  <2>2. Pages!Both(s) <=> Pages!Both(u) BY <2>1 DEF Pages!Layout, Pages!Both
  <2>3. Pages!Footprint(s) = Pages!Footprint(u) BY <2>2 DEF Pages!Footprint
  <2> QED BY <1>2, <2>1, <2>2, <2>3 DEF Bands
<1> QED BY <1>1, <1>2

\* Whatever was painted, a pass leaves the plan of the last report.
Remains(before, state, painted, p) ==
  IF Pages!Clears(before, state) THEN Pages!Wiped(painted, Pages!Cleared(p))
      ELSE painted
Drawn(before, state, painted, plan, force, p) ==
  IF Pages!Draws(before, state, force)
  THEN Pages!Painted(plan, Remains(before, state, painted, p))
  ELSE Remains(before, state, painted, p)

\* A pass leaves the plan of the last report, whatever was painted.
LEMMA PassPaints ==
  ASSUME NEW s \in Reported, NEW u \in Reported, NEW p, NEW force \in BOOLEAN,
         None \notin Reported
  PROVE  Drawn(Telling(s, p), Pages!Measured(u, p), Pages!Plan(s, p),
               Pages!Plan(u, p), force, p)
           = Pages!Plan(u, p)
<1> DEFINE before == Telling(s, p)
           state == Pages!Measured(u, p)
           left == Remains(before, state, Pages!Plan(s, p), p)
           painted == Drawn(before, state, Pages!Plan(s, p), Pages!Plan(u, p),
                            force, p)
<1>1. /\ Pages!Visible(state) <=> Pages!Visible(u)
      /\ Pages!Visible(s) <=> before # None
      /\ Pages!Visible(s) => before = Pages!Measured(s, p)
  BY MeasuredIs DEF Telling
<1>2. /\ Pages!Wiped(Pages!Plan(s, p), Pages!Cleared(p)) = Clean
      /\ Pages!Plan(u, p) = [b \in Bands(u, p) |-> Pages!Plan(u, p)[b]]
      /\ DOMAIN Pages!Plan(s, p) = Bands(s, p)
      /\ ~Pages!Visible(s) => Pages!Plan(s, p) = Clean
      /\ ~Pages!Visible(u) => Pages!Plan(u, p) = Clean
      /\ DOMAIN Clean = {}
  <2>1. DOMAIN Clean = {} BY DEF Clean
  <2>2. Pages!Plan(u, p) = [b \in Bands(u, p) |-> Pages!Plan(u, p)[b]]
    BY PlanIs, Zenon
  <2> QED BY <2>1, <2>2, PlanIs, WipedClean
<1>3. ASSUME NEW under, DOMAIN under \subseteq Bands(u, p)
      PROVE  Pages!Painted(Pages!Plan(u, p), under) = Pages!Plan(u, p)
  BY <1>2, <1>3, PaintedAll, Zenon
<1>a. /\ Pages!Clears(before, state) => left =
           Pages!Wiped(Pages!Plan(s, p), Pages!Cleared(p))
      /\ ~Pages!Clears(before, state) => left = Pages!Plan(s, p)
      /\ Pages!Draws(before, state, force) => painted =
           Pages!Painted(Pages!Plan(u, p), left)
      /\ ~Pages!Draws(before, state, force) => painted = left
  BY DEF Remains, Drawn
<1>b. before = Telling(s, p) /\ state = Pages!Measured(u, p) OBVIOUS
<1> HIDE DEF before, state, left, painted
<1>4. CASE ~Pages!Visible(u)
  <2>1. left = Clean BY <1>1, <1>2, <1>4, <1>a DEF Pages!Clears
  <2>2. ~Pages!Draws(before, state, force) BY <1>1, <1>4 DEF Pages!Draws
  <2>3. painted = Pages!Plan(u, p) BY <1>2, <1>4, <2>1, <2>2, <1>a
  <2> QED BY <2>3 DEF painted, before, state
<1>5. CASE Pages!Visible(u) /\ ~Pages!Visible(s)
  <2>1. left = Clean BY <1>1, <1>2, <1>5, <1>a DEF Pages!Clears
  <2>2. Pages!Draws(before, state, force) BY <1>1, <1>5 DEF Pages!Draws
  <2>3. Pages!Painted(Pages!Plan(u, p), Clean) = Pages!Plan(u, p) BY <1>2, <1>3
  <2>4. painted = Pages!Plan(u, p) BY <2>1, <2>2, <2>3, <1>a
  <2> QED BY <2>4 DEF painted, before, state
<1>6. CASE Pages!Visible(u) /\ Pages!Visible(s)
      /\ Pages!Layout(before) # Pages!Layout(state)
  <2>1. left = Clean BY <1>1, <1>2, <1>6, <1>a DEF Pages!Clears
  <2>2. before # state BY <1>6
  <2>3. Pages!Draws(before, state, force) BY <1>1, <1>6, <2>2 DEF Pages!Draws
  <2>4. Pages!Painted(Pages!Plan(u, p), Clean) = Pages!Plan(u, p) BY <1>2, <1>3
  <2>5. painted = Pages!Plan(u, p) BY <2>1, <2>3, <2>4, <1>a
  <2> QED BY <2>5 DEF painted, before, state
<1>7. CASE Pages!Visible(u) /\ Pages!Visible(s) /\ Pages!Layout(before) =
      Pages!Layout(state)
  <2>1. left = Pages!Plan(s, p) BY <1>1, <1>7, <1>a DEF Pages!Clears
  <2>2. before = Pages!Measured(s, p) BY <1>1, <1>7
  <2>3. /\ Bands(s, p) = Bands(u, p)
        /\ before = state => Pages!Plan(s, p) = Pages!Plan(u, p)
    BY <1>7, <1>b, <2>2, SameBands
  <2>4. Pages!Painted(Pages!Plan(u, p), Pages!Plan(s, p)) = Pages!Plan(u, p)
    <3>1. DOMAIN Pages!Plan(s, p) \subseteq Bands(u, p) BY <1>2, <2>3
    <3> QED BY <1>3, <3>1
  <2>5. ~Pages!Draws(before, state, force) => before = state
    BY <1>1, <1>7 DEF Pages!Draws
  <2>6. painted = Pages!Plan(u, p) BY <2>1, <2>3, <2>4, <2>5, <1>a
  <2> QED BY <2>6 DEF painted, before, state
<1> QED BY <1>4, <1>5, <1>6, <1>7

\* The device starts so.
LEMMA MeterStart ==
  ASSUME Pages!Init, None \notin Reported PROVE MeterInv
<1> DEFINE none == [five |-> None, seven |-> None]
<1>1. none \in Reported /\ ~Pages!Visible(none) BY DEF Reported, Pages!Visible
<1>2. Telling(none, page) = None /\ Pages!Plan(none, page) = Clean
  BY <1>1, PlanIs DEF Telling
<1>3. usage = none /\ page \in Pages!Pages /\ cache = None /\ ink = Clean
      /\ age = 0
  BY DEF Pages!Init, Clean
<1> HIDE DEF none
<1> QED BY <1>1, <1>2, <1>3 DEF MeterInv, Fresh

\* A report keeps it so.
LEMMA MeterReports ==
  ASSUME MeterInv, NEW five \in Percents \cup {None},
         NEW seven \in Percents \cup {None}, Pages!Report(five, seven)
  PROVE  MeterInv'
<1>1. /\ usage' \in Reported /\ age' = 0
      /\ page' = page /\ cache' = cache /\ ink' = ink /\ inset' = inset
  BY DEF Pages!Report, Reported
<1>2. ~(age' > 0) /\ ~Fresh(page)' BY <1>1 DEF Fresh
<1>3. PICK s \in Reported : cache = Telling(s, page) /\ ink =
      Pages!Plan(s, page)
  BY DEF MeterInv
<1>4. cache' = Telling(s, page') /\ ink' = Pages!Plan(s, page') BY <1>1, <1>3
<1>5. page \in Pages!Pages BY DEF MeterInv
<1> QED BY <1>1, <1>2, <1>4, <1>5 DEF MeterInv

\* Another page keeps it so.
LEMMA MeterShows ==
  ASSUME MeterInv, None \notin Reported, NEW p \in Pages!Pages, Pages!Show(p)
  PROVE  MeterInv'
<1> DEFINE none == [five |-> None, seven |-> None]
<1>1. none \in Reported /\ ~Pages!Visible(none) BY DEF Reported, Pages!Visible
<1>2. Telling(none, p) = None /\ Pages!Plan(none, p) = Clean
  BY <1>1, PlanIs DEF Telling
<1>3. /\ page' = p /\ cache' = None /\ ink' = Clean /\ age' = 0
      /\ usage' = usage
  BY DEF Pages!Show, Clean
<1>4. ~(age' > 0) /\ ~Fresh(page)' BY <1>3 DEF Fresh
<1> HIDE DEF none
<1>5. \E s \in Reported : cache' = Telling(s, page') /\ ink' =
      Pages!Plan(s, page')
  BY <1>1, <1>2, <1>3
<1>6. usage' \in Reported BY <1>3 DEF MeterInv
<1> QED BY <1>3, <1>4, <1>5, <1>6 DEF MeterInv

\* A pass that draws the page, and one that does not.
LEMMA PassIs ==
  ASSUME NEW second \in BOOLEAN, Pages!Pass(second)
  PROVE  \E redraw, force \in BOOLEAN :
           /\ ink' = Drawn(cache, Pages!Measured(usage, page), ink,
                           Pages!Plan(usage, page), force, page)
           /\ cache' = (IF Pages!Visible(Pages!Measured(usage, page))
                        THEN Pages!Measured(usage, page) ELSE None)
           /\ usage' = usage /\ page' = page
           /\ redraw => inset' = Pages!FooterInset(usage)
           /\ age' \in {1, 2}
           /\ page.name # "landscapeApproval" => redraw
           /\ age' = 2 => redraw
<1> DEFINE redraw(t) == inset = None \/ (page.name = "landscapeApproval" => t)
           force(t) == ~Pages!Kept(page) /\ redraw(t)
           drawn(f) == Drawn(cache, Pages!Measured(usage, page), ink,
                             Pages!Plan(usage, page), f, page)
           told == IF Pages!Visible(Pages!Measured(usage, page))
                   THEN Pages!Measured(usage, page) ELSE None
<1>1. CASE second = TRUE
  <2>1. Pages!Pass(TRUE) BY <1>1, Zenon
  <2>2. /\ ink' = drawn(force(TRUE)) /\ cache' = told
        /\ usage' = usage /\ page' = page
        /\ inset' = Pages!FooterInset(usage) /\ age' = 2
    BY <2>1 DEF Pages!Pass, Drawn, Remains
  <2>3. force(TRUE) \in BOOLEAN OBVIOUS
  <2> HIDE DEF force, drawn, told
  <2>4. age' \in {1, 2} BY <2>2
  <2>5. WITNESS TRUE \in BOOLEAN, force(TRUE) \in BOOLEAN
  <2> QED BY <2>2, <2>4 DEF drawn, told
<1>2. CASE second = FALSE
  <2>1. Pages!Pass(FALSE) BY <1>2, Zenon
  <2>2. /\ ink' = drawn(force(FALSE)) /\ cache' = told
        /\ usage' = usage /\ page' = page
        /\ redraw(FALSE) => inset' = Pages!FooterInset(usage)
        /\ age' = 1
    BY <2>1 DEF Pages!Pass, Drawn, Remains
  <2>3. /\ force(FALSE) \in BOOLEAN /\ redraw(FALSE) \in BOOLEAN
        /\ page.name # "landscapeApproval" => redraw(FALSE)
    OBVIOUS
  <2> HIDE DEF force, drawn, told, redraw
  <2>4. age' \in {1, 2} /\ age' # 2 BY <2>2
  <2> QED BY <2>2, <2>3, <2>4 DEF drawn, told
<1> QED BY <1>1, <1>2

\* A pass keeps it so.
LEMMA MeterPasses ==
  ASSUME MeterInv, None \notin Reported, NEW second \in BOOLEAN,
      Pages!Pass(second)
  PROVE  MeterInv'
<1>1. PICK s \in Reported : cache = Telling(s, page) /\ ink =
      Pages!Plan(s, page)
  BY DEF MeterInv
<1>2. usage \in Reported /\ page \in Pages!Pages BY DEF MeterInv
<1>3. PICK redraw, force \in BOOLEAN :
        /\ ink' = Drawn(cache, Pages!Measured(usage, page), ink,
                        Pages!Plan(usage, page), force, page)
        /\ cache' = (IF Pages!Visible(Pages!Measured(usage, page))
                     THEN Pages!Measured(usage, page) ELSE None)
        /\ usage' = usage /\ page' = page
        /\ redraw => inset' = Pages!FooterInset(usage)
        /\ age' \in {1, 2}
        /\ page.name # "landscapeApproval" => redraw
        /\ age' = 2 => redraw
  BY PassIs
<1>4. ink' = Pages!Plan(usage, page) BY <1>1, <1>2, <1>3, PassPaints
<1>5. cache' = Telling(usage, page)
  BY <1>2, <1>3, MeasuredIs DEF Telling
<1>6. ink' = Pages!Plan(usage', page') /\ cache' = Telling(usage', page')
  BY <1>3, <1>4, <1>5
<1>7. (age' = 2 \/ (age' = 1 /\ page'.name # "landscapeApproval"))
        => inset' = Pages!FooterInset(usage')
  BY <1>3
<1>8. usage' \in Reported /\ page' \in Pages!Pages BY <1>2, <1>3
<1> QED BY <1>6, <1>7, <1>8 DEF MeterInv, Fresh

\* And so does what the meter does not take part in.
LEMMA MeterStutters ==
  ASSUME MeterInv, UNCHANGED Pages!vars PROVE MeterInv'
<1>1. /\ usage' = usage /\ page' = page /\ cache' = cache /\ ink' = ink
      /\ inset' = inset /\ age' = age
  BY DEF Pages!vars
<1>2. PICK s \in Reported : cache = Telling(s, page) /\ ink =
      Pages!Plan(s, page)
  BY DEF MeterInv
<1>3. cache' = Telling(s, page') /\ ink' = Pages!Plan(s, page') BY <1>1, <1>2
<1>4. /\ usage \in Reported /\ page \in Pages!Pages
      /\ age > 0 => ink = Pages!Plan(usage, page)
      /\ (age = 2 \/ (age = 1 /\ page.name # "landscapeApproval"))
           => inset = Pages!FooterInset(usage)
  BY DEF MeterInv, Fresh
<1>5. /\ usage' \in Reported /\ page' \in Pages!Pages
      /\ age' > 0 => ink' = Pages!Plan(usage', page')
      /\ (age' = 2 \/ (age' = 1 /\ page'.name # "landscapeApproval"))
           => inset' = Pages!FooterInset(usage')
  BY <1>1, <1>4
<1> QED BY <1>3, <1>5 DEF MeterInv, Fresh

\* ---- Every page

\* The part of the surface that a page keeps to.
Space(p, margin) ==
  IF p.name = "approval" THEN Room(margin)
  ELSE IF p.name = "landscapeApproval" THEN LandscapeRoom(margin)
  ELSE IF Pages!OnDashboard(p) THEN Beside ELSE Above

Sizes ==
  /\ NameCells \subseteq Nat \X (Nat \ {0})
  /\ SsidCells \subseteq Nat /\ VersionCells \subseteq Nat
  /\ ToolCells \subseteq Nat \X {8, 12} /\ HintRows \subseteq 0..8

\* A page is in place when its texts are short, and only then.
Placement(p, margin) ==
  /\ Pages!Short(p) => FitsIn(Pages!Sheets(p, margin), Space(p, margin))
  /\ ~Pages!Short(p) => \E s \in Pages!Sheets(p, margin) : ~Pages!Tidy(s)

\* The pages that are always the same.
LEMMA FixedPages ==
  ASSUME NEW margin \in Insets,
         NEW name \in {"menu", "settings", "reset", "about", "buttons", "codex",
                       "credits", "passkey", "installing", "face"},
         NEW p, p = Pages!Page(name, << >>)
  PROVE  Placement(p, margin)
<1>1. p.name = name BY DEF Pages!Page
<1>2. Pages!Short(p) BY <1>1 DEF Pages!Short
<1>3. Space(p, margin) = Above BY <1>1 DEF Space, Pages!OnDashboard
<1>4. CASE name = "menu" 
  <2>1. Pages!Sheets(p, margin) = Pages!Menu BY <1>1, <1>4 DEF Pages!Sheets
  <2> QED BY <1>2, <1>3, <2>1, MenuPage DEF Placement
<1>5. CASE name = "settings"
  <2>1. Pages!Sheets(p, margin) = Pages!Settings BY <1>1, <1>5 DEF Pages!Sheets
  <2> QED BY <1>2, <1>3, <2>1, SettingsPage DEF Placement
<1>6. CASE name = "reset"
  <2>1. Pages!Sheets(p, margin) = Pages!Reset BY <1>1, <1>6 DEF Pages!Sheets
  <2> QED BY <1>2, <1>3, <2>1, ResetPage DEF Placement
<1>7. CASE name = "about"
  <2>1. Pages!Sheets(p, margin) = Pages!About BY <1>1, <1>7 DEF Pages!Sheets
  <2> QED BY <1>2, <1>3, <2>1, AboutPage DEF Placement
<1>8. CASE name = "buttons"
  <2>1. Pages!Sheets(p, margin) = Pages!Buttons BY <1>1, <1>8 DEF Pages!Sheets
  <2> QED BY <1>2, <1>3, <2>1, ButtonsPage DEF Placement
<1>9. CASE name = "codex"
  <2>1. Pages!Sheets(p, margin) = Pages!Codex BY <1>1, <1>9 DEF Pages!Sheets
  <2> QED BY <1>2, <1>3, <2>1, CodexPage DEF Placement
<1>10. CASE name = "credits"
  <2>1. Pages!Sheets(p, margin) = Pages!Credits BY <1>1, <1>10 DEF Pages!Sheets
  <2> QED BY <1>2, <1>3, <2>1, CreditsPage DEF Placement
<1>11. CASE name = "passkey"
  <2>1. Pages!Sheets(p, margin) = Pages!Passkey BY <1>1, <1>11 DEF Pages!Sheets
  <2> QED BY <1>2, <1>3, <2>1, PasskeyPage DEF Placement
<1>12. CASE name = "installing"
  <2>1. Pages!Sheets(p, margin) = Pages!Installing
    BY <1>1, <1>12 DEF Pages!Sheets
  <2> QED BY <1>2, <1>3, <2>1, InstallingPage DEF Placement
<1>13. CASE name = "face"
  <2>1. Pages!Sheets(p, margin) = Pages!Face BY <1>1, <1>13 DEF Pages!Sheets
  <2> QED BY <1>2, <1>3, <2>1, FacePage DEF Placement
<1> QED BY <1>4, <1>5, <1>6, <1>7, <1>8, <1>9, <1>10, <1>11, <1>12, <1>13

\* The pages of a link, up or down.
LEMMA LinkPages ==
  ASSUME NEW margin \in Insets, NEW name \in {"wifiMenu", "bluetooth"},
         NEW n \in {0, 1}, NEW p, p = Pages!Page(name, <<n>>)
  PROVE  Placement(p, margin)
<1>1. p.name = name /\ p.data[1] = n BY DEF Pages!Page
<1>2. Pages!Short(p) BY <1>1 DEF Pages!Short
<1>3. Space(p, margin) = Above BY <1>1 DEF Space, Pages!OnDashboard
<1>4. CASE name = "wifiMenu"
  <2>1. Pages!Sheets(p, margin) = Pages!WifiMenu(p.data[1] = 1)
    BY <1>1, <1>4 DEF Pages!Sheets
  <2>2. CASE n = 1
    <3>1. p.data[1] = 1 BY <1>1, <2>2
    <3>2. Pages!WifiMenu(p.data[1] = 1) = Pages!WifiMenu(TRUE)
      BY <3>1 DEF Pages!WifiMenu
    <3> QED BY <1>2, <1>3, <2>1, <3>2, WifiMenuPageTRUE DEF Placement
  <2>3. CASE n = 0
    <3>1. ~(p.data[1] = 1) BY <1>1, <2>3
    <3>2. Pages!WifiMenu(p.data[1] = 1) = Pages!WifiMenu(FALSE)
      BY <3>1 DEF Pages!WifiMenu
    <3> QED BY <1>2, <1>3, <2>1, <3>2, WifiMenuPageFALSE DEF Placement
  <2> QED BY <2>2, <2>3
<1>5. CASE name = "bluetooth"
  <2>1. Pages!Sheets(p, margin) = Pages!Bluetooth(p.data[1] = 1)
    BY <1>1, <1>5 DEF Pages!Sheets
  <2>2. CASE n = 1
    <3>1. p.data[1] = 1 BY <1>1, <2>2
    <3>2. Pages!Bluetooth(p.data[1] = 1) = Pages!Bluetooth(TRUE)
      BY <3>1 DEF Pages!Bluetooth
    <3> QED BY <1>2, <1>3, <2>1, <3>2, BluetoothPage DEF Placement
  <2>3. CASE n = 0
    <3>1. ~(p.data[1] = 1) BY <1>1, <2>3
    <3>2. Pages!Bluetooth(p.data[1] = 1) = Pages!Bluetooth(FALSE)
      BY <3>1 DEF Pages!Bluetooth
    <3> QED BY <1>2, <1>3, <2>1, <3>2, BluetoothPage DEF Placement
  <2> QED BY <2>2, <2>3
<1> QED BY <1>4, <1>5

\* The status of the Wi-Fi, for any network.
LEMMA WifiPages ==
  ASSUME NEW margin \in Insets, NEW state \in 1..4, NEW ssid \in Nat,
         NEW p, p = Pages!Page("wifiStatus", <<state, ssid>>)
  PROVE  Placement(p, margin)
<1>1. p.name = "wifiStatus" /\ p.data[1] = state /\ p.data[2] = ssid
  BY DEF Pages!Page
<1>2. Pages!Short(p) <=> (state \in {2, 3} => ssid <= 13)
  BY <1>1 DEF Pages!Short
<1>3. Space(p, margin) = Above BY <1>1 DEF Space, Pages!OnDashboard
<1>4. Pages!Sheets(p, margin) = Pages!WifiStatus(state, ssid)
  BY <1>1 DEF Pages!Sheets
<1>5. CASE state \in {2, 3} => ssid <= 13
  BY <1>2, <1>3, <1>4, <1>5, WifiStatusPage DEF Placement
<1>6. CASE state \in {2, 3} /\ ssid > 13
  BY <1>2, <1>3, <1>4, <1>6, WifiStatusOver DEF Placement
<1> QED BY <1>5, <1>6

\* The screen of the update, for any version.
LEMMA ReceivePages ==
  ASSUME NEW margin \in Insets, NEW state \in 1..3, NEW version \in Nat,
         NEW p, p = Pages!Page("receiveWindow", <<state, version>>)
  PROVE  Placement(p, margin)
<1>1. p.name = "receiveWindow" /\ p.data[1] = state /\ p.data[2] = version
  BY DEF Pages!Page
<1>2. Pages!Short(p) <=> (state \in {1, 2} => version <= 10)
  BY <1>1 DEF Pages!Short
<1>3. Space(p, margin) = Above BY <1>1 DEF Space, Pages!OnDashboard
<1>4. Pages!Sheets(p, margin) = Pages!ReceiveWindow(state, version)
  BY <1>1 DEF Pages!Sheets
<1>5. CASE state \in {1, 2} => version <= 10
  BY <1>2, <1>3, <1>4, <1>5, ReceiveWindowPage DEF Placement
<1>6. CASE state \in {1, 2} /\ version > 10
  BY <1>2, <1>3, <1>4, <1>6, ReceiveWindowOver DEF Placement
<1> QED BY <1>5, <1>6

\* The corner, for any version.
LEMMA OverlayPages ==
  ASSUME NEW margin \in Insets, NEW landscape \in {0, 1}, NEW version \in Nat,
         NEW percent \in 2..4,
         NEW p, p = Pages!Page("overlay", <<landscape, version, percent>>)
  PROVE  Placement(p, margin)
<1>1. /\ p.name = "overlay" /\ p.data[1] = landscape /\ p.data[2] = version
      /\ p.data[3] = percent
  BY DEF Pages!Page
<1>2. Pages!Short(p) <=>
        ((landscape = 0 /\ version > 0) => version + percent <= 13)
  BY <1>1 DEF Pages!Short
<1>3. Pages!Sheets(p, margin) = Pages!CompactOverlay(landscape = 1, version,
                                                     percent)
  BY <1>1 DEF Pages!Sheets
<1>4. CASE landscape = 1
  <2>1. Space(p, margin) = Beside BY <1>1, <1>4 DEF Space, Pages!OnDashboard
  <2>2. Pages!Sheets(p, margin) = Pages!CompactOverlay(TRUE, version, percent)
    BY <1>3, <1>4 DEF Pages!CompactOverlay
  <2>3. Pages!Short(p) BY <1>2, <1>4
  <2>4. FitsIn(Pages!CompactOverlay(TRUE, version, percent), Beside)
    BY OverlayPage, Zenon
  <2> QED BY <2>1, <2>2, <2>3, <2>4 DEF Placement
<1>5. CASE landscape = 0
  <2>1. Space(p, margin) = Above BY <1>1, <1>5 DEF Space, Pages!OnDashboard
  <2>2. Pages!Sheets(p, margin) = Pages!CompactOverlay(FALSE, version, percent)
    BY <1>3, <1>5 DEF Pages!CompactOverlay
  <2>3. CASE version > 0 => version + percent <= 13
    <3>1. Pages!Short(p) BY <1>2, <2>3
    <3>2. FitsIn(Pages!CompactOverlay(FALSE, version, percent), Above)
      BY <2>3, OverlayPage, Zenon
    <3> QED BY <2>1, <2>2, <3>1, <3>2 DEF Placement
  <2>4. CASE version > 0 /\ version + percent > 13
    <3>1. ~Pages!Short(p) BY <1>2, <1>5, <2>4
    <3>2. \E s \in Pages!CompactOverlay(FALSE, version, percent) :
          ~Pages!Tidy(s)
      BY <2>4, OverlayOver
    <3> QED BY <2>2, <3>1, <3>2 DEF Placement
  <2> QED BY <2>3, <2>4
<1> QED BY <1>4, <1>5

\* The page about the device, for any owner.
LEMMA DevicePages ==
  ASSUME NEW margin \in Insets, NEW owner \in Nat, NEW height \in {8, 12},
         NEW p, p = Pages!Page("device", <<owner, height>>)
  PROVE  Placement(p, margin)
<1>1. p.name = "device" /\ p.data[1] = owner /\ p.data[2] = height
  BY DEF Pages!Page
<1>2. Pages!Short(p) BY <1>1 DEF Pages!Short
<1>3. Space(p, margin) = Above BY <1>1 DEF Space, Pages!OnDashboard
<1>4. Pages!Sheets(p, margin) = Pages!Device(owner, height)
  BY <1>1 DEF Pages!Sheets
<1> QED BY <1>2, <1>3, <1>4, DevicePage DEF Placement

\* The pages of the pet, for any names.
LEMMA NamePages ==
  ASSUME NEW margin \in Insets, NEW name \in {"pet", "petHowTo", "greeting"},
         NEW names \in Nat \X (Nat \ {0}), NEW p, p = Pages!Page(name, names)
  PROVE  Placement(p, margin)
<1> DEFINE owner == names[1]
           pet == names[2]
           cells == IF owner = 0 THEN pet ELSE owner + 3 + pet
<1>1. /\ p.name = name /\ p.data[1] = owner /\ p.data[2] = pet
      /\ owner \in Nat /\ pet \in Nat
  BY DEF Pages!Page
<1>2. Space(p, margin) = Above BY <1>1 DEF Space, Pages!OnDashboard
<1> HIDE DEF owner, pet
<1>3. cells \in Nat BY <1>1
<1>4. CASE name = "pet"
  <2>1. Pages!Short(p) <=> cells <= 17 BY <1>1, <1>4 DEF Pages!Short
  <2>2. Pages!Sheets(p, margin) = Pages!PetStats(owner, pet)
    BY <1>1, <1>4 DEF Pages!Sheets
  <2>3. CASE cells <= 17
    BY <1>1, <1>2, <2>1, <2>2, <2>3, PetStatsPage DEF Placement
  <2>4. CASE cells > 17
    BY <1>1, <1>3, <2>1, <2>2, <2>4, PetStatsOver DEF Placement
  <2> QED BY <1>3, <2>3, <2>4
<1>5. CASE name = "petHowTo"
  <2>1. Pages!Short(p) <=> cells <= 17 BY <1>1, <1>5 DEF Pages!Short
  <2>2. Pages!Sheets(p, margin) = Pages!PetHowTo(owner, pet)
    BY <1>1, <1>5 DEF Pages!Sheets
  <2>3. CASE cells <= 17
    BY <1>1, <1>2, <2>1, <2>2, <2>3, PetHowToPage DEF Placement
  <2>4. CASE cells > 17
    BY <1>1, <1>3, <2>1, <2>2, <2>4, PetHowToOver DEF Placement
  <2> QED BY <1>3, <2>3, <2>4
<1>6. CASE name = "greeting"
  <2>1. Pages!Short(p) <=> (owner = 0 \/ (owner <= 9 /\ pet <= 11))
    BY <1>1, <1>6 DEF Pages!Short
  <2>2. Pages!Sheets(p, margin) = Pages!Greeting(owner, pet)
    BY <1>1, <1>6 DEF Pages!Sheets
  <2>3. CASE owner = 0 \/ (owner <= 9 /\ pet <= 11)
    BY <1>1, <1>2, <2>1, <2>2, <2>3, GreetingPage DEF Placement
  <2>4. CASE ~(owner = 0 \/ (owner <= 9 /\ pet <= 11))
    BY <1>1, <2>1, <2>2, <2>4, GreetingOver DEF Placement
  <2> QED BY <2>3, <2>4
<1> QED BY <1>4, <1>5, <1>6

\* The prompts, for any tool and any hint.
LEMMA PromptPages ==
  ASSUME NEW margin \in Insets, NEW name \in {"approval", "landscapeApproval"},
         NEW tool \in Nat \X {8, 12}, NEW rows \in 0..8,
         NEW p, p = Pages!Page(name, <<tool[1], tool[2], rows>>)
  PROVE  Placement(p, margin)
<1>1. /\ p.name = name /\ p.data[1] = tool[1] /\ p.data[2] = tool[2]
      /\ p.data[3] = rows /\ tool[1] \in Nat /\ tool[2] \in {8, 12}
  BY DEF Pages!Page
<1>2. Pages!Short(p) BY <1>1 DEF Pages!Short
<1>3. CASE name = "approval"
  <2>1. Space(p, margin) = Room(margin) BY <1>1, <1>3 DEF Space
  <2>2. Pages!Sheets(p, margin) =
        Pages!Approval(<<tool[1], tool[2]>>, rows, margin)
    BY <1>1, <1>3 DEF Pages!Sheets
  <2>3. FitsIn(Pages!Approval(<<tool[1], tool[2]>>, rows, margin), Room(margin))
    BY <1>1, ApprovalPage
  <2> QED BY <1>2, <2>1, <2>2, <2>3 DEF Placement
<1>4. CASE name = "landscapeApproval"
  <2>1. Space(p, margin) = LandscapeRoom(margin) BY <1>1, <1>4 DEF Space
  <2>2. Pages!Sheets(p, margin) = Pages!LandscapeApproval(<<tool[1], tool[2]>>,
                                                          rows, margin)
    BY <1>1, <1>4 DEF Pages!Sheets
  <2>3. FitsIn(Pages!LandscapeApproval(<<tool[1], tool[2]>>, rows, margin),
             LandscapeRoom(margin))
    BY <1>1, LandscapeApprovalPage
  <2> QED BY <1>2, <2>1, <2>2, <2>3 DEF Placement
<1> QED BY <1>3, <1>4

\* The dashboard, on any day.
LEMMA DashboardPages ==
  ASSUME NEW margin \in Insets, NEW weekday \in {3, 6, 7, 8, 9},
         NEW digits \in 1..3, NEW p, p =
             Pages!Page("dashboard", <<weekday, digits>>)
  PROVE  Placement(p, margin)
<1>1. p.name = "dashboard" /\ p.data[1] = weekday /\ p.data[2] = digits
  BY DEF Pages!Page
<1>2. Pages!Short(p) BY <1>1 DEF Pages!Short
<1>3. Space(p, margin) = Beside BY <1>1 DEF Space, Pages!OnDashboard
<1>4. Pages!Sheets(p, margin) = Pages!Dashboard(weekday, digits)
  BY <1>1 DEF Pages!Sheets
<1> QED BY <1>2, <1>3, <1>4, DashboardPage DEF Placement

\* Every page.
LEMMA PagesPlaced ==
  ASSUME Sizes, NEW p \in Pages!Pages, NEW margin \in Insets
  PROVE  Placement(p, margin)
<1> DEFINE wifiPage(state, ssid) == Pages!Page("wifiStatus", <<state, ssid>>)
           receivePage(state, version) == Pages!Page("receiveWindow",
                                                     <<state, version>>)
           cornerPage(landscape, version, percent) == Pages!Page("overlay",
               <<landscape, version, percent>>)
           devicePage(names, height) == Pages!Page("device",
                                                   <<names[1], height>>)
           fixed == {Pages!Page(name, << >>) :
              name \in {"menu", "settings", "reset", "about", "buttons",
                        "codex", "credits", "passkey", "installing", "face"}}
           link == {Pages!Page(name, <<n>>) :
              name \in {"wifiMenu", "bluetooth"}, n \in {0, 1}}
           wifi == {wifiPage(state, ssid) :
              state \in 1..4, ssid \in SsidCells}
           receive == {receivePage(state, version) :
              state \in 1..3, version \in VersionCells}
           corner == {cornerPage(landscape, version, percent) :
              landscape \in {0, 1}, version \in VersionCells, percent \in 2..4}
           device == {devicePage(names, height) :
              names \in NameCells, height \in {8, 12}}
           pets == {Pages!Page(name, names) :
              name \in {"pet", "petHowTo", "greeting"}, names \in NameCells}
           prompts == {Pages!Page(name, <<tool[1], tool[2], rows>>) :
              name \in {"approval", "landscapeApproval"}, tool \in ToolCells,
              rows \in HintRows}
           board == {Pages!Page("dashboard", <<weekday, digits>>) :
              weekday \in {3, 6, 7, 8, 9}, digits \in 1..3}
<1>0. p \in fixed \cup link \cup wifi \cup receive \cup corner \cup device
            \cup pets \cup prompts \cup board
  <2>1. p \in Pages!Pages OBVIOUS
  <2> QED BY <2>1, PTL DEF Pages!Pages
<1> HIDE DEF wifiPage, receivePage, cornerPage, devicePage
<1>1. CASE p \in fixed
  <2>1. \E name \in {"menu", "settings", "reset", "about", "buttons",
                     "codex", "credits", "passkey", "installing", "face"} :
          p = Pages!Page(name, << >>)
    BY <1>1
  <2> QED BY <2>1, FixedPages
<1>2. CASE p \in link
  <2>1. \E name \in {"wifiMenu", "bluetooth"}, n \in {0, 1} :
          p = Pages!Page(name, <<n>>)
    BY <1>2
  <2> QED BY <2>1, LinkPages
<1>3. CASE p \in wifi
  <2>1. \E state \in 1..4, ssid \in SsidCells :
          p = wifiPage(state, ssid)
    BY <1>3
  <2> QED BY <2>1, WifiPages DEF Sizes, wifiPage
<1>4. CASE p \in receive
  <2>1. \E state \in 1..3, version \in VersionCells :
          p = receivePage(state, version)
    BY <1>4
  <2> QED BY <2>1, ReceivePages DEF Sizes, receivePage
<1>5. CASE p \in corner
  <2>1. \E landscape \in {0, 1}, version \in VersionCells, percent \in 2..4 :
          p = cornerPage(landscape, version, percent)
    BY <1>5
  <2> QED BY <2>1, OverlayPages DEF Sizes, cornerPage
<1>6. CASE p \in device
  <2>1. \E names \in NameCells, height \in {8, 12} :
          p = devicePage(names, height)
    BY <1>6
  <2> QED BY <2>1, DevicePages DEF Sizes, devicePage
<1>7. CASE p \in pets
  <2>1. \E name \in {"pet", "petHowTo", "greeting"}, names \in NameCells :
          p = Pages!Page(name, names)
    BY <1>7
  <2> QED BY <2>1, NamePages DEF Sizes
<1>8. CASE p \in prompts
  <2>1. \E name \in {"approval", "landscapeApproval"}, tool \in ToolCells,
        rows \in HintRows :
          p = Pages!Page(name, <<tool[1], tool[2], rows>>)
    BY <1>8, SMTT(30)
  <2> QED BY <2>1, PromptPages DEF Sizes
<1>9. CASE p \in board
  <2>1. \E weekday \in {3, 6, 7, 8, 9}, digits \in 1..3 :
          p = Pages!Page("dashboard", <<weekday, digits>>)
    BY <1>9
  <2> QED BY <2>1, DashboardPages
<1> HIDE DEF fixed, link, wifi, receive, corner, device, pets, prompts, board
<1> QED BY <1>0, <1>1, <1>2, <1>3, <1>4, <1>5, <1>6, <1>7, <1>8, <1>9, Zenon

\* ---- The page and the meter

\* The room of a page lies above the meter.
LEMMA SpaceIs ==
  ASSUME NEW p, NEW margin \in Insets
  PROVE  /\ Space(p, margin) \in Boxes /\ Space(p, margin).y = 0
         /\ Pages!Inside(Space(p, margin), Pages!Surface(p))
         /\ Pages!OnDashboard(p) => Space(p, margin).h = 109
         /\ ~Pages!OnDashboard(p) =>
              \/ Space(p, margin).h = Pages!Surface(p).h - margin
              \/ Space(p, margin).h = Pages!Surface(p).h - 16
<1>1. margin \in Int /\ margin >= 0 BY DEF Insets
<1>2. CASE p.name = "approval"
  <2>1. ~Pages!OnDashboard(p) /\ ~Pages!Turned(p)
    BY <1>2 DEF Pages!OnDashboard, Pages!Turned
  <2>2. Pages!Surface(p) = Pages!Portrait BY <2>1 DEF Pages!Surface
  <2>3. Space(p, margin) = Room(margin) BY <1>2 DEF Space
  <2> QED
    BY <1>1, <2>1, <2>2, <2>3 DEF Room, Pages!Portrait, Pages!Box, Boxes,
       Pages!Inside
<1>3. CASE p.name = "landscapeApproval"
  <2>1. ~Pages!OnDashboard(p) /\ Pages!Turned(p)
    BY <1>3 DEF Pages!OnDashboard, Pages!Turned
  <2>2. Pages!Surface(p) = Pages!Landscape BY <2>1 DEF Pages!Surface
  <2>3. Space(p, margin) = LandscapeRoom(margin) BY <1>3 DEF Space
  <2> QED
    BY <1>1, <2>1, <2>2, <2>3 DEF LandscapeRoom, Pages!Landscape, Pages!Box,
       Boxes, Pages!Inside
<1>4. CASE p.name \notin {"approval", "landscapeApproval"}
      /\ Pages!OnDashboard(p)
  <2>1. Pages!Surface(p) = Pages!Landscape
    BY <1>4 DEF Pages!Surface, Pages!Turned
  <2>2. Space(p, margin) = Beside BY <1>4 DEF Space
  <2> QED
    BY <1>4, <2>1, <2>2 DEF Beside, Pages!Landscape, Pages!Box, Boxes,
       Pages!Inside
<1>5. CASE p.name \notin {"approval", "landscapeApproval"}
      /\ ~Pages!OnDashboard(p)
  <2>1. Pages!Surface(p) = Pages!Portrait
    BY <1>5 DEF Pages!Surface, Pages!Turned
  <2>2. Space(p, margin) = Above BY <1>5 DEF Space
  <2> QED
    BY <1>5, <2>1, <2>2 DEF Above, Pages!Portrait, Pages!Box, Boxes,
       Pages!Inside
<1> QED BY <1>2, <1>3, <1>4, <1>5

\* How much room a meter takes.
LEMMA InsetIs ==
  ASSUME NEW state PROVE Pages!FooterInset(state) \in Insets
BY DEF Pages!FooterInset, Pages!Footprint, Insets

\* A line above the meter and a bar of it lie beside each other.
LEMMA LineAndBar ==
  ASSUME NEW p, NEW state, NEW b \in Bands(state, p), NEW line \in Boxes,
         Pages!Inside(line, Space(p, Pages!FooterInset(state)))
  PROVE  Pages!Tidy(Pages!Sheet(Pages!Surface(p), <<b, line>>))
<1> DEFINE space == Space(p, Pages!FooterInset(state))
           s == Pages!Surface(p)
<1>1. Pages!FooterInset(state) \in Insets BY InsetIs
<1>2. /\ space \in Boxes /\ space.y = 0 /\ Pages!Inside(space, s)
      /\ Pages!OnDashboard(p) => space.h = 109
      /\ ~Pages!OnDashboard(p) =>
           \/ space.h = s.h - Pages!FooterInset(state) \/ space.h = s.h - 16
  BY <1>1, SpaceIs
<1>3. s \in Boxes
  BY SurfaceIs DEF Pages!Portrait, Pages!Landscape, Pages!Box, Boxes
<1>4. /\ b \in Boxes /\ Pages!Inside(b, s)
      /\ Pages!OnDashboard(p) => b.y = 109
      /\ ~Pages!OnDashboard(p) => b.y >= s.h - Pages!FooterInset(state)
           /\ b.y >= s.h - 16
  BY BandIs
<1>5. space.h <= b.y
  BY <1>2, <1>3, <1>4 DEF Boxes
<1> HIDE DEF space, s
<1>6. Pages!Inside(line, s) BY <1>2, <1>3, InsideIn DEF space
<1>7. Pages!Inside(line, space) BY DEF space
<1>8. Pages!Apart(b, line)
  BY <1>2, <1>4, <1>5, <1>7 DEF Pages!Apart, Pages!Inside, Boxes
<1> DEFINE both == <<b, line>>
<1>9. both \in Seq(Boxes) /\ Len(both) = 2 /\ both[1] = b /\ both[2] = line
  BY <1>4
<1> HIDE DEF both
<1>10. \A i \in 1..Len(both) : Pages!Inside(both[i], s) BY <1>4, <1>6, <1>9
<1>11. \A i, j \in 1..Len(both) : i < j => Pages!Apart(both[i], both[j])
  BY <1>8, <1>9
<1>12. Neat(both, s) BY <1>9, <1>10, <1>11, NeatBy
<1> QED BY <1>12 DEF Neat, both, s

\* Every page, with its meter.
LEMMA AllInPlace ==
  ASSUME Sizes, MeterInv PROVE Pages!EverythingInPlace
<1> DEFINE lines == UNION {{s.lines[i] : i \in DOMAIN s.lines} :
                             s \in Pages!Sheets(page, inset)}
           whole == {Pages!Sheet(Pages!Surface(page), <<b, line>>) :
                       b \in DOMAIN ink, line \in lines}
<1>1. /\ usage \in Reported /\ page \in Pages!Pages
      /\ age > 0 => ink = Pages!Plan(usage, page)
      /\ Fresh(page) => inset = Pages!FooterInset(usage)
  BY DEF MeterInv
<1> HIDE DEF lines, whole
<1>2. ASSUME age = 2 \/ (age = 1 /\ page.name # "landscapeApproval")
      PROVE  (\A s \in Pages!Sheets(page, inset) \cup whole :
              Pages!Tidy(s)) <=> Pages!Short(page)
  <2>1. inset = Pages!FooterInset(usage) /\ ink = Pages!Plan(usage, page)
    BY <1>1, <1>2 DEF Fresh
  <2>2. inset \in Insets BY <2>1, InsetIs
  <2>3. Placement(page, inset) BY <1>1, <2>2, PagesPlaced
  <2>4. CASE ~Pages!Short(page) BY <2>3, <2>4 DEF Placement
  <2>5. CASE Pages!Short(page)
    <3>1. FitsIn(Pages!Sheets(page, inset), Space(page, inset))
      BY <2>3, <2>5 DEF Placement
    <3>2. ASSUME NEW s \in Pages!Sheets(page, inset)
          PROVE  /\ s.lines \in Seq(Boxes)
                 /\ Pages!Tidy(Pages!Sheet(s.frame, s.lines))
                 /\ \A i \in 1..Len(s.lines) :
                      Pages!Inside(s.lines[i], Space(page, inset))
      BY <3>1 DEF FitsIn, Neat
    <3>3. ASSUME NEW s \in Pages!Sheets(page, inset) PROVE Pages!Tidy(s)
      <4>1. Pages!Tidy(Pages!Sheet(s.frame, s.lines)) BY <3>2
      <4> QED BY <4>1 DEF Pages!Tidy, Pages!Sheet
    <3>4. ASSUME NEW line \in lines
          PROVE  line \in Boxes /\ Pages!Inside(line, Space(page, inset))
      <4>1. PICK s \in Pages!Sheets(page, inset) :
              line \in {s.lines[i] : i \in DOMAIN s.lines}
        BY DEF lines
      <4>2. PICK i \in DOMAIN s.lines : line = s.lines[i] BY <4>1
      <4>3. i \in 1..Len(s.lines) BY <3>2
      <4> QED BY <3>2, <4>2, <4>3
    <3>5. DOMAIN ink = Bands(usage, page) BY <2>1, PlanIs
    <3>6. ASSUME NEW b \in DOMAIN ink, NEW line \in lines
          PROVE  Pages!Tidy(Pages!Sheet(Pages!Surface(page), <<b, line>>))
      BY <2>1, <3>4, <3>5, <3>6, LineAndBar
    <3>7. ASSUME NEW s \in whole PROVE Pages!Tidy(s)
      <4>1. PICK b \in DOMAIN ink, line \in lines :
              s = Pages!Sheet(Pages!Surface(page), <<b, line>>)
        BY DEF whole
      <4> QED BY <3>6, <4>1
    <3> QED BY <2>5, <3>3, <3>7
  <2> QED BY <2>4, <2>5
<1> QED BY <1>1, <1>2, PTL DEF Pages!EverythingInPlace, lines, whole

------------------------------------------------------------------------------
\* ---- Among the parts of the device

\* A device's progress and Wi-Fi do what they may do alone.
LEMMA StoresFollowed == Spec => StatsSpec /\ WifiSpec
<1>1. Init => StatsInit /\ WifiInit
  BY Zenon DEF Init, NoStats, NoWifi
<1>2. [Next]_vars => [StatsNext]_statsVars
  BY DEF Next, vars
<1>3. [Next]_vars => [WifiNext]_wifiVars
  BY DEF Next, vars
<1> QED
  BY <1>1, <1>2, <1>3, PTL DEF Spec, StatsSpec, WifiSpec

\* On the device, whenever power is lost, and whenever the host starts again,
\* no token counts twice, and less than a level is lost besides the message
\* that is being handled (stats.h).
THEOREM DeviceIsHonest == Spec => []ProgressHonest
<1>1. LevelsAssumption BY PartsAssumption DEF LevelsAssumption
<1>2. StatsSpec => []ProgressHonest BY <1>1, ProgressIsHonest
<1> QED BY <1>2, StoresFollowed, PTL

\* On the device, whatever is interrupted and whichever write fails, a restart
\* finds what was saved last or is just being saved, and nothing that never
\* worked; what is online is what was saved (wifi_manager.cpp).
THEOREM DeviceCredentialsWhole == Spec => []CredentialsWhole
<1>1. NetworksAssumption
  BY PartsAssumption DEF NetworksAssumption, Credentials
<1>2. WifiSpec => []CredentialsWhole BY <1>1, CredentialsAreWhole
<1> QED BY <1>2, StoresFollowed, PTL

\* No step of the meter takes the bars or the room of the page from it.
LEMMA MeterSteps ==
  ASSUME MeterInv, None \notin Reported, Pages!Next
  PROVE  MeterInv'
<1>1. CASE \E five, seven \in Percents \cup {None} :
             Pages!Report(five, seven)
  BY <1>1, MeterReports
<1>2. CASE \E p \in Pages!Pages : Pages!Show(p)
  BY <1>2, MeterShows
<1>3. CASE \E second \in BOOLEAN : Pages!Pass(second)
  BY <1>3, MeterPasses
<1> QED BY <1>1, <1>2, <1>3 DEF Pages!Next

\* On the device, whatever was reported and shown before, a pass leaves the
\* meter of the last good report and nothing of an earlier one; and a second
\* later at most nothing on any page leaves its frame or lies on something
\* else, unless a text is longer than the screen has room for, and then
\* something does (usage_meter_logic.h, and the pages of main.cpp).
THEOREM DevicePagesInPlace == Spec => []EverythingInPlace
<1> DEFINE Inv == part = "pages" => MeterInv
<1>1. None \notin Reported BY PartsAssumption DEF Reported
<1>2. Sizes BY PartsAssumption DEF Sizes
<1>3. Init => Inv
  <2> SUFFICES ASSUME Init, part = "pages" PROVE MeterInv
    OBVIOUS
  <2>1. Pages!Init BY DEF Init
  <2> QED BY <1>1, <2>1, MeterStart
<1>4. Inv /\ [Next]_vars => Inv'
  <2> SUFFICES ASSUME Inv, [Next]_vars, part' = "pages" PROVE MeterInv'
    OBVIOUS
  <2>1. part = "pages" BY DEF Next, vars
  <2>2. MeterInv BY <2>1
  <2>3. CASE Pages!Next BY <1>1, <2>2, <2>3, MeterSteps
  <2>4. CASE UNCHANGED Pages!vars BY <2>2, <2>4, MeterStutters
  <2>5. Pages!Next \/ UNCHANGED Pages!vars
    BY <2>1 DEF Next, vars, pageVars, Pages!vars
  <2> QED BY <2>3, <2>4, <2>5
<1>5. Inv => EverythingInPlace BY <1>2, AllInPlace DEF EverythingInPlace
<1> HIDE DEF Inv
<1> QED BY <1>3, <1>4, <1>5, PTL DEF Spec
=============================================================================
