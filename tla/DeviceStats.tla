---------------------------- MODULE DeviceStats ----------------------------
\* The pet's progress (src/firmware/src/stats.h): tokens that the host reports
\* as a running total since it started, counted in memory and put into flash
\* only now and then, one key after the other.
EXTENDS Naturals, Sequences

CONSTANTS
  TokensPerLevel,               \* 50,000 on the device
  LevelWidth,                   \* levels are kept in 8 bits: 256
  MaxEarned,                    \* the bound: tokens the hosts produce
  MaxDelta                      \* the bound: tokens between two heartbeats

VARIABLES
  bridgeTotal,                  \* what the host has counted since its start
  earned,                       \* what all hosts together have produced
  lastBridgeTokens, tokensSynced,
  tokens, level,                \* _stats
  dirty,                        \* _dirty
  stored,                       \* "lvl" and "tok" in flash
  unsaved,                      \* keys that statsSave still has to put
  credited                      \* tokens of the message that is being handled

statsVars ==
  <<bridgeTotal, earned, lastBridgeTokens, tokensSynced, tokens, level, dirty,
    stored, unsaved, credited>>

LevelOf(n) == (n \div TokensPerLevel) % LevelWidth

StatsInit ==
  /\ bridgeTotal = 0 /\ earned = 0
  /\ lastBridgeTokens = 0 /\ tokensSynced = FALSE
  /\ tokens = 0 /\ level = 0
  /\ dirty = FALSE
  /\ stored = [lvl |-> 0, tok |-> 0]
  /\ unsaved = <<>>
  /\ credited = 0

\* statsLoad: tokens that are missing are made up from the level.
Loaded ==
  IF stored.tok = 0 THEN stored.lvl * TokensPerLevel ELSE stored.tok

\* statsSave puts its keys in this order.  The counters of approvals, denials
\* and naps before them, and the response times after them, are left out.
SaveOrder == <<"lvl", "tok">>

NotSaving == unsaved = <<>>

\* The host produces tokens, and starts again from nothing.
Produce(n) ==
  /\ earned + n <= MaxEarned
  /\ bridgeTotal' = bridgeTotal + n
  /\ earned' = earned + n
  /\ UNCHANGED <<lastBridgeTokens, tokensSynced, tokens, level, dirty, stored,
                 unsaved, credited>>
BridgeRestart ==
  /\ bridgeTotal' = 0
  /\ UNCHANGED <<earned, lastBridgeTokens, tokensSynced, tokens, level, dirty,
                 stored, unsaved, credited>>

\* A mutant: the first total after a start counts like any other.
DeltaAtOnce ==
  IF bridgeTotal >= lastBridgeTokens THEN bridgeTotal - lastBridgeTokens ELSE 0

\* The first total after a start is only remembered, and so is one below the
\* last; any other adds what is new, and is saved when it makes a level.
Delta ==
  IF tokensSynced /\ bridgeTotal >= lastBridgeTokens
  THEN bridgeTotal - lastBridgeTokens ELSE 0
LevelUp == LevelOf(tokens + Delta) > LevelOf(tokens)
OnBridgeTokens ==
  /\ NotSaving
  /\ lastBridgeTokens' = bridgeTotal
  /\ tokensSynced' = TRUE
  /\ tokens' = tokens + Delta
  /\ level' = IF LevelUp THEN LevelOf(tokens + Delta) ELSE level
  /\ dirty' = (dirty \/ LevelUp)
  /\ unsaved' = IF LevelUp THEN SaveOrder ELSE <<>>
  /\ credited' = IF LevelUp THEN Delta ELSE 0
  /\ UNCHANGED <<bridgeTotal, earned, stored>>

\* An approval, a denial or the end of a nap: counted, and saved at once.
Decision ==
  /\ NotSaving
  /\ dirty' = TRUE
  /\ unsaved' = SaveOrder
  /\ UNCHANGED <<bridgeTotal, earned, lastBridgeTokens, tokensSynced, tokens,
                 level, stored, credited>>

Save ==
  /\ ~NotSaving
  /\ dirty
  /\ stored' = [stored EXCEPT ![Head(unsaved)] =
                  IF Head(unsaved) = "lvl" THEN level ELSE tokens]
  /\ unsaved' = Tail(unsaved)
  /\ dirty' = (Len(unsaved) > 1)
  /\ credited' = IF Len(unsaved) > 1 THEN credited ELSE 0
  /\ UNCHANGED <<bridgeTotal, earned, lastBridgeTokens, tokensSynced, tokens,
                 level>>

\* The device loses power, at any moment, and loads what it has stored.
Restart ==
  /\ tokens' = Loaded
  /\ level' = stored.lvl
  /\ lastBridgeTokens' = 0 /\ tokensSynced' = FALSE
  /\ dirty' = FALSE /\ unsaved' = <<>> /\ credited' = 0
  /\ UNCHANGED <<bridgeTotal, earned, stored>>

StatsNext ==
  \/ \E n \in 1..MaxDelta : Produce(n)
  \/ BridgeRestart \/ OnBridgeTokens \/ Decision \/ Save \/ Restart

\* Whenever power is lost and whenever the host starts again, no token counts
\* twice, and (up to the level that no longer fits its byte) less than a level
\* is lost besides the message that is being handled.
ProgressHonest ==
  /\ tokens <= earned /\ Loaded <= earned
  /\ tokens < LevelWidth * TokensPerLevel =>
       tokens - credited < Loaded + TokensPerLevel

StatsSpec == StatsInit /\ [][StatsNext]_statsVars
=============================================================================
