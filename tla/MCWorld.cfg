SPECIFICATION WorldFairSpec
CONSTANTS
  p1 = p1
  p2 = p2
  sword = sword
  potion = potion
  NoItem = NoItem
  NoOffer = NoOffer
  Players <- MCPlayers
  Items <- MCItems
  Capacity = 2
  MaxOptions = 2
  MaxStage = 2
  MaxMonsters = 2
  RewardTicks = 1
  MaxSeq = 1
  MaxPending = 2
PROPERTY StagesImplemented
INVARIANT RoundMatchesPlayers
INVARIANT OneItemPerClearedStage
INVARIANT ClearedHistoryIsContiguous
INVARIANT ResultListsRoster
INVARIANT NoChoiceExpires
PROPERTY DefeatTakesPrecedence
PROPERTY RewardRoundEnds
