SPECIFICATION FairSpec
CONSTANTS
  p1 = p1
  p2 = p2
  sword = sword
  s1 = s1
  s2 = s2
  c1 = c1
  c2 = c2
  NoItem = NoItem
  NoOffer = NoOffer
  NoBinding = NoBinding
  Players <- MCPlayers
  Items <- MCItems
  Sessions <- MCSessions
  Callers <- OneCaller
  Capacity = 2
  MaxOptions = 1
  MaxMonsters = 1
  RewardTicks = 1
  Requests <- RunRequests
  MaxStage = 2
  MaxSeq = 1
  MaxPending = 2
  ControlCapacity = 1
  InputCapacity = 1
  EventCapacity = 1
  ControlsPerTick = 1
  InputsPerTick = 1
  MaxGeneration = 1
CHECK_DEADLOCK FALSE
INVARIANT NoStageEventLost
INVARIANT StageEventsInOrder
PROPERTY CommandsAreServed
PROPERTY EmptyRoomCloses
PROPERTY CancelledRoomEnds
