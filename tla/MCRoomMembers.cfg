SPECIFICATION Spec
CONSTANTS
  p1 = p1
  p2 = p2
  sword = sword
  s1 = s1
  s2 = s2
  c1 = c1
  c2 = c2
  NoItem = NoItem
  NoOffer = NoOffer
  NoBinding = NoBinding
  Players <- MCPlayers
  Items <- MCItems
  Sessions <- MCSessions
  Callers <- MCCallers
  Capacity = 2
  MaxOptions = 1
  MaxMonsters = 1
  RewardTicks = 1
  Requests <- MembershipRequests
  MaxStage = 1
  MaxSeq = 1
  MaxPending = 2
  ControlCapacity = 2
  InputCapacity = 1
  EventCapacity = 1
  ControlsPerTick = 2
  InputsPerTick = 1
  MaxGeneration = 3
SYMMETRY CallerSymmetry
CHECK_DEADLOCK FALSE
INVARIANT MembersMatchPlayers
INVARIANT IdleOnlyWhenEmpty
INVARIANT InputsOfCurrentBinding
INVARIANT OneAnswerPerCommand
