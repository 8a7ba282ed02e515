SPECIFICATION FairSpec
CONSTANTS
  a = a
  b = b
  Players <- MCPlayers
  Leavers <- MCLeavers
  Emits <- MCEmits
  MaxRooms = 3
  MaxEvents = 4
  MaxDeferred = 1
CHECK_DEADLOCK FALSE
INVARIANT MatchFoundFirst
INVARIANT TeamStaysTogether
INVARIANT RematchingIsOwned
PROPERTY NobodyStaysBehind
