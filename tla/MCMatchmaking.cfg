SPECIFICATION Spec
CONSTANTS
  a = a
  b = b
  c = c
  Players <- MCPlayers
  Cancellers = {a}
  PlayersPerMatch = 2
  MaxMatches = 2
CHECK_DEADLOCK FALSE
SYMMETRY BCSymmetry
INVARIANT PlayerInOneRoom
INVARIANT SettledRoomHoldsItsPlayers
INVARIANT QueueMatchesWaiting
INVARIANT NobodyForgotten
