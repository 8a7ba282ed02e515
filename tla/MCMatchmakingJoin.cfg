SPECIFICATION Spec
CONSTANTS
  a = a
  b = b
  c = c
  Players <- MCPlayers
  Cancellers <- MCPlayers
  PlayersPerMatch = 2
  MaxMatches = 2
CHECK_DEADLOCK FALSE
INVARIANT JoinedSessionIsInRoom
