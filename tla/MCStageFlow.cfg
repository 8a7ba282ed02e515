SPECIFICATION FairSpec
CONSTANTS
  a = a
  b = b
  Nothing = Nothing
  Players <- MCPlayers
  Bots <- MCPlayers
  Leavers <- MCLeavers
  Played <- MCPlayed
  MaxStage = 3
  TargetStages = 3
  Lagging = FALSE
CHECK_DEADLOCK FALSE
INVARIANT BotsNeverErr
INVARIANT OneDecisionPerStage
INVARIANT SessionsFollowTheRoom
PROPERTY NobodyIsRushed
PROPERTY ClearedStageLeadsOn
