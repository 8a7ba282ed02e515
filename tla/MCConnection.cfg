SPECIFICATION FairSpec
CONSTANTS
  a = a
  b = b
  Nothing = Nothing
  Senders <- MCSenders
  OutCapacity = 2
  MaxFrames = 3
  MaxSnapshots = 2
CHECK_DEADLOCK FALSE
INVARIANT NoSendOnClosedQueue
INVARIANT FramesInOrder
INVARIANT FlushDeliversAll
INVARIANT LatestSnapshotIsKept
PROPERTY EndedConnectionReleases
