SPECIFICATION Spec
CHECK_DEADLOCK FALSE
INVARIANT FlagsMatchCaptors
INVARIANT OneResultPerMatch
INVARIANT ClearedRunIsDelivered
