CONSTANTS
  MaxTime = 7
  Times <- MCTimes
  Durations <- MCDurations
  Bucket <- MCBucket
  Settings <- MCSettings
SPECIFICATION Spec
INVARIANT OldEntriesExact
INVARIANT NothingPromisedLost
INVARIANT OneTagPerBucket
PROPERTY ImplementsPolicy
CHECK_DEADLOCK FALSE
