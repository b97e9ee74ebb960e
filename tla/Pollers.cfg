\* Tie groups cut by the batch bound, failing rows, a restart; two replicas
\* that drain three events in batches of two, with two failing drains.
SPECIFICATION PollersSpec
CONSTANTS
  Stamps = {1, 2}
  Mmsis = {1, 2}
  TicksPerSecond = 1
  BatchSize = 2
  InOrder = TRUE
  WindowOutlivesRetry = FALSE
  MaxPollFaults = 2
  MaxRestarts = 1
  Publishers = {p, q}
  OutboxSize = 3
  DrainBatch = 2
  MaxDrainFaults = 2
INVARIANTS
  StoredOncePerReplay
  DuplicatesAreRollbacks
PROPERTIES
  EventuallyStored
  EventuallyPublished
CHECK_DEADLOCK FALSE
