SPECIFICATION Spec
CONSTANTS
  Pools = {p1, p2, p3}
  Sources = {"logs", "geckoterminal"}
  PendingCap = 1
  MaxAttempts = 2
  ListedCap = 1
  RetryDelays <- MCRetryDelays
  ChannelCap = 1
  EmittedCap = 2
  Pages = 2
  PollEvery = 1
  MaxAge = 2
  MaxBackoff = 2
  Reads = 2
  GapWindow = 2
  SilenceLimit = 2
  MaxTime = 4
SYMMETRY PoolSymmetry
CHECK_DEADLOCK FALSE
INVARIANT ReadyMeansCovered
PROPERTY PatientReads
