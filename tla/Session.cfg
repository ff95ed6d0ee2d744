CONSTANTS
  QueueCapacity = 1
  StdinCapacity = 1
  StdoutCapacity = 2
  OpenSize = 1
  MaxRequests = 2
  MaxMessages = 3
  MaxStderr = 0
  MaxOutput = 3
  MaxFrames = 3
  MaxDisturbances = 1
SPECIFICATION FairSpec
CHECK_DEADLOCK FALSE
INVARIANT NothingIsLeft
PROPERTY FactsAreSound
PROPERTY EndsUnlessHeld
