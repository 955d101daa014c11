SPECIFICATION FairSpec
CONSTANTS
  Paths = {a, b}
  a = a
  b = b
  Sessions <- MCSessions
  Sizes <- MCSizes
  LocalSize <- MCLocalSize
  Ends <- MCEnds
  Wrap = 128
  MaxPort = 9
  BufferSize = 2
  Pids = {2, 3, 4}
  MaxTyped = 1
  MaxPending = 2
  None = None
INVARIANTS
  TypeOK
  FetchAllOrNothing
  CopiedOrFailed
  DescriptorsClosed
  DialsWhatWasTyped
  ReportsOwnProgram
  CountsReplies
PROPERTIES
  RelayDrains
  PromptReturns
