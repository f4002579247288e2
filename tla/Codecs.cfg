SPECIFICATION Spec
CONSTANTS
  Chains <- MCChains
  BufSizes = {8, 9}
  CopySize = 2
  SourceLimit = 12
  Sources <- MCSources
  Start <- MCStart
  BufferSize <- MCBufferSize
  Transform <- MCTransform
  Meaning <- MCMeaning
INVARIANTS
  Streams
  KeepsContract
  WritesTheMeaning
  NoFalseAlarm
  RoundTrips
  RejectsMalformed
CHECK_DEADLOCK FALSE
