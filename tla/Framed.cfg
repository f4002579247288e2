SPECIFICATION Spec
CONSTANTS
  Chains <- FramedChains
  BufSizes = {12, 13}
  CopySize = 2
  SourceLimit = 16
  UuLine = 6
  HashByte <- Mix
  Sources <- FramedSources
  Start <- MCStart
  BufferSize <- MCBufferSize
  Transform <- MCTransform
  Meaning <- MCMeaning
INVARIANTS
  Streams
  KeepsContract
  WritesTheMeaning
  NoFalseAlarm
  RoundTrips
  RejectsMalformed
PROPERTIES
  ImplementsDelivery
CHECK_DEADLOCK FALSE
