SPECIFICATION FairSpec
CONSTANTS
  Chains <- NewlineChains
  BufSizes = {4}
  CopySize = 8
  SourceLimit = 5
  Sources <- ShortSources
  Start <- NewlineStart
  BufferSize <- NewlineBufferSize
  Transform <- NewlineTransform
  Meaning <- NewlineMeaning
INVARIANTS
  Streams
  Balance
  TypeOK
  KeepsContract
  WritesTheMeaning
  NoFalseAlarm
PROPERTIES
  ImplementsDelivery
  Drains
CHECK_DEADLOCK FALSE
