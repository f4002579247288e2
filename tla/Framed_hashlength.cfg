SPECIFICATION Spec
CONSTANTS
  Chains <- OddLengths
  BufSizes = {12}
  CopySize = 2
  SourceLimit = 4
  UuLine = 6
  HashByte <- Mix
  Sources <- CountingSources
  Start <- MCStart
  BufferSize <- MCBufferSize
  Transform <- MCTransform
  Meaning <- MCMeaning
INVARIANTS
  WritesTheMeaning
CHECK_DEADLOCK FALSE
