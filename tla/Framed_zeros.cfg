SPECIFICATION Spec
CONSTANTS
  Chains <- ManyZeros
  BufSizes = {12}
  CopySize = 2
  SourceLimit = 24
  UuLine = 6
  HashByte <- Mix
  Sources <- ZeroSources
  Start <- MCStart
  BufferSize <- MCBufferSize
  Transform <- MCTransform
  Meaning <- MCMeaning
INVARIANTS
  RoundTrips
CHECK_DEADLOCK FALSE
