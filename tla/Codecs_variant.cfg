SPECIFICATION Spec
CONSTANTS
  Chains <- Variants
  BufSizes = {8}
  CopySize = 2
  SourceLimit = 4
  Sources <- BlockSources
  Start <- MCStart
  BufferSize <- MCBufferSize
  Transform <- MCTransform
  Meaning <- MCMeaning
INVARIANTS
  RoundTrips
CHECK_DEADLOCK FALSE
