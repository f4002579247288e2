SPECIFICATION Spec
CONSTANTS
  Chains <- CrlfAlone
  BufSizes = {4}
  CopySize = 2
  SourceLimit = 5
  Sources <- ShortSources
  Start <- NewlineStart
  BufferSize <- NewlineBufferSize
  Transform <- NewlineTransform
  Meaning <- NewlineMeaning
INVARIANTS
  WritesTheMeaning
CHECK_DEADLOCK FALSE
