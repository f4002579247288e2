SPECIFICATION FairSpec
CONSTANTS
  BufSize = 3
  SourceLen = 5
  DstSizes = {1, 2, 3}
  CodecBufferSize = 2
  Need = 2
  Refusals <- EmptyRefusal
  OutLimit = 3
INVARIANTS
  TypeOK
  ShownInOrder
  FinishOnlyAtEnd
  EndMeansEnd
  Inductive
PROPERTIES
  ImplementsByteStream
  FinishIsSticky
  Drains
CHECK_DEADLOCK FALSE
