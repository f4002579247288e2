SPECIFICATION Spec
CONSTANTS
  BufSize = 2
  SourceLen = 4
  DstSizes = {2}
  CodecBufferSize = 2
  Need = 3
  Refusals <- EmptyRefusal
  OutLimit = 2
INVARIANT TooLowIsAnError
CHECK_DEADLOCK FALSE
