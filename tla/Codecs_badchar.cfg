SPECIFICATION Spec
CONSTANTS
  Chains <- StrictBase64
  BufSizes = {4}
  CopySize = 2
  SourceLimit = 4
  Sources <- Base64Texts
  Start <- MCStart
  BufferSize <- MCBufferSize
  Transform <- MCTransform
  Meaning <- MCMeaning
INVARIANTS
  RejectsMalformed
CHECK_DEADLOCK FALSE
