SPECIFICATION Spec
CONSTANTS
  Chains <- Ascii85Alone
  BufSizes = {16}
  CopySize = 2
  SourceLimit = 16
  UuLine = 6
  HashByte <- Mix
  Sources <- CountingSources
  Start <- MCStart
  BufferSize <- MCBufferSize
  Transform <- MCTransform
  Meaning <- MCMeaning
INVARIANTS
  NoFalseAlarm
CHECK_DEADLOCK FALSE
