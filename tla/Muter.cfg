SPECIFICATION FairSpec
CONSTANTS
  Lines <- MCLines
  Usize <- MCUsize
  Wide = {"wide"}
  Cuts = {1, 2}
  TextLimit = 4
  Meaning <- MCMeaning
INVARIANTS
  TypeOK
  AllOrNothing
  TruthfulStatus
  LosesOnlyTheLastLine
  ReverseMirrors
  SameSyntax
  ReverseUndoes
PROPERTIES
  ImplementsInvocation
  Exits
CHECK_DEADLOCK FALSE
