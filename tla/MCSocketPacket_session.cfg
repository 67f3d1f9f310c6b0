SPECIFICATION FairSpec
CONSTANTS
  Full = 2
  Lengths = {1, 2, 4, 5}
  BlankLimit = 3
  MaxAnswer = 2
  MaxCalls = 2
INVARIANTS
  TypeOK
  SequenceKept
PROPERTIES
  ImplementsRequestReply
  CallReturns
