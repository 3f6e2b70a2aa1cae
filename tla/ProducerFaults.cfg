SPECIFICATION FairSpec
CONSTANTS
  Senders = {s1}
  Controllers = {c1}
  NoExchange = NoExchange
  Exchanges = {e1}
  Predeclared = {}
  Operations <- AllOperations
  MaxSends = 3
  MaxFaults = 2
  FaultReplies <- KnownFaults
  InitFirst = TRUE
  DeclareFirst = FALSE
INVARIANT NoCrash
INVARIANT InOrder
PROPERTY ImplementsOutbox
PROPERTY StopReturns
PROPERTY Drained
