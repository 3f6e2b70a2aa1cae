SPECIFICATION FairSpec
CONSTANTS
  Senders = {s1}
  Controllers = {c1}
  NoExchange = NoExchange
  Exchanges = {e1, e2}
  Predeclared = {}
  Operations <- AllOperations
  MaxSends = 2
  MaxFaults = 0
  FaultReplies <- KnownFaults
  InitFirst = TRUE
  DeclareFirst = TRUE
PROPERTY PublishDelivered
PROPERTY Delivered
