SPECIFICATION FairSpec
CONSTANTS
  Senders = {s1}
  Controllers = {c1}
  NoExchange = NoExchange
  Exchanges = {e1}
  Predeclared = {}
  Operations <- StartOnly
  MaxSends = 1
  MaxFaults = 1
  FaultReplies <- KnownFaults
  InitFirst = TRUE
  DeclareFirst = TRUE
PROPERTY Recovers
