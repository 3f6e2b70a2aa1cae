SPECIFICATION Spec
CONSTANTS
  Subscribers = {s1}
  Controllers = {c1}
  Exchanges = {e1}
  Predeclared = {}
  Key = Key
  BindingPairs <- PairPerExchange
  Operations <- StartOnly
  MaxFaults = 0
  FaultReplies <- LinkFaults
PROPERTY KeepsConnection
