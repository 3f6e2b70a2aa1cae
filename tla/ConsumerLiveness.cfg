SPECIFICATION FairSpec
CONSTANTS
  Subscribers = {s1}
  Controllers = {c1}
  Exchanges = {e1, e2}
  Predeclared = {e1}
  Key = Key
  BindingPairs <- PairPerExchange
  Operations <- Restarts
  MaxFaults = 1
  FaultReplies <- ClosedByBroker
PROPERTY StopReturns
PROPERTY ReachesConsumption
