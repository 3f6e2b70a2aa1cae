SPECIFICATION Spec
CONSTANTS
  Subscribers = {s1, s2}
  Controllers = {c1}
  Exchanges = {e1, e2}
  Predeclared = {e1}
  Key = Key
  BindingPairs <- PairPerExchange
  Operations <- StopsAndDestroys
  MaxFaults = 1
  FaultReplies <- LinkFaults
INVARIANT TypeOK
INVARIANT OneChannelPerPair
INVARIANT HandleLive
INVARIANT NoTerminate
INVARIANT CloseExclusive
INVARIANT OnlyStopEmpties
INVARIANT StoppedClean
INVARIANT DefaultsOnlyWhileSubscribing
INVARIANT NoSubscriptionLost
SYMMETRY Symmetry
