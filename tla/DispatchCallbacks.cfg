SPECIFICATION FairSpec
CONSTANTS
  BindingPairs = {p1}
  Callbacks = {f, r}
  NoCallback = NoCallback
  Reentrant = {r}
  Subscribers = {s1, s2}
  Strays = {p3}
  Modes = {TRUE, FALSE}
  Careful = TRUE
  MaxMessages = 2
  MaxNames = 2
  Refusals = TRUE
  Garbage = Garbage
INVARIANT TypeOK
INVARIANT ReplacedNeverRuns
INVARIANT ArrivalOrder
INVARIANT HandledOnce
INVARIANT NamesOwned
PROPERTY SubscribeReturns
PROPERTY EveryMessageHandled
