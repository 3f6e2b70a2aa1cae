SPECIFICATION FairSpec
CONSTANTS
  BindingPairs = {p1}
  Callbacks = {r}
  NoCallback = NoCallback
  Reentrant = {r}
  Subscribers = {s1}
  Strays = {}
  Modes = {}
  Careful = FALSE
  MaxMessages = 1
  MaxNames = 1
  Refusals = FALSE
  Garbage = Garbage
PROPERTY ConsumptionGoesOn
CHECK_DEADLOCK FALSE
