SPECIFICATION Spec
CONSTANTS
  Senders = {s1, s2}
  Controllers = {c1}
  NoExchange = NoExchange
  Exchanges = {e1, e2}
  Predeclared = {}
  Operations <- Restarts
  MaxSends = 2
  MaxFaults = 1
  FaultReplies <- KnownFaults
  InitFirst = TRUE
  DeclareFirst = FALSE
INVARIANT TypeOK
INVARIANT ChannelOwnership
INVARIANT ConnectionUsable
INVARIANT CloseExclusive
INVARIANT StoppedClean
PROPERTY FlagSound
SYMMETRY Symmetry
