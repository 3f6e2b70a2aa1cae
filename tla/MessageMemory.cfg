SPECIFICATION Spec
CONSTANTS
  Objects = {m1, m2, m3}
  NoMessage = NoMessage
  Texts = {a}
  NoText = NoText
  Times = {2}
  NoTime = 0
  Now = 1
  StringFlags = {"reply_to"}
  Foreign <- OneForeign
  MaxAllocs = 4
  Care = {"copy", "send", "assign", "string", "headers"}
INVARIANT TypeOK
INVARIANT OneOwner
INVARIANT NoDangling
INVARIANT NoUndefined
INVARIANT CarriesWhatWasSent
PROPERTY OnlySetPayloadLeaks
SYMMETRY Symmetry

CHECK_DEADLOCK FALSE
