SPECIFICATION Spec
CONSTANTS
  Objects = {m1, m2}
  NoMessage = NoMessage
  Texts = {a}
  NoText = NoText
  Times = {2}
  NoTime = 0
  Now = 1
  StringFlags = {"reply_to"}
  Foreign <- OneForeign
  MaxAllocs = 3
  Care = {"copy", "send", "assign", "string"}
INVARIANT HeadersKept
SYMMETRY Symmetry
CHECK_DEADLOCK FALSE
