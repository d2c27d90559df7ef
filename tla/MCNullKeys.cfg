SPECIFICATION Spec
CONSTANTS
  Clients = {"c1"}
  k1 = k1
  k2 = k2
  t1 = t1
  t2 = t2
  t3 = t3
  v1 = v1
  v2 = v2
  Keys = {k1, k2}
  NoKey = NoKey
  Empty = Empty
  Texts = {t1, t2, t3, Empty}
  FieldText <- MCFieldText
  IdText <- MCIdText
  Illegal = Illegal
  NoId = NoId
  Broken = Broken
  Bodies = {v1, v2, Broken}
  Requests <- MCNullKeys
  NoRequest = NoRequest
  NoMessage = NoMessage
  MaxAdrift = 1
INVARIANT
  NullKeysThrow
