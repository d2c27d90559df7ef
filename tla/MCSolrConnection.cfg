SPECIFICATION Spec
CONSTANTS
  Threads = {t1, t2}
  Urls = {u1, u2}
  Keys = {u1, u2}
  KeyOf <- MCKeyOf
  Versions = {v1, v2, v3}
  ETags = {v1, v2, v3}
  ETag <- MCETag
  NoETag = NoETag
  NoEntry = NoEntry
  NoReply = NoReply
  NoBody = NoBody
  Update = Update
  Done = Done
  NoValue = NoValue
SYMMETRY MCSymmetry
INVARIANTS
  TypeOK
  CacheCoherent
  InFlight
  Freshness
  NoCacheHonoured
PROPERTY
  ServiceSpec
