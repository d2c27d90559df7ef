SPECIFICATION Spec
CONSTANTS
  Docs = {d1}
  Dictionary = Dictionary
  NoDoc = NoDoc
  d1 = d1
  c1 = c1
  c2 = c2
  c3 = c3
  http = http
  logging = logging
  Conns = {c1, c3}
  ConnTypes = {http, logging}
  ConnType <- MCConnType
  NoConn = NoConn
  Replaceable <- MCReplaceable
  NoFactory = NoFactory
PROPERTY
  OverriddenMapperServes
