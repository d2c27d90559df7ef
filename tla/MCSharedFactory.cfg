SPECIFICATION Spec
CONSTANTS
  Keys = {k1, k2, k3}
  Services = {s1, s2}
  Factories = {f1}
  Reusable = {f1}
  NoFactory = NoFactory
  NoKey = NoKey
PROPERTY
  RemoveAllByType
