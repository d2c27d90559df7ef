SPECIFICATION Spec
CONSTANTS
  Keys = {k1, k2, k3}
  Services = {s1, s2}
  Factories = {f1, f2, f3, f4}
  Reusable = {}
  NoFactory = NoFactory
  NoKey = NoKey
INVARIANTS
  TypeOK
  NamesAreListed
PROPERTY
  RemoveAllByType
  RegistrySpec
