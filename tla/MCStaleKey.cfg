SPECIFICATION Spec
CONSTANTS
  base = base
  derived = derived
  id = id
  derivedId = derivedId
  name = name
  desc = desc
  Types = {base, derived}
  Properties = {id, derivedId, name, desc}
  Names = {f1, f2, f3}
  None = None
  Bases <- MCBases
  DeclaringType <- MCDeclaringType
INVARIANT UniqueKeyIsMapped
