SPECIFICATION ValidationSpec
CONSTANTS
  base = base
  derived = derived
  id = id
  derivedId = derivedId
  tags = tags
  desc = desc
  key = key
  text = text
  score = score
  Types = {base, derived}
  Properties = {id, derivedId, tags, desc}
  Collections = {tags}
  Names = {key, text, score}
  Unchecked = {score}
  None = None
  Thrown = Thrown
  Bases <- MCBases
  DeclaringType <- MCDeclaringType
  Schemas <- MCSchemas
INVARIANTS
  TypeOK
  OneFieldPerProperty
  FieldsAreInherited
  SubclassesErrAlone
PROPERTY
  TableSpec
