------------------------------ MODULE Mapping ------------------------------
(***************************************************************************)
(* MappingManager (SolrNet/Mapping/MappingManager.cs): the mapping of the  *)
(* properties of a hierarchy of document types to Solr fields, built up by *)
(* calls of Add and SetUniqueKey in any order, and what GetFields and      *)
(* GetUniqueKey then answer for each type.                                 *)
(*                                                                         *)
(* A property is a PropertyInfo. Those of one declared property reached    *)
(* through a class and through a subclass of it are two different          *)
(* Properties with the same DeclaringType, as Add and SetUniqueKey compare *)
(* them with ==. Boosts are left out. A SolrFieldModel is the pair of its  *)
(* property and the name it is filed under.                                *)
(***************************************************************************)
EXTENDS Naturals, Sequences

CONSTANTS
  Types,          \* document types
  Bases,          \* [Types -> SUBSET Types], the types each can be assigned to
  Properties,     \* property objects
  DeclaringType,  \* [Properties -> Types]
  Names,          \* field names
  None            \* null

ASSUME BasesAssumption == Bases \in [Types -> SUBSET Types] /\ \A t \in Types : t \in Bases[t]
ASSUME TransitiveAssumption ==
  \A t \in Types : \A b \in Bases[t] : Bases[b] \subseteq Bases[t]
ASSUME DeclaringTypeAssumption == DeclaringType \in [Properties -> Types]

VARIABLES
  mappings,   \* per declaring type, a dictionary from field names to properties
  uniqueKeys  \* the unique keys, one per declaring type, in the order in which
              \* the types got theirs

vars == <<mappings, uniqueKeys>>

Dictionaries == UNION {[D -> Properties] : D \in SUBSET Names}
Models == [property : Properties, field : Names]

Owner(m) == DeclaringType[m.property]

ASSUME NoneAssumption == None \notin Names /\ None \notin Models

Init == /\ mappings = [t \in Types |-> [f \in {} |-> None]]
        /\ uniqueKeys = <<>>

-----------------------------------------------------------------------------
(* Add and SetUniqueKey *)

\* Without taking the property's old field away.
Filed_keepsOldField(own, p, f) ==
  [g \in DOMAIN own \cup {f} |-> IF g = f THEN p ELSE own[g]]

\* The property leaves the field it has; whatever is at the new name is replaced.
Filed(own, p, f) ==
  [g \in {h \in DOMAIN own : own[h] # p} \cup {f} |-> IF g = f THEN p ELSE own[g]]

Add(p, f) ==
  /\ mappings' = [mappings EXCEPT ![DeclaringType[p]] = Filed(@, p, f)]
  /\ UNCHANGED uniqueKeys

\* Appended even when the type has a key.
Keyed_appendsAlways(keys, m) == Append(keys, m)

\* Taken out and added again, which loses the place.
Keyed_movesToEnd(keys, m) == Append(SelectSeq(keys, LAMBDA k : Owner(k) # Owner(m)), m)

\* A dictionary keeps the place of a key that is assigned again.
Keyed(keys, m) ==
  IF \E i \in DOMAIN keys : Owner(keys[i]) = Owner(m)
  THEN [i \in DOMAIN keys |-> IF Owner(keys[i]) = Owner(m) THEN m ELSE keys[i]]
  ELSE Append(keys, m)

\* Throws, with nothing changed, when the property has no field.
SetUniqueKey(p) ==
  /\ \E f \in DOMAIN mappings[DeclaringType[p]] :
       /\ mappings[DeclaringType[p]][f] = p
       /\ uniqueKeys' = Keyed(uniqueKeys, [property |-> p, field |-> f])
  /\ UNCHANGED mappings

Next == \E p \in Properties : (\E f \in Names : Add(p, f)) \/ SetUniqueKey(p)

Spec == Init /\ [][Next]_vars

-----------------------------------------------------------------------------
(* GetFields, GetUniqueKey and GetRegisteredTypes *)

\* Add leaves no dictionary empty.
GetRegisteredTypes == {t \in Types : DOMAIN mappings[t] # {}}

\* ToDictionary throws when two of the types have a field of one name.
Clash(t) == \E a, b \in Bases[t] : a # b /\ DOMAIN mappings[a] \cap DOMAIN mappings[b] # {}

\* Asked the other way round: the fields of the types assignable to t.
Mapped_ofSubtypes(t) == {b \in GetRegisteredTypes : t \in Bases[b]}

Mapped(t) == {b \in GetRegisteredTypes : b \in Bases[t]}

\* Where there is no clash.
GetFields(t) ==
  [f \in UNION {DOMAIN mappings[b] : b \in Mapped(t)} |->
     mappings[CHOOSE b \in Mapped(t) : f \in DOMAIN mappings[b]][f]]

KeysFor(t) == {i \in DOMAIN uniqueKeys : Owner(uniqueKeys[i]) \in Bases[t]}

GetUniqueKey(t) ==
  IF KeysFor(t) = {} THEN None
  ELSE uniqueKeys[CHOOSE i \in KeysFor(t) : \A j \in KeysFor(t) : i <= j]

-----------------------------------------------------------------------------
(* Properties *)

\* The dictionaries file properties where they are declared, the keys belong
\* to different types.
TypeOK ==
  /\ mappings \in [Types -> Dictionaries]
  /\ \A t \in Types : \A f \in DOMAIN mappings[t] : DeclaringType[mappings[t][f]] = t
  /\ uniqueKeys \in Seq(Models)
  /\ \A i, j \in DOMAIN uniqueKeys : Owner(uniqueKeys[i]) = Owner(uniqueKeys[j]) => i = j

\* A property is never sent, or looked for, under two names: Add takes it out
\* of its old field first (MappingManagerTests.cs, Add_duplicate_property_overwrites).
OneFieldPerProperty ==
  \A t \in Types : \A f, g \in DOMAIN mappings[t] : mappings[t][f] = mappings[t][g] => f = g

\* A subclass has every field of its base classes, with the same properties,
\* and when GetFields answers for it, it does for them
\* (MappingManagerTests.cs, Inherited).
FieldsAreInherited ==
  \A t \in Types : \A b \in Bases[t] : ~Clash(t) =>
    /\ ~Clash(b)
    /\ \A f \in DOMAIN GetFields(b) : f \in DOMAIN GetFields(t) /\ GetFields(t)[f] = GetFields(b)[f]

\* The unique key of a type is the field that its key property is mapped to:
\* SetUniqueKey insists on it ("not mapped. Please use Add() to map it first").
UniqueKeyIsMapped ==
  \A t \in Types : ~Clash(t) /\ GetUniqueKey(t) # None =>
    LET m == GetUniqueKey(t)
    IN m.field \in DOMAIN GetFields(t) /\ GetFields(t)[m.field] = m.property

\* Dictionaries and ordered keys implement FieldTable, which has neither.
FieldOf(p) ==
  IF \E f \in DOMAIN mappings[DeclaringType[p]] : mappings[DeclaringType[p]][f] = p
  THEN CHOOSE f \in DOMAIN mappings[DeclaringType[p]] : mappings[DeclaringType[p]][f] = p
  ELSE None

Table == INSTANCE FieldTable WITH
  field <- [p \in Properties |-> FieldOf(p)],
  key <- [t \in Types |-> GetUniqueKey(t)]

TableSpec == Table!Spec
=============================================================================
