--------------------------- MODULE MappingProofs ---------------------------
(***************************************************************************)
(* Proofs about Mapping, for every hierarchy of types and every set of     *)
(* properties and names: TypeOK and OneFieldPerProperty are inductive      *)
(* together, inheritance of fields follows from the order of the types     *)
(* alone, and the dictionaries with their ordered keys implement           *)
(* FieldTable.                                                             *)
(*                                                                         *)
(* Then about Validation, for any schema: what a validation of a type is   *)
(* worth for the documents of its subclasses.  It rests on the inheritance *)
(* of fields, and for the key on the order of the assigned keys.           *)
(***************************************************************************)
EXTENDS Validation, Induction, TLAPS

USE BasesAssumption, DeclaringTypeAssumption

IInv == TypeOK /\ OneFieldPerProperty

-----------------------------------------------------------------------------
(* The inductive invariant *)

\* A dictionary stays one when a property is filed in it, and the property
\* has just the new name.
LEMMA FiledIsDictionary ==
  ASSUME NEW own \in Dictionaries, NEW p \in Properties, NEW f \in Names
  PROVE  /\ Filed(own, p, f) \in Dictionaries
         /\ DOMAIN Filed(own, p, f) = {h \in DOMAIN own : own[h] # p} \cup {f}
         /\ Filed(own, p, f)[f] = p
         /\ \A g \in DOMAIN own : g # f /\ own[g] # p => Filed(own, p, f)[g] = own[g]
<1>1. PICK D \in SUBSET Names : own \in [D -> Properties]
  BY DEF Dictionaries
<1> DEFINE E == {h \in DOMAIN own : own[h] # p} \cup {f}
<1>2. E \in SUBSET Names
  BY <1>1
<1>3. Filed(own, p, f) \in [E -> Properties]
  BY <1>1 DEF Filed
<1> QED
  BY <1>2, <1>3 DEF Dictionaries, Filed

\* An assigned key keeps the list a list of keys of different types.
LEMMA KeyedIsListOfKeys ==
  ASSUME NEW keys \in Seq(Models), NEW m \in Models,
         \A i, j \in DOMAIN keys : Owner(keys[i]) = Owner(keys[j]) => i = j
  PROVE  /\ Keyed(keys, m) \in Seq(Models)
         /\ \A i, j \in DOMAIN Keyed(keys, m) :
              Owner(Keyed(keys, m)[i]) = Owner(Keyed(keys, m)[j]) => i = j
<1>1. CASE \E i \in DOMAIN keys : Owner(keys[i]) = Owner(m)
  <2>1. Keyed(keys, m) = [i \in DOMAIN keys |-> IF Owner(keys[i]) = Owner(m) THEN m ELSE keys[i]]
    BY <1>1 DEF Keyed
  <2>2. Keyed(keys, m) \in Seq(Models)
    BY <2>1
  <2>3. \A i \in DOMAIN keys : Owner(Keyed(keys, m)[i]) = Owner(keys[i])
    BY <2>1
  <2> QED
    BY <2>1, <2>2, <2>3
<1>2. CASE ~\E i \in DOMAIN keys : Owner(keys[i]) = Owner(m)
  <2>1. Keyed(keys, m) = Append(keys, m)
    BY <1>2 DEF Keyed
  <2> QED
    BY <1>2, <2>1
<1> QED
  BY <1>1, <1>2

\* Initially nothing is mapped.
LEMMA InitIInv == Init => IInv
<1> SUFFICES ASSUME Init PROVE IInv
  OBVIOUS
<1> DEFINE empty == [f \in {} |-> None]
<1>1. empty \in [{} -> Properties]
  OBVIOUS
<1>2. empty \in Dictionaries
  BY <1>1 DEF Dictionaries
<1> QED
  BY <1>2 DEF Init, IInv, TypeOK, OneFieldPerProperty

\* Add changes the dictionary of one type, where the property then has one name.
LEMMA AddPreserves ==
  ASSUME IInv, NEW p \in Properties, NEW f \in Names, Add(p, f)
  PROVE  IInv'
<1> DEFINE d == DeclaringType[p]
           new == Filed(mappings[d], p, f)
<1>1. d \in Types /\ mappings[d] \in Dictionaries
  BY DEF IInv, TypeOK
<1>2. mappings' = [mappings EXCEPT ![d] = new] /\ uniqueKeys' = uniqueKeys
  BY DEF Add
<1>3. /\ new \in Dictionaries
      /\ DOMAIN new = {h \in DOMAIN mappings[d] : mappings[d][h] # p} \cup {f}
      /\ new[f] = p
      /\ \A g \in DOMAIN mappings[d] : g # f /\ mappings[d][g] # p => new[g] = mappings[d][g]
  BY <1>1, FiledIsDictionary
<1> HIDE DEF new
<1>4. TypeOK'
  <2>1. mappings' \in [Types -> Dictionaries]
    BY <1>2, <1>3 DEF IInv, TypeOK
  <2>2. ASSUME NEW t \in Types, NEW g \in DOMAIN mappings'[t]
        PROVE  DeclaringType[mappings'[t][g]] = t
    BY <1>1, <1>2, <1>3 DEF IInv, TypeOK
  <2> QED
    BY <1>2, <2>1, <2>2 DEF IInv, TypeOK
<1>5. OneFieldPerProperty'
  <2> SUFFICES ASSUME NEW t \in Types,
                      NEW g \in DOMAIN mappings'[t], NEW h \in DOMAIN mappings'[t],
                      mappings'[t][g] = mappings'[t][h]
               PROVE  g = h
    BY DEF OneFieldPerProperty
  <2>1. CASE t = d
    <3>1. mappings'[t] = new
      BY <1>1, <1>2, <2>1 DEF IInv, TypeOK
    <3>2. g # f /\ h # f => g = h
      BY <1>1, <1>3, <3>1 DEF IInv, OneFieldPerProperty
    <3> QED
      BY <1>3, <3>1, <3>2
  <2>2. CASE t # d
    BY <1>2, <2>2 DEF IInv, TypeOK, OneFieldPerProperty
  <2> QED
    BY <2>1, <2>2
<1> QED
  BY <1>4, <1>5 DEF IInv

\* SetUniqueKey stores a property of the type whose key it becomes.
LEMMA SetUniqueKeyPreserves ==
  ASSUME IInv, NEW p \in Properties, SetUniqueKey(p)
  PROVE  IInv'
<1>1. PICK f \in DOMAIN mappings[DeclaringType[p]] :
        uniqueKeys' = Keyed(uniqueKeys, [property |-> p, field |-> f])
  BY DEF SetUniqueKey
<1>2. f \in Names
  BY DEF IInv, TypeOK, Dictionaries
<1>3. [property |-> p, field |-> f] \in Models
  BY <1>2 DEF Models
<1>4. mappings' = mappings
  BY DEF SetUniqueKey
<1> QED
  BY <1>1, <1>3, <1>4, KeyedIsListOfKeys DEF IInv, TypeOK, OneFieldPerProperty

LEMMA NextIInv == IInv /\ [Next]_vars => IInv'
<1> SUFFICES ASSUME IInv, [Next]_vars PROVE IInv'
  OBVIOUS
<1>1. CASE Next
  BY <1>1, AddPreserves, SetUniqueKeyPreserves DEF Next
<1>2. CASE UNCHANGED vars
  BY <1>2 DEF vars, IInv, TypeOK, OneFieldPerProperty
<1> QED
  BY <1>1, <1>2

\* The inductive invariant holds throughout.
THEOREM Inductive == Spec => []IInv
BY InitIInv, NextIInv, PTL DEF Spec

\* Properties are filed where they are declared and no type has two keys.
THEOREM TypeCorrect == Spec => []TypeOK
<1>1. IInv => TypeOK
  BY DEF IInv
<1> QED
  BY <1>1, Inductive, PTL

\* However often a property is added, it has one field (MappingManager.Add).
THEOREM OneField == Spec => []OneFieldPerProperty
<1>1. IInv => OneFieldPerProperty
  BY DEF IInv
<1> QED
  BY <1>1, Inductive, PTL

-----------------------------------------------------------------------------
(* Inheritance *)

\* Where the fields of a type do not clash, a field is that of the one class
\* that maps it.
LEMMA FieldComesFromOneType ==
  ASSUME NEW t \in Types, ~Clash(t), NEW c \in Mapped(t), NEW f \in DOMAIN mappings[c]
  PROVE  f \in DOMAIN GetFields(t) /\ GetFields(t)[f] = mappings[c][f]
<1>1. \A b \in Mapped(t) : b \in Bases[t]
  BY DEF Mapped
<1>2. \A b \in Mapped(t) : f \in DOMAIN mappings[b] => b = c
  BY <1>1 DEF Clash
<1>3. f \in UNION {DOMAIN mappings[b] : b \in Mapped(t)}
  OBVIOUS
<1>4. (CHOOSE b \in Mapped(t) : f \in DOMAIN mappings[b]) = c
  BY <1>2
<1> QED
  BY <1>3, <1>4 DEF GetFields

\* A subclass has every field of its base classes: assignability is
\* transitive, and what does not clash in the larger set of classes does not
\* in the smaller (MappingManager.GetFields).
THEOREM Inheritance == Spec => []FieldsAreInherited
<1>1. FieldsAreInherited
  <2> SUFFICES ASSUME NEW t \in Types, NEW b \in Bases[t], ~Clash(t)
               PROVE  /\ ~Clash(b)
                      /\ \A f \in DOMAIN GetFields(b) :
                           f \in DOMAIN GetFields(t) /\ GetFields(t)[f] = GetFields(b)[f]
    BY DEF FieldsAreInherited
  <2>1. b \in Types /\ Bases[b] \subseteq Bases[t]
    BY TransitiveAssumption
  <2>2. ~Clash(b)
    BY <2>1 DEF Clash
  <2>3. Mapped(b) \subseteq Mapped(t)
    BY <2>1 DEF Mapped
  <2>4. ASSUME NEW f \in DOMAIN GetFields(b)
        PROVE  f \in DOMAIN GetFields(t) /\ GetFields(t)[f] = GetFields(b)[f]
    <3>1. PICK c \in Mapped(b) : f \in DOMAIN mappings[c]
      BY DEF GetFields
    <3> QED
      BY <2>1, <2>2, <2>3, <3>1, FieldComesFromOneType
  <2> QED
    BY <2>2, <2>4
<1> QED
  BY <1>1, PTL

-----------------------------------------------------------------------------
(* Mapping implements FieldTable *)

\* The unique key of a type is the first of the keys that serve it.
KeyIsFirst ==
  \A t \in Types : \A i \in KeysFor(t) : (\A j \in KeysFor(t) : i <= j) =>
    GetUniqueKey(t) = uniqueKeys[i] /\ GetUniqueKey(t) \in Models

LEMMA FirstKey == IInv => KeyIsFirst
<1> SUFFICES ASSUME IInv, NEW t \in Types, NEW i \in KeysFor(t), \A j \in KeysFor(t) : i <= j
             PROVE  GetUniqueKey(t) = uniqueKeys[i] /\ GetUniqueKey(t) \in Models
  BY DEF KeyIsFirst
<1>1. i \in DOMAIN uniqueKeys /\ KeysFor(t) \subseteq Nat /\ KeysFor(t) # {}
  BY DEF KeysFor, IInv, TypeOK
<1>2. (CHOOSE k \in KeysFor(t) : \A j \in KeysFor(t) : k <= j) = i
  BY <1>1
<1>3. uniqueKeys[i] \in Models
  BY <1>1 DEF IInv, TypeOK
<1> QED
  BY <1>1, <1>2, <1>3 DEF GetUniqueKey

\* The field of a property is the name it is filed under, or none.
FieldIsName ==
  \A p \in Properties :
    /\ FieldOf(p) \in Names \cup {None}
    /\ \A f \in Names : FieldOf(p) = f <=>
         f \in DOMAIN mappings[DeclaringType[p]] /\ mappings[DeclaringType[p]][f] = p

LEMMA FieldOfFiled == IInv => FieldIsName
<1> SUFFICES ASSUME IInv, NEW p \in Properties
             PROVE  /\ FieldOf(p) \in Names \cup {None}
                    /\ \A f \in Names : FieldOf(p) = f <=>
                         f \in DOMAIN mappings[DeclaringType[p]] /\ mappings[DeclaringType[p]][f] = p
  BY DEF FieldIsName
<1> DEFINE own == mappings[DeclaringType[p]]
<1>1. DeclaringType[p] \in Types /\ DOMAIN own \subseteq Names
  BY DEF IInv, TypeOK, Dictionaries
<1>2. \A f, g \in DOMAIN own : own[f] = p /\ own[g] = p => f = g
  BY <1>1 DEF IInv, OneFieldPerProperty
<1>3. FieldOf(p) = IF \E f \in DOMAIN own : own[f] = p
                   THEN CHOOSE f \in DOMAIN own : own[f] = p ELSE None
  BY DEF FieldOf
<1> HIDE DEF own
<1>4. CASE \E f \in DOMAIN own : own[f] = p
  <2>1. FieldOf(p) \in DOMAIN own /\ own[FieldOf(p)] = p
    BY <1>3, <1>4
  <2> QED
    BY <1>1, <1>2, <2>1 DEF own
<1>5. CASE ~\E f \in DOMAIN own : own[f] = p
  BY <1>3, <1>5, NoneAssumption DEF own
<1> QED
  BY <1>4, <1>5

\* Initially no property has a field and no type a key.
LEMMA InitRefines == Init => Table!Init
<1> SUFFICES ASSUME Init PROVE Table!Init
  OBVIOUS
<1>1. ASSUME NEW p \in Properties PROVE FieldOf(p) = None
  BY DEF Init, FieldOf
<1>2. ASSUME NEW t \in Types PROVE GetUniqueKey(t) = None
  BY DEF Init, GetUniqueKey, KeysFor
<1> QED
  BY <1>1, <1>2 DEF Table!Init

\* Add takes the name from the property that had it and gives it to p, which
\* gives up its own.
LEMMA AddRefines ==
  ASSUME IInv, IInv', NEW p \in Properties, NEW f \in Names, Add(p, f)
  PROVE  Table!Add(p, f)
<1> DEFINE d == DeclaringType[p]
           new == Filed(mappings[d], p, f)
<1>1. d \in Types /\ mappings[d] \in Dictionaries /\ mappings \in [Types -> Dictionaries]
  BY DEF IInv, TypeOK
<1>2. mappings' = [mappings EXCEPT ![d] = new] /\ uniqueKeys' = uniqueKeys
  BY DEF Add
<1>3. /\ DOMAIN new = {h \in DOMAIN mappings[d] : mappings[d][h] # p} \cup {f}
      /\ new[f] = p
      /\ \A g \in DOMAIN mappings[d] : g # f /\ mappings[d][g] # p => new[g] = mappings[d][g]
  BY <1>1, FiledIsDictionary
<1> HIDE DEF new
<1>4. FieldIsName /\ FieldIsName'
  BY FieldOfFiled, PTL
<1>5. ASSUME NEW q \in Properties
      PROVE  FieldOf(q)' = CASE q = p -> f
                             [] q # p /\ DeclaringType[q] = DeclaringType[p] /\ FieldOf(q) = f -> None
                             [] OTHER -> FieldOf(q)
  <2> DEFINE was == FieldOf(q)
             is == FieldOf(q)'
  <2>1. /\ was \in Names \cup {None} /\ is \in Names \cup {None}
        /\ \A g \in Names : was = g <=> g \in DOMAIN mappings[DeclaringType[q]]
                                        /\ mappings[DeclaringType[q]][g] = q
        /\ \A g \in Names : is = g <=> g \in DOMAIN mappings'[DeclaringType[q]]
                                       /\ mappings'[DeclaringType[q]][g] = q
    BY <1>4 DEF FieldIsName
  <2> HIDE DEF was, is
  <2>2. CASE q = p
    BY <1>1, <1>2, <1>3, <2>1, <2>2 DEF is
  <2>3. CASE q # p /\ DeclaringType[q] = DeclaringType[p]
    <3>1. mappings'[DeclaringType[q]] = new /\ mappings[DeclaringType[q]] = mappings[d]
      BY <1>1, <1>2, <2>3
    <3>2. was = f => \A g \in Names : is # g
      BY <1>3, <2>1, <2>3, <3>1 DEF IInv, OneFieldPerProperty
    <3>3. was # f => \A g \in Names : is = g <=> was = g
      BY <1>3, <2>1, <2>3, <3>1
    <3> QED
      BY <2>1, <2>3, <3>2, <3>3, NoneAssumption DEF was, is
  <2>4. CASE DeclaringType[q] # DeclaringType[p]
    <3>1. mappings'[DeclaringType[q]] = mappings[DeclaringType[q]]
      BY <1>1, <1>2, <2>4
    <3> QED
      BY <2>1, <2>4, <3>1, NoneAssumption DEF was, is
  <2> QED
    BY <2>2, <2>3, <2>4
<1>6. ASSUME NEW t \in Types PROVE GetUniqueKey(t)' = GetUniqueKey(t)
  BY <1>2 DEF GetUniqueKey, KeysFor
<1> QED
  BY <1>5, <1>6 DEF Table!Add

\* Keyed changes the key of one type in its place, or adds it after the others.
LEMMA KeyedPlaces ==
  ASSUME IInv, NEW m \in Models, uniqueKeys' = Keyed(uniqueKeys, m)
  PROVE  /\ \A i \in DOMAIN uniqueKeys :
              /\ i \in DOMAIN uniqueKeys'
              /\ uniqueKeys'[i] = IF Owner(uniqueKeys[i]) = Owner(m) THEN m ELSE uniqueKeys[i]
              /\ Owner(uniqueKeys'[i]) = Owner(uniqueKeys[i])
         /\ \A j \in DOMAIN uniqueKeys' \ DOMAIN uniqueKeys :
              /\ uniqueKeys'[j] = m
              /\ \A i \in DOMAIN uniqueKeys : i < j /\ Owner(uniqueKeys[i]) # Owner(m)
         /\ \E i \in DOMAIN uniqueKeys' : uniqueKeys'[i] = m
<1>1. uniqueKeys \in Seq(Models)
  BY DEF IInv, TypeOK
<1>2. CASE \E i \in DOMAIN uniqueKeys : Owner(uniqueKeys[i]) = Owner(m)
  <2>1. uniqueKeys' = [i \in DOMAIN uniqueKeys |->
                         IF Owner(uniqueKeys[i]) = Owner(m) THEN m ELSE uniqueKeys[i]]
    BY <1>2 DEF Keyed
  <2> QED
    BY <1>2, <2>1
<1>3. CASE ~\E i \in DOMAIN uniqueKeys : Owner(uniqueKeys[i]) = Owner(m)
  <2>1. uniqueKeys' = Append(uniqueKeys, m)
    BY <1>3 DEF Keyed
  <2>2. /\ DOMAIN uniqueKeys' = DOMAIN uniqueKeys \cup {Len(uniqueKeys) + 1}
        /\ uniqueKeys'[Len(uniqueKeys) + 1] = m
        /\ \A i \in DOMAIN uniqueKeys : uniqueKeys'[i] = uniqueKeys[i] /\ i < Len(uniqueKeys) + 1
    BY <1>1, <2>1
  <2> QED
    BY <1>3, <2>2
<1> QED
  BY <1>2, <1>3

\* SetUniqueKey is the new key of the types that had none or one of its
\* class, and of no other: an older key of another class stays in front.
LEMMA SetUniqueKeyRefines ==
  ASSUME IInv, IInv', NEW p \in Properties, SetUniqueKey(p)
  PROVE  Table!SetUniqueKey(p)
<1>1. PICK f \in DOMAIN mappings[DeclaringType[p]] :
        /\ mappings[DeclaringType[p]][f] = p
        /\ uniqueKeys' = Keyed(uniqueKeys, [property |-> p, field |-> f])
  BY DEF SetUniqueKey
<1> DEFINE m == [property |-> p, field |-> f]
<1>2. f \in Names /\ m \in Models /\ Owner(m) = DeclaringType[p]
  BY DEF IInv, TypeOK, Dictionaries, Models, Owner
<1>3. FieldIsName /\ KeyIsFirst /\ KeyIsFirst'
  BY FieldOfFiled, FirstKey, PTL
<1>4. FieldOf(p) = f /\ f # None
  BY <1>1, <1>2, <1>3, NoneAssumption DEF FieldIsName
<1>5. ASSUME NEW q \in Properties PROVE FieldOf(q)' = FieldOf(q)
  BY DEF SetUniqueKey, FieldOf
<1>6. m.property = p /\ m.field = f
  OBVIOUS
<1> HIDE DEF m
<1>7. /\ \A i \in DOMAIN uniqueKeys :
           /\ i \in DOMAIN uniqueKeys'
           /\ uniqueKeys'[i] = IF Owner(uniqueKeys[i]) = Owner(m) THEN m ELSE uniqueKeys[i]
           /\ Owner(uniqueKeys'[i]) = Owner(uniqueKeys[i])
      /\ \A j \in DOMAIN uniqueKeys' \ DOMAIN uniqueKeys :
           /\ uniqueKeys'[j] = m
           /\ \A i \in DOMAIN uniqueKeys : i < j /\ Owner(uniqueKeys[i]) # Owner(m)
      /\ \E i \in DOMAIN uniqueKeys' : uniqueKeys'[i] = m
  BY <1>1, <1>2, KeyedPlaces DEF m
<1>8. ASSUME NEW t \in Types
      PROVE  GetUniqueKey(t)' = IF Table!Takes(p, t) THEN m ELSE GetUniqueKey(t)
  <2>1. DOMAIN uniqueKeys \subseteq Nat /\ DOMAIN uniqueKeys' \subseteq Nat
    BY DEF IInv, TypeOK
  <2>2. KeysFor(t) \subseteq KeysFor(t)'
    BY <1>7 DEF KeysFor
  <2>3. Table!Takes(p, t) <=> /\ Owner(m) \in Bases[t]
                              /\ GetUniqueKey(t) = None \/ Owner(GetUniqueKey(t)) = Owner(m)
    BY <1>2 DEF Table!Takes, Owner
  <2>4. CASE KeysFor(t) # {}
    <3>1. PICK i \in KeysFor(t) : \A j \in KeysFor(t) : i <= j
      BY <2>1, <2>4, LeastNumber DEF KeysFor
    <3>2. i \in KeysFor(t)' /\ \A j \in KeysFor(t)' : i <= j
      BY <1>7, <2>1, <2>2, <3>1 DEF KeysFor
    <3>3. GetUniqueKey(t) = uniqueKeys[i] /\ GetUniqueKey(t) # None
      BY <1>3, <3>1, NoneAssumption DEF KeyIsFirst
    <3>4. GetUniqueKey(t)' = uniqueKeys'[i]
      BY <1>3, <3>2 DEF KeyIsFirst
    <3>5. i \in DOMAIN uniqueKeys /\ Owner(uniqueKeys[i]) \in Bases[t]
      BY <3>1 DEF KeysFor
    <3> QED
      BY <1>7, <2>3, <3>3, <3>4, <3>5
  <2>5. CASE KeysFor(t) = {}
    <3>1. GetUniqueKey(t) = None
      BY <2>5 DEF GetUniqueKey
    <3>2. CASE Owner(m) \in Bases[t]
      <4>1. PICK i \in DOMAIN uniqueKeys' : uniqueKeys'[i] = m
        BY <1>7
      <4>2. \A j \in KeysFor(t)' : j = i
        BY <1>7, <2>5, <3>2, <4>1 DEF KeysFor, IInv, TypeOK
      <4>3. i \in KeysFor(t)' /\ i \in Nat
        BY <2>1, <3>2, <4>1 DEF KeysFor
      <4>4. GetUniqueKey(t)' = uniqueKeys'[i]
        BY <1>3, <4>2, <4>3 DEF KeyIsFirst
      <4> QED
        BY <2>3, <3>1, <3>2, <4>1, <4>4
    <3>3. CASE Owner(m) \notin Bases[t]
      <4>1. KeysFor(t)' = {}
        BY <1>7, <2>5, <3>3 DEF KeysFor
      <4>2. GetUniqueKey(t)' = None
        BY <4>1 DEF GetUniqueKey
      <4> QED
        BY <2>3, <3>1, <3>3, <4>2
    <3> QED
      BY <3>2, <3>3
  <2> QED
    BY <2>4, <2>5
<1> QED
  BY <1>4, <1>5, <1>8 DEF Table!SetUniqueKey, m

LEMMA NextRefines == IInv /\ IInv' /\ [Next]_vars => [Table!Next]_(Table!vars)
<1> SUFFICES ASSUME IInv, IInv', [Next]_vars PROVE [Table!Next]_(Table!vars)
  OBVIOUS
<1>1. CASE Next
  BY <1>1, AddRefines, SetUniqueKeyRefines DEF Next, Table!Next
<1>2. CASE UNCHANGED vars
  BY <1>2 DEF vars, Table!vars, FieldOf, GetUniqueKey, KeysFor
<1> QED
  BY <1>1, <1>2

\* Whatever is added and in whatever order keys are set, the manager answers
\* as FieldTable does.
THEOREM Refinement == Spec => TableSpec
BY InitRefines, Inductive, NextRefines, PTL DEF Spec, TableSpec, Table!Spec

-----------------------------------------------------------------------------
(* Validation *)

\* The mapping is built up as in Mapping, whatever the schema.
LEMMA SameMapping == ValidationSpec => Spec
<1>1. ValidationInit => Init
  BY DEF ValidationInit
<1>2. [ValidationNext]_validationVars => [Next]_vars
  BY DEF ValidationNext, validationVars, vars
<1> QED
  BY <1>1, <1>2, PTL DEF ValidationSpec, Spec

-----------------------------------------------------------------------------
(* Documents of a subclass *)

\* A key that serves a subclass and is of a class of T's is the key of T as
\* well, because every key that could come before it there does so here.
LEMMA KeyOfBothTypes ==
  ASSUME IInv, NEW d \in Types, NEW t \in Bases[d],
         GetUniqueKey(d) # None, Owner(GetUniqueKey(d)) \in Bases[t]
  PROVE  GetUniqueKey(t) = GetUniqueKey(d)
<1>1. t \in Types /\ Bases[t] \subseteq Bases[d]
  BY TransitiveAssumption
<1>2. KeyIsFirst
  BY FirstKey
<1>3. DOMAIN uniqueKeys \subseteq Nat
  BY DEF IInv, TypeOK
<1>4. KeysFor(d) # {}
  BY DEF GetUniqueKey
<1>5. PICK i \in KeysFor(d) : \A j \in KeysFor(d) : i <= j
  BY <1>3, <1>4, LeastNumber DEF KeysFor
<1>6. GetUniqueKey(d) = uniqueKeys[i]
  BY <1>2, <1>5 DEF KeyIsFirst
<1>7. i \in KeysFor(t) /\ KeysFor(t) \subseteq KeysFor(d)
  BY <1>1, <1>5, <1>6 DEF KeysFor
<1> QED
  BY <1>1, <1>2, <1>5, <1>6, <1>7 DEF KeyIsFirst

LEMMA OnlyItsOwn ==
  ASSUME IInv, FieldsAreInherited, NEW d \in Types, NEW t \in Bases[d], ~Clash(d), NoErrors(t)
  PROVE  /\ MappedPropertiesIsInSolrSchema(d) \cup MultivaluedMappedToCollection(d)
              \subseteq Serialize(d) \ Serialize(t)
         /\ RequiredFieldsAreMapped(d) = {}
         /\ UniqueKeyMatchesMapping(d) # {} => Owner(GetUniqueKey(d)) \notin Bases[t]
<1>1. \A f \in DOMAIN GetFields(t) : f \in DOMAIN GetFields(d) /\ GetFields(d)[f] = GetFields(t)[f]
  BY DEF FieldsAreInherited
<1>2. /\ MappedPropertiesIsInSolrSchema(t) = {}
      /\ RequiredFieldsAreMapped(t) = {}
      /\ UniqueKeyMatchesMapping(t) = {}
      /\ MultivaluedMappedToCollection(t) = {}
  BY DEF NoErrors, EnumerateValidationResults
<1>3. MappedPropertiesIsInSolrSchema(d) \subseteq Serialize(d) \ Serialize(t)
  BY <1>2 DEF MappedPropertiesIsInSolrSchema, Serialize
<1>4. MultivaluedMappedToCollection(d) \subseteq Serialize(d) \ Serialize(t)
  <2> SUFFICES ASSUME NEW f \in MultivaluedMappedToCollection(d), f \in Serialize(t) PROVE FALSE
    BY DEF MultivaluedMappedToCollection, Serialize
  <2>1. f \in DOMAIN schema.fields /\ schema.fields[f].multiValued # (GetFields(d)[f] \in Collections)
    BY Zenon DEF MultivaluedMappedToCollection
  <2>2. f \in DOMAIN GetFields(t) /\ GetFields(d)[f] = GetFields(t)[f]
    BY <1>1 DEF Serialize
  <2>3. f \in MultivaluedMappedToCollection(t)
    BY <2>1, <2>2, Zenon DEF MultivaluedMappedToCollection
  <2> QED
    BY <1>2, <2>3
<1>5. RequiredFieldsAreMapped(d) = {}
  BY <1>1, <1>2 DEF RequiredFieldsAreMapped
<1>6. ASSUME UniqueKeyMatchesMapping(d) # {}, Owner(GetUniqueKey(d)) \in Bases[t]
      PROVE  FALSE
  <2>1. GetUniqueKey(d) # None /\ GetUniqueKey(d).field # schema.uniqueKey
    BY <1>6 DEF UniqueKeyMatchesMapping
  <2>2. GetUniqueKey(t) = GetUniqueKey(d)
    BY <1>6, <2>1, KeyOfBothTypes
  <2> QED
    BY <1>2, <2>1, <2>2 DEF UniqueKeyMatchesMapping
<1> QED
  BY <1>3, <1>4, <1>5, <1>6

\* A type without errors leaves its subclasses only the errors of the fields
\* they add and of the keys that other classes bring, whatever the schema.
THEOREM OnlySubclassesErr == ValidationSpec => []SubclassesErrAlone
<1>1. IInv /\ FieldsAreInherited => SubclassesErrAlone
  BY OnlyItsOwn DEF SubclassesErrAlone
<1> QED
  BY <1>1, SameMapping, Inductive, Inheritance, PTL
=============================================================================
