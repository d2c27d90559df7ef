------------------------- MODULE ContainerUseProofs -------------------------
(***************************************************************************)
(* Proofs about ContainerUse, for any keys, service types and delegates,   *)
(* and any sequence of calls.                                              *)
(***************************************************************************)
EXTENDS ContainerUse, Induction, SequenceTheorems, FunctionTheorems, FiniteSetTheorems

-----------------------------------------------------------------------------
(* The operators of Container *)

\* A list without its p-th element.
Without(list, p) == SubSeq(list, 1, p - 1) \o SubSeq(list, p + 1, Len(list))

\* List.Remove takes the first equal factory, and the rest moves up.
LEMMA WithoutFirstMeans ==
  ASSUME NEW list \in Seq(Factories), NEW f, Lists(list, f)
  PROVE  \E p \in 1..Len(list) :
           /\ list[p] = f
           /\ WithoutFirst(list, f) = Without(list, p)
<1> DEFINE S == {i \in 1..Len(list) : list[i] = f}
           first == CHOOSE i \in 1..Len(list) : list[i] = f /\ \A j \in 1..(i - 1) : list[j] # f
<1>1. Len(list) \in Nat
  OBVIOUS
<1>2. S \in SUBSET Nat /\ S # {}
  BY DEF Lists
<1>3. PICK p \in S : \A j \in S : p <= j
  BY ONLY <1>2, LeastNumber
<1>4. \A j \in 1..(p - 1) : list[j] # f
  <2> TAKE j \in 1..(p - 1)
  <2>1. j \in 1..Len(list) /\ ~(p <= j)
    BY <1>1, <1>3
  <2> QED
    BY <1>3, <2>1
<1>5. p \in 1..Len(list) /\ list[p] = f
  BY <1>3
<1>6. first \in 1..Len(list) /\ list[first] = f
  BY <1>4, <1>5
<1>7. WithoutFirst(list, f) = Without(list, first)
  BY DEF WithoutFirst, Without
<1> HIDE DEF first
<1> QED
  BY <1>6, <1>7

LEMMA WithoutPlace ==
  ASSUME NEW S, NEW list \in Seq(S), NEW p \in 1..Len(list)
  PROVE  /\ Without(list, p) \in Seq(S)
         /\ Len(Without(list, p)) = Len(list) - 1
         /\ \A i \in 1..(Len(list) - 1) :
              Without(list, p)[i] = IF i < p THEN list[i] ELSE list[i + 1]
<1> DEFINE n == Len(list)
           rest == Without(list, p)
           front == SubSeq(list, 1, p - 1)
           back == SubSeq(list, p + 1, n)
<1>1. n \in Nat /\ p \in 1..n /\ \A i \in 1..n : list[i] \in S
  BY ElementOfSeq
<1> HIDE DEF n
<1>2. /\ front \in Seq(S) /\ Len(front) = p - 1
      /\ \A i \in 1..(p - 1) : front[i] = list[i]
  <2>1. \A i \in 1..(p - 1) : list[i] \in S
    BY <1>1
  <2>2. 1 \in Int /\ p - 1 \in Int
    BY <1>1
  <2>3. /\ front \in Seq(S)
        /\ Len(front) = IF 1 <= p - 1 THEN (p - 1) - 1 + 1 ELSE 0
        /\ \A i \in 1..((p - 1) - 1 + 1) : front[i] = list[1 + i - 1]
    BY ONLY <2>1, <2>2, SubSeqProperties
  <2> HIDE DEF front
  <2>4. (p - 1) - 1 + 1 = p - 1 /\ \A i \in 1..(p - 1) : 1 + i - 1 = i
    BY <1>1
  <2> QED
    BY <1>1, <2>3, <2>4
<1>3. /\ back \in Seq(S) /\ Len(back) = n - p
      /\ \A i \in 1..(n - p) : back[i] = list[p + i]
  <2>1. \A i \in (p + 1)..n : list[i] \in S
    BY <1>1
  <2>2. p + 1 \in Int /\ n \in Int
    BY <1>1
  <2>3. /\ back \in Seq(S)
        /\ Len(back) = IF p + 1 <= n THEN n - (p + 1) + 1 ELSE 0
        /\ \A i \in 1..(n - (p + 1) + 1) : back[i] = list[(p + 1) + i - 1]
    BY ONLY <2>1, <2>2, SubSeqProperties
  <2> HIDE DEF back
  <2>4. n - (p + 1) + 1 = n - p /\ \A i \in 1..(n - p) : (p + 1) + i - 1 = p + i
    BY <1>1
  <2> QED
    BY <1>1, <2>3, <2>4
<1>4. rest = front \o back
  BY DEF n, Without
<1> HIDE DEF front, back, rest
<1>5. /\ rest \in Seq(S) /\ Len(rest) = Len(front) + Len(back)
      /\ \A i \in 1..(Len(front) + Len(back)) :
           rest[i] = IF i <= Len(front) THEN front[i] ELSE back[i - Len(front)]
  BY ONLY <1>2, <1>3, <1>4, ConcatProperties
<1>6. Len(front) + Len(back) = n - 1
  BY <1>1, <1>2, <1>3
<1>7. ASSUME NEW i \in 1..(n - 1) PROVE rest[i] = IF i < p THEN list[i] ELSE list[i + 1]
  <2>1. CASE i < p
    <3>1. i \in 1..(p - 1) /\ i <= Len(front)
      BY <1>1, <1>2, <2>1
    <3> QED
      BY <1>2, <1>5, <1>6, <2>1, <3>1
  <2>2. CASE ~(i < p)
    <3>1. /\ ~(i <= Len(front)) /\ i - Len(front) \in 1..(n - p)
          /\ p + (i - Len(front)) = i + 1
      BY <1>1, <1>2, <2>2
    <3>2. rest[i] = back[i - Len(front)]
      BY <1>5, <1>6, <3>1
    <3> QED
      BY <1>3, <2>2, <3>1, <3>2
  <2> QED
    BY <2>1, <2>2
<1> QED
  BY <1>5, <1>6, <1>7 DEF n, rest

LEMMA PlacesAre ==
  ASSUME NEW c \in Containers, NEW f
  PROVE  /\ \A x \in Places(c, f) : /\ x = <<x[1], x[2]>> /\ x[1] \in Services
                                    /\ x[2] \in 1..Len(c.byType[x[1]])
                                    /\ c.byType[x[1]][x[2]] = f
         /\ \A s \in Services : \A i \in 1..Len(c.byType[s]) :
              c.byType[s][i] = f => <<s, i>> \in Places(c, f)
<1>1. c.byType \in [Services -> Seq(Factories)]
  BY DEF Containers
<1>2. \A s \in Services : DOMAIN c.byType[s] = 1..Len(c.byType[s])
  BY <1>1
<1> QED
  BY <1>2 DEF Places

LEMMA RegisteredType ==
  ASSUME NEW c \in Containers, NEW k \in Keys, NEW s \in Services, NEW f \in Factories
  PROVE  /\ Registered(c, k, s, f) \in Containers
         /\ c.byName \in [Keys -> Factories \cup {NoFactory}] /\ c.byType \in [Services -> Seq(Factories)]
<1>1. c.byName \in [Keys -> Factories \cup {NoFactory}] /\ c.byType \in [Services -> Seq(Factories)]
  BY DEF Containers
<1>2. Append(c.byType[s], f) \in Seq(Factories)
  BY <1>1
<1> QED
  BY <1>1, <1>2 DEF Registered, Containers

LEMMA WithoutTypeType ==
  ASSUME NEW c \in Containers, NEW s \in Services
  PROVE  WithoutType(c, s) \in Containers
<1>1. c.byName \in [Keys -> Factories \cup {NoFactory}] /\ c.byType \in [Services -> Seq(Factories)]
  BY DEF Containers
<1>2. <<>> \in Seq(Factories)
  OBVIOUS
<1>3. [c.byType EXCEPT ![s] = <<>>] \in [Services -> Seq(Factories)]
  BY <1>1, <1>2
<1>4. [k \in Keys |-> IF Lists(c.byType[s], c.byName[k]) THEN NoFactory ELSE c.byName[k]]
        \in [Keys -> Factories \cup {NoFactory}]
  BY <1>1
<1> QED
  BY <1>3, <1>4 DEF WithoutType, Containers

LEMMA WithoutKeyType ==
  ASSUME NEW c \in Containers, NEW k \in Keys, NEW s \in Services
  PROVE  WithoutKey(c, k, s) \in Containers
<1>1. c.byName \in [Keys -> Factories \cup {NoFactory}] /\ c.byType \in [Services -> Seq(Factories)]
  BY DEF Containers
<1> DEFINE list == c.byType[s]
           f == c.byName[k]
<1>2. WithoutFirst(list, f) \in Seq(Factories)
  <2>1. list \in Seq(Factories)
    BY <1>1
  <2> HIDE DEF list, f
  <2>2. CASE Lists(list, f)
    <3>1. PICK p \in 1..Len(list) :
            WithoutFirst(list, f) = Without(list, p)
      BY <2>1, <2>2, WithoutFirstMeans
    <3> QED
      BY <2>1, <3>1, WithoutPlace
  <2>3. CASE ~Lists(list, f)
    BY <2>1, <2>3 DEF WithoutFirst
  <2> QED
    BY <2>2, <2>3
<1>3. [c.byType EXCEPT ![s] = WithoutFirst(@, f)] \in [Services -> Seq(Factories)]
  BY <1>1, <1>2
<1>4. [c.byName EXCEPT ![k] = NoFactory] \in [Keys -> Factories \cup {NoFactory}]
  BY <1>1
<1> QED
  BY <1>3, <1>4 DEF WithoutKey, Containers

LEMMA EmptyType == Empty \in Containers
BY DEF Empty, Containers

LEMMA TypeStep == TypeOK /\ [Next]_container => TypeOK'
<1> SUFFICES ASSUME TypeOK, [Next]_container PROVE TypeOK'
  OBVIOUS
<1>1. ASSUME NEW k \in Keys, NEW s \in Services, NEW f \in Factories, Register(k, s, f) PROVE TypeOK'
  BY <1>1, RegisteredType DEF TypeOK, Register
<1>2. ASSUME NEW k \in Keys, NEW s \in Services, Remove(k, s) PROVE TypeOK'
  BY <1>2, WithoutKeyType DEF TypeOK, Remove
<1>3. ASSUME NEW s \in Services, RemoveAll(s) PROVE TypeOK'
  BY <1>3, WithoutTypeType DEF TypeOK, RemoveAll
<1>4. CASE Clear
  BY <1>4, EmptyType DEF TypeOK, Clear
<1>5. CASE UNCHANGED container
  BY <1>5 DEF TypeOK
<1> QED
  BY <1>1, <1>2, <1>3, <1>4, <1>5 DEF Next

\* The two dictionaries keep their form.
THEOREM TypeCorrect == Spec => []TypeOK
<1>1. Init => TypeOK
  BY EmptyType DEF Init, TypeOK
<1> QED
  BY <1>1, TypeStep, PTL DEF Spec

-----------------------------------------------------------------------------
(* Keys and places of a factory *)

KeySet(c, f) == {k \in Keys : Named(c, k) = f}

\* At any time there are finitely many of both, and enough places.
Counted(c) ==
  \A f \in Factories :
    /\ IsFiniteSet(KeySet(c, f)) /\ IsFiniteSet(Places(c, f))
    /\ Cardinality(KeySet(c, f)) <= Cardinality(Places(c, f))

LEMMA PlacesExt ==
  ASSUME NEW c \in Containers, NEW d \in Containers, NEW f,
         \A s \in Services : Len(c.byType[s]) = Len(d.byType[s])
           /\ \A i \in 1..Len(c.byType[s]) : c.byType[s][i] = f <=> d.byType[s][i] = f
  PROVE  Places(c, f) = Places(d, f)
<1>1. ASSUME NEW x \in Places(c, f) PROVE x \in Places(d, f)
  <2>1. x = <<x[1], x[2]>> /\ x[1] \in Services /\ x[2] \in 1..Len(c.byType[x[1]])
          /\ c.byType[x[1]][x[2]] = f
    BY PlacesAre
  <2> QED
    BY <2>1, PlacesAre
<1>2. ASSUME NEW x \in Places(d, f) PROVE x \in Places(c, f)
  <2>1. x = <<x[1], x[2]>> /\ x[1] \in Services /\ x[2] \in 1..Len(d.byType[x[1]])
          /\ d.byType[x[1]][x[2]] = f
    BY PlacesAre
  <2> QED
    BY <2>1, PlacesAre
<1> QED
  BY <1>1, <1>2

\* Register gives the factory a key and a place.
LEMMA RegisteredSets ==
  ASSUME NEW c \in Containers, NEW k \in Keys, NEW s \in Services, NEW f \in Factories, ~Has(c, k),
         NEW d, d = Registered(c, k, s, f), NEW g \in Factories
  PROVE  LET new == <<s, Len(c.byType[s]) + 1>> IN
         /\ KeySet(d, g) = IF g = f THEN KeySet(c, g) \cup {k} ELSE KeySet(c, g)
         /\ k \notin KeySet(c, g)
         /\ Places(d, g) = IF g = f THEN Places(c, g) \cup {new} ELSE Places(c, g)
         /\ new \notin Places(c, g)
<1> DEFINE n == Len(c.byType[s])
           new == <<s, n + 1>>
<1>1. /\ d \in Containers /\ c.byName \in [Keys -> Factories \cup {NoFactory}]
      /\ c.byType \in [Services -> Seq(Factories)]
  BY RegisteredType
<1>2. /\ d.byName = [c.byName EXCEPT ![k] = f] /\ d.byType = [c.byType EXCEPT ![s] = Append(@, f)]
  BY DEF Registered
<1>3. k \notin KeySet(c, g)
  BY FactoryAssumption DEF KeySet, Named, Has
<1>4. KeySet(d, g) = IF g = f THEN KeySet(c, g) \cup {k} ELSE KeySet(c, g)
  BY <1>1, <1>2, <1>3 DEF KeySet, Named
<1>5. n \in Nat /\ new \notin Places(c, g)
  <2>1. n \in Nat
    BY <1>1
  <2>2. ASSUME new \in Places(c, g) PROVE FALSE
    <3>1. new[1] = s /\ new[2] = n + 1 /\ new[2] \in 1..Len(c.byType[new[1]])
      BY <2>2, PlacesAre
    <3> QED
      BY <2>1, <3>1
  <2> QED
    BY <2>1, <2>2
<1>6. /\ d.byType[s] = Append(c.byType[s], f) /\ Len(d.byType[s]) = n + 1
      /\ d.byType[s][n + 1] = f /\ \A i \in 1..n : d.byType[s][i] = c.byType[s][i]
      /\ \A q \in Services \ {s} : d.byType[q] = c.byType[q]
  <2>1. d.byType[s] = Append(c.byType[s], f) /\ c.byType[s] \in Seq(Factories)
    BY <1>1, <1>2
  <2>2. \A q \in Services \ {s} : d.byType[q] = c.byType[q]
    BY <1>1, <1>2
  <2> QED
    BY <2>1, <2>2
<1> HIDE DEF n
<1>7. ASSUME NEW x \in Places(c, g) PROVE x \in Places(d, g)
  <2>1. x = <<x[1], x[2]>> /\ x[1] \in Services /\ x[2] \in 1..Len(c.byType[x[1]])
          /\ c.byType[x[1]][x[2]] = g
    BY PlacesAre
  <2>2. x[2] \in 1..Len(d.byType[x[1]]) /\ d.byType[x[1]][x[2]] = g
    <3>1. CASE x[1] = s
      <4>1. x[2] \in 1..n /\ x[2] \in 1..(n + 1)
        BY <1>5, <2>1, <3>1 DEF n
      <4> QED
        BY ONLY <1>6, <2>1, <3>1, <4>1
    <3>2. CASE x[1] # s
      <4>1. d.byType[x[1]] = c.byType[x[1]]
        BY ONLY <1>6, <2>1, <3>2
      <4> QED
        BY ONLY <2>1, <4>1
    <3> QED
      BY ONLY <3>1, <3>2
  <2> QED
    BY <1>1, <2>1, <2>2, PlacesAre
<1>8. ASSUME NEW x \in Places(d, g) PROVE x \in Places(c, g) \/ (g = f /\ x = new)
  <2>1. x = <<x[1], x[2]>> /\ x[1] \in Services /\ x[2] \in 1..Len(d.byType[x[1]])
          /\ d.byType[x[1]][x[2]] = g
    BY <1>1, PlacesAre
  <2>2. CASE x[1] = s /\ x[2] = n + 1
    BY <1>6, <2>1, <2>2
  <2>3. CASE ~(x[1] = s /\ x[2] = n + 1)
    <3>1. x[2] \in 1..Len(c.byType[x[1]]) /\ c.byType[x[1]][x[2]] = g
      <4>1. CASE x[1] = s
        <5>1. x[2] \in 1..n
          BY <1>5, <1>6, <2>1, <2>3, <4>1
        <5> QED
          BY <1>6, <2>1, <4>1, <5>1 DEF n
      <4>2. CASE x[1] # s
        BY <1>6, <2>1, <4>2
      <4> QED
        BY <4>1, <4>2
    <3> QED
      BY <2>1, <3>1, PlacesAre
  <2> QED
    BY <2>2, <2>3
<1>9. g = f => new \in Places(d, g)
  BY <1>1, <1>5, <1>6, PlacesAre
<1>10. Places(d, g) = IF g = f THEN Places(c, g) \cup {new} ELSE Places(c, g)
  BY <1>7, <1>8, <1>9
<1> QED
  BY <1>3, <1>4, <1>5, <1>10 DEF n

LEMMA CountedRegister ==
  ASSUME NEW c \in Containers, Counted(c), NEW k \in Keys, NEW s \in Services, NEW f \in Factories,
         ~Has(c, k)
  PROVE  Counted(Registered(c, k, s, f))
<1> DEFINE d == Registered(c, k, s, f)
           new == <<s, Len(c.byType[s]) + 1>>
<1> SUFFICES ASSUME NEW g \in Factories
             PROVE  /\ IsFiniteSet(KeySet(d, g)) /\ IsFiniteSet(Places(d, g))
                    /\ Cardinality(KeySet(d, g)) <= Cardinality(Places(d, g))
  BY DEF Counted
<1>1. /\ KeySet(d, g) = IF g = f THEN KeySet(c, g) \cup {k} ELSE KeySet(c, g)
      /\ k \notin KeySet(c, g)
      /\ Places(d, g) = IF g = f THEN Places(c, g) \cup {new} ELSE Places(c, g)
      /\ new \notin Places(c, g)
  BY RegisteredSets
<1>2. /\ IsFiniteSet(KeySet(c, g)) /\ IsFiniteSet(Places(c, g))
      /\ Cardinality(KeySet(c, g)) <= Cardinality(Places(c, g))
  BY DEF Counted
<1> HIDE DEF d, new
<1>3. Cardinality(KeySet(c, g)) \in Nat /\ Cardinality(Places(c, g)) \in Nat
  BY <1>2, FS_CardinalityType
<1>4. /\ IsFiniteSet(KeySet(c, g) \cup {k})
      /\ Cardinality(KeySet(c, g) \cup {k}) = Cardinality(KeySet(c, g)) + 1
  BY <1>1, <1>2, FS_AddElement
<1>5. /\ IsFiniteSet(Places(c, g) \cup {new})
      /\ Cardinality(Places(c, g) \cup {new}) = Cardinality(Places(c, g)) + 1
  BY <1>1, <1>2, FS_AddElement
<1> QED
  BY <1>1, <1>2, <1>3, <1>4, <1>5

\* RemoveAll takes the places of a type, and every key of what was in them.
LEMMA WithoutTypeSets ==
  ASSUME NEW c \in Containers, NEW s \in Services, NEW d, d = WithoutType(c, s), NEW g \in Factories
  PROVE  /\ KeySet(d, g) = IF Lists(c.byType[s], g) THEN {} ELSE KeySet(c, g)
         /\ Places(d, g) = {x \in Places(c, g) : x[1] # s}
         /\ ~Lists(c.byType[s], g) => Places(d, g) = Places(c, g)
<1>1. /\ d \in Containers /\ c.byName \in [Keys -> Factories \cup {NoFactory}]
      /\ c.byType \in [Services -> Seq(Factories)]
  BY WithoutTypeType DEF Containers
<1>2. /\ \A k \in Keys : d.byName[k] = IF Lists(c.byType[s], c.byName[k]) THEN NoFactory ELSE c.byName[k]
      /\ d.byType = [c.byType EXCEPT ![s] = <<>>]
  BY DEF WithoutType
<1>3. KeySet(d, g) = IF Lists(c.byType[s], g) THEN {} ELSE KeySet(c, g)
  BY <1>2, FactoryAssumption DEF KeySet, Named
<1>4. d.byType[s] = <<>> /\ \A q \in Services \ {s} : d.byType[q] = c.byType[q]
  BY <1>1, <1>2
<1>5. ASSUME NEW x \in Places(c, g), x[1] # s PROVE x \in Places(d, g)
  <2>1. x = <<x[1], x[2]>> /\ x[1] \in Services /\ x[2] \in 1..Len(c.byType[x[1]])
          /\ c.byType[x[1]][x[2]] = g
    BY PlacesAre
  <2>2. d.byType[x[1]] = c.byType[x[1]]
    BY <1>4, <1>5, <2>1
  <2> QED
    BY <1>1, <2>1, <2>2, PlacesAre
<1>6. ASSUME NEW x \in Places(d, g) PROVE x \in Places(c, g) /\ x[1] # s
  <2>1. x = <<x[1], x[2]>> /\ x[1] \in Services /\ x[2] \in 1..Len(d.byType[x[1]])
          /\ d.byType[x[1]][x[2]] = g
    BY <1>1, PlacesAre
  <2>2. x[1] # s
    <3>1. Len(d.byType[s]) = 0
      BY <1>4
    <3> QED
      BY <2>1, <3>1
  <2>3. d.byType[x[1]] = c.byType[x[1]]
    BY <1>4, <2>1, <2>2
  <2> QED
    BY <2>1, <2>2, <2>3, PlacesAre
<1>7. Places(d, g) = {x \in Places(c, g) : x[1] # s}
  BY <1>5, <1>6
<1>8. ASSUME ~Lists(c.byType[s], g), NEW x \in Places(c, g) PROVE x[1] # s
  BY <1>8, PlacesAre DEF Lists
<1> QED
  BY <1>3, <1>7, <1>8

LEMMA CountedWithoutType ==
  ASSUME NEW c \in Containers, Counted(c), NEW s \in Services
  PROVE  Counted(WithoutType(c, s))
<1> DEFINE d == WithoutType(c, s)
<1> SUFFICES ASSUME NEW g \in Factories
             PROVE  /\ IsFiniteSet(KeySet(d, g)) /\ IsFiniteSet(Places(d, g))
                    /\ Cardinality(KeySet(d, g)) <= Cardinality(Places(d, g))
  BY DEF Counted
<1>1. /\ KeySet(d, g) = IF Lists(c.byType[s], g) THEN {} ELSE KeySet(c, g)
      /\ Places(d, g) = {x \in Places(c, g) : x[1] # s}
      /\ ~Lists(c.byType[s], g) => Places(d, g) = Places(c, g)
  BY WithoutTypeSets
<1>2. /\ IsFiniteSet(KeySet(c, g)) /\ IsFiniteSet(Places(c, g))
      /\ Cardinality(KeySet(c, g)) <= Cardinality(Places(c, g))
  BY DEF Counted
<1> HIDE DEF d
<1>3. IsFiniteSet(Places(d, g)) /\ Cardinality(Places(d, g)) \in Nat
  <2>1. Places(d, g) \in SUBSET Places(c, g)
    BY <1>1
  <2> QED
    BY <1>2, <2>1, FS_Subset, FS_CardinalityType
<1>4. IsFiniteSet({}) /\ Cardinality({}) = 0
  BY FS_EmptySet
<1>5. CASE Lists(c.byType[s], g)
  <2>1. KeySet(d, g) = {}
    BY <1>1, <1>5
  <2> QED
    BY <1>3, <1>4, <2>1
<1>6. CASE ~Lists(c.byType[s], g)
  BY <1>1, <1>2, <1>6
<1> QED
  BY <1>5, <1>6

\* Remove takes one key, and one place if the type is the right one.
LEMMA WithoutKeyKeys ==
  ASSUME NEW c \in Containers, NEW k \in Keys, NEW s \in Services, NEW d, d = WithoutKey(c, k, s),
         NEW g \in Factories
  PROVE  KeySet(d, g) = KeySet(c, g) \ {k}
<1>1. c.byName \in [Keys -> Factories \cup {NoFactory}]
  BY DEF Containers
<1>2. d.byName = [c.byName EXCEPT ![k] = NoFactory]
  BY DEF WithoutKey
<1> QED
  BY <1>1, <1>2, FactoryAssumption DEF KeySet, Named

LEMMA WithoutKeyPlaces ==
  ASSUME NEW c \in Containers, NEW k \in Keys, Has(c, k), NEW s \in Services,
         NEW d, d = WithoutKey(c, k, s)
  PROVE  IF Lists(c.byType[s], c.byName[k])
         THEN \E p \in 1..Len(c.byType[s]) :
                /\ c.byType[s][p] = c.byName[k]
                /\ \A g \in Factories : ExistsBijection(Places(c, g) \ {<<s, p>>}, Places(d, g))
         ELSE \A g \in Factories : Places(d, g) = Places(c, g)
<1> DEFINE list == c.byType[s]
           f == c.byName[k]
<1>1. /\ d \in Containers /\ c.byName \in [Keys -> Factories \cup {NoFactory}]
      /\ c.byType \in [Services -> Seq(Factories)]
  BY WithoutKeyType DEF Containers
<1>2. d.byType = [c.byType EXCEPT ![s] = WithoutFirst(@, f)]
  BY DEF WithoutKey
<1>3. /\ d.byType[s] = WithoutFirst(list, f) /\ \A q \in Services \ {s} : d.byType[q] = c.byType[q]
      /\ list \in Seq(Factories) /\ Len(list) \in Nat
  BY <1>1, <1>2
<1>4. ASSUME ~Lists(list, f), NEW g \in Factories PROVE Places(d, g) = Places(c, g)
  <2>1. d.byType[s] = c.byType[s]
    BY <1>3, <1>4 DEF WithoutFirst
  <2>2. \A q \in Services : d.byType[q] = c.byType[q]
    BY <1>3, <2>1
  <2> QED
    BY <1>1, <2>2, PlacesExt
<1>5. ASSUME Lists(list, f)
      PROVE  \E p \in 1..Len(list) :
               /\ list[p] = f
               /\ \A g \in Factories : ExistsBijection(Places(c, g) \ {<<s, p>>}, Places(d, g))
  <2>1. PICK p \in 1..Len(list) :
          list[p] = f /\ WithoutFirst(list, f) = Without(list, p)
    BY <1>3, <1>5, WithoutFirstMeans
  <2>2. /\ Len(d.byType[s]) = Len(list) - 1
        /\ \A i \in 1..(Len(list) - 1) : d.byType[s][i] = IF i < p THEN list[i] ELSE list[i + 1]
    <3>1. d.byType[s] = Without(list, p)
      BY <1>3, <2>1
    <3>2. list \in Seq(Factories) /\ p \in 1..Len(list)
      BY <1>3
    <3> HIDE DEF list
    <3> QED
      BY ONLY <3>1, <3>2, WithoutPlace
  <2>3. ASSUME NEW g \in Factories PROVE ExistsBijection(Places(c, g) \ {<<s, p>>}, Places(d, g))
    <3> DEFINE S == Places(c, g) \ {<<s, p>>}
               T == Places(d, g)
               Up(x) == IF x[1] = s /\ x[2] > p THEN <<s, x[2] - 1>> ELSE x
               F == [x \in S |-> Up(x)]
    <3>1. \A x \in S : /\ x = <<x[1], x[2]>> /\ x[1] \in Services /\ x[2] \in 1..Len(c.byType[x[1]])
                       /\ c.byType[x[1]][x[2]] = g /\ (x[1] = s => x[2] # p)
      <4> TAKE x \in S
      <4>1. /\ x = <<x[1], x[2]>> /\ x[1] \in Services /\ x[2] \in 1..Len(c.byType[x[1]])
            /\ c.byType[x[1]][x[2]] = g
        BY PlacesAre
      <4> QED
        BY <4>1
    <3>2. \A x \in T : /\ x = <<x[1], x[2]>> /\ x[1] \in Services /\ x[2] \in 1..Len(d.byType[x[1]])
                       /\ d.byType[x[1]][x[2]] = g
      BY <1>1, PlacesAre
    <3>3. ASSUME NEW x \in S PROVE Up(x) \in T
      <4>1. CASE x[1] = s
        <5> DEFINE i == IF x[2] > p THEN x[2] - 1 ELSE x[2]
        <5>1. x[2] \in 1..Len(list) /\ list[x[2]] = g /\ x[2] # p /\ x = <<s, x[2]>>
          BY <3>1, <4>1
        <5>2. i \in 1..(Len(list) - 1) /\ Up(x) = <<s, i>>
          BY <1>3, <4>1, <5>1
        <5>3. d.byType[s][i] = g
          <6>1. (IF i < p THEN i ELSE i + 1) = x[2]
            BY <1>3, <5>1
          <6> HIDE DEF i
          <6> QED
            BY ONLY <2>2, <5>1, <5>2, <6>1
        <5> HIDE DEF i, Up
        <5>4. i \in 1..Len(d.byType[s])
          BY <2>2, <5>2
        <5>5. <<s, i>> \in T
          BY ONLY <1>1, <5>3, <5>4, s \in Services, PlacesAre
        <5> QED
          BY ONLY <5>2, <5>5
      <4>2. CASE x[1] # s
        <5>1. Up(x) = x /\ d.byType[x[1]] = c.byType[x[1]]
          BY <1>3, <3>1, <4>2
        <5>2. x = <<x[1], x[2]>> /\ x[1] \in Services /\ x[2] \in 1..Len(d.byType[x[1]])
                /\ d.byType[x[1]][x[2]] = g
          BY <3>1, <5>1
        <5> HIDE DEF Up
        <5>3. x \in T
          BY ONLY <1>1, <5>2, PlacesAre
        <5> QED
          BY ONLY <5>1, <5>3
      <4> QED
        BY <4>1, <4>2
    <3>4. ASSUME NEW x \in S, NEW y \in S, Up(x) = Up(y) PROVE x = y
      <4>1. /\ x = <<x[1], x[2]>> /\ y = <<y[1], y[2]>> /\ x[2] \in Int /\ y[2] \in Int
            /\ (x[1] = s => x[2] # p) /\ (y[1] = s => y[2] # p)
        BY <3>1
      <4>2. Up(x)[1] = x[1] /\ Up(y)[1] = y[1]
        BY <4>1
      <4>3. x[1] = y[1]
        BY <3>4, <4>2
      <4>4. CASE x[1] # s
        BY <3>4, <4>3, <4>4
      <4>5. CASE x[1] = s
        <5>1. /\ Up(x)[2] = IF x[2] > p THEN x[2] - 1 ELSE x[2]
              /\ Up(y)[2] = IF y[2] > p THEN y[2] - 1 ELSE y[2]
          BY <4>1, <4>3, <4>5
        <5>2. Up(x)[2] = Up(y)[2]
          BY <3>4
        <5> HIDE DEF Up
        <5>3. x[2] = y[2]
          BY <4>1, <4>3, <4>5, <5>1, <5>2
        <5> QED
          BY <4>1, <4>3, <5>3
      <4> QED
        BY <4>4, <4>5
    <3>5. ASSUME NEW y \in T PROVE \E x \in S : Up(x) = y
      <4>1. CASE y[1] = s
        <5> DEFINE i == IF y[2] < p THEN y[2] ELSE y[2] + 1
        <5>1. y[2] \in 1..(Len(list) - 1) /\ d.byType[s][y[2]] = g /\ y = <<s, y[2]>>
          BY <2>2, <3>2, <4>1
        <5>2. i \in 1..Len(list) /\ list[i] = g /\ i # p
          BY <1>3, <2>2, <5>1
        <5>3. <<s, i>> \in S
          BY <5>2, PlacesAre
        <5>4. Up(<<s, i>>) = y
          <6>1. Up(<<s, i>>) = <<s, IF i > p THEN i - 1 ELSE i>>
            OBVIOUS
          <6>2. (IF i > p THEN i - 1 ELSE i) = y[2]
            BY <1>3, <5>1
          <6> QED
            BY <5>1, <6>1, <6>2
        <5> QED
          BY <5>3, <5>4
      <4>2. CASE y[1] # s
        <5>1. d.byType[y[1]] = c.byType[y[1]]
          BY <1>3, <3>2, <4>2
        <5>2. y \in Places(c, g)
          BY <3>2, <5>1, PlacesAre
        <5>3. y # <<s, p>> /\ Up(y) = y
          BY <4>2
        <5> QED
          BY <5>2, <5>3
      <4> QED
        BY <4>1, <4>2
    <3> HIDE DEF S, T, Up
    <3>6. F \in [S -> T] /\ \A x \in S : F[x] = Up(x)
      BY <3>3
    <3> HIDE DEF F
    <3>7. /\ \A x, y \in S : F[x] = F[y] => x = y
          /\ \A y \in T : \E x \in S : F[x] = y
      BY <3>4, <3>5, <3>6
    <3>8. F \in Bijection(S, T)
      BY ONLY <3>6, <3>7, Fun_IsBij
    <3> QED
      BY <3>8 DEF ExistsBijection, S, T
  <2> QED
    BY <2>1, <2>3
<1> QED
  BY <1>4, <1>5

LEMMA CountedWithoutKey ==
  ASSUME NEW c \in Containers, Counted(c), NEW k \in Keys, Has(c, k), NEW s \in Services
  PROVE  Counted(WithoutKey(c, k, s))
<1> DEFINE d == WithoutKey(c, k, s)
<1> SUFFICES ASSUME NEW g \in Factories
             PROVE  /\ IsFiniteSet(KeySet(d, g)) /\ IsFiniteSet(Places(d, g))
                    /\ Cardinality(KeySet(d, g)) <= Cardinality(Places(d, g))
  BY DEF Counted
<1> DEFINE f == c.byName[k]
<1>1. KeySet(d, g) = KeySet(c, g) \ {k}
  BY WithoutKeyKeys
<1>2. /\ IsFiniteSet(KeySet(c, g)) /\ IsFiniteSet(Places(c, g))
      /\ Cardinality(KeySet(c, g)) <= Cardinality(Places(c, g))
      /\ Cardinality(KeySet(c, g)) \in Nat /\ Cardinality(Places(c, g)) \in Nat
  BY FS_CardinalityType DEF Counted
<1>3. /\ IsFiniteSet(KeySet(d, g))
      /\ Cardinality(KeySet(d, g)) = IF k \in KeySet(c, g) THEN Cardinality(KeySet(c, g)) - 1
                                     ELSE Cardinality(KeySet(c, g))
  BY <1>1, <1>2, FS_RemoveElement
<1>4. k \in KeySet(c, g) <=> g = f
  BY DEF KeySet, Named
<1>5. CASE Lists(c.byType[s], f)
  <2>1. PICK p \in 1..Len(c.byType[s]) :
           /\ c.byType[s][p] = f
           /\ ExistsBijection(Places(c, g) \ {<<s, p>>}, Places(d, g))
    BY <1>5, WithoutKeyPlaces
  <2> HIDE DEF d
  <2>2. /\ IsFiniteSet(Places(c, g) \ {<<s, p>>})
        /\ Cardinality(Places(c, g) \ {<<s, p>>})
             = IF <<s, p>> \in Places(c, g) THEN Cardinality(Places(c, g)) - 1
               ELSE Cardinality(Places(c, g))
    BY <1>2, FS_RemoveElement
  <2>3. /\ IsFiniteSet(Places(d, g))
        /\ Cardinality(Places(d, g)) = Cardinality(Places(c, g) \ {<<s, p>>})
    BY <2>1, <2>2, FS_Bijection
  <2>4. <<s, p>> \in Places(c, g) => g = f
    <3>1. <<s, p>> \in Places(c, g) => c.byType[<<s, p>>[1]][<<s, p>>[2]] = g
      BY PlacesAre
    <3> QED
      BY <2>1, <3>1
  <2> QED
    BY <1>2, <1>3, <1>4, <2>2, <2>3, <2>4
<1>6. CASE ~Lists(c.byType[s], f)
  <2>1. Places(d, g) = Places(c, g)
    BY <1>6, WithoutKeyPlaces
  <2> QED
    BY <1>2, <1>3, <2>1
<1> QED
  BY <1>5, <1>6

LEMMA CountedEmpty == Counted(Empty)
<1>1. \A f \in Factories : KeySet(Empty, f) = {} /\ Places(Empty, f) = {}
  BY FactoryAssumption DEF KeySet, Named, Places, Empty
<1> QED
  BY <1>1, FS_EmptySet DEF Counted

LEMMA CountedStep == TypeOK /\ Counted(container) /\ [Next]_container => Counted(container')
<1> SUFFICES ASSUME TypeOK, Counted(container), [Next]_container PROVE Counted(container')
  OBVIOUS
<1>0. container \in Containers
  BY DEF TypeOK
<1>1. ASSUME NEW k \in Keys, NEW s \in Services, NEW f \in Factories, Register(k, s, f)
      PROVE  Counted(container')
  BY <1>0, <1>1, CountedRegister DEF Register
<1>2. ASSUME NEW k \in Keys, NEW s \in Services, Remove(k, s) PROVE Counted(container')
  BY <1>0, <1>2, CountedWithoutKey DEF Remove
<1>3. ASSUME NEW s \in Services, RemoveAll(s) PROVE Counted(container')
  BY <1>0, <1>3, CountedWithoutType DEF RemoveAll
<1>4. CASE Clear
  BY <1>4, CountedEmpty DEF Clear
<1>5. CASE UNCHANGED container
  BY <1>5
<1> QED
  BY <1>1, <1>2, <1>3, <1>4, <1>5 DEF Next

\* After any calls, even if delegates are registered more than once, every key
\* still has a place of its own: nothing that GetInstance finds by its key is
\* missing from GetAllInstances.
THEOREM EveryNameIsListed == Spec => []NamesAreListed
<1>1. Init => TypeOK /\ Counted(container)
  BY CountedEmpty, EmptyType DEF Init, TypeOK
<1>2. TypeOK /\ Counted(container) /\ [Next]_container => (TypeOK /\ Counted(container))'
  BY TypeStep, CountedStep
<1>3. Counted(container) => NamesAreListed
  BY DEF Counted, NamesAreListed, KeysOf, ListingsOf, KeySet
<1> QED
  BY <1>1, <1>2, <1>3, PTL DEF Spec

-----------------------------------------------------------------------------
(* Delegates that are registered once *)

\* A factory has one key at most, one place at most, and no key without a
\* place.
OneKey(c) == \A k, l \in Keys : Has(c, k) /\ c.byName[k] = c.byName[l] => k = l
OnePlace(c) ==
  \A s, t \in Services : \A i \in 1..Len(c.byType[s]), j \in 1..Len(c.byType[t]) :
    c.byType[s][i] = c.byType[t][j] => s = t /\ i = j
KeyHasPlace(c) == \A k \in Keys : Has(c, k) => \E s \in Services : Lists(c.byType[s], c.byName[k])

Paired(c) == c \in Containers /\ OneKey(c) /\ OnePlace(c) /\ KeyHasPlace(c)

LEMMA Domains ==
  ASSUME NEW c \in Containers
  PROVE  /\ c.byName \in [Keys -> Factories \cup {NoFactory}]
         /\ c.byType \in [Services -> Seq(Factories)]
         /\ \A s \in Services : /\ c.byType[s] \in Seq(Factories) /\ Len(c.byType[s]) \in Nat
                               /\ \A i \in 1..Len(c.byType[s]) : c.byType[s][i] \in Factories
<1>1. c.byName \in [Keys -> Factories \cup {NoFactory}] /\ c.byType \in [Services -> Seq(Factories)]
  BY DEF Containers
<1> QED
  BY <1>1, ElementOfSeq

LEMMA RegisteredLists ==
  ASSUME NEW c \in Containers, NEW k \in Keys, NEW s \in Services, NEW f \in Factories,
         NEW d, d = Registered(c, k, s, f)
  PROVE  /\ d \in Containers
         /\ d.byName[k] = f /\ \A l \in Keys \ {k} : d.byName[l] = c.byName[l]
         /\ d.byType[s] = Append(c.byType[s], f)
         /\ Len(d.byType[s]) = Len(c.byType[s]) + 1
         /\ d.byType[s][Len(c.byType[s]) + 1] = f
         /\ \A i \in 1..Len(c.byType[s]) : d.byType[s][i] = c.byType[s][i]
         /\ \A q \in Services \ {s} : d.byType[q] = c.byType[q]
<1>1. /\ d.byName = [c.byName EXCEPT ![k] = f] /\ d.byType = [c.byType EXCEPT ![s] = Append(@, f)]
  BY DEF Registered
<1>2. c.byName \in [Keys -> Factories \cup {NoFactory}] /\ c.byType \in [Services -> Seq(Factories)]
  BY Domains
<1>3. d.byType[s] = Append(c.byType[s], f) /\ c.byType[s] \in Seq(Factories)
  BY <1>1, <1>2
<1>4. \A q \in Services \ {s} : d.byType[q] = c.byType[q]
  BY <1>1, <1>2
<1> QED
  BY <1>1, <1>2, <1>3, <1>4, RegisteredType

LEMMA PairedRegister ==
  ASSUME NEW c, Paired(c), NEW k \in Keys, NEW s \in Services, NEW f \in Factories,
         ~Has(c, k), Places(c, f) = {}
  PROVE  /\ Paired(Registered(c, k, s, f))
         /\ \A q \in Services : \A i \in 1..Len(c.byType[q]) : c.byType[q][i] # f
         /\ \A l \in Keys : c.byName[l] # f
<1> DEFINE d == Registered(c, k, s, f)
           n == Len(c.byType[s])
<1>1. c \in Containers /\ OneKey(c) /\ OnePlace(c) /\ KeyHasPlace(c)
  BY DEF Paired
<1>2. \A q \in Services : \A i \in 1..Len(c.byType[q]) : c.byType[q][i] # f
  <2>1. \A q \in Services : \A i \in 1..Len(c.byType[q]) :
          c.byType[q][i] = f => <<q, i>> \in Places(c, f)
    BY ONLY <1>1, PlacesAre
  <2> QED
    BY ONLY <2>1, Places(c, f) = {}
<1>3. \A l \in Keys : c.byName[l] # f
  BY <1>1, <1>2, FactoryAssumption DEF KeyHasPlace, Lists, Has
<1>4. /\ d \in Containers
      /\ d.byName[k] = f /\ \A l \in Keys \ {k} : d.byName[l] = c.byName[l]
      /\ Len(d.byType[s]) = n + 1
      /\ d.byType[s][n + 1] = f
      /\ \A i \in 1..n : d.byType[s][i] = c.byType[s][i]
      /\ \A q \in Services \ {s} : d.byType[q] = c.byType[q]
  BY <1>1, RegisteredLists
<1>5. n \in Nat
  BY <1>1, Domains
<1> HIDE DEF d, n
<1>6. OneKey(d)
  BY <1>1, <1>3, <1>4 DEF OneKey, Has
<1>7. \A q \in Services : \A i \in 1..Len(d.byType[q]) :
        \/ i \in 1..Len(c.byType[q]) /\ d.byType[q][i] = c.byType[q][i]
        \/ q = s /\ i = n + 1 /\ d.byType[q][i] = f
  <2> TAKE q \in Services
  <2>1. CASE q = s
    <3> TAKE i \in 1..Len(d.byType[q])
    <3>1. i \in 1..n \/ i = n + 1
      BY ONLY <1>4, <1>5, <2>1, i \in 1..Len(d.byType[q])
    <3>2. n = Len(c.byType[q])
      BY <2>1 DEF n
    <3> QED
      BY ONLY <1>4, <2>1, <3>1, <3>2
  <2>2. CASE q # s
    BY ONLY <1>4, <2>2, q \in Services
  <2> QED
    BY <2>1, <2>2
<1>8. OnePlace(d)
  <2> SUFFICES ASSUME NEW q \in Services, NEW t \in Services, NEW i \in 1..Len(d.byType[q]),
                      NEW j \in 1..Len(d.byType[t]), d.byType[q][i] = d.byType[t][j]
               PROVE  q = t /\ i = j
    BY DEF OnePlace
  <2>0. /\ \/ i \in 1..Len(c.byType[q]) /\ d.byType[q][i] = c.byType[q][i]
           \/ q = s /\ i = n + 1 /\ d.byType[q][i] = f
        /\ \/ j \in 1..Len(c.byType[t]) /\ d.byType[t][j] = c.byType[t][j]
           \/ t = s /\ j = n + 1 /\ d.byType[t][j] = f
    BY <1>7
  <2>1. CASE d.byType[q][i] = f
    <3>1. q = s /\ i = n + 1
      BY <1>2, <2>0, <2>1
    <3>2. t = s /\ j = n + 1
      BY <1>2, <2>0, <2>1
    <3> QED
      BY <3>1, <3>2
  <2>2. CASE d.byType[q][i] # f
    <3>1. /\ i \in 1..Len(c.byType[q]) /\ j \in 1..Len(c.byType[t])
          /\ c.byType[q][i] = c.byType[t][j]
      BY <2>0, <2>2
    <3>2. OnePlace(c)
      BY <1>1
    <3> QED
      BY ONLY <3>1, <3>2, q \in Services, t \in Services DEF OnePlace
  <2> QED
    BY <2>1, <2>2
<1>9. KeyHasPlace(d)
  <2> SUFFICES ASSUME NEW l \in Keys, Has(d, l) PROVE \E q \in Services : Lists(d.byType[q], d.byName[l])
    BY DEF KeyHasPlace
  <2>1. CASE l = k
    <3>1. n + 1 \in 1..Len(d.byType[s])
      BY <1>4, <1>5
    <3> QED
      BY <1>4, <2>1, <3>1 DEF Lists
  <2>2. CASE l # k
    <3>1. d.byName[l] = c.byName[l] /\ Has(c, l)
      BY <1>4, <2>2 DEF Has
    <3>2. PICK q \in Services : Lists(c.byType[q], c.byName[l])
      BY <1>1, <3>1 DEF KeyHasPlace
    <3>3. PICK i \in 1..Len(c.byType[q]) : c.byType[q][i] = c.byName[l]
      BY <3>2 DEF Lists
    <3>4. i \in 1..Len(d.byType[q]) /\ d.byType[q][i] = c.byType[q][i]
      <4>1. CASE q = s
        <5>1. i \in 1..n /\ i \in 1..(n + 1)
          BY <1>5, <4>1 DEF n
        <5> QED
          BY ONLY <1>4, <4>1, <5>1
      <4>2. CASE q # s
        <5>1. d.byType[q] = c.byType[q]
          BY ONLY <1>4, <4>2, q \in Services
        <5> QED
          BY ONLY <5>1, i \in 1..Len(c.byType[q])
      <4> QED
        BY ONLY <4>1, <4>2
    <3> QED
      BY <3>1, <3>3, <3>4 DEF Lists
  <2> QED
    BY <2>1, <2>2
<1> QED
  BY <1>2, <1>3, <1>4, <1>6, <1>8, <1>9 DEF Paired, d

LEMMA PairedWithoutType ==
  ASSUME NEW c, Paired(c), NEW s \in Services, NEW d, d = WithoutType(c, s)
  PROVE  /\ Paired(d)
         /\ \A l \in Keys : d.byName[l] = IF Lists(c.byType[s], c.byName[l]) THEN NoFactory ELSE c.byName[l]
         /\ d.byType[s] = <<>> /\ \A q \in Services \ {s} : d.byType[q] = c.byType[q]
<1>1. c \in Containers /\ OneKey(c) /\ OnePlace(c) /\ KeyHasPlace(c)
  BY DEF Paired
<1>2. /\ \A l \in Keys : d.byName[l] = IF Lists(c.byType[s], c.byName[l]) THEN NoFactory ELSE c.byName[l]
      /\ d.byType = [c.byType EXCEPT ![s] = <<>>]
  BY DEF WithoutType
<1>3. /\ d.byType[s] = <<>> /\ Len(d.byType[s]) = 0
      /\ \A q \in Services \ {s} : d.byType[q] = c.byType[q]
  BY <1>1, <1>2, Domains
<1>4. OneKey(d)
  BY <1>1, <1>2 DEF OneKey, Has
<1>5. OnePlace(d)
  <2> SUFFICES ASSUME NEW q \in Services, NEW t \in Services, NEW i \in 1..Len(d.byType[q]),
                      NEW j \in 1..Len(d.byType[t]), d.byType[q][i] = d.byType[t][j]
               PROVE  q = t /\ i = j
    BY DEF OnePlace
  <2>1. q # s /\ t # s
    BY ONLY <1>3, i \in 1..Len(d.byType[q]), j \in 1..Len(d.byType[t])
  <2>2. d.byType[q] = c.byType[q] /\ d.byType[t] = c.byType[t]
    BY ONLY <1>3, <2>1, q \in Services, t \in Services
  <2> QED
    BY <1>1, <2>2 DEF OnePlace
<1>6. KeyHasPlace(d)
  <2> SUFFICES ASSUME NEW l \in Keys, Has(d, l) PROVE \E q \in Services : Lists(d.byType[q], d.byName[l])
    BY DEF KeyHasPlace
  <2>1. d.byName[l] = c.byName[l] /\ Has(c, l) /\ ~Lists(c.byType[s], c.byName[l])
    BY <1>2 DEF Has
  <2>2. PICK q \in Services : Lists(c.byType[q], c.byName[l])
    BY <1>1, <2>1 DEF KeyHasPlace
  <2> QED
    BY <1>3, <2>1, <2>2
<1> QED
  BY <1>1, <1>2, <1>3, <1>4, <1>5, <1>6, WithoutTypeType DEF Paired

LEMMA PairedWithoutKey ==
  ASSUME NEW c, Paired(c), NEW k \in Keys, Has(c, k), NEW s \in Services,
         NEW d, d = WithoutKey(c, k, s)
  PROVE  /\ Paired(d)
         /\ d.byName[k] = NoFactory /\ \A l \in Keys \ {k} : d.byName[l] = c.byName[l]
         /\ d.byType[s] = WithoutFirst(c.byType[s], c.byName[k])
         /\ \A q \in Services \ {s} : d.byType[q] = c.byType[q]
<1> DEFINE f == c.byName[k]
           list == c.byType[s]
<1>1. c \in Containers /\ OneKey(c) /\ OnePlace(c) /\ KeyHasPlace(c)
  BY DEF Paired
<1>2. /\ d.byName = [c.byName EXCEPT ![k] = NoFactory]
      /\ d.byType = [c.byType EXCEPT ![s] = WithoutFirst(@, f)]
  BY DEF WithoutKey
<1>3. /\ d.byName[k] = NoFactory /\ \A l \in Keys \ {k} : d.byName[l] = c.byName[l]
      /\ d.byType[s] = WithoutFirst(list, f) /\ \A q \in Services \ {s} : d.byType[q] = c.byType[q]
  BY <1>1, <1>2, Domains
<1>4. d \in Containers
  BY <1>1, WithoutKeyType
<1>5. OneKey(d)
  BY <1>1, <1>3 DEF OneKey, Has
<1>6. \A l \in Keys : Has(d, l) => l # k /\ d.byName[l] = c.byName[l] /\ Has(c, l) /\ c.byName[l] # f
  BY <1>1, <1>3 DEF OneKey, Has
<1>7. OnePlace(d) /\ KeyHasPlace(d)
  <2>1. CASE Lists(list, f)
    <3>1. list \in Seq(Factories) /\ Len(list) \in Nat
      BY <1>1, Domains
    <3>2. PICK p \in 1..Len(list) :
            list[p] = f /\ WithoutFirst(list, f) = Without(list, p)
      BY <2>1, <3>1, WithoutFirstMeans
    <3>3. /\ Len(d.byType[s]) = Len(list) - 1
          /\ \A i \in 1..(Len(list) - 1) : d.byType[s][i] = IF i < p THEN list[i] ELSE list[i + 1]
      <4>1. d.byType[s] = Without(list, p)
        BY <1>3, <3>2
      <4> HIDE DEF list
      <4> QED
        BY ONLY <3>1, <4>1, p \in 1..Len(list), WithoutPlace
    <3> DEFINE Old(q, i) == IF q = s /\ ~(i < p) THEN i + 1 ELSE i
    <3>4. \A q \in Services : \A i \in 1..Len(d.byType[q]) :
            /\ i \in Int /\ Old(q, i) \in 1..Len(c.byType[q])
            /\ d.byType[q][i] = c.byType[q][Old(q, i)]
      <4> TAKE q \in Services
      <4>1. CASE q = s
        <5> TAKE i \in 1..Len(d.byType[q])
        <5>1. i \in 1..(Len(list) - 1) /\ i \in Int
          BY <3>3, <4>1
        <5>2. Old(q, i) = (IF i < p THEN i ELSE i + 1) /\ Old(q, i) \in 1..Len(list)
          BY <3>1, <4>1, <5>1
        <5> QED
          BY <3>3, <4>1, <5>1, <5>2
      <4>2. CASE q # s
        <5>1. d.byType[q] = c.byType[q] /\ \A i : Old(q, i) = i
          BY <1>3, <4>2
        <5> QED
          BY <5>1
      <4> QED
        BY <4>1, <4>2
    <3>5. OnePlace(d)
      <4> SUFFICES ASSUME NEW q \in Services, NEW t \in Services, NEW i \in 1..Len(d.byType[q]),
                          NEW j \in 1..Len(d.byType[t]), d.byType[q][i] = d.byType[t][j]
                   PROVE  q = t /\ i = j
        BY DEF OnePlace
      <4>1. /\ Old(q, i) \in 1..Len(c.byType[q]) /\ Old(t, j) \in 1..Len(c.byType[t])
            /\ c.byType[q][Old(q, i)] = c.byType[t][Old(t, j)] /\ i \in Int /\ j \in Int
        BY <3>4
      <4>2. q = t /\ Old(q, i) = Old(t, j)
        <5> HIDE DEF Old
        <5>1. OnePlace(c)
          BY <1>1
        <5> QED
          BY ONLY <4>1, <5>1, q \in Services, t \in Services DEF OnePlace
      <4> QED
        BY <4>1, <4>2
    <3>6. KeyHasPlace(d)
      <4> SUFFICES ASSUME NEW l \in Keys, Has(d, l) PROVE \E q \in Services : Lists(d.byType[q], d.byName[l])
        BY DEF KeyHasPlace
      <4>1. d.byName[l] = c.byName[l] /\ Has(c, l) /\ c.byName[l] # f
        BY <1>6
      <4>2. PICK q \in Services : Lists(c.byType[q], c.byName[l])
        BY <1>1, <4>1 DEF KeyHasPlace
      <4>3. PICK j \in 1..Len(c.byType[q]) : c.byType[q][j] = c.byName[l]
        BY <4>2 DEF Lists
      <4>4. CASE q = s
        <5> DEFINE i == IF j < p THEN j ELSE j - 1
        <5>1. j \in 1..Len(list) /\ j # p
          BY <3>2, <4>1, <4>3, <4>4
        <5>2. i \in 1..(Len(list) - 1) /\ (IF i < p THEN i ELSE i + 1) = j
          BY <3>1, <5>1
        <5>3. d.byType[s][i] = c.byName[l] /\ i \in 1..Len(d.byType[s])
          <6>1. list[j] = c.byName[l]
            BY <4>3, <4>4
          <6> HIDE DEF i
          <6> QED
            BY <3>3, <5>2, <6>1
        <5> QED
          BY <4>1, <5>3 DEF Lists
      <4>5. CASE q # s
        BY <1>3, <4>1, <4>2, <4>5
      <4> QED
        BY <4>4, <4>5
    <3> QED
      BY <3>5, <3>6
  <2>2. CASE ~Lists(list, f)
    <3>1. \A q \in Services : d.byType[q] = c.byType[q]
      BY <1>3, <2>2 DEF WithoutFirst
    <3>2. OnePlace(d)
      BY <1>1, <3>1 DEF OnePlace
    <3> QED
      BY <1>1, <1>6, <3>1, <3>2 DEF KeyHasPlace
  <2> QED
    BY <2>1, <2>2
<1> QED
  BY <1>3, <1>4, <1>5, <1>7 DEF Paired

LEMMA PairedEmpty == Paired(Empty)
<1>1. \A s \in Services : Len(Empty.byType[s]) = 0
  BY DEF Empty
<1>2. \A k \in Keys : ~Has(Empty, k)
  BY DEF Empty, Has
<1>3. OnePlace(Empty)
  BY <1>1 DEF OnePlace
<1> QED
  BY <1>2, <1>3, EmptyType DEF Paired, OneKey, KeyHasPlace

LEMMA PairedStep ==
  ASSUME Reusable = {}
  PROVE  Paired(container) /\ [Next]_container => Paired(container')
<1> SUFFICES ASSUME Paired(container), [Next]_container PROVE Paired(container')
  OBVIOUS
<1>1. ASSUME NEW k \in Keys, NEW s \in Services, NEW f \in Factories, Register(k, s, f)
      PROVE  Paired(container')
  BY <1>1, PairedRegister DEF Register, InUse
<1>2. ASSUME NEW k \in Keys, NEW s \in Services, Remove(k, s) PROVE Paired(container')
  BY <1>2, PairedWithoutKey DEF Remove
<1>3. ASSUME NEW s \in Services, RemoveAll(s) PROVE Paired(container')
  BY <1>3, PairedWithoutType DEF RemoveAll
<1>4. CASE Clear
  BY <1>4, PairedEmpty DEF Clear
<1>5. CASE UNCHANGED container
  BY <1>5
<1> QED
  BY <1>1, <1>2, <1>3, <1>4, <1>5 DEF Next

LEMMA AlwaysPaired ==
  ASSUME Reusable = {}
  PROVE  Spec => []Paired(container)
<1>1. Init => Paired(container)
  BY PairedEmpty DEF Init
<1>2. Paired(container) /\ [Next]_container => Paired(container)'
  BY PairedStep
<1> QED
  BY <1>1, <1>2, PTL DEF Spec

-----------------------------------------------------------------------------
(* The container implements Registry *)

\* The register that the values of a container stand for.
KeyIn(c, f) == IF \E k \in Keys : Named(c, k) = f
               THEN CHOOSE k \in Keys : Named(c, k) = f ELSE NoKey
Entry(c, f) == [key |-> KeyIn(c, f), factory |-> f]
Row(c, list) == [i \in 1..Len(list) |-> Entry(c, list[i])]
ShelfOf(c) == [s \in Services |-> Row(c, c.byType[s])]
Entries == [key : Keys \cup {NoKey}, factory : Factories]

LEMMA KeyInMeans ==
  ASSUME NEW c, Paired(c), NEW f \in Factories
  PROVE  /\ KeyIn(c, f) \in Keys \cup {NoKey}
         /\ \A k \in Keys : KeyIn(c, f) = k <=> c.byName[k] = f
<1>1. OneKey(c)
  BY DEF Paired
<1>2. CASE \E k \in Keys : c.byName[k] = f
  <2>1. KeyIn(c, f) \in Keys /\ c.byName[KeyIn(c, f)] = f
    BY <1>2 DEF KeyIn, Named
  <2> QED
    BY <1>1, <2>1, FactoryAssumption DEF OneKey, Has
<1>3. CASE ~\E k \in Keys : c.byName[k] = f
  BY <1>3, KeyAssumption DEF KeyIn, Named
<1> QED
  BY <1>2, <1>3

\* A factory that the same keys name has the same entry.
LEMMA SameEntry ==
  ASSUME NEW c, Paired(c), NEW d, Paired(d), NEW f \in Factories,
         \A k \in Keys : c.byName[k] = f <=> d.byName[k] = f
  PROVE  Entry(d, f) = Entry(c, f)
<1>1. /\ KeyIn(c, f) \in Keys \cup {NoKey} /\ KeyIn(d, f) \in Keys \cup {NoKey}
      /\ \A k \in Keys : (KeyIn(c, f) = k <=> c.byName[k] = f) /\ (KeyIn(d, f) = k <=> d.byName[k] = f)
  BY KeyInMeans
<1>2. KeyIn(d, f) = KeyIn(c, f)
  BY <1>1
<1> QED
  BY <1>2 DEF Entry

LEMMA RowMeans ==
  ASSUME NEW c, Paired(c), NEW list \in Seq(Factories)
  PROVE  /\ Row(c, list) \in Seq(Entries) /\ Len(Row(c, list)) = Len(list)
         /\ \A i \in 1..Len(list) : Row(c, list)[i] = Entry(c, list[i])
<1>1. Len(list) \in Nat /\ \A i \in 1..Len(list) : list[i] \in Factories
  BY ElementOfSeq
<1>2. \A i \in 1..Len(list) : Entry(c, list[i]) \in Entries
  BY <1>1, KeyInMeans DEF Entry, Entries
<1>3. Row(c, list) = [i \in 1..Len(list) |-> Entry(c, list[i])]
  BY DEF Row
<1>4. Row(c, list) \in Seq(Entries)
  BY <1>1, <1>2, <1>3
<1>5. Len(Row(c, list)) = Len(list)
  BY <1>1, <1>3, <1>4
<1> QED
  BY <1>3, <1>4, <1>5

\* Rows of the same entries are equal.
LEMMA SameRow ==
  ASSUME NEW c, Paired(c), NEW d, Paired(d), NEW list \in Seq(Factories),
         \A i \in 1..Len(list) : \A k \in Keys : c.byName[k] = list[i] <=> d.byName[k] = list[i]
  PROVE  Row(d, list) = Row(c, list)
<1>1. \A i \in 1..Len(list) : list[i] \in Factories
  BY ElementOfSeq
<1>2. \A i \in 1..Len(list) : Entry(d, list[i]) = Entry(c, list[i])
  BY <1>1, SameEntry
<1> QED
  BY <1>2 DEF Row

LEMMA RowAppend ==
  ASSUME NEW c, Paired(c), NEW d, Paired(d), NEW list \in Seq(Factories), NEW f \in Factories,
         Row(d, list) = Row(c, list)
  PROVE  Row(d, Append(list, f)) = Append(Row(c, list), Entry(d, f))
<1> DEFINE long == Append(list, f)
           n == Len(list)
<1>1. /\ long \in Seq(Factories) /\ Len(long) = n + 1 /\ n \in Nat /\ long[n + 1] = f
      /\ \A i \in 1..n : long[i] = list[i]
  OBVIOUS
<1> HIDE DEF long
<1>2. /\ Row(d, long) \in Seq(Entries) /\ Len(Row(d, long)) = n + 1
      /\ \A i \in 1..(n + 1) : Row(d, long)[i] = Entry(d, long[i])
  <2>1. /\ Row(d, long) \in Seq(Entries) /\ Len(Row(d, long)) = Len(long)
        /\ \A i \in 1..Len(long) : Row(d, long)[i] = Entry(d, long[i])
    BY <1>1, RowMeans
  <2> QED
    BY <1>1, <2>1
<1>3. /\ Row(c, list) \in Seq(Entries) /\ Len(Row(c, list)) = n
      /\ \A i \in 1..n : Row(c, list)[i] = Entry(d, list[i])
  <2>1. /\ Row(d, list) \in Seq(Entries) /\ Len(Row(d, list)) = n
        /\ \A i \in 1..n : Row(d, list)[i] = Entry(d, list[i])
    BY RowMeans
  <2> QED
    BY <2>1
<1>4. Entry(d, f) \in Entries
  BY KeyInMeans DEF Entry, Entries
<1> DEFINE row == Append(Row(c, list), Entry(d, f))
<1> HIDE DEF n
<1>5. /\ row \in Seq(Entries) /\ Len(row) = n + 1 /\ row[n + 1] = Entry(d, f)
      /\ \A i \in 1..n : row[i] = Row(c, list)[i]
  BY <1>1, <1>3, <1>4, AppendProperties
<1> HIDE DEF row
<1>6. \A i \in 1..(n + 1) : row[i] = Row(d, long)[i]
  <2> TAKE i \in 1..(n + 1)
  <2>1. CASE i \in 1..n
    BY <1>1, <1>2, <1>3, <1>5, <2>1
  <2>2. CASE i = n + 1
    BY <1>1, <1>2, <1>5, <2>2
  <2> QED
    BY <1>1, <2>1, <2>2
<1>7. row = Row(d, long)
  <2>1. Len(row) = Len(Row(d, long)) /\ \A i \in 1..Len(row) : row[i] = Row(d, long)[i]
    BY <1>2, <1>5, <1>6
  <2> QED
    BY ONLY <1>2, <1>5, <2>1, SeqEqual
<1> QED
  BY <1>7 DEF row, long, n

LEMMA RowWithout ==
  ASSUME NEW c, Paired(c), NEW list \in Seq(Factories), NEW p \in 1..Len(list)
  PROVE  /\ Without(list, p) \in Seq(Factories)
         /\ Row(c, Without(list, p)) = Without(Row(c, list), p)
<1> DEFINE n == Len(list)
           row == Row(c, list)
           rest == Without(list, p)
           less == Without(row, p)
<1>1. /\ rest \in Seq(Factories) /\ Len(rest) = n - 1 /\ n \in Nat /\ p \in 1..n
      /\ \A i \in 1..(n - 1) : rest[i] = IF i < p THEN list[i] ELSE list[i + 1]
  <2>1. n \in Nat
    OBVIOUS
  <2>2. list \in Seq(Factories) /\ p \in 1..Len(list)
    OBVIOUS
  <2>3. /\ rest \in Seq(Factories) /\ Len(rest) = Len(list) - 1
        /\ \A i \in 1..(Len(list) - 1) : rest[i] = IF i < p THEN list[i] ELSE list[i + 1]
    BY ONLY <2>2, WithoutPlace
  <2> HIDE DEF rest
  <2> QED
    BY <2>1, <2>3
<1>2. row \in Seq(Entries) /\ Len(row) = n /\ \A i \in 1..n : row[i] = Entry(c, list[i])
  BY RowMeans
<1> HIDE DEF row, rest
<1>3. /\ Row(c, rest) \in Seq(Entries) /\ Len(Row(c, rest)) = n - 1
      /\ \A i \in 1..(n - 1) : Row(c, rest)[i] = Entry(c, rest[i])
  <2>1. /\ Row(c, rest) \in Seq(Entries) /\ Len(Row(c, rest)) = Len(rest)
        /\ \A i \in 1..Len(rest) : Row(c, rest)[i] = Entry(c, rest[i])
    BY <1>1, RowMeans
  <2> QED
    BY <1>1, <2>1
<1>4. /\ less \in Seq(Entries) /\ Len(less) = n - 1
      /\ \A i \in 1..(n - 1) : less[i] = IF i < p THEN row[i] ELSE row[i + 1]
  <2>1. row \in Seq(Entries) /\ p \in 1..Len(row)
    BY <1>1, <1>2
  <2>2. /\ less \in Seq(Entries) /\ Len(less) = Len(row) - 1
        /\ \A i \in 1..(Len(row) - 1) : less[i] = IF i < p THEN row[i] ELSE row[i + 1]
    BY ONLY <2>1, WithoutPlace
  <2> HIDE DEF less
  <2> QED
    BY <1>2, <2>2
<1> HIDE DEF less, n
<1>5. \A i \in 1..(n - 1) : Row(c, rest)[i] = less[i]
  <2> TAKE i \in 1..(n - 1)
  <2>1. i \in 1..n /\ i + 1 \in 1..n
    BY <1>1
  <2> QED
    BY <1>1, <1>2, <1>3, <1>4, <2>1
<1>6. Row(c, rest) = less
  <2>1. Len(Row(c, rest)) = Len(less) /\ \A i \in 1..Len(Row(c, rest)) : Row(c, rest)[i] = less[i]
    BY <1>3, <1>4, <1>5
  <2> QED
    BY ONLY <1>3, <1>4, <2>1, SeqEqual
<1> QED
  BY <1>1, <1>6 DEF less, row, rest

LEMMA ShelfMeans ==
  ASSUME NEW c, Paired(c), NEW s \in Services
  PROVE  /\ c.byType[s] \in Seq(Factories) /\ ShelfOf(c)[s] = Row(c, c.byType[s])
         /\ ShelfOf(c)[s] \in Seq(Entries) /\ Len(ShelfOf(c)[s]) = Len(c.byType[s])
         /\ \A i \in 1..Len(c.byType[s]) : /\ c.byType[s][i] \in Factories
                                           /\ ShelfOf(c)[s][i] = Entry(c, c.byType[s][i])
<1>1. c \in Containers
  BY DEF Paired
<1>2. c.byType[s] \in Seq(Factories) /\ \A i \in 1..Len(c.byType[s]) : c.byType[s][i] \in Factories
  BY <1>1, Domains
<1>3. ShelfOf(c)[s] = Row(c, c.byType[s])
  BY DEF ShelfOf
<1> QED
  BY <1>2, <1>3, RowMeans

\* A key is on the shelf when a factory has it.
LEMMA TakenMeans ==
  ASSUME NEW c, Paired(c), NEW k \in Keys
  PROVE  Has(c, k) <=> \E s \in Services : \E i \in 1..Len(ShelfOf(c)[s]) : ShelfOf(c)[s][i].key = k
<1>1. ASSUME Has(c, k)
      PROVE  \E s \in Services : \E i \in 1..Len(ShelfOf(c)[s]) : ShelfOf(c)[s][i].key = k
  <2>1. PICK s \in Services : Lists(c.byType[s], c.byName[k])
    BY <1>1 DEF Paired, KeyHasPlace
  <2>2. PICK i \in 1..Len(c.byType[s]) : c.byType[s][i] = c.byName[k]
    BY <2>1 DEF Lists
  <2>3. /\ Len(ShelfOf(c)[s]) = Len(c.byType[s]) /\ c.byType[s][i] \in Factories
        /\ ShelfOf(c)[s][i] = Entry(c, c.byType[s][i])
    BY ShelfMeans
  <2>4. KeyIn(c, c.byType[s][i]) = k
    BY <2>2, <2>3, KeyInMeans
  <2>5. ShelfOf(c)[s][i].key = k
    BY <2>3, <2>4 DEF Entry
  <2> QED
    BY <2>3, <2>5
<1>2. ASSUME NEW s \in Services, NEW i \in 1..Len(ShelfOf(c)[s]), ShelfOf(c)[s][i].key = k
      PROVE  Has(c, k)
  <2>1. /\ i \in 1..Len(c.byType[s]) /\ c.byType[s][i] \in Factories
        /\ ShelfOf(c)[s][i] = Entry(c, c.byType[s][i])
    BY ShelfMeans
  <2>2. KeyIn(c, c.byType[s][i]) = k
    BY <1>2, <2>1 DEF Entry
  <2>3. c.byName[k] = c.byType[s][i]
    BY <2>1, <2>2, KeyInMeans
  <2> QED
    BY <2>1, <2>3, FactoryAssumption DEF Has
<1> QED
  BY <1>1, <1>2

\* Register puts a component at the end of its row.
LEMMA ShelfRegister ==
  ASSUME NEW c, Paired(c), NEW k \in Keys, NEW s \in Services, NEW f \in Factories,
         ~Has(c, k), Places(c, f) = {}
  PROVE  ShelfOf(Registered(c, k, s, f))
           = [ShelfOf(c) EXCEPT ![s] = Append(@, [key |-> k, factory |-> f])]
<1> DEFINE d == Registered(c, k, s, f)
<1>1. /\ Paired(d)
      /\ \A q \in Services : \A i \in 1..Len(c.byType[q]) : c.byType[q][i] # f
  BY PairedRegister
<1>2. c \in Containers
  BY DEF Paired
<1>3. /\ d.byName[k] = f /\ \A l \in Keys \ {k} : d.byName[l] = c.byName[l]
      /\ d.byType[s] = Append(c.byType[s], f)
      /\ \A q \in Services \ {s} : d.byType[q] = c.byType[q]
  BY <1>2, RegisteredLists
<1> HIDE DEF d
<1>4. ASSUME NEW q \in Services PROVE Row(d, c.byType[q]) = Row(c, c.byType[q])
  <2>1. /\ c.byType[q] \in Seq(Factories)
        /\ \A i \in 1..Len(c.byType[q]) : c.byType[q][i] \in Factories
    BY ShelfMeans
  <2>2. \A i \in 1..Len(c.byType[q]) : \A l \in Keys :
          c.byName[l] = c.byType[q][i] <=> d.byName[l] = c.byType[q][i]
    BY <1>1, <1>3, <2>1, FactoryAssumption DEF Has
  <2> QED
    BY <1>1, <2>1, <2>2, SameRow
<1>5. Entry(d, f) = [key |-> k, factory |-> f]
  <2>1. KeyIn(d, f) = k
    BY <1>1, <1>3, KeyInMeans
  <2> QED
    BY <2>1 DEF Entry
<1>6. Row(d, d.byType[s]) = Append(Row(c, c.byType[s]), [key |-> k, factory |-> f])
  <2>1. c.byType[s] \in Seq(Factories) /\ Row(d, c.byType[s]) = Row(c, c.byType[s])
    BY <1>4, ShelfMeans
  <2>2. Row(d, Append(c.byType[s], f)) = Append(Row(c, c.byType[s]), Entry(d, f))
    BY <1>1, <2>1, RowAppend
  <2> QED
    BY <1>3, <1>5, <2>2
<1>7. ShelfOf(d) = [ShelfOf(c) EXCEPT ![s] = Append(@, [key |-> k, factory |-> f])]
  BY <1>3, <1>4, <1>6 DEF ShelfOf
<1> QED
  BY <1>7 DEF d

\* RemoveAll empties a row and leaves the others alone.
LEMMA ShelfWithoutType ==
  ASSUME NEW c, Paired(c), NEW s \in Services
  PROVE  ShelfOf(WithoutType(c, s)) = [ShelfOf(c) EXCEPT ![s] = <<>>]
<1> DEFINE d == WithoutType(c, s)
<1>1. /\ Paired(d)
      /\ \A l \in Keys : d.byName[l] = IF Lists(c.byType[s], c.byName[l]) THEN NoFactory ELSE c.byName[l]
      /\ d.byType[s] = <<>> /\ \A q \in Services \ {s} : d.byType[q] = c.byType[q]
  BY PairedWithoutType
<1> HIDE DEF d
<1>2. ASSUME NEW q \in Services \ {s} PROVE Row(d, d.byType[q]) = Row(c, c.byType[q])
  <2>1. /\ c.byType[q] \in Seq(Factories)
        /\ \A i \in 1..Len(c.byType[q]) : c.byType[q][i] \in Factories
    BY ShelfMeans
  <2>2. ASSUME NEW i \in 1..Len(c.byType[q]) PROVE ~Lists(c.byType[s], c.byType[q][i])
    BY DEF Paired, OnePlace, Lists
  <2>3. \A i \in 1..Len(c.byType[q]) : \A l \in Keys :
          c.byName[l] = c.byType[q][i] <=> d.byName[l] = c.byType[q][i]
    BY <1>1, <2>1, <2>2, FactoryAssumption
  <2>4. Row(d, c.byType[q]) = Row(c, c.byType[q])
    BY <1>1, <2>1, <2>3, SameRow
  <2> QED
    BY <1>1, <2>4
<1>3. Row(d, d.byType[s]) = <<>>
  <2>1. Len(Row(d, <<>>)) = 0 /\ Row(d, <<>>) \in Seq(Entries)
    <3>1. <<>> \in Seq(Factories) /\ Len(<<>>) = 0
      OBVIOUS
    <3> QED
      BY ONLY <1>1, <3>1, RowMeans
  <2> QED
    BY <1>1, <2>1, EmptySeq
<1>4. ShelfOf(d) = [ShelfOf(c) EXCEPT ![s] = <<>>]
  BY <1>2, <1>3 DEF ShelfOf
<1> QED
  BY <1>4 DEF d

\* Remove with the type of the component takes the component out of its row.
LEMMA ShelfRemove ==
  ASSUME NEW c, Paired(c), NEW k \in Keys, Has(c, k), NEW s \in Services,
         Lists(c.byType[s], c.byName[k])
  PROVE  \E p \in 1..Len(ShelfOf(c)[s]) :
           /\ ShelfOf(c)[s][p].key = k
           /\ ShelfOf(WithoutKey(c, k, s)) = [ShelfOf(c) EXCEPT ![s] = Without(@, p)]
<1> DEFINE d == WithoutKey(c, k, s)
           f == c.byName[k]
           list == c.byType[s]
<1>1. /\ Paired(d)
      /\ d.byName[k] = NoFactory /\ \A l \in Keys \ {k} : d.byName[l] = c.byName[l]
      /\ d.byType[s] = WithoutFirst(list, f)
      /\ \A q \in Services \ {s} : d.byType[q] = c.byType[q]
  BY PairedWithoutKey
<1> HIDE DEF d
<1>2. list \in Seq(Factories) /\ Len(list) \in Nat /\ \A i \in 1..Len(list) : list[i] \in Factories
  BY ShelfMeans
<1>3. PICK p \in 1..Len(list) : list[p] = f /\ WithoutFirst(list, f) = Without(list, p)
  BY <1>2, WithoutFirstMeans
<1>4. f \in Factories /\ f # NoFactory
  BY <1>2, <1>3, FactoryAssumption
<1>5. \A g \in Factories \ {f} : \A l \in Keys : c.byName[l] = g <=> d.byName[l] = g
  BY <1>1, <1>4, FactoryAssumption
<1>6. ASSUME NEW q \in Services \ {s} PROVE Row(d, d.byType[q]) = Row(c, c.byType[q])
  <2>1. /\ c.byType[q] \in Seq(Factories)
        /\ \A i \in 1..Len(c.byType[q]) : c.byType[q][i] \in Factories
    BY ShelfMeans
  <2>2. \A i \in 1..Len(c.byType[q]) : c.byType[q][i] # f
    BY <1>3 DEF Paired, OnePlace
  <2>3. \A i \in 1..Len(c.byType[q]) : \A l \in Keys :
          c.byName[l] = c.byType[q][i] <=> d.byName[l] = c.byType[q][i]
    BY <1>5, <2>1, <2>2
  <2>4. Row(d, c.byType[q]) = Row(c, c.byType[q])
    BY <1>1, <2>1, <2>3, SameRow
  <2> QED
    BY <1>1, <2>4
<1>7. Row(d, d.byType[s]) = Without(Row(c, list), p)
  <2> DEFINE rest == Without(list, p)
  <2>1. rest \in Seq(Factories) /\ Row(c, rest) = Without(Row(c, list), p)
    BY <1>2, <1>3, RowWithout
  <2>2. /\ Len(rest) = Len(list) - 1
        /\ \A i \in 1..(Len(list) - 1) : rest[i] = IF i < p THEN list[i] ELSE list[i + 1]
    BY <1>2, <1>3, WithoutPlace
  <2>3. \A j \in 1..Len(list) : j # p => list[j] # f
    <3> TAKE j \in 1..Len(list)
    <3> QED
      BY <1>3 DEF Paired, OnePlace
  <2> HIDE DEF rest, list, f
  <2>4. \A i \in 1..Len(rest) : rest[i] \in Factories \ {f}
    <3> TAKE i \in 1..Len(rest)
    <3>1. i \in 1..(Len(list) - 1)
      BY <2>2
    <3>2. CASE i < p
      <4>1. i \in 1..Len(list) /\ i # p /\ rest[i] = list[i]
        BY <1>2, <2>2, <3>1, <3>2
      <4> QED
        BY <1>2, <2>3, <4>1
    <3>3. CASE ~(i < p)
      <4>1. i + 1 \in 1..Len(list) /\ i + 1 # p /\ rest[i] = list[i + 1]
        BY <1>2, <1>3, <2>2, <3>1, <3>3
      <4> QED
        BY <1>2, <2>3, <4>1
    <3> QED
      BY <3>2, <3>3
  <2>5. \A i \in 1..Len(rest) : \A l \in Keys : c.byName[l] = rest[i] <=> d.byName[l] = rest[i]
    BY <1>5, <2>4
  <2>6. Row(d, rest) = Row(c, rest)
    BY <1>1, <2>1, <2>5, SameRow
  <2>7. d.byType[s] = rest
    BY <1>1, <1>3 DEF rest
  <2> QED
    BY <2>1, <2>6, <2>7
<1>8. p \in 1..Len(ShelfOf(c)[s]) /\ ShelfOf(c)[s][p].key = k
  <2>1. Len(ShelfOf(c)[s]) = Len(list) /\ ShelfOf(c)[s][p] = Entry(c, f)
    BY <1>3, ShelfMeans
  <2>2. KeyIn(c, f) = k
    BY <1>4, KeyInMeans
  <2> QED
    BY <2>1, <2>2 DEF Entry
<1>9. ShelfOf(d) = [ShelfOf(c) EXCEPT ![s] = Without(@, p)]
  BY <1>6, <1>7 DEF ShelfOf
<1> QED
  BY <1>8, <1>9 DEF d

\* With another type the component stays where it is, without its key.
LEMMA ShelfForget ==
  ASSUME NEW c, Paired(c), NEW k \in Keys, Has(c, k), NEW s \in Services,
         ~Lists(c.byType[s], c.byName[k])
  PROVE  /\ \A i \in 1..Len(ShelfOf(c)[s]) : ShelfOf(c)[s][i].key # k
         /\ ShelfOf(WithoutKey(c, k, s))
              = [r \in Services |-> [i \in 1..Len(ShelfOf(c)[r]) |->
                   IF ShelfOf(c)[r][i].key = k THEN [ShelfOf(c)[r][i] EXCEPT !.key = NoKey]
                                               ELSE ShelfOf(c)[r][i]]]
<1> DEFINE d == WithoutKey(c, k, s)
           f == c.byName[k]
<1>1. /\ Paired(d)
      /\ d.byName[k] = NoFactory /\ \A l \in Keys \ {k} : d.byName[l] = c.byName[l]
      /\ d.byType[s] = WithoutFirst(c.byType[s], f)
      /\ \A q \in Services \ {s} : d.byType[q] = c.byType[q]
  BY PairedWithoutKey
<1> HIDE DEF d
<1>2. \A q \in Services : d.byType[q] = c.byType[q]
  BY <1>1 DEF WithoutFirst
<1>3. OneKey(c) /\ f # NoFactory
  BY DEF Paired, Has
<1>4. ASSUME NEW g \in Factories
      PROVE  /\ Entry(c, g).key = k <=> g = f
             /\ Entry(d, g) = IF g = f THEN [Entry(c, g) EXCEPT !.key = NoKey] ELSE Entry(c, g)
  <2>1. KeyIn(c, g) = k <=> g = f
    BY KeyInMeans
  <2>2. CASE g = f
    <3>1. \A l \in Keys : d.byName[l] # f
      BY <1>1, <1>3 DEF OneKey, Has
    <3>2. KeyIn(d, g) = NoKey
      BY <1>1, <2>2, <3>1, KeyInMeans
    <3> QED
      BY <2>1, <2>2, <3>2 DEF Entry
  <2>3. CASE g # f
    <3>1. \A l \in Keys : c.byName[l] = g <=> d.byName[l] = g
      BY <1>1, <2>3, FactoryAssumption
    <3>2. Entry(d, g) = Entry(c, g)
      BY <1>1, <3>1, SameEntry
    <3> QED
      BY <2>1, <2>3, <3>2 DEF Entry
  <2> QED
    BY <2>2, <2>3
<1>5. \A i \in 1..Len(ShelfOf(c)[s]) : ShelfOf(c)[s][i].key # k
  <2> TAKE i \in 1..Len(ShelfOf(c)[s])
  <2>1. /\ i \in 1..Len(c.byType[s]) /\ c.byType[s][i] \in Factories
        /\ ShelfOf(c)[s][i] = Entry(c, c.byType[s][i])
    BY ShelfMeans
  <2>2. c.byType[s][i] # f
    BY <2>1 DEF Lists
  <2> QED
    BY <1>4, <2>1, <2>2
<1>6. ASSUME NEW r \in Services
      PROVE  Row(d, d.byType[r])
               = [i \in 1..Len(ShelfOf(c)[r]) |->
                    IF ShelfOf(c)[r][i].key = k THEN [ShelfOf(c)[r][i] EXCEPT !.key = NoKey]
                                                ELSE ShelfOf(c)[r][i]]
  <2>1. /\ Len(ShelfOf(c)[r]) = Len(c.byType[r])
        /\ \A i \in 1..Len(c.byType[r]) : /\ c.byType[r][i] \in Factories
                                          /\ ShelfOf(c)[r][i] = Entry(c, c.byType[r][i])
    BY ShelfMeans
  <2>2. \A i \in 1..Len(c.byType[r]) :
          Entry(d, c.byType[r][i])
            = IF ShelfOf(c)[r][i].key = k THEN [ShelfOf(c)[r][i] EXCEPT !.key = NoKey]
                                          ELSE ShelfOf(c)[r][i]
    BY <1>4, <2>1
  <2>3. Row(d, d.byType[r]) = [i \in 1..Len(c.byType[r]) |-> Entry(d, c.byType[r][i])]
    BY <1>2 DEF Row
  <2> QED
    BY <2>1, <2>2, <2>3
<1>7. ShelfOf(d) = [r \in Services |-> [i \in 1..Len(ShelfOf(c)[r]) |->
                      IF ShelfOf(c)[r][i].key = k THEN [ShelfOf(c)[r][i] EXCEPT !.key = NoKey]
                                                  ELSE ShelfOf(c)[r][i]]]
  <2>1. ShelfOf(d) = [r \in Services |-> Row(d, d.byType[r])]
    BY DEF ShelfOf
  <2> QED
    BY ONLY <1>6, <2>1
<1> QED
  BY <1>5, <1>7 DEF d

LEMMA ShelfIs == Shelf = ShelfOf(container) /\ Shelf' = ShelfOf(container')
BY DEF Shelf, ShelfOf, Row, Entry, KeyIn, KeyFor, Named

LEMMA ShelfEmpty == ShelfOf(Empty) = [s \in Services |-> <<>>]
<1>1. \A s \in Services : Empty.byType[s] = <<>>
  BY DEF Empty
<1>2. Row(Empty, <<>>) = <<>>
  <2>1. Len(Row(Empty, <<>>)) = 0 /\ Row(Empty, <<>>) \in Seq(Entries)
    <3>1. <<>> \in Seq(Factories) /\ Len(<<>>) = 0
      OBVIOUS
    <3> QED
      BY ONLY <3>1, PairedEmpty, RowMeans
  <2> QED
    BY <2>1, EmptySeq
<1> QED
  BY <1>1, <1>2 DEF ShelfOf

\* Every call on the container is a step of the register, or none.
LEMMA RegistryStep ==
  ASSUME Reusable = {}
  PROVE  Paired(container) /\ [Next]_container => [Components!Next]_Shelf
<1> SUFFICES ASSUME Paired(container), [Next]_container PROVE Components!Next \/ Shelf' = Shelf
  OBVIOUS
<1>1. ASSUME NEW k \in Keys, NEW s \in Services, NEW f \in Factories, Register(k, s, f)
      PROVE  Components!Register(k, s, f)
  <2>1. ~Has(container, k) /\ Places(container, f) = {} /\ container' = Registered(container, k, s, f)
    BY <1>1 DEF Register, InUse
  <2>2. ~Components!Taken(k)
    BY <2>1, TakenMeans, ShelfIs DEF Components!Taken
  <2>3. Shelf' = [Shelf EXCEPT ![s] = Append(@, [key |-> k, factory |-> f])]
    BY <2>1, ShelfRegister, ShelfIs
  <2> QED
    BY <2>2, <2>3 DEF Components!Register
<1>2. ASSUME NEW k \in Keys, NEW s \in Services, Remove(k, s)
      PROVE  Components!Remove(k, s) \/ Components!Forget(k, s)
  <2>1. Has(container, k) /\ container' = WithoutKey(container, k, s)
    BY <1>2 DEF Remove
  <2>2. CASE Lists(container.byType[s], container.byName[k])
    <3>1. PICK p \in 1..Len(Shelf[s]) :
            Shelf[s][p].key = k /\ Shelf' = [Shelf EXCEPT ![s] = Without(@, p)]
      BY <2>1, <2>2, ShelfRemove, ShelfIs
    <3> QED
      BY <3>1 DEF Components!Remove, Without
  <2>3. CASE ~Lists(container.byType[s], container.byName[k])
    <3>1. /\ \A i \in 1..Len(Shelf[s]) : Shelf[s][i].key # k
          /\ Shelf' = [r \in Services |-> [i \in 1..Len(Shelf[r]) |->
               IF Shelf[r][i].key = k THEN [Shelf[r][i] EXCEPT !.key = NoKey] ELSE Shelf[r][i]]]
      BY <2>1, <2>3, ShelfForget, ShelfIs
    <3>2. Components!Taken(k)
      BY <2>1, TakenMeans, ShelfIs DEF Components!Taken
    <3> QED
      BY <3>1, <3>2 DEF Components!Forget
  <2> QED
    BY <2>2, <2>3
<1>3. ASSUME NEW s \in Services, RemoveAll(s) PROVE Components!RemoveAll(s)
  BY <1>3, ShelfWithoutType, ShelfIs DEF RemoveAll, Components!RemoveAll
<1>4. CASE Clear
  <2>1. Components!Clear
    BY <1>4, ShelfEmpty, ShelfIs DEF Clear, Components!Clear
  <2> QED
    BY <2>1 DEF Components!Next
<1>5. CASE UNCHANGED container
  BY <1>5, ShelfIs
<1> QED
  BY <1>1, <1>2, <1>3, <1>4, <1>5 DEF Next, Components!Next

\* As long as no delegate is registered under two keys, the two dictionaries
\* together are one register of components: whatever the calls, what is found
\* by key and what is found by type are the same components.
THEOREM ImplementsRegistry ==
  ASSUME Reusable = {}
  PROVE  Spec => RegistrySpec
<1>1. Init => Components!Init
  BY ShelfEmpty, ShelfIs DEF Init, Components!Init
<1>2. Paired(container) /\ [Next]_container => [Components!Next]_Shelf
  BY RegistryStep
<1>3. Spec => []Paired(container)
  BY AlwaysPaired
<1> QED
  BY <1>1, <1>2, <1>3, PTL DEF Spec, RegistrySpec, Components!Spec

-----------------------------------------------------------------------------
(* RemoveAll and the keys of a type *)

LEMMA RemovedByType ==
  ASSUME NEW c, Paired(c), NEW s \in Services, NEW d, d = WithoutType(c, s), NEW f \in Factories
  PROVE  \/ KeySet(d, f) = {} /\ Places(d, f) = {}
         \/ KeySet(d, f) = KeySet(c, f) /\ Places(d, f) = Places(c, f)
<1>1. c \in Containers
  BY DEF Paired
<1>2. /\ KeySet(d, f) = IF Lists(c.byType[s], f) THEN {} ELSE KeySet(c, f)
      /\ Places(d, f) = {x \in Places(c, f) : x[1] # s}
      /\ ~Lists(c.byType[s], f) => Places(d, f) = Places(c, f)
  BY <1>1, WithoutTypeSets
<1>3. ASSUME Lists(c.byType[s], f), NEW x \in Places(c, f) PROVE x[1] = s
  <2>1. PICK i \in 1..Len(c.byType[s]) : c.byType[s][i] = f
    BY <1>3 DEF Lists
  <2>2. x[1] \in Services /\ x[2] \in 1..Len(c.byType[x[1]]) /\ c.byType[x[1]][x[2]] = f
    BY <1>1, PlacesAre
  <2> QED
    BY <2>1, <2>2 DEF Paired, OnePlace
<1> QED
  BY <1>2, <1>3

\* RemoveAll leaves no component of the type behind, neither by its key nor in
\* a list, and takes no other with it.
THEOREM RemovedTogether ==
  ASSUME Reusable = {}
  PROVE  Spec => RemoveAllByType
<1>1. Paired(container) /\ [Next]_container
        => [\A s \in Services : RemoveAll(s) =>
              \A f \in Factories : KeysOf(f) = ListingsOf(f) => KeysOf(f)' = ListingsOf(f)']_container
  <2> SUFFICES ASSUME Paired(container), NEW s \in Services, RemoveAll(s), NEW f \in Factories,
                      KeysOf(f) = ListingsOf(f)
               PROVE  KeysOf(f)' = ListingsOf(f)'
    OBVIOUS
  <2>1. \/ KeySet(container', f) = {} /\ Places(container', f) = {}
        \/ KeySet(container', f) = KeySet(container, f) /\ Places(container', f) = Places(container, f)
    BY RemovedByType DEF RemoveAll
  <2>2. /\ KeysOf(f) = Cardinality(KeySet(container, f))
        /\ KeysOf(f)' = Cardinality(KeySet(container', f))
        /\ ListingsOf(f) = Cardinality(Places(container, f))
        /\ ListingsOf(f)' = Cardinality(Places(container', f))
    BY DEF KeysOf, ListingsOf, KeySet
  <2> QED
    BY <2>1, <2>2
<1>2. Spec => []Paired(container)
  BY AlwaysPaired
<1> QED
  BY <1>1, <1>2, PTL DEF Spec, RemoveAllByType
=============================================================================
