---------------------------- MODULE StartupProofs ----------------------------
(***************************************************************************)
(* Proofs about Startup, for any document types and connections and any    *)
(* services that the application replaces, in any order.                   *)
(***************************************************************************)
EXTENDS Startup, Induction, SequenceTheorems, FiniteSetTheorems

-----------------------------------------------------------------------------
(* Registrations in turn *)

\* The container after each registration.
InTurn(c, regs, after) ==
  after = [i \in 0..Len(regs) |->
             IF i = 0 THEN c
             ELSE Registered(after[i - 1], regs[i].key, regs[i].service, regs[i].factory)]

\* A recursive function is there: it can be continued from each registration
\* to the next.
LEMMA RegisterInTurn ==
  ASSUME NEW c, NEW regs, Len(regs) \in Nat
  PROVE  \E after : InTurn(c, regs, after) /\ RegisterAll(c, regs) = after[Len(regs)]
<1> DEFINE Made(x, i) == Registered(x, regs[i].key, regs[i].service, regs[i].factory)
           Until(n, g) == g = [i \in 0..n |-> IF i = 0 THEN c ELSE Made(g[i - 1], i)]
           T == {n \in 0..Len(regs) : \E g : Until(n, g)}
<1>1. 0 \in T
  <2> DEFINE g == [i \in 0..0 |-> c]
  <2>1. Until(0, g)
    OBVIOUS
  <2>2. \E x : Until(0, x)
    BY <2>1
  <2> QED
    BY <2>2
<1>2. ASSUME NEW n \in 0..(Len(regs) - 1), n \in T PROVE n + 1 \in T
  <2>1. PICK g : Until(n, g)
    BY <1>2
  <2> DEFINE h == [i \in 0..(n + 1) |-> IF i = n + 1 THEN Made(g[n], n + 1) ELSE g[i]]
  <2> HIDE DEF Made
  <2>2. \A i \in 0..n : h[i] = g[i]
    OBVIOUS
  <2>3. \A i \in 0..n : h[i] = IF i = 0 THEN c ELSE Made(h[i - 1], i)
    <3> TAKE i \in 0..n
    <3>1. h[i] = IF i = 0 THEN c ELSE Made(g[i - 1], i)
      BY <2>1, <2>2
    <3>2. i # 0 => g[i - 1] = h[i - 1]
      BY <2>2
    <3> HIDE DEF h
    <3> QED
      BY <3>1, <3>2
  <2>4. h[n + 1] = Made(h[n], n + 1)
    BY <2>2
  <2> HIDE DEF h
  <2>5. \A i \in 0..(n + 1) : h[i] = IF i = 0 THEN c ELSE Made(h[i - 1], i)
    BY <2>3, <2>4
  <2>6. h = [i \in 0..(n + 1) |-> h[i]]
    BY DEF h
  <2>7. Until(n + 1, h)
    BY <2>5, <2>6
  <2> QED
    BY <2>7
<1> HIDE DEF T
<1>3. 0..Len(regs) \subseteq T
  BY <1>1, <1>2, UpTo
<1>4. \E g : Until(Len(regs), g)
  BY <1>3 DEF T
<1> DEFINE after == CHOOSE g : Until(Len(regs), g)
<1>5. Until(Len(regs), after)
  BY <1>4
<1>6. RegisterAll(c, regs) = after[Len(regs)]
  BY DEF RegisterAll
<1> HIDE DEF after
<1> QED
  BY <1>5, <1>6 DEF InTurn

\* A registration, as it is made.
Registrable == [key : Keys, service : Services, factory : Factories]

LEMMA RegisteredOnce ==
  ASSUME NEW c \in Containers, NEW k \in Keys, NEW s \in Services, NEW f \in Factories
  PROVE  Registered(c, k, s, f) \in Containers
<1>1. c.byName \in [Keys -> Factories \cup {NoFactory}] /\ c.byType \in [Services -> Seq(Factories)]
  BY DEF Containers
<1>2. Append(c.byType[s], f) \in Seq(Factories)
  BY <1>1
<1> QED
  BY <1>1, <1>2 DEF Registered, Containers

\* What every registration leaves true is true of the container at the end.
LEMMA RegisterAllKeeps ==
  ASSUME NEW c, NEW regs, Len(regs) \in Nat, NEW S, c \in S,
         \A i \in 1..Len(regs), x \in S :
           Registered(x, regs[i].key, regs[i].service, regs[i].factory) \in S
  PROVE  RegisterAll(c, regs) \in S
<1>1. PICK after : InTurn(c, regs, after) /\ RegisterAll(c, regs) = after[Len(regs)]
  BY RegisterInTurn
<1> DEFINE T == {i \in 0..Len(regs) : after[i] \in S}
<1>2. 0 \in T
  BY <1>1 DEF InTurn
<1>3. ASSUME NEW i \in 0..(Len(regs) - 1), i \in T PROVE i + 1 \in T
  <2>1. after[i + 1] = Registered(after[i], regs[i + 1].key, regs[i + 1].service,
                                  regs[i + 1].factory)
    BY <1>1 DEF InTurn
  <2> QED
    BY <1>3, <2>1
<1> HIDE DEF T
<1>4. 0..Len(regs) \subseteq T
  BY <1>2, <1>3, UpTo
<1> QED
  BY <1>1, <1>4 DEF T

LEMMA RegisterAllType ==
  ASSUME NEW c \in Containers, NEW regs, Len(regs) \in Nat,
         \A i \in 1..Len(regs) : regs[i] \in Registrable
  PROVE  RegisterAll(c, regs) \in Containers
BY RegisteredOnce, RegisterAllKeeps DEF Registrable

\* The oldest registration of a type is the one that counts.
LEMMA DefaultOfAppend ==
  ASSUME NEW c \in Containers, NEW b \in Containers, NEW s \in Services, NEW f \in Factories,
         b.byType[s] = Append(c.byType[s], f)
  PROVE  Default(b, s) = IF Default(c, s) = NoFactory THEN f ELSE Default(c, s)
<1>1. c.byType[s] \in Seq(Factories)
  BY DEF Containers
<1>2. c.byType[s] = <<>> => Head(Append(c.byType[s], f)) = f
  BY <1>1
<1>3. c.byType[s] # <<>> => /\ Head(Append(c.byType[s], f)) = Head(c.byType[s])
                            /\ Head(c.byType[s]) \in Factories
  BY <1>1
<1>4. Append(c.byType[s], f) # <<>>
  BY <1>1
<1> QED
  BY <1>2, <1>3, <1>4, StartupAssumption DEF Default

\* What a type is resolved to after several registrations, of which only the
\* j-th, if any, is of this type.
LEMMA DefaultAfterAll ==
  ASSUME NEW c \in Containers, NEW regs, Len(regs) \in Nat,
         \A i \in 1..Len(regs) : regs[i] \in Registrable,
         NEW s \in Services, NEW j \in Nat,
         \A i \in 1..Len(regs) : regs[i].service = s => i = j,
         j \in 1..Len(regs) => regs[j].service = s
  PROVE  Default(RegisterAll(c, regs), s)
           = IF j \in 1..Len(regs) /\ Default(c, s) = NoFactory THEN regs[j].factory
             ELSE Default(c, s)
<1>1. PICK after : InTurn(c, regs, after) /\ RegisterAll(c, regs) = after[Len(regs)]
  BY RegisterInTurn
<1> DEFINE Then(i) == IF j \in 1..i /\ Default(c, s) = NoFactory THEN regs[j].factory
                      ELSE Default(c, s)
           T == {i \in 0..Len(regs) : after[i] \in Containers /\ Default(after[i], s) = Then(i)}
<1>2. 0 \in T
  BY <1>1 DEF InTurn
<1>3. ASSUME NEW i \in 0..(Len(regs) - 1), i \in T PROVE i + 1 \in T
  <2> DEFINE x == after[i]
             y == after[i + 1]
             r == regs[i + 1]
  <2>1. y = Registered(x, r.key, r.service, r.factory)
    BY <1>1 DEF InTurn
  <2>2. i + 1 \in 1..Len(regs) /\ r.key \in Keys /\ r.service \in Services /\ r.factory \in Factories
    BY DEF Registrable
  <2>3. x \in Containers /\ Default(x, s) = Then(i)
    BY <1>3
  <2> HIDE DEF x, y, r
  <2>4. y \in Containers /\ y.byType[s] = IF s = r.service THEN Append(x.byType[s], r.factory)
                                          ELSE x.byType[s]
    <3>1. y \in Containers
      BY <2>1, <2>2, <2>3, RegisteredOnce
    <3>2. y.byType = [x.byType EXCEPT ![r.service] = Append(@, r.factory)]
      BY <2>1 DEF Registered
    <3>3. x.byType \in [Services -> Seq(Factories)]
      BY <2>3 DEF Containers
    <3> QED
      BY <2>2, <3>1, <3>2, <3>3
  <2>5. CASE i + 1 = j
    <3>1. r = regs[j] /\ r.service = s
      BY <2>2, <2>5 DEF r
    <3>2. Default(x, s) = Default(c, s)
      BY <2>3, <2>5
    <3>3. Default(y, s) = IF Default(c, s) = NoFactory THEN r.factory ELSE Default(c, s)
      BY <2>2, <2>3, <2>4, <3>1, <3>2, DefaultOfAppend
    <3>4. j \in 1..(i + 1)
      BY <2>5
    <3> QED
      BY <2>2, <2>4, <2>5, <3>1, <3>3, <3>4 DEF y
  <2>6. CASE i + 1 # j
    <3>1. r.service # s
      BY <2>2, <2>6 DEF r
    <3>2. Default(y, s) = Default(x, s)
      BY <2>4, <3>1 DEF Default
    <3>3. j \in 1..(i + 1) <=> j \in 1..i
      BY <2>6
    <3> QED
      BY <2>2, <2>3, <2>4, <3>2, <3>3 DEF y
  <2> QED
    BY <2>5, <2>6
<1> HIDE DEF T
<1>4. 0..Len(regs) \subseteq T
  BY <1>2, <1>3, UpTo
<1> QED
  BY <1>1, <1>4 DEF T

\* Which keys are taken after several registrations.
LEMMA KeysAfterAll ==
  ASSUME NEW c \in Containers, NEW regs, Len(regs) \in Nat,
         \A i \in 1..Len(regs) : regs[i] \in Registrable,
         NEW k \in Keys
  PROVE  Has(RegisterAll(c, regs), k) <=> Has(c, k) \/ \E i \in 1..Len(regs) : regs[i].key = k
<1>1. PICK after : InTurn(c, regs, after) /\ RegisterAll(c, regs) = after[Len(regs)]
  BY RegisterInTurn
<1> DEFINE Then(n) == Has(c, k) \/ \E i \in 1..n : regs[i].key = k
           T == {n \in 0..Len(regs) : after[n] \in Containers /\ (Has(after[n], k) <=> Then(n))}
<1>2. 0 \in T
  BY <1>1 DEF InTurn
<1>3. ASSUME NEW n \in 0..(Len(regs) - 1), n \in T PROVE n + 1 \in T
  <2> DEFINE x == after[n]
             y == after[n + 1]
             r == regs[n + 1]
  <2>1. y = Registered(x, r.key, r.service, r.factory)
    BY <1>1 DEF InTurn
  <2>2. n + 1 \in 1..Len(regs) /\ r.key \in Keys /\ r.service \in Services /\ r.factory \in Factories
    BY DEF Registrable
  <2>3. x \in Containers /\ (Has(x, k) <=> Then(n))
    BY <1>3
  <2>4. Then(n + 1) <=> Then(n) \/ r.key = k
    BY <2>2
  <2> HIDE DEF x, y, r, Then
  <2>5. y \in Containers
    BY <2>1, <2>2, <2>3, RegisteredOnce
  <2>6. Has(y, k) <=> Has(x, k) \/ r.key = k
    <3>1. y.byName = [x.byName EXCEPT ![r.key] = r.factory]
      BY <2>1 DEF Registered
    <3>2. x.byName \in [Keys -> Factories \cup {NoFactory}]
      BY <2>3 DEF Containers
    <3> QED
      BY <2>2, <3>1, <3>2, StartupAssumption DEF Has
  <2> QED
    BY <2>2, <2>3, <2>4, <2>5, <2>6 DEF y
<1> HIDE DEF T
<1>4. 0..Len(regs) \subseteq T
  BY <1>2, <1>3, UpTo
<1> QED
  BY <1>1, <1>4 DEF T

-----------------------------------------------------------------------------
(* What Init and InitContainer register *)

LEMMA NamesAreKeys ==
  /\ Services \subseteq Keys
  /\ \A i \in 1..10, d \in Docs : <<DocNames[i], d>> \in Services
  /\ \A i \in 1..12 : <<BaseNames[i], NoDoc>> \in Services
  /\ \A i \in 1..4 : <<Rules[i], NoDoc>> \in Keys
  /\ {<<"ISolrConnection", NoDoc>>, <<"ISolrCoreAdmin", NoDoc>>, <<"IValidationRule", NoDoc>>}
       \subseteq Services
  /\ \A d \in Docs, c \in Conns, n \in {"ISolrConnection", "ISolrCoreAdmin"} :
       ConnectionKey(n, d, c) \in Keys
<1>1. Len(DocNames) = 10 /\ DOMAIN DocNames = 1..10
  BY DEF DocNames
<1>2. Len(BaseNames) = 12 /\ DOMAIN BaseNames = 1..12
  BY DEF BaseNames
<1>3. Len(Rules) = 4 /\ DOMAIN Rules = 1..4
  BY DEF Rules
<1>4. /\ \A i \in 1..10 : DocNames[i] \in ToSet(DocNames)
      /\ \A i \in 1..12 : BaseNames[i] \in ToSet(BaseNames)
      /\ \A i \in 1..4 : Rules[i] \in ToSet(Rules)
  BY <1>1, <1>2, <1>3 DEF ToSet
<1> QED
  BY <1>4 DEF Services, Keys

LEMMA BuiltinIsAFactory ==
  ASSUME NEW k \in Keys, NEW d \in Docs \cup {NoDoc}, NEW c \in Conns \cup {NoConn}
  PROVE  Builtin(k[1], d, c) \in Factories
BY DEF Builtin, Factories

LEMMA InitRegistrations ==
  ASSUME NEW d \in Docs, NEW c \in Conns, NEW regs, regs = Registrations(d, c)
  PROVE  /\ Len(regs) = 12 /\ DOMAIN regs = 1..12
         /\ \A i \in 1..12 : regs[i] \in Registrable
         /\ regs[1] = Registration(ConnectionKey("ISolrConnection", d, c),
                       <<"ISolrConnection", NoDoc>>, Builtin("ISolrConnection", d, c))
         /\ \A i \in 1..10 : regs[i + 1] = ByName(DocNames[i], d, c)
         /\ regs[12] = Registration(ConnectionKey("ISolrCoreAdmin", d, c),
                       <<"ISolrCoreAdmin", NoDoc>>, Builtin("ISolrCoreAdmin", d, c))
<1> DEFINE connection == Registration(ConnectionKey("ISolrConnection", d, c),
                           <<"ISolrConnection", NoDoc>>, Builtin("ISolrConnection", d, c))
           coreAdmin == Registration(ConnectionKey("ISolrCoreAdmin", d, c),
                          <<"ISolrCoreAdmin", NoDoc>>, Builtin("ISolrCoreAdmin", d, c))
           named == [i \in DOMAIN DocNames |-> ByName(DocNames[i], d, c)]
<1>1. connection \in Registrable
  <2>1. Builtin("ISolrConnection", d, c) \in Factories
    <3>1. <<"ISolrConnection", NoDoc>> \in Keys
      BY NamesAreKeys
    <3> QED
      BY <3>1, BuiltinIsAFactory
  <2> QED
    BY <2>1, NamesAreKeys DEF Registrable, Registration
<1>2. coreAdmin \in Registrable
  <2>1. Builtin("ISolrCoreAdmin", d, c) \in Factories
    <3>1. <<"ISolrCoreAdmin", NoDoc>> \in Keys
      BY NamesAreKeys
    <3> QED
      BY <3>1, BuiltinIsAFactory
  <2> QED
    BY <2>1, NamesAreKeys DEF Registrable, Registration
<1>3. DOMAIN DocNames = 1..10
  BY DEF DocNames
<1>4. \A i \in 1..10 : ByName(DocNames[i], d, c) \in Registrable
  <2> TAKE i \in 1..10
  <2>1. <<DocNames[i], d>> \in Services /\ <<DocNames[i], d>> \in Keys
    BY NamesAreKeys
  <2>2. Builtin(DocNames[i], d, c) \in Factories
    BY <2>1, BuiltinIsAFactory
  <2> QED
    BY <2>1, <2>2 DEF Registrable, Registration, ByName
<1>5. /\ named \in Seq(Registrable) /\ Len(named) = 10
      /\ \A i \in 1..10 : named[i] = ByName(DocNames[i], d, c)
  BY <1>3, <1>4
<1>6. regs = (<<connection>> \o named) \o <<coreAdmin>>
  BY DEF Registrations
<1> HIDE DEF connection, coreAdmin, named
<1>7. /\ <<connection>> \in Seq(Registrable) /\ Len(<<connection>>) = 1
      /\ <<coreAdmin>> \in Seq(Registrable) /\ Len(<<coreAdmin>>) = 1
      /\ <<connection>>[1] = connection /\ <<coreAdmin>>[1] = coreAdmin
  BY <1>1, <1>2
<1> DEFINE front == <<connection>> \o named
<1>8. /\ front \in Seq(Registrable) /\ Len(front) = 11
      /\ front[1] = connection /\ \A i \in 1..10 : front[i + 1] = named[i]
  <2>1. /\ front \in Seq(Registrable)
        /\ Len(front) = Len(<<connection>>) + Len(named)
        /\ \A i \in 1..(Len(<<connection>>) + Len(named)) :
             front[i] = IF i <= Len(<<connection>>) THEN <<connection>>[i]
                        ELSE named[i - Len(<<connection>>)]
    BY ONLY <1>5, <1>7, ConcatProperties
  <2> HIDE DEF front
  <2> QED
    BY <1>5, <1>7, <2>1
<1> HIDE DEF front
<1>9. /\ regs \in Seq(Registrable) /\ Len(regs) = 12
      /\ \A i \in 1..11 : regs[i] = front[i]
      /\ regs[12] = coreAdmin
  <2>1. regs = front \o <<coreAdmin>>
    BY <1>6 DEF front
  <2>2. /\ front \o <<coreAdmin>> \in Seq(Registrable)
        /\ Len(front \o <<coreAdmin>>) = Len(front) + Len(<<coreAdmin>>)
        /\ \A i \in 1..(Len(front) + Len(<<coreAdmin>>)) :
             (front \o <<coreAdmin>>)[i] = IF i <= Len(front) THEN front[i]
                                          ELSE <<coreAdmin>>[i - Len(front)]
    BY ONLY <1>7, <1>8, ConcatProperties
  <2>3. Len(front) + Len(<<coreAdmin>>) = 12 /\ Len(front) = 11
    BY <1>7, <1>8
  <2>4. \A i \in 1..12 : regs[i] = IF i <= 11 THEN front[i] ELSE <<coreAdmin>>[i - 11]
    BY ONLY <2>1, <2>2, <2>3
  <2>5. <<coreAdmin>>[12 - 11] = coreAdmin
    BY <1>7
  <2> QED
    BY <2>1, <2>2, <2>3, <2>4, <2>5
<1>10. \A i \in 1..10 : regs[i + 1] = ByName(DocNames[i], d, c)
  BY <1>5, <1>8, <1>9
<1>11. \A i \in 1..12 : regs[i] \in Registrable
  BY <1>9, ElementOfSeq
<1> QED
  BY <1>8, <1>9, <1>10, <1>11 DEF connection, coreAdmin

LEMMA DefaultRegistrations ==
  \E regs :
    /\ Defaults = RegisterAll(Empty, regs)
    /\ Len(regs) = 16
    /\ \A i \in 1..16 : regs[i] \in Registrable
    /\ \A i \in 1..12 : regs[i] = ByName(BaseNames[i], NoDoc, NoConn)
    /\ \A i \in 1..4 : regs[i + 12] = Registration(<<Rules[i], NoDoc>>, <<"IValidationRule", NoDoc>>,
                                                   Builtin(Rules[i], NoDoc, NoConn))
<1> DEFINE Rule(i) == Registration(<<Rules[i], NoDoc>>, <<"IValidationRule", NoDoc>>,
                                   Builtin(Rules[i], NoDoc, NoConn))
           base == [i \in DOMAIN BaseNames |-> ByName(BaseNames[i], NoDoc, NoConn)]
           rules == [i \in DOMAIN Rules |-> Rule(i)]
           regs == base \o rules
<1>1. DOMAIN BaseNames = 1..12 /\ DOMAIN Rules = 1..4
  BY DEF BaseNames, Rules
<1>2. \A i \in 1..12 : ByName(BaseNames[i], NoDoc, NoConn) \in Registrable
  <2> TAKE i \in 1..12
  <2>1. <<BaseNames[i], NoDoc>> \in Services /\ <<BaseNames[i], NoDoc>> \in Keys
    BY NamesAreKeys
  <2>2. Builtin(BaseNames[i], NoDoc, NoConn) \in Factories
    BY <2>1, BuiltinIsAFactory
  <2> QED
    BY <2>1, <2>2 DEF Registrable, Registration, ByName
<1>3. \A i \in 1..4 : Rule(i) \in Registrable
  <2> TAKE i \in 1..4
  <2>1. <<Rules[i], NoDoc>> \in Keys
    BY NamesAreKeys
  <2>2. Builtin(Rules[i], NoDoc, NoConn) \in Factories
    BY <2>1, BuiltinIsAFactory
  <2> QED
    BY <2>1, <2>2, NamesAreKeys DEF Registrable, Registration
<1> HIDE DEF Rule
<1>4. /\ base \in Seq(Registrable) /\ Len(base) = 12
      /\ \A i \in 1..12 : base[i] = ByName(BaseNames[i], NoDoc, NoConn)
  BY <1>1, <1>2
<1>5. rules \in Seq(Registrable) /\ Len(rules) = 4 /\ \A i \in 1..4 : rules[i] = Rule(i)
  BY <1>1, <1>3
<1>6. Defaults = RegisterAll(Empty, regs)
  BY DEF Defaults, Rule
<1> HIDE DEF base, rules
<1>7. /\ regs \in Seq(Registrable)
      /\ Len(regs) = Len(base) + Len(rules)
      /\ \A i \in 1..(Len(base) + Len(rules)) :
           regs[i] = IF i <= Len(base) THEN base[i] ELSE rules[i - Len(base)]
  BY ONLY <1>4, <1>5, ConcatProperties
<1> HIDE DEF regs
<1>8. Len(regs) = 16 /\ \A i \in 1..12 : regs[i] = base[i]
  BY <1>4, <1>5, <1>7
<1>9. \A i \in 1..4 : regs[i + 12] = rules[i]
  <2> TAKE i \in 1..4
  <2>1. i + 12 \in 1..16 /\ ~(i + 12 <= 12) /\ (i + 12) - 12 = i
    OBVIOUS
  <2>2. Len(base) = 12 /\ Len(base) + Len(rules) = 16
    BY <1>4, <1>5
  <2> QED
    BY ONLY <1>7, <2>1, <2>2
<1>10. \A i \in 1..16 : regs[i] \in Registrable
  BY <1>7, <1>8, ElementOfSeq
<1>11. /\ Defaults = RegisterAll(Empty, regs)
       /\ Len(regs) = 16
       /\ \A i \in 1..16 : regs[i] \in Registrable
       /\ \A i \in 1..12 : regs[i] = ByName(BaseNames[i], NoDoc, NoConn)
       /\ \A i \in 1..4 : regs[i + 12] = Rule(i)
  BY <1>4, <1>5, <1>6, <1>8, <1>9, <1>10
<1> QED
  BY <1>11 DEF Rule

LEMMA EmptyIsAContainer ==
  Empty \in Containers /\ (\A s \in Services : Default(Empty, s) = NoFactory)
    /\ (\A k \in Keys : ~Has(Empty, k))
BY DEF Empty, Containers, Default, Has

LEMMA DefaultsMean ==
  /\ Defaults \in Containers
  /\ \A i \in 1..12 : Default(Defaults, <<BaseNames[i], NoDoc>>) # NoFactory
  /\ \A s \in Services : s[2] \in Docs => Default(Defaults, s) = NoFactory
<1>1. PICK regs :
        /\ Defaults = RegisterAll(Empty, regs)
        /\ Len(regs) = 16
        /\ \A i \in 1..16 : regs[i] \in Registrable
        /\ \A i \in 1..12 : regs[i] = ByName(BaseNames[i], NoDoc, NoConn)
        /\ \A i \in 1..4 : regs[i + 12] = Registration(<<Rules[i], NoDoc>>,
             <<"IValidationRule", NoDoc>>, Builtin(Rules[i], NoDoc, NoConn))
  BY DefaultRegistrations
<1> DEFINE all == /\ Empty \in Containers /\ Len(regs) \in Nat
                  /\ \A i \in 1..Len(regs) : regs[i] \in Registrable
<1>0. all
  <2>1. Len(regs) = 16
    BY <1>1
  <2> QED
    BY <1>1, <2>1, EmptyIsAContainer
<1>2. Defaults \in Containers
  <2>1. RegisterAll(Empty, regs) \in Containers
    BY ONLY <1>0, RegisterAllType
  <2> QED
    BY <1>1, <2>1
<1>3. \A i \in 1..12 : regs[i].service = <<BaseNames[i], NoDoc>> /\ regs[i].factory # NoFactory
  BY <1>1, StartupAssumption DEF ByName, Registration, Registrable
<1>4. \A i \in 1..4 : regs[i + 12].service = <<"IValidationRule", NoDoc>>
  BY <1>1 DEF Registration
<1>5. \A i \in 13..16 : regs[i].service = <<"IValidationRule", NoDoc>>
  <2> TAKE i \in 13..16
  <2>1. i - 12 \in 1..4 /\ (i - 12) + 12 = i
    OBVIOUS
  <2> QED
    BY <1>4, <2>1
<1>6. \A i \in 1..12 : BaseNames[i] # "IValidationRule"
  BY DEF BaseNames
<1>7. \A i, j \in 1..12 : BaseNames[i] = BaseNames[j] => i = j
  BY DEF BaseNames
<1>8. \A i \in 1..16 : i \in 1..12 \/ i \in 13..16
  OBVIOUS
<1>9. ASSUME NEW j \in 1..12 PROVE Default(Defaults, <<BaseNames[j], NoDoc>>) # NoFactory
  <2> DEFINE s == <<BaseNames[j], NoDoc>>
  <2>1. s \in Services
    BY NamesAreKeys
  <2>2. \A i \in 1..16 : regs[i].service = s => i = j
    BY <1>3, <1>5, <1>6, <1>7, <1>8
  <2>3. j \in 1..16 /\ regs[j].service = s /\ regs[j].factory # NoFactory
    BY <1>3
  <2> HIDE DEF s
  <2>4. Default(RegisterAll(Empty, regs), s)
          = IF j \in 1..Len(regs) /\ Default(Empty, s) = NoFactory THEN regs[j].factory
            ELSE Default(Empty, s)
    <3>1. /\ \A i \in 1..Len(regs) : regs[i].service = s => i = j
          /\ j \in 1..Len(regs) => regs[j].service = s
      BY <1>1, <2>2, <2>3
    <3> QED
      BY ONLY <1>0, <2>1, <3>1, j \in Nat, DefaultAfterAll
  <2> QED
    BY <1>1, <2>1, <2>3, <2>4, EmptyIsAContainer DEF s
<1>10. ASSUME NEW s \in Services, s[2] \in Docs PROVE Default(Defaults, s) = NoFactory
  <2>1. \A i \in 1..16 : regs[i].service # s
    BY <1>3, <1>5, <1>8, <1>10, StartupAssumption
  <2>2. Default(RegisterAll(Empty, regs), s)
          = IF 0 \in 1..Len(regs) /\ Default(Empty, s) = NoFactory THEN regs[0].factory
            ELSE Default(Empty, s)
    <3>1. /\ \A i \in 1..Len(regs) : regs[i].service = s => i = 0
          /\ 0 \in 1..Len(regs) => regs[0].service = s
      BY <1>1, <2>1
    <3> QED
      BY ONLY <1>0, <3>1, s \in Services, 0 \in Nat, DefaultAfterAll
  <2> QED
    BY <1>1, <2>2, EmptyIsAContainer
<1> QED
  BY <1>2, <1>9, <1>10

\* No key of an accepted registration is taken.
LEMMA AcceptedMeans ==
  ASSUME NEW regs, Len(regs) \in Nat, DOMAIN regs = 1..Len(regs)
  PROVE  /\ Accepted(regs) \in 0..Len(regs)
         /\ \A i \in 1..Accepted(regs) : ~Has(containers["startup"], regs[i].key)
<1> DEFINE refused == {i \in DOMAIN regs : Has(containers["startup"], regs[i].key)}
<1>1. CASE refused = {}
  <2>1. Accepted(regs) = Len(regs)
    BY <1>1 DEF Accepted
  <2> QED
    BY <1>1, <2>1
<1>2. CASE refused # {}
  <2>1. \E i \in refused : \A j \in refused : i <= j
    <3>1. refused \in SUBSET Nat
      OBVIOUS
    <3> QED
      BY ONLY <1>2, <3>1, LeastNumber
  <2>2. Min(refused) \in refused /\ \A j \in refused : Min(refused) <= j
    BY <2>1 DEF Min
  <2>3. Accepted(regs) = Min(refused) - 1
    BY <1>2 DEF Accepted
  <2>4. Min(refused) \in 1..Len(regs)
    BY <2>2
  <2>5. \A i \in 1..(Min(refused) - 1) : i \in DOMAIN regs /\ i \notin refused
    <3> TAKE i \in 1..(Min(refused) - 1)
    <3>1. i \in DOMAIN regs /\ ~(Min(refused) <= i)
      BY <2>4
    <3> HIDE DEF refused
    <3> QED
      BY <2>2, <3>1
  <2> QED
    BY <2>3, <2>4, <2>5
<1> QED
  BY <1>1, <1>2

\* What a call of Init does to the container: the first n registrations.
LEMMA InitTypeMeans ==
  ASSUME TypeOK, NEW d \in Docs, NEW c \in Conns, InitType(d, c)
  PROVE  \E n, regs :
           /\ n \in 0..12
           /\ containers["startup"] \in Containers /\ containers'["startup"] \in Containers
           /\ containers' = [containers EXCEPT !["startup"] = containers'["startup"]]
           /\ Len(regs) = n
           /\ \A i \in 1..n : regs[i] \in Registrable /\ regs[i] = Registrations(d, c)[i]
           /\ \A i \in 1..n : ~Has(containers["startup"], regs[i].key)
           /\ containers'["startup"] = RegisterAll(containers["startup"], regs)
<1> DEFINE all == Registrations(d, c)
           n == Accepted(all)
           regs == SubSeq(all, 1, n)
<1>1. /\ Len(all) = 12 /\ DOMAIN all = 1..12
      /\ \A i \in 1..12 : all[i] \in Registrable
  BY InitRegistrations
<1>2. /\ containers' = [containers EXCEPT !["startup"] = RegisterAll(containers["startup"], regs)]
  BY DEF InitType
<1> HIDE DEF all
<1>3. n \in 0..12 /\ \A i \in 1..n : ~Has(containers["startup"], all[i].key)
  <2>1. Len(all) \in Nat /\ DOMAIN all = 1..Len(all)
    BY <1>1
  <2> QED
    BY <1>1, <2>1, AcceptedMeans
<1> HIDE DEF n
<1>4. /\ Len(regs) = n
      /\ \A i \in 1..n : regs[i] = all[i]
  <2>1. \A i \in 1..n : all[i] \in Registrable
    BY <1>1, <1>3
  <2>2. 1 \in Int /\ n \in Int
    BY <1>3
  <2>3. /\ Len(regs) = IF 1 <= n THEN n - 1 + 1 ELSE 0
        /\ \A i \in 1..(n - 1 + 1) : regs[i] = all[1 + i - 1]
    BY ONLY <2>1, <2>2, SubSeqProperties
  <2> HIDE DEF regs
  <2>4. \A i \in 1..n : 1 + i - 1 = i
    BY <1>3
  <2> QED
    BY <1>3, <2>3, <2>4
<1> HIDE DEF regs
<1>5. \A i \in 1..n : regs[i] \in Registrable
  BY <1>1, <1>3, <1>4
<1>6. /\ containers \in [Which -> Containers] /\ "startup" \in Which
  BY DEF TypeOK, Which
<1>7. RegisterAll(containers["startup"], regs) \in Containers
  <2>1. /\ containers["startup"] \in Containers /\ Len(regs) \in Nat
        /\ \A i \in 1..Len(regs) : regs[i] \in Registrable
    BY <1>3, <1>4, <1>5, <1>6
  <2> QED
    BY ONLY <2>1, RegisterAllType
<1>8. containers'["startup"] = RegisterAll(containers["startup"], regs)
  BY <1>2, <1>6
<1>9. /\ containers["startup"] \in Containers /\ containers'["startup"] \in Containers
      /\ containers' = [containers EXCEPT !["startup"] = containers'["startup"]]
      /\ Len(regs) = n
      /\ \A i \in 1..n : regs[i] \in Registrable /\ regs[i] = all[i]
      /\ \A i \in 1..n : ~Has(containers["startup"], regs[i].key)
      /\ containers'["startup"] = RegisterAll(containers["startup"], regs)
  BY <1>2, <1>3, <1>4, <1>5, <1>6, <1>7, <1>8
<1> QED
  BY <1>3, <1>9 DEF all

\* The same for each service: what was not there is made with the connection
\* of this call, up to the first key that is taken.
MakesFirst(n, C, D, d, c) ==
  /\ \A i \in 1..10 : i + 1 <= n => ~Has(C, <<DocNames[i], d>>) /\ Has(D, <<DocNames[i], d>>)
  /\ \A i \in 1..10 :
       Default(D, <<DocNames[i], d>>)
         = IF i + 1 <= n /\ Default(C, <<DocNames[i], d>>) = NoFactory
           THEN Builtin(DocNames[i], d, c)
           ELSE Default(C, <<DocNames[i], d>>)
  /\ \A k \in Keys : Has(C, k) => Has(D, k)
  /\ \A s \in Services :
       s[2] # d /\ s[1] \notin {"ISolrConnection", "ISolrCoreAdmin"}
         => Default(D, s) = Default(C, s)

LEMMA InitTypeEffect ==
  ASSUME TypeOK, NEW d \in Docs, NEW c \in Conns, InitType(d, c)
  PROVE  \E n \in 0..12 : MakesFirst(n, containers["startup"], containers'["startup"], d, c)
<1> DEFINE C == containers["startup"]
           D == containers'["startup"]
<1>1. PICK n, regs :
           /\ n \in 0..12
           /\ C \in Containers /\ D \in Containers
           /\ Len(regs) = n
           /\ \A i \in 1..n : regs[i] \in Registrable /\ regs[i] = Registrations(d, c)[i]
           /\ \A i \in 1..n : ~Has(C, regs[i].key)
           /\ D = RegisterAll(C, regs)
  BY InitTypeMeans
<1> HIDE DEF C, D
<1> DEFINE all == Registrations(d, c)
           registrable == /\ C \in Containers /\ Len(regs) \in Nat
                          /\ \A i \in 1..Len(regs) : regs[i] \in Registrable
<1>2. registrable
  BY <1>1
<1>3. /\ \A i \in 1..10 : /\ all[i + 1].key = <<DocNames[i], d>>
                         /\ all[i + 1].service = <<DocNames[i], d>>
                         /\ all[i + 1].factory = Builtin(DocNames[i], d, c)
      /\ all[1].service = <<"ISolrConnection", NoDoc>>
      /\ all[12].service = <<"ISolrCoreAdmin", NoDoc>>
  <2>1. /\ all[1] = Registration(ConnectionKey("ISolrConnection", d, c),
                      <<"ISolrConnection", NoDoc>>, Builtin("ISolrConnection", d, c))
        /\ \A i \in 1..10 : all[i + 1] = ByName(DocNames[i], d, c)
        /\ all[12] = Registration(ConnectionKey("ISolrCoreAdmin", d, c),
                       <<"ISolrCoreAdmin", NoDoc>>, Builtin("ISolrCoreAdmin", d, c))
    BY ONLY d \in Docs, c \in Conns, InitRegistrations
  <2> HIDE DEF all
  <2> QED
    BY <2>1 DEF ByName, Registration
<1>4. \A i, j \in 1..10 : DocNames[i] = DocNames[j] => i = j
  BY DEF DocNames
<1>5. \A i \in 1..12 : i = 1 \/ i = 12 \/ \E j \in 1..10 : i = j + 1
  <2> TAKE i \in 1..12
  <2>1. i = 1 \/ i = 12 \/ (i - 1 \in 1..10 /\ i = (i - 1) + 1)
    OBVIOUS
  <2> QED
    BY <2>1
<1>6. d # NoDoc
  BY StartupAssumption
<1>7. \A i \in 1..n : i \in 1..12 /\ regs[i] = all[i]
  BY <1>1
<1> HIDE DEF all
<1>8. ASSUME NEW i \in 1..10, i + 1 <= n
      PROVE  ~Has(C, <<DocNames[i], d>>) /\ Has(D, <<DocNames[i], d>>)
  <2>1. i + 1 \in 1..n /\ regs[i + 1].key = <<DocNames[i], d>>
    BY <1>3, <1>7, <1>8
  <2>2. <<DocNames[i], d>> \in Keys
    BY NamesAreKeys
  <2>3. i + 1 \in 1..Len(regs)
    BY <1>1, <2>1
  <2>4. Has(RegisterAll(C, regs), <<DocNames[i], d>>)
    <3>1. \E j \in 1..Len(regs) : regs[j].key = <<DocNames[i], d>>
      BY <2>1, <2>3
    <3> QED
      BY ONLY <1>2, <2>2, <3>1, KeysAfterAll
  <2> QED
    BY <1>1, <2>1, <2>4
<1>9. ASSUME NEW i \in 1..10
      PROVE  Default(D, <<DocNames[i], d>>)
                  = IF i + 1 <= n /\ Default(C, <<DocNames[i], d>>) = NoFactory
                    THEN Builtin(DocNames[i], d, c)
                    ELSE Default(C, <<DocNames[i], d>>)
  <2> DEFINE s == <<DocNames[i], d>>
             j == i + 1
  <2>1. s \in Services
    BY NamesAreKeys
  <2>2. ASSUME NEW m \in 1..Len(regs), regs[m].service = s PROVE m = j
    <3>1. m \in 1..12 /\ all[m].service = s
      BY <1>1, <1>7, <2>2
    <3>2. m # 1 /\ m # 12
      BY <1>3, <1>6, <3>1
    <3>3. PICK p \in 1..10 : m = p + 1
      BY <1>5, <3>1, <3>2
    <3>4. DocNames[p] = DocNames[i]
      <4>1. all[p + 1].service = <<DocNames[p], d>>
        BY <1>3
      <4>2. <<DocNames[p], d>> = <<DocNames[i], d>>
        BY <3>1, <3>3, <4>1
      <4> QED
        BY <4>2
    <3> QED
      BY <1>4, <3>3, <3>4
  <2>3. /\ j \in 1..Len(regs) <=> i + 1 <= n
        /\ j \in 1..Len(regs) => regs[j].service = s /\ regs[j].factory = Builtin(DocNames[i], d, c)
    <3>1. j \in 1..Len(regs) <=> i + 1 <= n
      BY <1>1
    <3>2. ASSUME i + 1 <= n PROVE regs[j] = all[j]
      BY <1>7, <3>2
    <3> QED
      BY <1>3, <3>1, <3>2
  <2>4. j \in Nat
    OBVIOUS
  <2> HIDE DEF s, j
  <2>5. Default(RegisterAll(C, regs), s)
          = IF j \in 1..Len(regs) /\ Default(C, s) = NoFactory THEN regs[j].factory
            ELSE Default(C, s)
    BY ONLY <1>2, <2>1, <2>2, <2>3, <2>4, DefaultAfterAll
  <2>6. Default(D, s) = IF i + 1 <= n /\ Default(C, s) = NoFactory
                        THEN Builtin(DocNames[i], d, c) ELSE Default(C, s)
    BY <1>1, <2>3, <2>5
  <2> QED
    BY <2>6 DEF s
<1>10. ASSUME NEW k \in Keys, Has(C, k) PROVE Has(D, k)
  <2>1. Has(RegisterAll(C, regs), k)
    BY ONLY <1>2, k \in Keys, Has(C, k), KeysAfterAll
  <2> QED
    BY <1>1, <2>1
<1>11. ASSUME NEW s \in Services, s[2] # d, s[1] \notin {"ISolrConnection", "ISolrCoreAdmin"}
       PROVE  Default(D, s) = Default(C, s)
  <2>1. ASSUME NEW m \in 1..Len(regs) PROVE regs[m].service # s
    <3>1. m \in 1..12 /\ regs[m] = all[m]
      BY <1>1, <1>7
    <3>2. m = 1 \/ m = 12 => all[m].service # s
      BY <1>3, <1>11
    <3>3. ASSUME NEW p \in 1..10, m = p + 1 PROVE all[m].service # s
      BY <1>3, <1>11, <3>3
    <3> QED
      BY <1>5, <3>1, <3>2, <3>3
  <2>2. /\ \A m \in 1..Len(regs) : regs[m].service = s => m = 0
        /\ 0 \in 1..Len(regs) => regs[0].service = s
    BY <2>1
  <2>3. Default(RegisterAll(C, regs), s)
          = IF 0 \in 1..Len(regs) /\ Default(C, s) = NoFactory THEN regs[0].factory
            ELSE Default(C, s)
    BY ONLY <1>2, <2>2, s \in Services, 0 \in Nat, DefaultAfterAll
  <2>4. 0 \notin 1..Len(regs)
    BY <1>2
  <2> QED
    BY <1>1, <2>3, <2>4
<1>12. n \in 0..12 /\ MakesFirst(n, C, D, d, c)
  BY <1>1, <1>8, <1>9, <1>10, <1>11 DEF MakesFirst
<1> QED
  BY <1>12 DEF C, D

-----------------------------------------------------------------------------
(* The types of the variables *)

LEMMA OwnIsAFactory ==
  ASSUME NEW s \in Services
  PROVE  Own(s) \in Factories
<1>1. s \in Keys /\ s[2] \in Docs \cup {NoDoc}
  BY NamesAreKeys DEF Services
<1> QED
  BY <1>1 DEF Own, Factories

LEMMA WithoutTypeIsAContainer ==
  ASSUME NEW c \in Containers, NEW s \in Services
  PROVE  WithoutType(c, s) \in Containers
<1>1. c.byName \in [Keys -> Factories \cup {NoFactory}] /\ c.byType \in [Services -> Seq(Factories)]
  BY DEF Containers
<1>2. <<>> \in Seq(Factories)
  OBVIOUS
<1>3. [c.byType EXCEPT ![s] = <<>>] \in [Services -> Seq(Factories)]
  BY <1>1, <1>2
<1> DEFINE byName == [k \in Keys |-> IF \E i \in 1..Len(c.byType[s]) : c.byType[s][i] = c.byName[k]
                                     THEN NoFactory ELSE c.byName[k]]
<1>4. byName \in [Keys -> Factories \cup {NoFactory}]
  BY <1>1
<1> QED
  BY <1>3, <1>4 DEF WithoutType, Containers, Lists

LEMMA TypeInit == Init => TypeOK
BY DefaultsMean, EmptyIsAContainer DEF Init, TypeOK, Which

LEMMA TypeStep == TypeOK /\ [Next]_vars => TypeOK'
<1> SUFFICES ASSUME TypeOK, [Next]_vars PROVE TypeOK'
  OBVIOUS
<1>0. /\ "startup" \in Which /\ "copy" \in Which /\ Replaceable \subseteq Services
      /\ containers["startup"] \in Containers
  BY StartupAssumption DEF TypeOK, Which
<1>1. CASE InitContainer
  BY <1>0, <1>1, DefaultsMean DEF InitContainer, TypeOK
<1>2. ASSUME NEW d \in Docs, NEW c \in Conns, InitType(d, c) PROVE TypeOK'
  <2>1. /\ containers'["startup"] \in Containers
        /\ containers' = [containers EXCEPT !["startup"] = containers'["startup"]]
    BY <1>2, InitTypeMeans
  <2>2. containers' \in [Which -> Containers]
    BY <2>1 DEF TypeOK
  <2> QED
    BY <1>2, <2>2 DEF InitType, TypeOK
<1>3. ASSUME NEW w \in Which, NEW s \in Replaceable, RemoveAllOf(w, s) PROVE TypeOK'
  <2>1. WithoutType(containers[w], s) \in Containers
    BY <1>0, WithoutTypeIsAContainer DEF TypeOK
  <2> QED
    BY <1>0, <1>3, <2>1 DEF RemoveAllOf, TypeOK
<1>4. ASSUME NEW w \in Which, NEW s \in Replaceable, RegisterOwn(w, s) PROVE TypeOK'
  <2>1. s \in Keys /\ s \in Services /\ Own(s) \in Factories /\ containers[w] \in Containers
    BY <1>0, NamesAreKeys, OwnIsAFactory DEF TypeOK
  <2>2. Registered(containers[w], s, s, Own(s)) \in Containers
    BY <2>1, RegisteredOnce
  <2> QED
    BY <1>0, <1>4, <2>2 DEF RegisterOwn, TypeOK
<1>5. ASSUME NEW w \in Which, SetLocatorProvider(w) PROVE TypeOK'
  BY <1>5 DEF SetLocatorProvider, TypeOK
<1>6. CASE CopyContainer
  BY <1>0, <1>6 DEF CopyContainer, TypeOK
<1>7. CASE ClearStartup
  BY <1>0, <1>7, EmptyIsAContainer DEF ClearStartup, TypeOK
<1>8. CASE UNCHANGED vars
  BY <1>8 DEF vars, TypeOK
<1> QED
  BY <1>1, <1>2, <1>3, <1>4, <1>5, <1>6, <1>7, <1>8 DEF Next

\* The containers hold factories of the kinds the model knows, under keys and
\* types that it knows, after any sequence of calls.
THEOREM TypeCorrect == Spec => []TypeOK
BY TypeInit, TypeStep, PTL DEF Spec

-----------------------------------------------------------------------------
(* The invariant *)

\* A factory is registered under its own name and for its own document type;
\* only the validation rules share a type.
Fits(f, s) ==
  /\ f.name = s[1] \/ (s[1] = "IValidationRule" /\ f.name \in ToSet(Rules))
  /\ s[2] \in Docs => f.doc = s[2]

Labelled(C) ==
  /\ \A k \in Keys : Has(C, k) => C.byName[k].name = k[1]
  /\ \A s \in Services : \A i \in 1..Len(C.byType[s]) : Fits(C.byType[s][i], s)

OfferedIn(C, d) ==
  LET operations == Default(C, <<"ISolrOperations", d>>)
  IN  operations # NoFactory /\ ~operations.own

\* What holds the connection of a document type was put there by Init, from
\* the query executer on, each with the connection of the one before.
Holders == {"ISolrQueryExecuter", "ISolrBasicOperations", "ISolrBasicReadOnlyOperations"}

MadeByInit(C, n, d) ==
  Default(C, <<n, d>>) # NoFactory =>
    /\ ~Default(C, <<n, d>>).own
    /\ Has(C, <<n, d>>)

Follows(C, n, m, d) ==
  Default(C, <<n, d>>) # NoFactory =>
    /\ Default(C, <<m, d>>) # NoFactory
    /\ Default(C, <<n, d>>).conn = Default(C, <<m, d>>).conn

SameConnection(C, d) ==
  /\ \A n \in Holders : MadeByInit(C, n, d)
  /\ Follows(C, "ISolrBasicOperations", "ISolrQueryExecuter", d)
  /\ Follows(C, "ISolrBasicReadOnlyOperations", "ISolrBasicOperations", d)
  /\ OfferedIn(C, d) => Default(C, <<"ISolrBasicReadOnlyOperations", d>>) # NoFactory

\* What the operations are made from is there, or the application took it away.
Complete(C, gone, d) ==
  OfferedIn(C, d) =>
    \A i \in 1..8 : Default(C, <<DocNames[i], d>>) # NoFactory \/ <<DocNames[i], d>> \in gone

BaseThere(C, gone) ==
  \A i \in 1..12 :
    Default(C, <<BaseNames[i], NoDoc>>) # NoFactory \/ <<BaseNames[i], NoDoc>> \in gone

Sound(C, gone) ==
  /\ Labelled(C)
  /\ \A d \in Docs : SameConnection(C, d) /\ Complete(C, gone, d)
  /\ BaseThere(C, gone)

Inv == TypeOK /\ Sound(containers["startup"], gaps["startup"])

-----------------------------------------------------------------------------
(* Labels *)

Fitting(r) == r.factory.name = r.key[1] /\ Fits(r.factory, r.service)

LEMMA LabelledOnce ==
  ASSUME NEW c \in Containers, Labelled(c), NEW r \in Registrable, Fitting(r)
  PROVE  Labelled(Registered(c, r.key, r.service, r.factory))
<1> DEFINE k == r.key
           s == r.service
           f == r.factory
           y == Registered(c, k, s, f)
<1>1. /\ c.byName \in [Keys -> Factories \cup {NoFactory}]
      /\ c.byType \in [Services -> Seq(Factories)]
      /\ k \in Keys /\ s \in Services /\ f \in Factories
  BY DEF Containers, Registrable
<1>2. y.byName = [c.byName EXCEPT ![k] = f] /\ y.byType = [c.byType EXCEPT ![s] = Append(@, f)]
  BY DEF Registered
<1>3. f.name = k[1] /\ Fits(f, s)
  BY DEF Fitting
<1> HIDE DEF k, s, f, y
<1>4. \A q \in Keys : Has(y, q) => y.byName[q].name = q[1]
  BY <1>1, <1>2, <1>3 DEF Labelled, Has
<1>5. ASSUME NEW q \in Services, NEW i \in 1..Len(y.byType[q]) PROVE Fits(y.byType[q][i], q)
  <2>1. CASE q = s
    <3>1. y.byType[q] = Append(c.byType[s], f) /\ c.byType[s] \in Seq(Factories)
      BY <1>1, <1>2, <2>1
    <3>2. \/ i \in 1..Len(c.byType[s]) /\ y.byType[q][i] = c.byType[s][i]
          \/ y.byType[q][i] = f
      BY <1>1, <3>1
    <3> QED
      BY <1>1, <1>3, <2>1, <3>2 DEF Labelled
  <2>2. CASE q # s
    <3>1. y.byType[q] = c.byType[q]
      BY <1>1, <1>2, <2>2
    <3> QED
      BY <3>1 DEF Labelled
  <2> QED
    BY <2>1, <2>2
<1> QED
  BY <1>4, <1>5 DEF Labelled, k, s, f, y

LEMMA LabelledAll ==
  ASSUME NEW c \in Containers, Labelled(c), NEW regs, Len(regs) \in Nat,
         \A i \in 1..Len(regs) : regs[i] \in Registrable /\ Fitting(regs[i])
  PROVE  Labelled(RegisterAll(c, regs))
<1> DEFINE S == {x \in Containers : Labelled(x)}
<1>1. ASSUME NEW i \in 1..Len(regs), NEW x \in S
      PROVE  Registered(x, regs[i].key, regs[i].service, regs[i].factory) \in S
  <2>1. x \in Containers /\ Labelled(x) /\ regs[i] \in Registrable /\ Fitting(regs[i])
    OBVIOUS
  <2>2. Labelled(Registered(x, regs[i].key, regs[i].service, regs[i].factory))
    BY ONLY <2>1, LabelledOnce
  <2>3. regs[i].key \in Keys /\ regs[i].service \in Services /\ regs[i].factory \in Factories
    BY <2>1 DEF Registrable
  <2>4. Registered(x, regs[i].key, regs[i].service, regs[i].factory) \in Containers
    BY ONLY <2>1, <2>3, RegisteredOnce
  <2> QED
    BY <2>2, <2>4
<1>2. c \in S
  OBVIOUS
<1> HIDE DEF S
<1>3. RegisterAll(c, regs) \in S
  BY <1>1, <1>2, RegisterAllKeeps
<1> QED
  BY <1>3 DEF S

LEMMA BuiltinFits ==
  ASSUME NEW n, NEW d \in Docs \cup {NoDoc}, NEW c
  PROVE  Fits(Builtin(n, d, c), <<n, d>>) /\ Builtin(n, d, c).name = n
BY DEF Fits, Builtin

LEMMA LabelledDefaults == Labelled(Defaults)
<1>1. PICK regs :
        /\ Defaults = RegisterAll(Empty, regs)
        /\ Len(regs) = 16
        /\ \A i \in 1..16 : regs[i] \in Registrable
        /\ \A i \in 1..12 : regs[i] = ByName(BaseNames[i], NoDoc, NoConn)
        /\ \A i \in 1..4 : regs[i + 12] = Registration(<<Rules[i], NoDoc>>,
             <<"IValidationRule", NoDoc>>, Builtin(Rules[i], NoDoc, NoConn))
  BY DefaultRegistrations
<1>2. \A i \in 1..12 : Fitting(regs[i])
  BY <1>1, BuiltinFits DEF Fitting, ByName, Registration
<1>3. \A i \in 1..4 : Fitting(regs[i + 12])
  <2> TAKE i \in 1..4
  <2>1. Rules[i] \in ToSet(Rules)
    BY DEF ToSet, Rules
  <2>2. /\ regs[i + 12].key = <<Rules[i], NoDoc>>
        /\ regs[i + 12].service = <<"IValidationRule", NoDoc>>
        /\ regs[i + 12].factory = Builtin(Rules[i], NoDoc, NoConn)
    BY <1>1 DEF Registration
  <2>3. Builtin(Rules[i], NoDoc, NoConn).name = Rules[i]
    BY DEF Builtin
  <2> QED
    BY <2>1, <2>2, <2>3, StartupAssumption DEF Fitting, Fits
<1>4. \A i \in 1..16 : i \in 1..12 \/ (i - 12 \in 1..4 /\ (i - 12) + 12 = i)
  OBVIOUS
<1>5. \A i \in 1..16 : Fitting(regs[i])
  BY <1>2, <1>3, <1>4
<1>6. Empty \in Containers /\ Labelled(Empty)
  BY EmptyIsAContainer DEF Labelled, Empty, Has
<1>7. Len(regs) \in Nat /\ \A i \in 1..Len(regs) : regs[i] \in Registrable /\ Fitting(regs[i])
  BY <1>1, <1>5
<1>8. Labelled(RegisterAll(Empty, regs))
  BY ONLY <1>6, <1>7, LabelledAll
<1> QED
  BY <1>1, <1>8

LEMMA LabelledInitType ==
  ASSUME TypeOK, NEW d \in Docs, NEW c \in Conns, InitType(d, c), Labelled(containers["startup"])
  PROVE  Labelled(containers'["startup"])
<1> DEFINE C == containers["startup"]
           all == Registrations(d, c)
<1>1. PICK n, regs :
           /\ n \in 0..12
           /\ C \in Containers
           /\ Len(regs) = n
           /\ \A i \in 1..n : regs[i] \in Registrable /\ regs[i] = all[i]
           /\ containers'["startup"] = RegisterAll(C, regs)
  BY InitTypeMeans
<1>2. /\ all[1] = Registration(ConnectionKey("ISolrConnection", d, c),
                      <<"ISolrConnection", NoDoc>>, Builtin("ISolrConnection", d, c))
      /\ \A i \in 1..10 : all[i + 1] = ByName(DocNames[i], d, c)
      /\ all[12] = Registration(ConnectionKey("ISolrCoreAdmin", d, c),
                       <<"ISolrCoreAdmin", NoDoc>>, Builtin("ISolrCoreAdmin", d, c))
  BY ONLY d \in Docs, c \in Conns, InitRegistrations
<1> HIDE DEF all, C
<1>3. Fitting(all[1]) /\ Fitting(all[12])
  BY <1>2, StartupAssumption DEF Fitting, Fits, Registration, ConnectionKey, Builtin
<1>4. \A i \in 1..10 : Fitting(all[i + 1])
  BY <1>2, BuiltinFits DEF Fitting, ByName, Registration
<1>5. \A i \in 1..12 : i = 1 \/ i = 12 \/ (i - 1 \in 1..10 /\ i = (i - 1) + 1)
  OBVIOUS
<1>6. \A i \in 1..12 : Fitting(all[i])
  BY <1>3, <1>4, <1>5
<1>7. Len(regs) \in Nat /\ \A i \in 1..Len(regs) : regs[i] \in Registrable /\ Fitting(regs[i])
  <2>1. \A i \in 1..n : i \in 1..12
    BY <1>1
  <2> QED
    BY <1>1, <1>6, <2>1
<1>8. C \in Containers /\ Labelled(C)
  BY <1>1 DEF C
<1>9. Labelled(RegisterAll(C, regs))
  BY ONLY <1>7, <1>8, LabelledAll
<1> QED
  BY <1>1, <1>9

LEMMA LabelledWithoutType ==
  ASSUME NEW C \in Containers, Labelled(C), NEW s \in Services,
         NEW D, D = WithoutType(C, s)
  PROVE  /\ Labelled(D)
         /\ Default(D, s) = NoFactory
         /\ \A q \in Services \ {s} : Default(D, q) = Default(C, q)
         /\ \A k \in Keys : Has(C, k) /\ k[1] # s[1]
                /\ (s[1] = "IValidationRule" => k[1] \notin ToSet(Rules)) => Has(D, k)
<1>1. /\ C.byName \in [Keys -> Factories \cup {NoFactory}]
      /\ C.byType \in [Services -> Seq(Factories)]
  BY DEF Containers
<1> DEFINE Gone(k) == \E i \in 1..Len(C.byType[s]) : C.byType[s][i] = C.byName[k]
<1>2. /\ D.byName = [k \in Keys |-> IF Gone(k) THEN NoFactory ELSE C.byName[k]]
      /\ D.byType = [C.byType EXCEPT ![s] = <<>>]
  <2>1. D.byName = [k \in Keys |-> IF \E i \in 1..Len(C.byType[s]) : C.byType[s][i] = C.byName[k]
                                   THEN NoFactory ELSE C.byName[k]]
    BY DEF WithoutType, Lists
  <2>2. D.byType = [C.byType EXCEPT ![s] = <<>>]
    BY DEF WithoutType
  <2> QED
    BY <2>1, <2>2
<1> HIDE DEF Gone
<1>3. \A k \in Keys : D.byName[k] = IF Gone(k) THEN NoFactory ELSE C.byName[k]
  BY <1>2
<1>4. D.byType[s] = <<>> /\ \A q \in Services \ {s} : D.byType[q] = C.byType[q]
  BY <1>1, <1>2
<1>5. Labelled(D)
  <2>1. \A k \in Keys : Has(D, k) => D.byName[k].name = k[1]
    BY <1>3 DEF Labelled, Has
  <2>2. \A q \in Services : \A i \in 1..Len(D.byType[q]) : Fits(D.byType[q][i], q)
    <3>1. Len(D.byType[s]) = 0
      BY <1>4
    <3>2. \A i \in 1..Len(D.byType[s]) : FALSE
      BY <3>1
    <3> QED
      BY <1>4, <3>2 DEF Labelled
  <2> QED
    BY <2>1, <2>2 DEF Labelled
<1>6. ASSUME NEW k \in Keys, Has(C, k), k[1] # s[1],
             s[1] = "IValidationRule" => k[1] \notin ToSet(Rules)
      PROVE  Has(D, k)
  <2>1. C.byName[k].name = k[1]
    BY <1>6 DEF Labelled
  <2>2. ASSUME NEW i \in 1..Len(C.byType[s]) PROVE C.byType[s][i] # C.byName[k]
    <3>1. Fits(C.byType[s][i], s)
      BY DEF Labelled
    <3> QED
      BY <1>6, <2>1, <3>1 DEF Fits
  <2>3. ~Gone(k)
    BY <2>2 DEF Gone
  <2> QED
    BY <1>3, <1>6, <2>3 DEF Has
<1> QED
  BY <1>4, <1>5, <1>6 DEF Default

LEMMA LabelledOwn ==
  ASSUME NEW C \in Containers, Labelled(C), NEW s \in Services,
         NEW D, D = Registered(C, s, s, Own(s))
  PROVE  /\ Labelled(D)
         /\ Default(D, s) = IF Default(C, s) = NoFactory THEN Own(s) ELSE Default(C, s)
         /\ Own(s) # NoFactory /\ Own(s).own
         /\ \A q \in Services \ {s} : Default(D, q) = Default(C, q)
         /\ \A k \in Keys : Has(C, k) => Has(D, k)
<1>1. /\ C.byName \in [Keys -> Factories \cup {NoFactory}]
      /\ C.byType \in [Services -> Seq(Factories)]
      /\ Own(s) \in Factories /\ s \in Keys
  BY OwnIsAFactory, NamesAreKeys DEF Containers
<1>2. /\ D.byName = [C.byName EXCEPT ![s] = Own(s)]
      /\ D.byType = [C.byType EXCEPT ![s] = Append(@, Own(s))]
  BY DEF Registered
<1>3. Labelled(D)
  <2> DEFINE r == [key |-> s, service |-> s, factory |-> Own(s)]
  <2>1. r \in Registrable /\ Fitting(r)
    BY <1>1 DEF Registrable, Fitting, Fits, Own
  <2>2. Labelled(Registered(C, r.key, r.service, r.factory))
    BY ONLY <2>1, C \in Containers, Labelled(C), LabelledOnce
  <2> QED
    BY <2>2
<1>4. D \in Containers
  BY <1>1, RegisteredOnce
<1>5. D.byType[s] = Append(C.byType[s], Own(s))
  BY <1>1, <1>2
<1>6. Default(D, s) = IF Default(C, s) = NoFactory THEN Own(s) ELSE Default(C, s)
  BY ONLY <1>1, <1>4, <1>5, C \in Containers, s \in Services, DefaultOfAppend
<1>7. \A q \in Services \ {s} : Default(D, q) = Default(C, q)
  BY <1>1, <1>2 DEF Default
<1>8. \A k \in Keys : Has(C, k) => Has(D, k)
  BY <1>1, <1>2, StartupAssumption DEF Has
<1>9. Own(s) # NoFactory /\ Own(s).own
  BY <1>1, StartupAssumption DEF Own
<1> QED
  BY <1>3, <1>6, <1>7, <1>8, <1>9

-----------------------------------------------------------------------------
(* Each step keeps the container sound *)

LEMMA SoundDefaults == Sound(Defaults, {})
<1>1. \A n, d : <<n, d>> \in Services /\ d \in Docs => Default(Defaults, <<n, d>>) = NoFactory
  BY DefaultsMean
<1>2. ASSUME NEW d \in Docs PROVE SameConnection(Defaults, d) /\ Complete(Defaults, {}, d)
  <2>1. \A n \in Holders \cup {"ISolrOperations"} : <<n, d>> \in Services
    <3>1. /\ DocNames[5] = "ISolrQueryExecuter" /\ DocNames[7] = "ISolrBasicOperations"
          /\ DocNames[8] = "ISolrBasicReadOnlyOperations" /\ DocNames[9] = "ISolrOperations"
      BY DEF DocNames
    <3> QED
      BY <3>1, NamesAreKeys DEF Holders
  <2>2. \A n \in Holders \cup {"ISolrOperations"} : Default(Defaults, <<n, d>>) = NoFactory
    BY <1>1, <2>1
  <2> QED
    BY <2>2 DEF SameConnection, Complete, MadeByInit, Follows, OfferedIn, Holders
<1> QED
  BY <1>2, LabelledDefaults, DefaultsMean DEF Sound, BaseThere

LEMMA SoundEmpty == Sound(Empty, Services)
<1>1. Labelled(Empty)
  BY EmptyIsAContainer DEF Labelled, Empty, Has
<1>2. ASSUME NEW d \in Docs PROVE SameConnection(Empty, d) /\ Complete(Empty, Services, d)
  <2>1. \A n \in Holders \cup {"ISolrOperations"} : <<n, d>> \in Services
    <3>1. /\ DocNames[5] = "ISolrQueryExecuter" /\ DocNames[7] = "ISolrBasicOperations"
          /\ DocNames[8] = "ISolrBasicReadOnlyOperations" /\ DocNames[9] = "ISolrOperations"
      BY DEF DocNames
    <3> QED
      BY <3>1, NamesAreKeys DEF Holders
  <2>2. \A n \in Holders \cup {"ISolrOperations"} : Default(Empty, <<n, d>>) = NoFactory
    BY <2>1, EmptyIsAContainer
  <2> QED
    BY <2>2 DEF SameConnection, Complete, MadeByInit, Follows, OfferedIn, Holders
<1> QED
  BY <1>1, <1>2, NamesAreKeys DEF Sound, BaseThere

\* The application takes away or registers a service that it may replace.
LEMMA SoundApplication ==
  ASSUME NEW C, NEW D, NEW gone, NEW gone2, Sound(C, gone), NEW s \in Replaceable,
         Labelled(D),
         \A q \in Services \ {s} : Default(D, q) = Default(C, q),
         \A k \in Keys : Has(C, k) /\ k[1] \in Holders /\ k[2] \in Docs => Has(D, k),
         Default(D, s) \in {NoFactory, Own(s), Default(C, s)},
         \A q \in Services \ {s} : q \in gone => q \in gone2,
         Default(D, s) = NoFactory => s \in gone2
  PROVE  Sound(D, gone2)
<1>1. s \in Services /\ (s[2] \in Docs => s[1] \notin HoldsConnection)
  BY StartupAssumption
<1>2. Own(s).own
  BY DEF Own
<1>3. ASSUME NEW q \in Services, Default(C, q) # NoFactory \/ q \in gone
      PROVE  Default(D, q) # NoFactory \/ q \in gone2
  BY <1>3
<1>4. ASSUME NEW d \in Docs PROVE SameConnection(D, d) /\ Complete(D, gone2, d)
  <2>1. \A n \in Holders \cup {"ISolrOperations"} : <<n, d>> \in Services
    <3>1. /\ DocNames[5] = "ISolrQueryExecuter" /\ DocNames[7] = "ISolrBasicOperations"
          /\ DocNames[8] = "ISolrBasicReadOnlyOperations" /\ DocNames[9] = "ISolrOperations"
      BY DEF DocNames
    <3> QED
      BY <3>1, NamesAreKeys DEF Holders
  <2>2. \A n \in Holders : Default(D, <<n, d>>) = Default(C, <<n, d>>)
    BY <1>1, <2>1 DEF Holders, HoldsConnection
  <2>3. \A n \in Holders : Has(C, <<n, d>>) => Has(D, <<n, d>>)
    BY <2>1, NamesAreKeys
  <2>4. OfferedIn(D, d) => OfferedIn(C, d)
    BY <1>2, <2>1 DEF OfferedIn
  <2>5. SameConnection(C, d) /\ Complete(C, gone, d)
    BY DEF Sound
  <2>6. SameConnection(D, d)
    BY <2>2, <2>3, <2>4, <2>5 DEF SameConnection, MadeByInit, Follows, Holders
  <2>7. Complete(D, gone2, d)
    <3>1. \A i \in 1..8 : <<DocNames[i], d>> \in Services
      BY NamesAreKeys
    <3> QED
      BY <1>3, <2>4, <2>5, <3>1 DEF Complete
  <2> QED
    BY <2>6, <2>7
<1>5. BaseThere(D, gone2)
  <2>1. \A i \in 1..12 : <<BaseNames[i], NoDoc>> \in Services
    BY NamesAreKeys
  <2> QED
    BY <1>3, <2>1 DEF Sound, BaseThere
<1> QED
  BY <1>4, <1>5 DEF Sound

LEMMA SoundInitType ==
  ASSUME Inv, NEW d \in Docs, NEW c \in Conns, InitType(d, c),
         NEW C, C = containers["startup"], NEW D, D = containers'["startup"]
  PROVE  Sound(D, gaps["startup"])
<1> DEFINE gone == gaps["startup"]
           Q == "ISolrQueryExecuter"
           B == "ISolrBasicOperations"
           R == "ISolrBasicReadOnlyOperations"
           O == "ISolrOperations"
<1> HIDE DEF gone
<1>1. TypeOK /\ Sound(C, gone)
  BY DEF Inv, gone
<1>2. PICK n \in 0..12 : MakesFirst(n, C, D, d, c)
  BY <1>1, InitTypeEffect
<1>3. Labelled(D)
  BY <1>1, LabelledInitType DEF Sound
<1>4. /\ DocNames[5] = Q /\ DocNames[7] = B /\ DocNames[8] = R /\ DocNames[9] = O
  BY DEF DocNames
<1>5. \A i \in 1..10, e \in Docs : <<DocNames[i], e>> \in Services /\ <<DocNames[i], e>> \in Keys
  BY NamesAreKeys
<1>6. \A i \in 1..10 : DocNames[i] \notin {"ISolrConnection", "ISolrCoreAdmin"}
  BY DEF DocNames
<1>7. \A i \in 1..10 : Builtin(DocNames[i], d, c) # NoFactory /\ ~Builtin(DocNames[i], d, c).own
  <2> TAKE i \in 1..10
  <2>1. Builtin(DocNames[i], d, c) \in Factories
    BY <1>5, BuiltinIsAFactory
  <2> QED
    BY <2>1, StartupAssumption DEF Builtin
<1>8. /\ Builtin(Q, d, c).conn = c /\ Builtin(B, d, c).conn = c /\ Builtin(R, d, c).conn = c
  BY DEF Builtin, HoldsConnection
<1>9. ASSUME NEW e \in Docs, e # d PROVE SameConnection(D, e) /\ Complete(D, gone, e)
  <2>1. \A i \in 1..10 : /\ Default(D, <<DocNames[i], e>>) = Default(C, <<DocNames[i], e>>)
                         /\ Has(C, <<DocNames[i], e>>) => Has(D, <<DocNames[i], e>>)
    BY <1>2, <1>5, <1>6, <1>9 DEF MakesFirst
  <2>2. /\ Default(D, <<Q, e>>) = Default(C, <<Q, e>>)
        /\ Default(D, <<B, e>>) = Default(C, <<B, e>>)
        /\ Default(D, <<R, e>>) = Default(C, <<R, e>>)
        /\ Has(C, <<Q, e>>) => Has(D, <<Q, e>>)
        /\ Has(C, <<B, e>>) => Has(D, <<B, e>>)
        /\ Has(C, <<R, e>>) => Has(D, <<R, e>>)
    BY <1>4, <2>1
  <2>3. OfferedIn(D, e) <=> OfferedIn(C, e)
    <3>1. Default(D, <<DocNames[9], e>>) = Default(C, <<DocNames[9], e>>)
      BY <2>1
    <3> QED
      BY <1>4, <3>1 DEF OfferedIn
  <2>4. SameConnection(C, e) /\ Complete(C, gone, e)
    BY <1>1 DEF Sound
  <2>5. SameConnection(D, e)
    BY <2>2, <2>3, <2>4 DEF SameConnection, MadeByInit, Follows, Holders
  <2>6. Complete(D, gone, e)
    BY <2>1, <2>3, <2>4 DEF Complete
  <2> QED
    BY <2>5, <2>6
<1>10. SameConnection(D, d) /\ Complete(D, gone, d)
  <2> DEFINE At(x, m) == Default(x, <<m, d>>)
             Made(m, p) == p <= n /\ At(C, m) = NoFactory
  <2>1. /\ At(D, Q) = IF Made(Q, 6) THEN Builtin(Q, d, c) ELSE At(C, Q)
        /\ At(D, B) = IF Made(B, 8) THEN Builtin(B, d, c) ELSE At(C, B)
        /\ At(D, R) = IF Made(R, 9) THEN Builtin(R, d, c) ELSE At(C, R)
        /\ At(D, O) = IF Made(O, 10) THEN Builtin(O, d, c) ELSE At(C, O)
    BY <1>2, <1>4 DEF MakesFirst
  <2>2. /\ 6 <= n => ~Has(C, <<Q, d>>) /\ Has(D, <<Q, d>>)
        /\ 8 <= n => ~Has(C, <<B, d>>) /\ Has(D, <<B, d>>)
        /\ 9 <= n => ~Has(C, <<R, d>>) /\ Has(D, <<R, d>>)
    BY <1>2, <1>4 DEF MakesFirst
  <2>3. \A m \in {Q, B, R} : Has(C, <<m, d>>) => Has(D, <<m, d>>)
    BY <1>2, <1>4, <1>5 DEF MakesFirst
  <2>4. \A m \in {Q, B, R, O} : Builtin(m, d, c) # NoFactory /\ ~Builtin(m, d, c).own
    BY <1>4, <1>7
  <2>5. /\ SameConnection(C, d) /\ Complete(C, gone, d)
    BY <1>1 DEF Sound
  <2>6. \A m \in {Q, B, R} : At(C, m) # NoFactory => ~At(C, m).own /\ Has(C, <<m, d>>)
    BY <2>5 DEF SameConnection, MadeByInit, Holders
  <2>7. /\ 6 <= n => At(C, Q) = NoFactory
        /\ 8 <= n => At(C, B) = NoFactory
        /\ 9 <= n => At(C, R) = NoFactory
    BY <2>2, <2>6
  <2>8. /\ At(C, B) # NoFactory => At(C, Q) # NoFactory /\ At(C, B).conn = At(C, Q).conn
        /\ At(C, R) # NoFactory => At(C, B) # NoFactory /\ At(C, R).conn = At(C, B).conn
        /\ OfferedIn(C, d) => At(C, R) # NoFactory
    BY <2>5 DEF SameConnection, Follows
  <2>9. OfferedIn(D, d) => OfferedIn(C, d) \/ Made(O, 10)
    BY <2>1 DEF OfferedIn
  <2> HIDE DEF At
  <2>10. \A m \in {Q, B, R} : At(D, m) # NoFactory => ~At(D, m).own /\ Has(D, <<m, d>>)
    BY <2>1, <2>2, <2>3, <2>4, <2>6
  <2>11. At(D, B) # NoFactory => At(D, Q) # NoFactory /\ At(D, B).conn = At(D, Q).conn
    <3>1. CASE 8 <= n
      <4>1. At(D, B) = Builtin(B, d, c) /\ At(D, Q) = Builtin(Q, d, c)
        BY <2>1, <2>7, <3>1
      <4> QED
        BY <1>8, <2>4, <4>1
    <3>2. CASE ~(8 <= n)
      <4>1. At(D, B) = At(C, B)
        BY <2>1, <3>2
      <4>2. At(C, Q) # NoFactory => At(D, Q) = At(C, Q)
        BY <2>1
      <4> QED
        BY <2>8, <4>1, <4>2
    <3> QED
      BY <3>1, <3>2
  <2>12. At(D, R) # NoFactory => At(D, B) # NoFactory /\ At(D, R).conn = At(D, B).conn
    <3>1. CASE 9 <= n
      <4>1. At(D, R) = Builtin(R, d, c) /\ At(D, B) = Builtin(B, d, c)
        BY <2>1, <2>7, <3>1
      <4> QED
        BY <1>8, <2>4, <4>1
    <3>2. CASE ~(9 <= n)
      <4>1. At(D, R) = At(C, R)
        BY <2>1, <3>2
      <4>2. At(C, B) # NoFactory => At(D, B) = At(C, B)
        BY <2>1
      <4> QED
        BY <2>8, <4>1, <4>2
    <3> QED
      BY <3>1, <3>2
  <2>13. OfferedIn(D, d) => At(D, R) # NoFactory
    <3>1. OfferedIn(C, d) => At(D, R) # NoFactory
      BY <2>1, <2>4, <2>8
    <3>2. 10 <= n => At(D, R) = Builtin(R, d, c)
      BY <2>1, <2>7
    <3> QED
      BY <2>4, <2>9, <3>1, <3>2
  <2>14. SameConnection(D, d)
    BY <2>10, <2>11, <2>12, <2>13 DEF SameConnection, MadeByInit, Follows, Holders, At
  <2>15. Complete(D, gone, d)
    <3>1. CASE OfferedIn(C, d)
      <4>1. \A i \in 1..8 : Default(C, <<DocNames[i], d>>) # NoFactory
                               => Default(D, <<DocNames[i], d>>) # NoFactory
        BY <1>2 DEF MakesFirst
      <4> QED
        BY <2>5, <3>1, <4>1 DEF Complete
    <3>2. CASE 10 <= n
      <4>1. \A i \in 1..8 : Default(D, <<DocNames[i], d>>) # NoFactory
        BY <1>2, <1>7, <3>2 DEF MakesFirst
      <4> QED
        BY <4>1 DEF Complete
    <3> QED
      BY <2>9, <3>1, <3>2 DEF Complete
  <2> QED
    BY <2>14, <2>15
<1>11. BaseThere(D, gone)
  <2>1. \A i \in 1..12 : /\ <<BaseNames[i], NoDoc>> \in Services
                         /\ BaseNames[i] \notin {"ISolrConnection", "ISolrCoreAdmin"}
    BY NamesAreKeys DEF BaseNames
  <2>2. \A i \in 1..12 : Default(D, <<BaseNames[i], NoDoc>>) = Default(C, <<BaseNames[i], NoDoc>>)
    BY <1>2, <2>1, StartupAssumption DEF MakesFirst
  <2> QED
    BY <1>1, <2>2 DEF Sound, BaseThere
<1> QED
  BY <1>3, <1>9, <1>10, <1>11 DEF Sound, gone

LEMMA InvInit == Init => Inv
<1> SUFFICES ASSUME Init PROVE Inv
  OBVIOUS
<1>1. containers["startup"] = Defaults /\ gaps["startup"] = {}
  BY DEF Init, Which
<1> QED
  BY <1>1, TypeInit, SoundDefaults DEF Inv

LEMMA SoundUnchanged ==
  ASSUME Inv, containers'["startup"] = containers["startup"], gaps'["startup"] = gaps["startup"]
  PROVE  Sound(containers["startup"], gaps["startup"])'
BY DEF Inv

\* What the two calls of the application do to Startup.Container.
LEMMA RemoveAllOfEffect ==
  ASSUME Inv, NEW s \in Replaceable, RemoveAllOf("startup", s),
         NEW C, C = containers["startup"], NEW D, D = containers'["startup"]
  PROVE  /\ Sound(D, gaps'["startup"])
         /\ Default(D, s) = NoFactory
         /\ \A q \in Services \ {s} : Default(D, q) = Default(C, q)
<1>1. /\ C \in Containers /\ s \in Services /\ (s[2] \in Docs => s[1] \notin HoldsConnection)
      /\ gaps \in [Which -> SUBSET Services] /\ "startup" \in Which
      /\ containers \in [Which -> Containers]
  BY StartupAssumption DEF Inv, TypeOK, Which
<1>2. D = WithoutType(C, s) /\ gaps'["startup"] = gaps["startup"] \cup {s}
  BY <1>1 DEF RemoveAllOf
<1>3. Sound(C, gaps["startup"]) /\ Labelled(C)
  BY DEF Inv, Sound
<1>4. /\ Labelled(D)
      /\ Default(D, s) = NoFactory
      /\ \A q \in Services \ {s} : Default(D, q) = Default(C, q)
      /\ \A k \in Keys : Has(C, k) /\ k[1] # s[1]
                /\ (s[1] = "IValidationRule" => k[1] \notin ToSet(Rules)) => Has(D, k)
  BY ONLY <1>1, <1>2, <1>3, LabelledWithoutType
<1>5. s[1] \notin Holders
  <2>1. CASE s[2] \in Docs
    BY <1>1, <2>1 DEF Holders, HoldsConnection
  <2>2. CASE s[2] \notin Docs
    <3>1. s[1] \in ToSet(BaseNames) \cup {"IValidationRule", "ISolrConnection", "ISolrCoreAdmin"}
      BY <1>1, <2>2 DEF Services
    <3>2. \A i \in 1..12 : BaseNames[i] \notin Holders
      BY DEF BaseNames, Holders
    <3>3. DOMAIN BaseNames = 1..12
      BY DEF BaseNames
    <3> QED
      BY <3>1, <3>2, <3>3 DEF ToSet, Holders
  <2> QED
    BY <2>1, <2>2
<1>6. \A n \in Holders : n \notin ToSet(Rules)
  <2>1. \A i \in 1..4 : Rules[i] \notin Holders
    BY DEF Rules, Holders
  <2>2. DOMAIN Rules = 1..4
    BY DEF Rules
  <2> QED
    BY <2>1, <2>2 DEF ToSet
<1>7. \A k \in Keys : Has(C, k) /\ k[1] \in Holders /\ k[2] \in Docs => Has(D, k)
  BY <1>4, <1>5, <1>6
<1>8. /\ Default(D, s) \in {NoFactory, Own(s), Default(C, s)}
      /\ \A q \in Services \ {s} : q \in gaps["startup"] => q \in gaps'["startup"]
      /\ Default(D, s) = NoFactory => s \in gaps'["startup"]
  BY <1>2, <1>4
<1>9. Sound(D, gaps'["startup"])
  BY ONLY <1>3, <1>4, <1>7, <1>8, s \in Replaceable, SoundApplication
<1> QED
  BY <1>4, <1>9

LEMMA RegisterOwnEffect ==
  ASSUME Inv, NEW s \in Replaceable, RegisterOwn("startup", s),
         NEW C, C = containers["startup"], NEW D, D = containers'["startup"]
  PROVE  /\ Sound(D, gaps'["startup"])
         /\ \A q \in Services \ {s} : Default(D, q) = Default(C, q)
<1>1. /\ C \in Containers /\ s \in Services
      /\ gaps \in [Which -> SUBSET Services] /\ "startup" \in Which
      /\ containers \in [Which -> Containers]
  BY StartupAssumption DEF Inv, TypeOK, Which
<1>2. D = Registered(C, s, s, Own(s)) /\ gaps'["startup"] = gaps["startup"] \ {s}
  BY <1>1 DEF RegisterOwn
<1>3. Sound(C, gaps["startup"]) /\ Labelled(C)
  BY DEF Inv, Sound
<1>4. /\ Labelled(D)
      /\ Default(D, s) = IF Default(C, s) = NoFactory THEN Own(s) ELSE Default(C, s)
      /\ Own(s) # NoFactory /\ Own(s).own
      /\ \A q \in Services \ {s} : Default(D, q) = Default(C, q)
      /\ \A k \in Keys : Has(C, k) => Has(D, k)
  BY ONLY <1>1, <1>2, <1>3, LabelledOwn
<1>7. \A k \in Keys : Has(C, k) /\ k[1] \in Holders /\ k[2] \in Docs => Has(D, k)
  BY <1>4
<1>8. /\ Default(D, s) \in {NoFactory, Own(s), Default(C, s)}
      /\ \A q \in Services \ {s} : q \in gaps["startup"] => q \in gaps'["startup"]
      /\ Default(D, s) = NoFactory => s \in gaps'["startup"]
  BY <1>2, <1>4
<1>9. Sound(D, gaps'["startup"])
  BY ONLY <1>3, <1>4, <1>7, <1>8, s \in Replaceable, SoundApplication
<1> QED
  BY <1>4, <1>9

LEMMA InvStep == Inv /\ [Next]_vars => Inv'
<1> SUFFICES ASSUME Inv, [Next]_vars PROVE Sound(containers["startup"], gaps["startup"])'
  BY TypeStep DEF Inv
<1>0. /\ "startup" \in Which /\ "copy" \in Which
      /\ containers \in [Which -> Containers] /\ gaps \in [Which -> SUBSET Services]
  BY DEF Inv, TypeOK, Which
<1>1. CASE InitContainer
  <2>1. containers'["startup"] = Defaults /\ gaps'["startup"] = {}
    BY <1>0, <1>1 DEF InitContainer
  <2> QED
    BY <2>1, SoundDefaults
<1>2. ASSUME NEW d \in Docs, NEW c \in Conns, InitType(d, c)
      PROVE  Sound(containers["startup"], gaps["startup"])'
  <2>1. gaps' = gaps
    BY <1>2 DEF InitType
  <2>2. Sound(containers'["startup"], gaps["startup"])
    BY <1>2, SoundInitType
  <2> QED
    BY <2>1, <2>2
<1>3. ASSUME NEW w \in Which, NEW s \in Replaceable, RemoveAllOf(w, s)
      PROVE  Sound(containers["startup"], gaps["startup"])'
  <2>1. CASE w = "startup"
    BY <1>3, <2>1, RemoveAllOfEffect
  <2>2. CASE w = "copy"
    <3>1. containers'["startup"] = containers["startup"] /\ gaps'["startup"] = gaps["startup"]
      BY <1>0, <1>3, <2>2 DEF RemoveAllOf
    <3> QED
      BY <3>1, SoundUnchanged
  <2> QED
    BY <2>1, <2>2 DEF Which
<1>4. ASSUME NEW w \in Which, NEW s \in Replaceable, RegisterOwn(w, s)
      PROVE  Sound(containers["startup"], gaps["startup"])'
  <2>1. CASE w = "startup"
    BY <1>4, <2>1, RegisterOwnEffect
  <2>2. CASE w = "copy"
    <3>1. containers'["startup"] = containers["startup"] /\ gaps'["startup"] = gaps["startup"]
      BY <1>0, <1>4, <2>2 DEF RegisterOwn
    <3> QED
      BY <3>1, SoundUnchanged
  <2> QED
    BY <2>1, <2>2 DEF Which
<1>5. ASSUME NEW w \in Which, SetLocatorProvider(w)
      PROVE  Sound(containers["startup"], gaps["startup"])'
  BY <1>5, SoundUnchanged DEF SetLocatorProvider
<1>6. CASE CopyContainer
  <2>1. containers'["startup"] = containers["startup"] /\ gaps'["startup"] = gaps["startup"]
    BY <1>0, <1>6 DEF CopyContainer
  <2> QED
    BY <2>1, SoundUnchanged
<1>7. CASE ClearStartup
  <2>1. containers'["startup"] = Empty /\ gaps'["startup"] = Services
    BY <1>0, <1>7 DEF ClearStartup
  <2> QED
    BY <2>1, SoundEmpty
<1>8. CASE UNCHANGED vars
  BY <1>8, SoundUnchanged DEF vars
<1> QED
  BY <1>1, <1>2, <1>3, <1>4, <1>5, <1>6, <1>7, <1>8 DEF Next

LEMMA Invariant == Spec => []Inv
BY InvInit, InvStep, PTL DEF Spec

-----------------------------------------------------------------------------
(* One server for each document type *)

LEMMA HoldersOf ==
  ASSUME NEW x \in Services, NEW d \in Docs, x[2] = d, x[1] \in HoldsConnection
  PROVE  x[1] \in Holders /\ x = <<x[1], d>>
<1>1. x[1] \in ToSet(DocNames) /\ x = <<x[1], d>>
  BY StartupAssumption DEF Services
<1>2. DOMAIN DocNames = 1..10
  BY DEF DocNames
<1>3. PICK i \in 1..10 : x[1] = DocNames[i]
  BY <1>1, <1>2 DEF ToSet
<1>4. \A j \in 1..10 : DocNames[j] \in HoldsConnection => DocNames[j] \in Holders
  BY DEF DocNames, HoldsConnection, Holders
<1> QED
  BY <1>1, <1>3, <1>4

\* The connection of the query executer is the only one.
LEMMA OneConnection ==
  ASSUME Inv, NEW d \in Docs, Offered(d)
  PROVE  ServersOf(d) = {Default(containers["startup"], <<"ISolrQueryExecuter", d>>).conn}
<1> DEFINE C == containers["startup"]
           At(n) == Default(C, <<n, d>>)
           q == <<"ISolrQueryExecuter", d>>
<1>1. SameConnection(C, d) /\ OfferedIn(C, d)
  BY DEF Inv, Sound, Offered, OfferedIn
<1>2. \A n \in Holders : At(n) # NoFactory /\ At(n).conn = At("ISolrQueryExecuter").conn
  BY <1>1 DEF SameConnection, Follows, Holders
<1>3. ~At("ISolrQueryExecuter").own
  BY <1>1, <1>2 DEF SameConnection, MadeByInit, Holders
<1>4. q \in Services /\ q[2] = d /\ q[1] \in HoldsConnection
  <2>1. DocNames[5] = "ISolrQueryExecuter"
    BY DEF DocNames
  <2> QED
    BY <2>1, NamesAreKeys DEF HoldsConnection
<1>5. ASSUME NEW x \in Services, x[2] = d, x[1] \in HoldsConnection
      PROVE  Default(C, x).conn = Default(C, q).conn
  BY <1>2, <1>5, HoldersOf
<1>6. Default(C, q) # NoFactory /\ ~Default(C, q).own
  BY <1>2, <1>3 DEF Holders
<1> DEFINE S == {x \in Services : /\ x[2] = d
                                /\ x[1] \in HoldsConnection
                                /\ Default(C, x) # NoFactory
                                /\ ~Default(C, x).own}
<1>7. ServersOf(d) = {Default(C, s).conn : s \in S}
  BY DEF ServersOf
<1>8. q \in S /\ \A s \in S : Default(C, s).conn = Default(C, q).conn
  BY <1>4, <1>5, <1>6
<1> HIDE DEF S, q
<1>9. ServersOf(d) = {Default(C, q).conn}
  BY <1>7, <1>8
<1> QED
  BY <1>9 DEF q

LEMMA OneConnectionAlways ==
  \A d \in Docs :
    Inv /\ Offered(d) =>
      ServersOf(d) = {Default(containers["startup"], <<"ISolrQueryExecuter", d>>).conn}
BY OneConnection

LEMMA OneConnectionNext ==
  (\A d \in Docs :
     Inv /\ Offered(d) =>
       ServersOf(d) = {Default(containers["startup"], <<"ISolrQueryExecuter", d>>).conn})'
BY OneConnectionAlways, PTL

\* However often Init is called for a type, with whatever connections, and
\* wherever its calls fail: the operations that are offered send everything to
\* one server.
THEOREM OneServer == Spec => []OneServerPerType
<1>1. Inv => OneServerPerType
  <2> SUFFICES ASSUME Inv, NEW d \in Docs, Offered(d) PROVE Cardinality(ServersOf(d)) = 1
    BY DEF OneServerPerType
  <2> QED
    BY OneConnection, FS_Singleton
<1> QED
  BY <1>1, Invariant, PTL

LEMMA FirstInitStep ==
  Inv /\ Inv' /\ [Next]_vars => \A d \in Docs : Offered(d) /\ Offered(d)' => ServersOf(d)' = ServersOf(d)
<1> SUFFICES ASSUME Inv, Inv', [Next]_vars, NEW d \in Docs, Offered(d), Offered(d)'
             PROVE  ServersOf(d)' = ServersOf(d)
  OBVIOUS
<1> DEFINE C == containers["startup"]
           q == <<"ISolrQueryExecuter", d>>
           o == <<"ISolrOperations", d>>
<1>0. /\ q \in Services /\ o \in Services /\ q[2] = d /\ o[2] = d
      /\ "startup" \in Which /\ "copy" \in Which
      /\ containers \in [Which -> Containers]
  <2>1. DocNames[5] = "ISolrQueryExecuter" /\ DocNames[9] = "ISolrOperations"
    BY DEF DocNames
  <2> QED
    BY <2>1, NamesAreKeys DEF Inv, TypeOK, Which
<1>1. /\ ServersOf(d) = {Default(C, q).conn}
      /\ ServersOf(d)' = {Default(C', q).conn}
  BY OneConnectionAlways, OneConnectionNext
<1>2. SameConnection(C, d) /\ OfferedIn(C, d) /\ OfferedIn(C', d)
  BY DEF Inv, Sound, Offered, OfferedIn
<1>3. Default(C, q) # NoFactory
  BY <1>2 DEF SameConnection, Follows
<1> SUFFICES Default(C', q) = Default(C, q)
  BY <1>1
<1>4. Default(C', o) # NoFactory
  BY <1>2 DEF OfferedIn
<1>5. CASE InitContainer
  <2>1. C' = Defaults
    BY <1>0, <1>5 DEF InitContainer
  <2> QED
    BY <1>0, <1>4, <2>1, DefaultsMean
<1>6. ASSUME NEW e \in Docs, NEW c \in Conns, InitType(e, c) PROVE Default(C', q) = Default(C, q)
  <2>1. PICK n \in 0..12 : MakesFirst(n, C, C', e, c)
    BY <1>6, InitTypeEffect DEF Inv
  <2>2. CASE e = d
    <3>1. DocNames[5] = "ISolrQueryExecuter"
      BY DEF DocNames
    <3> QED
      BY <1>3, <2>1, <2>2, <3>1 DEF MakesFirst
  <2>3. CASE e # d
    BY <1>0, <2>1, <2>3 DEF MakesFirst
  <2> QED
    BY <2>2, <2>3
<1>7. ASSUME NEW w \in Which, NEW s \in Replaceable, RemoveAllOf(w, s) \/ RegisterOwn(w, s)
      PROVE  Default(C', q) = Default(C, q)
  <2>1. CASE w = "startup"
    <3>1. s # q
      BY StartupAssumption DEF HoldsConnection
    <3> QED
      BY <1>0, <1>7, <2>1, <3>1, RemoveAllOfEffect, RegisterOwnEffect
  <2>2. CASE w = "copy"
    BY <1>0, <1>7, <2>2 DEF RemoveAllOf, RegisterOwn
  <2> QED
    BY <2>1, <2>2 DEF Which
<1>8. CASE CopyContainer \/ UNCHANGED vars \/ \E w \in Which : SetLocatorProvider(w)
  BY <1>0, <1>8 DEF CopyContainer, SetLocatorProvider, vars
<1>9. CASE ClearStartup
  <2>1. C' = Empty
    BY <1>0, <1>9 DEF ClearStartup
  <2> QED
    BY <1>0, <1>4, <2>1, EmptyIsAContainer
<1> QED
  BY <1>5, <1>6, <1>7, <1>8, <1>9 DEF Next

\* The first call of Init that completes decides where a type is served.
THEOREM FirstInit == Spec => FirstInitWins
BY Invariant, FirstInitStep, PTL DEF Spec, FirstInitWins

-----------------------------------------------------------------------------
(* The operations of a type can be made *)

\* How far a service is from those that ask for nothing.
Level(n) ==
  IF n \in {"IReadOnlyMappingManager", "ISolrFieldParser", "ISolrFieldSerializer",
           "ISolrSchemaParser", "ISolrDIHStatusParser", "ISolrHeaderResponseParser",
           "ISolrExtractResponseParser", "ISolrStatusResponseParser", "IValidationRule",
           "ISolrDocumentActivator"} THEN 1
  ELSE IF n \in {"ISolrQuerySerializer", "ISolrDocumentPropertyVisitor", "IMappingValidator",
                "ISolrDocumentSerializer"} THEN 2
  ELSE IF n \in {"ISolrFacetQuerySerializer", "ISolrDocumentResponseParser"} THEN 3
  ELSE IF n = "ISolrAbstractResponseParser" THEN 4
  ELSE IF n = "ISolrMoreLikeThisHandlerQueryResultsParser" THEN 5
  ELSE IF n = "ISolrQueryExecuter" THEN 6
  ELSE IF n \in {"ISolrBasicOperations", "ISolrBasicReadOnlyOperations"} THEN 7
  ELSE 8

BaseParts == {BaseNames[i] : i \in 1..12}
DocParts == {DocNames[i] : i \in 1..8}

\* What the operations of a type are made from: always there, or optional.
Parts(d) == BaseParts \X {NoDoc} \cup (DocParts \cup {"ISolrOperations"}) \X {d}
Optional == {<<"IValidationRule", NoDoc>>}

LEMMA PartNames ==
  /\ BaseParts = {"IReadOnlyMappingManager", "ISolrFieldParser", "ISolrFieldSerializer",
       "ISolrQuerySerializer", "ISolrFacetQuerySerializer", "ISolrDocumentPropertyVisitor",
       "ISolrSchemaParser", "ISolrDIHStatusParser", "ISolrHeaderResponseParser",
       "ISolrExtractResponseParser", "IMappingValidator", "ISolrStatusResponseParser"}
  /\ DocParts = {"ISolrDocumentActivator", "ISolrDocumentResponseParser",
       "ISolrAbstractResponseParser", "ISolrMoreLikeThisHandlerQueryResultsParser",
       "ISolrQueryExecuter", "ISolrDocumentSerializer", "ISolrBasicOperations",
       "ISolrBasicReadOnlyOperations"}
<1>1. 1..12 = {1, 2, 3, 4, 5, 6, 7, 8, 9, 10, 11, 12} /\ 1..8 = {1, 2, 3, 4, 5, 6, 7, 8}
  OBVIOUS
<1> QED
  BY <1>1 DEF BaseParts, DocParts, BaseNames, DocNames

\* Whatever a service asks for is nearer than itself to those that ask for
\* nothing: no chain of factories goes round in a circle.
LEMMA UsesGoDown ==
  /\ \A u \in UsesBase \cup UsesStartup : u[2] \in BaseParts /\ Level(u[2]) < Level(u[1])
  /\ \A d : \A u \in ChooseDocumentResponseParser(d) \cup ChooseDocumentSerializer(d) :
       u[2] \in BaseParts /\ Level(u[2]) < Level(u[1])
  /\ \A d : \A u \in UsesDoc(d) : u[1] \notin BaseParts /\ u[2] \in DocParts /\ Level(u[2]) < Level(u[1])
<1>1. \A u \in UsesBase : u[2] \in BaseParts /\ Level(u[2]) < Level(u[1])
  BY PartNames DEF UsesBase, Level
<1>2. \A u \in UsesStartup : u[2] \in BaseParts /\ Level(u[2]) < Level(u[1])
  BY PartNames DEF UsesStartup, Level
<1>3. \A d : \A u \in ChooseDocumentResponseParser(d) \cup ChooseDocumentSerializer(d) :
        u[2] \in BaseParts /\ Level(u[2]) < Level(u[1])
  BY PartNames DEF ChooseDocumentResponseParser, ChooseDocumentSerializer, Level
<1>4. \A d : \A u \in UsesDoc(d) : u[1] \notin BaseParts /\ u[2] \in DocParts /\ Level(u[2]) < Level(u[1])
  BY PartNames DEF UsesDoc, Level
<1> QED
  BY <1>1, <1>2, <1>3, <1>4

LEMMA NeedsGoDown ==
  ASSUME NEW d \in Docs, NEW s \in Parts(d) \cup Optional, NEW f, Fits(f, s)
  PROVE  /\ \A t \in Needed(f) \cup NeededFromStartup(f) : t \in Parts(d) /\ Level(t[1]) < Level(s[1])
         /\ \A t \in NeededAll(f) : t \in Parts(d) \cup Optional /\ Level(t[1]) < Level(s[1])
<1>1. /\ f.name = s[1] \/ (s[1] = "IValidationRule" /\ f.name \in ToSet(Rules))
      /\ s[2] \in Docs => f.doc = s[2]
  BY DEF Fits
<1>2. /\ s[1] \notin BaseParts \cup {"IValidationRule"} => s[2] = d
      /\ s[1] = "IValidationRule" => s[2] = NoDoc
      /\ s[1] # "ISolrOperations" /\ s[1] # "IValidationRule" => s[1] \in BaseParts \cup DocParts
  BY PartNames DEF Parts, Optional
<1>3. f.name \in ToSet(Rules) \/ f.name = "IValidationRule" =>
        /\ \A u \in UsesBase \cup UsesStartup : u[1] # f.name
        /\ \A e : \A u \in ChooseDocumentResponseParser(e) \cup ChooseDocumentSerializer(e) : u[1] # f.name
        /\ \A e : \A u \in UsesDoc(e) : u[1] # f.name
        /\ f.name # "IMappingValidator" /\ f.name # "ISolrMoreLikeThisHandlerQueryResultsParser"
  <2>1. f.name \in ToSet(Rules) => \E i \in 1..4 : f.name = Rules[i]
    BY DEF ToSet, Rules
  <2>2. f.name \in ToSet(Rules) \/ f.name = "IValidationRule" =>
          f.name \in {"MappedPropertiesIsInSolrSchemaRule", "RequiredFieldsAreMappedRule",
                     "UniqueKeyMatchesMappingRule", "MultivaluedMappedToCollectionRule",
                     "IValidationRule"}
    BY <2>1 DEF Rules
  <2> HIDE DEF Rules
  <2> QED
    BY <2>2 DEF UsesBase, UsesStartup, ChooseDocumentResponseParser, ChooseDocumentSerializer, UsesDoc
<1>4. ASSUME NEW u \in UsesBase \cup UsesStartup \cup ChooseDocumentResponseParser(f.doc)
                        \cup ChooseDocumentSerializer(f.doc), u[1] = f.name
      PROVE  <<u[2], NoDoc>> \in Parts(d) /\ Level(u[2]) < Level(s[1])
  <2>1. u[2] \in BaseParts /\ Level(u[2]) < Level(u[1])
    BY UsesGoDown
  <2>2. u[1] = s[1]
    BY <1>1, <1>3, <1>4
  <2> QED
    BY <2>1, <2>2 DEF Parts
<1>5. ASSUME NEW u \in UsesDoc(f.doc), u[1] = f.name
      PROVE  <<u[2], f.doc>> \in Parts(d) /\ Level(u[2]) < Level(s[1])
  <2>1. u[1] \notin BaseParts /\ u[2] \in DocParts /\ Level(u[2]) < Level(u[1])
    BY UsesGoDown
  <2>2. u[1] = s[1] /\ s[1] # "IValidationRule"
    BY <1>1, <1>3, <1>5
  <2>3. f.doc = d
    BY <1>1, <1>2, <2>1, <2>2
  <2> QED
    BY <2>1, <2>2, <2>3 DEF Parts
<1>6. ASSUME NEW t \in NeededAll(f) PROVE t \in Parts(d) \cup Optional /\ Level(t[1]) < Level(s[1])
  <2>1. PICK x \in UsesAll(f.doc) : x[1] = <<f.name, f.doc>> /\ t = x[2]
    BY DEF NeededAll
  <2>2. CASE x = <<<<"IMappingValidator", NoDoc>>, <<"IValidationRule", NoDoc>>>>
    <3>1. f.name = "IMappingValidator" /\ t = <<"IValidationRule", NoDoc>>
      BY <2>1, <2>2
    <3>2. s[1] = "IMappingValidator"
      BY <1>1, <1>3, <3>1
    <3> QED
      BY <3>1, <3>2 DEF Optional, Level
  <2>3. CASE x = <<<<"ISolrMoreLikeThisHandlerQueryResultsParser", f.doc>>,
                   <<"ISolrAbstractResponseParser", f.doc>>>>
    <3>1. /\ f.name = "ISolrMoreLikeThisHandlerQueryResultsParser"
          /\ t = <<"ISolrAbstractResponseParser", f.doc>>
      BY <2>1, <2>3
    <3>2. s[1] = "ISolrMoreLikeThisHandlerQueryResultsParser"
      BY <1>1, <1>3, <3>1
    <3>3. f.doc = d
      BY <1>1, <1>2, <3>2, PartNames
    <3> QED
      BY <3>1, <3>2, <3>3, PartNames DEF Parts, Level
  <2> QED
    BY <2>1, <2>2, <2>3 DEF UsesAll
<1> QED
  BY <1>4, <1>5, <1>6 DEF Needed, NeededFromStartup

\* The services that can be made by chains of at most n factories, for each n.
Layers(within) ==
  within = [n \in 0..ChainBound |->
              IF n = 0 THEN {}
              ELSE {x \in Which \X Services :
                      Makes(Default(containers[x[1]], x[2]), x[1], within[n - 1])}]

LEMMA LayersExist == \E within : Layers(within) /\ Resolvable = within[ChainBound]
<1> DEFINE MadeFrom(done) == {x \in Which \X Services :
                             Makes(Default(containers[x[1]], x[2]), x[1], done)}
           Until(n, g) == g = [i \in 0..n |-> IF i = 0 THEN {} ELSE MadeFrom(g[i - 1])]
           T == {n \in 0..10 : \E g : Until(n, g)}
<1> HIDE DEF MadeFrom
<1>1. 0 \in T
  <2> DEFINE g == [i \in 0..0 |-> {}]
  <2>1. Until(0, g)
    OBVIOUS
  <2>2. \E x : Until(0, x)
    BY <2>1
  <2> QED
    BY <2>2
<1>2. ASSUME NEW n \in 0..(10 - 1), n \in T PROVE n + 1 \in T
  <2>1. PICK g : Until(n, g)
    BY <1>2
  <2> DEFINE h == [i \in 0..(n + 1) |-> IF i = n + 1 THEN MadeFrom(g[n]) ELSE g[i]]
  <2>2. \A i \in 0..n : h[i] = g[i]
    OBVIOUS
  <2>3. \A i \in 0..n : h[i] = IF i = 0 THEN {} ELSE MadeFrom(h[i - 1])
    <3> TAKE i \in 0..n
    <3>1. g[i] = IF i = 0 THEN {} ELSE MadeFrom(g[i - 1])
      BY ONLY <2>1, i \in 0..n
    <3>2. i # 0 => g[i - 1] = h[i - 1]
      BY <2>2
    <3>3. h[i] = g[i]
      BY <2>2
    <3> HIDE DEF h
    <3> QED
      BY <3>1, <3>2, <3>3
  <2>4. h[n + 1] = MadeFrom(h[n])
    BY <2>2
  <2> HIDE DEF h
  <2>5. \A i \in 0..(n + 1) : h[i] = IF i = 0 THEN {} ELSE MadeFrom(h[i - 1])
    BY <2>3, <2>4
  <2>6. h = [i \in 0..(n + 1) |-> h[i]]
    BY DEF h
  <2>7. Until(n + 1, h)
    BY <2>5, <2>6
  <2> QED
    BY <2>7
<1> HIDE DEF T
<1>3. 0..10 \subseteq T
  <2>1. \A n \in 0..(10 - 1) : n \in T => n + 1 \in T
    BY <1>2
  <2> QED
    BY ONLY <1>1, <2>1, 10 \in Nat, UpTo
<1>4. \E g : Until(10, g)
  BY <1>3 DEF T
<1> DEFINE within == CHOOSE g : Until(10, g)
<1>5. Until(10, within)
  BY <1>4
<1>6. Resolvable = within[10]
  BY DEF Resolvable, ChainBound, MadeFrom
<1> HIDE DEF within
<1> QED
  BY <1>5, <1>6 DEF Layers, ChainBound, MadeFrom

LEMMA OperationsAreMade ==
  ASSUME Inv, NEW d \in Docs, Offered(d), gaps["startup"] = {}
  PROVE  <<"startup", <<"ISolrOperations", d>>>> \in Resolvable
<1> DEFINE C == containers["startup"]
<1>1. PICK within : Layers(within) /\ Resolvable = within[ChainBound]
  BY LayersExist
<1>2. /\ Labelled(C) /\ OfferedIn(C, d) /\ Complete(C, {}, d) /\ BaseThere(C, {})
      /\ C \in Containers /\ "startup" \in Which
  BY DEF Inv, Sound, Offered, OfferedIn, TypeOK, Which
<1>3. ASSUME NEW s \in Parts(d) PROVE s \in Services /\ Default(C, s) # NoFactory
  <2>1. CASE s \in BaseParts \X {NoDoc}
    <3>1. PICK i \in 1..12 : s = <<BaseNames[i], NoDoc>>
      BY <2>1 DEF BaseParts
    <3> QED
      BY <1>2, <3>1, NamesAreKeys DEF BaseThere
  <2>2. CASE s \in DocParts \X {d}
    <3>1. PICK i \in 1..8 : s = <<DocNames[i], d>>
      BY <2>2 DEF DocParts
    <3>2. i \in 1..10
      OBVIOUS
    <3> QED
      BY <1>2, <3>1, <3>2, NamesAreKeys DEF Complete
  <2>3. CASE s = <<"ISolrOperations", d>>
    <3>1. DocNames[9] = "ISolrOperations"
      BY DEF DocNames
    <3> QED
      BY <1>2, <2>3, <3>1, NamesAreKeys DEF OfferedIn
  <2> QED
    BY <2>1, <2>2, <2>3 DEF Parts
<1>4. ASSUME NEW s \in Services, Default(C, s) # NoFactory PROVE Fits(Default(C, s), s)
  <2>1. C.byType[s] \in Seq(Factories) /\ C.byType[s] # <<>> /\ Default(C, s) = C.byType[s][1]
    BY <1>2, <1>4 DEF Default, Containers
  <2>2. 1 \in 1..Len(C.byType[s])
    BY <2>1
  <2> QED
    BY <1>2, <2>1, <2>2 DEF Labelled
<1>5. Optional \subseteq Services
  BY NamesAreKeys DEF Optional
<1> HIDE DEF C
<1> DEFINE T == {n \in 0..10 : \A s \in Parts(d) \cup Optional :
                   Level(s[1]) <= n /\ Default(C, s) # NoFactory => <<"startup", s>> \in within[n]}
<1>6. \A n : Level(n) \in 1..8
  BY DEF Level
<1>7. 0 \in T
  BY <1>6
<1>8. ASSUME NEW n \in 0..(10 - 1), n \in T PROVE n + 1 \in T
  <2> SUFFICES ASSUME NEW s \in Parts(d) \cup Optional, Level(s[1]) <= n + 1, Default(C, s) # NoFactory
               PROVE  <<"startup", s>> \in within[n + 1]
    OBVIOUS
  <2> DEFINE f == Default(C, s)
  <2>1. s \in Services /\ Fits(f, s)
    BY <1>3, <1>4, <1>5
  <2>2. /\ \A t \in Needed(f) \cup NeededFromStartup(f) : t \in Parts(d) /\ Level(t[1]) < Level(s[1])
        /\ \A t \in NeededAll(f) : t \in Parts(d) \cup Optional /\ Level(t[1]) < Level(s[1])
    BY <2>1, NeedsGoDown
  <2> HIDE DEF f
  <2>3. ASSUME NEW t \in Parts(d) \cup Optional, Level(t[1]) < Level(s[1]), Default(C, t) # NoFactory
        PROVE  <<"startup", t>> \in within[n]
    <3>1. Level(t[1]) <= n
      BY <1>6, <2>3
    <3> QED
      BY <1>8, <2>3, <3>1
  <2>4. Makes(f, "startup", within[n])
    <3>1. f # NoFactory
      BY DEF f
    <3>2. \A t \in Needed(f) \cup NeededFromStartup(f) : <<"startup", t>> \in within[n]
      BY <1>3, <2>2, <2>3
    <3>3. \A t \in NeededAll(f) : Default(containers["startup"], t) = NoFactory
                                \/ <<"startup", t>> \in within[n]
      BY <2>2, <2>3 DEF C
    <3> QED
      BY <3>1, <3>2, <3>3 DEF Makes
  <2>5. within[n + 1] = {x \in Which \X Services :
                           Makes(Default(containers[x[1]], x[2]), x[1], within[n])}
    <3>1. n + 1 \in 0..10 /\ n + 1 # 0 /\ (n + 1) - 1 = n
      OBVIOUS
    <3> QED
      BY <1>1, <3>1 DEF Layers, ChainBound
  <2> QED
    BY <1>2, <2>1, <2>4, <2>5 DEF f, C
<1> HIDE DEF T
<1>9. 0..10 \subseteq T
  <2>1. \A n \in 0..(10 - 1) : n \in T => n + 1 \in T
    BY <1>8
  <2> QED
    BY ONLY <1>7, <2>1, 10 \in Nat, UpTo
<1>10. <<"ISolrOperations", d>> \in Parts(d)
  BY DEF Parts
<1>11. Level("ISolrOperations") <= 10
  BY <1>6
<1>12. <<"startup", <<"ISolrOperations", d>>>> \in within[10]
  BY <1>3, <1>9, <1>10, <1>11 DEF T
<1> QED
  BY <1>1, <1>12 DEF ChainBound

\* Operations that are offered can be made, unless the application itself took
\* away a service: a call of Init that fails half way never leaves operations
\* behind that lack a part.
THEOREM OperationsResolve == Spec => []OperationsComeLast
<1>1. Inv => OperationsComeLast
  BY OperationsAreMade DEF OperationsComeLast
<1> QED
  BY <1>1, Invariant, PTL
=============================================================================
