----------------------------- MODULE DSLProofs -----------------------------
(***************************************************************************)
(* Proofs about DSL, for any trees of steps, made in any number and on any *)
(* number of threads: what one step would send is what the calls that led  *)
(* to it asked for, and out of the reach of the calls on all others, but   *)
(* for the options of a facet they share.                                  *)
(*                                                                         *)
(* The first invariant, IInv, is about what steps and facet objects are.   *)
(* The second, Kept, is about the calls: what a step has is what these ask *)
(* for.  One more call changes what is asked for in a few ways only, which *)
(* the lemmas in the middle state; each action is one of them.             *)
(***************************************************************************)
EXTENDS DSL, Induction, SequenceTheorems, FiniteSetTheorems

-----------------------------------------------------------------------------
(* The inductive invariant *)

Call == [call : {"Query", "By", "ByRange", "Bounds", "OrderBy", "WithFacetField",
                 "SetOption", "WithFacetQuery", "WithHighlighting"},
         arg : UNION {Conns \cup {NoConn}, Criteria, Ranges, BOOLEAN, SortOrders, FacetFields,
                      Options \X Values, FacetQueries, Highlights}]

\* A step holds facet objects that have been made; only a step of a range has
\* one to bound, and only a step for options has a facet to set them in.
WellMade(x, made) ==
  /\ \A i \in DOMAIN x.facets : x.facets[i] \in 1..made
  /\ x.kind = "range" <=> x.range # NoRange
  /\ x.kind = "options" => x.facet \in 1..made
  /\ x.kind # "options" => x.facet = NoFacet

IInv ==
  /\ connection \in [Contexts -> Conns \cup {NoConn}]
  /\ steps \in Seq(Step)
  /\ facets \in Seq(Facet)
  /\ \A s \in 1..Len(steps) : WellMade(steps[s], Len(facets))
  /\ sent \in Request \cup {NoRequest}
  /\ asked \in Seq(Seq(Call)) /\ Len(asked) = Len(steps)

\* The strengthening implies the types: what it adds is that no step but one
\* for options has a facet, so that a new facet object cannot become its own.
LEMMA Types == IInv => TypeOK
<1> SUFFICES ASSUME IInv PROVE TypeOK
  OBVIOUS
<1>1. /\ DOMAIN steps = 1..Len(steps) /\ DOMAIN facets = 1..Len(facets)
      /\ Len(facets) \in Nat
  BY LenProperties DEF IInv
<1>2. ASSUME NEW s \in DOMAIN steps
      PROVE  /\ \A i \in DOMAIN steps[s].facets : steps[s].facets[i] \in DOMAIN facets
             /\ steps[s].kind = "range" <=> steps[s].range # NoRange
             /\ steps[s].kind = "options" <=> steps[s].facet \in DOMAIN facets
  <2>1. WellMade(steps[s], Len(facets))
    BY <1>1 DEF IInv
  <2> QED
    BY <1>1, <2>1, NoneAssumption DEF WellMade
<1> QED
  BY <1>2 DEF IInv, TypeOK

\* The step a call is made on.
LEMMA OldStep ==
  ASSUME IInv, NEW s \in DOMAIN steps
  PROVE  /\ steps[s] \in Step /\ asked[s] \in Seq(Call) /\ WellMade(steps[s], Len(facets))
         /\ Len(facets) \in Nat
<1>1. /\ s \in 1..Len(steps) /\ Len(asked) = Len(steps)
      /\ steps \in Seq(Step) /\ asked \in Seq(Seq(Call)) /\ facets \in Seq(Facet)
  BY LenProperties DEF IInv
<1>2. steps[s] \in Step /\ asked[s] \in Seq(Call)
  BY <1>1, ElementOfSeq
<1>3. Len(facets) \in Nat
  BY <1>1, LenProperties
<1> QED
  BY <1>1, <1>2, <1>3 DEF IInv

\* A new step, made of the calls that led to it.
LEMMA MakePreserves ==
  ASSUME IInv, NEW x \in Step, NEW calls \in Seq(Call), Make(x, calls),
         UNCHANGED connection, facets' \in Seq(Facet), Len(facets) <= Len(facets'),
         WellMade(x, Len(facets'))
  PROVE  IInv'
<1>1. /\ steps' = Append(steps, x) /\ asked' = Append(asked, calls) /\ sent' = NoRequest
      /\ steps \in Seq(Step) /\ asked \in Seq(Seq(Call)) /\ Len(asked) = Len(steps)
  BY DEF Make, IInv
<1>2. /\ steps' \in Seq(Step) /\ Len(steps') = Len(steps) + 1
      /\ \A i \in 1..Len(steps) : steps'[i] = steps[i]
      /\ steps'[Len(steps) + 1] = x
  BY <1>1, AppendProperties
<1>3. asked' \in Seq(Seq(Call)) /\ Len(asked') = Len(asked) + 1
  BY <1>1, AppendProperties
<1>4. Len(facets) \in Nat /\ Len(facets') \in Nat /\ Len(steps) \in Nat
  BY LenProperties DEF IInv
<1>5. ASSUME NEW s \in 1..Len(steps') PROVE WellMade(steps'[s], Len(facets'))
  <2>1. CASE s = Len(steps) + 1
    BY <1>2, <2>1
  <2>2. CASE s \in 1..Len(steps)
    <3>1. steps'[s] = steps[s] /\ WellMade(steps[s], Len(facets))
      BY <1>2, <2>2 DEF IInv
    <3> QED
      BY <1>4, <3>1 DEF WellMade
  <2> QED
    BY <1>2, <1>4, <2>1, <2>2
<1> QED
  BY <1>1, <1>2, <1>3, <1>5 DEF IInv

\* One more call.
LEMMA CallsGrow ==
  ASSUME IInv, NEW s \in DOMAIN steps, NEW name, NEW arg, [call |-> name, arg |-> arg] \in Call
  PROVE  Then(s, name, arg) \in Seq(Call)
BY OldStep, AppendProperties DEF Then

-----------------------------------------------------------------------------
(* The calls of a chain *)

LEMMA NewStep ==
  ASSUME NEW conn \in Conns \cup {NoConn}, NEW query \in Seq(Criterion), NEW made
  PROVE  New(conn, query) \in Step /\ WellMade(New(conn, query), made)
<1>1. /\ <<>> \in Seq(SortOrders) /\ <<>> \in Seq(Nat) /\ DOMAIN <<>> = {}
  BY EmptySeq
<1>2. New(conn, query) \in Step
  BY <1>1 DEF New, Step, Kinds
<1> QED
  BY <1>1, <1>2 DEF New, WellMade

LEMMA InitIInv == Init => IInv
<1> SUFFICES ASSUME Init PROVE IInv
  OBVIOUS
<1>1. /\ steps = <<>> /\ facets = <<>> /\ asked = <<>>
      /\ <<>> \in Seq(Step) /\ <<>> \in Seq(Facet) /\ <<>> \in Seq(Seq(Call)) /\ Len(<<>>) = 0
  BY EmptySeq DEF Init
<1> QED
  BY <1>1 DEF Init, IInv

LEMMA QueryPreserves ==
  ASSUME IInv, NEW x \in Contexts, Query(x)
  PROVE  IInv'
<1> DEFINE new == New(connection[x], <<>>)
           calls == <<[call |-> "Query", arg |-> connection[x]]>>
<1>1. connection[x] \in Conns \cup {NoConn} /\ facets \in Seq(Facet)
  BY DEF IInv
<1>2. <<>> \in Seq(Criterion)
  BY EmptySeq
<1>3. new \in Step /\ WellMade(new, Len(facets))
  BY <1>1, <1>2, NewStep
<1>4. [call |-> "Query", arg |-> connection[x]] \in Call
  BY <1>1 DEF Call
<1>5. calls \in Seq(Call)
  BY <1>4
<1>6. Make(new, calls) /\ UNCHANGED <<connection, facets>>
  BY DEF Query
<1>7. Len(facets) \in Nat
  BY <1>1, LenProperties
<1> HIDE DEF new, calls
<1>8. facets' \in Seq(Facet) /\ Len(facets) <= Len(facets') /\ WellMade(new, Len(facets'))
  BY <1>1, <1>3, <1>6, <1>7
<1> QED
  BY <1>3, <1>5, <1>6, <1>8, MakePreserves

\* A step made from an old one, without a new facet object.
LEMMA SameFacetsPreserves ==
  ASSUME IInv, NEW x \in Step, NEW calls \in Seq(Call), Make(x, calls),
         UNCHANGED <<connection, facets>>, WellMade(x, Len(facets))
  PROVE  IInv'
<1>1. facets \in Seq(Facet) /\ Len(facets) \in Nat
  BY LenProperties DEF IInv
<1>2. /\ UNCHANGED connection /\ facets' \in Seq(Facet) /\ Len(facets) <= Len(facets')
      /\ WellMade(x, Len(facets'))
  BY <1>1
<1> QED
  BY <1>2, MakePreserves

LEMMA ByPreserves ==
  ASSUME IInv, NEW s \in DOMAIN steps, NEW k \in Criteria, By(s, k)
  PROVE  IInv'
<1>1. steps[s] \in Step /\ k \in Criterion
  BY OldStep DEF Criterion
<1>2. Append(steps[s].query, k) \in Seq(Criterion) /\ steps[s].conn \in Conns \cup {NoConn}
  BY <1>1, AppendProperties DEF Step
<1> DEFINE new == New(steps[s].conn, Append(steps[s].query, k))
           calls == Then(s, "By", k)
<1>3. new \in Step /\ WellMade(new, Len(facets))
  BY <1>2, NewStep
<1>4. [call |-> "By", arg |-> k] \in Call
  BY DEF Call
<1>5. calls \in Seq(Call)
  BY <1>4, CallsGrow
<1>6. Make(new, calls) /\ UNCHANGED <<connection, facets>>
  BY DEF By
<1> HIDE DEF new, calls
<1> QED
  BY <1>3, <1>5, <1>6, SameFacetsPreserves

LEMMA ByRangePreserves ==
  ASSUME IInv, NEW s \in DOMAIN steps, NEW r \in Ranges, ByRange(s, r)
  PROVE  IInv'
<1>1. steps[s] \in Step /\ Within(r, TRUE) \in Criterion
  BY OldStep DEF Criterion, Within
<1>2. /\ Append(steps[s].query, Within(r, TRUE)) \in Seq(Criterion)
      /\ steps[s].conn \in Conns \cup {NoConn}
  BY <1>1, AppendProperties DEF Step
<1> DEFINE plain == New(steps[s].conn, Append(steps[s].query, Within(r, TRUE)))
           new == [plain EXCEPT !.kind = "range", !.range = r]
           calls == Then(s, "ByRange", r)
<1>3. plain \in Step /\ WellMade(plain, Len(facets)) /\ plain.kind = "query"
  BY <1>2, NewStep DEF New
<1>4. [call |-> "ByRange", arg |-> r] \in Call
  BY DEF Call
<1>5. calls \in Seq(Call)
  BY <1>4, CallsGrow
<1>6. Make(new, calls) /\ UNCHANGED <<connection, facets>>
  BY DEF ByRange
<1> HIDE DEF plain
<1>7. new \in Step /\ WellMade(new, Len(facets))
  BY <1>3, NoneAssumption DEF Step, Kinds, WellMade
<1> HIDE DEF new, calls
<1> QED
  BY <1>5, <1>6, <1>7, SameFacetsPreserves

LEMMA BoundsPreserves ==
  ASSUME IInv, NEW s \in DOMAIN steps, NEW b \in BOOLEAN, Bounds(s, b)
  PROVE  IInv'
<1>1. steps[s] \in Step /\ steps[s].kind = "range" /\ WellMade(steps[s], Len(facets))
  BY OldStep DEF Bounds
<1>2. Within(steps[s].range, b) \in Criterion
  BY <1>1 DEF Step, WellMade, Criterion, Within
<1>3. Before(s) \in Seq(Criterion)
  <2> DEFINE q == steps[s].query
             n == Len(q) - 1
  <2>1. q \in Seq(Criterion) /\ Len(q) \in Nat
    BY <1>1, LenProperties DEF Step
  <2> HIDE DEF q
  <2>2. n \in Int /\ \A i \in 1..n : q[i] \in Criterion
    BY <2>1, ElementOfSeq
  <2> HIDE DEF n
  <2>3. SubSeq(q, 1, n) \in Seq(Criterion)
    BY <2>2, SubSeqProperties
  <2> QED
    BY <2>3 DEF Before, q, n
<1>4. /\ Append(Before(s), Within(steps[s].range, b)) \in Seq(Criterion)
      /\ steps[s].conn \in Conns \cup {NoConn}
  BY <1>1, <1>2, <1>3, AppendProperties DEF Step
<1> DEFINE new == New(steps[s].conn, Append(Before(s), Within(steps[s].range, b)))
           calls == Then(s, "Bounds", b)
<1>5. new \in Step /\ WellMade(new, Len(facets))
  BY <1>4, NewStep
<1>6. [call |-> "Bounds", arg |-> b] \in Call
  BY DEF Call
<1>7. calls \in Seq(Call)
  BY <1>6, CallsGrow
<1>8. Make(new, calls) /\ UNCHANGED <<connection, facets>>
  BY DEF Bounds
<1> HIDE DEF new, calls
<1> QED
  BY <1>5, <1>7, <1>8, SameFacetsPreserves

LEMMA OrderByPreserves ==
  ASSUME IInv, NEW s \in DOMAIN steps, NEW o \in SortOrders, OrderBy(s, o)
  PROVE  IInv'
<1>1. steps[s] \in Step
  BY OldStep
<1>2. /\ steps[s].query \in Seq(Criterion) /\ steps[s].conn \in Conns \cup {NoConn}
      /\ Append(steps[s].order, o) \in Seq(SortOrders)
  BY <1>1, AppendProperties DEF Step
<1> DEFINE plain == New(steps[s].conn, steps[s].query)
           new == [plain EXCEPT !.kind = "run", !.order = Append(steps[s].order, o)]
           calls == Then(s, "OrderBy", o)
<1>3. plain \in Step /\ WellMade(plain, Len(facets)) /\ plain.kind = "query"
  BY <1>2, NewStep DEF New
<1>4. [call |-> "OrderBy", arg |-> o] \in Call
  BY DEF Call
<1>5. calls \in Seq(Call)
  BY <1>4, CallsGrow
<1>6. Make(new, calls) /\ UNCHANGED <<connection, facets>>
  BY DEF OrderBy
<1> HIDE DEF plain
<1>7. new \in Step /\ WellMade(new, Len(facets))
  BY <1>2, <1>3 DEF Step, Kinds, WellMade
<1> HIDE DEF new, calls
<1> QED
  BY <1>5, <1>6, <1>7, SameFacetsPreserves

LEMMA HighlightPreserves ==
  ASSUME IInv, NEW s \in DOMAIN steps, NEW h \in Highlights, WithHighlighting(s, h)
  PROVE  IInv'
<1>1. steps[s] \in Step /\ WellMade(steps[s], Len(facets))
  BY OldStep
<1> DEFINE new == [steps[s] EXCEPT !.kind = "run", !.range = NoRange, !.facet = NoFacet,
                                   !.highlight = h]
           calls == Then(s, "WithHighlighting", h)
<1>2. new \in Step /\ WellMade(new, Len(facets))
  BY <1>1 DEF Step, Kinds, WellMade
<1>3. [call |-> "WithHighlighting", arg |-> h] \in Call
  BY DEF Call
<1>4. calls \in Seq(Call)
  BY <1>3, CallsGrow
<1>5. Make(new, calls) /\ UNCHANGED <<connection, facets>>
  BY DEF WithHighlighting
<1> HIDE DEF new, calls
<1> QED
  BY <1>2, <1>4, <1>5, SameFacetsPreserves

\* A facet object is made, and a step that holds it behind those it had.
LEMMA FacetMade ==
  ASSUME IInv, NEW s \in DOMAIN steps, NEW f \in FacetFields \cup FacetQueries,
         facets' = Append(facets, [on |-> f, options |-> [o \in Options |-> Unset]])
  PROVE  /\ facets' \in Seq(Facet) /\ Len(facets') = Len(facets) + 1
         /\ Len(facets) \in Nat
         /\ \A i \in 1..Len(facets) : facets'[i] = facets[i]
         /\ Append(steps[s].facets, Len(facets')) \in Seq(Nat)
         /\ \A i \in DOMAIN Append(steps[s].facets, Len(facets')) :
              Append(steps[s].facets, Len(facets'))[i] \in 1..Len(facets')
<1>1. facets \in Seq(Facet) /\ Len(facets) \in Nat
  BY LenProperties DEF IInv
<1>2. [on |-> f, options |-> [o \in Options |-> Unset]] \in Facet
  BY DEF Facet
<1>3. /\ facets' \in Seq(Facet) /\ Len(facets') = Len(facets) + 1
      /\ \A i \in 1..Len(facets) : facets'[i] = facets[i]
  BY <1>1, <1>2, AppendProperties
<1> DEFINE q == steps[s].facets
           n == Len(facets')
<1>4. q \in Seq(Nat) /\ \A i \in DOMAIN q : q[i] \in 1..Len(facets)
  BY OldStep DEF Step, WellMade
<1>5. n \in Nat /\ n \in 1..n /\ 1..Len(facets) \subseteq 1..n
  BY <1>1, <1>3
<1> HIDE DEF q, n
<1>6. /\ Append(q, n) \in Seq(Nat) /\ Len(Append(q, n)) = Len(q) + 1
      /\ \A i \in 1..Len(q) : Append(q, n)[i] = q[i]
      /\ Append(q, n)[Len(q) + 1] = n
  BY <1>4, <1>5, AppendProperties
<1>7. Len(q) \in Nat /\ DOMAIN q = 1..Len(q) /\ DOMAIN Append(q, n) = 1..(Len(q) + 1)
  BY <1>4, <1>6, LenProperties
<1>8. \A i \in DOMAIN Append(q, n) : Append(q, n)[i] \in 1..n
  <2> SUFFICES ASSUME NEW i \in 1..(Len(q) + 1) PROVE Append(q, n)[i] \in 1..n
    BY <1>7
  <2>1. CASE i = Len(q) + 1
    BY <1>5, <1>6, <2>1
  <2>2. CASE i \in 1..Len(q)
    BY <1>4, <1>5, <1>6, <1>7, <2>2
  <2> QED
    BY <1>7, <2>1, <2>2
<1> QED
  BY <1>1, <1>3, <1>6, <1>8 DEF q, n

LEMMA FacetFieldPreserves ==
  ASSUME IInv, NEW s \in DOMAIN steps, NEW f \in FacetFields, WithFacetField(s, f)
  PROVE  IInv'
<1>1. /\ facets' = Append(facets, [on |-> f, options |-> [o \in Options |-> Unset]])
      /\ UNCHANGED connection /\ f \in FacetFields \cup FacetQueries
  BY DEF WithFacetField
<1> DEFINE held == Append(steps[s].facets, Len(facets'))
           n == Len(facets')
           new == [steps[s] EXCEPT !.kind = "options", !.range = NoRange,
                     !.highlight = NoHighlight, !.facet = n, !.facets = held]
           calls == Then(s, "WithFacetField", f)
<1>2. /\ facets' \in Seq(Facet) /\ n = Len(facets) + 1 /\ Len(facets) \in Nat
      /\ held \in Seq(Nat) /\ \A i \in DOMAIN held : held[i] \in 1..n
  BY <1>1, FacetMade
<1>3. Make(new, calls)
  BY DEF WithFacetField
<1>4. steps[s] \in Step
  BY OldStep
<1> HIDE DEF held, n
<1>5. n \in Nat /\ n \in 1..n /\ Len(facets) <= n
  BY <1>2
<1>6. new \in Step /\ WellMade(new, n)
  BY <1>2, <1>4, <1>5 DEF Step, Kinds, WellMade
<1>7. [call |-> "WithFacetField", arg |-> f] \in Call
  BY DEF Call
<1>8. calls \in Seq(Call)
  BY <1>7, CallsGrow
<1> HIDE DEF new, calls
<1>9. Len(facets) <= Len(facets') /\ WellMade(new, Len(facets'))
  BY <1>5, <1>6 DEF n
<1> QED
  BY <1>1, <1>2, <1>3, <1>6, <1>8, <1>9, MakePreserves

LEMMA FacetQueryPreserves ==
  ASSUME IInv, NEW s \in DOMAIN steps, NEW q \in FacetQueries, WithFacetQuery(s, q)
  PROVE  IInv'
<1>1. /\ facets' = Append(facets, [on |-> q, options |-> [o \in Options |-> Unset]])
      /\ UNCHANGED connection /\ q \in FacetFields \cup FacetQueries
  BY DEF WithFacetQuery
<1> DEFINE held == Append(steps[s].facets, Len(facets'))
           n == Len(facets')
           new == [steps[s] EXCEPT !.kind = "run", !.range = NoRange, !.facet = NoFacet,
                                   !.facets = held]
           calls == Then(s, "WithFacetQuery", q)
<1>2. /\ facets' \in Seq(Facet) /\ n = Len(facets) + 1 /\ Len(facets) \in Nat
      /\ held \in Seq(Nat) /\ \A i \in DOMAIN held : held[i] \in 1..n
  BY <1>1, FacetMade
<1>3. Make(new, calls)
  BY DEF WithFacetQuery
<1>4. steps[s] \in Step
  BY OldStep
<1> HIDE DEF held, n
<1>5. Len(facets) <= n
  BY <1>2
<1>6. new \in Step /\ WellMade(new, n)
  BY <1>2, <1>4, <1>5 DEF Step, Kinds, WellMade
<1>7. [call |-> "WithFacetQuery", arg |-> q] \in Call
  BY DEF Call
<1>8. calls \in Seq(Call)
  BY <1>7, CallsGrow
<1> HIDE DEF new, calls
<1>9. Len(facets) <= Len(facets') /\ WellMade(new, Len(facets'))
  BY <1>5, <1>6 DEF n
<1> QED
  BY <1>1, <1>2, <1>3, <1>6, <1>8, <1>9, MakePreserves

\* The facet object of a step for options is changed in place.
LEMMA OptionChanged ==
  ASSUME IInv, NEW s \in DOMAIN steps, NEW option \in Options, NEW value \in Values,
         SetOption(s, option, value)
  PROVE  /\ steps[s].facet \in 1..Len(facets)
         /\ facets' \in Seq(Facet) /\ Len(facets') = Len(facets)
         /\ \A j \in 1..Len(facets) : j # steps[s].facet => facets'[j] = facets[j]
<1> DEFINE k == steps[s].facet
           g == [facets[k] EXCEPT !.options[option] = value]
<1>1. k \in 1..Len(facets) /\ facets \in Seq(Facet)
  BY OldStep DEF SetOption, WellMade, IInv
<1>2. facets[k] \in Facet
  BY <1>1, ElementOfSeq
<1>3. g \in Facet
  BY <1>2 DEF Facet
<1>4. facets' = [facets EXCEPT ![k] = g]
  BY DEF SetOption
<1> HIDE DEF k, g
<1>5. /\ [facets EXCEPT ![k] = g] \in Seq(Facet)
      /\ Len([facets EXCEPT ![k] = g]) = Len(facets)
      /\ \A j \in 1..Len(facets) : [facets EXCEPT ![k] = g][j] = IF j = k THEN g ELSE facets[j]
  BY <1>1, <1>3, ExceptSeq
<1> QED
  BY <1>1, <1>4, <1>5 DEF k

LEMMA SetOptionPreserves ==
  ASSUME IInv, NEW s \in DOMAIN steps, NEW option \in Options, NEW value \in Values,
         SetOption(s, option, value)
  PROVE  IInv'
<1>1. facets' \in Seq(Facet) /\ Len(facets') = Len(facets)
  BY OptionChanged
<1>2. steps[s] \in Step /\ WellMade(steps[s], Len(facets)) /\ Len(facets) \in Nat
  BY OldStep
<1>3. Make(steps[s], Then(s, "SetOption", <<option, value>>)) /\ UNCHANGED connection
  BY DEF SetOption
<1>4. [call |-> "SetOption", arg |-> <<option, value>>] \in Call
  BY DEF Call
<1>5. Then(s, "SetOption", <<option, value>>) \in Seq(Call)
  BY <1>4, CallsGrow
<1>6. Len(facets) <= Len(facets') /\ WellMade(steps[s], Len(facets'))
  BY <1>1, <1>2
<1> QED
  BY <1>1, <1>2, <1>3, <1>5, <1>6, MakePreserves

\* What is sent is made of what the step holds.
LEMMA RunPreserves ==
  ASSUME IInv, NEW s \in DOMAIN steps, Run(s)
  PROVE  IInv'
<1>1. /\ steps[s] \in Step /\ \A i \in DOMAIN steps[s].facets : steps[s].facets[i] \in 1..Len(facets)
      /\ facets \in Seq(Facet)
  BY OldStep DEF WellMade, IInv
<1> DEFINE held == steps[s].facets
           made == [i \in DOMAIN held |-> facets[held[i]]]
<1>2. made \in Seq(Facet)
  <2>1. held \in Seq(Nat) /\ Len(held) \in Nat /\ DOMAIN held = 1..Len(held)
    BY <1>1, LenProperties DEF Step
  <2>2. \A i \in DOMAIN held : facets[held[i]] \in Facet
    BY <1>1, ElementOfSeq
  <2> HIDE DEF held
  <2>3. made \in [1..Len(held) -> Facet]
    BY <2>1, <2>2
  <2> QED
    BY <2>1, <2>3, SeqDef
<1>3. steps[s].conn # NoConn => Parameters(s) \in Request
  BY <1>1, <1>2 DEF Parameters, Step, Request
<1>4. sent' \in Request \cup {NoRequest}
  BY <1>3 DEF Run
<1> QED
  BY <1>4 DEF Run, IInv

LEMMA ConnectPreserves ==
  ASSUME IInv, NEW x \in Contexts, NEW c \in Conns, Connect(x, c)
  PROVE  IInv'
BY DEF Connect, IInv

-----------------------------------------------------------------------------
(* The theorems about steps *)

\* Steps and facet objects are only ever added, and a facet object only gets
\* a value for an option.
THEOREM Inductive == Spec => []IInv
<1>1. IInv /\ [Next]_vars => IInv'
  <2> SUFFICES ASSUME IInv, [Next]_vars PROVE IInv'
    OBVIOUS
  <2>1. ASSUME NEW x \in Contexts, Query(x) PROVE IInv'
    BY <2>1, QueryPreserves
  <2>2. ASSUME NEW x \in Contexts, NEW c \in Conns, Connect(x, c) PROVE IInv'
    BY <2>2, ConnectPreserves
  <2>3. ASSUME NEW s \in DOMAIN steps, NEW k \in Criteria, By(s, k) PROVE IInv'
    BY <2>3, ByPreserves
  <2>4. ASSUME NEW s \in DOMAIN steps, NEW r \in Ranges, ByRange(s, r) PROVE IInv'
    BY <2>4, ByRangePreserves
  <2>5. ASSUME NEW s \in DOMAIN steps, NEW b \in BOOLEAN, Bounds(s, b) PROVE IInv'
    BY <2>5, BoundsPreserves
  <2>6. ASSUME NEW s \in DOMAIN steps, NEW o \in SortOrders, OrderBy(s, o) PROVE IInv'
    BY <2>6, OrderByPreserves
  <2>7. ASSUME NEW s \in DOMAIN steps, NEW f \in FacetFields, WithFacetField(s, f) PROVE IInv'
    BY <2>7, FacetFieldPreserves
  <2>8. ASSUME NEW s \in DOMAIN steps, NEW o \in Options, NEW v \in Values, SetOption(s, o, v)
        PROVE  IInv'
    BY <2>8, SetOptionPreserves
  <2>9. ASSUME NEW s \in DOMAIN steps, NEW q \in FacetQueries, WithFacetQuery(s, q) PROVE IInv'
    BY <2>9, FacetQueryPreserves
  <2>10. ASSUME NEW s \in DOMAIN steps, NEW h \in Highlights, WithHighlighting(s, h) PROVE IInv'
    BY <2>10, HighlightPreserves
  <2>11. ASSUME NEW s \in DOMAIN steps, Run(s) PROVE IInv'
    BY <2>11, RunPreserves
  <2>12. CASE UNCHANGED vars
    BY <2>12 DEF vars, IInv
  <2> QED
    BY <2>1, <2>2, <2>3, <2>4, <2>5, <2>6, <2>7, <2>8, <2>9, <2>10, <2>11, <2>12 DEF Next
<1> QED
  BY <1>1, InitIInv, PTL DEF Spec

\* Every step holds facet objects that exist, and only the steps for ranges
\* and for options have something to bound or to set.
THEOREM TypeCorrect == Spec => []TypeOK
BY Inductive, Types, PTL

\* A step is as it was, and so is what it would send, unless a facet that it
\* holds is changed.
LEMMA StepStays ==
  ASSUME IInv, NEW x \in Step, steps' = Append(steps, x), NEW s \in DOMAIN steps,
         \A i \in DOMAIN steps[s].facets : facets'[steps[s].facets[i]] = facets[steps[s].facets[i]]
  PROVE  Parameters(s)' = Parameters(s)
<1>1. steps \in Seq(Step) /\ s \in 1..Len(steps)
  BY LenProperties DEF IInv
<1>2. steps'[s] = steps[s]
  BY <1>1, AppendProperties
<1> QED
  BY <1>2 DEF Parameters

LEMMA NewStepIsLast ==
  ASSUME IInv, NEW x \in Step, steps' = Append(steps, x)
  PROVE  steps'[Len(steps')] = x
<1>1. steps \in Seq(Step) /\ Len(steps) \in Nat
  BY LenProperties DEF IInv
<1>2. Len(steps') = Len(steps) + 1 /\ steps'[Len(steps) + 1] = x
  BY <1>1, AppendProperties
<1> QED
  BY <1>2

StepsStayNow ==
  \A s \in DOMAIN steps :
    Parameters(s)' # Parameters(s)
      => /\ steps'[Len(steps')].kind = "options"
         /\ \E i \in DOMAIN steps[s].facets : steps[s].facets[i] = steps'[Len(steps')].facet

\* The calls that make a step without touching the facet objects there are.
LEMMA AddedOnly ==
  ASSUME IInv, NEW x, steps' = Append(steps, x),
         \A j \in 1..Len(facets) : facets'[j] = facets[j]
  PROVE  StepsStayNow
<1>1. steps \in Seq(Step) /\ Len(steps) \in Nat
  BY LenProperties DEF IInv
<1> SUFFICES ASSUME NEW s \in DOMAIN steps PROVE Parameters(s)' = Parameters(s)
  BY DEF StepsStayNow
<1>2. s \in 1..Len(steps)
  BY <1>1, LenProperties
<1>3. steps'[s] = steps[s]
  BY <1>1, <1>2
<1>4. \A i \in DOMAIN steps[s].facets : steps[s].facets[i] \in 1..Len(facets)
  BY OldStep DEF WellMade
<1> QED
  BY <1>3, <1>4 DEF Parameters

LEMMA NothingAdded ==
  ASSUME UNCHANGED <<steps, facets>>
  PROVE  StepsStayNow
BY DEF StepsStayNow, Parameters

LEMMA OptionStays ==
  ASSUME IInv, NEW t \in DOMAIN steps, NEW option \in Options, NEW value \in Values,
         SetOption(t, option, value)
  PROVE  StepsStayNow
<1>1. /\ steps[t].facet \in 1..Len(facets)
      /\ \A j \in 1..Len(facets) : j # steps[t].facet => facets'[j] = facets[j]
  BY OptionChanged
<1>2. /\ steps[t] \in Step /\ steps[t].kind = "options"
      /\ steps' = Append(steps, steps[t])
  BY OldStep DEF SetOption, Make
<1>3. steps'[Len(steps')] = steps[t]
  BY <1>2, NewStepIsLast
<1> SUFFICES ASSUME NEW s \in DOMAIN steps, Parameters(s)' # Parameters(s)
             PROVE  \E i \in DOMAIN steps[s].facets : steps[s].facets[i] = steps[t].facet
  BY <1>2, <1>3 DEF StepsStayNow
<1>4. \A i \in DOMAIN steps[s].facets : steps[s].facets[i] \in 1..Len(facets)
  BY OldStep DEF WellMade
<1>5. CASE \A i \in DOMAIN steps[s].facets : steps[s].facets[i] # steps[t].facet
  BY <1>1, <1>2, <1>4, <1>5, StepStays
<1> QED
  BY <1>5

\* What a step would send changes only when an option is set on a facet that
\* it holds: the branches of a tree of steps, and the threads that build them,
\* do not reach each other in any other way.
THEOREM Immutable == Spec => StepsStay
<1>1. IInv /\ [Next]_vars => [StepsStayNow]_vars
  <2> SUFFICES ASSUME IInv, Next PROVE StepsStayNow
    OBVIOUS
  <2>1. ASSUME NEW x, steps' = Append(steps, x), facets' = facets PROVE StepsStayNow
    BY <2>1, AddedOnly
  <2>2. ASSUME NEW x, steps' = Append(steps, x), NEW g, facets' = Append(facets, g)
        PROVE  StepsStayNow
    <3>1. facets \in Seq(Facet)
      BY DEF IInv
    <3>2. \A j \in 1..Len(facets) : facets'[j] = facets[j]
      BY <2>2, <3>1
    <3> QED
      BY <2>2, <3>2, AddedOnly
  <2>3. CASE \E y \in Contexts : Query(y)
    BY <2>1, <2>3 DEF Query, Make
  <2>4. CASE \E y \in Contexts, c \in Conns : Connect(y, c)
    BY <2>4, NothingAdded DEF Connect
  <2>5. ASSUME NEW s \in DOMAIN steps,
               \/ \E k \in Criteria : By(s, k)
               \/ \E r \in Ranges : ByRange(s, r)
               \/ \E b \in BOOLEAN : Bounds(s, b)
               \/ \E o \in SortOrders : OrderBy(s, o)
               \/ \E h \in Highlights : WithHighlighting(s, h)
        PROVE  StepsStayNow
    BY <2>1, <2>5 DEF By, ByRange, Bounds, OrderBy, WithHighlighting, Make
  <2>6. ASSUME NEW s \in DOMAIN steps,
               \/ \E f \in FacetFields : WithFacetField(s, f)
               \/ \E q \in FacetQueries : WithFacetQuery(s, q)
        PROVE  StepsStayNow
    BY <2>2, <2>6 DEF WithFacetField, WithFacetQuery, Make
  <2>7. ASSUME NEW s \in DOMAIN steps, Run(s) PROVE StepsStayNow
    BY <2>7, NothingAdded DEF Run
  <2>8. ASSUME NEW s \in DOMAIN steps, NEW o \in Options, NEW v \in Values, SetOption(s, o, v)
        PROVE  StepsStayNow
    BY <2>8, OptionStays
  <2> QED
    BY <2>3, <2>4, <2>5, <2>6, <2>7, <2>8 DEF Next
<1>2. [StepsStayNow]_vars <=> [\A s \in DOMAIN steps :
        Parameters(s)' # Parameters(s)
          => /\ steps'[Len(steps')].kind = "options"
             /\ \E i \in DOMAIN steps[s].facets :
                  steps[s].facets[i] = steps'[Len(steps')].facet]_vars
  BY DEF StepsStayNow
<1> QED
  BY <1>1, <1>2, Inductive, PTL DEF Spec, StepsStay

-----------------------------------------------------------------------------
(* The elements of a sequence at some places *)

LEMMA LengthOf ==
  ASSUME NEW n \in Nat, NEW seq, seq = [i \in 1..n |-> seq[i]]
  PROVE  Len(seq) = n
<1> DEFINE S == {seq[i] : i \in 1..n}
<1>1. seq \in [1..n -> S]
  OBVIOUS
<1>2. seq \in Seq(S)
  BY <1>1, SeqDef
<1> HIDE DEF S
<1>3. Len(seq) \in Nat /\ DOMAIN seq = 1..Len(seq) /\ DOMAIN seq = 1..n
  BY <1>1, <1>2, LenProperties
<1>4. PICK m \in Nat : m = Len(seq) /\ 1..m = 1..n
  BY <1>3
<1>5. ASSUME m < n PROVE FALSE
  <2>1. n \in 1..n /\ n \notin 1..m
    BY ONLY <1>5, m \in Nat, n \in Nat
  <2> QED
    BY <1>4, <2>1
<1>6. ASSUME n < m PROVE FALSE
  <2>1. m \in 1..m /\ m \notin 1..n
    BY ONLY <1>6, m \in Nat, n \in Nat
  <2> QED
    BY <1>4, <2>1
<1>7. m = n
  BY ONLY <1>5, <1>6, m \in Nat, n \in Nat
<1> QED
  BY <1>4, <1>7

\* A recursive function is there, and takes the elements one by one.
LEMMA PickInTurn ==
  ASSUME NEW seq, Len(seq) \in Nat, NEW places
  PROVE  \E upTo :
           /\ upTo[0] = <<>>
           /\ \A i \in 1..Len(seq) :
                upTo[i] = IF i \in places THEN Append(upTo[i - 1], seq[i]) ELSE upTo[i - 1]
           /\ Pick(seq, places) = upTo[Len(seq)]
<1> DEFINE Made(x, i) == IF i \in places THEN Append(x, seq[i]) ELSE x
           Until(n, g) == g = [i \in 0..n |-> IF i = 0 THEN <<>> ELSE Made(g[i - 1], i)]
           T == {n \in 0..Len(seq) : \E g : Until(n, g)}
<1>1. 0 \in T
  <2> DEFINE g == [i \in 0..0 |-> <<>>]
  <2>1. Until(0, g)
    OBVIOUS
  <2>2. \E x : Until(0, x)
    BY <2>1
  <2> QED
    BY <2>2
<1>2. ASSUME NEW n \in 0..(Len(seq) - 1), n \in T PROVE n + 1 \in T
  <2>1. PICK g : Until(n, g)
    BY <1>2
  <2> DEFINE h == [i \in 0..(n + 1) |-> IF i = n + 1 THEN Made(g[n], n + 1) ELSE g[i]]
  <2> HIDE DEF Made
  <2>2. \A i \in 0..n : h[i] = g[i]
    OBVIOUS
  <2>3. \A i \in 0..n : h[i] = IF i = 0 THEN <<>> ELSE Made(h[i - 1], i)
    <3> TAKE i \in 0..n
    <3>1. h[i] = IF i = 0 THEN <<>> ELSE Made(g[i - 1], i)
      BY <2>1, <2>2
    <3>2. i # 0 => g[i - 1] = h[i - 1]
      BY <2>2
    <3> HIDE DEF h
    <3> QED
      BY <3>1, <3>2
  <2>4. h[n + 1] = Made(h[n], n + 1)
    BY <2>2
  <2> HIDE DEF h
  <2>5. \A i \in 0..(n + 1) : h[i] = IF i = 0 THEN <<>> ELSE Made(h[i - 1], i)
    <3> TAKE i \in 0..(n + 1)
    <3>1. n \in Nat
      BY <1>2
    <3>2. i \in 0..n \/ i = n + 1
      BY ONLY <3>1, i \in 0..(n + 1)
    <3>3. CASE i \in 0..n
      BY <2>3, <3>3
    <3>4. CASE i = n + 1
      <4>1. i - 1 = n /\ i # 0
        BY ONLY <3>1, <3>4
      <4> QED
        BY <2>4, <3>4, <4>1
    <3> QED
      BY <3>2, <3>3, <3>4
  <2>6. h = [i \in 0..(n + 1) |-> h[i]]
    BY DEF h
  <2>7. Until(n + 1, h)
    BY <2>5, <2>6
  <2> QED
    BY <2>7
<1> HIDE DEF T
<1>3. 0..Len(seq) \subseteq T
  BY <1>1, <1>2, UpTo
<1>4. \E g : Until(Len(seq), g)
  BY <1>3 DEF T
<1> DEFINE upTo == CHOOSE g : Until(Len(seq), g)
<1>5. Until(Len(seq), upTo)
  BY <1>4
<1>6. Pick(seq, places) = upTo[Len(seq)]
  BY DEF Pick
<1> HIDE DEF upTo
<1>7. /\ upTo[0] = <<>>
      /\ \A i \in 1..Len(seq) : upTo[i] = Made(upTo[i - 1], i)
  <2> HIDE DEF Made
  <2>1. \A i \in 0..Len(seq) : upTo[i] = IF i = 0 THEN <<>> ELSE Made(upTo[i - 1], i)
    BY <1>5
  <2> QED
    BY <2>1
<1> QED
  BY <1>6, <1>7

\* What is picked from a sequence of one more element.
LEMMA PickNext ==
  ASSUME NEW old, NEW new, Len(old) \in Nat, Len(new) = Len(old) + 1, NEW places, NEW more,
         \A i \in 1..Len(old) : /\ i \in places <=> i \in more
                                /\ i \in places => new[i] = old[i]
  PROVE  Pick(new, more) = IF Len(new) \in more THEN Append(Pick(old, places), new[Len(new)])
                                                ELSE Pick(old, places)
<1> DEFINE n == Len(old)
<1>1. PICK f : /\ f[0] = <<>>
               /\ \A i \in 1..n : f[i] = IF i \in places THEN Append(f[i - 1], old[i]) ELSE f[i - 1]
               /\ Pick(old, places) = f[n]
  BY PickInTurn
<1>2. PICK g : /\ g[0] = <<>>
               /\ \A i \in 1..(n + 1) :
                    g[i] = IF i \in more THEN Append(g[i - 1], new[i]) ELSE g[i - 1]
               /\ Pick(new, more) = g[n + 1]
  <2>1. Len(new) \in Nat
    OBVIOUS
  <2>2. \E g : /\ g[0] = <<>>
               /\ \A i \in 1..Len(new) :
                    g[i] = IF i \in more THEN Append(g[i - 1], new[i]) ELSE g[i - 1]
               /\ Pick(new, more) = g[Len(new)]
    BY ONLY <2>1, PickInTurn
  <2> QED
    BY <2>2
<1> DEFINE T == {i \in 0..n : f[i] = g[i]}
<1>3. 0 \in T
  BY <1>1, <1>2
<1>4. ASSUME NEW i \in 0..(n - 1), i \in T PROVE i + 1 \in T
  <2>1. i + 1 \in 1..n /\ i + 1 \in 1..(n + 1) /\ (i + 1) - 1 = i
    OBVIOUS
  <2>2. f[i + 1] = IF i + 1 \in places THEN Append(f[i], old[i + 1]) ELSE f[i]
    BY <1>1, <2>1
  <2>3. g[i + 1] = IF i + 1 \in more THEN Append(g[i], new[i + 1]) ELSE g[i]
    BY <1>2, <2>1
  <2> QED
    BY <1>4, <2>1, <2>2, <2>3
<1> HIDE DEF T
<1>5. n \in T
  <2>1. 0..n \subseteq T
    BY <1>3, <1>4, UpTo
  <2> QED
    BY <2>1
<1>6. g[n + 1] = IF n + 1 \in more THEN Append(g[n], new[n + 1]) ELSE g[n]
  BY <1>2
<1> QED
  BY <1>1, <1>2, <1>5, <1>6 DEF T

LEMMA PickNone ==
  ASSUME NEW seq, Len(seq) \in Nat, NEW places, \A i \in 1..Len(seq) : i \notin places
  PROVE  Pick(seq, places) = <<>>
<1> DEFINE n == Len(seq)
<1>1. PICK f : /\ f[0] = <<>>
               /\ \A i \in 1..n : f[i] = IF i \in places THEN Append(f[i - 1], seq[i]) ELSE f[i - 1]
               /\ Pick(seq, places) = f[n]
  BY PickInTurn
<1> DEFINE T == {i \in 0..n : f[i] = <<>>}
<1>2. 0 \in T
  BY <1>1
<1>3. ASSUME NEW i \in 0..(n - 1), i \in T PROVE i + 1 \in T
  <2>1. i + 1 \in 1..n /\ (i + 1) - 1 = i
    OBVIOUS
  <2> QED
    BY <1>1, <1>3, <2>1
<1> HIDE DEF T
<1>4. 0..n \subseteq T
  BY <1>2, <1>3, UpTo
<1> QED
  BY <1>1, <1>4 DEF T

\* What is picked is a sequence of elements.
LEMMA PickType ==
  ASSUME NEW S, NEW seq, Len(seq) \in Nat, NEW places,
         \A i \in 1..Len(seq) : i \in places => seq[i] \in S
  PROVE  Pick(seq, places) \in Seq(S)
<1> DEFINE n == Len(seq)
<1>1. PICK f : /\ f[0] = <<>>
               /\ \A i \in 1..n : f[i] = IF i \in places THEN Append(f[i - 1], seq[i]) ELSE f[i - 1]
               /\ Pick(seq, places) = f[n]
  BY PickInTurn
<1> DEFINE T == {i \in 0..n : f[i] \in Seq(S)}
<1>2. 0 \in T
  <2>1. f[0] \in Seq(S)
    BY ONLY <1>1, EmptySeq
  <2> QED
    BY <2>1
<1>3. ASSUME NEW i \in 0..(n - 1), i \in T PROVE i + 1 \in T
  <2>1. i + 1 \in 1..n /\ (i + 1) - 1 = i
    OBVIOUS
  <2>2. f[i + 1] = IF i + 1 \in places THEN Append(f[i], seq[i + 1]) ELSE f[i]
    BY <1>1, <2>1
  <2>3. f[i] \in Seq(S) /\ (i + 1 \in places => seq[i + 1] \in S)
    BY <1>3, <2>1
  <2>4. f[i + 1] \in Seq(S)
    BY ONLY <2>2, <2>3
  <2> QED
    BY <2>1, <2>4
<1> HIDE DEF T
<1>4. 0..n \subseteq T
  BY <1>2, <1>3, UpTo
<1> QED
  BY <1>1, <1>4 DEF T

-----------------------------------------------------------------------------
(* One more call in a chain *)

LEMMA OneMore ==
  ASSUME NEW calls \in Seq(Call), NEW a \in Call
  PROVE  /\ Len(calls) \in Nat /\ Len(Append(calls, a)) = Len(calls) + 1
         /\ \A i \in 1..Len(calls) : Append(calls, a)[i] = calls[i]
         /\ Append(calls, a)[Len(calls) + 1] = a
BY AppendProperties, LenProperties

LEMMA CallsNext ==
  ASSUME NEW calls \in Seq(Call), NEW a \in Call, NEW names
  PROVE  /\ Calls(Append(calls, a), names) = IF a.call \in names THEN Calls(calls, names) \cup {Len(calls) + 1}
                                ELSE Calls(calls, names)
         /\ Calls(calls, names) \in SUBSET (1..Len(calls))
<1> DEFINE new == Append(calls, a)
           n == Len(calls)
<1>1. /\ n \in Nat /\ Len(new) = n + 1 /\ \A i \in 1..n : new[i] = calls[i]
      /\ new[n + 1] = a
  BY OneMore
<1>2. Calls(calls, names) = {i \in 1..n : calls[i].call \in names}
  BY DEF Calls
<1>3. Calls(new, names) = {i \in 1..(n + 1) : new[i].call \in names}
  BY <1>1 DEF Calls
<1> HIDE DEF n
<1>4. \A i : i \in 1..(n + 1) <=> i \in 1..n \/ i = n + 1
  BY <1>1
<1>5. \A i : i \in Calls(new, names) <=> i \in Calls(calls, names) \/ (i = n + 1 /\ a.call \in names)
  BY ONLY <1>1, <1>2, <1>3, <1>4
<1> QED
  BY <1>2, <1>5 DEF n

LEMMA AfterNext ==
  ASSUME NEW calls \in Seq(Call), NEW a \in Call, NEW names
  PROVE  /\ After(Append(calls, a), names) = IF a.call \in names THEN {} ELSE After(calls, names) \cup {Len(calls) + 1}
         /\ After(calls, names) \in SUBSET (1..Len(calls))
<1> DEFINE new == Append(calls, a)
           n == Len(calls)
<1>1. /\ n \in Nat /\ Len(new) = n + 1 /\ \A i \in 1..n : new[i] = calls[i]
      /\ new[n + 1] = a
  BY OneMore
<1>2. After(calls, names) = {i \in 1..n : \A j \in i..n : calls[j].call \notin names}
  BY DEF After
<1>3. After(new, names) = {i \in 1..(n + 1) : \A j \in i..(n + 1) : new[j].call \notin names}
  BY <1>1 DEF After
<1> HIDE DEF n
<1>4. ASSUME NEW i \in 1..(n + 1)
      PROVE  (\A j \in i..(n + 1) : new[j].call \notin names)
               <=> a.call \notin names /\ \A j \in i..n : calls[j].call \notin names
  <2>1. /\ n + 1 \in i..(n + 1) /\ i..n \subseteq 1..n
        /\ \A j : j \in i..(n + 1) <=> j \in i..n \/ j = n + 1
    BY <1>1
  <2> QED
    BY ONLY <1>1, <2>1
<1>5. \A i : i \in 1..(n + 1) <=> i \in 1..n \/ i = n + 1
  BY <1>1
<1>6. (n + 1)..n = {}
  BY <1>1
<1>7. \A i : i \in After(new, names)
               <=> a.call \notin names /\ (i \in After(calls, names) \/ i = n + 1)
  BY ONLY <1>2, <1>3, <1>4, <1>5, <1>6
<1> QED
  BY <1>2, <1>7 DEF n

LEMMA ArgsNext ==
  ASSUME NEW calls \in Seq(Call), NEW a \in Call,
         NEW places \in SUBSET (1..Len(calls))
  PROVE  /\ Args(Append(calls, a), places) = Args(calls, places)
         /\ Args(Append(calls, a), places \cup {Len(calls) + 1}) = Append(Args(calls, places), a.arg)
<1> DEFINE new == Append(calls, a)
           n == Len(calls)
           args(cs) == [i \in 1..Len(cs) |-> cs[i].arg]
<1>1. /\ n \in Nat /\ Len(new) = n + 1 /\ \A i \in 1..n : new[i] = calls[i]
      /\ new[n + 1] = a
  BY OneMore
<1>2. Len(args(calls)) = n
  BY <1>1, LengthOf
<1>3. Len(args(new)) = n + 1
  BY <1>1, LengthOf
<1>4. \A i \in 1..n : args(new)[i] = args(calls)[i]
  BY <1>1
<1>5. args(new)[n + 1] = a.arg
  BY <1>1
<1>6. \A cs, p : Args(cs, p) = Pick(args(cs), p)
  BY DEF Args
<1> HIDE DEF args, n
<1>7. n + 1 \notin places
  BY <1>1 DEF n
<1>8. Pick(args(new), places) = Pick(args(calls), places)
  <2>1. Len(args(calls)) \in Nat /\ Len(args(new)) = Len(args(calls)) + 1
        /\ \A i \in 1..Len(args(calls)) : /\ i \in places <=> i \in places
                                          /\ i \in places => args(new)[i] = args(calls)[i]
    BY <1>1, <1>2, <1>3, <1>4
  <2>2. Len(args(new)) \notin places
    BY <1>3, <1>7
  <2> QED
    BY ONLY <2>1, <2>2, PickNext
<1>9. Pick(args(new), places \cup {n + 1}) = Append(Pick(args(calls), places), args(new)[n + 1])
  <2> DEFINE more == places \cup {n + 1}
  <2>1. Len(args(calls)) \in Nat /\ Len(args(new)) = Len(args(calls)) + 1
        /\ \A i \in 1..Len(args(calls)) : /\ i \in places <=> i \in more
                                          /\ i \in places => args(new)[i] = args(calls)[i]
    BY <1>1, <1>2, <1>3, <1>4
  <2>2. Len(args(new)) \in more /\ Len(args(new)) = n + 1
    BY <1>3
  <2> HIDE DEF more
  <2>3. Pick(args(new), more) = Append(Pick(args(calls), places), args(new)[n + 1])
    BY ONLY <2>1, <2>2, PickNext
  <2> QED
    BY <2>3 DEF more
<1> QED
  BY <1>5, <1>6, <1>8, <1>9 DEF n

LEMMA ArgsNone ==
  ASSUME NEW calls \in Seq(Call)
  PROVE  Args(calls, {}) = <<>>
<1> DEFINE args == [i \in 1..Len(calls) |-> calls[i].arg]
<1>1. Len(calls) \in Nat
  BY LenProperties
<1>2. Len(args) = Len(calls)
  BY <1>1, LengthOf
<1> HIDE DEF args
<1>3. Pick(args, {}) = <<>>
  BY <1>1, <1>2, PickNone
<1> QED
  BY <1>3 DEF Args, args

\* What a call for a criterion or a range asks for, given the call after it.
Wants(calls) == [i \in 1..Len(calls) |-> IF calls[i].call = "By" THEN calls[i].arg
                                         ELSE Within(calls[i].arg, ~Exclusive(calls, i))]
Wanting(calls) == Calls(calls, {"By", "ByRange"})

LEMMA WantsNext ==
  ASSUME NEW calls \in Seq(Call), NEW a \in Call
  PROVE  /\ Len(Wants(calls)) = Len(calls) /\ Len(Wants(Append(calls, a))) = Len(calls) + 1
         /\ \A i \in 1..Len(calls) :
              i < Len(calls) \/ a.call # "Bounds" \/ a.arg # FALSE => Wants(Append(calls, a))[i] = Wants(calls)[i]
         /\ Wants(Append(calls, a))[Len(calls) + 1] = IF a.call = "By" THEN a.arg ELSE Within(a.arg, TRUE)
         /\ Len(calls) \in 1..Len(calls) /\ calls[Len(calls)].call # "By" /\ a.call = "Bounds" /\ a.arg \in BOOLEAN
              => Wants(Append(calls, a))[Len(calls)] = Within(calls[Len(calls)].arg, a.arg)
<1> DEFINE new == Append(calls, a)
           n == Len(calls)
<1>1. /\ n \in Nat /\ Len(new) = n + 1 /\ \A i \in 1..n : new[i] = calls[i]
      /\ new[n + 1] = a
  BY OneMore
<1>2. Len(Wants(calls)) = n /\ Len(Wants(new)) = n + 1
  BY <1>1, LengthOf DEF Wants
<1>3. /\ \A i \in 1..n : Wants(calls)[i] = IF calls[i].call = "By" THEN calls[i].arg
                                           ELSE Within(calls[i].arg, ~Exclusive(calls, i))
      /\ \A i \in 1..(n + 1) : Wants(new)[i] = IF new[i].call = "By" THEN new[i].arg
                                               ELSE Within(new[i].arg, ~Exclusive(new, i))
  BY <1>1 DEF Wants
<1> HIDE DEF n
<1>4. ASSUME NEW i \in 1..n, i < n \/ a.call # "Bounds" \/ a.arg # FALSE
      PROVE  Exclusive(new, i) <=> Exclusive(calls, i)
  <2>1. CASE i < n
    <3>1. new[i + 1] = calls[i + 1] /\ i < Len(new)
      BY <1>1, <2>1
    <3> QED
      BY <2>1, <3>1 DEF Exclusive, n
  <2>2. CASE ~(i < n)
    <3>1. new[i + 1] = a
      BY <1>1, <2>2
    <3> QED
      BY <1>4, <2>2, <3>1 DEF Exclusive, n
  <2> QED
    BY <2>1, <2>2
<1>5. ASSUME NEW i \in 1..n, i < n \/ a.call # "Bounds" \/ a.arg # FALSE
      PROVE  Wants(new)[i] = Wants(calls)[i]
  <2>1. i \in 1..(n + 1)
    BY <1>1
  <2>2. ~Exclusive(new, i) <=> ~Exclusive(calls, i)
    BY <1>4, <1>5
  <2>3. (~Exclusive(new, i)) = (~Exclusive(calls, i))
    BY <2>2 DEF Exclusive
  <2> QED
    BY <1>1, <1>3, <2>1, <2>3
<1>6. Wants(new)[n + 1] = IF a.call = "By" THEN a.arg ELSE Within(a.arg, TRUE)
  <2>1. n + 1 \in 1..(n + 1)
    BY <1>1
  <2>2. (~Exclusive(new, n + 1)) = TRUE
    BY <1>1 DEF Exclusive
  <2> QED
    BY <1>1, <1>3, <2>1, <2>2
<1>7. ASSUME n \in 1..n, calls[n].call # "By", a.call = "Bounds", a.arg \in BOOLEAN
      PROVE  Wants(new)[n] = Within(calls[n].arg, a.arg)
  <2>1. n \in 1..(n + 1) /\ n < Len(new)
    BY <1>1, <1>7
  <2>2. (~Exclusive(new, n)) = a.arg
    BY <1>1, <1>7, <2>1 DEF Exclusive
  <2> QED
    BY <1>1, <1>3, <1>7, <2>1, <2>2
<1> QED
  BY <1>2, <1>5, <1>6, <1>7 DEF n

\* The three ways a call bears on what is asked for.
LEMMA WantedSame ==
  ASSUME NEW calls \in Seq(Call), NEW a \in Call,
         a.call \notin {"By", "ByRange", "Bounds"}
  PROVE  Wanted(Append(calls, a)) = Wanted(calls)
<1> DEFINE new == Append(calls, a)
<1>0. calls \in Seq(Call) /\ a \in Call /\ new = Append(calls, a) /\ a.call # "Bounds"
  OBVIOUS
<1>1. /\ Len(Wants(calls)) \in Nat /\ Len(Wants(new)) = Len(Wants(calls)) + 1
      /\ Len(Wants(calls)) = Len(calls)
      /\ \A i \in 1..Len(Wants(calls)) : Wants(new)[i] = Wants(calls)[i]
  <2>1. Len(calls) \in Nat /\ Len(Wants(calls)) = Len(calls) /\ Len(Wants(new)) = Len(calls) + 1
    BY ONLY <1>0, WantsNext, OneMore
  <2>2. \A i \in 1..Len(calls) : Wants(new)[i] = Wants(calls)[i]
    BY ONLY <1>0, WantsNext
  <2> QED
    BY ONLY <2>1, <2>2
<1>2. Wanting(new) = Wanting(calls) /\ Wanting(calls) \in SUBSET (1..Len(calls))
  <2>1. a.call \notin {"By", "ByRange"}
    OBVIOUS
  <2> QED
    BY ONLY <1>0, <2>1, CallsNext DEF Wanting
<1>3. Len(Wants(new)) \notin Wanting(new)
  BY <1>1, <1>2
<1>4. Pick(Wants(new), Wanting(new)) = Pick(Wants(calls), Wanting(calls))
  <2>1. \A i \in 1..Len(Wants(calls)) : /\ i \in Wanting(calls) <=> i \in Wanting(new)
                                        /\ i \in Wanting(calls) => Wants(new)[i] = Wants(calls)[i]
    BY <1>1, <1>2
  <2> QED
    BY ONLY <1>1, <1>3, <2>1, PickNext
<1> QED
  BY <1>4 DEF Wanted, Wants, Wanting

LEMMA WantedMore ==
  ASSUME NEW calls \in Seq(Call), NEW a \in Call,
         a.call \in {"By", "ByRange"}
  PROVE  Wanted(Append(calls, a)) = Append(Wanted(calls), IF a.call = "By" THEN a.arg ELSE Within(a.arg, TRUE))
<1> DEFINE new == Append(calls, a)
<1>0. calls \in Seq(Call) /\ a \in Call /\ new = Append(calls, a) /\ a.call # "Bounds"
  OBVIOUS
<1>1. /\ Len(Wants(calls)) \in Nat /\ Len(Wants(new)) = Len(Wants(calls)) + 1
      /\ Len(Wants(calls)) = Len(calls)
      /\ \A i \in 1..Len(Wants(calls)) : Wants(new)[i] = Wants(calls)[i]
      /\ Wants(new)[Len(Wants(new))] = IF a.call = "By" THEN a.arg ELSE Within(a.arg, TRUE)
  <2>1. Len(calls) \in Nat /\ Len(Wants(calls)) = Len(calls) /\ Len(Wants(new)) = Len(calls) + 1
    BY ONLY <1>0, WantsNext, OneMore
  <2>2. \A i \in 1..Len(calls) : Wants(new)[i] = Wants(calls)[i]
    BY ONLY <1>0, WantsNext
  <2>3. Wants(new)[Len(calls) + 1] = IF a.call = "By" THEN a.arg ELSE Within(a.arg, TRUE)
    BY ONLY <1>0, WantsNext
  <2> QED
    BY ONLY <2>1, <2>2, <2>3
<1>2. /\ Wanting(new) = Wanting(calls) \cup {Len(calls) + 1}
      /\ Wanting(calls) \in SUBSET (1..Len(calls))
  BY CallsNext DEF Wanting
<1>3. Len(Wants(new)) \in Wanting(new)
  BY <1>1, <1>2
<1>4. Pick(Wants(new), Wanting(new)) = Append(Pick(Wants(calls), Wanting(calls)), Wants(new)[Len(Wants(new))])
  <2>1. \A i \in 1..Len(Wants(calls)) : /\ i \in Wanting(calls) <=> i \in Wanting(new)
                                        /\ i \in Wanting(calls) => Wants(new)[i] = Wants(calls)[i]
    BY <1>1, <1>2
  <2>2. Pick(Wants(new), Wanting(new))
          = IF Len(Wants(new)) \in Wanting(new)
            THEN Append(Pick(Wants(calls), Wanting(calls)), Wants(new)[Len(Wants(new))])
            ELSE Pick(Wants(calls), Wanting(calls))
    BY ONLY <1>1, <2>1, PickNext
  <2> QED
    BY ONLY <1>3, <2>2
<1>5. \A cs : Wanted(cs) = Pick(Wants(cs), Wanting(cs))
  BY DEF Wanted, Wants, Wanting
<1> HIDE DEF new
<1>6. Wanted(new) = Append(Wanted(calls), IF a.call = "By" THEN a.arg ELSE Within(a.arg, TRUE))
  BY ONLY <1>1, <1>4, <1>5
<1> QED
  BY <1>6 DEF new

\* The bounds of a range take the place of those it had.
LEMMA WantedBounds ==
  ASSUME NEW calls \in Seq(Call), NEW a \in Call,
         calls # <<>>, calls[Len(calls)].call = "ByRange", a.call = "Bounds", a.arg \in BOOLEAN
  PROVE  \E before :
           /\ Wanted(calls) = Append(before, Within(calls[Len(calls)].arg, TRUE))
           /\ Wanted(Append(calls, a)) = Append(before, Within(calls[Len(calls)].arg, a.arg))
           /\ \A S : Wanted(calls) \in Seq(S) => before \in Seq(S)
<1> DEFINE new == Append(calls, a)
           n == Len(calls)
           T == {Wants(calls)[i] : i \in 1..n}
<1>1. n \in Nat /\ n \in 1..n /\ n - 1 \in Nat
  BY LenProperties, EmptySeq
<1>2. PICK front : front = [i \in 1..(n - 1) |-> Wants(calls)[i]]
  OBVIOUS
<1>3. Len(front) = n - 1 /\ \A i \in 1..(n - 1) : front[i] = Wants(calls)[i]
  BY <1>1, <1>2, LengthOf
<1>4. /\ Len(Wants(calls)) = n /\ Len(Wants(new)) = n + 1
      /\ \A i \in 1..(n - 1) : Wants(new)[i] = Wants(calls)[i]
      /\ Wants(new)[n] = Within(calls[n].arg, a.arg)
  <2>1. /\ calls \in Seq(Call) /\ a \in Call /\ new = Append(calls, a)
        /\ a.call = "Bounds" /\ a.arg \in BOOLEAN /\ calls[Len(calls)].call # "By"
        /\ Len(calls) \in 1..Len(calls) /\ Len(calls) \in Nat
    BY <1>1
  <2>2. /\ Len(Wants(calls)) = Len(calls) /\ Len(Wants(new)) = Len(calls) + 1
        /\ Wants(new)[Len(calls)] = Within(calls[Len(calls)].arg, a.arg)
    BY ONLY <2>1, WantsNext
  <2>3. \A i \in 1..(Len(calls) - 1) : Wants(new)[i] = Wants(calls)[i]
    <3> TAKE i \in 1..(Len(calls) - 1)
    <3>1. i \in 1..Len(calls) /\ i < Len(calls)
      BY ONLY <2>1, i \in 1..(Len(calls) - 1)
    <3> QED
      BY ONLY <2>1, <3>1, WantsNext
  <2> QED
    BY <2>2, <2>3
<1>5. Wants(calls)[n] = Within(calls[n].arg, TRUE)
  <2>1. (~Exclusive(calls, n)) = TRUE
    BY <1>1 DEF Exclusive
  <2> QED
    BY <1>1, <2>1 DEF Wants
<1>6. /\ Wanting(new) = Wanting(calls) /\ Wanting(calls) \in SUBSET (1..n) /\ n \in Wanting(calls)
  BY <1>1, CallsNext DEF Wanting, Calls
<1> DEFINE before == Pick(front, Wanting(calls))
<1> HIDE DEF n
<1>7. Pick(Wants(calls), Wanting(calls)) = Append(before, Wants(calls)[n])
  <2>1. /\ Len(front) \in Nat /\ Len(Wants(calls)) = Len(front) + 1
        /\ \A i \in 1..Len(front) : /\ i \in Wanting(calls) <=> i \in Wanting(calls)
                                    /\ i \in Wanting(calls) => Wants(calls)[i] = front[i]
    BY <1>1, <1>3, <1>4
  <2>2. Pick(Wants(calls), Wanting(calls))
          = IF Len(Wants(calls)) \in Wanting(calls) THEN Append(before, Wants(calls)[Len(Wants(calls))])
            ELSE before
    BY ONLY <2>1, PickNext
  <2> QED
    BY <1>4, <1>6, <2>2
<1>8. Pick(Wants(new), Wanting(new)) = Append(before, Wants(new)[n])
  <2>1. PICK most : most = [i \in 1..n |-> Wants(new)[i]]
    OBVIOUS
  <2>2. Len(most) = n /\ \A i \in 1..n : most[i] = Wants(new)[i]
    BY <1>1, <2>1, LengthOf
  <2>3. Pick(most, Wanting(calls)) = Append(before, Wants(new)[n])
    <3>1. /\ Len(front) \in Nat /\ Len(most) = Len(front) + 1
          /\ \A i \in 1..Len(front) : /\ i \in Wanting(calls) <=> i \in Wanting(calls)
                                      /\ i \in Wanting(calls) => most[i] = front[i]
      BY <1>1, <1>3, <1>4, <2>2
    <3>2. Pick(most, Wanting(calls))
            = IF Len(most) \in Wanting(calls) THEN Append(before, most[Len(most)]) ELSE before
      BY ONLY <3>1, PickNext
    <3> QED
      BY <1>1, <1>6, <2>2, <3>2
  <2>4. Pick(Wants(new), Wanting(new)) = Pick(most, Wanting(calls))
    <3>1. /\ Len(most) \in Nat /\ Len(Wants(new)) = Len(most) + 1
          /\ \A i \in 1..Len(most) : /\ i \in Wanting(calls) <=> i \in Wanting(new)
                                     /\ i \in Wanting(calls) => Wants(new)[i] = most[i]
      BY <1>1, <1>4, <1>6, <2>2
    <3>2. Len(Wants(new)) \notin Wanting(new)
      BY <1>1, <1>4, <1>6
    <3> QED
      BY ONLY <3>1, <3>2, PickNext
  <2> QED
    BY <2>3, <2>4
<1> HIDE DEF before
<1>9. Wanted(calls) = Append(before, Within(calls[n].arg, TRUE))
  BY <1>5, <1>7 DEF Wanted, Wants, Wanting
<1>10. Wanted(new) = Append(before, Within(calls[n].arg, a.arg))
  BY <1>4, <1>8 DEF Wanted, Wants, Wanting
<1>11. before \in Seq(T)
  BY <1>1, <1>3, PickType DEF before
<1>12. ASSUME NEW S, Wanted(calls) \in Seq(S) PROVE before \in Seq(S)
  <2>1. Append(before, Within(calls[n].arg, TRUE)) \in Seq(S)
    BY <1>9, <1>12
  <2> QED
    BY <1>11, <2>1
<1> QED
  BY <1>9, <1>10, <1>12 DEF n

-----------------------------------------------------------------------------
(* What a step has and the calls that led to it *)

OptionCalls(calls) == Calls(calls, {"SetOption"}) \cap After(calls, {"OrderBy"})

QueryCalls == {"Query", "By", "ByRange", "Bounds"}

LastOf(args) == IF args = <<>> THEN NoHighlight ELSE args[Len(args)]

\* What the chain asked for.  A step of a range was made by ByRange, so that
\* Exclusive and Inclusive find the range where they replace it; before a step
\* that criteria can be added to, there were only criteria.
Chained(x, calls) ==
  /\ calls # <<>> /\ x.conn = calls[1].arg
  /\ x.query = Wanted(calls)
  /\ x.order = Args(calls, Calls(calls, {"OrderBy"}))
  /\ x.kind = "range" => calls[Len(calls)] = [call |-> "ByRange", arg |-> x.range]
  /\ x.kind \in {"query", "range"} => \A i \in 1..Len(calls) : calls[i].call \in QueryCalls

\* An option that was set, in the facet that was the last when it was.
Stuck(x, calls, made, i) ==
  LET k == Cardinality(FacetCalls(calls) \cap 1..i)
  IN  /\ k \in 1..Len(x.facets) /\ calls[i].arg[1] \in Options
      /\ made[x.facets[k]].options[calls[i].arg[1]] # Unset

\* The facets and the highlighting that were not forgotten.  A step for options
\* sets them in the last of its facets.
Decorated(x, calls, made) ==
  /\ [i \in 1..Len(x.facets) |-> made[x.facets[i]].on] = Args(calls, FacetCalls(calls))
  /\ IsFiniteSet(FacetCalls(calls)) /\ Cardinality(FacetCalls(calls)) = Len(x.facets)
  /\ x.highlight = LastOf(Args(calls, HighlightCalls(calls)))
  /\ x.kind = "options" => x.facets # <<>> /\ x.facet = x.facets[Len(x.facets)]
  /\ \A i \in OptionCalls(calls) : Stuck(x, calls, made, i)

Kept == \A s \in 1..Len(steps) : Chained(steps[s], asked[s]) /\ Decorated(steps[s], asked[s], facets)

LEMMA FacetCallsNext ==
  ASSUME NEW calls \in Seq(Call), NEW a \in Call
  PROVE  /\ FacetCalls(Append(calls, a))
              = IF a.call = "OrderBy" THEN {}
                ELSE IF a.call \in {"WithFacetField", "WithFacetQuery"}
                     THEN FacetCalls(calls) \cup {Len(calls) + 1} ELSE FacetCalls(calls)
         /\ FacetCalls(calls) \in SUBSET (1..Len(calls))
<1> DEFINE n == Len(calls)
           new == Append(calls, a)
           names == {"WithFacetField", "WithFacetQuery"}
           by == {"OrderBy"}
<1>1. n \in Nat
  BY LenProperties
<1>2. /\ Calls(new, names) = IF a.call \in names THEN Calls(calls, names) \cup {n + 1} ELSE Calls(calls, names)
      /\ Calls(calls, names) \in SUBSET (1..n)
  BY CallsNext
<1>3. /\ After(new, by) = IF a.call \in by THEN {} ELSE After(calls, by) \cup {n + 1}
      /\ After(calls, by) \in SUBSET (1..n)
  BY AfterNext
<1>4. \A cs : FacetCalls(cs) = Calls(cs, names) \cap After(cs, by)
  BY DEF FacetCalls
<1>5. n + 1 \notin 1..n
  BY <1>1
<1> HIDE DEF n, new
<1>6. FacetCalls(new) = IF a.call = "OrderBy" THEN {}
                        ELSE IF a.call \in names THEN FacetCalls(calls) \cup {n + 1} ELSE FacetCalls(calls)
  <2> HIDE DEF names
  <2>1. CASE a.call = "OrderBy"
    BY <1>3, <1>4, <2>1
  <2>2. CASE a.call # "OrderBy"
    <3>1. a.call \notin by
      BY <2>2
    <3> HIDE DEF by
    <3> QED
      BY ONLY <1>2, <1>3, <1>4, <1>5, <2>2, <3>1
  <2> QED
    BY <2>1, <2>2
<1>7. FacetCalls(calls) \in SUBSET (1..n)
  BY <1>2, <1>4
<1> QED
  BY <1>6, <1>7 DEF n, new

LEMMA HighlightCallsNext ==
  ASSUME NEW calls \in Seq(Call), NEW a \in Call
  PROVE  /\ HighlightCalls(Append(calls, a))
              = IF a.call \in {"OrderBy", "WithFacetField"} THEN {}
                ELSE IF a.call = "WithHighlighting"
                     THEN HighlightCalls(calls) \cup {Len(calls) + 1} ELSE HighlightCalls(calls)
         /\ HighlightCalls(calls) \in SUBSET (1..Len(calls))
<1> DEFINE n == Len(calls)
           new == Append(calls, a)
           names == {"WithHighlighting"}
           by == {"OrderBy", "WithFacetField"}
<1>1. n \in Nat
  BY LenProperties
<1>2. /\ Calls(new, names) = IF a.call \in names THEN Calls(calls, names) \cup {n + 1} ELSE Calls(calls, names)
      /\ Calls(calls, names) \in SUBSET (1..n)
  BY CallsNext
<1>3. /\ After(new, by) = IF a.call \in by THEN {} ELSE After(calls, by) \cup {n + 1}
      /\ After(calls, by) \in SUBSET (1..n)
  BY AfterNext
<1>4. \A cs : HighlightCalls(cs) = Calls(cs, names) \cap After(cs, by)
  BY DEF HighlightCalls
<1>5. n + 1 \notin 1..n /\ (a.call \in names <=> a.call = "WithHighlighting")
  BY <1>1
<1> HIDE DEF n, new, names
<1>6. HighlightCalls(new) = IF a.call \in by THEN {}
                            ELSE IF a.call = "WithHighlighting" THEN HighlightCalls(calls) \cup {n + 1}
                                 ELSE HighlightCalls(calls)
  <2> HIDE DEF by
  <2> QED
    BY ONLY <1>2, <1>3, <1>4, <1>5
<1>7. HighlightCalls(calls) \in SUBSET (1..n)
  BY <1>2, <1>4
<1> QED
  BY <1>6, <1>7 DEF n, new

LEMMA OptionCallsNext ==
  ASSUME NEW calls \in Seq(Call), NEW a \in Call
  PROVE  /\ OptionCalls(Append(calls, a))
              = IF a.call = "OrderBy" THEN {}
                ELSE IF a.call = "SetOption"
                     THEN OptionCalls(calls) \cup {Len(calls) + 1} ELSE OptionCalls(calls)
         /\ OptionCalls(calls) \in SUBSET (1..Len(calls))
<1> DEFINE n == Len(calls)
           new == Append(calls, a)
           names == {"SetOption"}
           by == {"OrderBy"}
<1>1. n \in Nat
  BY LenProperties
<1>2. /\ Calls(new, names) = IF a.call \in names THEN Calls(calls, names) \cup {n + 1} ELSE Calls(calls, names)
      /\ Calls(calls, names) \in SUBSET (1..n)
  BY CallsNext
<1>3. /\ After(new, by) = IF a.call \in by THEN {} ELSE After(calls, by) \cup {n + 1}
      /\ After(calls, by) \in SUBSET (1..n)
  BY AfterNext
<1>4. \A cs : OptionCalls(cs) = Calls(cs, names) \cap After(cs, by)
  BY DEF OptionCalls
<1>5. /\ n + 1 \notin 1..n /\ (a.call \in names <=> a.call = "SetOption")
      /\ (a.call \in by <=> a.call = "OrderBy")
  BY <1>1
<1> HIDE DEF n, new, names, by
<1>6. OptionCalls(new) = IF a.call = "OrderBy" THEN {}
                         ELSE IF a.call = "SetOption" THEN OptionCalls(calls) \cup {n + 1}
                              ELSE OptionCalls(calls)
  BY ONLY <1>2, <1>3, <1>4, <1>5
<1>7. OptionCalls(calls) \in SUBSET (1..n)
  BY <1>2, <1>4
<1> QED
  BY <1>6, <1>7 DEF n, new

\* Before a step that criteria can be added to there were only criteria.
LEMMA OnlyQueryCalls ==
  ASSUME NEW calls \in Seq(Call), \A i \in 1..Len(calls) : calls[i].call \in QueryCalls
  PROVE  /\ Calls(calls, {"OrderBy"}) = {} /\ FacetCalls(calls) = {}
         /\ HighlightCalls(calls) = {} /\ OptionCalls(calls) = {}
BY DEF Calls, FacetCalls, HighlightCalls, OptionCalls, QueryCalls

\* A step without facets and highlighting, after calls that leave none.
LEMMA Bare ==
  ASSUME NEW calls \in Seq(Call), NEW x, NEW made,
         x.facets = <<>>, x.highlight = NoHighlight, x.kind # "options",
         FacetCalls(calls) = {}, HighlightCalls(calls) = {}, OptionCalls(calls) = {}
  PROVE  Decorated(x, calls, made)
<1>1. Args(calls, {}) = <<>> /\ Len(x.facets) = 0 /\ 1..0 = {}
  BY ArgsNone
<1>2. [i \in 1..Len(x.facets) |-> made[x.facets[i]].on] = <<>>
  BY <1>1
<1>3. IsFiniteSet({}) /\ Cardinality({}) = 0
  BY FS_EmptySet
<1> QED
  BY <1>1, <1>2, <1>3 DEF Decorated, LastOf

\* What a step holds stays when facet objects are made, or get options.
LEMMA DecoratedStays ==
  ASSUME NEW x, NEW calls, NEW made, NEW then, Decorated(x, calls, made),
         \A i \in 1..Len(x.facets) :
           /\ then[x.facets[i]].on = made[x.facets[i]].on
           /\ \A o \in Options : made[x.facets[i]].options[o] # Unset
                                   => then[x.facets[i]].options[o] # Unset
  PROVE  Decorated(x, calls, then)
<1>1. [i \in 1..Len(x.facets) |-> then[x.facets[i]].on] = [i \in 1..Len(x.facets) |-> made[x.facets[i]].on]
  OBVIOUS
<1>2. \A i \in OptionCalls(calls) : Stuck(x, calls, then, i)
  BY DEF Decorated, Stuck
<1> QED
  BY <1>1, <1>2 DEF Decorated

LEMMA KeptStep ==
  ASSUME IInv, Kept, NEW s \in DOMAIN steps
  PROVE  /\ steps[s] \in Step /\ asked[s] \in Seq(Call) /\ WellMade(steps[s], Len(facets))
         /\ Chained(steps[s], asked[s]) /\ Decorated(steps[s], asked[s], facets)
         /\ Len(facets) \in Nat /\ facets \in Seq(Facet)
<1>1. s \in 1..Len(steps) /\ facets \in Seq(Facet)
  BY LenProperties DEF IInv
<1> QED
  BY <1>1, OldStep DEF Kept

LEMMA KeptMake ==
  ASSUME IInv, Kept, NEW x \in Step, NEW calls \in Seq(Call), Make(x, calls),
         Chained(x, calls), Decorated(x, calls, facets'),
         \A s \in DOMAIN steps : Decorated(steps[s], asked[s], facets')
  PROVE  Kept'
<1>1. /\ steps' = Append(steps, x) /\ asked' = Append(asked, calls)
      /\ steps \in Seq(Step) /\ asked \in Seq(Seq(Call)) /\ Len(asked) = Len(steps)
      /\ Len(steps) \in Nat /\ DOMAIN steps = 1..Len(steps)
  BY LenProperties DEF Make, IInv
<1>2. /\ Len(steps') = Len(steps) + 1
      /\ \A i \in 1..Len(steps) : steps'[i] = steps[i]
      /\ steps'[Len(steps) + 1] = x
  BY <1>1, AppendProperties
<1>3. /\ \A i \in 1..Len(steps) : asked'[i] = asked[i]
      /\ asked'[Len(steps) + 1] = calls
  BY <1>1, AppendProperties
<1>4. ASSUME NEW s \in 1..Len(steps')
      PROVE  Chained(steps'[s], asked'[s]) /\ Decorated(steps'[s], asked'[s], facets')
  <2>1. CASE s = Len(steps) + 1
    BY <1>2, <1>3, <2>1
  <2>2. CASE s \in 1..Len(steps)
    <3>1. Chained(steps[s], asked[s]) /\ Decorated(steps[s], asked[s], facets')
      BY <1>1, <2>2 DEF Kept
    <3> QED
      BY <1>2, <1>3, <2>2, <3>1
  <2> QED
    BY <1>1, <1>2, <2>1, <2>2
<1> QED
  BY <1>4 DEF Kept

\* A step made without touching the facet objects there are.
LEMMA KeptUntouched ==
  ASSUME IInv, Kept, NEW x \in Step, NEW calls \in Seq(Call), Make(x, calls),
         Chained(x, calls), Decorated(x, calls, facets'),
         \A j \in 1..Len(facets) : facets'[j] = facets[j]
  PROVE  Kept'
<1>1. ASSUME NEW s \in DOMAIN steps PROVE Decorated(steps[s], asked[s], facets')
  <2>1. steps[s] \in Step /\ WellMade(steps[s], Len(facets)) /\ Decorated(steps[s], asked[s], facets)
    BY KeptStep
  <2>2. \A i \in 1..Len(steps[s].facets) : steps[s].facets[i] \in 1..Len(facets)
    BY <2>1, LenProperties DEF WellMade, Step
  <2>3. \A i \in 1..Len(steps[s].facets) : facets'[steps[s].facets[i]] = facets[steps[s].facets[i]]
    BY <2>2
  <2> QED
    BY <2>1, <2>3, DecoratedStays
<1> QED
  BY <1>1, KeptMake

LEMMA ChainedNext ==
  ASSUME NEW calls \in Seq(Call), NEW a \in Call, NEW x, Chained(x, calls), NEW y,
         y.conn = x.conn, y.query = Wanted(Append(calls, a)),
         y.order = Args(Append(calls, a), Calls(Append(calls, a), {"OrderBy"})),
         y.kind = "range" => a = [call |-> "ByRange", arg |-> y.range],
         y.kind \in {"query", "range"} => x.kind \in {"query", "range"} /\ a.call \in QueryCalls
  PROVE  Chained(y, Append(calls, a))
<1> DEFINE n == Len(calls)
           new == Append(calls, a)
<1>1. /\ n \in Nat /\ Len(new) = n + 1 /\ \A i \in 1..n : new[i] = calls[i]
      /\ new[n + 1] = a
  BY OneMore
<1>2. n \in 1..n /\ 1 \in 1..n
  BY LenProperties, EmptySeq DEF Chained
<1>3. new # <<>> /\ y.conn = new[1].arg
  BY <1>1, <1>2 DEF Chained
<1>4. y.kind = "range" => new[Len(new)] = [call |-> "ByRange", arg |-> y.range]
  BY <1>1
<1> HIDE DEF n, new
<1>5. ASSUME y.kind \in {"query", "range"}, NEW i \in 1..(n + 1) PROVE new[i].call \in QueryCalls
  <2>1. CASE i = n + 1
    BY <1>1, <1>5, <2>1
  <2>2. CASE i \in 1..n
    <3>1. calls[i].call \in QueryCalls
      BY <1>5, <2>2 DEF Chained, n
    <3> QED
      BY <1>1, <2>2, <3>1
  <2> QED
    BY <1>1, <2>1, <2>2
<1>6. y.kind \in {"query", "range"} => \A i \in 1..Len(new) : new[i].call \in QueryCalls
  BY <1>1, <1>5
<1> QED
  BY <1>3, <1>4, <1>6 DEF Chained, new

\* A criterion more, or other bounds: there is nothing to order or to show yet.
LEMMA KeptCriterion ==
  ASSUME IInv, Kept, NEW s \in DOMAIN steps, IsQuery(s), NEW a \in Call, a.call \in QueryCalls,
         NEW y \in Step, y.conn = steps[s].conn, y.query = Wanted(Append(asked[s], a)),
         y.order = <<>>, y.facets = <<>>, y.highlight = NoHighlight, y.kind \in {"query", "range"},
         y.kind = "range" => a = [call |-> "ByRange", arg |-> y.range],
         Make(y, Append(asked[s], a)), UNCHANGED facets
  PROVE  Kept'
<1> DEFINE calls == asked[s]
           new == Append(calls, a)
<1>1. calls \in Seq(Call) /\ Chained(steps[s], calls)
  BY KeptStep
<1>2. steps[s].kind \in {"query", "range"}
  BY DEF IsQuery
<1>3. new \in Seq(Call) /\ \A i \in 1..Len(new) : new[i].call \in QueryCalls
  <2>1. \A i \in 1..Len(calls) : calls[i].call \in QueryCalls
    BY <1>1, <1>2 DEF Chained
  <2>2. /\ new \in Seq(Call) /\ Len(calls) \in Nat /\ Len(new) = Len(calls) + 1
        /\ \A i \in 1..Len(calls) : new[i] = calls[i]
        /\ new[Len(calls) + 1] = a
    BY <1>1, OneMore, AppendProperties
  <2> HIDE DEF calls, new
  <2> QED
    BY <2>1, <2>2
<1>4. /\ Calls(new, {"OrderBy"}) = {} /\ FacetCalls(new) = {}
      /\ HighlightCalls(new) = {} /\ OptionCalls(new) = {} /\ Args(new, {}) = <<>>
  BY <1>3, OnlyQueryCalls, ArgsNone
<1>5. y.order = Args(new, Calls(new, {"OrderBy"}))
  BY <1>4
<1> HIDE DEF calls
<1>6. Chained(y, new)
  <2>1. y.conn = steps[s].conn /\ y.query = Wanted(new)
    BY DEF calls
  <2> QED
    BY <1>1, <1>2, <1>5, <2>1, ChainedNext
<1> HIDE DEF new
<1>7. Decorated(y, new, facets')
  <2>1. y.kind # "options"
    OBVIOUS
  <2> QED
    BY <1>3, <1>4, <2>1, Bare
<1>8. Make(y, new) /\ \A j \in 1..Len(facets) : facets'[j] = facets[j]
  BY DEF new, calls
<1> QED
  BY <1>3, <1>6, <1>7, <1>8, KeptUntouched

LEMMA KeptQuery ==
  ASSUME IInv, Kept, NEW c \in Contexts, Query(c)
  PROVE  Kept'
<1> DEFINE a == [call |-> "Query", arg |-> connection[c]]
           y == New(connection[c], <<>>)
           new == Append(<<>>, a)
<1>1. connection[c] \in Conns \cup {NoConn}
  BY DEF IInv
<1>2. a \in Call
  BY <1>1 DEF Call
<1>3. y \in Step
  BY <1>1, NewStep, EmptySeq
<1>4. /\ <<>> \in Seq(Call) /\ new \in Seq(Call) /\ new = <<a>> /\ new # <<>> /\ Len(new) = 1
      /\ new[1] = a
  BY <1>2
<1>5. a.call = "Query" /\ a.arg = connection[c]
  OBVIOUS
<1>6. Wanted(<<>>) = <<>>
  <2>1. Wants(<<>>) = <<>>
    BY DEF Wants
  <2>2. Pick(<<>>, Wanting(<<>>)) = <<>>
    BY PickNone
  <2> QED
    BY <2>1, <2>2 DEF Wanted, Wants, Wanting
<1>7. /\ y.conn = connection[c] /\ y.query = <<>> /\ y.order = <<>> /\ y.facets = <<>>
      /\ y.highlight = NoHighlight /\ y.kind = "query"
  BY DEF New
<1>8. Make(y, new) /\ UNCHANGED facets
  BY <1>4 DEF Query
<1> HIDE DEF a, y
<1>9. Wanted(new) = <<>>
  <2>1. a.call \notin {"By", "ByRange", "Bounds"}
    BY <1>5
  <2> QED
    BY <1>2, <1>4, <1>6, <2>1, WantedSame
<1> HIDE DEF new
<1>10. \A i \in 1..Len(new) : new[i].call \in QueryCalls
  BY <1>4, <1>5 DEF QueryCalls
<1>11. /\ Calls(new, {"OrderBy"}) = {} /\ FacetCalls(new) = {}
       /\ HighlightCalls(new) = {} /\ OptionCalls(new) = {} /\ Args(new, {}) = <<>>
  BY <1>4, <1>10, OnlyQueryCalls, ArgsNone
<1>12. Chained(y, new)
  BY <1>4, <1>5, <1>7, <1>9, <1>10, <1>11 DEF Chained
<1>13. Decorated(y, new, facets')
  <2>1. y.kind # "options"
    BY <1>7
  <2> QED
    BY <1>4, <1>7, <1>11, <2>1, Bare
<1> QED
  BY <1>3, <1>4, <1>8, <1>12, <1>13, KeptUntouched

LEMMA KeptBy ==
  ASSUME IInv, Kept, NEW s \in DOMAIN steps, NEW k \in Criteria, By(s, k)
  PROVE  Kept'
<1> DEFINE a == [call |-> "By", arg |-> k]
           y == New(steps[s].conn, Append(steps[s].query, k))
<1>1. /\ steps[s] \in Step /\ asked[s] \in Seq(Call) /\ steps[s].query = Wanted(asked[s])
      /\ k \in Criterion
  BY KeptStep DEF Chained, Criterion
<1>2. a \in Call /\ a.call = "By" /\ a.arg = k /\ a.call \in QueryCalls
  BY DEF Call, QueryCalls
<1>3. y \in Step
  <2>1. Append(steps[s].query, k) \in Seq(Criterion) /\ steps[s].conn \in Conns \cup {NoConn}
    BY <1>1, AppendProperties DEF Step
  <2> QED
    BY <2>1, NewStep
<1>4. /\ y.conn = steps[s].conn /\ y.query = Append(steps[s].query, k) /\ y.order = <<>>
      /\ y.facets = <<>> /\ y.highlight = NoHighlight /\ y.kind = "query"
  BY DEF New
<1>5. Make(y, Append(asked[s], a)) /\ UNCHANGED facets /\ IsQuery(s)
  BY DEF By, Then
<1> HIDE DEF a, y
<1>6. Wanted(Append(asked[s], a)) = Append(Wanted(asked[s]), k)
  <2>1. a.call \in {"By", "ByRange"}
    BY <1>2
  <2> QED
    BY <1>1, <1>2, <2>1, WantedMore
<1>7. y.query = Wanted(Append(asked[s], a)) /\ y.kind \in {"query", "range"} /\ y.kind # "range"
  BY <1>1, <1>4, <1>6
<1> QED
  BY <1>2, <1>3, <1>4, <1>5, <1>7, KeptCriterion

LEMMA KeptByRange ==
  ASSUME IInv, Kept, NEW s \in DOMAIN steps, NEW r \in Ranges, ByRange(s, r)
  PROVE  Kept'
<1> DEFINE a == [call |-> "ByRange", arg |-> r]
           plain == New(steps[s].conn, Append(steps[s].query, Within(r, TRUE)))
           y == [plain EXCEPT !.kind = "range", !.range = r]
<1>1. /\ steps[s] \in Step /\ asked[s] \in Seq(Call) /\ steps[s].query = Wanted(asked[s])
      /\ Within(r, TRUE) \in Criterion
  BY KeptStep DEF Chained, Criterion, Within
<1>2. a \in Call /\ a.call = "ByRange" /\ a.arg = r /\ a.call \in QueryCalls
  BY DEF Call, QueryCalls
<1>3. y \in Step
  <2>1. Append(steps[s].query, Within(r, TRUE)) \in Seq(Criterion) /\ steps[s].conn \in Conns \cup {NoConn}
    BY <1>1, AppendProperties DEF Step
  <2>2. plain \in Step
    BY <2>1, NewStep
  <2> HIDE DEF plain
  <2> QED
    BY <2>2 DEF Step, Kinds
<1>4. /\ y.conn = steps[s].conn /\ y.query = Append(steps[s].query, Within(r, TRUE)) /\ y.order = <<>>
      /\ y.facets = <<>> /\ y.highlight = NoHighlight /\ y.kind = "range" /\ y.range = r
  BY DEF New
<1>5. Make(y, Append(asked[s], a)) /\ UNCHANGED facets /\ IsQuery(s)
  BY DEF ByRange, Then
<1>6. a = [call |-> "ByRange", arg |-> y.range]
  BY <1>4
<1> HIDE DEF a, y
<1>7. Wanted(Append(asked[s], a)) = Append(Wanted(asked[s]), Within(r, TRUE))
  <2>1. a.call \in {"By", "ByRange"} /\ a.call # "By"
    BY <1>2
  <2> QED
    BY <1>1, <1>2, <2>1, WantedMore
<1>8. y.query = Wanted(Append(asked[s], a)) /\ y.kind \in {"query", "range"}
  BY <1>1, <1>4, <1>7
<1> QED
  BY <1>2, <1>3, <1>4, <1>5, <1>6, <1>8, KeptCriterion

LEMMA WithoutLast ==
  ASSUME NEW S, NEW seq \in Seq(S), NEW e \in S, NEW longer, longer = Append(seq, e)
  PROVE  SubSeq(longer, 1, Len(longer) - 1) = seq
<1>1. /\ longer \in Seq(S) /\ Len(seq) \in Nat /\ Len(longer) = Len(seq) + 1
      /\ \A i \in 1..Len(seq) : longer[i] = seq[i]
  BY AppendProperties, LenProperties
<1>2. \A i \in 1..Len(seq) : longer[i] \in S
  BY <1>1, ElementOfSeq
<1>3. /\ SubSeq(longer, 1, Len(seq)) \in Seq(S)
      /\ Len(SubSeq(longer, 1, Len(seq))) = IF 1 <= Len(seq) THEN Len(seq) - 1 + 1 ELSE 0
      /\ \A i \in 1..(Len(seq) - 1 + 1) : SubSeq(longer, 1, Len(seq))[i] = longer[1 + i - 1]
  <2>1. 1 \in Int /\ Len(seq) \in Int
    BY <1>1
  <2> QED
    BY ONLY <1>2, <2>1, SubSeqProperties
<1> DEFINE front == SubSeq(longer, 1, Len(seq))
<1>4. Len(front) = Len(seq) /\ \A i \in 1..Len(seq) : front[i] = seq[i]
  <2>1. Len(seq) - 1 + 1 = Len(seq) /\ \A i \in 1..Len(seq) : 1 + i - 1 = i
    BY <1>1
  <2> QED
    BY <1>1, <1>3, <2>1
<1> HIDE DEF front
<1>5. front = seq
  <2>1. front \in Seq(S) /\ seq \in Seq(S) /\ Len(front) = Len(seq) /\ \A i \in 1..Len(front) : front[i] = seq[i]
    BY <1>3, <1>4 DEF front
  <2> QED
    BY ONLY <2>1, SeqEqual
<1>6. Len(longer) - 1 = Len(seq)
  BY <1>1
<1> QED
  BY <1>5, <1>6 DEF front

LEMMA KeptBounds ==
  ASSUME IInv, Kept, NEW s \in DOMAIN steps, NEW b \in BOOLEAN, Bounds(s, b)
  PROVE  Kept'
<1> DEFINE a == [call |-> "Bounds", arg |-> b]
           y == New(steps[s].conn, Append(Before(s), Within(steps[s].range, b)))
           n == Len(asked[s])
<1>1. /\ steps[s] \in Step /\ asked[s] \in Seq(Call) /\ WellMade(steps[s], Len(facets))
      /\ steps[s].query = Wanted(asked[s]) /\ asked[s] # <<>>
      /\ steps[s].kind = "range" => asked[s][n] = [call |-> "ByRange", arg |-> steps[s].range]
  BY KeptStep DEF Chained
<1>2. a \in Call /\ a.call = "Bounds" /\ a.arg = b /\ a.call \in QueryCalls
  BY DEF Call, QueryCalls
<1>3. steps[s].kind = "range" /\ Make(y, Append(asked[s], a)) /\ UNCHANGED facets /\ IsQuery(s)
  BY DEF Bounds, Then, IsQuery
<1>4. asked[s][n].call = "ByRange" /\ asked[s][n].arg = steps[s].range
  BY <1>1, <1>3
<1> DEFINE open == Within(steps[s].range, TRUE)
           bound == Within(steps[s].range, b)
<1>5. open \in Criterion /\ bound \in Criterion
  BY <1>1, <1>3 DEF Step, WellMade, Criterion, Within
<1> HIDE DEF a, y
<1>6. PICK before : /\ Wanted(asked[s]) = Append(before, open)
                    /\ Wanted(Append(asked[s], a)) = Append(before, bound)
                    /\ \A S : Wanted(asked[s]) \in Seq(S) => before \in Seq(S)
  <2>1. asked[s] \in Seq(Call) /\ a \in Call /\ asked[s] # <<>> /\ asked[s][Len(asked[s])].call = "ByRange"
        /\ a.call = "Bounds" /\ a.arg \in BOOLEAN
    BY <1>1, <1>2, <1>4
  <2>2. \E before :
           /\ Wanted(asked[s]) = Append(before, Within(asked[s][Len(asked[s])].arg, TRUE))
           /\ Wanted(Append(asked[s], a)) = Append(before, Within(asked[s][Len(asked[s])].arg, a.arg))
           /\ \A S : Wanted(asked[s]) \in Seq(S) => before \in Seq(S)
    BY ONLY <2>1, WantedBounds
  <2> QED
    BY <1>2, <1>4, <2>2
<1>7. before \in Seq(Criterion)
  BY <1>1, <1>6 DEF Step
<1>8. Before(s) = before
  <2>1. steps[s].query = Append(before, open)
    BY <1>1, <1>6
  <2> HIDE DEF open
  <2> QED
    BY <1>5, <1>7, <2>1, WithoutLast DEF Before
<1>9. y \in Step
  <2>1. Append(Before(s), bound) \in Seq(Criterion) /\ steps[s].conn \in Conns \cup {NoConn}
    BY <1>1, <1>5, <1>7, <1>8, AppendProperties DEF Step
  <2> QED
    BY <2>1, NewStep DEF y
<1>10. /\ y.conn = steps[s].conn /\ y.query = Append(before, bound) /\ y.order = <<>>
       /\ y.facets = <<>> /\ y.highlight = NoHighlight /\ y.kind = "query"
  BY <1>8 DEF New, y
<1>11. y.query = Wanted(Append(asked[s], a)) /\ y.kind \in {"query", "range"} /\ y.kind # "range"
  BY <1>6, <1>10
<1> QED
  BY <1>2, <1>3, <1>9, <1>10, <1>11, KeptCriterion

LEMMA OrderSame ==
  ASSUME NEW calls \in Seq(Call), NEW a \in Call, a.call # "OrderBy"
  PROVE  Args(Append(calls, a), Calls(Append(calls, a), {"OrderBy"}))
           = Args(calls, Calls(calls, {"OrderBy"}))
<1>1. a.call \notin {"OrderBy"}
  OBVIOUS
<1>2. /\ Calls(Append(calls, a), {"OrderBy"}) = Calls(calls, {"OrderBy"})
      /\ Calls(calls, {"OrderBy"}) \in SUBSET (1..Len(calls))
  BY <1>1, CallsNext
<1> DEFINE places == Calls(calls, {"OrderBy"})
<1> HIDE DEF places
<1>3. places \in SUBSET (1..Len(calls)) => Args(Append(calls, a), places) = Args(calls, places)
  BY ArgsNext
<1> QED
  BY ONLY <1>2, <1>3 DEF places

LEMMA KeptOrderBy ==
  ASSUME IInv, Kept, NEW s \in DOMAIN steps, NEW o \in SortOrders, OrderBy(s, o)
  PROVE  Kept'
<1> DEFINE a == [call |-> "OrderBy", arg |-> o]
           plain == New(steps[s].conn, steps[s].query)
           y == [plain EXCEPT !.kind = "run", !.order = Append(steps[s].order, o)]
           new == Append(asked[s], a)
<1>1. /\ steps[s] \in Step /\ asked[s] \in Seq(Call) /\ Chained(steps[s], asked[s])
  BY KeptStep
<1>2. a \in Call /\ a.call = "OrderBy" /\ a.arg = o
  BY DEF Call
<1>3. y \in Step
  <2>1. /\ steps[s].query \in Seq(Criterion) /\ steps[s].conn \in Conns \cup {NoConn}
        /\ Append(steps[s].order, o) \in Seq(SortOrders)
    BY <1>1, AppendProperties DEF Step
  <2>2. plain \in Step
    BY <2>1, NewStep
  <2> HIDE DEF plain
  <2> QED
    BY <2>1, <2>2 DEF Step, Kinds
<1>4. /\ y.conn = steps[s].conn /\ y.query = steps[s].query /\ y.order = Append(steps[s].order, o)
      /\ y.facets = <<>> /\ y.highlight = NoHighlight /\ y.kind = "run"
  BY DEF New
<1>5. Make(y, new) /\ UNCHANGED facets
  BY DEF OrderBy, Then
<1> HIDE DEF a, y
<1>6. new \in Seq(Call)
  BY <1>1, <1>2, AppendProperties
<1>7. Wanted(new) = Wanted(asked[s])
  <2>1. a.call \notin {"By", "ByRange", "Bounds"}
    BY <1>2
  <2> QED
    BY <1>1, <1>2, <2>1, WantedSame
<1>8. Args(new, Calls(new, {"OrderBy"})) = Append(Args(asked[s], Calls(asked[s], {"OrderBy"})), o)
  <2> DEFINE places == Calls(asked[s], {"OrderBy"})
  <2>1. a.call \in {"OrderBy"}
    BY <1>2
  <2>2. Calls(new, {"OrderBy"}) = places \cup {Len(asked[s]) + 1} /\ places \in SUBSET (1..Len(asked[s]))
    BY <1>1, <1>2, <2>1, CallsNext
  <2> HIDE DEF places
  <2>3. Args(new, places \cup {Len(asked[s]) + 1}) = Append(Args(asked[s], places), a.arg)
    BY <1>1, <1>2, <2>2, ArgsNext
  <2> QED
    BY <1>2, <2>2, <2>3 DEF places
<1>9. Chained(y, new)
  <2>1. y.query = Wanted(new) /\ y.order = Args(new, Calls(new, {"OrderBy"}))
    BY <1>1, <1>4, <1>7, <1>8 DEF Chained
  <2> QED
    BY <1>1, <1>2, <1>4, <2>1, ChainedNext
<1>10. FacetCalls(new) = {} /\ HighlightCalls(new) = {} /\ OptionCalls(new) = {}
  BY <1>1, <1>2, FacetCallsNext, HighlightCallsNext, OptionCallsNext
<1>11. Decorated(y, new, facets')
  <2>1. y.kind # "options"
    BY <1>4
  <2> HIDE DEF new
  <2> QED
    BY <1>4, <1>6, <1>10, <2>1, Bare
<1> QED
  BY <1>3, <1>5, <1>6, <1>9, <1>11, KeptUntouched

\* What stays of facets, highlighting and options when something else is asked.
LEMMA FacetsSame ==
  ASSUME NEW calls \in Seq(Call), NEW a \in Call, a.call = "SetOption" \/ a.call = "WithHighlighting"
  PROVE  /\ FacetCalls(Append(calls, a)) = FacetCalls(calls)
         /\ Args(Append(calls, a), FacetCalls(calls)) = Args(calls, FacetCalls(calls))
<1>1. a.call # "OrderBy" /\ a.call \notin {"WithFacetField", "WithFacetQuery"}
  OBVIOUS
<1>2. FacetCalls(Append(calls, a)) = FacetCalls(calls) /\ FacetCalls(calls) \in SUBSET (1..Len(calls))
  BY <1>1, FacetCallsNext
<1> DEFINE places == FacetCalls(calls)
<1> HIDE DEF places
<1>3. places \in SUBSET (1..Len(calls)) => Args(Append(calls, a), places) = Args(calls, places)
  BY ArgsNext
<1> QED
  BY ONLY <1>2, <1>3 DEF places

LEMMA HighlightSame ==
  ASSUME NEW calls \in Seq(Call), NEW a \in Call, a.call = "SetOption" \/ a.call = "WithFacetQuery"
  PROVE  Args(Append(calls, a), HighlightCalls(Append(calls, a))) = Args(calls, HighlightCalls(calls))
<1>1. a.call # "WithHighlighting" /\ a.call \notin {"OrderBy", "WithFacetField"}
  OBVIOUS
<1>2. /\ HighlightCalls(Append(calls, a)) = HighlightCalls(calls)
      /\ HighlightCalls(calls) \in SUBSET (1..Len(calls))
  BY <1>1, HighlightCallsNext
<1> DEFINE places == HighlightCalls(calls)
<1> HIDE DEF places
<1>3. places \in SUBSET (1..Len(calls)) => Args(Append(calls, a), places) = Args(calls, places)
  BY ArgsNext
<1> QED
  BY ONLY <1>2, <1>3 DEF places

\* An option set before counts the same facets up to it.
LEMMA StuckStays ==
  ASSUME NEW calls \in Seq(Call), NEW a \in Call, a.call # "OrderBy", NEW x, NEW y, NEW made, NEW then,
         NEW i \in OptionCalls(calls), Stuck(x, calls, made, i), Len(x.facets) \in Nat,
         Len(y.facets) \in Nat, Len(x.facets) <= Len(y.facets),
         \A k \in 1..Len(x.facets) :
           \A o \in Options : made[x.facets[k]].options[o] # Unset
                                => then[y.facets[k]].options[o] # Unset
  PROVE  Stuck(y, Append(calls, a), then, i)
<1> DEFINE new == Append(calls, a)
           n == Len(calls)
<1>1. /\ n \in Nat /\ Len(new) = n + 1 /\ \A j \in 1..n : new[j] = calls[j]
  BY OneMore
<1>2. i \in 1..n
  BY OptionCallsNext
<1>3. FacetCalls(new) \cap 1..i = FacetCalls(calls) \cap 1..i
  <2>1. FacetCalls(new) = FacetCalls(calls) \/ FacetCalls(new) = FacetCalls(calls) \cup {n + 1}
    BY FacetCallsNext
  <2>2. n + 1 \notin 1..i
    BY <1>1, <1>2
  <2> QED
    BY <2>1, <2>2
<1>4. new[i] = calls[i]
  BY <1>1, <1>2
<1> HIDE DEF new, n
<1> DEFINE k == Cardinality(FacetCalls(calls) \cap 1..i)
<1>5. /\ k \in 1..Len(x.facets) /\ calls[i].arg[1] \in Options
      /\ made[x.facets[k]].options[calls[i].arg[1]] # Unset
  BY DEF Stuck
<1>6. k = Cardinality(FacetCalls(new) \cap 1..i)
  BY <1>3
<1> HIDE DEF k
<1>7. /\ k \in 1..Len(y.facets) /\ new[i].arg[1] \in Options
      /\ then[y.facets[k]].options[new[i].arg[1]] # Unset
  <2>1. k \in 1..Len(y.facets)
    BY <1>5
  <2>2. then[y.facets[k]].options[calls[i].arg[1]] # Unset
    BY <1>5
  <2> QED
    BY ONLY <1>4, <1>5, <2>1, <2>2
<1>8. Stuck(y, new, then, i)
  BY <1>6, <1>7 DEF Stuck
<1> QED
  BY <1>8 DEF new

LEMMA KeptHighlight ==
  ASSUME IInv, Kept, NEW s \in DOMAIN steps, NEW h \in Highlights, WithHighlighting(s, h)
  PROVE  Kept'
<1> DEFINE a == [call |-> "WithHighlighting", arg |-> h]
           x == steps[s]
           y == [x EXCEPT !.kind = "run", !.range = NoRange, !.facet = NoFacet, !.highlight = h]
           calls == asked[s]
           new == Append(calls, a)
<1>1. x \in Step /\ calls \in Seq(Call) /\ Chained(x, calls) /\ Decorated(x, calls, facets)
  BY KeptStep
<1>2. a \in Call /\ a.call = "WithHighlighting" /\ a.arg = h
  BY DEF Call
<1>3. Make(y, new) /\ facets' = facets
  BY DEF WithHighlighting, Then
<1> HIDE DEF a, x, calls
<1>4. /\ y \in Step /\ y.conn = x.conn /\ y.query = x.query /\ y.order = x.order
      /\ y.facets = x.facets /\ y.highlight = h /\ y.kind = "run"
  BY <1>1 DEF Step, Kinds
<1> HIDE DEF y
<1>5. new \in Seq(Call)
  BY <1>1, <1>2, AppendProperties
<1>6. Wanted(new) = Wanted(calls)
  <2>1. a.call \notin {"By", "ByRange", "Bounds"}
    BY <1>2
  <2> QED
    BY <1>1, <1>2, <2>1, WantedSame
<1>7. Args(new, Calls(new, {"OrderBy"})) = Args(calls, Calls(calls, {"OrderBy"}))
  <2>1. a.call # "OrderBy"
    BY <1>2
  <2> QED
    BY <1>1, <1>2, <2>1, OrderSame
<1>8. Chained(y, new)
  <2>1. y.query = Wanted(new) /\ y.order = Args(new, Calls(new, {"OrderBy"}))
    BY <1>1, <1>4, <1>6, <1>7 DEF Chained
  <2> QED
    BY <1>1, <1>2, <1>4, <2>1, ChainedNext
<1>9. FacetCalls(new) = FacetCalls(calls) /\ Args(new, FacetCalls(calls)) = Args(calls, FacetCalls(calls))
  BY <1>1, <1>2, FacetsSame
<1>10. LastOf(Args(new, HighlightCalls(new))) = h
  <2> DEFINE places == HighlightCalls(calls)
             args == Args(calls, places)
  <2>1. HighlightCalls(new) = places \cup {Len(calls) + 1} /\ places \in SUBSET (1..Len(calls))
    <3>1. a.call \notin {"OrderBy", "WithFacetField"}
      BY <1>2
    <3> QED
      BY <1>1, <1>2, <3>1, HighlightCallsNext
  <2>2. Args(new, HighlightCalls(new)) = Append(args, h)
    <3> HIDE DEF places
    <3>1. Args(new, places \cup {Len(calls) + 1}) = Append(Args(calls, places), a.arg)
      BY <1>1, <1>2, <2>1, ArgsNext
    <3> QED
      BY <1>2, <2>1, <3>1
  <2>3. \E S : args \in Seq(S) /\ h \in S
    <3> DEFINE all == [i \in 1..Len(calls) |-> calls[i].arg]
               S == {all[i] : i \in 1..Len(calls)} \cup {h}
    <3>1. Len(calls) \in Nat /\ Len(all) = Len(calls)
      BY <1>1, LenProperties, LengthOf
    <3>2. \A i \in 1..Len(all) : all[i] \in S
      BY <3>1
    <3>3. h \in S
      OBVIOUS
    <3>4. args = Pick(all, places)
      BY DEF Args
    <3> HIDE DEF all, S, places, args
    <3>5. args \in Seq(S)
      BY <3>1, <3>2, <3>4, PickType
    <3> QED
      BY <3>3, <3>5
  <2> HIDE DEF args
  <2>4. /\ Append(args, h) # <<>> /\ Len(Append(args, h)) = Len(args) + 1
        /\ Append(args, h)[Len(args) + 1] = h
    BY <2>3, AppendProperties
  <2> QED
    BY <2>2, <2>4 DEF LastOf
<1>11. \A i \in OptionCalls(new) : Stuck(y, new, facets', i)
  <2>1. a.call # "OrderBy" /\ a.call # "SetOption"
    BY <1>2
  <2>2. OptionCalls(new) = OptionCalls(calls)
    BY <1>1, <1>2, <2>1, OptionCallsNext
  <2>3. Len(x.facets) \in Nat
    BY <1>1, LenProperties DEF Step
  <2> TAKE i \in OptionCalls(new)
  <2>4. i \in OptionCalls(calls) /\ Stuck(x, calls, facets, i)
    BY <1>1, <2>2 DEF Decorated
  <2> QED
    BY <1>1, <1>2, <1>3, <1>4, <2>1, <2>3, <2>4, StuckStays
<1>12. Decorated(y, new, facets')
  <2>1. y.kind # "options"
    BY <1>4
  <2> QED
    BY <1>1, <1>3, <1>4, <1>9, <1>10, <1>11, <2>1 DEF Decorated
<1> QED
  BY <1>3, <1>4, <1>5, <1>8, <1>12, KeptUntouched

\* A facet object of its own, behind those the chain held.
LEMMA FacetAdded ==
  ASSUME IInv, Kept, NEW s \in DOMAIN steps, NEW f \in FacetFields \cup FacetQueries,
         facets' = Append(facets, [on |-> f, options |-> [o \in Options |-> Unset]]),
         NEW a \in Call, a.call \in {"WithFacetField", "WithFacetQuery"}, a.arg = f,
         NEW y, y.facets = Append(steps[s].facets, Len(facets'))
  PROVE  LET new == Append(asked[s], a)
         IN  /\ [i \in 1..Len(y.facets) |-> facets'[y.facets[i]].on] = Args(new, FacetCalls(new))
             /\ IsFiniteSet(FacetCalls(new)) /\ Cardinality(FacetCalls(new)) = Len(y.facets)
             /\ y.facets # <<>> /\ y.facets[Len(y.facets)] = Len(facets')
             /\ \A i \in OptionCalls(new) : Stuck(y, new, facets', i)
             /\ \A j \in 1..Len(facets) : facets'[j] = facets[j]
<1> DEFINE x == steps[s]
           calls == asked[s]
           new == Append(calls, a)
           L == Len(x.facets)
           m == Len(facets')
           n == Len(calls)
           held == FacetCalls(calls)
           S == FacetFields \cup FacetQueries
<1>1. /\ x \in Step /\ calls \in Seq(Call) /\ WellMade(x, Len(facets)) /\ Decorated(x, calls, facets)
      /\ facets \in Seq(Facet)
  BY KeptStep
<1>2. /\ facets' \in Seq(Facet) /\ m = Len(facets) + 1 /\ Len(facets) \in Nat
      /\ \A j \in 1..Len(facets) : facets'[j] = facets[j]
  BY FacetMade
<1>3. facets'[m].on = f
  <2>1. facets'[Len(facets) + 1] = [on |-> f, options |-> [o \in Options |-> Unset]]
    <3>1. [on |-> f, options |-> [o \in Options |-> Unset]] \in Facet
      BY DEF Facet
    <3> QED
      BY <1>1, <3>1, AppendProperties
  <2> QED
    BY <1>2, <2>1
<1>4. x.facets \in Seq(Nat) /\ L \in Nat /\ DOMAIN x.facets = 1..L /\ n \in Nat
  BY <1>1, LenProperties DEF Step
<1>5. \A i \in 1..L : x.facets[i] \in 1..Len(facets)
  BY <1>1, <1>4 DEF WellMade
<1>6. m \in Nat
  BY <1>2
<1> HIDE DEF x, calls, m
<1>7. /\ y.facets \in Seq(Nat) /\ Len(y.facets) = L + 1 /\ y.facets # <<>>
      /\ \A i \in 1..L : y.facets[i] = x.facets[i]
      /\ y.facets[L + 1] = m
  <2>1. y.facets = Append(x.facets, m)
    BY DEF x, m
  <2>2. /\ Append(x.facets, m) \in Seq(Nat) /\ Append(x.facets, m) # <<>>
        /\ Len(Append(x.facets, m)) = L + 1
        /\ \A i \in 1..L : Append(x.facets, m)[i] = x.facets[i]
        /\ Append(x.facets, m)[L + 1] = m
    BY ONLY <1>4, <1>6, AppendProperties
  <2> QED
    BY ONLY <2>1, <2>2
<1> HIDE DEF L, n
<1>8. /\ FacetCalls(new) = held \cup {n + 1} /\ held \in SUBSET (1..n)
      /\ Args(new, held \cup {n + 1}) = Append(Args(calls, held), f)
  <2>1. a.call # "OrderBy"
    OBVIOUS
  <2>2. FacetCalls(new) = held \cup {n + 1} /\ held \in SUBSET (1..n)
    BY <1>1, <2>1, FacetCallsNext DEF n
  <2> HIDE DEF held
  <2>3. Args(new, held \cup {n + 1}) = Append(Args(calls, held), a.arg)
    BY <1>1, <2>2, ArgsNext DEF n
  <2> QED
    BY <2>2, <2>3
<1> DEFINE old == [i \in 1..L |-> facets[x.facets[i]].on]
           now == [i \in 1..(L + 1) |-> facets'[y.facets[i]].on]
<1>9. now = Append(old, f)
  <2>1. old \in Seq(S)
    <3>1. \A i \in 1..L : facets[x.facets[i]].on \in S
      <4> TAKE i \in 1..L
      <4>1. facets[x.facets[i]] \in Facet
        BY <1>1, <1>5, ElementOfSeq
      <4> QED
        BY <4>1 DEF Facet
    <3>2. old \in [1..L -> S]
      BY <3>1
    <3> QED
      BY <1>4, <3>2, SeqDef
  <2>2. Len(old) = L
    BY <1>4, LengthOf
  <2>3. \A i \in 1..L : now[i] = old[i]
    <3> TAKE i \in 1..L
    <3>1. i \in 1..(L + 1) /\ y.facets[i] = x.facets[i] /\ x.facets[i] \in 1..Len(facets)
      BY <1>4, <1>5, <1>7
    <3> QED
      BY <1>2, <3>1
  <2>4. now[L + 1] = f
    <3>1. L + 1 \in 1..(L + 1)
      BY <1>4
    <3> QED
      BY <1>3, <1>7, <3>1
  <2>5. now \in Seq(S) /\ Len(now) = L + 1
    <3>1. L + 1 \in Nat
      BY <1>4
    <3>4. Len(now) = L + 1
      BY <3>1, LengthOf
    <3>2. \A i \in 1..(L + 1) : now[i] \in S
      <4> TAKE i \in 1..(L + 1)
      <4>1. CASE i = L + 1
        BY <2>4, <4>1
      <4>2. CASE i \in 1..L
        <5>1. old[i] \in S
          BY <2>1, <2>2, <4>2, ElementOfSeq
        <5> HIDE DEF now, old
        <5> QED
          BY <2>3, <4>2, <5>1
      <4>3. i = L + 1 \/ i \in 1..L
        BY ONLY <1>4, i \in 1..(L + 1)
      <4> HIDE DEF now
      <4> QED
        BY ONLY <4>1, <4>2, <4>3
    <3>3. now \in [1..(L + 1) -> S]
      BY <3>2
    <3> HIDE DEF now
    <3>5. now \in Seq(S)
      BY ONLY <3>1, <3>3, SeqDef
    <3> QED
      BY ONLY <3>4, <3>5
  <2> HIDE DEF now, old, S
  <2>6. /\ Append(old, f) \in Seq(S) /\ Len(Append(old, f)) = L + 1
        /\ \A i \in 1..L : Append(old, f)[i] = old[i]
        /\ Append(old, f)[L + 1] = f
    <3>1. f \in S
      BY DEF S
    <3> QED
      BY <2>1, <2>2, <3>1, AppendProperties
  <2>7. \A i \in 1..Len(now) : now[i] = Append(old, f)[i]
    <3> TAKE i \in 1..Len(now)
    <3>1. i \in 1..L \/ i = L + 1
      BY <1>4, <2>5
    <3> QED
      BY <2>3, <2>4, <2>6, <3>1
  <2>8. Len(now) = Len(Append(old, f))
    BY <2>5, <2>6
  <2> QED
    BY ONLY <2>5, <2>6, <2>7, <2>8, SeqEqual
<1>10. [i \in 1..Len(y.facets) |-> facets'[y.facets[i]].on] = Args(new, FacetCalls(new))
  <2>1. old = Args(calls, held)
    BY <1>1 DEF Decorated, L
  <2> HIDE DEF old, held
  <2> QED
    BY <1>7, <1>8, <1>9, <2>1
<1>11. IsFiniteSet(FacetCalls(new)) /\ Cardinality(FacetCalls(new)) = L + 1
  <2>1. IsFiniteSet(held) /\ Cardinality(held) = L
    BY <1>1 DEF Decorated, L
  <2>2. n + 1 \notin held
    BY <1>4, <1>8
  <2> HIDE DEF held
  <2>3. IsFiniteSet(held \cup {n + 1}) /\ Cardinality(held \cup {n + 1}) = L + 1
    BY <2>1, <2>2, FS_AddElement
  <2> QED
    BY <1>8, <2>3
<1>12. \A i \in OptionCalls(new) : Stuck(y, new, facets', i)
  <2>1. a.call # "OrderBy" /\ a.call # "SetOption"
    OBVIOUS
  <2>2. OptionCalls(new) = OptionCalls(calls)
    BY <1>1, <2>1, OptionCallsNext
  <2> TAKE i \in OptionCalls(new)
  <2>3. i \in OptionCalls(calls) /\ Stuck(x, calls, facets, i)
    BY <1>1, <2>2 DEF Decorated
  <2>4. Len(x.facets) \in Nat /\ Len(y.facets) \in Nat /\ Len(x.facets) <= Len(y.facets)
    BY <1>4, <1>7 DEF L
  <2>5. \A k \in 1..Len(x.facets) : \A o \in Options :
          facets[x.facets[k]].options[o] # Unset => facets'[y.facets[k]].options[o] # Unset
    <3> TAKE k \in 1..Len(x.facets)
    <3>1. k \in 1..L
      BY DEF L
    <3>2. facets'[y.facets[k]] = facets[x.facets[k]]
      BY <1>2, <1>5, <1>7, <3>1
    <3> QED
      BY <3>2
  <2> QED
    BY <1>1, <2>1, <2>3, <2>4, <2>5, StuckStays
<1> QED
  BY <1>2, <1>7, <1>10, <1>11, <1>12 DEF calls, m

LEMMA KeptFacetField ==
  ASSUME IInv, Kept, NEW s \in DOMAIN steps, NEW f \in FacetFields, WithFacetField(s, f)
  PROVE  Kept'
<1> DEFINE a == [call |-> "WithFacetField", arg |-> f]
           x == steps[s]
           calls == asked[s]
           m == Len(facets')
           y == [x EXCEPT !.kind = "options", !.range = NoRange, !.highlight = NoHighlight,
                          !.facet = m, !.facets = Append(@, m)]
           new == Append(calls, a)
<1>1. /\ x \in Step /\ calls \in Seq(Call) /\ Chained(x, calls) /\ f \in FacetFields \cup FacetQueries
      /\ facets' = Append(facets, [on |-> f, options |-> [o \in Options |-> Unset]])
  BY KeptStep DEF WithFacetField
<1>2. a \in Call /\ a.call = "WithFacetField" /\ a.arg = f /\ a.call \in {"WithFacetField", "WithFacetQuery"}
  BY DEF Call
<1>3. Make(y, new)
  BY DEF WithFacetField, Then
<1>4. Append(x.facets, m) \in Seq(Nat) /\ m \in Nat
  BY <1>1, FacetMade
<1> HIDE DEF a, x, calls, m
<1>5. /\ y \in Step /\ y.conn = x.conn /\ y.query = x.query /\ y.order = x.order
      /\ y.facets = Append(x.facets, m) /\ y.facet = m
      /\ y.highlight = NoHighlight /\ y.kind = "options"
  BY <1>1, <1>4 DEF Step, Kinds
<1> HIDE DEF y
<1>6. new \in Seq(Call)
  BY <1>1, <1>2, AppendProperties
<1>7. Wanted(new) = Wanted(calls)
  <2>1. a.call \notin {"By", "ByRange", "Bounds"}
    BY <1>2
  <2> QED
    BY <1>1, <1>2, <2>1, WantedSame
<1>8. Args(new, Calls(new, {"OrderBy"})) = Args(calls, Calls(calls, {"OrderBy"}))
  <2>1. a.call # "OrderBy"
    BY <1>2
  <2> QED
    BY <1>1, <1>2, <2>1, OrderSame
<1>9. Chained(y, new)
  <2>1. y.query = Wanted(new) /\ y.order = Args(new, Calls(new, {"OrderBy"}))
    BY <1>1, <1>5, <1>7, <1>8 DEF Chained
  <2> QED
    BY <1>1, <1>2, <1>5, <2>1, ChainedNext
<1>10. LastOf(Args(new, HighlightCalls(new))) = NoHighlight
  <2>1. a.call \in {"OrderBy", "WithFacetField"}
    BY <1>2
  <2>2. HighlightCalls(new) = {}
    BY <1>1, <1>2, <2>1, HighlightCallsNext
  <2> HIDE DEF new
  <2> QED
    BY <1>6, <2>2, ArgsNone DEF LastOf
<1>11. /\ [i \in 1..Len(y.facets) |-> facets'[y.facets[i]].on] = Args(new, FacetCalls(new))
       /\ IsFiniteSet(FacetCalls(new)) /\ Cardinality(FacetCalls(new)) = Len(y.facets)
       /\ y.facets # <<>> /\ y.facets[Len(y.facets)] = m
       /\ \A i \in OptionCalls(new) : Stuck(y, new, facets', i)
       /\ \A j \in 1..Len(facets) : facets'[j] = facets[j]
  <2>1. y.facets = Append(steps[s].facets, Len(facets'))
    BY <1>5 DEF x, m
  <2> QED
    BY <1>1, <1>2, <2>1, FacetAdded DEF calls, m
<1>12. Decorated(y, new, facets')
  BY <1>5, <1>10, <1>11 DEF Decorated
<1> QED
  BY <1>3, <1>5, <1>6, <1>9, <1>11, <1>12, KeptUntouched

LEMMA KeptFacetQuery ==
  ASSUME IInv, Kept, NEW s \in DOMAIN steps, NEW q \in FacetQueries, WithFacetQuery(s, q)
  PROVE  Kept'
<1> DEFINE a == [call |-> "WithFacetQuery", arg |-> q]
           x == steps[s]
           calls == asked[s]
           m == Len(facets')
           y == [x EXCEPT !.kind = "run", !.range = NoRange, !.facet = NoFacet,
                          !.facets = Append(@, m)]
           new == Append(calls, a)
<1>1. /\ x \in Step /\ calls \in Seq(Call) /\ Chained(x, calls) /\ Decorated(x, calls, facets)
      /\ q \in FacetFields \cup FacetQueries
      /\ facets' = Append(facets, [on |-> q, options |-> [o \in Options |-> Unset]])
  BY KeptStep DEF WithFacetQuery
<1>2. a \in Call /\ a.call = "WithFacetQuery" /\ a.arg = q /\ a.call \in {"WithFacetField", "WithFacetQuery"}
  BY DEF Call
<1>3. Make(y, new)
  BY DEF WithFacetQuery, Then
<1>4. Append(x.facets, m) \in Seq(Nat) /\ m \in Nat
  BY <1>1, FacetMade
<1> HIDE DEF a, x, calls, m
<1>5. /\ y \in Step /\ y.conn = x.conn /\ y.query = x.query /\ y.order = x.order
      /\ y.facets = Append(x.facets, m) /\ y.highlight = x.highlight /\ y.kind = "run"
  BY <1>1, <1>4 DEF Step, Kinds
<1> HIDE DEF y
<1>6. new \in Seq(Call)
  BY <1>1, <1>2, AppendProperties
<1>7. Wanted(new) = Wanted(calls)
  <2>1. a.call \notin {"By", "ByRange", "Bounds"}
    BY <1>2
  <2> QED
    BY <1>1, <1>2, <2>1, WantedSame
<1>8. Args(new, Calls(new, {"OrderBy"})) = Args(calls, Calls(calls, {"OrderBy"}))
  <2>1. a.call # "OrderBy"
    BY <1>2
  <2> QED
    BY <1>1, <1>2, <2>1, OrderSame
<1>9. Chained(y, new)
  <2>1. y.query = Wanted(new) /\ y.order = Args(new, Calls(new, {"OrderBy"}))
    BY <1>1, <1>5, <1>7, <1>8 DEF Chained
  <2> QED
    BY <1>1, <1>2, <1>5, <2>1, ChainedNext
<1>10. y.highlight = LastOf(Args(new, HighlightCalls(new)))
  <2>1. Args(new, HighlightCalls(new)) = Args(calls, HighlightCalls(calls))
    BY <1>1, <1>2, HighlightSame
  <2> QED
    BY <1>1, <1>5, <2>1 DEF Decorated
<1>11. /\ [i \in 1..Len(y.facets) |-> facets'[y.facets[i]].on] = Args(new, FacetCalls(new))
       /\ IsFiniteSet(FacetCalls(new)) /\ Cardinality(FacetCalls(new)) = Len(y.facets)
       /\ \A i \in OptionCalls(new) : Stuck(y, new, facets', i)
       /\ \A j \in 1..Len(facets) : facets'[j] = facets[j]
  <2>1. y.facets = Append(steps[s].facets, Len(facets'))
    BY <1>5 DEF x, m
  <2>2. /\ [i \in 1..Len(y.facets) |-> facets'[y.facets[i]].on] = Args(new, FacetCalls(new))
        /\ IsFiniteSet(FacetCalls(new)) /\ Cardinality(FacetCalls(new)) = Len(y.facets)
        /\ y.facets # <<>> /\ y.facets[Len(y.facets)] = m
        /\ \A i \in OptionCalls(new) : Stuck(y, new, facets', i)
        /\ \A j \in 1..Len(facets) : facets'[j] = facets[j]
    BY <1>1, <1>2, <2>1, FacetAdded DEF calls, m
  <2> QED
    BY ONLY <2>2
<1>12. Decorated(y, new, facets')
  <2>1. y.kind # "options"
    BY <1>5
  <2> QED
    BY <1>10, <1>11, <2>1 DEF Decorated
<1> QED
  BY <1>3, <1>5, <1>6, <1>9, <1>11, <1>12, KeptUntouched

\* To set an option unsets no other, and leaves every facet what it is on.
LEMMA OptionSet ==
  ASSUME IInv, NEW s \in DOMAIN steps, NEW option \in Options, NEW value \in Values,
         SetOption(s, option, value)
  PROVE  /\ steps[s].facet \in 1..Len(facets)
         /\ facets'[steps[s].facet].options[option] # Unset
         /\ \A j \in 1..Len(facets) :
              /\ facets'[j].on = facets[j].on
              /\ \A o \in Options : facets[j].options[o] # Unset => facets'[j].options[o] # Unset
<1> DEFINE k == steps[s].facet
           g == [facets[k] EXCEPT !.options[option] = value]
<1>1. k \in 1..Len(facets) /\ facets \in Seq(Facet) /\ value # Unset
  BY OldStep, NoneAssumption DEF SetOption, WellMade, IInv
<1>2. facets[k] \in Facet
  BY <1>1, ElementOfSeq
<1>3. /\ g \in Facet /\ g.on = facets[k].on /\ g.options[option] = value
      /\ \A o \in Options : o # option => g.options[o] = facets[k].options[o]
  BY <1>2 DEF Facet
<1>4. facets' = [facets EXCEPT ![k] = g]
  BY DEF SetOption
<1> HIDE DEF k, g
<1>5. \A j \in 1..Len(facets) : [facets EXCEPT ![k] = g][j] = IF j = k THEN g ELSE facets[j]
  BY <1>1, <1>3, ExceptSeq
<1>6. facets'[k] = g /\ \A j \in 1..Len(facets) : j # k => facets'[j] = facets[j]
  BY <1>1, <1>4, <1>5
<1>7. facets'[k].options[option] # Unset
  BY <1>1, <1>3, <1>6
<1>8. ASSUME NEW j \in 1..Len(facets)
      PROVE  /\ facets'[j].on = facets[j].on
             /\ \A o \in Options : facets[j].options[o] # Unset => facets'[j].options[o] # Unset
  <2>1. CASE j # k
    BY <1>6, <2>1
  <2>2. CASE j = k
    BY <1>1, <1>3, <1>6, <2>2
  <2> QED
    BY <2>1, <2>2
<1> QED
  BY <1>1, <1>7, <1>8 DEF k

LEMMA KeptSetOption ==
  ASSUME IInv, Kept, NEW s \in DOMAIN steps, NEW option \in Options, NEW value \in Values,
         SetOption(s, option, value)
  PROVE  Kept'
<1> DEFINE a == [call |-> "SetOption", arg |-> <<option, value>>]
           x == steps[s]
           calls == asked[s]
           new == Append(calls, a)
           n == Len(calls)
           L == Len(x.facets)
<1>1. /\ x \in Step /\ calls \in Seq(Call) /\ Chained(x, calls) /\ Decorated(x, calls, facets)
      /\ x.kind = "options"
  BY KeptStep DEF SetOption
<1>2. a \in Call /\ a.call = "SetOption" /\ a.arg[1] = option
  BY DEF Call
<1>3. Make(x, new)
  BY DEF SetOption, Then
<1>4. /\ x.facet \in 1..Len(facets) /\ facets'[x.facet].options[option] # Unset
      /\ \A j \in 1..Len(facets) :
           /\ facets'[j].on = facets[j].on
           /\ \A o \in Options : facets[j].options[o] # Unset => facets'[j].options[o] # Unset
  BY OptionSet
<1>5. ASSUME NEW t \in DOMAIN steps PROVE Decorated(steps[t], asked[t], facets')
  <2>1. /\ Decorated(steps[t], asked[t], facets) /\ steps[t].facets \in Seq(Nat)
        /\ WellMade(steps[t], Len(facets))
    BY KeptStep DEF Step
  <2>2. \A i \in 1..Len(steps[t].facets) : steps[t].facets[i] \in 1..Len(facets)
    BY <2>1, LenProperties DEF WellMade
  <2>3. \A i \in 1..Len(steps[t].facets) :
          /\ facets'[steps[t].facets[i]].on = facets[steps[t].facets[i]].on
          /\ \A o \in Options : facets[steps[t].facets[i]].options[o] # Unset
                                  => facets'[steps[t].facets[i]].options[o] # Unset
    BY ONLY <1>4, <2>2
  <2> QED
    BY ONLY <2>1, <2>3, DecoratedStays
<1>6. Decorated(x, calls, facets')
  BY <1>5
<1> HIDE DEF a, x, calls
<1>7. new \in Seq(Call) /\ Len(new) = n + 1 /\ new[n + 1] = a /\ n \in Nat
  BY <1>1, <1>2, AppendProperties, LenProperties
<1>8. Wanted(new) = Wanted(calls)
  <2>1. a.call \notin {"By", "ByRange", "Bounds"}
    BY <1>2
  <2> QED
    BY <1>1, <1>2, <2>1, WantedSame
<1>9. Args(new, Calls(new, {"OrderBy"})) = Args(calls, Calls(calls, {"OrderBy"}))
  <2>1. a.call # "OrderBy"
    BY <1>2
  <2> QED
    BY <1>1, <1>2, <2>1, OrderSame
<1>10. Chained(x, new)
  <2>1. x.query = Wanted(new) /\ x.order = Args(new, Calls(new, {"OrderBy"}))
    BY <1>1, <1>8, <1>9 DEF Chained
  <2> QED
    BY <1>1, <1>2, <2>1, ChainedNext
<1>11. /\ FacetCalls(new) = FacetCalls(calls)
       /\ Args(new, FacetCalls(calls)) = Args(calls, FacetCalls(calls))
       /\ FacetCalls(calls) \in SUBSET (1..n)
  BY <1>1, <1>2, FacetsSame, FacetCallsNext
<1>12. Args(new, HighlightCalls(new)) = Args(calls, HighlightCalls(calls))
  BY <1>1, <1>2, HighlightSame
<1>13. L \in Nat /\ L # 0 /\ x.facet = x.facets[L]
  <2>1. L \in Nat /\ x.facets \in Seq(Nat) /\ x.facets # <<>> /\ x.facet = x.facets[L]
    BY <1>1, LenProperties DEF Step, Decorated
  <2> QED
    BY <2>1, EmptySeq
<1>14. Cardinality(FacetCalls(calls)) = L
  BY <1>1 DEF Decorated
<1>15. Stuck(x, new, facets', n + 1)
  <2>1. FacetCalls(new) \cap 1..(n + 1) = FacetCalls(calls)
    BY <1>7, <1>11
  <2>2. Cardinality(FacetCalls(new) \cap 1..(n + 1)) = L
    BY <1>14, <2>1
  <2>3. new[n + 1].arg[1] = option
    BY <1>2, <1>7
  <2> HIDE DEF new, n, L
  <2>4. L \in 1..L /\ facets'[x.facets[L]].options[option] # Unset
    BY <1>4, <1>13
  <2> QED
    BY <2>2, <2>3, <2>4 DEF Stuck, L
<1>16. \A i \in OptionCalls(new) : Stuck(x, new, facets', i)
  <2>1. OptionCalls(new) = OptionCalls(calls) \cup {n + 1}
    BY <1>1, <1>2, OptionCallsNext
  <2>2. ASSUME NEW i \in OptionCalls(calls) PROVE Stuck(x, new, facets', i)
    <3>1. Stuck(x, calls, facets', i) /\ L <= L /\ a.call # "OrderBy"
      BY <1>2, <1>6, <1>13 DEF Decorated
    <3> QED
      BY <1>1, <1>2, <1>13, <3>1, StuckStays
  <2> HIDE DEF new, n
  <2> QED
    BY <1>15, <2>1, <2>2
<1>17. Decorated(x, new, facets')
  <2>1. [i \in 1..Len(x.facets) |-> facets'[x.facets[i]].on] = Args(new, FacetCalls(new))
    BY <1>6, <1>11 DEF Decorated
  <2>2. IsFiniteSet(FacetCalls(new)) /\ Cardinality(FacetCalls(new)) = Len(x.facets)
    BY <1>6, <1>11 DEF Decorated
  <2>3. x.highlight = LastOf(Args(new, HighlightCalls(new)))
    BY <1>6, <1>12 DEF Decorated
  <2>4. x.kind = "options" => x.facets # <<>> /\ x.facet = x.facets[Len(x.facets)]
    BY <1>6 DEF Decorated
  <2> HIDE DEF new
  <2> QED
    BY <1>16, <2>1, <2>2, <2>3, <2>4 DEF Decorated
<1> QED
  BY <1>1, <1>3, <1>5, <1>7, <1>10, <1>17, KeptMake

LEMMA KeptAsIs ==
  ASSUME Kept, UNCHANGED <<steps, facets, asked>>
  PROVE  Kept'
BY DEF Kept

LEMMA KeptNext == IInv /\ Kept /\ [Next]_vars => Kept'
<1> SUFFICES ASSUME IInv, Kept, [Next]_vars PROVE Kept'
  OBVIOUS
<1>1. ASSUME NEW x \in Contexts, Query(x) PROVE Kept'
  BY <1>1, KeptQuery
<1>2. ASSUME NEW x \in Contexts, NEW c \in Conns, Connect(x, c) PROVE Kept'
  BY <1>2, KeptAsIs DEF Connect
<1>3. ASSUME NEW s \in DOMAIN steps, NEW k \in Criteria, By(s, k) PROVE Kept'
  BY <1>3, KeptBy
<1>4. ASSUME NEW s \in DOMAIN steps, NEW r \in Ranges, ByRange(s, r) PROVE Kept'
  BY <1>4, KeptByRange
<1>5. ASSUME NEW s \in DOMAIN steps, NEW b \in BOOLEAN, Bounds(s, b) PROVE Kept'
  BY <1>5, KeptBounds
<1>6. ASSUME NEW s \in DOMAIN steps, NEW o \in SortOrders, OrderBy(s, o) PROVE Kept'
  BY <1>6, KeptOrderBy
<1>7. ASSUME NEW s \in DOMAIN steps, NEW f \in FacetFields, WithFacetField(s, f) PROVE Kept'
  BY <1>7, KeptFacetField
<1>8. ASSUME NEW s \in DOMAIN steps, NEW o \in Options, NEW v \in Values, SetOption(s, o, v)
      PROVE  Kept'
  BY <1>8, KeptSetOption
<1>9. ASSUME NEW s \in DOMAIN steps, NEW q \in FacetQueries, WithFacetQuery(s, q) PROVE Kept'
  BY <1>9, KeptFacetQuery
<1>10. ASSUME NEW s \in DOMAIN steps, NEW h \in Highlights, WithHighlighting(s, h) PROVE Kept'
  BY <1>10, KeptHighlight
<1>11. ASSUME NEW s \in DOMAIN steps, Run(s) PROVE Kept'
  BY <1>11, KeptAsIs DEF Run
<1>12. CASE UNCHANGED vars
  BY <1>12, KeptAsIs DEF vars
<1> QED
  BY <1>1, <1>2, <1>3, <1>4, <1>5, <1>6, <1>7, <1>8, <1>9, <1>10, <1>11, <1>12 DEF Next

LEMMA AlwaysKept == Spec => [](IInv /\ Kept)
<1>1. Init => Kept
  <2>1. Init => 1..Len(steps) = {}
    BY DEF Init
  <2> QED
    BY <2>1 DEF Kept
<1> QED
  BY <1>1, Inductive, KeptNext, PTL DEF Spec

-----------------------------------------------------------------------------
(* The theorems about chains *)

\* However steps are shared, by whatever number of threads, a step asks for the
\* criteria and the sort orders of the calls that led to it, all of them, in
\* order and once, on the connection its context had when the chain began.
THEOREM NothingForgotten == Spec => []NothingIsForgotten
<1>1. IInv /\ Kept => NothingIsForgotten
  BY KeptStep DEF Chained, NothingIsForgotten
<1> QED
  BY <1>1, AlwaysKept, PTL

\* It asks for the facets and the highlighting of those calls that came after
\* the last OrderBy, and for highlighting after the last WithFacetField too.
THEOREM LaterCallsMatter == Spec => []OrderMatters
<1>1. IInv /\ Kept => OrderMatters
  <2> SUFFICES ASSUME IInv, Kept, NEW s \in DOMAIN steps
               PROVE  /\ [i \in DOMAIN steps[s].facets |-> facets[steps[s].facets[i]].on]
                           = Args(asked[s], FacetCalls(asked[s]))
                      /\ steps[s].highlight = LastOf(Args(asked[s], HighlightCalls(asked[s])))
    BY DEF OrderMatters, LastOf
  <2>1. steps[s].facets \in Seq(Nat) /\ Decorated(steps[s], asked[s], facets)
    BY KeptStep DEF Step
  <2>2. DOMAIN steps[s].facets = 1..Len(steps[s].facets)
    BY <2>1, LenProperties
  <2> QED
    BY <2>1, <2>2 DEF Decorated
<1> QED
  BY <1>1, AlwaysKept, PTL

\* An option set on the way to a step is set in what that step would send, on
\* the facet it was set for, whatever other branches do with that facet.
THEOREM OptionsStay == Spec => []OptionsStick
<1>1. IInv /\ Kept => OptionsStick
  <2> SUFFICES ASSUME IInv, Kept, NEW s \in DOMAIN steps, NEW i \in OptionCalls(asked[s])
               PROVE  LET k == Cardinality(FacetCalls(asked[s]) \cap 1..i)
                      IN  Parameters(s).facets[k].options[asked[s][i].arg[1]] # Unset
    BY DEF OptionsStick, OptionCalls
  <2> DEFINE k == Cardinality(FacetCalls(asked[s]) \cap 1..i)
  <2>1. /\ steps[s].facets \in Seq(Nat) /\ k \in 1..Len(steps[s].facets)
        /\ facets[steps[s].facets[k]].options[asked[s][i].arg[1]] # Unset
    BY KeptStep DEF Step, Decorated, Stuck
  <2>2. k \in DOMAIN steps[s].facets
    BY <2>1, LenProperties
  <2>3. Parameters(s).facets = [j \in DOMAIN steps[s].facets |-> facets[steps[s].facets[j]]]
    BY DEF Parameters
  <2> HIDE DEF k
  <2>4. Parameters(s).facets[k] = facets[steps[s].facets[k]]
    BY <2>2, <2>3
  <2>5. Parameters(s).facets[k].options[asked[s][i].arg[1]] # Unset
    BY <2>1, <2>4
  <2> QED
    BY <2>5 DEF k
<1> QED
  BY <1>1, AlwaysKept, PTL
=============================================================================
