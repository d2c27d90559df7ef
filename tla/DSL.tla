-------------------------------- MODULE DSL --------------------------------
(***************************************************************************)
(* The fluent queries of SolrNet.DSL: Solr.Query<T>() begins a chain on    *)
(* the connection of the calling thread or web request, every call of the  *)
(* chain makes a new step from the one it is called on, and Run sends what *)
(* a step has gathered.  Any step may be kept and called again, so that    *)
(* the steps form trees, built by any thread.                              *)
(*                                                                         *)
(* Steps do not change, with one exception: a step for the options of a    *)
(* facet field sets them in a facet object that other steps hold too.      *)
(***************************************************************************)
EXTENDS Naturals, Sequences, FiniteSets

CONSTANTS
  Contexts,      \* threads, or web requests: each has a connection of its own
  Conns,         \* connections
  NoConn,        \* no connection set: null
  Criteria,      \* what By(..).Is(..) or By(..).Between(..).And(..) asks for
  Ranges,        \* what ByRange(..) asks for, but for its bounds
  SortOrders,
  FacetFields,
  FacetQueries,
  Options,       \* the options of a facet field
  Values,        \* their values
  Unset,
  Highlights,
  NoHighlight,   \* null
  NoRange,       \* not a step of a range
  NoFacet,       \* not a step of a facet field
  NoRequest,     \* nothing sent
  MaxSteps       \* bound on the steps made

ASSUME NoneAssumption ==
  NoRange \notin Ranges /\ NoFacet \notin Nat /\ Unset \notin Values

Criterion == Criteria \cup [range : Ranges, inclusive : BOOLEAN]

\* DSLQuery, DSLQueryRange, DSLFacetFieldOptions and DSLRun, which decide what
\* may be called on a step.
Kinds == {"query", "range", "options", "run"}

VARIABLES
  connection,  \* Local.Data: [Contexts -> Conns \cup {NoConn}]
  steps,       \* the steps made, in the order of their making
  facets,      \* the facet objects made: what they are on, and their options
  sent,        \* what the last call sent
  asked        \* history: the calls that led to each step

vars == <<connection, steps, facets, sent, asked>>

Step == [kind : Kinds, conn : Conns \cup {NoConn}, query : Seq(Criterion),
         range : Ranges \cup {NoRange}, order : Seq(SortOrders), facets : Seq(Nat),
         facet : Nat \cup {NoFacet}, highlight : Highlights \cup {NoHighlight}]

Facet == [on : FacetFields \cup FacetQueries, options : [Options -> Values \cup {Unset}]]

Request == [conn : Conns, query : Seq(Criterion), order : Seq(SortOrders),
            facets : Seq(Facet), highlight : Highlights \cup {NoHighlight}]

TypeOK ==
  /\ connection \in [Contexts -> Conns \cup {NoConn}]
  /\ steps \in Seq(Step)
  /\ facets \in Seq(Facet)
  /\ \A s \in DOMAIN steps :
       /\ \A i \in DOMAIN steps[s].facets : steps[s].facets[i] \in DOMAIN facets
       /\ steps[s].kind = "range" <=> steps[s].range # NoRange
       /\ steps[s].kind = "options" <=> steps[s].facet \in DOMAIN facets
  /\ sent \in Request \cup {NoRequest}
  /\ Len(asked) = Len(steps)

Init ==
  /\ connection = [x \in Contexts |-> NoConn]
  /\ steps = <<>>
  /\ facets = <<>>
  /\ sent = NoRequest
  /\ asked = <<>>

-----------------------------------------------------------------------------
(* Steps *)

New(conn, query) ==
  [kind |-> "query", conn |-> conn, query |-> query, range |-> NoRange, order |-> <<>>,
   facets |-> <<>>, facet |-> NoFacet, highlight |-> NoHighlight]

\* A step of its own for the result of each call.
Make(step, calls) ==
  /\ Len(steps) < MaxSteps
  /\ steps' = Append(steps, step)
  /\ asked' = Append(asked, calls)
  /\ sent' = NoRequest

Then(s, call, arg) == Append(asked[s], [call |-> call, arg |-> arg])

\* Solr.Connect, or Solr.Connection set.
Connect(x, c) ==
  /\ connection' = [connection EXCEPT ![x] = c]
  /\ sent' = NoRequest
  /\ UNCHANGED <<steps, facets, asked>>

\* Solr.Query<T>()
Query(x) ==
  /\ Make(New(connection[x], <<>>), <<[call |-> "Query", arg |-> connection[x]]>>)
  /\ UNCHANGED <<connection, facets>>

IsQuery(s) == steps[s].kind \in {"query", "range"}

\* By and Between make objects that only carry their arguments to Is and And.
By(s, criterion) ==
  /\ IsQuery(s)
  /\ Make(New(steps[s].conn, Append(steps[s].query, criterion)), Then(s, "By", criterion))
  /\ UNCHANGED <<connection, facets>>

\* The bounds are included unless Exclusive() follows.
Within(r, inclusive) == [range |-> r, inclusive |-> inclusive]

\* Without the type that has Exclusive and Inclusive.
ByRange_asQuery(s, r) ==
  /\ IsQuery(s)
  /\ Make([New(steps[s].conn, Append(steps[s].query, Within(r, TRUE))) EXCEPT !.range = r],
          Then(s, "ByRange", r))
  /\ UNCHANGED <<connection, facets>>
ByRange(s, r) ==
  /\ IsQuery(s)
  /\ Make([New(steps[s].conn, Append(steps[s].query, Within(r, TRUE)))
             EXCEPT !.kind = "range", !.range = r],
          Then(s, "ByRange", r))
  /\ UNCHANGED <<connection, facets>>

\* prevQuery, that is the query without the range just added.
Before(s) == SubSeq(steps[s].query, 1, Len(steps[s].query) - 1)

\* Built upon the query instead of prevQuery.
Bounds_twice(s, inclusive) ==
  /\ steps[s].kind = "range"
  /\ Make(New(steps[s].conn, Append(steps[s].query, Within(steps[s].range, inclusive))),
          Then(s, "Bounds", inclusive))
  /\ UNCHANGED <<connection, facets>>
Bounds(s, inclusive) ==
  /\ steps[s].kind = "range"
  /\ Make(New(steps[s].conn, Append(Before(s), Within(steps[s].range, inclusive))),
          Then(s, "Bounds", inclusive))
  /\ UNCHANGED <<connection, facets>>

\* The constructor used here takes neither facets nor highlighting.
OrderBy(s, o) ==
  /\ Make([New(steps[s].conn, steps[s].query)
             EXCEPT !.kind = "run", !.order = Append(steps[s].order, o)],
          Then(s, "OrderBy", o))
  /\ UNCHANGED <<connection, facets>>

\* A facet object of its own, and no highlighting.
WithFacetField(s, f) ==
  /\ facets' = Append(facets, [on |-> f, options |-> [o \in Options |-> Unset]])
  /\ Make([steps[s] EXCEPT !.kind = "options", !.range = NoRange, !.highlight = NoHighlight,
             !.facet = Len(facets'), !.facets = Append(@, Len(facets'))],
          Then(s, "WithFacetField", f))
  /\ UNCHANGED connection

\* LimitTo, DontSortByCount, WithPrefix and the others: the facet object is
\* changed in place, not in a copy that the list does not hold.
SetOption_onCopy(s, option, value) ==
  /\ steps[s].kind = "options"
  /\ facets' = Append(facets, [facets[steps[s].facet] EXCEPT !.options[option] = value])
  /\ Make([steps[s] EXCEPT !.facet = Len(facets')], Then(s, "SetOption", <<option, value>>))
  /\ UNCHANGED connection
SetOption(s, option, value) ==
  /\ steps[s].kind = "options"
  /\ facets' = [facets EXCEPT ![steps[s].facet].options[option] = value]
  /\ Make(steps[s], Then(s, "SetOption", <<option, value>>))
  /\ UNCHANGED connection

\* Like WithFacetField, without the highlighting.
WithFacetQuery_noHighlight(s, q) ==
  /\ facets' = Append(facets, [on |-> q, options |-> [o \in Options |-> Unset]])
  /\ Make([steps[s] EXCEPT !.kind = "run", !.range = NoRange, !.facet = NoFacet,
             !.highlight = NoHighlight, !.facets = Append(@, Len(facets'))],
          Then(s, "WithFacetQuery", q))
  /\ UNCHANGED connection
\* With facets.Add instead of a new list.
WithFacetQuery_inPlace(s, q) ==
  /\ facets' = Append(facets, [on |-> q, options |-> [o \in Options |-> Unset]])
  /\ Len(steps) < MaxSteps
  /\ LET longer == [steps EXCEPT ![s].facets = Append(@, Len(facets'))]
     IN steps' = Append(longer, [longer[s] EXCEPT !.kind = "run", !.range = NoRange,
                                                  !.facet = NoFacet])
  /\ asked' = Append(asked, Then(s, "WithFacetQuery", q))
  /\ sent' = NoRequest
  /\ UNCHANGED connection
WithFacetQuery(s, q) ==
  /\ facets' = Append(facets, [on |-> q, options |-> [o \in Options |-> Unset]])
  /\ Make([steps[s] EXCEPT !.kind = "run", !.range = NoRange, !.facet = NoFacet,
             !.facets = Append(@, Len(facets'))],
          Then(s, "WithFacetQuery", q))
  /\ UNCHANGED connection

WithHighlighting(s, h) ==
  /\ Make([steps[s] EXCEPT !.kind = "run", !.range = NoRange, !.facet = NoFacet,
             !.highlight = h],
          Then(s, "WithHighlighting", h))
  /\ UNCHANGED <<connection, facets>>

Parameters(s) ==
  [conn |-> steps[s].conn, query |-> steps[s].query, order |-> steps[s].order,
   facets |-> [i \in DOMAIN steps[s].facets |-> facets[steps[s].facets[i]]],
   highlight |-> steps[s].highlight]

\* Without a connection, the executer's call of it throws.
Run(s) ==
  /\ sent' = IF steps[s].conn = NoConn THEN NoRequest ELSE Parameters(s)
  /\ UNCHANGED <<connection, steps, facets, asked>>

Next ==
  \/ \E x \in Contexts : Query(x) \/ \E c \in Conns : Connect(x, c)
  \/ \E s \in DOMAIN steps :
       \/ \E k \in Criteria : By(s, k)
       \/ \E r \in Ranges : ByRange(s, r)
       \/ \E b \in BOOLEAN : Bounds(s, b)
       \/ \E o \in SortOrders : OrderBy(s, o)
       \/ \E f \in FacetFields : WithFacetField(s, f)
       \/ \E o \in Options, v \in Values : SetOption(s, o, v)
       \/ \E q \in FacetQueries : WithFacetQuery(s, q)
       \/ \E h \in Highlights : WithHighlighting(s, h)
       \/ Run(s)

Spec == Init /\ [][Next]_vars

-----------------------------------------------------------------------------
(* Properties.  They compare what a step would send with the calls that led  *)
(* to it.                                                                    *)

\* The elements of a sequence at these places, in order.
Pick(seq, places) ==
  LET upTo[i \in 0..Len(seq)] ==
        IF i = 0 THEN <<>>
        ELSE IF i \in places THEN Append(upTo[i - 1], seq[i]) ELSE upTo[i - 1]
  IN  upTo[Len(seq)]

\* The places of some calls, and the places after the last of some calls.
Calls(calls, names) == {i \in 1..Len(calls) : calls[i].call \in names}
After(calls, names) ==
  {i \in 1..Len(calls) : \A j \in i..Len(calls) : calls[j].call \notin names}

Args(calls, places) == Pick([i \in 1..Len(calls) |-> calls[i].arg], places)

\* What a chain asks a document to match; the bounds of a range are those of
\* the call after it.
Exclusive(calls, i) ==
  i < Len(calls) /\ calls[i + 1].call = "Bounds" /\ calls[i + 1].arg = FALSE
Wanted(calls) ==
  Pick([i \in 1..Len(calls) |-> IF calls[i].call = "By" THEN calls[i].arg
                                ELSE Within(calls[i].arg, ~Exclusive(calls, i))],
       Calls(calls, {"By", "ByRange"}))

\* The facets a chain asks for, since OrderBy has forgotten those before.
FacetCalls(calls) ==
  Calls(calls, {"WithFacetField", "WithFacetQuery"}) \cap After(calls, {"OrderBy"})

\* The same for the highlighting, which WithFacetField forgets too.
HighlightCalls(calls) ==
  Calls(calls, {"WithHighlighting"}) \cap After(calls, {"OrderBy", "WithFacetField"})

\* A chain keeps every criterion and every sort order it was given, in order
\* and once, however its steps are shared, and runs on the connection that was
\* its context's when it began, whatever has been connected to since.
NothingIsForgotten ==
  \A s \in DOMAIN steps :
    /\ steps[s].query = Wanted(asked[s])
    /\ steps[s].order = Args(asked[s], Calls(asked[s], {"OrderBy"}))
    /\ steps[s].conn = asked[s][1].arg

\* Facets and highlighting are the exception: OrderBy forgets both, and
\* WithFacetField forgets the highlighting.  What was asked for after them is
\* sent, and nothing else.
OrderMatters ==
  \A s \in DOMAIN steps :
    LET highlightings == Args(asked[s], HighlightCalls(asked[s]))
    IN /\ [i \in DOMAIN steps[s].facets |-> facets[steps[s].facets[i]].on]
            = Args(asked[s], FacetCalls(asked[s]))
       /\ steps[s].highlight = IF highlightings = <<>> THEN NoHighlight
                               ELSE highlightings[Len(highlightings)]

\* An option set on a facet field stays set for the step it was set by and for
\* all steps made from that one, whatever the other steps that share the facet
\* do with it, until OrderBy forgets the facet.
OptionsStick ==
  \A s \in DOMAIN steps :
    \A i \in Calls(asked[s], {"SetOption"}) \cap After(asked[s], {"OrderBy"}) :
      LET facet == Cardinality(FacetCalls(asked[s]) \cap 1..i)
      IN  Parameters(s).facets[facet].options[asked[s][i].arg[1]] # Unset

\* What a step would send changes only when an option is set on a facet that
\* it holds: another branch of the tree, or a new connection, never reaches it.
StepsStay ==
  [][\A s \in DOMAIN steps :
       Parameters(s)' # Parameters(s)
         => /\ steps'[Len(steps')].kind = "options"
            /\ \E i \in DOMAIN steps[s].facets : steps[s].facets[i] = steps'[Len(steps')].facet]_vars
=============================================================================
