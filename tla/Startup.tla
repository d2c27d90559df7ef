------------------------------ MODULE Startup ------------------------------
(***************************************************************************)
(* The initialization of the library with its built-in container:          *)
(* SolrNet/Startup.cs over SolrNet/Utils/Container.cs.  An application     *)
(* calls Init<T> for its document types, replaces services by its own, in  *)
(* Startup.Container or in a copy of it, chooses which container the       *)
(* service locator hands out, and starts over.  All of it runs on one      *)
(* thread; what is hard is the order of the calls, and Init<T> stopping    *)
(* half way.                                                               *)
(***************************************************************************)
EXTENDS Naturals, Sequences, FiniteSets, SequencesExt

CONSTANTS
  Docs,        \* document types
  Dictionary,  \* Dictionary<string, object>, which has parsers of its own
  NoDoc,       \* the services that belong to no document type
  Conns,       \* connections: an instance of ISolrConnection each
  ConnTypes,   \* the classes of the connections
  ConnType,    \* connection.GetType(): [Conns -> ConnTypes]
  NoConn,      \* a factory that holds no connection
  Replaceable, \* the services that the application replaces by its own
  NoFactory    \* nothing registered

-----------------------------------------------------------------------------
(* Services, keys and factories *)

\* What InitContainer registers: the validation rules under keys of their own,
\* the rest under the names of their services.
BaseNames ==
  <<"IReadOnlyMappingManager", "ISolrFieldParser", "ISolrFieldSerializer",
    "ISolrQuerySerializer", "ISolrFacetQuerySerializer", "ISolrDocumentPropertyVisitor",
    "ISolrSchemaParser", "ISolrDIHStatusParser", "ISolrHeaderResponseParser",
    "ISolrExtractResponseParser", "IMappingValidator", "ISolrStatusResponseParser">>

Rules ==
  <<"MappedPropertiesIsInSolrSchemaRule", "RequiredFieldsAreMappedRule",
    "UniqueKeyMatchesMappingRule", "MultivaluedMappedToCollectionRule">>

\* The services of a document type, in the order in which Init registers them.
DocNames_operationsFirst ==
  <<"ISolrOperations", "ISolrReadOnlyOperations",
    "ISolrDocumentActivator", "ISolrDocumentResponseParser", "ISolrAbstractResponseParser",
    "ISolrMoreLikeThisHandlerQueryResultsParser", "ISolrQueryExecuter",
    "ISolrDocumentSerializer", "ISolrBasicOperations", "ISolrBasicReadOnlyOperations">>
DocNames ==
  <<"ISolrDocumentActivator", "ISolrDocumentResponseParser", "ISolrAbstractResponseParser",
    "ISolrMoreLikeThisHandlerQueryResultsParser", "ISolrQueryExecuter",
    "ISolrDocumentSerializer", "ISolrBasicOperations", "ISolrBasicReadOnlyOperations",
    "ISolrOperations", "ISolrReadOnlyOperations">>

\* The closures of these hold the connection Init was given.
HoldsConnection == {"ISolrConnection", "ISolrQueryExecuter", "ISolrBasicOperations",
                    "ISolrBasicReadOnlyOperations", "ISolrCoreAdmin"}

Services ==
  {<<n, NoDoc>> : n \in ToSet(BaseNames) \cup {"IValidationRule", "ISolrConnection", "ISolrCoreAdmin"}}
  \cup {<<n, d>> : n \in ToSet(DocNames), d \in Docs}

\* A service registered without a key has its own name for a key.
ConnectionKey(n, d, c) == <<n, d, ConnType[c]>>

Keys == Services \cup {<<r, NoDoc>> : r \in ToSet(Rules)}
        \cup {ConnectionKey(n, d, c) : n \in {"ISolrConnection", "ISolrCoreAdmin"},
                                       d \in Docs, c \in Conns}

\* Each registration makes a delegate of its own.
Factories == [name : {k[1] : k \in Keys}, doc : Docs \cup {NoDoc},
              conn : Conns \cup {NoConn}, own : BOOLEAN]

INSTANCE Container

\* The application replaces services of its choice, but leaves in place what
\* holds the connection of a document type.
ASSUME StartupAssumption ==
  /\ NoDoc \notin Docs
  /\ NoFactory \notin Factories
  /\ ConnType \in [Conns -> ConnTypes]
  /\ Replaceable \subseteq Services
  /\ \A s \in Replaceable : s[2] \in Docs => s[1] \notin HoldsConnection

\* What SolrNet registers, and what the application registers.
Builtin(n, d, c) ==
  [name |-> n, doc |-> d, conn |-> IF n \in HoldsConnection THEN c ELSE NoConn, own |-> FALSE]
Own(s) == [name |-> s[1], doc |-> s[2], conn |-> NoConn, own |-> TRUE]

\* What the factories ask for.  Two document types have parsers and
\* serializers of different classes, which ask for different services.
UsesBase ==
  {"ISolrQuerySerializer"} \X {"ISolrFieldSerializer"}
  \cup {"ISolrFacetQuerySerializer"} \X {"ISolrQuerySerializer", "ISolrFieldSerializer"}
  \cup {"ISolrDocumentPropertyVisitor"} \X {"IReadOnlyMappingManager", "ISolrFieldParser"}
  \cup {"IMappingValidator"} \X {"IReadOnlyMappingManager"}
  \cup {"ISolrQueryExecuter"} \X {"ISolrQuerySerializer", "ISolrFacetQuerySerializer"}
  \cup {"ISolrBasicOperations", "ISolrBasicReadOnlyOperations"}
         \X {"ISolrSchemaParser", "ISolrHeaderResponseParser", "ISolrQuerySerializer",
             "ISolrDIHStatusParser", "ISolrExtractResponseParser"}
  \cup {"ISolrCoreAdmin"} \X {"ISolrHeaderResponseParser", "ISolrStatusResponseParser"}

ChooseDocumentResponseParser(d) ==
  {"ISolrDocumentResponseParser"}
    \X IF d = Dictionary THEN {"ISolrFieldParser"}
       ELSE {"IReadOnlyMappingManager", "ISolrDocumentPropertyVisitor"}

ChooseDocumentSerializer(d) ==
  {"ISolrDocumentSerializer"}
    \X IF d = Dictionary THEN {"ISolrFieldSerializer"}
       ELSE {"IReadOnlyMappingManager", "ISolrFieldSerializer"}

UsesDoc(d) ==
  (IF d = Dictionary THEN {} ELSE {"ISolrDocumentResponseParser"} \X {"ISolrDocumentActivator"})
  \cup {"ISolrAbstractResponseParser"} \X {"ISolrDocumentResponseParser"}
  \cup {"ISolrQueryExecuter"}
         \X {"ISolrAbstractResponseParser", "ISolrMoreLikeThisHandlerQueryResultsParser"}
  \cup {"ISolrBasicOperations", "ISolrBasicReadOnlyOperations"}
         \X {"ISolrQueryExecuter", "ISolrDocumentSerializer"}
  \cup {"ISolrOperations", "ISolrReadOnlyOperations"} \X {"ISolrBasicOperations"}

\* GetAllInstances: as many as there are.
UsesAll(d) ==
  {<<<<"IMappingValidator", NoDoc>>, <<"IValidationRule", NoDoc>>>>,
   <<<<"ISolrMoreLikeThisHandlerQueryResultsParser", d>>, <<"ISolrAbstractResponseParser", d>>>>}

\* Taken from Startup.Container, whatever container the factory is called with.
UsesStartup ==
  {"ISolrOperations", "ISolrReadOnlyOperations"} \X {"IReadOnlyMappingManager", "IMappingValidator"}

Needed(f) ==
  {<<u[2], NoDoc>> : u \in {x \in UsesBase \cup ChooseDocumentResponseParser(f.doc)
                                  \cup ChooseDocumentSerializer(f.doc) : x[1] = f.name}}
  \cup {<<u[2], f.doc>> : u \in {x \in UsesDoc(f.doc) : x[1] = f.name}}
NeededAll(f) == {u[2] : u \in {x \in UsesAll(f.doc) : x[1] = <<f.name, f.doc>>}}
NeededFromStartup(f) == {<<u[2], NoDoc>> : u \in {x \in UsesStartup : x[1] = f.name}}

-----------------------------------------------------------------------------
(* The two containers *)

VARIABLES
  containers,  \* "startup": Startup.Container; "copy": the application's own
  locator,     \* the container ServiceLocator.Current hands out
  ready,       \* history: the document types for which Init has returned
  gaps         \* history: services never there or taken away, by container

vars == <<containers, locator, ready, gaps>>

Which == {"startup", "copy"}

TypeOK ==
  /\ containers \in [Which -> Containers]
  /\ locator \in Which
  /\ ready \subseteq Docs
  /\ gaps \in [Which -> SUBSET Services]

\* One registration after the other.
RegisterAll(c, regs) ==
  LET after[i \in 0..Len(regs)] ==
        IF i = 0 THEN c
        ELSE Registered(after[i - 1], regs[i].key, regs[i].service, regs[i].factory)
  IN  after[Len(regs)]

Registration(key, service, factory) == [key |-> key, service |-> service, factory |-> factory]
ByName(n, d, c) == Registration(<<n, d>>, <<n, d>>, Builtin(n, d, c))

Defaults ==
  RegisterAll(Empty,
    [i \in DOMAIN BaseNames |-> ByName(BaseNames[i], NoDoc, NoConn)]
    \o [i \in DOMAIN Rules |-> Registration(<<Rules[i], NoDoc>>, <<"IValidationRule", NoDoc>>,
                                            Builtin(Rules[i], NoDoc, NoConn))])

\* The static constructor has run before anything can be asked of Startup.
Init ==
  /\ containers = [w \in Which |-> IF w = "startup" THEN Defaults ELSE Empty]
  /\ locator = "startup"
  /\ ready = {}
  /\ gaps = [w \in Which |-> IF w = "startup" THEN {} ELSE Services]

\* InitContainer clears the container, and points the locator at it.
InitContainer ==
  /\ containers' = [containers EXCEPT !["startup"] = Defaults]
  /\ locator' = "startup"
  /\ ready' = {}
  /\ gaps' = [gaps EXCEPT !["startup"] = {}]

\* Init<T>(connection): the registrations in the code's order.
Registrations_firstConnection(d, c) ==
  LET first == Default(containers["startup"], <<"ISolrConnection", NoDoc>>)
      conn(n) == IF n = "ISolrQueryExecuter" /\ first # NoFactory THEN first.conn ELSE c
  IN  <<Registration(ConnectionKey("ISolrConnection", d, c), <<"ISolrConnection", NoDoc>>,
                     Builtin("ISolrConnection", d, c))>>
      \o [i \in DOMAIN DocNames |-> ByName(DocNames[i], d, conn(DocNames[i]))]
Registrations(d, c) ==
  <<Registration(ConnectionKey("ISolrConnection", d, c), <<"ISolrConnection", NoDoc>>,
                 Builtin("ISolrConnection", d, c))>>
  \o [i \in DOMAIN DocNames |-> ByName(DocNames[i], d, c)]
  \o <<Registration(ConnectionKey("ISolrCoreAdmin", d, c), <<"ISolrCoreAdmin", NoDoc>>,
                    Builtin("ISolrCoreAdmin", d, c))>>

\* How many of them are made before one throws because its key is taken.
Accepted(regs) ==
  LET refused == {i \in DOMAIN regs : Has(containers["startup"], regs[i].key)}
  IN  IF refused = {} THEN Len(regs) ELSE Min(refused) - 1

InitType_replaces(d, c) ==
  LET regs == Registrations(d, c)
      old == {s \in Services : s[2] = d}
      cleared == [byName |-> [k \in Keys |-> IF k[2] = d THEN NoFactory
                                             ELSE containers["startup"].byName[k]],
                  byType |-> [s \in Services |-> IF s \in old THEN <<>>
                                                 ELSE containers["startup"].byType[s]]]
  IN  /\ containers' = [containers EXCEPT !["startup"] = RegisterAll(cleared, regs)]
      /\ ready' = ready \cup {d}
      /\ UNCHANGED <<locator, gaps>>
InitType(d, c) ==
  LET regs == Registrations(d, c)
      n == Accepted(regs)
  IN  /\ containers' = [containers EXCEPT !["startup"] =
                          RegisterAll(@, SubSeq(regs, 1, n))]
      /\ ready' = IF n = Len(regs) THEN ready \cup {d} ELSE ready
      /\ UNCHANGED <<locator, gaps>>

\* An application replaces a service: RemoveAll<S>(), then Register<S>(own).
RemoveAllOf(w, s) ==
  /\ containers' = [containers EXCEPT ![w] = WithoutType(@, s)]
  /\ gaps' = [gaps EXCEPT ![w] = @ \cup {s}]
  /\ UNCHANGED <<locator, ready>>

RegisterOwn(w, s) ==
  /\ ~Has(containers[w], s)
  /\ containers' = [containers EXCEPT ![w] = Registered(@, s, s, Own(s))]
  /\ gaps' = [gaps EXCEPT ![w] = @ \ {s}]
  /\ UNCHANGED <<locator, ready>>

\* new Container(Startup.Container)
CopyContainer ==
  /\ containers' = [containers EXCEPT !["copy"] = containers["startup"]]
  /\ gaps' = [gaps EXCEPT !["copy"] = gaps["startup"]]
  /\ UNCHANGED <<locator, ready>>

SetLocatorProvider(w) ==
  /\ locator' = w
  /\ UNCHANGED <<containers, ready, gaps>>

\* Startup.Container.Clear()
ClearStartup ==
  /\ containers' = [containers EXCEPT !["startup"] = Empty]
  /\ ready' = {}
  /\ gaps' = [gaps EXCEPT !["startup"] = Services]
  /\ UNCHANGED locator

Next ==
  \/ InitContainer
  \/ \E d \in Docs, c \in Conns : InitType(d, c)
  \/ \E w \in Which :
       \/ \E s \in Replaceable : RemoveAllOf(w, s) \/ RegisterOwn(w, s)
       \/ SetLocatorProvider(w)
  \/ CopyContainer
  \/ ClearStartup

Spec == Init /\ [][Next]_vars

-----------------------------------------------------------------------------
(* Resolution *)

\* GetInstance runs the factory, which resolves what it needs in turn.  The
\* services that can be resolved by a chain of at most n factories:
ChainBound == 10

Makes(f, w, done) ==
  /\ f # NoFactory
  /\ \A s \in Needed(f) : <<w, s>> \in done
  /\ \A s \in NeededAll(f) : Default(containers[w], s) = NoFactory \/ <<w, s>> \in done
  /\ \A s \in NeededFromStartup(f) : <<"startup", s>> \in done

Resolvable ==
  LET within[n \in 0..ChainBound] ==
        IF n = 0 THEN {}
        ELSE {x \in Which \X Services : Makes(Default(containers[x[1]], x[2]), x[1], within[n - 1])}
  IN  within[ChainBound]

\* The connections through which the operations of a type reach Solr.
ServersOf(d) ==
  {Default(containers["startup"], s).conn :
     s \in {x \in Services : /\ x[2] = d
                             /\ x[1] \in HoldsConnection
                             /\ Default(containers["startup"], x) # NoFactory
                             /\ ~Default(containers["startup"], x).own}}

-----------------------------------------------------------------------------
(* Properties *)

\* The operations that Init registered for a document type are there.
Offered(d) ==
  LET operations == Default(containers["startup"], <<"ISolrOperations", d>>)
  IN operations # NoFactory /\ ~operations.own

\* The queries and the updates of a document type go to one server, however
\* many calls of Init for it failed half way: what a failed call left behind
\* is never completed with another connection.
OneServerPerType == \A d \in Docs : Offered(d) => Cardinality(ServersOf(d)) = 1

\* Once the operations of a type are offered, no later call of Init, with the
\* same or another connection, moves them to another server.
FirstInitWins ==
  [][\A d \in Docs : Offered(d) /\ Offered(d)' => ServersOf(d)' = ServersOf(d)]_vars

\* Init registers the operations of a type after all they are made from: if
\* they are there, they can be resolved, unless the application itself has
\* taken away a service and put none in its place.
OperationsComeLast ==
  \A d \in Docs :
    Offered(d) /\ gaps["startup"] = {} => <<"startup", <<"ISolrOperations", d>>>> \in Resolvable

MapperOf(w) == Default(containers[w], <<"IReadOnlyMappingManager", NoDoc>>)
MapperReplaced ==
  NoFactory \notin {MapperOf("copy"), MapperOf("startup")}
    /\ MapperOf("copy").own /\ ~MapperOf("startup").own

\* After the steps of Overriding-mapper.md (a copy of the container with a
\* mapper of the application's own, the locator set to it, and then Init), the
\* locator gives out the operations of the document type.
OverriddenMapperServes ==
  [][\A d \in ready' \ ready :
       locator = "copy" /\ gaps = [w \in Which |-> {}] /\ MapperReplaced =>
         (<<locator, <<"ISolrOperations", d>>>> \in Resolvable)']_vars
=============================================================================
