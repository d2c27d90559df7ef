# A verification project for SolrNet

SolrNet is a .NET client library for Apache Solr.  This directory holds TLA+
models of its parts, TLC configurations that check them on small instances, and
TLAPS proofs.  Paths below are relative to the repository's root.

## 1. Inventory

| Part | Source | State it keeps | Operations | Talks to |
|---|---|---|---|---|
| HTTP connection | `SolrNet/Impl/SolrConnection.cs` | the cache it is given; per call: the captured entry | `Get`, `Post`, `PostStream` | Solr over HTTP, `ISolrCache` |
| Response caches | `HttpRuntimeCache.cs`, `NullCache.cs` | entries by URL | look up, `Add`, eviction | ASP.NET's cache |
| Form-POST connection | `SolrPostConnection.cs` | none | `Get` as a POST | the connection it wraps |
| Memoized functions | `SolrNet/Utils/Memoizer.cs`, `MemoizingMappingManager.cs`, `GenericDictionaryDocumentVisitor.cs` | one dictionary and one monitor per function | look up, compute, add | the mapper, each other |
| Built-in container | `SolrNet/Utils/Container.cs` | factories by key and by type | `Register`, `RemoveAll`, `Remove`, `Clear`, copy, resolve | the factories, which call back into it |
| Initialization | `SolrNet/Startup.cs` | the static container | `InitContainer`, `Init<T>` | container, service locator |
| Mapping managers | `SolrNet/Mapping/*.cs` | mappings and unique keys by type | `Add`, `SetUniqueKey`, `GetFields`, `GetUniqueKey` | validation, serializers, visitors |
| Validation and schema | `SolrNet/Mapping/Validation`, `SolrNet/Schema` | none | four rules, schema parser | mapper, schema |
| Operations facade | `SolrServer.cs`, `SolrBasicServer.cs` | none | add, delete, commit, query, ... | commands, mapper, connection |
| Commands | `SolrNet/Commands` | none | one POST (or GET) each | connection |
| Query executer | `SolrQueryExecuter.cs`, `StartOrCursor.cs` | none | options to parameters, execute | connection, response parsers |
| Query objects | `SolrNet/*Query*.cs`, `QuerySerializers` | none | structure to query string | executer |
| Documents | visitors, field parsers, serializers | none but the memoized functions | XML to objects and back | mapper |
| Response parsers | `Impl/ResponseParsers` | none | XML to results | documents |
| Core administration | `SolrCoreAdmin.cs`, `SolrCoreReplication.cs` | none | core commands | connection (a cached `Get`) |
| Fluent DSL | `SolrNet.DSL` | the thread's or request's connection; the facet objects steps share | chains of steps | executer, service locator |
| Windsor, Autofac | `Castle.Facilities.SolrNetIntegration`, `AutofacContrib.SolrNet` | third-party containers | one registration per core | the same classes as `Startup` |
| Not the program's own | `HttpWebAdapters` (wrappers), `HttpEncoder`/`HttpUtility` (Mono), `solr_5.5.3` | | | |

Most of the library is stateless translation.  What is hard sits where state is
shared or where calls come in an order nobody tried:

* one connection and one cache under several threads, with an index that
  changes between the look-up, the answer and the return;
* updates whose outcome is unknown after a timeout;
* memoized functions that hold a lock while they call one another, or throw;
* two dictionaries of a container that every call has to keep in step, with
  operations that fail half way;
* `Init<T>`, which registers a dozen services one by one and may stop at any of
  them, called again with another connection or after services were replaced;
* mappings changed after the unique key was set or after they were memoized;
* documents that are deleted by another text than the one they were added with,
  and commits that must wait for a searcher among other clients' updates;
* trees of fluent steps, in which a step forgets what came before, or shares an
  object with the steps made from it.

What makes each part correct: a *connection* answers a query with contents the
index had during the call and returns from an update only if it was carried
out; *memoized functions* give all callers one value and never block for ever;
a *container* is a register of components; *initialization* wires each document
type to one server and never offers operations it cannot make; a *mapping* has
one field per property and a unique key that is mapped; *validation* reports
what its rules are named for, for the type it is given; the *operations* have the effect that
was asked for, once at most, and have had it when the call returns; a *chain* of
the DSL sends all that was asked for, whatever other chains do; *serializing and
parsing* a document gives it back.

## 2. Plan

| | Module | Composed of | Abstract specification | Proofs |
|---|---|---|---|---|
| 1 | `SolrConnection` | | `SolrService` | `SolrConnectionProofs` |
| 2 | `Memoization` | | | `MemoizationProofs` |
| 3 | `ContainerUse` | `Container` | `Registry` | `ContainerUseProofs` |
| 4 | `Startup` | `Container` | | `StartupProofs` |
| 5 | `Mapping` | | `FieldTable` | `MappingProofs` |
| 6 | `Validation` | `Mapping` | | `MappingProofs` |
| 7 | `Operations` (with the core commands) | `Index` | `DocumentStore` | `OperationsProofs` |
| 8 | `DSL` | | | `DSLProofs` |

All eight are done.  What an earlier version of this plan had besides, cursor
paging, the algebra of queries and the round trip of documents, is dropped for
the reasons in section 6.  Every safety property that a passing run checks is
proved as well.  `Induction` has the two lemmas about natural numbers that the proofs of
`ContainerUse`, `Startup` and `DSL` share.  What could follow: replication, once there
is a reason to model a second index.

## 3. The modules

### SolrConnection, SolrService

One connection is shared by `Threads`.  `Begin` is the part of a call before the
blocking `GetResponse`: `Get` reads the cache there, into the local variable
`cached`, as the code does.  The `Solr...` actions are the server, which is
external: it answers from the version of the index its searcher sees, with or
without an ETag, marked no-cache or not; it answers 304 only to a request that
carried the current validator; it may refuse; and the index may change at any
time.  `Evict` stands for ASP.NET's cache dropping entries; `NullCache` is the
cache that drops everything at once.  The `Finish...` and `Throw...` actions are
the exits of `Get`, `Post`, `PostStream` and `PostSolrConnection.Get`.  A time-out
may strike at any moment of the wait, whether or not Solr has acted.  Setting
`Timeout` only lengthens or shortens the wait and is not modelled, nor are
encodings and headers other than the validator and `Cache-Control`.

`SolrService` is what `ISolrConnection` promises: a query takes effect at one
moment of the call, an update that returns was carried out, any call may fail.
`ServiceSpec` maps a waiting call to "called" or "served" by whether Solr has
answered it.

Two assumptions are named in the module.  `KeyAssumption`: two different request
URLs are two different cache keys (the key is `Uri.ToString()` of the whole URL;
the parameters are percent-encoded before, and the reserved characters stay
so).  `ETagAssumption`: Solr computes different ETags for different contents.

### Memoization

A thread's `stack` holds the memoized calls it is in.  `Enter` is `lock` and
`TryGetValue`; `CallInner` is the call of another memoized function from the
function being computed (`GetThisField` asks the mapper for the fields, then
`canHandle` for one property after the other, and may stop early because the
LINQ query is lazy); `Compute` is the function's end and `results.Add`; `Throw` and
`Unwind` carry an exception up through the frames, releasing each monitor.
Monitors are reentrant.  A function may compute a different value each time it
runs (`Values`): that all callers agree is the lock's doing, not the function's.

### Container, ContainerUse, Registry

`Container` has the operators on container values; `ContainerUse` is one container
and any sequence of calls on it.  A type with no list and a type with an empty
list are one value: they differ only in which exception a failing call ends in.
`Register<T>` wraps every factory in a closure of its own, so its delegates are all
distinct; `Register(key, type, factory)` can be given a delegate that is registered
already, and `Reusable` says which.  `Remove(key, type)` is modelled with any type,
also one that is not the component's own: the key goes and the list entry stays.
`Lists` and `WithoutFirst` are written out, where the community modules have `Contains`
and `RemoveFirst`, because a proof about `ContainerUse` has to look into them.
`NoKey`, the key of a component that has lost its own, is no key (`KeyAssumption`).
`Registry` is the register of components that this is meant to be; `Shelf` is the
mapping.

### Startup

`containers` holds `Startup.Container` and a copy the application may make of it.
`InitType` is `Init<T>` with all its registrations in the code's order, up to the
first that throws because its key is taken; what was registered before stays.
The tables `UsesBase`, `UsesDoc`, `UsesAll` and `UsesStartup` say what each factory
resolves when it is called (`UsesStartup`: from the static container, whatever
container it is called with), and `Resolvable` follows them.  `gaps` and `ready` are
history.  The application runs on one thread, as `Container` is not made for more.

`Replaceable` are the services that an application takes away or replaces.  They
may be any but those that hold the connection of a document type, the query
executer and the basic operations (`StartupAssumption`).  An application that takes
these away is outside of what the properties are about: without the basic
operations of a type there is no connection left to speak of, and without the
executer and all that `Init` registers before it, a second `Init` with another
connection puts a new executer below the operations that are still there.  The
documents and tests of the repository only take the mapper away.

### Mapping, FieldTable

`mappings` holds the dictionary of each declaring type, `uniqueKeys` the unique keys
in the order in which the dictionary enumerates them (nothing is ever removed
from it, so that is the order of first assignment).  `Add`, `SetUniqueKey`, `GetFields`
and `GetUniqueKey` are the methods of those names; an unmapped type is a type with
an empty dictionary, as `Add` never leaves one empty.  `Properties` are property
objects: the base class's key reached through the subclass is one of its own,
with the same declaring type, since the code compares with `==`.  A call that
throws changes nothing and is no step; `Clash` says when `GetFields` throws.  Boosts
and null arguments are left out.  `FieldTable` has neither dictionaries nor an order:
each property has at most one field, each document type at most one unique key,
which stays with the class that gave it first.

### Validation

Extends `Mapping` with the server's `schema`.  Each rule is the set of fields that it
reports an error for; warnings are left out.  `EnumerateValidationResults` is their
list, or `Thrown`.  `Serialize` is the fields that the serializer sends of a document of a
run-time type, all of its properties set.  The schema is
what `SolrSchemaParser` reads of it: a field's own attributes, false where they are
not stated, and only the names of dynamic fields.  `Unchecked` stands for the names the
first rule skips, `score` and `geo_distance` and every name with a star;
dictionaries mapped by a prefix are left out.

The module does not say which documents Solr takes, and no property here is a
claim about that.  A mapping without errors can still be refused for what the
four rules do not look at: the types of the fields (the repository has a rule for
them, `MappingTypesAreCompatibleWithSolrTypesRule`, which `Startup` does not
register), copies into a field of one value, collections in dynamic fields, a
required field that is copied from one that is not sent, a unique key that its
property has been moved away from.  And a mapping with errors may be taken: a
required field with a default is reported although Solr would fill it in, and a
collection is reported on a field that has `multiValued` from its type
(`SolrSchemaParser.cs:54` reads only the field's own).  A field name that a class
and its subclass both map is no result at all: `GetFields` throws.  What is stated is
how the rules fit the rest of the library: documents of a subclass, which no rule
has seen (`SubclassesErrAlone`).

### Operations, Index, DocumentStore

`Clients` update one core.  `Post` is a call of `SolrServer`, `SolrBasicServer` or
`SolrCoreAdmin` up to its request, with all that may stop it first (`Throws`): a
document that no serializer takes, a deletion by documents of a type without a
unique key, `Delete(doc)` with a null one, a key whose text XML cannot hold, an extraction with
a field named "id".  A command is serialized whole before it is posted, so a call
that throws there (`Reject`) has posted nothing, although the ids of a deletion by
documents are a lazy query.  `Command` makes the message; note `Unload(coreName,
deleteIndex)`, which sends the same message for both values of its flag.
`Return`, `Throw`, `Lose` and `TimeOut` end the call; after a time-out the message
goes on without its caller, in `adrift`.

`Arrive`, `Refuse` and `Land` are Solr, which is external: it carries a message out,
or refuses it with some beginning of it done.  `CommitItself`, `OpenSearcher` and
`Restart` are what it does unasked.  `Index` is its index: what is written,
committed and searched, by the commands' documented effect.  A document has two
texts for its key: `FieldText`, made by the field serializers when it is added, and
`IdText`, the `ToString` by which `Delete(doc)` names it.  They are one for strings and
integers, and differ for dates, booleans and fractions in some cultures.
`keyed` says whether the document type has a unique key at all.  Index boosts,
`commitWithin` and the rest of a commit's options are abstracted, queries and pings
do not change anything.

`DocumentStore` is what the interfaces promise: a request takes effect once at
most and as its own arguments say; a call that throws may have had its effect, a
beginning of it, none, or may have it later.  A deletion by documents deletes those
and no others, and is refused when one of them has a null key; a core that is
created although it is loaded is taken over by the new one.  The code keeps this
for requests that are `Kept`: no null key in `Delete(docs)`, no key with two texts in a
deletion by documents (unless XML cannot hold it, which throws), no
`Unload(coreName, false)`.  The deletions have a violation each.  Of the last the code
can be read off: `SolrCoreAdmin.cs:143` sends `deleteIndex=true` for both values of
the flag, where line 140 says "If set to true deletes the index".

### DSL

`steps` are the objects that the calls of fluent chains return, in the order of
their making; any of them may be called again, so they form trees.  `connection`
is the slot of each thread or web request, read once, when a chain begins.  Every
call of `Next` has the name of the method; `Bounds` is `Exclusive()` and
`Inclusive()`, which rebuild the query without the range that was just added, and
`SetOption` stands for all methods of `DSLFacetFieldOptions`, which set the options of
a facet object in place.  `facets` are those objects, held by reference.  `asked` is
history: the calls that led to each step, with which the properties compare what
`Run` would send.  `Add`, `Delete`, `Commit` and `Optimize` of `Solr` make the commands of
`Operations` and are not repeated.

## 4. The runs

| Run | Bounds | Shows |
|---|---|---|
| `connection` | 2 threads, 2 URLs, 3 index versions; symmetric | `CacheCoherent`, `InFlight`, `Freshness`, `NoCacheHonoured`; `ServiceSpec` (refinement) |
| `memoization` | 2 threads, 1 document type, 1 field, 1 property, 2 values | `MonitorsMatchCalls`, `AddNeverCollides`, `CallersAgree`, `LocksOrdered`; `EveryCallReturns` |
| `container` | 3 keys, 2 types, 4 delegates, none reused | `NamesAreListed`, `RemoveAllByType`; `RegistrySpec` (refinement) |
| `remove_all_shared_factory` | the same, 1 delegate, reused | violates `RemoveAllByType` |
| `startup` | 2 document types (one a dictionary), 2 connections of 2 classes, 2 replaceable services; copies made before any `Init` (`MCEarlyCopy`) | `OneServerPerType`, `OperationsComeLast`, `FirstInitWins` |
| `overridden_mapper` | the same, copies at any time | violates `OverriddenMapperServes` |
| `validation` | a class and a subclass, 4 property objects (one a collection), 3 names (one unchecked), 6 schemas | `OneFieldPerProperty`, `FieldsAreInherited`, `SubclassesErrAlone`; `TableSpec` (refinement) |
| `stale_unique_key` | a class and a subclass, no schema | violates `UniqueKeyIsMapped` |
| `operations` | 2 clients (one makes every kind of call), 2 keys (the text of one cannot be posted as an id), null keys in additions and in `Delete(doc)`, 2 bodies and a broken one, `MaxAdrift` 1, at most 2 messages under way (`MCUnderWay`) | `CommitShows`; `StoreSpec` (refinement) |
| `deletes_by_document` | 1 client, a key with one text and a key with two | violates `DeletedAreGone` |
| `null_key_deletion` | 1 client, a null key in both deletions by documents | violates `NullKeysThrow` |
| `dsl` | 2 connections, 1 context, 1 of each argument, `MaxSteps` 5; connections symmetric | `NothingIsForgotten`, `OrderMatters`, `OptionsStick`, `StepsStay` |

Each has its module's `TypeOK` too where it passes.  Why the bounds are enough: with two
threads a slow answer can overtake a fast one and an entry can be replaced or
evicted while a 304 is under way, and three versions let the replaced entry
differ from both the captured one and the current one.  The memoized functions
nest two deep (`thisField` over `fields` and `canHandle`) and two threads are enough
to wait for each other.  Three keys and two types leave room for a type with two
components and another with one, and the fourth delegate for one that a
mistyped `Remove` left without a key.  Connections of two classes are what a
second `Init` of a type needs to get past its first registration (two of one
class share the connection key), and the replaceable serializer, registered
ahead of `Init`, is what stops a first `Init` half way.  With two types of a
hierarchy either may get its unique key first and their fields may clash; three
names let a property move away from a name that another then takes.  The
schemas of `validation` differ in one respect each (required, several values,
dynamic, copied, keyed), so that each rule can pass a class
and fail its subclass.  In `operations` the
second client's additions, deletions and commits come between the first one's
commit and its answer, and a message adrift comes after either; a third message
adds no new kind of neighbour to a step that changes one index.  Five steps of a
chain are what it takes to set an option in two branches behind a common facet,
and to order, facet and highlight in every order; a second thread would only make
steps that the one context makes already, on the connection it has meanwhile
changed to.

**Fairness.**  Only `EveryCallReturns` needs it.  A thread that runs goes on running
(weak fairness of its own steps); a monitor that is released again and again is
in the end granted to each waiter (strong fairness of `Enter`), as the CLR's
monitors do, which keep their waiters in a queue; nobody has to make a call.
The functions themselves end: they are reflection over one type.

**Violations.**
`DeletedAreGone`: the documentation of `Delete(doc)` (`ISolrOperations.cs`) says that it
deletes the document; a document whose key has two texts is deleted under the
wrong one and stays.
`NullKeysThrow`: the documentation of `Delete(docs)` says that it throws on a null key;
the key's text is then empty, and the deletion is posted.
`RemoveAllByType`: `RemoveAll<T>` looks for keys by comparing delegates, so a component
registered under another type with the same delegate loses its key.
`UniqueKeyIsMapped`: `Add` after `SetUniqueKey` gives the key property another field
and leaves the unique key at the old one, which `SetUniqueKey` itself would refuse.
The rule about the unique key compares the schema with that old name, so it passes a
mapping in which no property has the schema's unique key.
`OverriddenMapperServes`: `Init` registers in `Startup.Container`; after the steps of
`Documentation/Overriding-mapper.md` the locator hands out the copy, made before,
which does not know the document type.  (Replacing the mapper in
`Startup.Container` itself works: `SolrNet.Tests/IntegrationTests.cs`.)

Every property of a passing run has a mutant in `PROJECT.json`: a plausible bug in
one definition (named `<definition>_<what is wrong>`, defined next to it) under
which TLC finds the property violated.

## 5. What is proved

`SolrConnectionProofs` proves, for all sets of threads, URLs, keys, versions and
ETags, from `KeyAssumption`, `ETagAssumption` and `NullAssumption` (the null values are
none of the others):

* `TypeCorrect`, `CacheIsCoherent`, `WaitingCallsAreSound`, `QueriesAreFresh`,
  `NoCacheIsHonoured`: the five invariants of the run;
* `Refinement`: `Spec => ServiceSpec`.

`Freshness` is not inductive: a 304 returns the captured entry, so what every
waiting call holds has to be known.  `InFlight` says it: the captured entry fits
the call's URL, an answer was computed from a version seen during the call, and
a 304 was earned by the captured entry while its contents were current.  That
in turn needs `CacheCoherent`, since the entry was captured from the cache, and
`CacheCoherent` needs `InFlight`, since entries are made from answers.  `IInv`, their
conjunction with `TypeOK`, `Freshness` and `NoCacheHonoured`, is inductive
(`InitIInv`, `NextIInv`, one lemma for each shape of step).  The refinement is shown
step by step under `IInv` (`NextRefines`).

`MappingProofs` proves, for every set of types with a transitive assignability
(`BasesAssumption`, `TransitiveAssumption`), every set of properties and names, and a
`null` that is neither a name nor a model (`NoneAssumption`):

* `TypeCorrect` and `OneField`, which are inductive together: that `Add` removes the
  one old entry of a property is only enough because there was at most one;
* `Inheritance`, from transitivity alone;
* `Refinement`: `Spec => TableSpec`.  The abstract unique key of a type is the first
  that serves it in the concrete order.  `KeyedPlaces` says that `SetUniqueKey`
  changes a key in its place or adds one behind all others, so the first key of
  a type changes only if it was of that class or there was none.

About validation it proves `OnlySubclassesErr` (`SubclassesErrAlone`), for any schema.
Fields are the same in the subclass because they are inherited (`Inheritance`;
`SameMapping` carries it over to the specification with a schema).  A key is the
same if it is of a class of the validated type's, because the first key that
serves the subclass is then the first that serves that type (`KeyOfBothTypes`).

`MemoizationProofs` proves, for any threads, document types, fields and mapped
properties, from `PropsAssumption` and `NoneAssumption`, the five invariants of the
run (`TypeCorrect`, `MonitorsHeld`, `NoCollision`, `Agreement`, `Ordered`).  None of the four
that matter is inductive alone.  That a value is computed once needs the monitor
to be held by the thread that computes it (`Held`) and the dictionary to have no
value yet (`Fit`); that a monitor is free when the frame that entered it leaves
needs that no frame below it is inside the same one (`Nested`, the shape of a
stack: a leaf, or `thisField` over a leaf).  `Given` ties what callers were given to
what is stored.  Each step changes one thread's stack, so there is one lemma on
such a change (`OwnStepPreserves`), and one per action that shows it is one.

`OperationsProofs` proves, for any clients, keys, documents and requests, from
`OperationsAssumption`: `TypeCorrect`, `CommitsShow` and `Refinement`.  `CommitShows` speaks
of answered commits and is made inductive by `HeldIsWritten` (what is held is still
written) and `HeldIsShown` (of an answered commit, it is committed too, and
searched while the core is loaded): every operation of the index keeps a document
that stays written as committed and searched as it was (`Keeps`, one lemma for each
operation).  `InCall` and `Adrift` say that a message is the command of its request,
which is what the refinement rests on: `Carried` and `Spoilt` are then within what
the request means.  The refinement is for applications whose requests are all
`Kept`.  What the code does with the others is not what the interfaces promise: the
runs `deletes_by_document` and `null_key_deletion` show it of the deletions, and
`UnloadMessage` says it of `Unload(coreName, false)`.

`ContainerUseProofs` proves, for any keys, types and delegates:

* `TypeCorrect` and `EveryNameIsListed`.  `NamesAreListed` compares two cardinalities,
  which says nothing unless both sets are finite; `Counted` adds that they are,
  and is inductive.  `Register` adds one key and one place; `RemoveAll` takes a place
  only together with all keys of its factory; `Remove` takes a key, and at most one
  place;
* `ImplementsRegistry` (`Spec => RegistrySpec`) and `RemovedTogether`
  (`RemoveAllByType`), if no delegate is registered under two keys
  (`Reusable = {}`).  The run `remove_all_shared_factory` shows that they need this
  condition.  `Paired` is the inductive invariant: a factory has one key and one
  place at most, and no key without a place.  Then removing the keys that are
  equal to a factory is removing its component, and each action is an action of
  `Registry` on `Shelf`: `ShelfRegister`, `ShelfWithoutType`, `ShelfRemove` (key and type
  are the component's own) and `ShelfForget` (they are not).

`StartupProofs` proves, for any document types, connections and classes of
connections, from `StartupAssumption`: `TypeCorrect`, `OneServer`, `FirstInit` and
`OperationsResolve`.  What `Init` leaves behind when it stops half way is a beginning
of its registrations (`InitTypeMeans`).  `Inv` says what a container made of such
beginnings has in common: every factory is registered under its own name
(`Labelled`); what holds a connection was put there by `Init`, and holds the
connection of the service registered before it (`SameConnection`); offered
operations have all their parts, or the application took one away (`Complete`,
`BaseThere`).  `SameConnection` is why the three properties hold: a second call with
another connection stops at the first service that the earlier one left, so it
can only add behind a gap, and there is none.  `OperationsResolve` follows from `Inv`
alone: `Level` orders the services by what their factories ask for, `UsesGoDown` says
that they ask only for services further down, and eight levels are fewer than
`ChainBound`.

`DSLProofs` proves, for trees of any size on any number of threads, from
`NoneAssumption`:

* `TypeCorrect` and `Immutable` (`StepsStay`).  `IInv` adds to the types that a step
  which is not for options has no facet to set them in, so that a facet object
  made later can never become its own;
* `NothingForgotten`, `LaterCallsMatter` and `OptionsStay` (`NothingIsForgotten`,
  `OrderMatters`, `OptionsStick`).  They compare a step with all the calls that led to
  it.  `Kept` makes them inductive: `Chained` adds that a step of a range was made by
  `ByRange`, so that `Bounds` finds the range where it replaces it, and that only
  criteria come before a step that criteria can be added to, so that `By` and
  `ByRange`, which make a step without facets and sort orders, forget nothing;
  `Decorated` adds that a step for options sets them in the last of its facets, and
  that the step has as many facets as its chain has calls for one, so that an
  option is set on the facet it was called on.  What one more call changes of what
  a chain asks for is stated apart from the actions (`CallsNext`, `ArgsNext`,
  `WantedMore`, `WantedBounds`, `FacetCallsNext` and others).

These three modules use functions defined by recursion (`RegisterAll`, `Resolvable`,
`Pick`).  That such a function exists and takes one element after the other is
proved by induction, stated with sets (`Induction!UpTo`): a set that has 0 and with
each number below n the next has all numbers up to n.

Only model-checked: liveness (`EveryCallReturns`), since the prover does not reason
about fairness.

## 6. What is not modelled

Every component is listed in `PROJECT.json` with its reason.  In short:

* *Cursor paging.*  `SolrQueryExecuter` sends the mark it is given and returns the
  next one; the loop that keeps mark and sort together is the application's.
* *Query objects, query options.*  Pure translations; whether a serialized query
  means what its objects say rests on Lucene's parser, which is not in the
  repository.  The parameters that interact are those of `DSL`.
* *Documents and response parsers.*  Dispatch by type over pure visitors.  The
  state they share is in `Memoization`, the fields they send are in `Validation`, the
  texts of their keys in `Operations`; the rest is formatting and XML.
* *Replication, and the core commands that rename, swap, alias, merge or report.*
  They move names and files inside Solr.
* *Windsor and Autofac.*  The wiring of `Startup`, declared once to containers whose
  resolution is their own.
* *Attribute and all-properties mapping managers.*  They reflect over types.
* *`HttpWebAdapters`, `HttpEncoder`, `HttpUtility`, `solr_5.5.3`.*  Wrappers without logic,
  and code that is not the program's own (the Solr distribution brings all the
  JavaScript of the repository).

These hazards have no property: an `IOException` while an answer is read passes both
catch clauses of `Get` unwrapped (the model has one kind of exception), a mapping
changed after it was memoized is not seen (that is what memoizing is), an `Init`
that failed half way cannot be repeated (nothing documents that it can), a
collection may be mapped to a dynamic field of one value (of dynamic fields only
the names are read) or to a field that is multivalued by its type (which is not
read), fields that clash make validation and serialization throw (`Clash` says
when; nothing is corrupted), and the flag of `Unload` is ignored (a wrong constant
in one call).  In the modules that
exist, wording of exceptions, encodings and XML are abstracted.

## 7. Running

    tlc -workers 2 -config MCSolrConnection.cfg MCSolrConnection.tla
    tlc -workers 2 -config MCMemoization.cfg MCMemoization.tla
    tlc -workers 2 -config MCContainerUse.cfg MCContainerUse.tla
    tlc -workers 2 -config MCSharedFactory.cfg MCContainerUse.tla
    tlc -workers 2 -config MCStartup.cfg MCStartup.tla
    tlc -workers 2 -config MCOverriddenMapper.cfg MCStartup.tla
    tlc -workers 2 -config MCValidation.cfg MCValidation.tla
    tlc -workers 2 -config MCStaleKey.cfg MCMapping.tla
    tlc -workers 2 -config MCOperations.cfg MCOperations.tla
    tlc -workers 2 -config MCDeletedAreGone.cfg MCOperations.tla
    tlc -workers 2 -config MCNullKeys.cfg MCOperations.tla
    tlc -workers 2 -config MCDSL.cfg MCDSL.tla
    for m in SolrConnection Mapping Memoization ContainerUse Startup Operations DSL; do
      tlapm ${m}Proofs.tla
    done
    tlapm Induction.tla
