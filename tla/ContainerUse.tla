---------------------------- MODULE ContainerUse ----------------------------
(***************************************************************************)
(* One container and the calls an application makes on it, one after the   *)
(* other: Register, RemoveAll, Remove, Clear (SolrNet/Utils/Container.cs    *)
(* and IContainer.cs), in any order and with any keys and types.          *)
(***************************************************************************)
EXTENDS Container, FiniteSets

CONSTANTS
  Reusable,  \* delegates that callers register under more than one key
  NoKey      \* the key of a component that has lost its own

ASSUME KeyAssumption == NoKey \notin Keys

VARIABLE container

TypeOK == container \in Containers

Init == container = Empty

InUse(f) == Places(container, f) # {}

\* Register<T>(factory) and Register<T>(key, factory) wrap the factory in a
\* delegate of their own; only Register(key, type, factory) can be given one
\* that is registered already.
Register(k, s, f) ==
  /\ ~Has(container, k)
  /\ f \in Reusable \/ ~InUse(f)
  /\ container' = Registered(container, k, s, f)

RemoveAll(s) == container' = WithoutType(container, s)

\* The dictionary throws when the key is not there, before anything changes.
Remove(k, s) ==
  /\ Has(container, k)
  /\ container' = WithoutKey(container, k, s)

Clear == container' = Empty

Next ==
  \/ \E k \in Keys, s \in Services :
       (\E f \in Factories : Register(k, s, f)) \/ Remove(k, s)
  \/ \E s \in Services : RemoveAll(s)
  \/ Clear

Spec == Init /\ [][Next]_container

-----------------------------------------------------------------------------
(* Properties *)

KeysOf(f) == Cardinality({k \in Keys : Named(container, k) = f})
ListingsOf(f) == Cardinality(Places(container, f))

\* What GetInstance finds by its key, GetAllInstances finds by its type: a
\* factory has at least as many places in the lists as it has keys.
NamesAreListed == \A f \in Factories : KeysOf(f) <= ListingsOf(f)

\* "Removes all components with service type T" (Container.cs, RemoveAll): a
\* factory that has a key for each of its places still has one for each place
\* that is left.
RemoveAllByType ==
  [][\A s \in Services : RemoveAll(s) =>
       \A f \in Factories : KeysOf(f) = ListingsOf(f) => KeysOf(f)' = ListingsOf(f)']_container

\* The container implements Registry as long as no delegate is registered
\* twice: the two dictionaries tell of the same components.
KeyFor(f) == IF \E k \in Keys : Named(container, k) = f
             THEN CHOOSE k \in Keys : Named(container, k) = f ELSE NoKey
Shelf == [s \in Services |->
            [i \in 1..Len(container.byType[s]) |->
               [key |-> KeyFor(container.byType[s][i]), factory |-> container.byType[s][i]]]]

Components == INSTANCE Registry WITH shelf <- Shelf

RegistrySpec == Components!Spec
=============================================================================
