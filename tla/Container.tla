----------------------------- MODULE Container -----------------------------
(***************************************************************************)
(* The values of the built-in container (SolrNet/Utils/Container.cs): one  *)
(* dictionary from keys to factories and one from service types to lists   *)
(* of factories, which every operation has to keep in step.                *)
(*                                                                         *)
(* A type with no list and a type with an empty list are one and the same  *)
(* here: they differ in the exception a failing call ends in, no more.     *)
(***************************************************************************)
EXTENDS Naturals, Sequences

CONSTANTS
  Keys,      \* component keys; Type.FullName of a service is one of them
  Services,  \* service types
  Factories, \* the delegates that make components, compared by value
  NoFactory  \* no component has this key

ASSUME FactoryAssumption == NoFactory \notin Factories

Containers == [byName : [Keys -> Factories \cup {NoFactory}],
               byType : [Services -> Seq(Factories)]]

Empty == [byName |-> [k \in Keys |-> NoFactory], byType |-> [s \in Services |-> <<>>]]

Has(c, k) == c.byName[k] # NoFactory

\* Register throws before it changes anything when the key is taken, so it
\* is applied to a container that has not the key.
Registered(c, k, s, f) ==
  [byName |-> [c.byName EXCEPT ![k] = f],
   byType |-> [c.byType EXCEPT ![s] = Append(@, f)]]

\* A list has a factory, and a list without the first place of a factory.
\* (Contains and RemoveFirst of SequencesExt, which a proof about a module
\* that instantiates this one could not look into.)
Lists(list, f) == \E i \in 1..Len(list) : list[i] = f

WithoutFirst(list, f) ==
  LET first == CHOOSE i \in 1..Len(list) : list[i] = f /\ \A j \in 1..(i - 1) : list[j] # f
  IN  IF Lists(list, f) THEN SubSeq(list, 1, first - 1) \o SubSeq(list, first + 1, Len(list))
      ELSE list

\* RemoveAll<T>: for each factory in the list of the type, every key whose
\* factory is equal to it.
WithoutType_keepsNames(c, s) == [c EXCEPT !.byType[s] = <<>>]
WithoutType_dropsList(c, s) ==
  [c EXCEPT !.byType = [r \in Services \ {s} |-> c.byType[r]]]
WithoutType(c, s) ==
  [byName |-> [k \in Keys |-> IF Lists(c.byType[s], c.byName[k])
                              THEN NoFactory ELSE c.byName[k]],
   byType |-> [c.byType EXCEPT ![s] = <<>>]]

\* Remove(key, type): the key goes first, then the first equal factory in the
\* list of the type the caller named, if it is there.
WithoutKey_dropsLast(c, k, s) ==
  [c EXCEPT !.byName[k] = NoFactory,
            !.byType[s] = IF @ = <<>> THEN @ ELSE SubSeq(@, 1, Len(@) - 1)]
WithoutKey(c, k, s) ==
  [byName |-> [c.byName EXCEPT ![k] = NoFactory],
   byType |-> [c.byType EXCEPT ![s] = WithoutFirst(@, c.byName[k])]]

\* The places a factory has in the lists.
Places(c, f) ==
  UNION {{<<s, i>> : i \in {j \in DOMAIN c.byType[s] : c.byType[s][j] = f}} : s \in Services}

\* GetInstance<T>() takes the oldest registration of the type.
Default(c, s) == IF c.byType[s] = <<>> THEN NoFactory ELSE Head(c.byType[s])

\* GetInstance<T>(key)
Named(c, k) == c.byName[k]
=============================================================================
