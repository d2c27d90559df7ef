------------------------------ MODULE Registry ------------------------------
(***************************************************************************)
(* What the container promises: a register of components, each with its    *)
(* service type and, as long as nobody has taken it away, its key; those   *)
(* of one type in the order in which they came.                            *)
(***************************************************************************)
EXTENDS Naturals, Sequences

CONSTANTS
  Keys,      \* the keys of components
  Services,  \* service types
  Factories, \* the delegates that make components
  NoKey      \* the key of a component that has lost its own

Component == [key : Keys \cup {NoKey}, factory : Factories]

VARIABLE shelf  \* [Services -> Seq(Component)]

Taken(k) == \E s \in Services : \E i \in 1..Len(shelf[s]) : shelf[s][i].key = k

Init == shelf = [s \in Services |-> <<>>]

Register(k, s, f) ==
  /\ ~Taken(k)
  /\ shelf' = [shelf EXCEPT ![s] = Append(@, [key |-> k, factory |-> f])]

\* The components of one type leave, and no others.
RemoveAll(s) == shelf' = [shelf EXCEPT ![s] = <<>>]

\* A component leaves when key and type are both its own.
Remove(k, s) ==
  \E i \in 1..Len(shelf[s]) :
    /\ shelf[s][i].key = k
    /\ shelf' = [shelf EXCEPT ![s] = SubSeq(@, 1, i - 1) \o SubSeq(@, i + 1, Len(@))]

\* With a type that is not its own it only loses its key.
Forget(k, s) ==
  /\ Taken(k)
  /\ \A i \in 1..Len(shelf[s]) : shelf[s][i].key # k
  /\ shelf' = [r \in Services |-> [i \in 1..Len(shelf[r]) |->
                IF shelf[r][i].key = k THEN [shelf[r][i] EXCEPT !.key = NoKey] ELSE shelf[r][i]]]

Clear == shelf' = [s \in Services |-> <<>>]

Next ==
  \/ \E k \in Keys, s \in Services :
       \/ \E f \in Factories : Register(k, s, f)
       \/ Remove(k, s)
       \/ Forget(k, s)
  \/ \E s \in Services : RemoveAll(s)
  \/ Clear

Spec == Init /\ [][Next]_shelf
=============================================================================
