----------------------------- MODULE FieldTable -----------------------------
(***************************************************************************)
(* What a mapping manager promises: every property has at most one field,  *)
(* the one it was last given, until another property of its class takes    *)
(* that name; and every document type has at most one unique key, which    *)
(* always comes from the class that first gave it one.                     *)
(***************************************************************************)
CONSTANTS Types, Properties, Names, DeclaringType, Bases, None

VARIABLES field,  \* [Properties -> Names \cup {None}]
          key     \* [Types -> [property : Properties, field : Names] \cup {None}]

vars == <<field, key>>

Init == /\ field = [p \in Properties |-> None]
        /\ key = [t \in Types |-> None]

Add(p, f) ==
  /\ field' = [q \in Properties |->
                 CASE q = p -> f
                   [] q # p /\ DeclaringType[q] = DeclaringType[p] /\ field[q] = f -> None
                   [] OTHER -> field[q]]
  /\ UNCHANGED key

\* The types the class of p answers for: those that have no key or one of its own.
Takes(p, t) ==
  /\ DeclaringType[p] \in Bases[t]
  /\ key[t] = None \/ DeclaringType[key[t].property] = DeclaringType[p]

SetUniqueKey(p) ==
  /\ field[p] # None
  /\ key' = [t \in Types |-> IF Takes(p, t) THEN [property |-> p, field |-> field[p]] ELSE key[t]]
  /\ UNCHANGED field

Next == \E p \in Properties : (\E f \in Names : Add(p, f)) \/ SetUniqueKey(p)

Spec == Init /\ [][Next]_vars
=============================================================================
