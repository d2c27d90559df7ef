----------------------------- MODULE MCMapping -----------------------------
(* Mapping on a small hierarchy: a base class with two properties and a     *)
(* subclass with one of its own; the base class's key property is also      *)
(* reached through the subclass.                                            *)
EXTENDS Mapping

CONSTANTS base, derived, id, derivedId, name, desc

MCBases == [t \in Types |-> IF t = base THEN {base} ELSE {base, derived}]
MCDeclaringType == [p \in Properties |-> IF p = desc THEN derived ELSE base]
=============================================================================
