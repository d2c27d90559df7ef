--------------------------- MODULE MCValidation ---------------------------
(* Validation on a base class with a key and a collection, and a subclass   *)
(* with a property of its own, against schemas that differ in one respect   *)
(* each.                                                                    *)
EXTENDS Validation

CONSTANTS base, derived, id, derivedId, tags, desc, key, text, score

MCBases == [t \in Types |-> IF t = base THEN {base} ELSE {base, derived}]
MCDeclaringType == [p \in Properties |-> IF p = desc THEN derived ELSE base]

Solr(fields, dynamic, copies, uniqueKey) ==
  [fields |-> fields, dynamic |-> dynamic, copies |-> copies, uniqueKey |-> uniqueKey]
One == [required |-> FALSE, multiValued |-> FALSE]
Many == [required |-> FALSE, multiValued |-> TRUE]
Must == [required |-> TRUE, multiValued |-> FALSE]

MCSchemas ==
  {Solr([f \in {key, text} |-> One], {}, {}, None),
   Solr([f \in {key, text} |-> IF f = key THEN Must ELSE Many], {}, {}, key),
   Solr([f \in {key} |-> One], {text}, {}, key),
   Solr([f \in {key} |-> One], {text, score}, {}, None),
   Solr([f \in {key, text} |-> Must], {}, {<<key, text>>}, key),
   Solr([f \in {key, text} |-> IF f = key THEN One ELSE Must], {}, {}, None)}
=============================================================================
