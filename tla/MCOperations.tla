---------------------------- MODULE MCOperations ----------------------------
(* Operations with two keys: an ordinary one, and one whose text as an id    *)
(* cannot be posted, or, in the run about deletions, is another text than    *)
(* the one it was added with.                                                *)
EXTENDS Operations

CONSTANTS k1, k2, t1, t2, t3, v1, v2

Doc(k, b) == [key |-> k, body |-> b]
MCFieldText == [k \in Keys |-> IF k = k1 THEN t1 ELSE t2]
MCIdText == [k \in Keys |-> IF k = k1 THEN t1 ELSE Illegal]
MCOtherText == [k \in Keys |-> IF k = k1 THEN t1 ELSE t3]

AddOne == [op |-> "add", docs |-> <<Doc(k1, v1)>>, overwrite |-> "null"]
AddTwo(k) == [op |-> "add", docs |-> <<Doc(k, v1), Doc(k1, v2)>>, overwrite |-> "null"]

\* One client makes all calls, the other adds, deletes and commits.
MCRequests ==
  [c1 |-> {AddOne, AddTwo(k1),
     [op |-> "add", docs |-> <<Doc(k1, v2), Doc(NoKey, v1)>>, overwrite |-> "false"],
     [op |-> "add", docs |-> <<Doc(k1, v1), Doc(k2, Broken)>>, overwrite |-> "null"],
     [op |-> "delete docs", docs |-> <<Doc(k1, v1)>>],
     [op |-> "delete docs", docs |-> <<Doc(k1, v1), Doc(k2, v1)>>],
     [op |-> "delete doc", docs |-> <<Doc(NoKey, v1)>>],
     [op |-> "delete", ids |-> <<t1>>, query |-> {v2}],
     [op |-> "commit", waitSearcher |-> "null"],
     [op |-> "optimize", waitSearcher |-> "false"],
     [op |-> "rollback"], [op |-> "create"], [op |-> "reload"],
     [op |-> "extract", id |-> t1, body |-> v2, idField |-> FALSE, autoCommit |-> TRUE,
      extractOnly |-> FALSE],
     [op |-> "unload", delete |-> "none"], [op |-> "unload flag", deleteIndex |-> TRUE]},
   c2 |-> {AddTwo(k1), [op |-> "delete", ids |-> <<t1>>, query |-> {}],
           [op |-> "commit", waitSearcher |-> "null"]}]

\* At most two messages under way; one where nothing but Delete can tell.
MCUnderWay ==
  Cardinality(adrift) + Cardinality({c \in Clients : calls[c].request # NoRequest})
    <= IF keyed THEN 2 ELSE 1

MCDeletions ==
  [c1 |-> {AddOne, AddTwo(k2)} \cup {[op |-> "delete doc", docs |-> <<Doc(k, v1)>>] : k \in {k1, k2}}]
MCNullKeys ==
  [c1 |-> {AddOne, [op |-> "delete doc", docs |-> <<Doc(NoKey, v1)>>],
           [op |-> "delete docs", docs |-> <<Doc(k1, v1), Doc(NoKey, v1)>>]}]
=============================================================================
