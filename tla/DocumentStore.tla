--------------------------- MODULE DocumentStore ---------------------------
(***************************************************************************)
(* What ISolrOperations and ISolrCoreAdmin promise of an index: a request  *)
(* takes effect at most once and as its arguments say, before the call     *)
(* returns; a call that throws may have had no effect, its effect, the     *)
(* beginning of it, or its effect still to come.                           *)
(***************************************************************************)
EXTENDS Index

CONSTANTS
  Clients, Requests, NoRequest, NoKey,
  Identity  \* the id under which a document of this key is stored: [Keys -> Texts]

VARIABLES
  index,
  stage,    \* [Clients -> {"called", "done", "failed", "returned", "threw"}]
  request,  \* what each client has asked for, until its call is over
  owed      \* what callers that gave up may still see happen: a set of requests

sVars == <<index, stage, request, owed>>

NullKey(docs) == \E i \in DOMAIN docs : docs[i].key = NoKey

Documents(docs) ==
  [i \in DOMAIN docs |-> [id |-> Identity[docs[i].key], body |-> docs[i].body]]

\* A request carried out: the results it may have, none if it cannot be.  A null
\* key names no document: to delete by one is refused, and deletes nothing.
Meaning(o, ix) ==
  CASE o.op = "add" ->
         IF NullKey(o.docs) THEN {} ELSE {Write(ix, Documents(o.docs), o.overwrite)}
    [] o.op \in {"delete doc", "delete docs"} ->
         IF NullKey(o.docs) THEN {}
         ELSE {Remove(ix, {Identity[o.docs[i].key] : i \in DOMAIN o.docs}, {})}
    [] o.op = "delete" -> {Remove(ix, {o.ids[i] : i \in DOMAIN o.ids}, o.query)}
    [] o.op \in {"commit", "optimize"} -> {Commit(ix, o.waitSearcher)}
    [] o.op = "rollback" -> {Discard(ix)}
    [] o.op = "extract" ->
         IF o.extractOnly THEN {ix}
         ELSE LET added == Write(ix, <<[id |-> o.id, body |-> o.body]>>, "true")
              IN {IF o.autoCommit THEN Commit(added, "true") ELSE added}
    [] o.op = "unload" -> Unload(ix, o.delete)
    [] o.op = "unload flag" -> Unload(ix, IF o.deleteIndex THEN "index" ELSE "none")
    [] o.op = "create" -> Create(ix)
    [] o.op = "reload" -> TakeOver(ix)

\* The documents or the ids of a request up to one of them, and what a commit
\* does before it opens a searcher.
Beginnings(o) ==
  CASE o.op = "add" -> {[o EXCEPT !.docs = SubSeq(o.docs, 1, n)] : n \in 0..Len(o.docs)}
    [] o.op \in {"delete doc", "delete docs"} ->
         {[o EXCEPT !.docs = SubSeq(o.docs, 1, n)] : n \in 0..Len(o.docs)}
    [] o.op = "delete" ->
         {[o EXCEPT !.ids = SubSeq(o.ids, 1, n), !.query = {}] : n \in 0..Len(o.ids)}
    [] o.op \in {"commit", "optimize"} -> {[o EXCEPT !.waitSearcher = "false"]}
    [] o.op = "extract" /\ ~o.extractOnly -> {[o EXCEPT !.autoCommit = FALSE]}
    [] OTHER -> {}

Part(o, ix) == {ix} \cup UNION {Meaning(b, ix) : b \in Beginnings(o)}

\* Only a core that is loaded serves requests.  It may be created all the same:
\* the new core takes over from it.
Serves(o, ix) == ix.loaded \/ o.op = "create"

Effects(o, ix) == IF Serves(o, ix) THEN Meaning(o, ix) ELSE {}
PartialEffects(o, ix) == IF Serves(o, ix) THEN Part(o, ix) ELSE {ix}

Init ==
  /\ index = [loaded |-> TRUE, written |-> {}, committed |-> {}, searched |-> {}]
  /\ stage = [c \in Clients |-> "returned"]
  /\ request = [c \in Clients |-> NoRequest]
  /\ owed = {}

Call(c) ==
  /\ stage[c] \in {"returned", "threw"}
  /\ stage' = [stage EXCEPT ![c] = "called"]
  /\ \E o \in Requests[c] : request' = [request EXCEPT ![c] = o]
  /\ UNCHANGED <<index, owed>>

\* A request refused on the spot, with no effect at all.
Reject(c) ==
  /\ stage[c] \in {"returned", "threw"}
  /\ stage' = [stage EXCEPT ![c] = "threw"]
  /\ UNCHANGED <<index, request, owed>>

TakeEffect(c) ==
  /\ stage[c] = "called"
  /\ index' \in Effects(request[c], index)
  /\ stage' = [stage EXCEPT ![c] = "done"]
  /\ UNCHANGED <<request, owed>>

Spoil(c) ==
  /\ stage[c] = "called"
  /\ index' \in PartialEffects(request[c], index)
  /\ stage' = [stage EXCEPT ![c] = "failed"]
  /\ UNCHANGED <<request, owed>>

Return(c) ==
  /\ stage[c] = "done"
  /\ stage' = [stage EXCEPT ![c] = "returned"]
  /\ request' = [request EXCEPT ![c] = NoRequest]
  /\ UNCHANGED <<index, owed>>

Throw(c) ==
  /\ stage[c] \in {"done", "failed"}
  /\ stage' = [stage EXCEPT ![c] = "threw"]
  /\ request' = [request EXCEPT ![c] = NoRequest]
  /\ UNCHANGED <<index, owed>>

\* A caller gives up on a request that has not taken effect.
GiveUp(c) ==
  /\ stage[c] = "called"
  /\ stage' = [stage EXCEPT ![c] = "threw"]
  /\ owed' \in {owed, owed \cup {request[c]}}
  /\ request' = [request EXCEPT ![c] = NoRequest]
  /\ UNCHANGED index

TakeEffectLate(o) ==
  /\ owed' = owed \ {o}
  /\ index' \in Effects(o, index) \cup PartialEffects(o, index)
  /\ UNCHANGED <<stage, request>>

\* A commit of Solr's own, a new searcher, a restart.
Upkeep ==
  /\ index.loaded
  /\ \/ index' \in {Flush(index), Open(index)}
     \/ \E c \in Closed(index) : index' = Open(c)
  /\ UNCHANGED <<stage, request, owed>>

Next ==
  \/ \E c \in Clients : \/ Call(c) \/ Reject(c) \/ TakeEffect(c) \/ Spoil(c)
                        \/ Return(c) \/ Throw(c) \/ GiveUp(c)
  \/ \E o \in owed : TakeEffectLate(o)
  \/ Upkeep

Spec == Init /\ [][Next]_sVars
=============================================================================
