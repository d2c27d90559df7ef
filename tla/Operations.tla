----------------------------- MODULE Operations -----------------------------
(***************************************************************************)
(* The updates of a document type and of the core it lives in, from the    *)
(* call to the index: SolrServer, SolrBasicServer and SolrCoreAdmin, the   *)
(* commands they make (SolrNet/Commands), and Solr, which is external.     *)
(*                                                                         *)
(* Everything about a call is decided before it posts: the command is      *)
(* serialized whole, so what cannot be serialized posts nothing.  From     *)
(* then on the message is on its own: it may arrive or not, before its     *)
(* caller has given up or after, and be carried out whole or in part.      *)
(*                                                                         *)
(* A document has two texts for its key: the text of the field it was      *)
(* added with, which the field serializers made, and the text its deletion *)
(* names, which is the key's ToString.                                     *)
(***************************************************************************)
EXTENDS Index, FiniteSets

CONSTANTS
  Clients,    \* threads and processes that update the same core
  Keys,       \* the values of the unique key property
  NoKey,      \* null
  FieldText,  \* the id a document is stored under: [Keys -> Texts]
  IdText,     \* Convert.ToString of a key: [Keys -> Texts \cup {Illegal}]
  Illegal,    \* a text with characters that XML cannot hold
  Empty,      \* the empty text, Convert.ToString(null)
  NoId,       \* a document posted without its id
  Broken,     \* a body that no field serializer accepts
  Requests,   \* the calls each client makes: [Clients -> SUBSET Request]
  NoRequest,  \* no call going on
  NoMessage,  \* nothing posted
  MaxAdrift   \* bound on the messages whose caller has given up

Document == [key : Keys \cup {NoKey}, body : Bodies]

Request ==
  [op : {"add"}, docs : Seq(Document), overwrite : Flag]
  \cup [op : {"delete doc", "delete docs"}, docs : Seq(Document)]
  \cup [op : {"delete"}, ids : Seq(Texts), query : SUBSET Bodies]
  \cup [op : {"commit", "optimize"}, waitSearcher : Flag]
  \cup [op : {"extract"}, id : Texts, body : Bodies, idField : BOOLEAN,
        autoCommit : BOOLEAN, extractOnly : BOOLEAN]
  \cup [op : {"unload"}, delete : Kind]
  \cup [op : {"unload flag"}, deleteIndex : BOOLEAN]
  \cup [op : {"rollback", "create", "reload"}]

\* What is posted, or sent by GET to /admin/cores.
Message ==
  [cmd : {"add"}, docs : Seq([id : Texts \cup {NoId}, body : Bodies]), overwrite : Flag]
  \cup [cmd : {"delete"}, ids : Seq(Texts), query : SUBSET Bodies]
  \cup [cmd : {"commit", "optimize"}, waitSearcher : Flag]
  \cup [cmd : {"extract"}, id : Texts, body : Bodies, commit : BOOLEAN, extractOnly : BOOLEAN]
  \cup [cmd : {"UNLOAD"}, delete : Kind]
  \cup [cmd : {"rollback", "CREATE", "RELOAD"}]

ASSUME OperationsAssumption ==
  /\ FieldText \in [Keys -> Texts]
  /\ IdText \in [Keys -> Texts \cup {Illegal}]
  /\ Illegal \notin Texts /\ NoId \notin Texts /\ NoKey \notin Keys
  /\ Empty \in Texts
  /\ NoMessage \notin Message
  /\ NoRequest \notin Request
  /\ Requests \in [Clients -> SUBSET Request]
  \* One document is deleted at a time by "delete doc".
  /\ \A c \in Clients : \A o \in Requests[c] : o.op = "delete doc" => Len(o.docs) = 1

VARIABLES
  keyed,   \* whether the document type has a unique key
  index,   \* Solr's
  calls,   \* [Clients -> the call a client is in, or how the last one ended]
  adrift,  \* the messages still on their way without a caller
  held     \* history: what was written when the call began, and stayed so

vars == <<keyed, index, calls, adrift, held>>

Phases == {"posted", "answered", "refused", "returned", "threw"}

Over(phase) == [phase |-> phase, request |-> NoRequest, message |-> NoMessage]

TypeOK ==
  /\ keyed \in BOOLEAN
  /\ index \in Contents
  /\ calls \in [Clients -> [phase : Phases, request : Request \cup {NoRequest},
                            message : Message \cup {NoMessage}]]
  /\ adrift \subseteq [request : Request, message : Message]
  /\ held \in [Clients -> SUBSET Stored]

Init ==
  /\ keyed \in BOOLEAN
  /\ index = [loaded |-> TRUE, written |-> {}, committed |-> {}, searched |-> {}]
  /\ calls = [c \in Clients |-> Over("returned")]
  /\ adrift = {}
  /\ held = [c \in Clients |-> {}]

-----------------------------------------------------------------------------
(* The client's side *)

\* A field without a text for a null key property.
Serialized_null(d) ==
  [id |-> IF d.key = NoKey THEN NoKey ELSE FieldText[d.key], body |-> d.body]

\* A null key property makes no field.
Serialized(d) ==
  [id |-> IF d.key = NoKey THEN NoId ELSE FieldText[d.key], body |-> d.body]

\* Convert.ToString makes an empty text of null.
Named(d) == IF d.key = NoKey THEN Empty ELSE IdText[d.key]

\* What ends a call before anything is posted.
Throws(o) ==
  \/ o.op = "add" /\ \E i \in DOMAIN o.docs : o.docs[i].body = Broken
  \/ /\ o.op \in {"delete doc", "delete docs"}
     /\ \E i \in DOMAIN o.docs :
          \/ ~keyed
          \/ o.op = "delete doc" /\ o.docs[i].key = NoKey
          \/ Named(o.docs[i]) = Illegal
  \/ o.op = "extract" /\ o.idField

AddMessage(o) ==
  [cmd |-> "add", docs |-> [i \in DOMAIN o.docs |-> Serialized(o.docs[i])],
   overwrite |-> o.overwrite]

DeleteMessage(o) ==
  IF o.op = "delete" THEN [cmd |-> "delete", ids |-> o.ids, query |-> o.query]
  ELSE [cmd |-> "delete", ids |-> [i \in DOMAIN o.docs |-> Named(o.docs[i])], query |-> {}]

\* With options that are false where nothing is said.
CommitMessage_noWait(o) ==
  [cmd |-> o.op, waitSearcher |-> IF o.waitSearcher = "true" THEN "true" ELSE "false"]
CommitMessage(o) == [cmd |-> o.op, waitSearcher |-> o.waitSearcher]

\* As if every overload were the one with deleteIndex.
UnloadMessage_index(o) == [cmd |-> "UNLOAD", delete |-> "index"]
UnloadMessage(o) ==
  [cmd |-> "UNLOAD", delete |-> IF o.op = "unload flag" THEN "index" ELSE o.delete]

Command(o) ==
  CASE o.op = "add" -> AddMessage(o)
    [] o.op \in {"delete doc", "delete docs", "delete"} -> DeleteMessage(o)
    [] o.op \in {"commit", "optimize"} -> CommitMessage(o)
    [] o.op = "rollback" -> [cmd |-> "rollback"]
    [] o.op = "extract" ->
         [cmd |-> "extract", id |-> o.id, body |-> o.body, commit |-> o.autoCommit,
          extractOnly |-> o.extractOnly]
    [] o.op \in {"unload", "unload flag"} -> UnloadMessage(o)
    [] o.op = "create" -> [cmd |-> "CREATE"]
    [] o.op = "reload" -> [cmd |-> "RELOAD"]

Post(c, o) ==
  /\ calls[c].phase \in {"returned", "threw"}
  /\ ~Throws(o)
  /\ calls' = [calls EXCEPT ![c] = [phase |-> "posted", request |-> o, message |-> Command(o)]]
  /\ held' = [held EXCEPT ![c] = index.written]
  /\ UNCHANGED <<keyed, index, adrift>>

Reject(c, o) ==
  /\ calls[c].phase \in {"returned", "threw"}
  /\ Throws(o)
  /\ calls' = [calls EXCEPT ![c] = Over("threw")]
  /\ UNCHANGED <<keyed, index, adrift, held>>

End(c, phase) ==
  /\ calls' = [calls EXCEPT ![c] = Over(phase)]
  /\ held' = [held EXCEPT ![c] = {}]
  /\ UNCHANGED <<keyed, index>>

Return(c) ==
  /\ calls[c].phase = "answered"
  /\ End(c, "returned")
  /\ UNCHANGED adrift

\* An error status, an answer that is lost or is no XML.
Throw(c) ==
  /\ calls[c].phase \in {"answered", "refused"}
  /\ End(c, "threw")
  /\ UNCHANGED adrift

\* The message never arrives.
Lose(c) ==
  /\ calls[c].phase = "posted"
  /\ End(c, "threw")
  /\ UNCHANGED adrift

\* The message is late.
TimeOut(c) ==
  /\ calls[c].phase = "posted"
  /\ Cardinality(adrift) < MaxAdrift
  /\ End(c, "threw")
  /\ adrift' = adrift \cup {[request |-> calls[c].request, message |-> calls[c].message]}

-----------------------------------------------------------------------------
(* Solr's side *)

\* A core that is loaded serves requests.  One may be created over it, which
\* later versions of Solr refuse (Refuse).
Served(m) == index.loaded \/ m.cmd = "CREATE"

\* What Solr makes of a message it accepts.
Carried(m) ==
  CASE m.cmd = "add" ->
         IF \E i \in DOMAIN m.docs : m.docs[i].id = NoId THEN {}
         ELSE {Write(index, m.docs, m.overwrite)}
    [] m.cmd = "delete" -> {Remove(index, {m.ids[i] : i \in DOMAIN m.ids}, m.query)}
    [] m.cmd \in {"commit", "optimize"} -> {Commit(index, m.waitSearcher)}
    [] m.cmd = "rollback" -> {Discard(index)}
    [] m.cmd = "extract" ->
         IF m.extractOnly THEN {index}
         ELSE LET added == Write(index, <<[id |-> m.id, body |-> m.body]>>, "true")
              IN {IF m.commit THEN Commit(added, "true") ELSE added}
    [] m.cmd = "UNLOAD" -> Unload(index, m.delete)
    [] m.cmd = "CREATE" -> Create(index)
    [] m.cmd = "RELOAD" -> TakeOver(index)

\* The documents or ids of a message are worked off one by one, and a commit
\* comes before the new searcher: the parts a refused message can leave done.
Beginnings(m) ==
  CASE m.cmd = "add" -> {[m EXCEPT !.docs = SubSeq(m.docs, 1, n)] : n \in 0..Len(m.docs)}
    [] m.cmd = "delete" ->
         {[m EXCEPT !.ids = SubSeq(m.ids, 1, n), !.query = {}] : n \in 0..Len(m.ids)}
    [] m.cmd \in {"commit", "optimize"} -> {[m EXCEPT !.waitSearcher = "false"]}
    [] m.cmd = "extract" /\ ~m.extractOnly -> {[m EXCEPT !.commit = FALSE]}
    [] OTHER -> {}

Spoilt(m) ==
  {index} \cup IF Served(m) THEN UNION {Carried(b) : b \in Beginnings(m)} ELSE {}

\* What stayed written all along, over a step of the index.
Holding == held' = [c \in Clients |-> held[c] \cap index'.written]

Answer(c, phase) == calls' = [calls EXCEPT ![c].phase = phase]

Arrive(c) ==
  /\ calls[c].phase = "posted"
  /\ Served(calls[c].message)
  /\ index' \in Carried(calls[c].message)
  /\ Answer(c, "answered")
  /\ Holding
  /\ UNCHANGED <<keyed, adrift>>

Refuse(c) ==
  /\ calls[c].phase = "posted"
  /\ index' \in Spoilt(calls[c].message)
  /\ Answer(c, "refused")
  /\ Holding
  /\ UNCHANGED <<keyed, adrift>>

Land(a) ==
  /\ adrift' = adrift \ {a}
  /\ \/ Served(a.message) /\ index' \in Carried(a.message)
     \/ index' \in Spoilt(a.message)
  /\ Holding
  /\ UNCHANGED <<keyed, calls>>

\* autoCommit and commitWithin.
CommitItself ==
  /\ index.loaded
  /\ index' = Flush(index)
  /\ Holding
  /\ UNCHANGED <<keyed, calls, adrift>>

OpenSearcher ==
  /\ index.loaded
  /\ index' = Open(index)
  /\ Holding
  /\ UNCHANGED <<keyed, calls, adrift>>

Restart ==
  /\ index.loaded
  /\ \E c \in Closed(index) : index' = Open(c)
  /\ Holding
  /\ UNCHANGED <<keyed, calls, adrift>>

Next ==
  \/ \E c \in Clients :
       \/ \E o \in Requests[c] : Post(c, o) \/ Reject(c, o)
       \/ Return(c) \/ Throw(c) \/ Lose(c) \/ TimeOut(c)
       \/ Arrive(c) \/ Refuse(c)
  \/ \E a \in adrift : Land(a)
  \/ CommitItself
  \/ OpenSearcher
  \/ Restart

Spec == Init /\ [][Next]_vars

-----------------------------------------------------------------------------
(* Properties *)

\* A commit or an optimize that waits for a new searcher, which is what one
\* without options does, shows everything that was written when it was called
\* and has stayed so, whatever the other clients, late messages and Solr's own
\* commits, restarts and reloads do meanwhile.
CommitShows ==
  \A c \in Clients :
    /\ calls[c].phase = "answered"
    /\ calls[c].request.op \in {"commit", "optimize"}
    /\ calls[c].request.waitSearcher # "false"
    /\ index.loaded
    => held[c] \subseteq index.searched

\* The requests of an application whose calls keep what the interfaces promise:
\* it deletes by documents that have a key, of a type whose two texts are one
\* (those of dates, of booleans, of fractions where the culture writes a comma
\* and of texts with control characters are not), and leaves Unload(coreName,
\* false) alone, which deletes the index (SolrCoreAdmin.cs:143) although it is
\* told not to (line 140).  The last two properties are about the deletions.
Kept(o) ==
  /\ o.op \in {"delete doc", "delete docs"} => \A i \in DOMAIN o.docs :
       IF o.docs[i].key = NoKey THEN o.op = "delete doc"
       ELSE IdText[o.docs[i].key] \in {FieldText[o.docs[i].key], Illegal}
  /\ o.op = "unload flag" => o.deleteIndex

\* The operations keep the promise of DocumentStore, as long as all requests are
\* Kept: whatever is lost, late or refused, a request has its own effect, once
\* at most, and has had it when its call returns.
Store == INSTANCE DocumentStore WITH
  Identity <- FieldText,
  stage <- [c \in Clients |-> IF calls[c].phase = "posted" THEN "called"
                              ELSE IF calls[c].phase = "answered" THEN "done"
                              ELSE IF calls[c].phase = "refused" THEN "failed"
                              ELSE calls[c].phase],
  request <- [c \in Clients |-> calls[c].request],
  owed <- {a.request : a \in adrift}
StoreSpec == Store!Spec

\* Documents deleted by Delete(doc) or Delete(docs) are gone when the call has
\* been carried out, unless somebody wrote them again (ISolrOperations.cs:153).
DeletedAreGone ==
  \A c \in Clients :
    /\ calls[c].phase = "answered"
    /\ calls[c].request.op \in {"delete doc", "delete docs"}
    => \A i \in DOMAIN calls[c].request.docs :
         LET key == calls[c].request.docs[i].key
         IN key # NoKey => \A d \in held[c] : d.id # FieldText[key]

\* Delete(doc) and Delete(docs) throw if a document has a null unique key, and
\* so are never carried out (ISolrOperations.cs:157 and 174).
NullKeysThrow ==
  \A c \in Clients :
    /\ calls[c].phase = "answered"
    /\ calls[c].request.op \in {"delete doc", "delete docs"}
    => \A i \in DOMAIN calls[c].request.docs : calls[c].request.docs[i].key # NoKey
=============================================================================
