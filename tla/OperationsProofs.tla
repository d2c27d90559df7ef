-------------------------- MODULE OperationsProofs --------------------------
(***************************************************************************)
(* Proofs about Operations, for any clients, keys, documents and requests: *)
(* what a commit shows rests on the index alone, whose operations all keep *)
(* what is committed and searched in step with what stays written; and     *)
(* what a message does is what its request means, in whole and in part.    *)
(***************************************************************************)
EXTENDS Operations, SequenceTheorems, TLAPS

\* A document that the next searcher will find, and so does the present one.
Shown(d, ix) == d \in ix.committed /\ (ix.loaded => d \in ix.searched)

\* A step of the index leaves a shown document shown, unless it removes it.
Keeps(ix, jx) == \A d \in ix.written \cap jx.written : Shown(d, ix) => Shown(d, jx)

Sound(ix, jx) == jx \in Contents /\ Keeps(ix, jx)

-----------------------------------------------------------------------------
(* The index *)

\* Commits, searchers, rollbacks and crashes keep what is shown.
LEMMA UpkeepIsSound ==
  ASSUME NEW ix \in Contents
  PROVE  /\ Sound(ix, ix) /\ Sound(ix, Flush(ix)) /\ Sound(ix, Open(ix))
         /\ Sound(ix, Discard(ix)) /\ Sound(ix, Load(ix))
         /\ \A w \in Flag : Sound(ix, Commit(ix, w))
         /\ \A c \in Closed(ix) : Sound(ix, Open(c))
         /\ \A jx \in TakeOver(ix) \cup Create(ix) : Sound(ix, jx)
<1> USE DEF Contents, Sound, Keeps, Shown
<1>1. /\ Sound(ix, ix) /\ Sound(ix, Flush(ix)) /\ Sound(ix, Open(ix))
      /\ Sound(ix, Discard(ix)) /\ Sound(ix, Load(ix))
  BY DEF Flush, Open, Discard, Load
<1>2. \A w \in Flag : Sound(ix, Commit(ix, w))
  BY DEF Commit, Flush, Open
<1>3. \A c \in Closed(ix) : Sound(ix, Open(c))
  BY DEF Closed, Flush, Discard, Open
<1>4. \A jx \in TakeOver(ix) : Sound(ix, jx)
  <2> HIDE DEF Sound
  <2> QED
    BY <1>1, <1>3 DEF TakeOver
<1>5. \A jx \in Create(ix) : Sound(ix, jx)
  <2> HIDE DEF Sound
  <2> QED
    BY <1>1, <1>4 DEF Create
<1> QED
  BY <1>1, <1>2, <1>3, <1>4, <1>5

\* So does an unloaded core, which keeps all it had or nothing.
LEMMA UnloadIsSound ==
  ASSUME NEW ix \in Contents, NEW delete, NEW jx \in Unload(ix, delete)
  PROVE  Sound(ix, jx)
<1>1. PICK c \in Closed(ix) :
        jx = [loaded |-> FALSE, searched |-> {},
              written |-> IF delete = "none" THEN c.written ELSE {},
              committed |-> IF delete = "none" THEN c.written ELSE {}]
  BY DEF Unload
<1>2. c.written \subseteq Stored
  BY DEF Closed, Flush, Discard, Contents
<1> QED
  BY <1>1, <1>2 DEF Contents, Sound, Keeps, Shown

\* Documents that have an id are written, and nothing else is touched.
LEMMA WriteIsSound ==
  ASSUME NEW ix \in Contents, NEW docs, NEW overwrite,
         \A i \in DOMAIN docs : docs[i] \in Stored
  PROVE  /\ Sound(ix, Write(ix, docs, overwrite))
         /\ Sound(ix, Commit(Write(ix, docs, overwrite), "true"))
<1> DEFINE jx == Write(ix, docs, overwrite)
<1>1. PICK W \in SUBSET Stored : jx = [ix EXCEPT !.written = W]
  BY DEF Write, Contents
<1> HIDE DEF jx
<1> QED
  BY <1>1 DEF jx, Contents, Sound, Keeps, Shown, Commit, Flush, Open

\* Documents are removed, and nothing else is touched.
LEMMA RemoveIsSound ==
  ASSUME NEW ix \in Contents, NEW ids, NEW bodies
  PROVE  Sound(ix, Remove(ix, ids, bodies))
BY DEF Remove, Contents, Sound, Keeps, Shown

-----------------------------------------------------------------------------
(* Messages *)

\* The fields a message has, by its kind.
LEMMA MessageKinds ==
  ASSUME NEW m \in Message
  PROVE  /\ m.cmd \in {"add", "delete", "commit", "optimize", "rollback", "extract",
                       "UNLOAD", "CREATE", "RELOAD"}
         /\ m.cmd = "add" =>
              m \in [cmd : {"add"}, docs : Seq([id : Texts \cup {NoId}, body : Bodies]),
                     overwrite : Flag]
         /\ m.cmd = "delete" =>
              m \in [cmd : {"delete"}, ids : Seq(Texts), query : SUBSET Bodies]
         /\ m.cmd \in {"commit", "optimize"} =>
              m \in [cmd : {"commit", "optimize"}, waitSearcher : Flag]
         /\ m.cmd = "extract" =>
              m \in [cmd : {"extract"}, id : Texts, body : Bodies, commit : BOOLEAN,
                     extractOnly : BOOLEAN]
         /\ m.cmd = "UNLOAD" => m \in [cmd : {"UNLOAD"}, delete : Kind]
BY DEF Message

\* A prefix of a sequence.
LEMMA Prefixes ==
  ASSUME NEW S, NEW s \in Seq(S), NEW n \in 0..Len(s)
  PROVE  /\ SubSeq(s, 1, n) \in Seq(S)
         /\ DOMAIN SubSeq(s, 1, n) = 1..n
         /\ 1..n \subseteq DOMAIN s
         /\ \A i \in 1..n : SubSeq(s, 1, n)[i] = s[i]
<1>1. Len(s) \in Nat /\ DOMAIN s = 1..Len(s) /\ \A i \in 1..n : s[i] \in S
  BY LenProperties, ElementOfSeq
<1>2. /\ SubSeq(s, 1, n) \in Seq(S)
      /\ Len(SubSeq(s, 1, n)) = IF 1 <= n THEN n - 1 + 1 ELSE 0
      /\ \A i \in 1..(n - 1 + 1) : SubSeq(s, 1, n)[i] = s[1 + i - 1]
  <2>1. 1 \in Int /\ n \in Int
    BY <1>1
  <2> QED
    BY <1>1, <2>1, SubSeqProperties
<1>3. Len(SubSeq(s, 1, n)) = n
  BY <1>1, <1>2
<1>4. DOMAIN SubSeq(s, 1, n) = 1..n
  BY <1>2, <1>3, LenProperties
<1> QED
  BY <1>1, <1>2, <1>4

\* What is left to do of a message is a message.
LEMMA BeginningsAreMessages ==
  ASSUME NEW m \in Message, NEW b \in Beginnings(m)
  PROVE  b \in Message
<1>1. CASE m.cmd = "add"
  <2>1. m \in [cmd : {"add"}, docs : Seq([id : Texts \cup {NoId}, body : Bodies]),
               overwrite : Flag]
    BY <1>1, MessageKinds
  <2>2. PICK n \in 0..Len(m.docs) : b = [m EXCEPT !.docs = SubSeq(m.docs, 1, n)]
    BY <1>1 DEF Beginnings
  <2>3. SubSeq(m.docs, 1, n) \in Seq([id : Texts \cup {NoId}, body : Bodies])
    BY <2>1, <2>2, Prefixes
  <2> QED
    BY <2>1, <2>2, <2>3 DEF Message
<1>2. CASE m.cmd = "delete"
  <2>1. m \in [cmd : {"delete"}, ids : Seq(Texts), query : SUBSET Bodies]
    BY <1>2, MessageKinds
  <2>2. PICK n \in 0..Len(m.ids) : b = [m EXCEPT !.ids = SubSeq(m.ids, 1, n), !.query = {}]
    BY <1>2 DEF Beginnings
  <2>3. SubSeq(m.ids, 1, n) \in Seq(Texts)
    BY <2>1, <2>2, Prefixes
  <2> QED
    BY <2>1, <2>2, <2>3 DEF Message
<1>3. CASE m.cmd \in {"commit", "optimize"}
  <2>1. m \in [cmd : {"commit", "optimize"}, waitSearcher : Flag]
    BY <1>3, MessageKinds
  <2>2. b = [m EXCEPT !.waitSearcher = "false"]
    BY <1>3 DEF Beginnings
  <2> QED
    BY <2>1, <2>2 DEF Message, Flag
<1>4. CASE m.cmd = "extract" /\ ~m.extractOnly
  <2>1. m \in [cmd : {"extract"}, id : Texts, body : Bodies, commit : BOOLEAN,
               extractOnly : BOOLEAN]
    BY <1>4, MessageKinds
  <2>2. b = [m EXCEPT !.commit = FALSE]
    BY <1>4 DEF Beginnings
  <2> QED
    BY <2>1, <2>2 DEF Message
<1>5. CASE m.cmd \notin {"add", "delete", "commit", "optimize"} /\ ~(m.cmd = "extract" /\ ~m.extractOnly)
  <2>1. Beginnings(m) = {}
    BY <1>5 DEF Beginnings
  <2> QED
    BY <2>1
<1> QED
  BY <1>1, <1>2, <1>3, <1>4, <1>5
\* Whatever Solr makes of a message it accepts, and of one it refuses, keeps
\* what is shown.
LEMMA CarriedIsSound ==
  ASSUME index \in Contents, NEW m \in Message, NEW jx \in Carried(m)
  PROVE  Sound(index, jx)
<1>1. CASE m.cmd = "add"
  <2>1. m.docs \in Seq([id : Texts \cup {NoId}, body : Bodies])
    BY <1>1, MessageKinds
  <2>2. /\ \A i \in DOMAIN m.docs : m.docs[i].id # NoId
        /\ jx = Write(index, m.docs, m.overwrite)
    BY <1>1 DEF Carried
  <2>3. \A i \in DOMAIN m.docs : m.docs[i] \in Stored
    <3> SUFFICES ASSUME NEW i \in DOMAIN m.docs PROVE m.docs[i] \in Stored
      OBVIOUS
    <3>1. m.docs[i] \in [id : Texts \cup {NoId}, body : Bodies]
      BY <2>1, LenProperties, ElementOfSeq
    <3> QED
      BY <2>2, <3>1 DEF Stored
  <2> QED
    BY <2>2, <2>3, WriteIsSound
<1>2. CASE m.cmd = "delete"
  BY <1>2, RemoveIsSound DEF Carried
<1>3. CASE m.cmd \in {"commit", "optimize"}
  <2>1. m.waitSearcher \in Flag
    BY <1>3, MessageKinds
  <2> QED
    BY <1>3, <2>1, UpkeepIsSound DEF Carried
<1>4. CASE m.cmd = "rollback"
  BY <1>4, UpkeepIsSound DEF Carried
<1>5. CASE m.cmd = "extract"
  <2>1. m \in [cmd : {"extract"}, id : Texts, body : Bodies, commit : BOOLEAN,
               extractOnly : BOOLEAN]
    BY <1>5, MessageKinds
  <2> DEFINE docs == <<[id |-> m.id, body |-> m.body]>>
  <2>2. \A i \in DOMAIN docs : docs[i] \in Stored
    BY <2>1 DEF Stored
  <2>3. \/ jx = index
        \/ jx = Write(index, docs, "true")
        \/ jx = Commit(Write(index, docs, "true"), "true")
    BY <1>5, <2>1 DEF Carried
  <2> HIDE DEF docs
  <2> QED
    BY <2>2, <2>3, WriteIsSound, UpkeepIsSound
<1>6. CASE m.cmd = "UNLOAD"
  BY <1>6, UnloadIsSound DEF Carried
<1>7. CASE m.cmd = "CREATE"
  BY <1>7, UpkeepIsSound DEF Carried
<1>8. CASE m.cmd = "RELOAD"
  BY <1>8, UpkeepIsSound DEF Carried
<1> QED
  BY <1>1, <1>2, <1>3, <1>4, <1>5, <1>6, <1>7, <1>8, MessageKinds

LEMMA SpoiltIsSound ==
  ASSUME index \in Contents, NEW m \in Message, NEW jx \in Spoilt(m)
  PROVE  Sound(index, jx)
<1>1. CASE jx = index
  BY <1>1, UpkeepIsSound
<1>2. CASE jx # index
  <2>1. PICK b \in Beginnings(m) : jx \in Carried(b)
    BY <1>2 DEF Spoilt
  <2>2. b \in Message
    BY BeginningsAreMessages
  <2> QED
    BY <2>1, <2>2, CarriedIsSound
<1> QED
  BY <1>1, <1>2

-----------------------------------------------------------------------------
(* Requests *)

\* The arguments a request has, by its kind.
LEMMA RequestKinds ==
  ASSUME NEW o \in Request
  PROVE  /\ o.op \in {"add", "delete doc", "delete docs", "delete", "commit", "optimize",
                      "rollback", "extract", "unload", "unload flag", "create", "reload"}
         /\ o.op = "add" => o \in [op : {"add"}, docs : Seq(Document), overwrite : Flag]
         /\ o.op \in {"delete doc", "delete docs"} =>
              o \in [op : {"delete doc", "delete docs"}, docs : Seq(Document)]
         /\ o.op = "delete" =>
              o \in [op : {"delete"}, ids : Seq(Texts), query : SUBSET Bodies]
         /\ o.op \in {"commit", "optimize"} =>
              o \in [op : {"commit", "optimize"}, waitSearcher : Flag]
         /\ o.op = "extract" =>
              o \in [op : {"extract"}, id : Texts, body : Bodies, idField : BOOLEAN,
                     autoCommit : BOOLEAN, extractOnly : BOOLEAN]
         /\ o.op = "unload" => o \in [op : {"unload"}, delete : Kind]
         /\ o.op = "unload flag" => o \in [op : {"unload flag"}, deleteIndex : BOOLEAN]
BY DEF Request

\* A document that does not throw has texts that can be posted.
LEMMA TextsOfDocuments ==
  ASSUME NEW d \in Document
  PROVE  /\ Serialized(d) \in [id : Texts \cup {NoId}, body : Bodies]
         /\ Serialized(d).id = NoId <=> d.key = NoKey
         /\ d.key # NoKey => Serialized(d) = [id |-> FieldText[d.key], body |-> d.body]
         /\ Named(d) # Illegal => Named(d) \in Texts
<1>1. d.key \in Keys \cup {NoKey} /\ d.body \in Bodies
  BY DEF Document
<1>2. CASE d.key = NoKey
  BY <1>1, <1>2, OperationsAssumption DEF Serialized, Named
<1>3. CASE d.key # NoKey
  <2>1. FieldText[d.key] \in Texts /\ IdText[d.key] \in Texts \cup {Illegal}
    BY <1>1, <1>3, OperationsAssumption
  <2>2. FieldText[d.key] # NoId
    BY <2>1, OperationsAssumption
  <2> QED
    BY <1>1, <1>3, <2>1, <2>2 DEF Serialized, Named
<1> QED
  BY <1>2, <1>3

\* The command of a request that does not throw is a message.
LEMMA CommandIsMessage ==
  ASSUME NEW o \in Request, ~Throws(o)
  PROVE  Command(o) \in Message
<1>1. CASE o.op = "add"
  <2>1. o \in [op : {"add"}, docs : Seq(Document), overwrite : Flag]
    BY <1>1, RequestKinds
  <2> DEFINE docs == [i \in DOMAIN o.docs |-> Serialized(o.docs[i])]
  <2>2. docs \in Seq([id : Texts \cup {NoId}, body : Bodies])
    <3>1. Len(o.docs) \in Nat /\ DOMAIN o.docs = 1..Len(o.docs)
      BY <2>1, LenProperties
    <3>2. \A i \in 1..Len(o.docs) : o.docs[i] \in Document
      BY <2>1, ElementOfSeq
    <3>3. docs \in [1..Len(o.docs) -> [id : Texts \cup {NoId}, body : Bodies]]
      BY <3>1, <3>2, TextsOfDocuments
    <3> QED
      BY <3>1, <3>3, SeqDef
  <2>3. Command(o) = [cmd |-> "add", docs |-> docs, overwrite |-> o.overwrite]
    BY <1>1 DEF Command, AddMessage
  <2> HIDE DEF docs
  <2> QED
    BY <2>1, <2>2, <2>3 DEF Message
<1>2. CASE o.op \in {"delete doc", "delete docs"}
  <2>1. o \in [op : {"delete doc", "delete docs"}, docs : Seq(Document)]
    BY <1>2, RequestKinds
  <2> DEFINE ids == [i \in DOMAIN o.docs |-> Named(o.docs[i])]
  <2>2. \A i \in DOMAIN o.docs : Named(o.docs[i]) # Illegal
    BY <1>2 DEF Throws
  <2>3. ids \in Seq(Texts)
    <3>1. Len(o.docs) \in Nat /\ DOMAIN o.docs = 1..Len(o.docs)
      BY <2>1, LenProperties
    <3>2. \A i \in 1..Len(o.docs) : o.docs[i] \in Document
      BY <2>1, ElementOfSeq
    <3>3. ids \in [1..Len(o.docs) -> Texts]
      BY <2>2, <3>1, <3>2, TextsOfDocuments
    <3> QED
      BY <3>1, <3>3, SeqDef
  <2>4. Command(o) = [cmd |-> "delete", ids |-> ids, query |-> {}]
    BY <1>2 DEF Command, DeleteMessage
  <2> HIDE DEF ids
  <2> QED
    BY <2>3, <2>4 DEF Message
<1>3. CASE o.op = "delete"
  BY <1>3, RequestKinds DEF Command, DeleteMessage, Message
<1>4. CASE o.op \in {"commit", "optimize"}
  BY <1>4, RequestKinds DEF Command, CommitMessage, Message
<1>5. CASE o.op = "extract"
  BY <1>5, RequestKinds DEF Command, Message
<1>6. CASE o.op = "unload"
  BY <1>6, RequestKinds DEF Command, UnloadMessage, Message
<1>7. CASE o.op = "unload flag"
  BY <1>7 DEF Command, UnloadMessage, Message, Kind
<1>8. CASE o.op \in {"rollback", "create", "reload"}
  BY <1>8 DEF Command, Message
<1> QED
  BY <1>1, <1>2, <1>3, <1>4, <1>5, <1>6, <1>7, <1>8, RequestKinds
-----------------------------------------------------------------------------
(* The inductive invariant *)

\* What is under way is the command of a request that could be serialized.
AsAsked(r) == ~Throws(r.request) /\ r.message = Command(r.request)

InCall ==
  \A c \in Clients :
    \/ calls[c].phase \in {"returned", "threw"} /\ calls[c] = Over(calls[c].phase)
    \/ /\ calls[c].phase \in {"posted", "answered", "refused"}
       /\ calls[c].request \in Requests[c]
       /\ AsAsked(calls[c])

Adrift == \A a \in adrift : AsAsked(a) /\ \E c \in Clients : a.request \in Requests[c]

HeldIsWritten == \A c \in Clients : held[c] \subseteq index.written

\* A commit that waits for its searcher.
Waits(o) == o.op \in {"commit", "optimize"} /\ o.waitSearcher # "false"

HeldIsShown ==
  \A c \in Clients : calls[c].phase = "answered" /\ Waits(calls[c].request) =>
    \A d \in held[c] : Shown(d, index)

IInv == TypeOK /\ InCall /\ Adrift /\ HeldIsWritten /\ HeldIsShown

\* Initially the index is empty and nobody calls.
LEMMA InitIInv == Init => IInv
<1> SUFFICES ASSUME Init PROVE IInv
  OBVIOUS
<1>1. TypeOK
  BY DEF Init, TypeOK, Contents, Over, Phases
<1>2. InCall /\ Adrift /\ HeldIsWritten /\ HeldIsShown
  BY DEF Init, InCall, Adrift, HeldIsWritten, HeldIsShown, Over
<1> QED
  BY <1>1, <1>2 DEF IInv

LEMMA PostPreserves ==
  ASSUME IInv, NEW c \in Clients, NEW o \in Requests[c], Post(c, o)
  PROVE  IInv'
<1> USE DEF IInv, Post
<1>1. o \in Request
  BY OperationsAssumption
<1>2. Command(o) \in Message
  BY <1>1, CommandIsMessage
<1>3. TypeOK'
  BY <1>1, <1>2 DEF TypeOK, Phases, Contents
<1>4. InCall'
  <2> SUFFICES ASSUME NEW b \in Clients
               PROVE  (\/ calls[b].phase \in {"returned", "threw"} /\ calls[b] = Over(calls[b].phase)
                       \/ /\ calls[b].phase \in {"posted", "answered", "refused"}
                          /\ calls[b].request \in Requests[b]
                          /\ AsAsked(calls[b]))'
    BY DEF InCall
  <2>1. CASE b = c
    BY <2>1 DEF TypeOK, AsAsked, Throws
  <2>2. CASE b # c
    BY <2>2 DEF TypeOK, InCall, AsAsked, Throws
  <2> QED
    BY <2>1, <2>2
<1>5. Adrift'
  BY DEF Adrift, AsAsked, Throws
<1>6. HeldIsWritten' /\ HeldIsShown'
  BY DEF TypeOK, HeldIsWritten, HeldIsShown
<1> QED
  BY <1>3, <1>4, <1>5, <1>6

LEMMA RejectPreserves ==
  ASSUME IInv, NEW c \in Clients, NEW o \in Requests[c], Reject(c, o)
  PROVE  IInv'
<1> USE DEF IInv, Reject, Over
<1>1. TypeOK'
  BY DEF TypeOK, Phases, Contents
<1>2. InCall'
  BY DEF TypeOK, InCall, AsAsked, Throws
<1>3. Adrift'
  BY DEF Adrift, AsAsked, Throws
<1>4. HeldIsWritten' /\ HeldIsShown'
  BY DEF TypeOK, HeldIsWritten, HeldIsShown
<1> QED
  BY <1>1, <1>2, <1>3, <1>4

\* A call ends; a message that is late goes on alone.
LEMMA EndPreserves ==
  ASSUME IInv, NEW c \in Clients, NEW phase \in {"returned", "threw"}, End(c, phase),
         \/ adrift' = adrift
         \/ /\ calls[c].phase = "posted"
            /\ adrift' = adrift \cup {[request |-> calls[c].request, message |-> calls[c].message]}
  PROVE  IInv'
<1> USE DEF IInv, End, Over
<1>0. calls[c].phase = "posted" =>
        /\ calls[c].request \in Requests[c] /\ AsAsked(calls[c])
        /\ calls[c].request \in Request /\ calls[c].message \in Message
  <2>1. calls[c].phase = "posted" => calls[c].request \in Requests[c] /\ AsAsked(calls[c])
    BY DEF InCall
  <2>2. calls[c].phase = "posted" => calls[c].request \in Request
    BY <2>1, OperationsAssumption
  <2> QED
    BY <2>1, <2>2, CommandIsMessage DEF AsAsked
<1>1. TypeOK'
  BY <1>0 DEF TypeOK, Phases, Contents
<1>2. InCall'
  BY DEF TypeOK, InCall, AsAsked, Throws
<1>3. Adrift'
  <2> SUFFICES ASSUME NEW a \in adrift'
               PROVE  AsAsked(a)' /\ \E b \in Clients : a.request \in Requests[b]
    BY DEF Adrift
  <2>1. CASE a \in adrift
    BY <2>1 DEF Adrift, AsAsked, Throws
  <2>2. CASE a \notin adrift
    <3>1. calls[c].phase = "posted"
          /\ a = [request |-> calls[c].request, message |-> calls[c].message]
      BY <2>2
    <3>2. a.request = calls[c].request /\ a.message = calls[c].message
      BY <3>1
    <3> QED
      BY <1>0, <3>1, <3>2 DEF AsAsked, Throws
  <2> QED
    BY <2>1, <2>2
<1>4. HeldIsWritten' /\ HeldIsShown'
  BY DEF TypeOK, HeldIsWritten, HeldIsShown
<1> QED
  BY <1>1, <1>2, <1>3, <1>4
\* Solr takes a sound step, and may answer some calls.
LEMMA SoundStepPreserves ==
  ASSUME IInv, Sound(index, index'), Holding, UNCHANGED keyed, adrift' \subseteq adrift,
         \/ UNCHANGED calls
         \/ \E c \in Clients :
              /\ calls[c].phase = "posted"
              /\ \/ Answer(c, "refused")
                 \/ /\ Answer(c, "answered")
                    /\ Waits(calls[c].request) => \A d \in index'.written : Shown(d, index')
  PROVE  IInv'
<1> USE DEF IInv, Answer
<1>1. TypeOK'
  BY DEF TypeOK, Phases, Sound, Holding
<1>2. InCall'
  <2> SUFFICES ASSUME NEW b \in Clients
               PROVE  (\/ calls[b].phase \in {"returned", "threw"} /\ calls[b] = Over(calls[b].phase)
                       \/ /\ calls[b].phase \in {"posted", "answered", "refused"}
                          /\ calls[b].request \in Requests[b]
                          /\ AsAsked(calls[b]))'
    BY DEF InCall
  <2>1. CASE calls'[b] = calls[b]
    <3>1. \/ calls[b].phase \in {"returned", "threw"} /\ calls[b] = Over(calls[b].phase)
          \/ /\ calls[b].phase \in {"posted", "answered", "refused"}
             /\ calls[b].request \in Requests[b]
             /\ AsAsked(calls[b])
      BY DEF InCall
    <3>2. AsAsked(calls[b]) => AsAsked(calls[b])'
      BY <2>1 DEF AsAsked, Throws
    <3>3. calls[b] = Over(calls[b].phase) => (calls[b] = Over(calls[b].phase))'
      BY <2>1 DEF Over
    <3> QED
      BY <2>1, <3>1, <3>2, <3>3
  <2>2. CASE calls'[b] # calls[b]
    <3>1. calls[b].phase = "posted" /\ calls[b] \in [phase : Phases, request : Request \cup {NoRequest},
                                                    message : Message \cup {NoMessage}]
      BY <2>2 DEF TypeOK
    <3>2. /\ calls'[b].phase \in {"answered", "refused"}
          /\ calls'[b].request = calls[b].request /\ calls'[b].message = calls[b].message
      BY <2>2, <3>1 DEF TypeOK
    <3>3. calls[b].request \in Requests[b] /\ AsAsked(calls[b])
      BY <3>1 DEF InCall
    <3>4. AsAsked(calls[b])'
      BY <3>2, <3>3 DEF AsAsked, Throws
    <3> QED
      BY <3>2, <3>3, <3>4
  <2> QED
    BY <2>1, <2>2
<1>3. Adrift'
  BY DEF Adrift, AsAsked, Throws
<1>4. HeldIsWritten'
  BY DEF Holding, HeldIsWritten
<1>5. HeldIsShown'
  <2> SUFFICES ASSUME NEW b \in Clients, calls'[b].phase = "answered",
                      Waits(calls'[b].request), NEW d \in held'[b]
               PROVE  Shown(d, index')
    BY DEF HeldIsShown
  <2>1. d \in held[b] /\ d \in index.written /\ d \in index'.written
    BY DEF Holding, HeldIsWritten
  <2>2. CASE calls'[b] = calls[b]
    BY <2>1, <2>2 DEF HeldIsShown, Sound, Keeps
  <2>3. CASE calls'[b] # calls[b]
    BY <2>1, <2>3 DEF TypeOK
  <2> QED
    BY <2>2, <2>3
<1> QED
  BY <1>1, <1>2, <1>3, <1>4, <1>5

\* A commit that waits shows all there is.
LEMMA WaitingCommits ==
  ASSUME index \in Contents, NEW o \in Request, Waits(o), NEW jx \in Carried(Command(o))
  PROVE  \A d \in jx.written : Shown(d, jx)
<1>1. Command(o) = [cmd |-> o.op, waitSearcher |-> o.waitSearcher]
  BY DEF Waits, Command, CommitMessage
<1>2. jx = Open(Flush(index))
  BY <1>1 DEF Waits, Carried, Commit
<1> QED
  BY <1>2 DEF Contents, Open, Flush, Shown

LEMMA PostedMessages ==
  ASSUME IInv, NEW c \in Clients, calls[c].phase = "posted"
  PROVE  /\ calls[c].request \in Request /\ calls[c].message \in Message
         /\ calls[c].request \in Requests[c] /\ AsAsked(calls[c])
<1>1. calls[c].request \in Requests[c] /\ AsAsked(calls[c])
  BY DEF IInv, InCall
<1>2. calls[c].request \in Request
  BY <1>1, OperationsAssumption
<1> QED
  BY <1>1, <1>2, CommandIsMessage DEF AsAsked

LEMMA StepPreserves == IInv /\ [Next]_vars => IInv'
<1> SUFFICES ASSUME IInv, [Next]_vars PROVE IInv'
  OBVIOUS
<1>0. index \in Contents
  BY DEF IInv, TypeOK
<1>1. CASE \E c \in Clients : \E o \in Requests[c] : Post(c, o) \/ Reject(c, o)
  BY <1>1, PostPreserves, RejectPreserves
<1>2. CASE \E c \in Clients : Return(c) \/ Throw(c) \/ Lose(c) \/ TimeOut(c)
  BY <1>2, EndPreserves DEF Return, Throw, Lose, TimeOut
<1>3. ASSUME NEW c \in Clients, Arrive(c) PROVE IInv'
  <2>1. Sound(index, index')
    BY <1>0, <1>3, PostedMessages, CarriedIsSound DEF Arrive
  <2>2. Waits(calls[c].request) => \A d \in index'.written : Shown(d, index')
    BY <1>0, <1>3, PostedMessages, WaitingCommits DEF Arrive, AsAsked
  <2> QED
    BY <1>3, <2>1, <2>2, SoundStepPreserves DEF Arrive
<1>4. ASSUME NEW c \in Clients, Refuse(c) PROVE IInv'
  <2>1. Sound(index, index')
    BY <1>0, <1>4, PostedMessages, SpoiltIsSound DEF Refuse
  <2> QED
    BY <1>4, <2>1, SoundStepPreserves DEF Refuse
<1>5. ASSUME NEW a \in adrift, Land(a) PROVE IInv'
  <2>1. a.message \in Message
    BY DEF IInv, TypeOK
  <2>2. Sound(index, index')
    BY <1>0, <1>5, <2>1, CarriedIsSound, SpoiltIsSound DEF Land
  <2> QED
    BY <1>5, <2>2, SoundStepPreserves DEF Land
<1>6. CASE CommitItself \/ OpenSearcher \/ Restart
  <2>1. Sound(index, index')
    BY <1>0, <1>6, UpkeepIsSound DEF CommitItself, OpenSearcher, Restart
  <2> QED
    BY <1>6, <2>1, SoundStepPreserves DEF CommitItself, OpenSearcher, Restart
<1>7. CASE UNCHANGED vars
  BY <1>7 DEF vars, IInv, TypeOK, InCall, Adrift, HeldIsWritten, HeldIsShown, AsAsked, Throws
<1> QED
  BY <1>1, <1>2, <1>3, <1>4, <1>5, <1>6, <1>7 DEF Next

\* The invariant, for any clients, requests and keys.
THEOREM Inductive == Spec => []IInv
BY InitIInv, StepPreserves, PTL DEF Spec

\* The variables keep their types: what is posted is a message, and what the
\* index holds are documents with an id.
THEOREM TypeCorrect == Spec => []TypeOK
<1>1. IInv => TypeOK
  BY DEF IInv
<1> QED
  BY <1>1, Inductive, PTL

\* A commit that waits shows what was written when it was called and has
\* stayed so (SolrBasicServer.Commit and Optimize).
THEOREM CommitsShow == Spec => []CommitShows
<1>1. IInv => CommitShows
  BY DEF IInv, HeldIsShown, Waits, Shown, CommitShows
<1> QED
  BY <1>1, Inductive, PTL
-----------------------------------------------------------------------------
(* The promise of DocumentStore, for requests that are Kept *)

\* A sequence that is made element by element is as long.
LEMMA LengthOfTexts ==
  ASSUME NEW docs \in Seq(Document)
  PROVE  /\ Len([i \in DOMAIN docs |-> Serialized(docs[i])]) = Len(docs)
         /\ Len([i \in DOMAIN docs |-> Named(docs[i])]) = Len(docs)
<1>1. Len(docs) \in Nat /\ DOMAIN docs = 1..Len(docs)
  BY LenProperties
<1> QED
  BY <1>1

\* A prefix of a sequence that is made element by element is made of a prefix.
LEMMA PrefixOfTexts ==
  ASSUME NEW docs \in Seq(Document), NEW n \in 0..Len(docs)
  PROVE  /\ SubSeq([i \in DOMAIN docs |-> Serialized(docs[i])], 1, n)
              = [i \in DOMAIN SubSeq(docs, 1, n) |-> Serialized(SubSeq(docs, 1, n)[i])]
         /\ SubSeq([i \in DOMAIN docs |-> Named(docs[i])], 1, n)
              = [i \in DOMAIN SubSeq(docs, 1, n) |-> Named(SubSeq(docs, 1, n)[i])]
<1>1. /\ DOMAIN SubSeq(docs, 1, n) = 1..n
      /\ 1..n \subseteq DOMAIN docs
      /\ \A i \in 1..n : SubSeq(docs, 1, n)[i] = docs[i]
  BY Prefixes
<1> DEFINE s == [i \in DOMAIN docs |-> Serialized(docs[i])]
           t == [i \in DOMAIN docs |-> Named(docs[i])]
<1>2. n \in Nat
  BY LenProperties
<1>3. SubSeq(s, 1, n) = [i \in 1..n |-> s[i]] /\ SubSeq(t, 1, n) = [i \in 1..n |-> t[i]]
  BY <1>2
<1> QED
  BY <1>1, <1>3

\* Both specifications have the same index.
LEMMA SameIndex ==
  /\ \A ix, docs, overwrite : Store!Write(ix, docs, overwrite) = Write(ix, docs, overwrite)
  /\ \A ix, ids, bodies : Store!Remove(ix, ids, bodies) = Remove(ix, ids, bodies)
  /\ \A ix : /\ Store!Flush(ix) = Flush(ix) /\ Store!Open(ix) = Open(ix)
             /\ Store!Discard(ix) = Discard(ix) /\ Store!Load(ix) = Load(ix)
             /\ Store!Closed(ix) = Closed(ix)
             /\ Store!TakeOver(ix) = TakeOver(ix) /\ Store!Create(ix) = Create(ix)
  /\ \A ix, w : Store!Commit(ix, w) = Commit(ix, w)
  /\ \A ix, delete : Store!Unload(ix, delete) = Unload(ix, delete)
<1>1. \A ix, docs, overwrite : Store!Write(ix, docs, overwrite) = Write(ix, docs, overwrite)
  BY DEF Store!Write, Write
<1>2. \A ix, ids, bodies : Store!Remove(ix, ids, bodies) = Remove(ix, ids, bodies)
  BY DEF Store!Remove, Remove
<1>3. \A ix : Store!Flush(ix) = Flush(ix) /\ Store!Open(ix) = Open(ix) /\ Store!Discard(ix) = Discard(ix)
  BY DEF Store!Flush, Flush, Store!Open, Open, Store!Discard, Discard
<1>4. \A ix : Store!Load(ix) = Load(ix) /\ Store!Closed(ix) = Closed(ix)
  BY <1>3 DEF Store!Load, Load, Store!Closed, Closed
<1>5. \A ix, w : Store!Commit(ix, w) = Commit(ix, w)
  BY <1>3 DEF Store!Commit, Commit
<1>6. \A ix, delete : Store!Unload(ix, delete) = Unload(ix, delete)
  BY <1>4 DEF Store!Unload, Unload
<1>7. \A ix : Store!TakeOver(ix) = TakeOver(ix)
  BY <1>3, <1>4 DEF Store!TakeOver, TakeOver
<1>8. \A ix : Store!Create(ix) = Create(ix)
  BY <1>4, <1>7 DEF Store!Create, Create
<1> QED
  BY <1>1, <1>2, <1>3, <1>4, <1>5, <1>6, <1>7, <1>8

\* Solr does with a message what the request means.
LEMMA CarriedMeans ==
  ASSUME NEW o \in Request, ~Throws(o), Kept(o), NEW jx \in Carried(Command(o))
  PROVE  jx \in Store!Meaning(o, index)
<1>1. CASE o.op = "add"
  <2>1. o.docs \in Seq(Document)
    BY <1>1, RequestKinds
  <2>2. \A i \in DOMAIN o.docs : o.docs[i] \in Document
    BY <2>1, LenProperties, ElementOfSeq
  <2> DEFINE docs == [i \in DOMAIN o.docs |-> Serialized(o.docs[i])]
  <2>3. Command(o) = [cmd |-> "add", docs |-> docs, overwrite |-> o.overwrite]
    BY <1>1 DEF Command, AddMessage
  <2>4. \A i \in DOMAIN o.docs : docs[i].id # NoId
    BY <2>3 DEF Carried
  <2>5. \A i \in DOMAIN o.docs : o.docs[i].key # NoKey
    BY <2>2, <2>4, TextsOfDocuments
  <2>6. docs = Store!Documents(o.docs)
    BY <2>2, <2>5, TextsOfDocuments DEF Store!Documents
  <2>7. jx = Write(index, docs, o.overwrite)
    BY <2>3 DEF Carried
  <2> HIDE DEF docs
  <2> QED
    BY <1>1, <2>5, <2>6, <2>7, SameIndex DEF Store!Meaning, Store!NullKey
<1>2. CASE o.op \in {"delete doc", "delete docs"}
  <2>1. o.docs \in Seq(Document)
    BY <1>2, RequestKinds
  <2>2. \A i \in DOMAIN o.docs : o.docs[i] \in Document
    BY <2>1, LenProperties, ElementOfSeq
  <2>3. \A i \in DOMAIN o.docs : Named(o.docs[i]) # Illegal
    BY <1>2 DEF Throws
  <2> DEFINE ids == [i \in DOMAIN o.docs |-> Named(o.docs[i])]
  <2>4. \A i \in DOMAIN o.docs : o.docs[i].key # NoKey
    BY <1>2 DEF Throws, Kept
  <2>5. \A i \in DOMAIN o.docs : Named(o.docs[i]) = FieldText[o.docs[i].key]
    BY <1>2, <2>3, <2>4 DEF Named, Kept
  <2>6. Command(o) = [cmd |-> "delete", ids |-> ids, query |-> {}]
    BY <1>2 DEF Command, DeleteMessage
  <2>7. jx = Remove(index, {ids[i] : i \in DOMAIN ids}, {})
    BY <2>6 DEF Carried
  <2>8. {ids[i] : i \in DOMAIN ids} = {FieldText[o.docs[i].key] : i \in DOMAIN o.docs}
    BY <2>5
  <2> HIDE DEF ids
  <2> QED
    BY <1>2, <2>4, <2>7, <2>8, SameIndex DEF Store!Meaning, Store!NullKey
<1>3. CASE o.op = "delete"
  <2>1. Command(o) = [cmd |-> "delete", ids |-> o.ids, query |-> o.query]
    BY <1>3 DEF Command, DeleteMessage
  <2> QED
    BY <1>3, <2>1, SameIndex DEF Carried, Store!Meaning
<1>4. CASE o.op \in {"commit", "optimize"}
  <2>1. Command(o) = [cmd |-> o.op, waitSearcher |-> o.waitSearcher]
    BY <1>4 DEF Command, CommitMessage
  <2>2. Command(o).cmd \in {"commit", "optimize"} /\ Command(o).waitSearcher = o.waitSearcher
    BY <1>4, <2>1
  <2>3. jx = Commit(index, o.waitSearcher)
    BY <2>2 DEF Carried
  <2>4. Store!Meaning(o, index) = {Commit(index, o.waitSearcher)}
    BY <1>4, SameIndex DEF Store!Meaning
  <2> QED
    BY <2>3, <2>4
<1>5. CASE o.op = "extract"
  <2>1. /\ Command(o).cmd = "extract" /\ Command(o).id = o.id /\ Command(o).body = o.body
        /\ Command(o).commit = o.autoCommit /\ Command(o).extractOnly = o.extractOnly
    BY <1>5 DEF Command
  <2>2. o.extractOnly \in BOOLEAN /\ o.autoCommit \in BOOLEAN
    BY <1>5, RequestKinds
  <2> DEFINE added == Write(index, <<[id |-> o.id, body |-> o.body]>>, "true")
  <2>3. /\ o.extractOnly => Carried(Command(o)) = {index}
        /\ ~o.extractOnly =>
             Carried(Command(o)) = {IF o.autoCommit THEN Commit(added, "true") ELSE added}
    BY <2>1, <2>2 DEF Carried
  <2>4. /\ o.extractOnly => Store!Meaning(o, index) = {index}
        /\ ~o.extractOnly =>
             Store!Meaning(o, index) = {IF o.autoCommit THEN Commit(added, "true") ELSE added}
    BY <1>5, <2>2, SameIndex DEF Store!Meaning
  <2> QED
    BY <2>2, <2>3, <2>4
<1>6. CASE o.op = "unload"
  <2>1. Command(o) = [cmd |-> "UNLOAD", delete |-> o.delete]
    BY <1>6 DEF Command, UnloadMessage
  <2> QED
    BY <1>6, <2>1, SameIndex DEF Carried, Store!Meaning
<1>10. CASE o.op = "unload flag"
  <2>1. Command(o) = [cmd |-> "UNLOAD", delete |-> "index"]
    BY <1>10 DEF Command, UnloadMessage
  <2>2. jx \in Unload(index, "index")
    BY <2>1 DEF Carried
  <2>3. o.deleteIndex
    BY <1>10 DEF Kept
  <2>4. Store!Meaning(o, index) = Unload(index, "index")
    BY <1>10, <2>3, SameIndex DEF Store!Meaning
  <2> QED
    BY <2>2, <2>4
<1>7. CASE o.op = "rollback"
  BY <1>7, SameIndex DEF Command, Carried, Store!Meaning
<1>8. CASE o.op = "create"
  BY <1>8, SameIndex DEF Command, Carried, Store!Meaning
<1>9. CASE o.op = "reload"
  BY <1>9, SameIndex DEF Command, Carried, Store!Meaning
<1> QED
  BY <1>1, <1>2, <1>3, <1>4, <1>5, <1>6, <1>7, <1>8, <1>9, <1>10, RequestKinds
\* What Solr may leave done of a message is what may be left done of the
\* request.
LEMMA BeginningsMean ==
  ASSUME NEW o \in Request, ~Throws(o), Kept(o), NEW b \in Beginnings(Command(o)),
         NEW jx \in Carried(b)
  PROVE  \E r \in Store!Beginnings(o) : jx \in Store!Meaning(r, index)
<1>1. SUFFICES \E r \in Store!Beginnings(o) :
                 r \in Request /\ ~Throws(r) /\ Kept(r) /\ b = Command(r)
  BY CarriedMeans
<1>2. CASE o.op = "add"
  <2>1. o \in [op : {"add"}, docs : Seq(Document), overwrite : Flag]
    BY <1>2, RequestKinds
  <2> DEFINE docs == [i \in DOMAIN o.docs |-> Serialized(o.docs[i])]
  <2>2. Command(o) = [cmd |-> "add", docs |-> docs, overwrite |-> o.overwrite]
    BY <1>2 DEF Command, AddMessage
  <2>3. Len(docs) = Len(o.docs)
    BY <2>1, LengthOfTexts
  <2>4. PICK n \in 0..Len(o.docs) :
          b = [cmd |-> "add", docs |-> SubSeq(docs, 1, n), overwrite |-> o.overwrite]
    <3>1. Command(o).cmd = "add" /\ Command(o).docs = docs
      BY <2>2
    <3> HIDE DEF docs
    <3> QED
      BY <2>2, <2>3, <3>1 DEF Beginnings
  <2>5. SubSeq(docs, 1, n) = [i \in DOMAIN SubSeq(o.docs, 1, n) |-> Serialized(SubSeq(o.docs, 1, n)[i])]
    BY <2>1, PrefixOfTexts
  <2> HIDE DEF docs
  <2> DEFINE r == [o EXCEPT !.docs = SubSeq(o.docs, 1, n)]
  <2>6. r \in Store!Beginnings(o)
    BY <1>2 DEF Store!Beginnings
  <2>7. /\ r \in [op : {"add"}, docs : Seq(Document), overwrite : Flag]
        /\ r.docs = SubSeq(o.docs, 1, n) /\ r.overwrite = o.overwrite
    BY <2>1, Prefixes
  <2>8. DOMAIN r.docs \subseteq DOMAIN o.docs /\ \A i \in DOMAIN r.docs : r.docs[i] = o.docs[i]
    <3>1. o.docs \in Seq(Document)
      BY <2>1
    <3>2. /\ DOMAIN SubSeq(o.docs, 1, n) = 1..n /\ 1..n \subseteq DOMAIN o.docs
          /\ \A i \in 1..n : SubSeq(o.docs, 1, n)[i] = o.docs[i]
      BY <3>1, Prefixes
    <3> HIDE DEF r
    <3> QED
      BY <2>7, <3>2
  <2> HIDE DEF r
  <2>9. r \in Request /\ r.op = "add"
    BY <2>7 DEF Request
  <2>10. ~Throws(r)
    BY <1>2, <2>8, <2>9 DEF Throws
  <2>11. b = Command(r)
    BY <2>4, <2>5, <2>7, <2>9 DEF Command, AddMessage
  <2>12. Kept(r)
    BY <2>9 DEF Kept
  <2> QED
    BY <2>6, <2>9, <2>10, <2>11, <2>12
<1>3. CASE o.op \in {"delete doc", "delete docs"}
  <2>1. o \in [op : {"delete doc", "delete docs"}, docs : Seq(Document)]
    BY <1>3, RequestKinds
  <2> DEFINE ids == [i \in DOMAIN o.docs |-> Named(o.docs[i])]
  <2>2. Command(o) = [cmd |-> "delete", ids |-> ids, query |-> {}]
    BY <1>3 DEF Command, DeleteMessage
  <2>3. Len(ids) = Len(o.docs)
    BY <2>1, LengthOfTexts
  <2>4. PICK n \in 0..Len(o.docs) : b = [cmd |-> "delete", ids |-> SubSeq(ids, 1, n), query |-> {}]
    <3>1. Command(o).cmd = "delete" /\ Command(o).ids = ids
      BY <2>2
    <3> HIDE DEF ids
    <3> QED
      BY <2>2, <2>3, <3>1 DEF Beginnings
  <2>5. SubSeq(ids, 1, n) = [i \in DOMAIN SubSeq(o.docs, 1, n) |-> Named(SubSeq(o.docs, 1, n)[i])]
    BY <2>1, PrefixOfTexts
  <2> HIDE DEF ids
  <2> DEFINE r == [o EXCEPT !.docs = SubSeq(o.docs, 1, n)]
  <2>6. r \in Store!Beginnings(o)
    BY <1>3 DEF Store!Beginnings
  <2>7. /\ r \in [op : {"delete doc", "delete docs"}, docs : Seq(Document)]
        /\ r.docs = SubSeq(o.docs, 1, n) /\ r.op = o.op
    BY <2>1, Prefixes
  <2>8. DOMAIN r.docs \subseteq DOMAIN o.docs /\ \A i \in DOMAIN r.docs : r.docs[i] = o.docs[i]
    <3>1. o.docs \in Seq(Document)
      BY <2>1
    <3>2. /\ DOMAIN SubSeq(o.docs, 1, n) = 1..n /\ 1..n \subseteq DOMAIN o.docs
          /\ \A i \in 1..n : SubSeq(o.docs, 1, n)[i] = o.docs[i]
      BY <3>1, Prefixes
    <3> HIDE DEF r
    <3> QED
      BY <2>7, <3>2
  <2> HIDE DEF r
  <2>9. r \in Request
    BY <2>7 DEF Request
  <2>10. ~Throws(r)
    <3>1. \A i \in DOMAIN r.docs :
            keyed /\ Named(r.docs[i]) # Illegal /\ (o.op = "delete doc" => r.docs[i].key # NoKey)
      BY <1>3, <2>8 DEF Throws
    <3> QED
      BY <1>3, <2>7, <3>1 DEF Throws
  <2>11. b = Command(r)
    BY <1>3, <2>4, <2>5, <2>7 DEF Command, DeleteMessage
  <2>12. Kept(r)
    BY <1>3, <2>7, <2>8 DEF Kept
  <2> QED
    BY <2>6, <2>9, <2>10, <2>11, <2>12
<1>4. CASE o.op = "delete"
  <2>1. o \in [op : {"delete"}, ids : Seq(Texts), query : SUBSET Bodies]
    BY <1>4, RequestKinds
  <2>2. Command(o) = [cmd |-> "delete", ids |-> o.ids, query |-> o.query]
    BY <1>4 DEF Command, DeleteMessage
  <2>3. PICK n \in 0..Len(o.ids) : b = [cmd |-> "delete", ids |-> SubSeq(o.ids, 1, n), query |-> {}]
    <3>1. Command(o).cmd = "delete" /\ Command(o).ids = o.ids
      BY <2>2
    <3> QED
      BY <2>2, <3>1 DEF Beginnings
  <2> DEFINE r == [o EXCEPT !.ids = SubSeq(o.ids, 1, n), !.query = {}]
  <2>4. r \in Store!Beginnings(o)
    BY <1>4 DEF Store!Beginnings
  <2>5. /\ r \in [op : {"delete"}, ids : Seq(Texts), query : SUBSET Bodies]
        /\ r.op = "delete" /\ r.ids = SubSeq(o.ids, 1, n) /\ r.query = {}
    BY <2>1, Prefixes
  <2> HIDE DEF r
  <2>6. r \in Request /\ ~Throws(r) /\ Kept(r)
    BY <2>5 DEF Request, Throws, Kept
  <2>7. b = Command(r)
    BY <2>3, <2>5 DEF Command, DeleteMessage
  <2> QED
    BY <2>4, <2>6, <2>7
<1>5. CASE o.op \in {"commit", "optimize"}
  <2>1. o \in [op : {"commit", "optimize"}, waitSearcher : Flag]
    BY <1>5, RequestKinds
  <2>2. Command(o) = [cmd |-> o.op, waitSearcher |-> o.waitSearcher]
    BY <1>5 DEF Command, CommitMessage
  <2>3. Command(o).cmd \in {"commit", "optimize"}
    BY <1>5, <2>2
  <2>4. b = [cmd |-> o.op, waitSearcher |-> "false"]
    BY <2>2, <2>3 DEF Beginnings
  <2> DEFINE r == [o EXCEPT !.waitSearcher = "false"]
  <2>5. r \in Store!Beginnings(o)
    BY <1>5 DEF Store!Beginnings
  <2>6. r \in [op : {"commit", "optimize"}, waitSearcher : Flag] /\ r.op = o.op
    BY <2>1 DEF Flag
  <2>7. r \in Request /\ ~Throws(r) /\ Kept(r)
    BY <2>6 DEF Request, Throws, Kept
  <2>8. b = Command(r)
    BY <1>5, <2>1, <2>4, <2>6 DEF Command, CommitMessage
  <2> QED
    BY <2>5, <2>7, <2>8
<1>6. CASE o.op = "extract"
  <2>1. o \in [op : {"extract"}, id : Texts, body : Bodies, idField : BOOLEAN,
               autoCommit : BOOLEAN, extractOnly : BOOLEAN]
    BY <1>6, RequestKinds
  <2>2. Command(o) = [cmd |-> "extract", id |-> o.id, body |-> o.body,
                      commit |-> o.autoCommit, extractOnly |-> o.extractOnly]
    BY <1>6 DEF Command
  <2>3. CASE o.extractOnly
    <3>1. Command(o).cmd = "extract" /\ Command(o).extractOnly
      BY <2>2, <2>3
    <3> QED
      BY <3>1 DEF Beginnings
  <2>4. CASE ~o.extractOnly
    <3>1. Command(o).cmd = "extract" /\ ~Command(o).extractOnly
      BY <2>2, <2>4
    <3>2. b = [cmd |-> "extract", id |-> o.id, body |-> o.body, commit |-> FALSE,
               extractOnly |-> o.extractOnly]
      <4>1. Beginnings(Command(o)) = {[Command(o) EXCEPT !.commit = FALSE]}
        BY <3>1 DEF Beginnings
      <4> QED
        BY <2>2, <4>1
    <3> DEFINE r == [o EXCEPT !.autoCommit = FALSE]
    <3>3. r \in Store!Beginnings(o)
      BY <1>6, <2>4 DEF Store!Beginnings
    <3>4. r \in [op : {"extract"}, id : Texts, body : Bodies, idField : BOOLEAN,
                 autoCommit : BOOLEAN, extractOnly : BOOLEAN]
          /\ r.op = "extract" /\ r.idField = o.idField /\ r.id = o.id /\ r.body = o.body
          /\ r.autoCommit = FALSE /\ r.extractOnly = o.extractOnly
      BY <2>1
    <3> HIDE DEF r
    <3>5. r \in Request /\ ~Throws(r) /\ Kept(r)
      BY <1>6, <3>4 DEF Request, Throws, Kept
    <3>6. Command(r) = [cmd |-> "extract", id |-> o.id, body |-> o.body, commit |-> FALSE,
                        extractOnly |-> o.extractOnly]
      BY <3>4 DEF Command
    <3>7. b = Command(r)
      BY <3>2, <3>6
    <3> QED
      BY <3>3, <3>5, <3>7
  <2> QED
    BY <2>3, <2>4
<1>7. CASE o.op \in {"rollback", "unload", "unload flag", "create", "reload"}
  <2>1. Command(o).cmd \in {"rollback", "UNLOAD", "CREATE", "RELOAD"}
    BY <1>7 DEF Command, UnloadMessage
  <2>2. Beginnings(Command(o)) = {}
    BY <2>1 DEF Beginnings
  <2> QED
    BY <2>2
<1> QED
  BY <1>2, <1>3, <1>4, <1>5, <1>6, <1>7, RequestKinds
\* The part of a message that a refusal leaves done is a part of the request.
LEMMA SpoiltIsPartial ==
  ASSUME NEW o \in Request, ~Throws(o), Kept(o), NEW jx \in Spoilt(Command(o))
  PROVE  jx \in Store!PartialEffects(o, index)
<1>1. Served(Command(o)) = Store!Serves(o, index)
  BY RequestKinds DEF Served, Store!Serves, Command, AddMessage, DeleteMessage, CommitMessage, UnloadMessage
<1>2. CASE jx = index
  BY <1>2 DEF Store!PartialEffects, Store!Part
<1>3. CASE jx # index
  <2>1. Served(Command(o)) /\ \E b \in Beginnings(Command(o)) : jx \in Carried(b)
    BY <1>3 DEF Spoilt
  <2>2. \E r \in Store!Beginnings(o) : jx \in Store!Meaning(r, index)
    BY <2>1, BeginningsMean
  <2> QED
    BY <1>1, <2>1, <2>2 DEF Store!PartialEffects, Store!Part
<1> QED
  BY <1>2, <1>3

LEMMA CarriedIsEffect ==
  ASSUME NEW o \in Request, ~Throws(o), Kept(o), Served(Command(o)),
         NEW jx \in Carried(Command(o))
  PROVE  jx \in Store!Effects(o, index)
<1>1. Store!Serves(o, index)
  BY RequestKinds DEF Served, Store!Serves, Command, AddMessage, DeleteMessage, CommitMessage, UnloadMessage
<1> QED
  BY <1>1, CarriedMeans DEF Store!Effects

Stage == [c \in Clients |-> IF calls[c].phase = "posted" THEN "called"
                           ELSE IF calls[c].phase = "answered" THEN "done"
                           ELSE IF calls[c].phase = "refused" THEN "failed"
                           ELSE calls[c].phase]
Asked == [c \in Clients |-> calls[c].request]
Owed == {a.request : a \in adrift}

\* A step of SolrNet or of Solr is a step of the store, or none.
LEMMA StepImplements ==
  ASSUME IInv, [Next]_vars, \A c \in Clients : \A o \in Requests[c] : Kept(o)
  PROVE  [Store!Next]_(Store!sVars)
<1> USE DEF IInv
<1>1. ASSUME NEW c \in Clients, NEW o \in Requests[c], Post(c, o)
      PROVE  Store!Call(c)
  <2>1. Stage[c] \in {"returned", "threw"}
    BY <1>1 DEF Post, Stage
  <2>2. Stage' = [Stage EXCEPT ![c] = "called"]
    BY <1>1 DEF Post, Stage, TypeOK
  <2>3. Asked' = [Asked EXCEPT ![c] = o]
    BY <1>1 DEF Post, Asked, TypeOK
  <2>4. UNCHANGED <<index, Owed>>
    BY <1>1 DEF Post, Owed
  <2> QED
    BY <2>1, <2>2, <2>3, <2>4 DEF Store!Call, Stage, Asked, Owed
<1>2. ASSUME NEW c \in Clients, NEW o \in Requests[c], Reject(c, o)
      PROVE  Store!Reject(c)
  <2>1. Stage[c] \in {"returned", "threw"}
    BY <1>2 DEF Reject, Stage
  <2>2. Stage' = [Stage EXCEPT ![c] = "threw"]
    BY <1>2 DEF Reject, Stage, TypeOK, Over
  <2>3. calls[c].request = NoRequest
    <3>1. calls[c].phase \in {"returned", "threw"} /\ calls[c] = Over(calls[c].phase)
      BY <1>2 DEF Reject, InCall
    <3>2. Over(calls[c].phase).request = NoRequest
      BY DEF Over
    <3> QED
      BY <3>1, <3>2
  <2>4. Asked' = Asked
    BY <1>2, <2>3 DEF Reject, Asked, TypeOK, Over
  <2>5. UNCHANGED <<index, Owed>>
    BY <1>2 DEF Reject, Owed
  <2> QED
    BY <2>1, <2>2, <2>4, <2>5 DEF Store!Reject, Stage, Asked, Owed
<1>3. ASSUME NEW c \in Clients, NEW phase \in {"returned", "threw"}, End(c, phase)
      PROVE  /\ Stage' = [Stage EXCEPT ![c] = phase]
             /\ Asked' = [Asked EXCEPT ![c] = NoRequest]
             /\ index' = index
  BY <1>3 DEF End, Over, Stage, Asked, TypeOK
<1>4. ASSUME NEW c \in Clients, Return(c)
      PROVE  Store!Return(c)
  <2>1. Stage[c] = "done" /\ End(c, "returned") /\ Owed' = Owed
    BY <1>4 DEF Return, Stage, Owed
  <2> QED
    BY <1>3, <2>1 DEF Store!Return, Stage, Asked, Owed
<1>5. ASSUME NEW c \in Clients, Throw(c)
      PROVE  Store!Throw(c)
  <2>1. Stage[c] \in {"done", "failed"} /\ End(c, "threw") /\ Owed' = Owed
    BY <1>5 DEF Throw, Stage, Owed
  <2> QED
    BY <1>3, <2>1 DEF Store!Throw, Stage, Asked, Owed
<1>6. ASSUME NEW c \in Clients, Lose(c) \/ TimeOut(c)
      PROVE  Store!GiveUp(c)
  <2>1. Stage[c] = "called" /\ End(c, "threw")
    BY <1>6 DEF Lose, TimeOut, Stage
  <2>2. Owed' \in {Owed, Owed \cup {Asked[c]}}
    BY <1>6 DEF Lose, TimeOut, Owed, Asked
  <2> QED
    BY <1>3, <2>1, <2>2 DEF Store!GiveUp, Stage, Asked, Owed
<1>7. ASSUME NEW c \in Clients, NEW phase \in {"answered", "refused"}, calls[c].phase = "posted",
             Answer(c, phase), UNCHANGED adrift
      PROVE  /\ Stage[c] = "called"
             /\ Stage' = [Stage EXCEPT ![c] = IF phase = "answered" THEN "done" ELSE "failed"]
             /\ UNCHANGED <<Asked, Owed>>
  BY <1>7 DEF Answer, Stage, Asked, Owed, TypeOK
<1>8. ASSUME NEW c \in Clients, Arrive(c)
      PROVE  Store!TakeEffect(c)
  <2>1. index' \in Store!Effects(Asked[c], index)
    BY <1>8, PostedMessages, CarriedIsEffect DEF Arrive, AsAsked, Asked
  <2> QED
    BY <1>7, <1>8, <2>1 DEF Arrive, Store!TakeEffect, Stage, Asked, Owed
<1>9. ASSUME NEW c \in Clients, Refuse(c)
      PROVE  Store!Spoil(c)
  <2>1. index' \in Store!PartialEffects(Asked[c], index)
    BY <1>9, PostedMessages, SpoiltIsPartial DEF Refuse, AsAsked, Asked
  <2> QED
    BY <1>7, <1>9, <2>1 DEF Refuse, Store!Spoil, Stage, Asked, Owed
<1>10. ASSUME NEW a \in adrift, Land(a)
       PROVE  Store!TakeEffectLate(a.request)
  <2>1. /\ a.request \in Request /\ ~Throws(a.request) /\ Kept(a.request)
        /\ a.message = Command(a.request)
    BY OperationsAssumption DEF Adrift, AsAsked
  <2>2. Owed' = Owed \ {a.request}
    <3>1. \A b \in adrift : b.request = a.request => b = a
      BY DEF Adrift, AsAsked, TypeOK
    <3>2. adrift' = adrift \ {a}
      BY <1>10 DEF Land
    <3> QED
      BY <3>1, <3>2 DEF Owed
  <2>3. index' \in Store!Effects(a.request, index) \cup Store!PartialEffects(a.request, index)
    BY <1>10, <2>1, CarriedIsEffect, SpoiltIsPartial DEF Land
  <2>4. UNCHANGED <<Stage, Asked>>
    BY <1>10 DEF Land, Stage, Asked
  <2> QED
    BY <2>2, <2>3, <2>4 DEF Store!TakeEffectLate, Stage, Asked, Owed
<1>11. ASSUME CommitItself \/ OpenSearcher \/ Restart
       PROVE  Store!Upkeep
  <2>1. UNCHANGED <<Stage, Asked, Owed>>
    BY <1>11 DEF CommitItself, OpenSearcher, Restart, Stage, Asked, Owed
  <2> QED
    BY <1>11, <2>1, SameIndex DEF CommitItself, OpenSearcher, Restart, Store!Upkeep, Stage, Asked, Owed
<1>12. CASE UNCHANGED vars
  BY <1>12 DEF vars, Store!sVars
<1>13. ASSUME NEW a \in adrift, Land(a)
       PROVE  \E o \in {b.request : b \in adrift} : Store!TakeEffectLate(o)
  BY <1>10, <1>13
<1> HIDE DEF IInv
<1>14. CASE \E c \in Clients : \E o \in Requests[c] : Post(c, o) \/ Reject(c, o)
  BY <1>1, <1>2, <1>14 DEF Store!Next
<1>15. CASE \E c \in Clients : \/ Return(c) \/ Throw(c) \/ Lose(c) \/ TimeOut(c)
                                \/ Arrive(c) \/ Refuse(c)
  BY <1>4, <1>5, <1>6, <1>8, <1>9, <1>15 DEF Store!Next
<1>16. CASE (\E a \in adrift : Land(a)) \/ CommitItself \/ OpenSearcher \/ Restart
  BY <1>11, <1>13, <1>16 DEF Store!Next
<1> QED
  BY <1>12, <1>14, <1>15, <1>16 DEF Next

\* The operations implement DocumentStore, whatever is lost, late or refused,
\* for applications all of whose requests are Kept.
THEOREM Refinement ==
  ASSUME \A c \in Clients : \A o \in Requests[c] : Kept(o)
  PROVE  Spec => StoreSpec
<1>1. Init => Store!Init
  BY DEF Init, Store!Init, Over
<1>2. IInv /\ [Next]_vars => [Store!Next]_(Store!sVars)
  BY StepImplements
<1> QED
  BY <1>1, <1>2, Inductive, PTL DEF Spec, StoreSpec, Store!Spec
=============================================================================
