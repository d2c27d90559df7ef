------------------------ MODULE SolrConnectionProofs ------------------------
(***************************************************************************)
(* Proofs about SolrConnection, for every set of threads, URLs and index   *)
(* versions.  The inductive invariant is IInv: the cache is coherent, and  *)
(* so is everything a call holds while it waits for Solr.                  *)
(***************************************************************************)
EXTENDS SolrConnection, TLAPS

USE KeyAssumption, ETagAssumption, NullAssumption

\* Initially the cache is empty and no call is going on.
LEMMA InitIInv == Init => IInv
<1> SUFFICES ASSUME Init PROVE IInv
  OBVIOUS
<1>1. TypeOK
  BY DEF Init, TypeOK, Outcome
<1>2. CacheCoherent /\ NoCacheHonoured
  BY DEF Init, CacheCoherent, NoCacheHonoured
<1>3. InFlight
  BY DEF Init, InFlight, Sound, IsOk
<1>4. Freshness
  BY DEF Init, Freshness
<1> QED
  BY <1>1, <1>2, <1>3, <1>4 DEF IInv

\* A call begins with an entry that fits its URL, or with none.
LEMMA BeginPreserves ==
  ASSUME IInv, NEW t \in Threads, NEW c \in Query \cup {Update},
         NEW e \in Entry \cup {NoEntry},
         e # NoEntry => c \in Query /\ EntryFits(c.url, e),
         Begin(t, c, e)
  PROVE  IInv'
<1> USE DEF IInv, Begin
<1>1. TypeOK'
  BY DEF TypeOK, Outcome
<1>2. CacheCoherent' /\ NoCacheHonoured'
  BY DEF CacheCoherent, NoCacheHonoured, EntryFits
<1>3. InFlight'
  <2> SUFFICES ASSUME NEW s \in Threads PROVE Sound(s)'
    BY DEF InFlight
  <2>1. CASE s = t
    BY <2>1 DEF InFlight, Sound, TypeOK, IsOk, EntryFits
  <2>2. CASE s # t
    BY <2>2 DEF InFlight, Sound, TypeOK, IsOk, EntryFits
  <2> QED
    BY <2>1, <2>2
<1>4. Freshness'
  BY DEF Freshness, TypeOK
<1> QED
  BY <1>1, <1>2, <1>3, <1>4

\* Solr answers a waiting call; the index may change as it does.
LEMMA AnswerPreserves ==
  ASSUME IInv, NEW t \in Threads, NEW r \in Reply, Answer(t, r),
         index' \in Versions, window' = SeenBy(index'),
         r.status = "ok" /\ call[t] \in Query =>
           /\ r.body \in Body
           /\ r.body.url = call[t].url
           /\ r.body.version = index'
           /\ r.etag \in {NoETag, ETag[index']},
         r.status = "notModified" =>
           cached[t] # NoEntry /\ cached[t].data.version = index'
  PROVE  IInv'
<1> USE DEF IInv, Answer, SeenBy
<1>1. TypeOK'
  BY DEF TypeOK
<1>2. CacheCoherent' /\ NoCacheHonoured'
  BY DEF CacheCoherent, NoCacheHonoured, EntryFits
<1>3. InFlight'
  <2> SUFFICES ASSUME NEW s \in Threads PROVE Sound(s)'
    BY DEF InFlight
  <2>1. CASE s = t
    BY <2>1 DEF InFlight, Sound, TypeOK, IsOk, EntryFits
  <2>2. CASE s # t
    BY <2>2 DEF InFlight, Sound, TypeOK, IsOk, EntryFits
  <2> QED
    BY <2>1, <2>2
<1>4. Freshness'
  BY DEF Freshness, TypeOK
<1> QED
  BY <1>1, <1>2, <1>3, <1>4

\* A call ends: what it returns was current during the call, and the cache
\* it leaves is coherent.
LEMMA FinishPreserves ==
  ASSUME IInv, NEW t \in Threads, NEW o \in Outcome, Finish(t, o),
         o \in Contents => o.url = call[t].url /\ o.version \in window[t],
         cache' \in [Keys -> Entry \cup {NoEntry}],
         CacheCoherent', NoCacheHonoured'
  PROVE  IInv'
<1> USE DEF IInv, Finish
<1>1. TypeOK'
  BY DEF TypeOK
<1>2. InFlight'
  <2> SUFFICES ASSUME NEW s \in Threads PROVE Sound(s)'
    BY DEF InFlight
  <2>1. CASE s = t
    BY <2>1 DEF Sound, TypeOK, IsOk
  <2>2. CASE s # t
    BY <2>2 DEF InFlight, Sound, TypeOK, IsOk, EntryFits
  <2> QED
    BY <2>1, <2>2
<1>3. Freshness'
  BY DEF Freshness, TypeOK
<1> QED
  BY <1>1, <1>2, <1>3

\* Adding the answer of a GET keeps the cache typed and coherent.  Distinct
\* URLs having distinct keys is what keeps one URL's entry from answering
\* another.
LEMMA CacheAddPreserves ==
  ASSUME IInv, NEW t \in Threads, FinishGet(t)
  PROVE  /\ cache' \in [Keys -> Entry \cup {NoEntry}]
         /\ CacheCoherent'
         /\ NoCacheHonoured'
<1> DEFINE u == call[t].url
           r == reply[t]
           e == [etag |-> r.etag, data |-> r.body]
<1>1. /\ u \in Urls
      /\ r.body \in Body
      /\ r.body.url = u
      /\ r.etag \in {NoETag, ETag[r.body.version]}
  BY DEF FinishGet, IInv, TypeOK, InFlight, Sound, IsOk, Query
<1>2. CASE UsableETag(r) = NoETag
  <2>1. cache' = cache
    BY <1>2 DEF FinishGet, CacheAdd
  <2> QED
    BY <2>1 DEF IInv, TypeOK, CacheCoherent, NoCacheHonoured, EntryFits
<1>3. CASE UsableETag(r) # NoETag
  <2>1. /\ cache' = [cache EXCEPT ![KeyOf[u]] = e]
        /\ ~r.body.noCache
        /\ r.etag = ETag[r.body.version]
    BY <1>1, <1>3 DEF FinishGet, CacheAdd, UsableETag
  <2>2. e \in Entry /\ EntryFits(u, e)
    BY <1>1, <2>1 DEF Entry, Body, EntryFits
  <2>3. cache' \in [Keys -> Entry \cup {NoEntry}]
    BY <1>1, <2>1, <2>2 DEF IInv, TypeOK
  <2>4. CacheCoherent'
    <3> SUFFICES ASSUME NEW w \in Urls, cache'[KeyOf[w]] # NoEntry
                 PROVE  EntryFits(w, cache'[KeyOf[w]])
      BY DEF CacheCoherent, EntryFits
    <3>1. CASE w = u
      BY <1>1, <2>1, <2>2, <3>1 DEF IInv, TypeOK
    <3>2. CASE w # u
      BY <1>1, <2>1, <3>2 DEF IInv, TypeOK, CacheCoherent
    <3> QED
      BY <3>1, <3>2
  <2>5. NoCacheHonoured'
    BY <1>1, <2>1 DEF IInv, TypeOK, NoCacheHonoured
  <2> QED
    BY <2>3, <2>4, <2>5
<1> QED
  BY <1>2, <1>3
-----------------------------------------------------------------------------
\* Every step preserves the inductive invariant.
LEMMA NextIInv == IInv /\ [Next]_vars => IInv'
<1> SUFFICES ASSUME IInv, [Next]_vars PROVE IInv'
  OBVIOUS
<1>1. ASSUME NEW t \in Threads, NEW u \in Urls, Get(t, u) PROVE IInv'
  <2> DEFINE e == cache[KeyOf[u]]
             c == [via |-> "GET", url |-> u]
  <2>1. c \in Query /\ c.url = u /\ e \in Entry \cup {NoEntry}
    BY DEF Query, IInv, TypeOK
  <2>2. e # NoEntry => EntryFits(c.url, e)
    BY <2>1 DEF IInv, CacheCoherent
  <2>3. Begin(t, c, e)
    BY <1>1 DEF Get
  <2> QED
    BY <2>1, <2>2, <2>3, BeginPreserves
<1>2. ASSUME NEW t \in Threads, NEW u \in Urls, PostGet(t, u) PROVE IInv'
  <2> DEFINE c == [via |-> "POST", url |-> u]
  <2>1. c \in Query /\ Begin(t, c, NoEntry)
    BY <1>2 DEF Query, PostGet
  <2> QED
    BY <2>1, BeginPreserves
<1>3. ASSUME NEW t \in Threads, PostStream(t) PROVE IInv'
  BY <1>3, BeginPreserves DEF PostStream
<1>4. ASSUME NEW t \in Threads, FinishGet(t) PROVE IInv'
  <2> DEFINE o == Content(reply[t].body)
  <2>1. /\ o \in Outcome
        /\ o.url = call[t].url /\ o.version \in window[t]
    BY <1>4 DEF FinishGet, Finish, IInv, InFlight, Sound, Body, Content, Contents, Outcome
  <2>2. Finish(t, o)
    BY <1>4 DEF FinishGet
  <2> QED
    BY <1>4, <2>1, <2>2, CacheAddPreserves, FinishPreserves
<1>5. ASSUME UNCHANGED cache
      PROVE  /\ cache' \in [Keys -> Entry \cup {NoEntry}]
             /\ CacheCoherent'
             /\ NoCacheHonoured'
  BY <1>5 DEF IInv, TypeOK, CacheCoherent, NoCacheHonoured, EntryFits
<1>6. ASSUME NEW t \in Threads, FinishNotModified(t) PROVE IInv'
  <2> DEFINE o == Content(cached[t].data)
  <2>1. /\ cached[t] \in Entry
        /\ EntryFits(call[t].url, cached[t])
        /\ cached[t].data.version \in window[t]
    BY <1>6 DEF FinishNotModified, Finish, IInv, TypeOK, InFlight, Sound
  <2>2. /\ o \in Outcome
        /\ o.url = call[t].url /\ o.version \in window[t]
    BY <2>1 DEF EntryFits, Entry, Body, Content, Contents, Outcome
  <2>3. Finish(t, o) /\ UNCHANGED cache
    BY <1>6 DEF FinishNotModified, CachedData
  <2> QED
    BY <1>5, <2>2, <2>3, FinishPreserves
<1>7. ASSUME NEW t \in Threads, FinishPostGet(t) PROVE IInv'
  <2> DEFINE o == Content(reply[t].body)
  <2>1. /\ o \in Outcome
        /\ o.url = call[t].url /\ o.version \in window[t]
    BY <1>7 DEF FinishPostGet, Finish, IInv, InFlight, Sound, Body, Content, Contents, Outcome
  <2>2. Finish(t, o) /\ UNCHANGED cache
    BY <1>7 DEF FinishPostGet
  <2> QED
    BY <1>5, <2>1, <2>2, FinishPreserves
<1>8. ASSUME NEW t \in Threads, FinishPost(t) PROVE IInv'
  <2>1. Finish(t, Done) /\ UNCHANGED cache /\ Done \in Outcome /\ Done \notin Contents
    BY <1>8 DEF FinishPost, Outcome
  <2> QED
    BY <1>5, <2>1, FinishPreserves
<1>9. ASSUME NEW t \in Threads, ThrowOnStatus(t) \/ ThrowOnNetwork(t) PROVE IInv'
  <2>1. Finish(t, NoValue) /\ UNCHANGED cache /\ NoValue \in Outcome /\ NoValue \notin Contents
    BY <1>9 DEF ThrowOnStatus, ThrowOnNetwork, Outcome
  <2> QED
    BY <1>5, <2>1, FinishPreserves
<1>10. ASSUME NEW t \in Threads, SolrAnswers(t) PROVE IInv'
  <2>1. PICK x \in {ETag[index], NoETag}, nc \in BOOLEAN :
          Answer(t, [status |-> "ok", etag |-> x,
                     body |-> [url |-> call[t].url, version |-> index, noCache |-> nc]])
    BY <1>10 DEF SolrAnswers
  <2> DEFINE b == [url |-> call[t].url, version |-> index, noCache |-> nc]
             r == [status |-> "ok", etag |-> x, body |-> b]
  <2>2. b \in Body /\ r \in Reply /\ call[t] \in Query
    BY <1>10 DEF SolrAnswers, IInv, TypeOK, Query, Body, Reply
  <2>3. index' = index /\ index \in Versions /\ window' = SeenBy(index)
    BY <1>10 DEF SolrAnswers, IInv, TypeOK, InFlight, Sound, SeenBy
  <2> HIDE DEF b
  <2>4. Answer(t, r) /\ b.url = call[t].url /\ b.version = index
    BY <2>1 DEF b
  <2> QED
    BY <2>2, <2>3, <2>4, AnswerPreserves
<1>11. ASSUME NEW t \in Threads, SolrNotModified(t) PROVE IInv'
  <2> DEFINE r == [status |-> "notModified", etag |-> NoETag, body |-> NoBody]
  <2>1. cached[t].data.version = index
    BY <1>11 DEF SolrNotModified, Answer, IInv, TypeOK, InFlight, Sound, EntryFits, Entry, Body
  <2>2. index' = index /\ index \in Versions /\ window' = SeenBy(index)
    BY <1>11 DEF SolrNotModified, IInv, TypeOK, InFlight, Sound, SeenBy
  <2>3. Answer(t, r) /\ r \in Reply /\ cached[t] # NoEntry
    BY <1>11 DEF SolrNotModified, Reply
  <2> QED
    BY <2>1, <2>2, <2>3, AnswerPreserves
<1>12. ASSUME NEW t \in Threads, SolrUpdates(t) PROVE IInv'
  <2> DEFINE r == [status |-> "ok", etag |-> NoETag, body |-> NoBody]
  <2>1. r \in Reply /\ Answer(t, r) /\ call[t] \notin Query
    BY <1>12 DEF SolrUpdates, Reply
  <2>2. index' \in Versions /\ window' = SeenBy(index')
    BY <1>12 DEF SolrUpdates
  <2> QED
    BY <2>1, <2>2, AnswerPreserves
<1>13. ASSUME NEW t \in Threads, SolrRefuses(t) PROVE IInv'
  <2> DEFINE r == [status |-> "error", etag |-> NoETag, body |-> NoBody]
  <2>1. r \in Reply /\ Answer(t, r)
    BY <1>13 DEF SolrRefuses, Reply
  <2>2. index' = index /\ index \in Versions /\ window' = SeenBy(index)
    BY <1>13 DEF SolrRefuses, IInv, TypeOK, InFlight, Sound, SeenBy
  <2> QED
    BY <2>1, <2>2, AnswerPreserves
<1>14. CASE SolrChanges
  BY <1>14 DEF SolrChanges, SeenBy, IInv, TypeOK, CacheCoherent, NoCacheHonoured,
               InFlight, Sound, IsOk, EntryFits, Freshness
<1>15. ASSUME NEW k \in Keys, Evict(k) PROVE IInv'
  BY <1>15 DEF Evict, IInv, TypeOK, CacheCoherent, NoCacheHonoured,
               InFlight, Sound, IsOk, EntryFits, Freshness
<1>16. CASE UNCHANGED vars
  BY <1>16 DEF vars, IInv, TypeOK, CacheCoherent, NoCacheHonoured,
               InFlight, Sound, IsOk, EntryFits, Freshness
<1> QED
  BY <1>1, <1>2, <1>3, <1>4, <1>6, <1>7, <1>8, <1>9, <1>10, <1>11, <1>12,
     <1>13, <1>14, <1>15, <1>16 DEF Next, Caller, Solr

\* Every reachable state satisfies the inductive invariant.
THEOREM Inductive == Spec => []IInv
BY InitIInv, NextIInv, PTL DEF Spec

\* The variables keep their types.
THEOREM TypeCorrect == Spec => []TypeOK
<1>1. IInv => TypeOK
  BY DEF IInv
<1> QED
  BY <1>1, Inductive, PTL

\* What a call holds while it waits is sound: the captured entry belongs to
\* its URL, and a 304 was earned by that entry (SolrConnection.Get).
THEOREM WaitingCallsAreSound == Spec => []InFlight
<1>1. IInv => InFlight
  BY DEF IInv
<1>2. QED
  BY <1>1, Inductive, PTL

\* Get never files an answer under another URL or another version's ETag.
THEOREM CacheIsCoherent == Spec => []CacheCoherent
<1>1. IInv => CacheCoherent
  BY DEF IInv
<1> QED
  BY <1>1, Inductive, PTL

\* What a query returns was the answer to its URL at some moment of the call.
THEOREM QueriesAreFresh == Spec => []Freshness
<1>1. IInv => Freshness
  BY DEF IInv
<1> QED
  BY <1>1, Inductive, PTL

\* Nothing that Solr marked no-cache is ever in the cache.
THEOREM NoCacheIsHonoured == Spec => []NoCacheHonoured
<1>1. IInv => NoCacheHonoured
  BY DEF IInv
<1> QED
  BY <1>1, Inductive, PTL
-----------------------------------------------------------------------------
(* SolrConnection implements SolrService. *)

\* Initially every thread is idle, and bound to return nothing.
LEMMA InitRefines == Init => Service!Init
BY DEF Init, Service!Init, Serving, Promised, Stage

\* A call that begins is a call of the service.
LEMMA BeginRefines ==
  ASSUME IInv, NEW t \in Threads, NEW c \in Query \cup {Update},
         NEW e, Begin(t, c, e)
  PROVE  Service!Call(t)
<1> USE DEF IInv, TypeOK, InFlight, Sound, Begin, Serving, Promised, Stage
<1>1. pc[t] = "idle" /\ reply[t] = NoReply /\ reply' = reply
  OBVIOUS
<1>2. [s \in Threads |-> Stage(s)]' = [[s \in Threads |-> Stage(s)] EXCEPT ![t] = "called"]
  BY <1>1
<1>3. [s \in Threads |-> Promised(s)]' = [s \in Threads |-> Promised(s)]
  BY <1>1
<1> QED
  BY <1>1, <1>2, <1>3 DEF Service!Call

\* A call that returns a value was served, and the value is the promised one.
LEMMA ReturnRefines ==
  ASSUME IInv, NEW t \in Threads, Serving(t), Finish(t, Promised(t))
  PROVE  Service!Return(t)
<1> USE DEF IInv, TypeOK, Finish, Serving, Promised, Stage
<1>1. pc[t] # "idle"
  BY DEF Finish
<1>2. [s \in Threads |-> Stage(s)]' = [[s \in Threads |-> Stage(s)] EXCEPT ![t] = "idle"]
  BY <1>1
<1>3. [s \in Threads |-> Promised(s)]' = [[s \in Threads |-> Promised(s)] EXCEPT ![t] = NoValue]
  BY <1>1
<1> QED
  BY <1>1, <1>2, <1>3 DEF Service!Return

\* A call that throws fails, served or not.
LEMMA ThrowRefines ==
  ASSUME IInv, NEW t \in Threads, Finish(t, NoValue)
  PROVE  Service!Fail(t)
<1> USE DEF IInv, TypeOK, Finish, Serving, Promised, Stage
<1>1. pc[t] # "idle"
  BY DEF Finish
<1>2. [s \in Threads |-> Stage(s)]' = [[s \in Threads |-> Stage(s)] EXCEPT ![t] = "idle"]
  BY <1>1
<1>3. [s \in Threads |-> Promised(s)]' = [[s \in Threads |-> Promised(s)] EXCEPT ![t] = NoValue]
  BY <1>1
<1> QED
  BY <1>1, <1>2, <1>3 DEF Service!Fail

\* The answer to a query is the moment the query takes effect.  For a 304
\* this needs the invariant: the captured entry is the answer Solr would
\* have sent.
LEMMA QueryRefines ==
  ASSUME IInv, NEW t \in Threads, SolrAnswers(t) \/ SolrNotModified(t)
  PROVE  Service!ServeQuery(t)
<1> USE DEF IInv, TypeOK, InFlight, Sound, Serving, Promised, Stage
<1>1. /\ pc[t] = "waiting" /\ reply[t] = NoReply /\ call[t] \in Query /\ call[t] # Update
      /\ UNCHANGED <<index, pc, call, cached, result>>
  BY DEF SolrAnswers, SolrNotModified, Answer
<1>2. PICK r \in Reply :
        /\ reply' = [reply EXCEPT ![t] = r]
        /\ \/ r.status = "ok" /\ Content(r.body) = [url |-> call[t].url, version |-> index]
           \/ r.status = "notModified" /\ Content(cached[t].data) = [url |-> call[t].url, version |-> index]
  <2>1. CASE SolrAnswers(t)
    <3>1. PICK x \in {ETag[index], NoETag}, nc \in BOOLEAN :
            reply' = [reply EXCEPT ![t] = [status |-> "ok", etag |-> x,
                        body |-> [url |-> call[t].url, version |-> index, noCache |-> nc]]]
      BY <2>1 DEF SolrAnswers, Answer
    <3> DEFINE b == [url |-> call[t].url, version |-> index, noCache |-> nc]
               q == [status |-> "ok", etag |-> x, body |-> b]
    <3>2. b \in Body /\ q \in Reply
      BY <1>1 DEF Query, Body, Reply
    <3>3. q.status = "ok" /\ Content(q.body) = [url |-> call[t].url, version |-> index]
      BY DEF Content
    <3>4. reply' = [reply EXCEPT ![t] = q]
      BY <3>1
    <3> HIDE DEF q
    <3> QED
      BY <3>2, <3>3, <3>4
  <2>2. CASE SolrNotModified(t)
    <3> DEFINE q == [status |-> "notModified", etag |-> NoETag, body |-> NoBody]
    <3>1. /\ reply' = [reply EXCEPT ![t] = q]
          /\ cached[t] # NoEntry /\ cached[t].etag = ETag[index]
      BY <2>2 DEF SolrNotModified, Answer
    <3>2. cached[t].data.url = call[t].url /\ cached[t].data.version = index
      BY <1>1, <3>1 DEF EntryFits, Entry, Body
    <3>3. q \in Reply
      BY DEF Reply
    <3> QED
      BY <3>1, <3>2, <3>3 DEF Content
  <2> QED
    BY <2>1, <2>2
<1>3. [s \in Threads |-> Stage(s)]' = [[s \in Threads |-> Stage(s)] EXCEPT ![t] = "served"]
  BY <1>1, <1>2
<1>4. [s \in Threads |-> Promised(s)]' = [[s \in Threads |-> Promised(s)]
         EXCEPT ![t] = [url |-> call[t].url, version |-> index]]
  BY <1>1, <1>2
<1>5. [s \in Threads |-> Stage(s)][t] = "called"
  BY <1>1
<1> QED
  BY <1>1, <1>3, <1>4, <1>5 DEF Service!ServeQuery

\* The answer to an update is the moment the update takes effect.
LEMMA UpdateRefines ==
  ASSUME IInv, NEW t \in Threads, SolrUpdates(t)
  PROVE  Service!ServeUpdate(t)
<1> USE DEF IInv, TypeOK, InFlight, Sound, Serving, Promised, Stage
<1> DEFINE r == [status |-> "ok", etag |-> NoETag, body |-> NoBody]
<1>1. /\ pc[t] = "waiting" /\ reply[t] = NoReply /\ call[t] = Update
      /\ reply' = [reply EXCEPT ![t] = r]
      /\ index' \in Versions
      /\ UNCHANGED <<pc, call, cached, result>>
  BY DEF SolrUpdates, Answer
<1>2. r \in Reply /\ r.status = "ok"
  BY DEF Reply
<1> HIDE DEF r
<1>3. [s \in Threads |-> Stage(s)]' = [[s \in Threads |-> Stage(s)] EXCEPT ![t] = "served"]
  BY <1>1, <1>2
<1>4. [s \in Threads |-> Promised(s)]' = [[s \in Threads |-> Promised(s)] EXCEPT ![t] = Done]
  BY <1>1, <1>2
<1>5. [s \in Threads |-> Stage(s)][t] = "called"
  BY <1>1
<1> QED
  BY <1>1, <1>3, <1>4, <1>5 DEF Service!ServeUpdate

\* Every step of the connection is a step of the service, or changes nothing
\* the service can see.
LEMMA NextRefines == IInv /\ [Next]_vars => [Service!Next]_(Service!sVars)
<1> SUFFICES ASSUME IInv, [Next]_vars PROVE [Service!Next]_(Service!sVars)
  OBVIOUS
<1>1. ASSUME NEW t \in Threads, Service!Call(t) \/ Service!Return(t) \/ Service!Fail(t)
                                \/ Service!ServeQuery(t) \/ Service!ServeUpdate(t)
      PROVE  Service!Next
  BY <1>1 DEF Service!Next
<1>2. ASSUME NEW t \in Threads, NEW u \in Urls, Get(t, u) \/ PostGet(t, u)
      PROVE  Service!Next
  BY <1>1, <1>2, BeginRefines DEF Get, PostGet, Query
<1>3. ASSUME NEW t \in Threads, PostStream(t) PROVE Service!Next
  BY <1>1, <1>3, BeginRefines DEF PostStream
<1>4. ASSUME NEW t \in Threads,
             FinishGet(t) \/ FinishNotModified(t) \/ FinishPostGet(t) \/ FinishPost(t)
      PROVE  Service!Next
  <2>1. Serving(t) /\ Finish(t, Promised(t))
    BY <1>4 DEF FinishGet, FinishNotModified, FinishPostGet, FinishPost, Finish,
                CachedData, IsOk, Serving, Promised, IInv, InFlight, Sound
  <2> QED
    BY <1>1, <2>1, ReturnRefines
<1>5. ASSUME NEW t \in Threads, ThrowOnStatus(t) \/ ThrowOnNetwork(t) PROVE Service!Next
  BY <1>1, <1>5, ThrowRefines DEF ThrowOnStatus, ThrowOnNetwork
<1>6. ASSUME NEW t \in Threads, SolrAnswers(t) \/ SolrNotModified(t) \/ SolrUpdates(t)
      PROVE  Service!Next
  BY <1>1, <1>6, QueryRefines, UpdateRefines
<1>7. ASSUME NEW t \in Threads, SolrRefuses(t) PROVE UNCHANGED Service!sVars
  BY <1>7 DEF SolrRefuses, Answer, Service!sVars, Stage, Serving, Promised, IInv, TypeOK
<1>8. CASE SolrChanges
  BY <1>8 DEF SolrChanges, Service!Next, Service!Change, Stage, Serving, Promised
<1>9. ASSUME NEW k \in Keys, Evict(k) PROVE UNCHANGED Service!sVars
  BY <1>9 DEF Evict, Service!sVars, Stage, Serving, Promised
<1>10. CASE UNCHANGED vars
  BY <1>10 DEF vars, Service!sVars, Stage, Serving, Promised
<1> QED
  BY <1>2, <1>3, <1>4, <1>5, <1>6, <1>7, <1>8, <1>9, <1>10 DEF Next, Caller, Solr

\* The connection, cache and all, implements the service without a cache.
THEOREM Refinement == Spec => ServiceSpec
BY InitRefines, Inductive, NextRefines, PTL DEF Spec, ServiceSpec, Service!Spec
=============================================================================
