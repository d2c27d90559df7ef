--------------------------- MODULE SolrConnection ---------------------------
(***************************************************************************)
(* The HTTP connection to Solr and its response cache:                     *)
(* SolrNet/Impl/SolrConnection.cs, SolrPostConnection.cs and the           *)
(* ISolrCache implementations, one connection shared by several threads.   *)
(*                                                                         *)
(* A Get looks its URL up in the cache, sends the ETag it found there, and *)
(* on "304 Not Modified" returns the entry it looked up before it went to  *)
(* the network.  Solr itself is external: it answers from the version of   *)
(* the index its current searcher sees, and that version changes at any    *)
(* time (commits of any client, replication, a restored index).            *)
(***************************************************************************)
EXTENDS Naturals, FiniteSets

CONSTANTS
  Threads,   \* the threads that share the connection
  Urls,      \* full request URLs: server, path and encoded query string
  Keys,      \* the strings the cache is indexed by
  KeyOf,     \* Uri.ToString(): [Urls -> Keys]
  Versions,  \* the contents the searched index can have
  ETags,     \* the validators Solr computes
  ETag,      \* [Versions -> ETags]
  NoETag,    \* a response with no usable validator
  NoEntry,   \* null, what the cache returns on a miss
  NoReply,   \* Solr has not answered yet
  NoBody,    \* a response whose body is not used
  Update,    \* a POST to an update handler
  Done,      \* what an update that returned stands for
  NoValue    \* nothing returned: an exception, or a call still going on

Query == [via : {"GET", "POST"}, url : Urls]

\* A response body, by what it was computed from.  noCache is the
\* Cache-Control header the response came with.
Body == [url : Urls, version : Versions, noCache : BOOLEAN]

Entry == [etag : ETags, data : Body]

Reply == [status : {"ok", "notModified", "error"},
          etag : ETags \cup {NoETag}, body : Body \cup {NoBody}]

\* What is left of a body once it is returned.
Content(b) == [url |-> b.url, version |-> b.version]
Contents == [url : Urls, version : Versions]
Outcome == Contents \cup {Done, NoValue}

\* Two URLs never share a cache key, and Solr never computes one ETag for
\* two different contents of the index.
ASSUME KeyAssumption ==
  /\ KeyOf \in [Urls -> Keys]
  /\ \A u, w \in Urls : KeyOf[u] = KeyOf[w] => u = w
ASSUME ETagAssumption ==
  /\ ETag \in [Versions -> ETags]
  /\ \A v, w \in Versions : ETag[v] = ETag[w] => v = w
ASSUME NullAssumption ==
  /\ NoETag \notin ETags
  /\ NoEntry \notin Entry
  /\ NoReply \notin Reply
  /\ NoBody \notin Body
  /\ Update \notin Query
  /\ Done \notin Contents \cup {NoValue}
  /\ NoValue \notin Contents

VARIABLES
  index,   \* the version of the index Solr's current searcher sees
  cache,   \* [Keys -> Entry \cup {NoEntry}]
  pc,      \* [Threads -> {"idle", "waiting"}]
  call,    \* the operation a thread is in, or was last in
  cached,  \* the local variable of Get: the entry read before sending
  reply,   \* what Solr answered, until the thread has consumed it
  result,  \* what the last call returned or threw
  window   \* history: the versions current since the call began

vars == <<index, cache, pc, call, cached, reply, result, window>>

TypeOK ==
  /\ index \in Versions
  /\ cache \in [Keys -> Entry \cup {NoEntry}]
  /\ pc \in [Threads -> {"idle", "waiting"}]
  /\ call \in [Threads -> Query \cup {Update}]
  /\ cached \in [Threads -> Entry \cup {NoEntry}]
  /\ reply \in [Threads -> Reply \cup {NoReply}]
  /\ result \in [Threads -> Outcome]
  /\ window \in [Threads -> SUBSET Versions]

Init ==
  /\ index \in Versions
  /\ cache = [k \in Keys |-> NoEntry]
  /\ pc = [t \in Threads |-> "idle"]
  /\ call = [t \in Threads |-> Update]
  /\ cached = [t \in Threads |-> NoEntry]
  /\ reply = [t \in Threads |-> NoReply]
  /\ result = [t \in Threads |-> NoValue]
  /\ window = [t \in Threads |-> {}]

-----------------------------------------------------------------------------
(* The caller's side, up to the blocking call. *)

Begin(t, c, entry) ==
  /\ pc[t] = "idle"
  /\ pc' = [pc EXCEPT ![t] = "waiting"]
  /\ call' = [call EXCEPT ![t] = c]
  /\ cached' = [cached EXCEPT ![t] = entry]
  /\ reply' = [reply EXCEPT ![t] = NoReply]
  /\ result' = [result EXCEPT ![t] = NoValue]
  /\ window' = [window EXCEPT ![t] = {index}]
  /\ UNCHANGED <<index, cache>>

\* SolrConnection.Get: the cache is read here, before the request is sent.
Get(t, u) == Begin(t, [via |-> "GET", url |-> u], cache[KeyOf[u]])

\* PostSolrConnection.Get: a query sent as a form, past the cache.
PostGet(t, u) == Begin(t, [via |-> "POST", url |-> u], NoEntry)

\* Post and PostStream.
PostStream(t) == Begin(t, Update, NoEntry)

-----------------------------------------------------------------------------
(* Solr and the network. *)

SeenBy(v) == [t \in Threads |-> IF pc[t] = "idle" THEN window[t]
                                ELSE window[t] \cup {v}]

Answer(t, r) ==
  /\ pc[t] = "waiting"
  /\ reply[t] = NoReply
  /\ reply' = [reply EXCEPT ![t] = r]
  /\ UNCHANGED <<cache, pc, call, cached, result>>

\* A full answer, with or without an ETag, cacheable or not.
SolrAnswers(t) ==
  /\ call[t] \in Query
  /\ \E e \in {ETag[index], NoETag}, nc \in BOOLEAN :
       Answer(t, [status |-> "ok", etag |-> e,
                  body |-> [url |-> call[t].url, version |-> index, noCache |-> nc]])
  /\ UNCHANGED <<index, window>>

\* 304: the request carried If-None-Match and the validator is current.
SolrNotModified(t) ==
  /\ cached[t] # NoEntry
  /\ cached[t].etag = ETag[index]
  /\ Answer(t, [status |-> "notModified", etag |-> NoETag, body |-> NoBody])
  /\ UNCHANGED <<index, window>>

\* An update was carried out; a commit changes what searches see.
SolrUpdates(t) ==
  /\ call[t] = Update
  /\ index' \in Versions
  /\ window' = SeenBy(index')
  /\ Answer(t, [status |-> "ok", etag |-> NoETag, body |-> NoBody])

\* 4xx or 5xx.
SolrRefuses(t) ==
  /\ Answer(t, [status |-> "error", etag |-> NoETag, body |-> NoBody])
  /\ UNCHANGED <<index, window>>

\* Other clients, automatic commits, replication, and updates that are
\* carried out after their caller has given up.
SolrChanges ==
  /\ index' \in Versions \ {index}
  /\ window' = SeenBy(index')
  /\ UNCHANGED <<cache, pc, call, cached, reply, result>>

\* HttpRuntime.Cache drops entries: sliding expiration or memory pressure.
\* NullCache is the cache that drops every entry as soon as it is added.
Evict(k) ==
  /\ cache[k] # NoEntry
  /\ cache' = [cache EXCEPT ![k] = NoEntry]
  /\ UNCHANGED <<index, pc, call, cached, reply, result, window>>

-----------------------------------------------------------------------------
(* The caller's side, after the blocking call. *)

Finish(t, outcome) ==
  /\ pc[t] = "waiting"
  /\ pc' = [pc EXCEPT ![t] = "idle"]
  /\ reply' = [reply EXCEPT ![t] = NoReply]
  /\ cached' = [cached EXCEPT ![t] = NoEntry]
  /\ result' = [result EXCEPT ![t] = outcome]
  /\ UNCHANGED <<index, call, window>>

IsOk(t) == reply[t] # NoReply /\ reply[t].status = "ok"

\* GetResponse: a response marked no-cache loses its ETag.
UsableETag_ignoresCacheControl(r) == r.etag
UsableETag(r) == IF r.body.noCache THEN NoETag ELSE r.etag

CacheAdd_keepsOldETag(t, r) ==
  LET old == cached[t]
  IN  cache' = IF UsableETag(r) = NoETag THEN cache
               ELSE [cache EXCEPT ![KeyOf[call[t].url]] =
                       [etag |-> IF old = NoEntry THEN UsableETag(r) ELSE old.etag,
                        data |-> r.body]]
CacheAdd_withoutETag(t, r) ==
  cache' = [cache EXCEPT ![KeyOf[call[t].url]] =
              [etag |-> UsableETag(r), data |-> r.body]]
CacheAdd(t, r) ==
  cache' = IF UsableETag(r) = NoETag THEN cache
           ELSE [cache EXCEPT ![KeyOf[call[t].url]] =
                   [etag |-> UsableETag(r), data |-> r.body]]

\* A GET answered in full: the answer is cached, then returned.
FinishGet(t) ==
  /\ call[t] \in Query
  /\ call[t].via = "GET"
  /\ IsOk(t)
  /\ CacheAdd(t, reply[t])
  /\ Finish(t, Content(reply[t].body))

\* 304: the entry read before the request was sent is returned.
CachedData_readAgain(t) ==
  IF cache[KeyOf[call[t].url]] = NoEntry THEN cached[t].data
  ELSE cache[KeyOf[call[t].url]].data
CachedData(t) == cached[t].data

FinishNotModified(t) ==
  /\ reply[t] # NoReply
  /\ reply[t].status = "notModified"
  /\ Finish(t, Content(CachedData(t)))
  /\ UNCHANGED cache

\* PostSolrConnection.Get: the answer is returned, the cache is not touched.
FinishPostGet(t) ==
  /\ call[t] \in Query
  /\ call[t].via = "POST"
  /\ IsOk(t)
  /\ Finish(t, Content(reply[t].body))
  /\ UNCHANGED cache

FinishPost(t) ==
  /\ call[t] = Update
  /\ IsOk(t)
  /\ Finish(t, Done)
  /\ UNCHANGED cache

\* An error status: SolrConnectionException with the body Solr sent.
ThrowOnStatus_asSuccess(t) ==
  /\ reply[t] # NoReply
  /\ reply[t].status = "error"
  /\ Finish(t, IF call[t] = Update THEN Done ELSE NoValue)
  /\ UNCHANGED cache
ThrowOnStatus(t) ==
  /\ reply[t] # NoReply
  /\ reply[t].status = "error"
  /\ Finish(t, NoValue)
  /\ UNCHANGED cache

\* No response at all (refused, reset, timed out), or a body that cannot be
\* read to its end: an exception, at any moment of the wait and whether or
\* not Solr has already done what was asked.
ThrowOnNetwork(t) ==
  /\ Finish(t, NoValue)
  /\ UNCHANGED cache

-----------------------------------------------------------------------------
Caller(t) ==
  \/ \E u \in Urls : Get(t, u) \/ PostGet(t, u)
  \/ PostStream(t)
  \/ FinishGet(t)
  \/ FinishNotModified(t)
  \/ FinishPostGet(t)
  \/ FinishPost(t)
  \/ ThrowOnStatus(t)
  \/ ThrowOnNetwork(t)

Solr(t) == SolrAnswers(t) \/ SolrNotModified(t) \/ SolrUpdates(t) \/ SolrRefuses(t)

Next ==
  \/ \E t \in Threads : Caller(t) \/ Solr(t)
  \/ SolrChanges
  \/ \E k \in Keys : Evict(k)

Spec == Init /\ [][Next]_vars

-----------------------------------------------------------------------------
(* Properties *)

\* Every entry of the cache holds the answer to the URL it is filed under,
\* computed from the very contents its ETag stands for: what makes it right
\* to answer a later query from it when Solr says 304.
EntryFits(u, e) ==
  /\ e.data.url = u
  /\ e.etag = ETag[e.data.version]

CacheCoherent ==
  \A u \in Urls : cache[KeyOf[u]] # NoEntry => EntryFits(u, cache[KeyOf[u]])

\* What a call holds while it waits is as sound as the cache: the entry it
\* captured belongs to its own URL, an answer was computed for its own URL
\* during the call, and a 304 was earned by the captured entry, whose contents
\* were current again when Solr sent it.
Sound(t) ==
  /\ pc[t] = "idle" => reply[t] = NoReply
  /\ pc[t] = "waiting" => index \in window[t]
  /\ pc[t] = "waiting" /\ cached[t] # NoEntry =>
       call[t] \in Query /\ EntryFits(call[t].url, cached[t])
  /\ IsOk(t) /\ call[t] \in Query =>
       /\ reply[t].body \in Body
       /\ reply[t].body.url = call[t].url
       /\ reply[t].body.version \in window[t]
       /\ reply[t].etag \in {NoETag, ETag[reply[t].body.version]}
  /\ reply[t] # NoReply /\ reply[t].status = "notModified" =>
       cached[t] # NoEntry /\ cached[t].data.version \in window[t]

InFlight == \A t \in Threads : Sound(t)

\* A query returns the answer to the URL it asked for, from contents the
\* index had at some moment between the call and the return: never what
\* another thread left in the cache before that, never an older answer whose
\* entry was replaced while the request was on its way.
Freshness ==
  \A t \in Threads :
    pc[t] = "idle" /\ result[t] \in Contents =>
      /\ result[t].url = call[t].url
      /\ result[t].version \in window[t]

\* A response that Solr marked no-cache is never kept, whatever ETag came
\* with it.
NoCacheHonoured ==
  \A k \in Keys : cache[k] # NoEntry => ~cache[k].data.noCache

\* The inductive invariant: the properties above and what a waiting call holds.
IInv == TypeOK /\ CacheCoherent /\ InFlight /\ Freshness /\ NoCacheHonoured

\* The connection implements SolrService: a query takes effect when Solr
\* answers it (a 304 stands for the captured entry), an update when Solr
\* carries it out, and only then can the call return without an exception.
Serving(t) == reply[t] # NoReply /\ reply[t].status # "error"

Stage(t) == CASE pc[t] = "idle" -> "idle"
              [] pc[t] # "idle" /\ Serving(t) -> "served"
              [] pc[t] # "idle" /\ ~Serving(t) -> "called"

\* What the call is bound to return, unless it throws.
Promised(t) ==
  IF ~Serving(t) THEN NoValue
  ELSE IF call[t] = Update THEN Done
  ELSE IF reply[t].status = "ok" THEN Content(reply[t].body)
  ELSE Content(cached[t].data)

Service == INSTANCE SolrService WITH
  Queries <- Query,
  stage <- [t \in Threads |-> Stage(t)],
  asked <- call,
  answer <- [t \in Threads |-> Promised(t)],
  returned <- result

ServiceSpec == Service!Spec
=============================================================================
