------------------------------- MODULE Index -------------------------------
(***************************************************************************)
(* What an update does to a Solr index, as SolrNet's commands rely on it   *)
(* (external).  Updates are written; a commit makes what is written        *)
(* durable; a new searcher makes what is committed visible.                *)
(***************************************************************************)
EXTENDS Naturals, Sequences

CONSTANTS
  Texts,   \* the values of the unique key field
  Bodies   \* the rest of a document

Flag == {"null", "true", "false"}           \* bool?
Kind == {"none", "index", "data", "instance"}  \* what an unloaded core leaves behind it

Stored == [id : Texts, body : Bodies]

Contents == [loaded : BOOLEAN, written : SUBSET Stored,
             committed : SUBSET Stored, searched : SUBSET Stored]

\* Later documents replace earlier ones of the same id.
Write(ix, docs, overwrite) ==
  LET all == {docs[i] : i \in DOMAIN docs}
      last == {docs[i] : i \in {k \in DOMAIN docs :
                \A j \in DOMAIN docs : j > k => docs[j].id # docs[k].id}}
      kept == {d \in ix.written : \A e \in all : e.id # d.id}
  IN [ix EXCEPT !.written =
        IF overwrite = "false" THEN ix.written \cup all ELSE kept \cup last]

Remove(ix, ids, bodies) ==
  [ix EXCEPT !.written = {d \in ix.written : d.id \notin ids /\ d.body \notin bodies}]

Flush(ix) == [ix EXCEPT !.committed = ix.written]

Open(ix) == [ix EXCEPT !.searched = ix.committed]

Discard(ix) == [ix EXCEPT !.written = ix.committed]

\* Without waiting, the searcher is opened later.
Commit(ix, waitSearcher) ==
  IF waitSearcher = "false" THEN Flush(ix) ELSE Open(Flush(ix))

\* A core that is closed, or dies, may or may not keep what was not committed.
Closed(ix) == {Flush(ix), Discard(ix)}

Unload(ix, delete) ==
  {[loaded |-> FALSE, searched |-> {},
    written |-> IF delete = "none" THEN c.written ELSE {},
    committed |-> IF delete = "none" THEN c.written ELSE {}] : c \in Closed(ix)}

Load(ix) == Open([ix EXCEPT !.loaded = TRUE])

\* A new core opens the directory of the one that is loaded and takes over from
\* it; the old one may be closed before or after.
TakeOver(ix) == {Open(c) : c \in {ix} \cup Closed(ix)}

Create(ix) == IF ix.loaded THEN TakeOver(ix) ELSE {Load(ix)}
=============================================================================
