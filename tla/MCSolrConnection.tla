-------------------------- MODULE MCSolrConnection --------------------------
(* SolrConnection on a small instance: two threads, two URLs. *)
EXTENDS SolrConnection, TLC

\* A URL is its own cache key, an index version its own ETag.
MCKeyOf == [u \in Urls |-> u]
MCETag == [v \in Versions |-> v]

\* Nothing tells two threads, two URLs or two versions apart.
MCSymmetry ==
  Permutations(Threads) \cup Permutations(Urls) \cup Permutations(Versions)
=============================================================================
