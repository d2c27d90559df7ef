----------------------------- MODULE MCStartup -----------------------------
(* Startup on a small instance: connections of two classes. *)
EXTENDS Startup

CONSTANTS d1, c1, c2, c3, http, logging

MCConnType == [c \in Conns |-> IF c = c3 THEN logging ELSE http]

\* A service of the library's and one of a document type's.
MCReplaceable ==
  {<<"IReadOnlyMappingManager", NoDoc>>, <<"ISolrDocumentSerializer", d1>>}

\* The copy is only made before any Init: what it holds of a document type is
\* nothing to the properties of this run, and multiplies the states.
MCEarlyCopy ==
  \A d \in Docs : Default(containers["copy"], <<"ISolrDocumentActivator", d>>) = NoFactory
=============================================================================
