----------------------------- MODULE Validation -----------------------------
(***************************************************************************)
(* A mapping checked against a Solr schema: the four rules that Startup    *)
(* registers (SolrNet/Mapping/Validation), over the part of the schema     *)
(* that SolrSchemaParser reads, and the fields that SolrDocumentSerializer *)
(* sends of a document under the same mapping.                             *)
(*                                                                         *)
(* Which documents Solr then takes is not asked: that also depends on what *)
(* these rules do not read, such as the types of the fields and their      *)
(* default values.                                                         *)
(***************************************************************************)
EXTENDS Mapping

CONSTANTS
  Collections,  \* the properties of a collection type
  Unchecked,    \* score, geo_distance and the names with a star in them
  Schemas,      \* the schemas the server may have
  Thrown        \* an exception instead of results

VARIABLE schema

\* What SolrSchemaParser reads of a schema: explicit fields with their own
\* attributes (one that is not stated is false, whatever the field's type
\* says), the names that the dynamic fields match, the copy fields and the
\* unique key.
Attributes == [required : BOOLEAN, multiValued : BOOLEAN]
SolrSchemas ==
  [fields : UNION {[D -> Attributes] : D \in SUBSET Names},
   dynamic : SUBSET Names,
   copies : SUBSET (Names \X Names),
   uniqueKey : Names \cup {None}]

ASSUME ValidationAssumption ==
  /\ Collections \subseteq Properties
  /\ Unchecked \subseteq Names
  /\ Schemas \subseteq SolrSchemas

validationVars == <<mappings, uniqueKeys, schema>>

Required == {f \in DOMAIN schema.fields : schema.fields[f].required}

-----------------------------------------------------------------------------
(* The rules, each as the set of fields it reports an error for *)

MappedPropertiesIsInSolrSchema(t) ==
  (DOMAIN GetFields(t) \ Unchecked) \ (DOMAIN schema.fields \cup schema.dynamic)

Copied == {c[2] : c \in schema.copies}

\* Without the fields of the base classes.
RequiredFieldsAreMapped_ownFields(t) == Required \ (DOMAIN mappings[t] \cup Copied)

RequiredFieldsAreMapped(t) == Required \ (DOMAIN GetFields(t) \cup Copied)

\* Goes by the name stored with the key.  No declared key is only worth a
\* warning.
UniqueKeyMatchesMapping(t) ==
  LET mappedKey == GetUniqueKey(t)
  IN IF mappedKey # None /\ mappedKey.field # schema.uniqueKey THEN {mappedKey.field} ELSE {}

\* FindSolrFieldByName knows nothing of dynamic fields.
MultivaluedMappedToCollection(t) ==
  {f \in DOMAIN GetFields(t) \cap DOMAIN schema.fields :
     schema.fields[f].multiValued # (GetFields(t)[f] \in Collections)}

\* The first rule asks for the fields first, so that on a clash the
\* enumeration throws before it yields anything.
EnumerateValidationResults(t) ==
  IF Clash(t) THEN Thrown
  ELSE <<MappedPropertiesIsInSolrSchema(t), RequiredFieldsAreMapped(t),
         UniqueKeyMatchesMapping(t), MultivaluedMappedToCollection(t)>>

NoErrors(t) == ~Clash(t) /\ \A i \in 1..4 : EnumerateValidationResults(t)[i] = {}

\* The fields of a document with all its properties set.  The serializer goes
\* by the type the document has at run time.
Serialize(d) == DOMAIN GetFields(d)

-----------------------------------------------------------------------------
(* The mapping is built up while the server has some schema *)

ValidationInit == Init /\ schema \in Schemas

ValidationNext == Next /\ UNCHANGED schema

ValidationSpec == ValidationInit /\ [][ValidationNext]_validationVars

-----------------------------------------------------------------------------
(* Properties *)

\* The validator checks the mapping of T, the serializer sends the fields of
\* the document's own type (SolrDocumentSerializer.cs:46).
\* What the validation of T did not see of a subclass is in the fields the
\* subclass adds and in a key set on a class that T does not derive from:
\* an inherited field or key does not go wrong, nor a required field missing.
SubclassesErrAlone ==
  \A d \in Types : \A t \in Bases[d] : ~Clash(d) /\ NoErrors(t) =>
    /\ MappedPropertiesIsInSolrSchema(d) \cup MultivaluedMappedToCollection(d)
         \subseteq Serialize(d) \ Serialize(t)
    /\ RequiredFieldsAreMapped(d) = {}
    /\ UniqueKeyMatchesMapping(d) # {} => Owner(GetUniqueKey(d)) \notin Bases[t]
=============================================================================
