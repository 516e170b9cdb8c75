--------------------------- MODULE CallbackGrowth ---------------------------
(***************************************************************************)
(* A callback query to which fields are appended one at a time, by the      *)
(* provider or on the way, and what the parser makes of it.                  *)
(***************************************************************************)
EXTENDS Callback, FiniteSets

CONSTANTS
  FieldChoices,  \* the fields that may appear
  MaxFields      \* bound: fields of one query

ASSUME FieldsAreFields == FieldChoices \subseteq Fields /\ MaxFields \in Nat

VARIABLE query

Response == ParseAuthorizationResponse(query)

Init == query = <<>>

AppendField ==
  /\ Len(query) < MaxFields
  /\ \E f \in FieldChoices : query' = Append(query, f)

Spec == Init /\ [][AppendField]_query

-----------------------------------------------------------------------------
\* What RFC 6749 says of a response as a set of fields, in no order of checks.
Value(name) == {f.value : f \in {query[i] : i \in DOMAIN query} \cap [name : {name}, value : SUBSET Kinds]} \ {{}}
Sane ==
  /\ \A i \in DOMAIN query : query[i].name # "malformed" /\ query[i].value \cap NotDecodable = {}
  /\ Cardinality({query[i].name : i \in DOMAIN query}) = Len(query)
  /\ Value("state") # {} /\ Value("state") \subseteq SUBSET VsChars
IsSuccess ==
  /\ Sane
  /\ Value("code") # {} /\ Value("code") \subseteq SUBSET VsChars
  /\ Value("error") \cup Value("error_description") \cup Value("error_uri") = {}
IsError ==
  /\ Sane
  /\ Value("error") # {} /\ Value("code") = {}
  /\ Value("error") \cup Value("error_description") \subseteq SUBSET NqsChars
  /\ Value("error_uri") \subseteq SUBSET UriChars

\* The parser's chain of checks and early returns accepts what the rules of RFC
\* 6749 allow, no more and no less, and takes it for what it is: no check
\* shadows another one, no order of fields, which a proxy may change, makes a
\* difference, and nothing appended turns an accepted response into another
\* (callback.rs:103-156).
AcceptsByTheRules ==
  /\ Response.kind = "success" <=> IsSuccess
  /\ Response.kind = "error" <=> IsError
  /\ Response.kind # "refused" => Value("state") = {Response.state}
  /\ IsSuccess => Value("code") = {Response.code}
  /\ Response.kind # "refused" => Value("iss") = {Response.iss} \ {None}
=============================================================================
