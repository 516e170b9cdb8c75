------------------------------ MODULE Callback ------------------------------
(***************************************************************************)
(* parse_authorization_response (src/src/flow/callback.rs) on the fields of *)
(* a query.  A name or a value is abstracted to the set of kinds of byte    *)
(* that occur in it, the empty set for the empty string; a name is one of   *)
(* those the parser asks for or that of an extension.                       *)
(*                                                                         *)
(* A definition X_Y is X with a plausible mistake in it, which some        *)
(* property must notice.                                                   *)
(***************************************************************************)
EXTENDS Sequences, Integers

CONSTANT None

Option(S) == S \cup {None}

Given == {"code", "error", "error_description", "error_uri", "state", "iss"}
Names == Given \cup {"extension", "malformed"}

\* Kinds of byte after decoding: letters and most signs, the space (written as
\* a plus sign or an escape), the quote and backslash, control characters and
\* anything that is not ASCII; and what does not decode.
NotDecodable == {"bad escape", "bad UTF-8"}
Kinds == {"plain", "space", "quote", "control", "wide"} \cup NotDecodable
VsChars == {"plain", "space", "quote"}
NqsChars == {"plain", "space"}
UriChars == {"plain"}

Fields == [name : Names, value : SUBSET Kinds]

ASSUME NoneIsNoValue == \A v \in SUBSET Kinds : v # None

\* validate_form_encoding, of names as of values.
WellEncoded(fields) ==
  \A i \in DOMAIN fields :
    fields[i].name # "malformed" /\ fields[i].value \cap NotDecodable = {}

\* The duplicate check, of every name, an empty value or not.
Repeats(fields) == \E i, j \in DOMAIN fields : i < j /\ fields[i].name = fields[j].name

\* parameter: the first value under a name, absent if that is empty.
Parameter_KeepsEmpty(fields, name) ==
  IF \E i \in DOMAIN fields : fields[i].name = name
  THEN fields[CHOOSE i \in DOMAIN fields :
                fields[i].name = name /\ \A j \in 1..(i - 1) : fields[j].name # name].value
  ELSE None
Parameter(fields, name) ==
  LET named == {i \in DOMAIN fields : fields[i].name = name}
      first == fields[CHOOSE i \in named : \A j \in named : i <= j].value
  IN  IF named = {} \/ first = {} THEN None ELSE first

Refused(why) == [kind |-> "refused", why |-> why]

\* validate_chars
Violates(value, allowed) == value # None /\ ~(value \subseteq allowed)

\* The branch for an OP error.
ErrorResponse(p) ==
  IF Violates(p["error"], NqsChars) THEN Refused("invalid error")
  ELSE IF Violates(p["error_description"], NqsChars) THEN Refused("invalid error_description")
  ELSE IF Violates(p["error_uri"], UriChars) THEN Refused("invalid error_uri")
  ELSE IF p["state"] = None THEN Refused("missing state")
  ELSE IF Violates(p["state"], VsChars) THEN Refused("invalid state")
  ELSE [kind |-> "error", error |-> p["error"], description |-> p["error_description"],
        error_uri |-> p["error_uri"], state |-> p["state"], iss |-> p["iss"]]

\* The branch for a code.
SuccessResponse(p) ==
  IF p["code"] = None THEN Refused("missing code")
  ELSE IF p["state"] = None THEN Refused("missing state")
  ELSE IF Violates(p["code"], VsChars) THEN Refused("invalid code")
  ELSE IF Violates(p["state"], VsChars) THEN Refused("invalid state")
  ELSE [kind |-> "success", code |-> p["code"], state |-> p["state"], iss |-> p["iss"]]

Ambiguous(p) ==
  p["code"] # None /\ \E n \in {"error", "error_description", "error_uri"} : p[n] # None

ParseAuthorizationResponse(fields) ==
  LET p == [n \in Given |-> Parameter(fields, n)]
  IN  IF ~WellEncoded(fields) THEN Refused("encoding")
      ELSE IF Repeats(fields) THEN Refused("duplicate")
      ELSE IF Ambiguous(p) THEN Refused("ambiguous")
      ELSE IF p["error"] # None THEN ErrorResponse(p)
      ELSE IF p["error_description"] # None \/ p["error_uri"] # None THEN Refused("missing error")
      ELSE SuccessResponse(p)
=============================================================================
