----------------------------- MODULE MCCallback -----------------------------
(* CallbackGrowth on queries of few fields, with every kind of value where  *)
(* it is allowed and where it is not.                                       *)
EXTENDS CallbackGrowth

F(name, value) == [name |-> name, value |-> value]

MCFieldChoices ==
  {F(n, v) : n \in {"code", "state"}, v \in {{}, {"plain"}, {"quote", "space"}, {"control"}}}
    \cup {F("error", v) : v \in {{}, {"plain"}, {"space"}, {"quote"}}}
    \cup {F("error_description", v) : v \in {{"space"}, {"wide"}}}
    \cup {F("error_uri", v) : v \in {{"plain"}, {"space"}}}
    \cup {F("iss", {"wide"}), F("extension", {"bad UTF-8"}), F("extension", {}),
          F("malformed", {})}
=============================================================================
