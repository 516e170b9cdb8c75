---------------------------- MODULE MCDiscovery ----------------------------
(* Discovery on one host with three issuers at one discovery URL and two at *)
(* another.                                                                *)
EXTENDS Discovery

Text(spelling, path) ==
  [scheme |-> "https", spelling |-> spelling, path |-> path, query |-> FALSE]

MCIssuer ==
  {Text("lower", ""), Text("lower", "/"), Text("upper", ""), Text("lower", "/t"),
   Text("lower", "/t/"), [Text("lower", "") EXCEPT !.scheme = "http"],
   [Text("lower", "") EXCEPT !.query = TRUE]}

Good(i) ==
  [issuer |-> i, responseTypes |-> TRUE, subjectTypes |-> TRUE, algs |-> {"RS256"},
   jwks |-> [scheme |-> "https", host |-> "keys", base |-> "/1"]]

MCDocument ==
  LET plain == Text("lower", "")
  IN  {Garbled} \cup {Good(i) : i \in MCIssuer}
        \cup {[Good(i) EXCEPT !.jwks.base = "/2"] : i \in {plain, Text("lower", "/t")}}
        \cup {[Good(plain) EXCEPT !.algs = {"none", "HS256"}],
              [Good(plain) EXCEPT !.jwks.scheme = "http"],
              [Good(plain) EXCEPT !.responseTypes = FALSE],
              [Good(plain) EXCEPT !.subjectTypes = FALSE]}
=============================================================================
