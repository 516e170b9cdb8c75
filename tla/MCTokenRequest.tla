--------------------------- MODULE MCTokenRequest ---------------------------
(* TokenRequest for a public and a confidential client with small builders,  *)
(* an endpoint that has a query of its own, and lists that are absent, lack  *)
(* a method, or change.                                                      *)
EXTENDS TokenRequest, TLC

MCDocument ==
  (0 :> [query |-> <<>>, methods |-> None])
    @@ (1 :> [query |-> P("tenant", "x"), methods |-> {"client_secret_post", "client_secret_basic", "none"}])
    @@ (2 :> [query |-> <<>>, methods |-> {"client_secret_post"}])
MCExtras == {[name |-> "acr_values", value |-> "a"], [name |-> "login_hint", value |-> "b"]}
MCScopes == {{"openid"}, {"email"}}
=============================================================================
