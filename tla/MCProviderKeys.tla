--------------------------- MODULE MCProviderKeys ---------------------------
(* ProviderKeys with a provider that moves its keys, narrows its algorithms  *)
(* and moves the keys back, and whose list for UserInfo is absent, holds one *)
(* it may not use, or names one algorithm.                                   *)
EXTENDS ProviderKeys, TLC

CONSTANTS k1, k2, u1, u2, s1, s2

MCKeyAlg == (k1 :> "RS256") @@ (k2 :> "HS256")
MCExpected == [c \in Call |-> s1]
MCDocument ==
  (0 :> [uri |-> u1, algs |-> {"RS256", "HS256"}, endpoint |-> TRUE, userinfoAlgs |-> None])
    @@ (1 :> [uri |-> u2, algs |-> {"RS256"}, endpoint |-> TRUE, userinfoAlgs |-> {"RS256", "HS256"}])
    @@ (2 :> [uri |-> u1, algs |-> {"RS256", "none"}, endpoint |-> FALSE, userinfoAlgs |-> {"RS256"}])
=============================================================================
