--------------------------- MODULE MCIdTokenClaims ---------------------------
(* IdTokenClaimsProps on small values.  Transactions, and access tokens, are *)
(* alike.                                                                    *)
EXTENDS IdTokenClaimsProps, TLC

MCOffsets == {-1, 0, 1}

Symmetry == Permutations(Tx) \cup Permutations(Access)
=============================================================================
