------------------------- MODULE MCMetadataRefresh -------------------------
(* MetadataRefresh on small values.  Of three documents the first two share *)
(* a jwks_uri and the third has its own.                                    *)
EXTENDS MetadataRefreshProps, TLC

CONSTANTS uriA, uriB

Header(maxAge, date, mustRevalidate, noStore) ==
  [directives |-> [maxAge |-> maxAge, noCache |-> FALSE, noStore |-> noStore,
                   mustRevalidate |-> mustRevalidate],
   expires |-> None, date |-> date, age |-> None]

\* no freshness of its own; strict, and fresh until 3; not to be stored
MCResponse == {Header(None, None, FALSE, FALSE), Header(3, 0, TRUE, FALSE),
               Header(None, None, FALSE, TRUE)}

MCJwksUri == [v \in 0..MaxVersion |-> IF v <= 1 THEN uriA ELSE uriB]
\* two documents, each with its own
MCJwksUri2 == [v \in 0..MaxVersion |-> IF v = 0 THEN uriA ELSE uriB]

Symmetry == Permutations(Caller)
=============================================================================
