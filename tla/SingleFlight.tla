---------------------------- MODULE SingleFlight ----------------------------
(***************************************************************************)
(* What metadata_refresh_lock of src/src/client.rs is there for: one cached *)
(* document, fetched anew by at most one request at a time, and replaced    *)
(* only by a document the provider served after that request was sent.      *)
(***************************************************************************)
EXTENDS Integers

CONSTANTS
  None,       \* no request in flight
  MaxVersion  \* bound: documents the provider publishes, 0..MaxVersion

VARIABLES
  latest,  \* the version the provider serves now
  cached,  \* the version the client uses
  flight   \* None, or the version served when the request was sent

vars == <<latest, cached, flight>>

Init == latest = 0 /\ cached = 0 /\ flight = None

Update ==
  /\ latest < MaxVersion
  /\ latest' = latest + 1
  /\ UNCHANGED <<cached, flight>>

Send ==
  /\ flight = None
  /\ flight' = latest
  /\ UNCHANGED <<latest, cached>>

\* The answer is any version served since.
Land ==
  /\ flight # None
  /\ cached' \in flight..latest
  /\ flight' = None
  /\ UNCHANGED latest

\* The request fails, or whoever waits for it gives up.
Abort ==
  /\ flight # None
  /\ flight' = None
  /\ UNCHANGED <<latest, cached>>

Next == Update \/ Send \/ Land \/ Abort

Spec == Init /\ [][Next]_vars
=============================================================================
