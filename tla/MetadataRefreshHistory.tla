----------------------- MODULE MetadataRefreshHistory -----------------------
(***************************************************************************)
(* MetadataRefresh with two history variables that no code reads, for the  *)
(* properties that speak of an earlier step.                               *)
(***************************************************************************)
EXTENDS MetadataRefresh

\* An Instant reaches further than MAX_DELTA_SECONDS, the last HTTP date and the
\* default interval; only an interval or a minimum of the caller may not fit.
ASSUME StatedFreshnessFits ==
  /\ DefaultInterval <= MaxInstant
  /\ \A r \in Response :
       /\ r.directives.maxAge # None => MaxTime + r.directives.maxAge <= MaxInstant
       /\ r.expires \in Nat => MaxTime + r.expires <= MaxInstant

VARIABLES
  quietUntil,  \* no stale check should send a request before this time
  joined       \* tasks that waited while, at this instant, a request of
               \* another task failed

hvars == <<vars, quietUntil, joined>>

HInit ==
  /\ Init
  /\ quietUntil = IF provider.interval = None THEN 0 ELSE RefreshDeadline(DefaultMinimum)
  /\ joined = {}

Waiting == {c \in Caller : pc[c] = "queued" /\ ~forced[c]}

\* A publication buys the minimum cache duration, unless its freshness has no
\* representable end, which counts as none (client.rs:64).
HSucceeds(c) ==
  /\ Succeeds(c)
  /\ quietUntil' = IF provider.interval # None /\ CheckedAdd(clock, provider.interval) = None
                     THEN clock ELSE RefreshDeadline(provider.minimum)
  /\ UNCHANGED joined

\* A failure behind which the stale snapshot is served buys the retry interval,
\* or what is left of the stale window.
HFails(c) ==
  /\ RequestFails(c)
  /\ quietUntil' = IF result'[c] = Failed THEN quietUntil
                   ELSE Smaller(clock + RetryInterval, provider.staleUntil)
  /\ joined' = joined \cup Waiting

\* Every setter lifts the suppression of retries.
HSetter ==
  /\ Setter
  /\ quietUntil' = 0
  /\ UNCHANGED joined

HOther(c) ==
  /\ \/ StaleCheck(c) \/ ForceRefresh(c) \/ FindsFresh(c) \/ SendDiscovery(c)
     \/ DiscoveryNewKeys(c) \/ Cancel(c)
  /\ joined' = IF pc'[c] = "queued" THEN joined ELSE joined \ {c}
  /\ UNCHANGED quietUntil

HNext ==
  \/ Tick /\ joined' = {} /\ UNCHANGED quietUntil
  \/ ProviderUpdates /\ UNCHANGED <<quietUntil, joined>>
  \/ HSetter
  \/ \E c \in Caller : HSucceeds(c) \/ HFails(c) \/ HOther(c)

HSpec == HInit /\ [][HNext]_hvars

-----------------------------------------------------------------------------
SendsUnforced(c) == ~forced[c] /\ pc[c] = "queued" /\ pc'[c] = "discovering"

\* Stale checks of all tasks together are rate-limited: after a publication none
\* of them sends a request for the minimum cache duration, and after a failure
\* that was masked none does for the retry interval, however many were already
\* waiting for the lock at the time (client.rs:22-23 and 28-29).
StaleChecksAreSpaced ==
  [][ \A c \in Caller : SendsUnforced(c) => clock >= quietUntil ]_hvars

\* "Concurrent stale checks share one refresh" (client.rs:319): a stale check
\* that waited while another task's request failed does not repeat the request
\* at the same instant.  The code does so when the snapshot has no stale window.
ConcurrentChecksShareOne ==
  [][ \A c \in Caller : SendsUnforced(c) => c \notin joined ]_hvars
=============================================================================
