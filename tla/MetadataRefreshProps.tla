------------------------ MODULE MetadataRefreshProps ------------------------
(***************************************************************************)
(* What the provider state of a Client promises to the calls that share    *)
(* it.                                                                     *)
(***************************************************************************)
EXTENDS MetadataRefresh

Deadline == Option(0..MaxInstant)
Jwks == [uri : {JwksUri[v] : v \in Version}, filled : BOOLEAN]
ProviderState ==
  [meta : Version, jwks : Jwks,
   refreshAfter : Deadline, staleUntil : Deadline, retryAfter : Deadline,
   staleOnError : BOOLEAN, interval : Option(Nat), minimum : Nat, retain : Nat]
Snapshot == [meta : Version, jwks : Jwks, askedAt : Version]
Answer == [meta : Version, headers : Response, jwks : Jwks]

\* A call has a snapshot exactly while it refreshes, and an answer while it
\* waits for the keys of a new jwks_uri.
DataPresent ==
  \A c \in Caller :
    /\ pc[c] \in Refreshing <=> current[c] # NoSnapshot
    /\ pc[c] = "populating" <=> answer[c] # NoAnswer

CallsOK ==
  /\ lock \in Option(Caller)
  /\ pc \in [Caller -> Refreshing \cup {"idle", "queued"}]
  /\ forced \in [Caller -> BOOLEAN]
  /\ current \in [Caller -> Snapshot \cup {NoSnapshot}]
  /\ answer \in [Caller -> Answer \cup {NoAnswer}]
  /\ result \in [Caller -> Version \cup {None, Failed}]
  /\ DataPresent

\* The types of the variables; every deadline is an instant that can be
\* represented (client.rs:64-79 never lets checked_add overflow).
TypeOK ==
  /\ clock \in 0..MaxTime
  /\ published \in Version
  /\ provider \in ProviderState
  /\ calls \in [Caller -> 0..MaxCalls]
  /\ CallsOK

-----------------------------------------------------------------------------
(* Invariants.                                                             *)

\* refresh_metadata_from works on a snapshot it read before its awaits.  Its
\* metadata and key cache are still the published ones when it comes to publish,
\* whatever the other calls and the setters did: only one call is past the lock.
\* Otherwise the key cache it reuses could belong to another jwks_uri.
SnapshotStaysCurrent ==
  \A c \in Caller : pc[c] \in Refreshing =>
    /\ lock = c
    /\ current[c].meta = provider.meta
    /\ current[c].jwks = provider.jwks

\* "Metadata and keys must change as one snapshot when jwks_uri changes"
\* (client.rs:40): the key cache always reads the published document's jwks_uri,
\* and unless it is the one the client started with it was filled before anyone
\* could see it (client.rs:321-323).
KeysMatchMetadata ==
  /\ provider.jwks.uri = JwksUri[provider.meta]
  /\ (JwksUri[provider.meta] # JwksUri[0]) => provider.jwks.filled

\* disable_metadata_refresh wins over a refresh in flight and over every other
\* setter: without an interval no deadline is left that could start a stale
\* check, and with one the snapshot always has a freshness deadline.
DisabledMeansNoDeadlines ==
  /\ provider.interval = None <=> provider.refreshAfter = None
  /\ provider.interval = None => provider.staleUntil = None /\ provider.retryAfter = None

\* Whatever order settings and refreshes came in, the stale window is the one
\* the current freshness deadline, response policy and retention imply.
StaleWindowFollowsFreshness ==
  provider.staleUntil =
    IF provider.refreshAfter = None THEN None
    ELSE StaleDeadline(provider.refreshAfter, provider.staleOnError, provider.retain)

\* A deferred retry never outlasts the stale window that pays for it: there is
\* no time at which stale metadata is neither allowed nor being refreshed.
RetryWithinStaleWindow ==
  provider.retryAfter # None =>
    provider.staleUntil # None /\ provider.retryAfter <= provider.staleUntil

\* Behind NeverGoesBack: the holder of the lock asked after the published
\* document appeared, and what it has been told is at least as new.
AnswersAreNewer ==
  /\ provider.meta <= published
  /\ lock # None => pc[lock] \in Refreshing
  /\ \A c \in Caller : pc[c] \in Refreshing =>
       provider.meta <= current[c].askedAt /\ current[c].askedAt <= published
  /\ \A c \in Caller : pc[c] = "populating" =>
       /\ current[c].askedAt <= answer[c].meta /\ answer[c].meta <= published
       /\ answer[c].jwks.uri = JwksUri[answer[c].meta]

\* The three deadlines of the snapshot agree with each other and with the
\* settings, whatever setters and refreshes wrote them and in whatever order
\* (client.rs:226-316, 393-421).
DeadlinesOK ==
  DisabledMeansNoDeadlines /\ StaleWindowFollowsFreshness /\ RetryWithinStaleWindow

\* The inductive invariant.
IInv == TypeOK /\ SnapshotStaysCurrent /\ AnswersAreNewer /\ KeysMatchMetadata /\ DeadlinesOK

-----------------------------------------------------------------------------
(* Action properties.                                                      *)

Returns(c) == pc'[c] = "idle" /\ (pc[c] # "idle" \/ calls'[c] # calls[c])

\* A refresh never replaces the published document by an older one, even when
\* the answers of the provider are slow.
NeverGoesBack == [][provider'.meta >= provider.meta]_vars

\* Only a setter changes a setting: one changed while a refresh waits for its
\* answer survives the publication of that refresh.
SettingsSurviveRefresh ==
  [][ pc' # pc => /\ provider'.interval = provider.interval
                  /\ provider'.minimum = provider.minimum
                  /\ provider'.retain = provider.retain ]_vars

\* What a stale check returns is usable at that time: the published document,
\* which is fresh, or inside its stale window, or not subject to checks, or has
\* just been fetched by this very call.
StaleCheckReturnsUsable ==
  [][ \A c \in Caller : (Returns(c) /\ result'[c] \in Version /\ ~forced[c]) =>
        /\ result'[c] = provider'.meta
        /\ \/ provider.interval = None
           \/ clock < provider.refreshAfter
           \/ provider.staleUntil # None /\ clock < provider.staleUntil
           \/ pc[c] \in Refreshing /\ result'[c] >= current[c].askedAt ]_vars

\* An outage is not visible to stale checks while the stale window is open.
OutageMasked ==
  [][ \A c \in Caller : (Returns(c) /\ result'[c] = Failed /\ ~forced[c]) =>
        provider.staleUntil = None \/ clock >= provider.staleUntil ]_vars

\* When the headers of a response end its freshness, counted from now where
\* they bear no date.
StatedEnd(r) ==
  LET dated == IF r.date = None THEN clock ELSE r.date
  IN  IF r.directives.noStore \/ r.directives.noCache THEN clock
      ELSE IF r.directives.maxAge # None THEN dated + r.directives.maxAge
      ELSE IF r.expires # None THEN IF r.expires = Malformed THEN clock ELSE r.expires
      ELSE clock + (IF provider.interval = None THEN DefaultInterval ELSE provider.interval)

\* Its directives ask for revalidation before any reuse.
ForbidsStaleUse(r) ==
  r.directives.noStore \/ r.directives.noCache \/ r.directives.mustRevalidate

\* A refresh never counts a document as fresh beyond what its own headers and
\* the caller's minimum allow, though the headers are read only after the keys
\* have arrived (client.rs:390), and gives it no stale window they forbid.
KeptAsStated ==
  [][ \A c \in Caller, v \in Version, r \in Response, j \in Jwks :
        Publish(c, v, r, j) =>
          /\ provider'.refreshAfter # None =>
               provider'.refreshAfter <= Larger(StatedEnd(r), clock + provider.minimum)
          /\ ForbidsStaleUse(r) => provider'.staleUntil = None /\ ~provider'.staleOnError ]_vars

\* A document that must not be used stale never is: no setter, failure or longer
\* retention opens a stale window for it, only a refresh that replaces it by one
\* that may be used so (client.rs:236, 262, 293).
StaleUseIsPermitted ==
  [][ (~provider.staleOnError /\ provider'.staleUntil # None) =>
        \E c \in Caller, v \in Version, r \in Response, j \in Jwks :
          Publish(c, v, r, j) /\ ~ForbidsStaleUse(r) ]_vars

\* The refresh lock does its work: seen through the lock and the snapshot of
\* its holder, the client is a cache with one request in flight at a time.
Flight == INSTANCE SingleFlight WITH
  latest <- published, cached <- provider.meta,
  flight <- IF lock = None THEN None ELSE current[lock].askedAt

ImplementsSingleFlight == Flight!Spec

-----------------------------------------------------------------------------
(* Liveness, under LiveSpec.                                               *)

\* Every call returns, those that wait for the lock included: each task makes
\* finitely many calls, so it cannot be overtaken for ever.
CallsReturn == \A c \in Caller : pc[c] # "idle" ~> pc[c] = "idle"
=============================================================================
