-------------------------- MODULE MetadataRefresh --------------------------
(***************************************************************************)
(* The provider state of a Client (src/src/client.rs): a snapshot of       *)
(* metadata and keys with its freshness deadlines, shared by concurrent    *)
(* calls that refresh it and by setters that reschedule it.                *)
(*                                                                         *)
(* A call runs between two awaits without the others being able to change  *)
(* what it reads: ProviderState is read or written under an RwLock, so one *)
(* action stands for one such stretch, and Instant::now is read once in    *)
(* it.  What runs between the actions of a call is another call, a setter, *)
(* the clock, the provider, or the cancellation of the call's future.      *)
(*                                                                         *)
(* A definition X_Y is X with a plausible mistake in it, which some        *)
(* property must notice.                                                   *)
(***************************************************************************)
EXTENDS CachePolicy

CONSTANTS
  Caller,           \* the tasks that share the client
  Failed,           \* the Err outcome of a call
  MaxVersion,       \* bound: documents the provider publishes, 0..MaxVersion
  JwksUri,          \* the jwks_uri of each version of the document
  Response,         \* cache headers of a discovery response (see TypeOK)
  DefaultInterval,  \* DEFAULT_METADATA_REFRESH_INTERVAL
  DefaultMinimum,   \* DEFAULT_METADATA_MINIMUM_CACHE_DURATION
  DefaultRetain,    \* DEFAULT_METADATA_RETAIN_ON_ERROR
  RetryInterval,    \* METADATA_REFRESH_RETRY_INTERVAL
  MaxInstant,       \* the last instant an Instant can represent
  SettableDurations,\* the durations passed to the setters
  MaxTime,          \* bound: the clock stops here
  MaxCalls          \* bound: calls started by each task

ASSUME NoneIsNoCaller == None \notin Caller
ASSUME FailedIsNoVersion == Failed \notin Int /\ Failed # None
ASSUME VersionBound == MaxVersion \in Nat
ASSUME DurationsAreNat ==
  /\ {DefaultInterval, DefaultMinimum, DefaultRetain, RetryInterval} \subseteq Nat
  /\ SettableDurations \subseteq Nat
ASSUME ClockBounds == MaxTime \in Nat /\ MaxInstant \in Nat /\ MaxTime <= MaxInstant
ASSUME CallBound == MaxCalls \in Nat
ASSUME ResponseHeaders ==
  Response \subseteq [directives : Directives, expires : Option(Nat \cup {Malformed}),
                      date : Option(Nat), age : Option(Nat)]

Version == 0..MaxVersion

VARIABLES
  clock,      \* Instant::now, and SystemTime::now on the same scale
  published,  \* the version of the document the provider serves now
  provider,   \* Client::provider, a ProviderState
  lock,       \* who holds Client::metadata_refresh_lock, or None
  pc,         \* where each call stands
  forced,     \* whether the call is refresh_metadata
  current,    \* the provider snapshot refresh_metadata_from works on
  answer,     \* what its requests have returned so far
  result,     \* the last outcome of each task: a version, Failed, or None
  calls       \* calls each task has started

callVars == <<pc, forced, current, answer, result, calls>>
vars == <<clock, published, provider, lock, callVars>>

-----------------------------------------------------------------------------
(* Deadlines.                                                              *)

\* Instant::checked_add
CheckedAdd(t, d) == IF t + d <= MaxInstant THEN t + d ELSE None

\* metadata_refresh_deadline: unrepresentable means immediately stale.
RefreshDeadline(interval) ==
  LET t == CheckedAdd(clock, interval) IN IF t = None THEN clock ELSE t

\* metadata_stale_deadline
StaleDeadline(refreshAfter, staleOnError, retain) ==
  IF ~staleOnError \/ retain = 0 THEN None ELSE CheckedAdd(refreshAfter, retain)

\* metadata_cache_deadlines
CacheDeadlines(policy, retain) ==
  IF policy.kind = "CacheFor"
    THEN LET after == RefreshDeadline(policy.lifetime)
             eligible == ~policy.mustRevalidate
         IN  [refreshAfter |-> after,
              staleUntil |-> StaleDeadline(after, eligible, retain),
              staleOnError |-> eligible]
    ELSE [refreshAfter |-> clock, staleUntil |-> None, staleOnError |-> FALSE]

Past(deadline) == deadline # None /\ clock >= deadline

\* ProviderState::metadata_needs_refresh
NeedsRefresh_OneRetry ==
  /\ Past(provider.refreshAfter)
  /\ provider.retryAfter = None
NeedsRefresh ==
  /\ Past(provider.refreshAfter)
  /\ provider.retryAfter = None \/ Past(provider.retryAfter)

\* AsyncHttpsJwks::new, and keys(), which fills the cache it is called on.
NewJwks(version) == [uri |-> JwksUri[version], filled |-> FALSE]

-----------------------------------------------------------------------------
(* The client comes from Client::discover, which fills the key cache before *)
(* there is a client, or from Client::from_parts.                          *)

DiscoveredProvider(r) ==
  LET d == CacheDeadlines(
             ResponseCachePolicy(r, DefaultInterval, DefaultMinimum, clock), DefaultRetain)
  IN  [meta |-> published, jwks |-> [NewJwks(published) EXCEPT !.filled = TRUE],
       refreshAfter |-> d.refreshAfter, staleUntil |-> d.staleUntil, retryAfter |-> None,
       staleOnError |-> d.staleOnError, interval |-> DefaultInterval,
       minimum |-> DefaultMinimum, retain |-> DefaultRetain]

ProviderFromParts ==
  [meta |-> published, jwks |-> NewJwks(published),
   refreshAfter |-> None, staleUntil |-> None, retryAfter |-> None,
   staleOnError |-> TRUE, interval |-> None,
   minimum |-> DefaultMinimum, retain |-> DefaultRetain]

NoSnapshot == [meta |-> None, jwks |-> None, askedAt |-> None]
NoAnswer == [meta |-> None, headers |-> None, jwks |-> None]

Init ==
  /\ clock = 0
  /\ published = 0
  /\ provider \in {DiscoveredProvider(r) : r \in Response} \cup {ProviderFromParts}
  /\ lock = None
  /\ pc = [c \in Caller |-> "idle"]
  /\ forced = [c \in Caller |-> FALSE]
  /\ current = [c \in Caller |-> NoSnapshot]
  /\ answer = [c \in Caller |-> NoAnswer]
  /\ result = [c \in Caller |-> None]
  /\ calls = [c \in Caller |-> 0]

-----------------------------------------------------------------------------
(* The environment.                                                        *)

Tick ==
  /\ clock < MaxTime
  /\ clock' = clock + 1
  /\ UNCHANGED <<published, provider, lock, callVars>>

\* The provider publishes its next document.
ProviderUpdates ==
  /\ published < MaxVersion
  /\ published' = published + 1
  /\ UNCHANGED <<clock, provider, lock, callVars>>

-----------------------------------------------------------------------------
(* The calls refresh_metadata_if_stale and refresh_metadata.               *)

Refreshing == {"discovering", "populating"}

\* The guard of metadata_refresh_lock goes out of scope, if the call has it.
Release_Any(c) == None
Release_Never(c) == lock
Release(c) == IF lock = c THEN None ELSE lock

\* The call is over: its future and the guard it may hold are dropped.
Return(c, outcome) ==
  /\ pc' = [pc EXCEPT ![c] = "idle"]
  /\ forced' = [forced EXCEPT ![c] = FALSE]
  /\ current' = [current EXCEPT ![c] = NoSnapshot]
  /\ answer' = [answer EXCEPT ![c] = NoAnswer]
  /\ result' = [result EXCEPT ![c] = outcome]
  /\ lock' = Release(c)

Starts(c) ==
  /\ pc[c] = "idle"
  /\ calls[c] < MaxCalls
  /\ calls' = [calls EXCEPT ![c] = @ + 1]

\* Waits for metadata_refresh_lock.
Queue(c, isForced) ==
  /\ pc' = [pc EXCEPT ![c] = "queued"]
  /\ forced' = [forced EXCEPT ![c] = isForced]
  /\ result' = [result EXCEPT ![c] = None]
  /\ UNCHANGED <<lock, current, answer>>

\* refresh_metadata_if_stale up to the lock: a fresh snapshot is returned.
StaleCheck(c) ==
  /\ Starts(c)
  /\ IF NeedsRefresh THEN Queue(c, FALSE) ELSE Return(c, provider.meta)
  /\ UNCHANGED <<clock, published, provider>>

\* refresh_metadata up to the lock
ForceRefresh(c) ==
  /\ Starts(c)
  /\ Queue(c, TRUE)
  /\ UNCHANGED <<clock, published, provider>>

\* The decision a call takes once it has the lock: a stale check looks again.
MustSend_NoRecheck(c) == TRUE
MustSend(c) == forced[c] \/ NeedsRefresh

\* The lock is free again, and a stale check finds its work done.
FindsFresh(c) ==
  /\ pc[c] = "queued" /\ lock = None
  /\ ~MustSend(c)
  /\ Return(c, provider.meta)
  /\ UNCHANGED <<clock, published, provider, calls>>

\* The lock is taken and the discovery request sent, for the snapshot read
\* under the lock.
SendDiscovery(c) ==
  /\ pc[c] = "queued" /\ lock = None
  /\ MustSend(c)
  /\ lock' = c
  /\ pc' = [pc EXCEPT ![c] = "discovering"]
  /\ current' = [current EXCEPT ![c] = [meta |-> provider.meta, jwks |-> provider.jwks,
                                        askedAt |-> published]]
  /\ UNCHANGED <<clock, published, provider, forced, answer, result, calls>>

\* The settings a publication keeps are those of the state it replaces, not of
\* the snapshot the refresh started from.
KeptInterval_Default == DefaultInterval
KeptInterval == provider.interval

Enabled_Always(interval) == TRUE
Enabled(interval) == interval # None

\* The end of refresh_metadata_from, after its last await.
Publish(c, version, headers, jwks) ==
  LET interval == KeptInterval
      policy == ResponseCachePolicy(
                  headers, IF interval = None THEN DefaultInterval ELSE interval,
                  provider.minimum, clock)
      d == CacheDeadlines(policy, provider.retain)
  IN  /\ provider' =
           [meta |-> version, jwks |-> jwks,
            refreshAfter |-> IF Enabled(interval) THEN d.refreshAfter ELSE None,
            staleUntil |-> IF Enabled(interval) THEN d.staleUntil ELSE None,
            retryAfter |-> None, staleOnError |-> d.staleOnError, interval |-> interval,
            minimum |-> provider.minimum, retain |-> provider.retain]
      /\ Return(c, version)

\* discovered.metadata.jwks_uri == current.metadata.jwks_uri
SameKeys_Always(c, v) == TRUE
SameKeys(c, v) == JwksUri[v] = JwksUri[current[c].meta]

\* The document that answers was current at some time since it was asked for.
\* With an unchanged jwks_uri the key cache is kept and the answer published.
DiscoverySameKeys(c) ==
  /\ pc[c] = "discovering"
  /\ \E v \in current[c].askedAt..published, r \in Response :
       /\ SameKeys(c, v)
       /\ Publish(c, v, r, current[c].jwks)
  /\ UNCHANGED <<clock, published, calls>>

\* With a new jwks_uri the replacement cache asks for its keys first.
DiscoveryNewKeys(c) ==
  /\ pc[c] = "discovering"
  /\ \E v \in current[c].askedAt..published, r \in Response :
       /\ ~SameKeys(c, v)
       /\ answer' = [answer EXCEPT ![c] = [meta |-> v, headers |-> r, jwks |-> NewJwks(v)]]
  /\ pc' = [pc EXCEPT ![c] = "populating"]
  /\ UNCHANGED <<clock, published, provider, lock, forced, current, result, calls>>

KeysPopulated(c) ==
  /\ pc[c] = "populating"
  /\ Publish(c, answer[c].meta, answer[c].headers, [answer[c].jwks EXCEPT !.filled = TRUE])
  /\ UNCHANGED <<clock, published, calls>>

\* metadata_after_refresh_error: the stale snapshot there is now may be used.
Masked_WhileFresh(c) == ~forced[c] /\ provider.staleUntil # None /\ clock < provider.refreshAfter
Masked(c) == ~forced[c] /\ provider.staleUntil # None /\ clock < provider.staleUntil

RetryDeadline ==
  LET retry == CheckedAdd(clock, RetryInterval)
  IN  IF retry = None THEN provider.staleUntil ELSE Smaller(retry, provider.staleUntil)

\* The transport reports an error, or the answer is refused: not a 200, not a
\* valid document, not this issuer, or no key set at the new jwks_uri.
RequestFails(c) ==
  /\ pc[c] \in Refreshing
  /\ IF Masked(c)
     THEN /\ provider' = [provider EXCEPT !.retryAfter = RetryDeadline]
          /\ Return(c, provider.meta)
     ELSE /\ UNCHANGED provider
          /\ Return(c, Failed)
  /\ UNCHANGED <<clock, published, calls>>

\* The caller drops the future at an await; the guard goes with it.
Cancel(c) ==
  /\ pc[c] \in Refreshing \cup {"queued"}
  /\ Return(c, None)
  /\ UNCHANGED <<clock, published, provider, calls>>

-----------------------------------------------------------------------------
(* The setters, from any thread at any time.                               *)

Configures(state) ==
  /\ provider' = state
  /\ UNCHANGED <<clock, published, lock, callVars>>

\* The freshness of the snapshot now ends at after, its stale window follows.
Rescheduled(after) ==
  [provider EXCEPT
    !.refreshAfter = after,
    !.staleUntil = StaleDeadline(after, provider.staleOnError, provider.retain)]

\* set_metadata_refresh_interval
SetRefreshInterval ==
  \E d \in SettableDurations :
    Configures([Rescheduled(RefreshDeadline(Larger(d, provider.minimum))) EXCEPT
                  !.interval = d, !.retryAfter = None])

\* set_metadata_minimum_cache_duration, which only ever extends the snapshot
SetMinimumCacheDuration ==
  \E d \in SettableDurations :
    LET after == RefreshDeadline(d)
        extends == /\ provider.interval # None
                   /\ provider.refreshAfter = None \/ provider.refreshAfter < after
    IN  Configures([(IF extends THEN Rescheduled(after) ELSE provider) EXCEPT
                      !.minimum = d, !.retryAfter = None])

\* set_metadata_retain_on_error
SetRetainOnError ==
  \E d \in SettableDurations :
    Configures([provider EXCEPT
      !.retain = d, !.retryAfter = None,
      !.staleUntil = IF provider.refreshAfter = None THEN None
        ELSE StaleDeadline(provider.refreshAfter, provider.staleOnError, d)])

\* disable_metadata_refresh
DisableRefresh ==
  Configures([provider EXCEPT !.interval = None, !.refreshAfter = None,
                              !.staleUntil = None, !.retryAfter = None])

-----------------------------------------------------------------------------
Setter ==
  SetRefreshInterval \/ SetMinimumCacheDuration \/ SetRetainOnError \/ DisableRefresh

Succeeds(c) == DiscoverySameKeys(c) \/ KeysPopulated(c)

\* What the executor and the transport bring about.
Progress(c) ==
  \/ FindsFresh(c) \/ SendDiscovery(c)
  \/ Succeeds(c) \/ DiscoveryNewKeys(c) \/ RequestFails(c)

CallStep(c) == StaleCheck(c) \/ ForceRefresh(c) \/ Progress(c) \/ Cancel(c)

Next ==
  \/ Tick \/ ProviderUpdates \/ Setter
  \/ \E c \in Caller : CallStep(c)

Spec == Init /\ [][Next]_vars

\* A runnable task is polled and a request ends: the AsyncHttpClient contract
\* (src/src/transport/http.rs:77-85) turns a timeout into an Err.  Nothing
\* obliges a call to start, a future to be dropped or a setter to be called.
Fairness == \A c \in Caller : WF_vars(Progress(c))

LiveSpec == Spec /\ Fairness
=============================================================================
