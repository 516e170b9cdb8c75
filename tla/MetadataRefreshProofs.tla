----------------------- MODULE MetadataRefreshProofs -----------------------
(***************************************************************************)
(* Proofs about MetadataRefresh for every set of tasks, every assignment   *)
(* of jwks_uris and responses, and all durations and bounds; and, last,    *)
(* about the policy it keeps a document under, for every number of header  *)
(* lines, every number of directives on them and every argument.           *)
(***************************************************************************)
EXTENDS MetadataRefreshProps, MetadataRefreshHistory, CachePolicyGrowth,
        WellFoundedInduction, TLAPS

-----------------------------------------------------------------------------
(* The operators the model is built from.                                  *)

\* An age is a number or absent.
LEMMA ResponseAgeType ==
  ASSUME NEW date \in Option(Nat), NEW age \in Option(Nat), NEW instant \in Nat
  PROVE  ResponseAge(date, age, instant) \in Option(Nat)
BY NoneIsNoNumber DEF ResponseAge, LargerOption, Larger, Option

\* What freshness and the floor compute is a policy, for every response.
LEMMA PolicyType ==
  ASSUME NEW r \in Response, NEW default \in Nat, NEW minimum \in Nat, NEW instant \in Nat
  PROVE  ResponseCachePolicy(r, default, minimum, instant) \in Policies
<1> DEFINE age == ResponseAge(r.date, r.age, instant)
<1>1. /\ r.directives \in Directives /\ r.expires \in Option(Nat \cup {Malformed})
      /\ r.date \in Option(Nat) /\ r.age \in Option(Nat)
  BY ResponseHeaders
<1>2. age \in Option(Nat)
  BY <1>1, ResponseAgeType
<1>3. /\ OrZero(age) \in Nat
      /\ \A n \in Nat : SaturatingSub(n, OrZero(age)) \in Nat
  BY <1>2, NoneIsNoNumber DEF OrZero, Option, SaturatingSub
<1>4. ASSUME r.expires # None
      PROVE  ExpiresLifetime(r.expires, r.date, age, instant) \in Nat
  <2>1. CASE r.expires = Malformed
    BY <2>1 DEF ExpiresLifetime
  <2>2. CASE r.expires # Malformed
    <3> DEFINE base == IF r.date = None THEN instant ELSE r.date
    <3>1. r.expires \in Nat /\ base \in Nat
      BY <1>1, <1>4, <2>2 DEF Option
    <3>2. SaturatingSub(r.expires, base) \in Nat
      BY <3>1 DEF SaturatingSub
    <3>3. SaturatingSub(SaturatingSub(r.expires, base), OrZero(age)) \in Nat
      BY <3>2, <1>3
    <3> QED
      BY <3>3, <2>2 DEF ExpiresLifetime
  <2> QED
    BY <2>1, <2>2
<1>5. ComputePolicy(r.directives, r.expires, r.date, age, default, instant) \in Policies
  <2>1. /\ r.directives.maxAge \in Option(Nat)
        /\ r.directives.mustRevalidate \in BOOLEAN
    BY <1>1 DEF Directives
  <2> DEFINE lifetime == IF r.directives.maxAge # None
                           THEN SaturatingSub(r.directives.maxAge, OrZero(age))
                         ELSE IF r.expires # None
                           THEN ExpiresLifetime(r.expires, r.date, age, instant)
                         ELSE SaturatingSub(default, OrZero(age))
  <2>2. lifetime \in Nat
    BY <1>3, <1>4, <2>1 DEF Option
  <2> HIDE DEF lifetime, age
  <2>3. CacheFor(lifetime, r.directives.mustRevalidate) \in Policies
    BY <2>1, <2>2 DEF CacheFor, Policies
  <2> QED
    BY <2>3 DEF ComputePolicy, Policies, lifetime
<1>6. \A p \in Policies : ApplyMinimumCacheDuration(p, minimum) \in Policies
  BY DEF Policies, ApplyMinimumCacheDuration, CacheFor, Revalidate, DoNotStore, Larger
<1> QED
  BY <1>5, <1>6 DEF ResponseCachePolicy, PolicyFromDirectives

\* A refresh deadline is representable and not in the past.
LEMMA RefreshDeadlineType ==
  ASSUME clock \in 0..MaxTime, NEW d \in Nat
  PROVE  RefreshDeadline(d) \in 0..MaxInstant /\ RefreshDeadline(d) >= clock
BY ClockBounds, NoneIsNoNumber DEF RefreshDeadline, CheckedAdd

\* A stale window, if there is one, is representable.
LEMMA StaleDeadlineType ==
  ASSUME NEW after \in 0..MaxInstant, NEW eligible \in BOOLEAN, NEW retain \in Nat
  PROVE  StaleDeadline(after, eligible, retain) \in Deadline
BY ClockBounds DEF StaleDeadline, CheckedAdd, Deadline, Option

\* The deadlines of a publication: the stale window is the one that follows
\* from the freshness, also for the policies that allow no reuse at all.
LEMMA CacheDeadlinesType ==
  ASSUME clock \in 0..MaxTime, NEW policy \in Policies, NEW retain \in Nat
  PROVE  LET d == CacheDeadlines(policy, retain)
         IN  /\ d.refreshAfter \in 0..MaxInstant
             /\ d.staleOnError \in BOOLEAN
             /\ d.staleUntil = StaleDeadline(d.refreshAfter, d.staleOnError, retain)
<1>1. CASE policy.kind = "CacheFor"
  <2>1. policy.lifetime \in Nat /\ policy.mustRevalidate \in BOOLEAN
    BY <1>1 DEF Policies, Revalidate, DoNotStore
  <2> QED
    BY <1>1, <2>1, RefreshDeadlineType DEF CacheDeadlines
<1>2. CASE policy.kind # "CacheFor"
  BY <1>2, ClockBounds DEF CacheDeadlines, StaleDeadline
<1> QED
  BY <1>1, <1>2

-----------------------------------------------------------------------------
(* Type correctness.                                                       *)

\* What a refreshing call has at hand.
LEMMA SnapshotType ==
  ASSUME CallsOK, NEW c \in Caller, pc[c] \in Refreshing
  PROVE  current[c] \in Snapshot
<1>1. current[c] \in Snapshot \cup {NoSnapshot}
  BY DEF CallsOK
<1>2. current[c] # NoSnapshot
  BY DEF CallsOK, DataPresent
<1> QED
  BY <1>1, <1>2

\* An answer that waits for its keys has the type Answer.
LEMMA AnswerType ==
  ASSUME CallsOK, NEW c \in Caller, pc[c] = "populating"
  PROVE  answer[c] \in Answer
<1>1. answer[c] \in Answer \cup {NoAnswer}
  BY DEF CallsOK
<1>2. answer[c] # NoAnswer
  BY DEF CallsOK, DataPresent
<1> QED
  BY <1>1, <1>2

\* The end of a call keeps the types of the call variables.
LEMMA ReturnType ==
  ASSUME CallsOK, NEW c \in Caller, NEW o \in Version \cup {None, Failed}, Return(c, o)
  PROVE  CallsOK'
<1>1. /\ pc' \in [Caller -> Refreshing \cup {"idle", "queued"}]
      /\ forced' \in [Caller -> BOOLEAN]
      /\ current' \in [Caller -> Snapshot \cup {NoSnapshot}]
      /\ answer' \in [Caller -> Answer \cup {NoAnswer}]
      /\ result' \in [Caller -> Version \cup {None, Failed}]
  BY DEF CallsOK, Return
<1>2. lock' \in Option(Caller)
  BY DEF CallsOK, Return, Release, Option
<1>3. DataPresent'
  BY DEF CallsOK, DataPresent, Return, Refreshing
<1> QED
  BY <1>1, <1>2, <1>3 DEF CallsOK

\* Enough for the deadlines to be right when no retry is deferred.
LEMMA DeadlinesWithoutRetry ==
  ASSUME provider'.retryAfter = None,
         provider'.interval = None <=> provider'.refreshAfter = None,
         provider'.staleUntil = IF provider'.refreshAfter = None THEN None
           ELSE StaleDeadline(provider'.refreshAfter, provider'.staleOnError,
                              provider'.retain)
  PROVE  DeadlinesOK'
BY DEF DeadlinesOK, DisabledMeansNoDeadlines, StaleWindowFollowsFreshness,
       RetryWithinStaleWindow

\* A publication yields a ProviderState with the settings there were, the given
\* document and keys, and the deadlines these imply.
LEMMA PublishEffect ==
  ASSUME TypeOK, NEW c \in Caller,
         NEW v \in Version, NEW h \in Response, NEW j \in Jwks, Publish(c, v, h, j)
  PROVE  /\ provider' \in ProviderState
         /\ provider'.meta = v /\ provider'.jwks = j
         /\ provider'.interval = provider.interval
         /\ provider'.minimum = provider.minimum
         /\ provider'.retain = provider.retain
         /\ DeadlinesOK'
<1> DEFINE default == IF provider.interval = None THEN DefaultInterval ELSE provider.interval
           policy == ResponseCachePolicy(h, default, provider.minimum, clock)
           d == CacheDeadlines(policy, provider.retain)
<1>1. /\ default \in Nat /\ provider.minimum \in Nat /\ provider.retain \in Nat
      /\ provider.interval \in Option(Nat) /\ clock \in 0..MaxTime /\ clock \in Nat
  BY DurationsAreNat, ClockBounds DEF TypeOK, ProviderState, Option
<1>2. policy \in Policies
  BY <1>1, PolicyType
<1>3. /\ d.refreshAfter \in 0..MaxInstant
      /\ d.staleOnError \in BOOLEAN
      /\ d.staleUntil = StaleDeadline(d.refreshAfter, d.staleOnError, provider.retain)
  <2> HIDE DEF policy
  <2> QED
    BY <1>1, <1>2, CacheDeadlinesType
<1>4. d.staleUntil \in Deadline
  BY <1>1, <1>3, StaleDeadlineType
<1>5. provider' =
        [meta |-> v, jwks |-> j,
         refreshAfter |-> IF provider.interval # None THEN d.refreshAfter ELSE None,
         staleUntil |-> IF provider.interval # None THEN d.staleUntil ELSE None,
         retryAfter |-> None, staleOnError |-> d.staleOnError,
         interval |-> provider.interval,
         minimum |-> provider.minimum, retain |-> provider.retain]
  BY DEF Publish, KeptInterval, Enabled
<1> HIDE DEF d
<1>6. provider' \in ProviderState
  BY <1>1, <1>3, <1>4, <1>5 DEF ProviderState, Deadline, Option
<1>7. DeadlinesOK'
  <2>1. (provider'.refreshAfter = None) <=> provider.interval = None
    BY <1>3, <1>5, NoneIsNoNumber
  <2>2. provider'.staleUntil = IF provider'.refreshAfter = None THEN None
          ELSE StaleDeadline(provider'.refreshAfter, provider'.staleOnError, provider'.retain)
    BY <1>3, <1>5, <2>1
  <2> QED
    BY <1>5, <2>1, <2>2, DeadlinesWithoutRetry
<1> QED
  BY <1>5, <1>6, <1>7

\* A setter touches neither the document nor the keys, and leaves deadlines that
\* fit the settings it leaves.
LEMMA SetterEffect ==
  ASSUME TypeOK, DeadlinesOK, Setter
  PROVE  /\ provider' \in ProviderState
         /\ provider'.meta = provider.meta /\ provider'.jwks = provider.jwks
         /\ DeadlinesOK'
         /\ UNCHANGED <<clock, published, lock, callVars>>
<1> USE DEF Configures
<1>0. /\ provider.interval = None <=> provider.refreshAfter = None
      /\ provider.staleUntil = IF provider.refreshAfter = None THEN None
           ELSE StaleDeadline(provider.refreshAfter, provider.staleOnError, provider.retain)
  BY DEF DeadlinesOK, DisabledMeansNoDeadlines, StaleWindowFollowsFreshness
<1>1. /\ provider \in ProviderState /\ clock \in 0..MaxTime /\ provider.minimum \in Nat
      /\ SettableDurations \subseteq Nat
  BY DurationsAreNat DEF TypeOK, ProviderState
<1>2. \A after \in 0..MaxInstant :
        /\ Rescheduled(after) \in ProviderState
        /\ Rescheduled(after) =
             [provider EXCEPT !.refreshAfter = after,
                !.staleUntil = StaleDeadline(after, provider.staleOnError, provider.retain)]
  BY <1>1, StaleDeadlineType DEF Rescheduled, ProviderState, Deadline, Option
<1>3. CASE SetRefreshInterval
  <2>1. PICK d \in SettableDurations :
          Configures([Rescheduled(RefreshDeadline(Larger(d, provider.minimum))) EXCEPT
                        !.interval = d, !.retryAfter = None])
    BY <1>3 DEF SetRefreshInterval
  <2> DEFINE after == RefreshDeadline(Larger(d, provider.minimum))
  <2>2. after \in 0..MaxInstant /\ d \in Nat
    BY <1>1, RefreshDeadlineType DEF Larger
  <2> HIDE DEF after
  <2>3. provider' = [provider EXCEPT !.refreshAfter = after,
          !.staleUntil = StaleDeadline(after, provider.staleOnError, provider.retain),
          !.interval = d, !.retryAfter = None]
    BY <1>1, <1>2, <2>1, <2>2 DEF after, ProviderState
  <2>4. provider' \in ProviderState
    BY <1>1, <2>2, <2>3, StaleDeadlineType DEF ProviderState, Deadline, Option
  <2>5. DeadlinesOK'
    BY <1>1, <2>2, <2>3, NoneIsNoNumber, DeadlinesWithoutRetry DEF ProviderState
  <2> QED
    BY <1>1, <2>1, <2>3, <2>4, <2>5 DEF ProviderState
<1>4. CASE SetMinimumCacheDuration
  <2>1. PICK d \in SettableDurations :
          LET after == RefreshDeadline(d)
              extends == /\ provider.interval # None
                         /\ provider.refreshAfter = None \/ provider.refreshAfter < after
          IN  Configures([(IF extends THEN Rescheduled(after) ELSE provider) EXCEPT
                            !.minimum = d, !.retryAfter = None])
    BY <1>4 DEF SetMinimumCacheDuration
  <2> DEFINE after == RefreshDeadline(d)
             extends == /\ provider.interval # None
                        /\ provider.refreshAfter = None \/ provider.refreshAfter < after
  <2>2. after \in 0..MaxInstant /\ d \in Nat
    BY <1>1, RefreshDeadlineType
  <2> HIDE DEF after
  <2>3. CASE extends
    <3>1. provider' = [provider EXCEPT !.refreshAfter = after,
            !.staleUntil = StaleDeadline(after, provider.staleOnError, provider.retain),
            !.minimum = d, !.retryAfter = None]
      BY <1>1, <1>2, <2>1, <2>2, <2>3 DEF after, ProviderState
    <3>2. provider' \in ProviderState
      BY <1>1, <2>2, <3>1, StaleDeadlineType DEF ProviderState, Deadline, Option
    <3>3. DeadlinesOK'
      BY <1>0, <1>1, <2>2, <2>3, <3>1, NoneIsNoNumber, DeadlinesWithoutRetry
      DEF ProviderState
    <3> QED
      BY <1>1, <2>1, <3>1, <3>2, <3>3 DEF ProviderState
  <2>4. CASE ~extends
    <3>1. provider' = [provider EXCEPT !.minimum = d, !.retryAfter = None]
      BY <2>1, <2>4 DEF after
    <3>2. provider' \in ProviderState
      BY <1>1, <2>2, <3>1 DEF ProviderState, Deadline, Option
    <3>3. DeadlinesOK'
      BY <1>0, <1>1, <3>1, DeadlinesWithoutRetry DEF ProviderState
    <3> QED
      BY <1>1, <2>1, <3>1, <3>2, <3>3 DEF ProviderState
  <2> QED
    BY <2>3, <2>4
<1>5. CASE SetRetainOnError
  <2>1. PICK d \in SettableDurations :
          /\ provider' = [provider EXCEPT
               !.retain = d, !.retryAfter = None,
               !.staleUntil = IF provider.refreshAfter = None THEN None
                 ELSE StaleDeadline(provider.refreshAfter, provider.staleOnError, d)]
          /\ UNCHANGED <<clock, published, lock, callVars>>
    BY <1>5 DEF SetRetainOnError
  <2>2. d \in Nat
    BY <1>1
  <2>3. provider'.staleUntil \in Deadline
    BY <1>1, <2>1, <2>2, StaleDeadlineType DEF ProviderState, Deadline, Option
  <2>4. provider' \in ProviderState
    BY <1>1, <2>1, <2>2, <2>3 DEF ProviderState, Deadline, Option
  <2>5. DeadlinesOK'
    BY <1>0, <1>1, <2>1, DeadlinesWithoutRetry DEF ProviderState
  <2> QED
    BY <1>1, <2>1, <2>4, <2>5 DEF ProviderState
<1>6. CASE DisableRefresh
  <2>1. provider' = [provider EXCEPT !.interval = None, !.refreshAfter = None,
                                     !.staleUntil = None, !.retryAfter = None]
    BY <1>6 DEF DisableRefresh
  <2>2. provider' \in ProviderState
    BY <1>1, <2>1 DEF ProviderState, Deadline, Option
  <2>3. DeadlinesOK'
    BY <1>1, <2>1, DeadlinesWithoutRetry DEF ProviderState
  <2> QED
    BY <1>1, <1>6, <2>1, <2>2, <2>3 DEF ProviderState, DisableRefresh
<1> QED
  BY <1>3, <1>4, <1>5, <1>6 DEF Setter

-----------------------------------------------------------------------------
(* The inductive invariant.                                                *)

\* The parts of IInv that speak of the calls in flight.
InFlight == SnapshotStaysCurrent /\ AnswersAreNewer

\* When a call ends, the calls still refreshing are others, and untouched; if
\* the call held the lock there are none.
LEMMA ReturnKeepsOthers ==
  ASSUME CallsOK, SnapshotStaysCurrent, lock # None => pc[lock] \in Refreshing,
         NEW c \in Caller, NEW o, Return(c, o)
  PROVE  /\ \A d \in Caller : pc'[d] \in Refreshing =>
              /\ d # c /\ pc[d] = pc'[d] /\ lock = d /\ lock' = d
              /\ current'[d] = current[d] /\ answer'[d] = answer[d]
         /\ lock' # None => pc'[lock'] \in Refreshing
<1>1. \A d \in Caller : d # c =>
        pc'[d] = pc[d] /\ current'[d] = current[d] /\ answer'[d] = answer[d]
  BY DEF Return, CallsOK
<1>2. pc'[c] = "idle"
  BY DEF Return, CallsOK
<1>3. lock' = IF lock = c THEN None ELSE lock
  BY DEF Return, Release
<1>4. lock \in Option(Caller)
  BY DEF CallsOK
<1> QED
  BY <1>1, <1>2, <1>3, <1>4 DEF SnapshotStaysCurrent, Refreshing, Option

\* A call that ends without publishing keeps what holds of the others.
LEMMA ReturnKeepsInFlight ==
  ASSUME CallsOK, InFlight, NEW c \in Caller, NEW o, Return(c, o),
         provider'.meta = provider.meta, provider'.jwks = provider.jwks,
         published' = published
  PROVE  InFlight'
<1>1. /\ SnapshotStaysCurrent /\ AnswersAreNewer
      /\ lock # None => pc[lock] \in Refreshing
  BY DEF InFlight, AnswersAreNewer
<1>2. /\ \A d \in Caller : pc'[d] \in Refreshing =>
           /\ d # c /\ pc[d] = pc'[d] /\ lock = d /\ lock' = d
           /\ current'[d] = current[d] /\ answer'[d] = answer[d]
      /\ lock' # None => pc'[lock'] \in Refreshing
  BY <1>1, ReturnKeepsOthers
<1>3. SnapshotStaysCurrent'
  BY <1>1, <1>2 DEF SnapshotStaysCurrent
<1>4. AnswersAreNewer'
  BY <1>1, <1>2 DEF AnswersAreNewer, Refreshing
<1> QED
  BY <1>3, <1>4 DEF InFlight

\* The holder of the lock publishes an answer as new as its request, with the
\* keys that belong to it: nothing in flight is left behind it.
LEMMA PublishKeeps ==
  ASSUME IInv, NEW c \in Caller, pc[c] \in Refreshing,
         NEW v \in Version, NEW h \in Response, NEW j \in Jwks, Publish(c, v, h, j),
         v <= published, j.uri = JwksUri[v],
         JwksUri[v] # JwksUri[0] => j.filled,
         UNCHANGED <<clock, published, calls>>
  PROVE  IInv'
<1>1. /\ TypeOK /\ CallsOK /\ SnapshotStaysCurrent /\ AnswersAreNewer
      /\ lock # None => pc[lock] \in Refreshing
      /\ lock = c /\ Return(c, v)
  BY DEF IInv, TypeOK, SnapshotStaysCurrent, AnswersAreNewer, Publish
<1>2. /\ provider' \in ProviderState
      /\ provider'.meta = v /\ provider'.jwks = j
      /\ DeadlinesOK'
  BY <1>1, PublishEffect
<1>3. CallsOK'
  BY <1>1, ReturnType
<1>4. TypeOK'
  BY <1>1, <1>2, <1>3 DEF TypeOK
<1>5. /\ \A d \in Caller : pc'[d] \in Refreshing => d # c /\ lock = d
      /\ lock' # None => pc'[lock'] \in Refreshing
  BY <1>1, ReturnKeepsOthers
<1>6. \A d \in Caller : pc'[d] \notin Refreshing
  BY <1>1, <1>5
<1>7. SnapshotStaysCurrent' /\ AnswersAreNewer'
  BY <1>1, <1>2, <1>5, <1>6 DEF SnapshotStaysCurrent, AnswersAreNewer, Refreshing
<1>8. KeysMatchMetadata'
  BY <1>2 DEF KeysMatchMetadata
<1> QED
  BY <1>2, <1>4, <1>7, <1>8 DEF IInv

\* The invariant holds of a client just built, by either constructor.
LEMMA InitInvariant == Init => IInv
<1> SUFFICES ASSUME Init PROVE IInv
  OBVIOUS
<1>1. clock \in 0..MaxTime /\ clock \in Nat /\ published \in Version /\ published = 0
  BY ClockBounds, VersionBound DEF Init, Version
<1>2. CallsOK /\ calls \in [Caller -> 0..MaxCalls]
  BY CallBound DEF Init, CallsOK, DataPresent, Option, Refreshing
<1>3. SnapshotStaysCurrent /\ lock = None /\ \A c \in Caller : pc[c] = "idle"
  BY DEF Init, SnapshotStaysCurrent, Refreshing
<1>4. ASSUME NEW r \in Response, provider = DiscoveredProvider(r)
      PROVE  /\ provider \in ProviderState /\ DeadlinesOK
             /\ provider.meta = 0 /\ provider.jwks.uri = JwksUri[0]
  <2> DEFINE policy == ResponseCachePolicy(r, DefaultInterval, DefaultMinimum, clock)
             d == CacheDeadlines(policy, DefaultRetain)
  <2>1. DefaultInterval \in Nat /\ DefaultMinimum \in Nat /\ DefaultRetain \in Nat
    BY DurationsAreNat
  <2>2. policy \in Policies
    BY <1>1, <2>1, PolicyType
  <2>3. /\ d.refreshAfter \in 0..MaxInstant /\ d.staleOnError \in BOOLEAN
        /\ d.staleUntil = StaleDeadline(d.refreshAfter, d.staleOnError, DefaultRetain)
    <3> HIDE DEF policy
    <3> QED
      BY <1>1, <2>1, <2>2, CacheDeadlinesType
  <2>4. d.staleUntil \in Deadline
    BY <2>1, <2>3, StaleDeadlineType
  <2>5. provider =
          [meta |-> published, jwks |-> [NewJwks(published) EXCEPT !.filled = TRUE],
           refreshAfter |-> d.refreshAfter, staleUntil |-> d.staleUntil,
           retryAfter |-> None, staleOnError |-> d.staleOnError,
           interval |-> DefaultInterval, minimum |-> DefaultMinimum,
           retain |-> DefaultRetain]
    BY <1>4 DEF DiscoveredProvider
  <2> HIDE DEF d
  <2>6. [NewJwks(published) EXCEPT !.filled = TRUE] \in Jwks
    BY <1>1 DEF NewJwks, Jwks
  <2>7. provider \in ProviderState
    BY <1>1, <2>1, <2>3, <2>4, <2>5, <2>6 DEF ProviderState, Deadline, Option
  <2>8. DeadlinesOK
    BY <2>1, <2>3, <2>5, NoneIsNoNumber
    DEF DeadlinesOK, DisabledMeansNoDeadlines, StaleWindowFollowsFreshness,
        RetryWithinStaleWindow
  <2> QED
    BY <1>1, <2>5, <2>7, <2>8 DEF NewJwks
<1>5. ASSUME provider = ProviderFromParts
      PROVE  /\ provider \in ProviderState /\ DeadlinesOK
             /\ provider.meta = 0 /\ provider.jwks.uri = JwksUri[0]
  BY <1>1, <1>5, DurationsAreNat
  DEF ProviderFromParts, NewJwks, ProviderState, Jwks, Deadline, Option, DeadlinesOK,
      DisabledMeansNoDeadlines, StaleWindowFollowsFreshness, RetryWithinStaleWindow
<1>6. /\ provider \in ProviderState /\ DeadlinesOK
      /\ provider.meta = 0 /\ provider.jwks.uri = JwksUri[0]
  BY <1>4, <1>5 DEF Init
<1>7. TypeOK
  BY <1>1, <1>2, <1>6 DEF TypeOK
<1>8. AnswersAreNewer
  BY <1>1, <1>3, <1>6 DEF AnswersAreNewer, Refreshing
<1>9. KeysMatchMetadata
  BY <1>6 DEF KeysMatchMetadata
<1> QED
  BY <1>3, <1>6, <1>7, <1>8, <1>9 DEF IInv

\* The steps that leave the provider state and the calls alone.
LEMMA EnvironmentKeeps == IInv /\ (Tick \/ ProviderUpdates) => IInv'
<1> SUFFICES ASSUME IInv, Tick \/ ProviderUpdates PROVE IInv'
  OBVIOUS
<1>1. /\ UNCHANGED <<provider, lock, callVars>>
      /\ clock' \in 0..MaxTime /\ published' \in Version /\ published' >= published
  BY ClockBounds, VersionBound DEF IInv, TypeOK, Tick, ProviderUpdates, Version
<1>2. TypeOK'
  BY <1>1 DEF IInv, TypeOK, CallsOK, DataPresent, callVars
<1>3. SnapshotStaysCurrent' /\ KeysMatchMetadata' /\ DeadlinesOK'
  BY <1>1 DEF IInv, SnapshotStaysCurrent, KeysMatchMetadata, DeadlinesOK, callVars,
     DisabledMeansNoDeadlines, StaleWindowFollowsFreshness, RetryWithinStaleWindow
<1>4. AnswersAreNewer'
  <2>1. /\ provider.meta \in Nat /\ published \in Nat /\ published' \in Nat
    BY <1>1 DEF IInv, TypeOK, ProviderState, Version
  <2>2. ASSUME NEW c \in Caller, pc[c] \in Refreshing
        PROVE  current[c].askedAt \in Nat
    BY <2>2, SnapshotType DEF IInv, TypeOK, Snapshot, Version
  <2>3. ASSUME NEW c \in Caller, pc[c] = "populating"
        PROVE  answer[c].meta \in Nat
    BY <2>3, AnswerType DEF IInv, TypeOK, Answer, Version
  <2> QED
    BY <1>1, <2>1, <2>2, <2>3 DEF IInv, AnswersAreNewer, callVars, Refreshing
<1> QED
  BY <1>2, <1>3, <1>4 DEF IInv

\* Every setter preserves the invariant.
LEMMA SetterKeeps == IInv /\ Setter => IInv'
<1> SUFFICES ASSUME IInv, Setter PROVE IInv'
  OBVIOUS
<1>1. /\ provider' \in ProviderState
      /\ provider'.meta = provider.meta /\ provider'.jwks = provider.jwks
      /\ DeadlinesOK'
      /\ UNCHANGED <<clock, published, lock, callVars>>
  BY SetterEffect DEF IInv
<1>2. TypeOK'
  BY <1>1 DEF IInv, TypeOK, CallsOK, DataPresent, callVars
<1>3. SnapshotStaysCurrent' /\ KeysMatchMetadata' /\ AnswersAreNewer'
  BY <1>1 DEF IInv, SnapshotStaysCurrent, KeysMatchMetadata, AnswersAreNewer, callVars
<1> QED
  BY <1>1, <1>2, <1>3 DEF IInv

-----------------------------------------------------------------------------
(* One lemma per step of a call.                                           *)

\* A call that ends without publishing anything.
LEMMA ReturnKeeps ==
  ASSUME IInv, NEW c \in Caller, NEW o \in Version \cup {None, Failed}, Return(c, o),
         provider' \in ProviderState, DeadlinesOK',
         provider'.meta = provider.meta, provider'.jwks = provider.jwks,
         UNCHANGED <<clock, published>>, calls' \in [Caller -> 0..MaxCalls]
  PROVE  IInv'
<1>1. TypeOK /\ CallsOK /\ InFlight /\ KeysMatchMetadata
  BY DEF IInv, TypeOK, InFlight
<1>2. CallsOK'
  BY <1>1, ReturnType
<1>3. TypeOK'
  BY <1>1, <1>2 DEF TypeOK
<1>4. InFlight'
  BY <1>1, ReturnKeepsInFlight
<1>5. KeysMatchMetadata'
  BY <1>1 DEF KeysMatchMetadata
<1> QED
  BY <1>3, <1>4, <1>5 DEF IInv, InFlight

\* A call that starts to wait for the lock.
LEMMA QueueKeeps ==
  ASSUME IInv, NEW c \in Caller, NEW f \in BOOLEAN, Starts(c), Queue(c, f),
         UNCHANGED <<clock, published, provider>>
  PROVE  IInv'
<1>1. TypeOK /\ CallsOK /\ SnapshotStaysCurrent /\ AnswersAreNewer
  BY DEF IInv, TypeOK
<1>2. /\ calls' \in [Caller -> 0..MaxCalls]
      /\ pc[c] = "idle" /\ UNCHANGED <<lock, current, answer>>
  BY <1>1, CallBound DEF TypeOK, Starts, Queue
<1>3. /\ pc' = [pc EXCEPT ![c] = "queued"]
      /\ pc \in [Caller -> Refreshing \cup {"idle", "queued"}]
  BY <1>1 DEF Queue, CallsOK
<1>4. \A d \in Caller : /\ pc'[d] \in Refreshing <=> pc[d] \in Refreshing
                        /\ pc'[d] = "populating" <=> pc[d] = "populating"
  BY <1>2, <1>3 DEF Refreshing
<1>5. DataPresent'
  BY <1>1, <1>2, <1>4 DEF CallsOK, DataPresent
<1>6. CallsOK'
  BY <1>1, <1>2, <1>5 DEF CallsOK, Queue
<1>7. TypeOK'
  BY <1>1, <1>2, <1>6 DEF TypeOK
<1>8. SnapshotStaysCurrent'
  BY <1>1, <1>2, <1>4 DEF SnapshotStaysCurrent
<1>9. lock' # None => pc'[lock'] \in Refreshing
  BY <1>1, <1>2, <1>4 DEF AnswersAreNewer, CallsOK, Option
<1>10. AnswersAreNewer'
  BY <1>1, <1>2, <1>4, <1>9 DEF AnswersAreNewer
<1>11. KeysMatchMetadata' /\ DeadlinesOK'
  BY DEF IInv, KeysMatchMetadata, DeadlinesOK, DisabledMeansNoDeadlines,
         StaleWindowFollowsFreshness, RetryWithinStaleWindow
<1> QED
  BY <1>7, <1>8, <1>10, <1>11 DEF IInv

\* Starting a stale check preserves the invariant.
LEMMA StaleCheckKeeps ==
  ASSUME IInv, NEW c \in Caller, StaleCheck(c)
  PROVE  IInv'
<1>1. CASE NeedsRefresh
  BY <1>1, QueueKeeps DEF StaleCheck
<1>2. CASE ~NeedsRefresh
  <2>1. /\ Return(c, provider.meta) /\ UNCHANGED <<clock, published, provider>>
        /\ calls' = [calls EXCEPT ![c] = @ + 1] /\ calls[c] < MaxCalls
    BY <1>2 DEF StaleCheck, Starts
  <2>2. /\ provider.meta \in Version \cup {None, Failed} /\ provider' \in ProviderState
        /\ calls' \in [Caller -> 0..MaxCalls]
    BY <2>1, CallBound DEF IInv, TypeOK, ProviderState
  <2>3. DeadlinesOK'
    BY <2>1 DEF IInv, DeadlinesOK, DisabledMeansNoDeadlines,
                StaleWindowFollowsFreshness, RetryWithinStaleWindow
  <2> QED
    BY <2>1, <2>2, <2>3, ReturnKeeps
<1> QED
  BY <1>1, <1>2

\* A call that finds a fresh snapshot, or is dropped.
LEMMA EndKeeps ==
  ASSUME IInv, NEW c \in Caller, FindsFresh(c) \/ Cancel(c)
  PROVE  IInv'
<1>1. PICK o \in Version \cup {None, Failed} : Return(c, o)
  BY DEF FindsFresh, Cancel, IInv, TypeOK, ProviderState
<1>2. UNCHANGED <<clock, published, provider, calls>>
  BY DEF FindsFresh, Cancel
<1>3. DeadlinesOK' /\ provider' \in ProviderState /\ calls' \in [Caller -> 0..MaxCalls]
  BY <1>2 DEF IInv, TypeOK, DeadlinesOK, DisabledMeansNoDeadlines,
              StaleWindowFollowsFreshness, RetryWithinStaleWindow
<1> QED
  BY <1>1, <1>2, <1>3, ReturnKeeps

\* Sending the request: nobody else is past the lock, and the snapshot is the
\* published state.
LEMMA SendDiscoveryKeeps ==
  ASSUME IInv, NEW c \in Caller, SendDiscovery(c)
  PROVE  IInv'
<1>1. TypeOK /\ CallsOK /\ SnapshotStaysCurrent /\ AnswersAreNewer
  BY DEF IInv, TypeOK
<1> DEFINE s == [meta |-> provider.meta, jwks |-> provider.jwks, askedAt |-> published]
<1>2. /\ lock = None /\ lock' = c /\ pc[c] = "queued"
      /\ pc' = [pc EXCEPT ![c] = "discovering"]
      /\ current' = [current EXCEPT ![c] = s]
      /\ UNCHANGED <<clock, published, provider, forced, answer, result, calls>>
  BY DEF SendDiscovery
<1>3. s \in Snapshot /\ s # NoSnapshot
  BY <1>1, NoneIsNoNumber DEF TypeOK, ProviderState, Snapshot, NoSnapshot, Version
<1>4. \A d \in Caller : pc[d] \notin Refreshing
  BY <1>1, <1>2, NoneIsNoCaller DEF SnapshotStaysCurrent
<1>5. /\ pc' \in [Caller -> Refreshing \cup {"idle", "queued"}]
      /\ \A d \in Caller : pc'[d] \in Refreshing <=> d = c
      /\ \A d \in Caller : pc'[d] # "populating"
      /\ current'[c] = s /\ pc'[c] = "discovering"
  BY <1>1, <1>2, <1>4 DEF CallsOK, Refreshing
<1> HIDE DEF s
<1>6. DataPresent'
  BY <1>1, <1>2, <1>3, <1>4, <1>5 DEF CallsOK, DataPresent, Refreshing
<1>7. current' \in [Caller -> Snapshot \cup {NoSnapshot}]
  BY <1>1, <1>2, <1>3 DEF CallsOK
<1>8. CallsOK'
  BY <1>1, <1>2, <1>5, <1>6, <1>7 DEF CallsOK, Option
<1>9. TypeOK'
  BY <1>1, <1>2, <1>8 DEF TypeOK
<1>10. SnapshotStaysCurrent'
  BY <1>2, <1>5 DEF SnapshotStaysCurrent, s
<1>11. AnswersAreNewer'
  <2>1. published \in Nat
    BY <1>1 DEF TypeOK, Version
  <2>2. s.askedAt = published
    BY DEF s
  <2>3. pc'[lock'] \in Refreshing
    BY <1>2, <1>5
  <2> QED
    BY <1>1, <1>2, <1>5, <2>1, <2>2, <2>3 DEF AnswersAreNewer
<1>12. KeysMatchMetadata' /\ DeadlinesOK'
  BY <1>2 DEF IInv, KeysMatchMetadata, DeadlinesOK, DisabledMeansNoDeadlines,
              StaleWindowFollowsFreshness, RetryWithinStaleWindow
<1> QED
  BY <1>9, <1>10, <1>11, <1>12 DEF IInv

\* An answer with the jwks_uri of the snapshot is published with its keys, which
\* are still the published ones.
LEMMA DiscoverySameKeysKeeps ==
  ASSUME IInv, NEW c \in Caller, DiscoverySameKeys(c)
  PROVE  IInv'
<1>1. /\ TypeOK /\ CallsOK /\ SnapshotStaysCurrent /\ AnswersAreNewer /\ KeysMatchMetadata
      /\ pc[c] = "discovering" /\ pc[c] \in Refreshing
      /\ UNCHANGED <<clock, published, calls>>
  BY DEF IInv, TypeOK, DiscoverySameKeys, Refreshing
<1>2. PICK v \in current[c].askedAt..published, r \in Response :
        /\ JwksUri[v] = JwksUri[current[c].meta]
        /\ Publish(c, v, r, current[c].jwks)
  BY DEF DiscoverySameKeys, SameKeys
<1>3. current[c] \in Snapshot
  BY <1>1, SnapshotType
<1>4. v \in Version /\ v <= published /\ current[c].jwks \in Jwks
  BY <1>1, <1>2, <1>3, VersionBound DEF TypeOK, Snapshot, Version
<1>5. current[c].meta = provider.meta /\ current[c].jwks = provider.jwks
  BY <1>1 DEF SnapshotStaysCurrent
<1>6. /\ current[c].jwks.uri = JwksUri[v]
      /\ JwksUri[v] # JwksUri[0] => current[c].jwks.filled
  BY <1>1, <1>2, <1>5 DEF KeysMatchMetadata
<1> QED
  BY <1>1, <1>2, <1>4, <1>6, PublishKeeps

\* A new jwks_uri: the answer is kept aside until its keys are there.
LEMMA DiscoveryNewKeysKeeps ==
  ASSUME IInv, NEW c \in Caller, DiscoveryNewKeys(c)
  PROVE  IInv'
<1>1. TypeOK /\ CallsOK /\ SnapshotStaysCurrent /\ AnswersAreNewer
  BY DEF IInv, TypeOK
<1>2. /\ pc[c] = "discovering" /\ pc' = [pc EXCEPT ![c] = "populating"]
      /\ UNCHANGED <<clock, published, provider, lock, forced, current, result, calls>>
  BY DEF DiscoveryNewKeys
<1>3. PICK v \in current[c].askedAt..published, r \in Response :
        answer' = [answer EXCEPT ![c] =
                     [meta |-> v, headers |-> r, jwks |-> NewJwks(v)]]
  BY DEF DiscoveryNewKeys
<1> DEFINE a == [meta |-> v, headers |-> r, jwks |-> NewJwks(v)]
<1>4. current[c] \in Snapshot
  BY <1>1, <1>2, SnapshotType DEF Refreshing
<1>5. v \in Version /\ current[c].askedAt <= v /\ v <= published
  BY <1>1, <1>3, <1>4, VersionBound DEF TypeOK, Snapshot, Version
<1>6. a \in Answer /\ a # NoAnswer /\ a.meta = v /\ a.jwks.uri = JwksUri[v]
  BY <1>5, NoneIsNoNumber DEF Answer, NoAnswer, NewJwks, Jwks, Version
<1>7. answer' = [answer EXCEPT ![c] = a]
  BY <1>3
<1> HIDE DEF a
<1>8. /\ pc' \in [Caller -> Refreshing \cup {"idle", "queued"}]
      /\ answer' \in [Caller -> Answer \cup {NoAnswer}]
      /\ answer'[c] = a /\ pc'[c] = "populating"
      /\ \A d \in Caller : d # c => pc'[d] = pc[d] /\ answer'[d] = answer[d]
      /\ \A d \in Caller : pc'[d] \in Refreshing <=> pc[d] \in Refreshing
  BY <1>1, <1>2, <1>6, <1>7 DEF CallsOK, Refreshing
<1>9. DataPresent'
  BY <1>1, <1>2, <1>6, <1>8 DEF CallsOK, DataPresent
<1>10. CallsOK'
  BY <1>1, <1>2, <1>8, <1>9 DEF CallsOK
<1>11. TypeOK'
  BY <1>1, <1>2, <1>10 DEF TypeOK
<1>12. SnapshotStaysCurrent'
  BY <1>1, <1>2, <1>8 DEF SnapshotStaysCurrent
<1>13. AnswersAreNewer'
  <2>1. lock' # None => pc'[lock'] \in Refreshing
    BY <1>1, <1>2, <1>8 DEF AnswersAreNewer, CallsOK, Option
  <2> QED
    BY <1>1, <1>2, <1>5, <1>6, <1>8, <2>1 DEF AnswersAreNewer
<1>14. KeysMatchMetadata' /\ DeadlinesOK'
  BY <1>2 DEF IInv, KeysMatchMetadata, DeadlinesOK, DisabledMeansNoDeadlines,
              StaleWindowFollowsFreshness, RetryWithinStaleWindow
<1> QED
  BY <1>11, <1>12, <1>13, <1>14 DEF IInv

\* Publishing after the keys are populated preserves the invariant.
LEMMA KeysPopulatedKeeps ==
  ASSUME IInv, NEW c \in Caller, KeysPopulated(c)
  PROVE  IInv'
<1> DEFINE j == [answer[c].jwks EXCEPT !.filled = TRUE]
<1>1. /\ TypeOK /\ CallsOK /\ AnswersAreNewer
      /\ pc[c] = "populating" /\ pc[c] \in Refreshing
      /\ Publish(c, answer[c].meta, answer[c].headers, j)
      /\ UNCHANGED <<clock, published, calls>>
  BY DEF IInv, TypeOK, KeysPopulated, Refreshing
<1>2. answer[c] \in Answer
  BY <1>1, AnswerType
<1>3. answer[c].meta <= published /\ answer[c].jwks.uri = JwksUri[answer[c].meta]
  BY <1>1 DEF AnswersAreNewer
<1>4. j \in Jwks /\ j.uri = JwksUri[answer[c].meta] /\ j.filled
  BY <1>2, <1>3 DEF Answer, Jwks
<1> HIDE DEF j
<1> QED
  BY <1>1, <1>2, <1>3, <1>4, PublishKeeps DEF Answer

\* A masked failure defers the retry within the stale window; any other failure
\* changes nothing.
LEMMA RequestFailsKeeps ==
  ASSUME IInv, NEW c \in Caller, RequestFails(c)
  PROVE  IInv'
<1>1. /\ provider \in ProviderState /\ clock \in 0..MaxTime /\ DeadlinesOK
      /\ UNCHANGED <<clock, published, calls>> /\ calls' \in [Caller -> 0..MaxCalls]
  BY DEF IInv, TypeOK, RequestFails
<1>2. CASE Masked(c)
  <2>1. /\ provider' = [provider EXCEPT !.retryAfter = RetryDeadline]
        /\ Return(c, provider.meta)
    BY <1>2 DEF RequestFails
  <2>2. provider.staleUntil # None /\ provider.staleUntil \in 0..MaxInstant
    BY <1>1, <1>2 DEF Masked, ProviderState, Deadline, Option
  <2>3. RetryDeadline \in 0..MaxInstant /\ RetryDeadline <= provider.staleUntil
    BY <1>1, <2>2, DurationsAreNat, ClockBounds, NoneIsNoNumber
    DEF RetryDeadline, CheckedAdd, Smaller
  <2> HIDE DEF RetryDeadline
  <2>4. /\ provider' \in ProviderState
        /\ provider'.meta = provider.meta /\ provider'.jwks = provider.jwks
        /\ provider.meta \in Version \cup {None, Failed}
    BY <1>1, <2>1, <2>3 DEF ProviderState, Deadline, Option
  <2>5. DeadlinesOK'
    BY <1>1, <2>1, <2>2, <2>3, <2>4
    DEF DeadlinesOK, DisabledMeansNoDeadlines, StaleWindowFollowsFreshness,
        RetryWithinStaleWindow, ProviderState
  <2> QED
    BY <1>1, <2>1, <2>4, <2>5, ReturnKeeps
<1>3. CASE ~Masked(c)
  <2>1. UNCHANGED provider /\ Return(c, Failed)
    BY <1>3 DEF RequestFails
  <2>2. DeadlinesOK'
    BY <1>1, <2>1 DEF DeadlinesOK, DisabledMeansNoDeadlines,
                      StaleWindowFollowsFreshness, RetryWithinStaleWindow
  <2> QED
    BY <1>1, <2>1, <2>2, ReturnKeeps
<1> QED
  BY <1>2, <1>3

\* The invariant is inductive.
LEMMA NextKeepsInvariant == IInv /\ [Next]_vars => IInv'
<1> SUFFICES ASSUME IInv, [Next]_vars PROVE IInv'
  OBVIOUS
<1>1. CASE Tick \/ ProviderUpdates
  BY <1>1, EnvironmentKeeps
<1>2. CASE Setter
  BY <1>2, SetterKeeps
<1>3. ASSUME NEW c \in Caller, CallStep(c) PROVE IInv'
  <2>1. CASE StaleCheck(c)
    BY <2>1, StaleCheckKeeps
  <2>2. CASE ForceRefresh(c)
    BY <2>2, QueueKeeps DEF ForceRefresh
  <2>3. CASE FindsFresh(c) \/ Cancel(c)
    BY <2>3, EndKeeps
  <2>4. CASE SendDiscovery(c)
    BY <2>4, SendDiscoveryKeeps
  <2>5. CASE DiscoverySameKeys(c)
    BY <2>5, DiscoverySameKeysKeeps
  <2>6. CASE DiscoveryNewKeys(c)
    BY <2>6, DiscoveryNewKeysKeeps
  <2>7. CASE KeysPopulated(c)
    BY <2>7, KeysPopulatedKeeps
  <2>8. CASE RequestFails(c)
    BY <2>8, RequestFailsKeeps
  <2> QED
    BY <1>3, <2>1, <2>2, <2>3, <2>4, <2>5, <2>6, <2>7, <2>8
    DEF CallStep, Progress, Succeeds
<1>4. CASE UNCHANGED vars
  BY <1>4
  DEF vars, callVars, IInv, TypeOK, CallsOK, DataPresent, SnapshotStaysCurrent,
      AnswersAreNewer, KeysMatchMetadata, DeadlinesOK, DisabledMeansNoDeadlines,
      StaleWindowFollowsFreshness, RetryWithinStaleWindow
<1> QED
  BY <1>1, <1>2, <1>3, <1>4 DEF Next

\* Every reachable state satisfies the inductive invariant.
THEOREM Invariance == Spec => []IInv
BY InitInvariant, NextKeepsInvariant, PTL DEF Spec

-----------------------------------------------------------------------------
(* The theorems.                                                           *)

\* Every variable keeps its type; no deadline overflows.
THEOREM TypeCorrect == Spec => []TypeOK
BY Invariance, PTL DEF IInv

\* The snapshot a refresh works on is the published one until it publishes.
THEOREM SnapshotsAreCurrent == Spec => []SnapshotStaysCurrent
BY Invariance, PTL DEF IInv

\* Metadata and keys change together.
THEOREM KeysMatch == Spec => []KeysMatchMetadata
BY Invariance, PTL DEF IInv

\* Disabling stale checks leaves no deadline, whatever was in flight.
THEOREM DisableWins == Spec => []DisabledMeansNoDeadlines
BY Invariance, PTL DEF IInv, DeadlinesOK

\* The stale window is always the one the settings and the response imply.
THEOREM StaleWindowIsDerived == Spec => []StaleWindowFollowsFreshness
BY Invariance, PTL DEF IInv, DeadlinesOK

\* A deferred retry stays within the stale window.
THEOREM RetryIsBounded == Spec => []RetryWithinStaleWindow
BY Invariance, PTL DEF IInv, DeadlinesOK

\* The deadlines agree with each other and with the settings.
THEOREM DeadlinesHold == Spec => []DeadlinesOK
BY Invariance, PTL DEF IInv

\* What a publishing step publishes: an answer to the request of the holder of
\* the lock.
LEMMA SuccessEffect ==
  ASSUME IInv, NEW c \in Caller, Succeeds(c)
  PROVE  /\ pc[c] \in Refreshing /\ lock = c /\ lock' = None
         /\ current[c].askedAt \in Version
         /\ provider'.meta \in Version /\ result' = [result EXCEPT ![c] = provider'.meta]
         /\ current[c].askedAt <= provider'.meta /\ provider'.meta <= published
         /\ provider'.interval = provider.interval /\ provider'.minimum = provider.minimum
         /\ provider'.retain = provider.retain
         /\ UNCHANGED <<clock, published, calls>>
<1>1. TypeOK /\ CallsOK /\ SnapshotStaysCurrent /\ AnswersAreNewer
  BY DEF IInv, TypeOK
<1>2. /\ pc[c] \in Refreshing /\ UNCHANGED <<clock, published, calls>>
  BY DEF Succeeds, DiscoverySameKeys, KeysPopulated, Refreshing
<1>3. lock = c
  BY <1>1, <1>2 DEF SnapshotStaysCurrent
<1>4. current[c] \in Snapshot
  BY <1>1, <1>2, SnapshotType
<1>5. ASSUME NEW v \in Version, NEW h \in Response, NEW j \in Jwks, Publish(c, v, h, j)
      PROVE  /\ provider'.meta = v /\ lock' = None
             /\ result' = [result EXCEPT ![c] = provider'.meta]
             /\ provider'.interval = provider.interval
             /\ provider'.minimum = provider.minimum
             /\ provider'.retain = provider.retain
  <2>1. Return(c, v)
    BY <1>5 DEF Publish
  <2> QED
    BY <1>1, <1>3, <1>5, <2>1, PublishEffect DEF Return, Release
<1>6. CASE DiscoverySameKeys(c)
  <2>1. PICK v \in current[c].askedAt..published, r \in Response :
          Publish(c, v, r, current[c].jwks)
    BY <1>6 DEF DiscoverySameKeys
  <2>2. v \in Version /\ current[c].askedAt <= v /\ v <= published
    BY <1>1, <1>4, <2>1, VersionBound DEF TypeOK, Snapshot, Version
  <2> QED
    BY <1>2, <1>3, <1>4, <1>5, <2>1, <2>2 DEF Snapshot
<1>7. CASE KeysPopulated(c)
  <2>1. /\ pc[c] = "populating"
        /\ Publish(c, answer[c].meta, answer[c].headers,
                   [answer[c].jwks EXCEPT !.filled = TRUE])
    BY <1>7 DEF KeysPopulated
  <2>2. answer[c] \in Answer
    BY <1>1, <2>1, AnswerType
  <2>3. [answer[c].jwks EXCEPT !.filled = TRUE] \in Jwks
    BY <2>2 DEF Answer, Jwks
  <2>4. current[c].askedAt <= answer[c].meta /\ answer[c].meta <= published
    BY <1>1, <2>1 DEF AnswersAreNewer
  <2> QED
    BY <1>2, <1>3, <1>4, <1>5, <2>1, <2>2, <2>3, <2>4 DEF Snapshot, Answer
<1> QED
  BY <1>6, <1>7 DEF Succeeds

\* All other steps keep the document.
LEMMA OnlySuccessPublishes ==
  ASSUME IInv, [Next]_vars, \A c \in Caller : ~Succeeds(c)
  PROVE  provider'.meta = provider.meta
<1>1. CASE Setter
  BY <1>1, SetterEffect DEF IInv
<1>2. CASE ~Setter
  <2>1. ASSUME NEW c \in Caller, RequestFails(c) PROVE provider'.meta = provider.meta
    BY <2>1 DEF RequestFails, IInv, TypeOK, ProviderState
  <2> QED
    BY <1>2, <2>1 DEF Next, CallStep, Progress, Tick, ProviderUpdates, StaleCheck,
       ForceRefresh, FindsFresh, SendDiscovery, DiscoveryNewKeys, Cancel, vars
<1> QED
  BY <1>1, <1>2

\* The published document never goes back to an older version.
THEOREM NeverGoesBackHolds == Spec => NeverGoesBack
<1>1. IInv /\ [Next]_vars => [provider'.meta >= provider.meta]_vars
  <2> SUFFICES ASSUME IInv, [Next]_vars PROVE provider'.meta >= provider.meta
    OBVIOUS
  <2>1. provider.meta \in Version
    BY DEF IInv, TypeOK, ProviderState
  <2>2. ASSUME NEW c \in Caller, Succeeds(c) PROVE provider'.meta >= provider.meta
    <3>1. /\ pc[c] \in Refreshing /\ current[c].askedAt \in Version
          /\ provider'.meta \in Version /\ current[c].askedAt <= provider'.meta
      BY <2>2, SuccessEffect
    <3>2. provider.meta <= current[c].askedAt
      BY <3>1 DEF IInv, AnswersAreNewer
    <3> QED
      BY <2>1, <3>1, <3>2 DEF Version
  <2>3. CASE \A c \in Caller : ~Succeeds(c)
    BY <2>1, <2>3, OnlySuccessPublishes DEF Version
  <2> QED
    BY <2>2, <2>3
<1> QED
  BY <1>1, Invariance, PTL DEF Spec, NeverGoesBack

\* A setting changed while a refresh is in flight survives its publication.
THEOREM SettingsSurvive == Spec => SettingsSurviveRefresh
<1> DEFINE Kept == pc' # pc => /\ provider'.interval = provider.interval
                               /\ provider'.minimum = provider.minimum
                               /\ provider'.retain = provider.retain
<1>1. IInv /\ [Next]_vars => [Kept]_vars
  <2> SUFFICES ASSUME IInv, [Next]_vars PROVE Kept
    OBVIOUS
  <2>1. CASE Setter
    BY <2>1, SetterEffect DEF IInv, callVars
  <2>2. ASSUME NEW c \in Caller, Succeeds(c) PROVE Kept
    BY <2>2, SuccessEffect
  <2>3. ASSUME NEW c \in Caller, RequestFails(c) PROVE Kept
    BY <2>3 DEF RequestFails, IInv, TypeOK, ProviderState
  <2>4. CASE ~Setter /\ \A c \in Caller : ~Succeeds(c) /\ ~RequestFails(c)
    BY <2>4 DEF Next, CallStep, Progress, Tick, ProviderUpdates, StaleCheck,
       ForceRefresh, FindsFresh, SendDiscovery, DiscoveryNewKeys, Cancel, vars
  <2> QED
    BY <2>1, <2>2, <2>3, <2>4
<1> QED
  BY <1>1, Invariance, PTL DEF Spec, SettingsSurviveRefresh

-----------------------------------------------------------------------------
(* The refinement: Flight is SingleFlight seen through the lock.           *)

\* When a call ends without publishing, its request is aborted, or there was
\* none and the one in flight is another's.
LEMMA ReturnMaps ==
  ASSUME IInv, NEW c \in Caller, NEW o, Return(c, o),
         provider'.meta = provider.meta, published' = published
  PROVE  Flight!Abort \/ UNCHANGED Flight!vars
<1>1. TypeOK /\ CallsOK /\ SnapshotStaysCurrent /\ AnswersAreNewer
  BY DEF IInv, TypeOK
<1>2. /\ lock' = IF lock = c THEN None ELSE lock
      /\ current' = [current EXCEPT ![c] = NoSnapshot]
  BY DEF Return, Release
<1>3. lock \in Option(Caller) /\ current \in [Caller -> Snapshot \cup {NoSnapshot}]
  BY <1>1 DEF CallsOK
<1>4. CASE lock = c
  <2>1. pc[c] \in Refreshing
    BY <1>1, <1>4, NoneIsNoCaller DEF AnswersAreNewer
  <2>2. current[c].askedAt \in Version
    BY <1>1, <2>1, SnapshotType DEF Snapshot
  <2>3. current[c].askedAt # None
    BY <2>2, NoneIsNoNumber DEF Version
  <2> QED
    BY <1>2, <1>4, <2>3, NoneIsNoCaller DEF Flight!Abort
<1>5. CASE lock # c
  <2>1. lock' = lock
    BY <1>2, <1>5
  <2>2. lock # None => current'[lock] = current[lock]
    BY <1>2, <1>3, <1>5 DEF Option
  <2> QED
    BY <2>1, <2>2 DEF Flight!vars
<1> QED
  BY <1>4, <1>5

\* The steps that leave the lock and the snapshot of its holder alone.
LEMMA QuietMaps ==
  ASSUME provider'.meta = provider.meta, UNCHANGED <<published, lock, current>>
  PROVE  UNCHANGED Flight!vars
BY DEF Flight!vars

\* Every step of the client is a step of the single-flight cache, or none.
LEMMA NextMaps == IInv /\ [Next]_vars => [Flight!Next]_(Flight!vars)
<1> SUFFICES ASSUME IInv, [Next]_vars
             PROVE  Flight!Next \/ UNCHANGED Flight!vars
  OBVIOUS
<1> USE DEF Flight!Next
<1>1. CASE Setter
  <2>1. provider'.meta = provider.meta /\ UNCHANGED <<published, lock, current>>
    BY <1>1, SetterEffect DEF IInv, callVars
  <2> QED
    BY <2>1, QuietMaps
<1>2. CASE Tick
  <2>1. provider'.meta = provider.meta /\ UNCHANGED <<published, lock, current>>
    BY <1>2 DEF Tick, callVars
  <2> QED
    BY <2>1, QuietMaps
<1>3. CASE ProviderUpdates
  BY <1>3 DEF ProviderUpdates, callVars, Flight!Update
<1>4. ASSUME NEW c \in Caller, StaleCheck(c)
      PROVE  Flight!Next \/ UNCHANGED Flight!vars
  <2>1. CASE NeedsRefresh
    BY <1>4, <2>1, QuietMaps DEF StaleCheck, Queue
  <2>2. CASE ~NeedsRefresh
    BY <1>4, <2>2, ReturnMaps DEF StaleCheck
  <2> QED
    BY <2>1, <2>2
<1>5. ASSUME NEW c \in Caller, ForceRefresh(c)
      PROVE  Flight!Next \/ UNCHANGED Flight!vars
  BY <1>5, QuietMaps DEF ForceRefresh, Queue
<1>6. ASSUME NEW c \in Caller, FindsFresh(c) \/ Cancel(c)
      PROVE  Flight!Next \/ UNCHANGED Flight!vars
  BY <1>6, ReturnMaps DEF FindsFresh, Cancel
<1>7. ASSUME NEW c \in Caller, SendDiscovery(c)
      PROVE  Flight!Next \/ UNCHANGED Flight!vars
  <2>1. /\ lock = None /\ lock' = c /\ current'[c].askedAt = published
        /\ provider'.meta = provider.meta /\ published' = published
    BY <1>7 DEF SendDiscovery, IInv, TypeOK, CallsOK
  <2>2. Flight!Send
    BY <2>1, NoneIsNoCaller DEF Flight!Send
  <2> QED
    BY <2>2
<1>8. ASSUME NEW c \in Caller, Succeeds(c)
      PROVE  Flight!Next \/ UNCHANGED Flight!vars
  <2>1. /\ lock = c /\ lock' = None /\ current[c].askedAt \in Version
        /\ provider'.meta \in Version /\ current[c].askedAt <= provider'.meta
        /\ provider'.meta <= published /\ published' = published
    BY <1>8, SuccessEffect
  <2>2. current[c].askedAt # None /\ published \in Nat
    BY <2>1, NoneIsNoNumber DEF Version, IInv, TypeOK
  <2>3. provider'.meta \in current[c].askedAt..published
    BY <2>1, <2>2 DEF Version
  <2>4. Flight!Land
    BY <2>1, <2>2, <2>3, NoneIsNoCaller DEF Flight!Land
  <2> QED
    BY <2>4
<1>9. ASSUME NEW c \in Caller, DiscoveryNewKeys(c)
      PROVE  Flight!Next \/ UNCHANGED Flight!vars
  BY <1>9, QuietMaps DEF DiscoveryNewKeys
<1>10. ASSUME NEW c \in Caller, RequestFails(c)
       PROVE  Flight!Next \/ UNCHANGED Flight!vars
  <2>1. PICK o : Return(c, o)
    BY <1>10 DEF RequestFails
  <2>2. provider'.meta = provider.meta /\ published' = published
    BY <1>10 DEF RequestFails, IInv, TypeOK, ProviderState
  <2> QED
    BY <2>1, <2>2, ReturnMaps
<1>11. CASE UNCHANGED vars
  <2>1. provider'.meta = provider.meta /\ UNCHANGED <<published, lock, current>>
    BY <1>11 DEF vars, callVars
  <2> QED
    BY <2>1, QuietMaps
<1> QED
  BY <1>1, <1>2, <1>3, <1>4, <1>5, <1>6, <1>7, <1>8, <1>9, <1>10, <1>11
  DEF Next, CallStep, Progress

\* The client implements the single-flight cache, with every number of tasks and
\* whatever setters, failures and dropped futures do in between.
THEOREM Refinement == Spec => ImplementsSingleFlight
<1>1. Init => Flight!Init
  <2> SUFFICES ASSUME Init PROVE Flight!Init
    OBVIOUS
  <2>1. provider.meta = published /\ published = 0 /\ lock = None
    BY DEF Init, DiscoveredProvider, ProviderFromParts
  <2> QED
    BY <2>1 DEF Flight!Init
<1> QED
  BY <1>1, NextMaps, Invariance, PTL DEF Spec, ImplementsSingleFlight, Flight!Spec

-----------------------------------------------------------------------------
(* What the calls return.                                                  *)

\* The step of one task is no return of another, and a step of no task is none.
LEMMA OthersDoNotReturn ==
  ASSUME IInv, NEW c \in Caller, Returns(c), [Next]_vars
  PROVE  \/ StaleCheck(c) /\ ~NeedsRefresh
         \/ FindsFresh(c) \/ Cancel(c) \/ Succeeds(c) \/ RequestFails(c)
<1>1. CallsOK /\ TypeOK
  BY DEF IInv, TypeOK
<1>2. ~UNCHANGED callVars
  BY DEF Returns, callVars
<1>3. PICK d \in Caller : CallStep(d)
  <2>1. ~Setter
    BY <1>2, SetterEffect DEF IInv
  <2> QED
    BY <1>2, <2>1 DEF Next, Tick, ProviderUpdates, vars
<1>4. d = c
  <2> SUFFICES ASSUME d # c PROVE FALSE
    OBVIOUS
  <2>1. pc'[c] = pc[c] /\ calls'[c] = calls[c]
    BY <1>1, <1>3 DEF CallStep, Progress, Succeeds, StaleCheck, ForceRefresh, FindsFresh,
       SendDiscovery, DiscoverySameKeys, KeysPopulated, DiscoveryNewKeys, RequestFails,
       Cancel, Starts, Queue, Publish, Return, CallsOK, TypeOK
  <2> QED
    BY <2>1 DEF Returns
<1>5. ~ForceRefresh(c) /\ ~SendDiscovery(c) /\ ~DiscoveryNewKeys(c)
      /\ ~(StaleCheck(c) /\ NeedsRefresh)
  BY <1>1 DEF ForceRefresh, SendDiscovery, DiscoveryNewKeys, StaleCheck, Queue, Returns,
     CallsOK
<1> QED
  BY <1>3, <1>4, <1>5 DEF CallStep, Progress

\* A snapshot that needs no refresh is usable.
LEMMA NotStaleIsUsable ==
  ASSUME IInv, ~NeedsRefresh
  PROVE  \/ provider.interval = None
         \/ clock < provider.refreshAfter
         \/ provider.staleUntil # None /\ clock < provider.staleUntil
<1>1. /\ clock \in Nat
      /\ provider.refreshAfter \in Option(Nat)
      /\ provider.staleUntil \in Option(Nat)
      /\ provider.retryAfter \in Option(Nat)
  BY ClockBounds DEF IInv, TypeOK, ProviderState, Deadline, Option
<1> QED
  BY <1>1, NoneIsNoNumber
  DEF NeedsRefresh, Past, Option, IInv, DeadlinesOK, DisabledMeansNoDeadlines,
      RetryWithinStaleWindow

\* A stale check only returns metadata that is usable at the time.
THEOREM StaleChecksReturnUsable == Spec => StaleCheckReturnsUsable
<1> DEFINE Usable(c) == /\ result'[c] = provider'.meta
                        /\ \/ provider.interval = None
                           \/ clock < provider.refreshAfter
                           \/ provider.staleUntil # None /\ clock < provider.staleUntil
                           \/ pc[c] \in Refreshing /\ result'[c] >= current[c].askedAt
           Claim == \A c \in Caller :
                      (Returns(c) /\ result'[c] \in Version /\ ~forced[c]) => Usable(c)
<1>1. IInv /\ [Next]_vars => [Claim]_vars
  <2> SUFFICES ASSUME IInv, [Next]_vars, NEW c \in Caller, Returns(c),
                      result'[c] \in Version, ~forced[c]
               PROVE  Usable(c)
    OBVIOUS
  <2>1. result \in [Caller -> Version \cup {None, Failed}]
    BY DEF IInv, TypeOK, CallsOK
  <2>2. CASE (StaleCheck(c) /\ ~NeedsRefresh) \/ FindsFresh(c)
    <3>1. ~NeedsRefresh /\ Return(c, provider.meta) /\ UNCHANGED provider
      BY <2>2 DEF StaleCheck, FindsFresh, MustSend
    <3>2. result'[c] = provider'.meta
      BY <2>1, <3>1 DEF Return
    <3> QED
      BY <3>1, <3>2, NotStaleIsUsable
  <2>3. CASE Cancel(c)
    BY <2>1, <2>3, NoneIsNoNumber DEF Cancel, Return, Version
  <2>4. CASE Succeeds(c)
    <3>1. /\ pc[c] \in Refreshing /\ current[c].askedAt \in Version
          /\ provider'.meta \in Version /\ current[c].askedAt <= provider'.meta
          /\ result' = [result EXCEPT ![c] = provider'.meta]
      BY <2>4, SuccessEffect
    <3> QED
      BY <2>1, <3>1 DEF Version
  <2>5. CASE RequestFails(c)
    <3>1. Masked(c)
      BY <2>1, <2>5, FailedIsNoVersion DEF RequestFails, Return, Version
    <3>2. Return(c, provider.meta) /\ provider'.meta = provider.meta
      BY <2>5, <3>1 DEF RequestFails, IInv, TypeOK, ProviderState
    <3> QED
      BY <2>1, <3>1, <3>2 DEF Masked, Return
  <2> QED
    BY <2>2, <2>3, <2>4, <2>5, OthersDoNotReturn
<1> QED
  BY <1>1, Invariance, PTL DEF Spec, StaleCheckReturnsUsable

\* A stale check does not fail while the stale window is open.
THEOREM OutagesAreMasked == Spec => OutageMasked
<1> DEFINE Claim == \A c \in Caller :
                      (Returns(c) /\ result'[c] = Failed /\ ~forced[c]) =>
                        provider.staleUntil = None \/ clock >= provider.staleUntil
<1>1. IInv /\ [Next]_vars => [Claim]_vars
  <2> SUFFICES ASSUME IInv, [Next]_vars, NEW c \in Caller, Returns(c),
                      result'[c] = Failed, ~forced[c]
               PROVE  provider.staleUntil = None \/ clock >= provider.staleUntil
    OBVIOUS
  <2>1. /\ result \in [Caller -> Version \cup {None, Failed}]
        /\ provider.meta \in Version /\ clock \in Nat
        /\ provider.staleUntil \in Option(Nat)
    BY ClockBounds DEF IInv, TypeOK, CallsOK, ProviderState, Deadline, Option
  <2>2. Failed \notin Version /\ Failed # None
    BY FailedIsNoVersion DEF Version
  <2>3. CASE (StaleCheck(c) /\ ~NeedsRefresh) \/ FindsFresh(c) \/ Cancel(c)
    BY <2>1, <2>2, <2>3 DEF StaleCheck, FindsFresh, Cancel, Return
  <2>4. CASE Succeeds(c)
    <3>1. /\ provider'.meta \in Version
          /\ result' = [result EXCEPT ![c] = provider'.meta]
      BY <2>4, SuccessEffect
    <3> QED
      BY <2>1, <2>2, <3>1
  <2>5. CASE RequestFails(c)
    <3>1. ~Masked(c)
      BY <2>1, <2>2, <2>5 DEF RequestFails, Return
    <3> QED
      BY <2>1, <3>1 DEF Masked, Option
  <2> QED
    BY <2>3, <2>4, <2>5, OthersDoNotReturn
<1> QED
  BY <1>1, Invariance, PTL DEF Spec, OutageMasked

-----------------------------------------------------------------------------
(* The spacing of stale checks, with the history variables.                *)

\* While stale checks should be quiet a deadline keeps them so: the snapshot is
\* fresh, or the retry is deferred, or nothing is checked at all.
QuietIsKept ==
  /\ quietUntil \in Nat
  /\ \/ quietUntil <= clock
     \/ provider.refreshAfter = None
     \/ quietUntil <= provider.refreshAfter
     \/ provider.retryAfter # None /\ quietUntil <= provider.retryAfter

HInv == IInv /\ QuietIsKept

\* The history variables only watch.
LEMMA HistoryWatches == [HNext]_hvars => [Next]_vars
BY DEF HNext, hvars, HSetter, HSucceeds, HFails, HOther, Next, CallStep, Progress

\* The minimum cache duration bounds freshness from below, and freshness without
\* a representable end comes from the caller's minimum or default.
LEMMA FreshnessFloor ==
  ASSUME NEW r \in Response, NEW default \in Nat, NEW minimum \in Nat \ {0},
         clock \in 0..MaxTime
  PROVE  LET p == ResponseCachePolicy(r, default, minimum, clock)
         IN  /\ p.kind = "CacheFor" /\ p.lifetime \in Nat /\ p.lifetime >= minimum
             /\ \/ p.lifetime = minimum \/ p.lifetime <= default
                \/ clock + p.lifetime <= MaxInstant
<1> DEFINE age == ResponseAge(r.date, r.age, clock)
           stated == PolicyFromDirectives(r, default, clock)
<1>1. /\ r.directives \in Directives /\ r.expires \in Option(Nat \cup {Malformed})
      /\ r.date \in Option(Nat) /\ r.age \in Option(Nat) /\ clock \in Nat /\ clock <= MaxTime
  BY ResponseHeaders, ClockBounds
<1>2. OrZero(age) \in Nat
  BY <1>1, ResponseAgeType, NoneIsNoNumber DEF OrZero, Option
<1>3. \A a, b \in Nat : SaturatingSub(a, b) \in Nat /\ SaturatingSub(a, b) <= a
  BY DEF SaturatingSub
<1> HIDE DEF age
<1>4. ASSUME r.expires # None
      PROVE  LET e == ExpiresLifetime(r.expires, r.date, age, clock)
             IN  e \in Nat /\ clock + e <= MaxInstant
  <2>1. CASE r.expires = Malformed
    BY <1>1, <2>1, ClockBounds DEF ExpiresLifetime
  <2>2. CASE r.expires # Malformed
    <3> DEFINE base == IF r.date = None THEN clock ELSE r.date
    <3>1. r.expires \in Nat /\ base \in Nat /\ MaxTime + r.expires <= MaxInstant
      BY <1>1, <1>4, <2>2, StatedFreshnessFits DEF Option
    <3> DEFINE s == SaturatingSub(r.expires, base)
               e == SaturatingSub(s, OrZero(age))
    <3>2. s \in Nat /\ s <= r.expires
      BY <1>3, <3>1
    <3>3. e \in Nat /\ e <= r.expires
      <4> HIDE DEF s
      <4>1. e \in Nat /\ e <= s
        BY <1>2, <1>3, <3>2
      <4> QED
        BY <3>1, <3>2, <4>1
    <3>4. e = ExpiresLifetime(r.expires, r.date, age, clock)
      BY <2>2 DEF ExpiresLifetime
    <3> HIDE DEF e
    <3> QED
      BY <1>1, <3>1, <3>3, <3>4, ClockBounds
  <2> QED
    BY <2>1, <2>2
<1>5. ASSUME stated.kind = "CacheFor"
      PROVE  /\ stated.lifetime \in Nat
             /\ stated.lifetime <= default \/ clock + stated.lifetime <= MaxInstant
  <2>1. CASE r.directives.maxAge # None
    <3>1. r.directives.maxAge \in Nat /\ MaxTime + r.directives.maxAge <= MaxInstant
      BY <1>1, <2>1, StatedFreshnessFits DEF Directives, Option
    <3> DEFINE l == SaturatingSub(r.directives.maxAge, OrZero(age))
    <3>2. l \in Nat /\ l <= r.directives.maxAge
      BY <1>2, <1>3, <3>1
    <3>3. stated.lifetime = l
      BY <1>5, <2>1 DEF age, PolicyFromDirectives, ComputePolicy, CacheFor, DoNotStore, Revalidate
    <3> HIDE DEF l, stated
    <3> QED
      BY <1>1, <3>1, <3>2, <3>3, ClockBounds
  <2>2. CASE r.directives.maxAge = None /\ r.expires # None
    <3>1. stated.lifetime = ExpiresLifetime(r.expires, r.date, age, clock)
      BY <1>5, <2>2 DEF age, PolicyFromDirectives, ComputePolicy, CacheFor, DoNotStore, Revalidate
    <3> QED
      BY <1>4, <2>2, <3>1
  <2>3. CASE r.directives.maxAge = None /\ r.expires = None
    <3>1. stated.lifetime = SaturatingSub(default, OrZero(age))
      BY <1>5, <2>3 DEF age, PolicyFromDirectives, ComputePolicy, CacheFor, DoNotStore, Revalidate
    <3> QED
      BY <1>2, <1>3, <3>1
  <2> QED
    BY <2>1, <2>2, <2>3
<1> HIDE DEF stated
<1>6. ResponseCachePolicy(r, default, minimum, clock)
        = IF stated.kind = "CacheFor"
            THEN CacheFor(Larger(stated.lifetime, minimum), stated.mustRevalidate)
            ELSE CacheFor(minimum, TRUE)
  BY DEF stated, ResponseCachePolicy, ApplyMinimumCacheDuration
<1> QED
  BY <1>5, <1>6 DEF CacheFor, Larger

\* What a publication buys: freshness for the minimum cache duration, if the
\* interval of the caller has a representable end.
LEMMA PublishIsQuiet ==
  ASSUME IInv, NEW c \in Caller, NEW v, NEW h \in Response, NEW j, Publish(c, v, h, j),
         provider.interval # None, CheckedAdd(clock, provider.interval) # None
  PROVE  /\ provider'.refreshAfter \in 0..MaxInstant
         /\ RefreshDeadline(provider.minimum) <= provider'.refreshAfter
<1> DEFINE policy == ResponseCachePolicy(h, provider.interval, provider.minimum, clock)
<1>1. /\ provider.interval \in Nat /\ provider.minimum \in Nat
      /\ clock \in 0..MaxTime /\ clock \in Nat /\ clock <= MaxInstant
      /\ clock + provider.interval <= MaxInstant
  BY ClockBounds DEF IInv, TypeOK, ProviderState, Option, CheckedAdd
<1>2. policy \in Policies
  BY <1>1, PolicyType
<1>3. provider'.refreshAfter = CacheDeadlines(policy, provider.retain).refreshAfter
  BY DEF Publish, KeptInterval, Enabled
<1>4. CASE provider.minimum = 0
  <2>1. RefreshDeadline(provider.minimum) = clock
    BY <1>1, <1>4 DEF RefreshDeadline, CheckedAdd
  <2>2. policy.kind = "CacheFor" => policy.lifetime \in Nat
    BY <1>2 DEF Policies, Revalidate, DoNotStore
  <2> HIDE DEF policy
  <2>3. CASE policy.kind = "CacheFor"
    BY <1>1, <1>3, <2>1, <2>2, <2>3, RefreshDeadlineType DEF CacheDeadlines
  <2>4. CASE policy.kind # "CacheFor"
    BY <1>1, <1>3, <2>1, <2>4, ClockBounds DEF CacheDeadlines
  <2> QED
    BY <2>3, <2>4
<1>5. CASE provider.minimum # 0
  <2>1. /\ policy.kind = "CacheFor" /\ policy.lifetime \in Nat
        /\ policy.lifetime >= provider.minimum
        /\ \/ policy.lifetime = provider.minimum \/ policy.lifetime <= provider.interval
           \/ clock + policy.lifetime <= MaxInstant
    BY <1>1, <1>5, FreshnessFloor
  <2> HIDE DEF policy
  <2>2. provider'.refreshAfter = RefreshDeadline(policy.lifetime)
    BY <1>3, <2>1 DEF CacheDeadlines
  <2>3. RefreshDeadline(provider.minimum) <= RefreshDeadline(policy.lifetime)
    BY <1>1, <2>1, NoneIsNoNumber, ClockBounds DEF RefreshDeadline, CheckedAdd
  <2> QED
    BY <1>1, <2>1, <2>2, <2>3, RefreshDeadlineType
<1> QED
  BY <1>4, <1>5

\* With no request sent and nothing set, quiet stays quiet.
LEMMA QuietKept ==
  ASSUME QuietIsKept, clock \in Nat, clock' \in Nat, clock' >= clock,
         UNCHANGED <<provider, quietUntil>>
  PROVE  QuietIsKept'
BY DEF QuietIsKept

LEMMA InitQuiet == HInit => HInv
<1> SUFFICES ASSUME HInit PROVE HInv
  OBVIOUS
<1>1. IInv
  BY InitInvariant DEF HInit
<1>2. /\ clock = 0 /\ clock \in 0..MaxTime /\ DefaultMinimum \in Nat /\ DefaultInterval \in Nat
      /\ DefaultInterval <= MaxInstant
  BY DurationsAreNat, ClockBounds, StatedFreshnessFits DEF HInit, Init
<1>3. RefreshDeadline(DefaultMinimum) \in Nat
  BY <1>2, RefreshDeadlineType, ClockBounds
<1>4. CASE provider = ProviderFromParts
  <2>1. provider.interval = None
    BY <1>4 DEF ProviderFromParts
  <2>2. quietUntil = 0
    BY <2>1 DEF HInit
  <2> QED
    BY <1>1, <1>2, <2>2 DEF HInv, QuietIsKept
<1>5. ASSUME NEW r \in Response, provider = DiscoveredProvider(r) PROVE QuietIsKept
  <2> DEFINE policy == ResponseCachePolicy(r, DefaultInterval, DefaultMinimum, clock)
  <2>1. provider.refreshAfter = CacheDeadlines(policy, DefaultRetain).refreshAfter
        /\ provider.interval = DefaultInterval
    BY <1>5 DEF DiscoveredProvider
  <2>2. quietUntil = RefreshDeadline(DefaultMinimum)
    BY <1>2, <2>1, NoneIsNoNumber DEF HInit
  <2>3. CASE DefaultMinimum = 0
    BY <1>2, <1>3, <2>2, <2>3 DEF QuietIsKept, RefreshDeadline, CheckedAdd
  <2>4. CASE DefaultMinimum # 0
    <3>1. /\ policy.kind = "CacheFor" /\ policy.lifetime \in Nat
          /\ policy.lifetime >= DefaultMinimum
          /\ \/ policy.lifetime = DefaultMinimum \/ policy.lifetime <= DefaultInterval
             \/ clock + policy.lifetime <= MaxInstant
      BY <1>2, <2>4, FreshnessFloor
    <3> HIDE DEF policy
    <3>2. provider.refreshAfter = RefreshDeadline(policy.lifetime)
      BY <2>1, <3>1 DEF CacheDeadlines
    <3>3. RefreshDeadline(DefaultMinimum) <= RefreshDeadline(policy.lifetime)
      BY <1>2, <3>1, NoneIsNoNumber, ClockBounds DEF RefreshDeadline, CheckedAdd
    <3> QED
      BY <1>3, <2>2, <3>2, <3>3 DEF QuietIsKept
  <2> QED
    BY <2>3, <2>4
<1>6. provider \in {DiscoveredProvider(r) : r \in Response} \cup {ProviderFromParts}
  BY DEF HInit, Init
<1> QED
  BY <1>1, <1>4, <1>5, <1>6 DEF HInv

\* A publication keeps stale checks quiet for as long as it says.
LEMMA SuccessQuiet == ASSUME HInv, NEW c \in Caller, HSucceeds(c) PROVE QuietIsKept'
<1>1. /\ Succeeds(c) /\ IInv /\ clock \in 0..MaxTime /\ clock \in Nat
      /\ provider.minimum \in Nat /\ provider.interval \in Option(Nat)
      /\ quietUntil' = IF provider.interval # None /\ CheckedAdd(clock, provider.interval) = None
                         THEN clock ELSE RefreshDeadline(provider.minimum)
  BY ClockBounds DEF HSucceeds, HInv, IInv, TypeOK, ProviderState
<1>2. clock' = clock /\ provider'.interval = provider.interval
  BY <1>1, SuccessEffect
<1>3. RefreshDeadline(provider.minimum) \in Nat
  BY <1>1, RefreshDeadlineType, ClockBounds
<1>4. CASE provider.interval = None
  <2>1. provider'.refreshAfter = None
    BY <1>2, <1>4, HistoryWatches, NextKeepsInvariant, <1>1
    DEF HNext, IInv, DeadlinesOK, DisabledMeansNoDeadlines
  <2> QED
    BY <1>1, <1>3, <1>4, <2>1 DEF QuietIsKept
<1>5. CASE provider.interval # None /\ CheckedAdd(clock, provider.interval) = None
  BY <1>1, <1>2, <1>5 DEF QuietIsKept
<1>6. CASE provider.interval # None /\ CheckedAdd(clock, provider.interval) # None
  <2>1. PICK v, j : \E h \in Response : Publish(c, v, h, j)
    <3>1. CASE DiscoverySameKeys(c)
      BY <3>1 DEF DiscoverySameKeys
    <3>2. CASE KeysPopulated(c)
      <4>1. answer[c].headers \in Response
        BY <1>1, <3>2, AnswerType DEF KeysPopulated, IInv, TypeOK, Answer
      <4> QED
        BY <3>2, <4>1 DEF KeysPopulated
    <3> QED
      BY <1>1, <3>1, <3>2 DEF Succeeds
  <2>2. /\ provider'.refreshAfter \in 0..MaxInstant
        /\ RefreshDeadline(provider.minimum) <= provider'.refreshAfter
    BY <1>1, <1>6, <2>1, PublishIsQuiet
  <2> QED
    BY <1>1, <1>3, <1>6, <2>2 DEF QuietIsKept
<1> QED
  BY <1>4, <1>5, <1>6

\* A failure behind a stale snapshot defers the retry; another changes nothing.
LEMMA FailureQuiet == ASSUME HInv, NEW c \in Caller, HFails(c) PROVE QuietIsKept'
<1>1. /\ RequestFails(c) /\ clock' = clock /\ clock \in Nat
      /\ provider \in ProviderState /\ result \in [Caller -> Version \cup {None, Failed}]
      /\ provider.staleUntil # None => provider.staleUntil \in 0..MaxInstant
      /\ RetryInterval \in Nat /\ MaxInstant \in Nat
      /\ quietUntil' = IF result'[c] = Failed THEN quietUntil
                       ELSE Smaller(clock + RetryInterval, provider.staleUntil)
  BY DurationsAreNat, ClockBounds
  DEF HFails, RequestFails, HInv, IInv, TypeOK, CallsOK, ProviderState, Deadline, Option
<1>2. CASE Masked(c)
  <2>1. /\ provider' = [provider EXCEPT !.retryAfter = RetryDeadline]
        /\ result'[c] = provider.meta
    BY <1>1, <1>2 DEF RequestFails, Return
  <2>2. provider.meta # Failed
    BY <1>1, FailedIsNoVersion DEF ProviderState, Version
  <2>3. /\ provider.staleUntil \in 0..MaxInstant
        /\ RetryDeadline = Smaller(clock + RetryInterval, provider.staleUntil)
        /\ RetryDeadline \in Nat
    BY <1>1, <1>2, NoneIsNoNumber DEF Masked, RetryDeadline, CheckedAdd, Smaller
  <2>4. provider'.retryAfter = RetryDeadline /\ quietUntil' = RetryDeadline
    BY <1>1, <2>1, <2>2, <2>3 DEF ProviderState
  <2> QED
    BY <2>3, <2>4, NoneIsNoNumber DEF QuietIsKept
<1>3. CASE ~Masked(c)
  <2>1. provider' = provider /\ result'[c] = Failed
    BY <1>1, <1>3 DEF RequestFails, Return
  <2> QED
    BY <1>1, <2>1, QuietKept DEF HInv
<1> QED
  BY <1>2, <1>3

LEMMA NextQuiet == HInv /\ [HNext]_hvars => HInv'
<1> SUFFICES ASSUME HInv, [HNext]_hvars PROVE QuietIsKept'
  BY HistoryWatches, NextKeepsInvariant DEF HInv
<1>0. IInv /\ IInv' /\ clock \in Nat /\ clock' \in Nat
  BY HistoryWatches, NextKeepsInvariant, ClockBounds DEF HInv, IInv, TypeOK
<1>1. CASE UNCHANGED hvars
  BY <1>0, <1>1, QuietKept DEF HInv, hvars, vars
<1>2. CASE Tick /\ UNCHANGED quietUntil
  BY <1>0, <1>2, QuietKept DEF HInv, Tick
<1>3. CASE ProviderUpdates /\ UNCHANGED quietUntil
  BY <1>0, <1>3, QuietKept DEF HInv, ProviderUpdates
<1>4. CASE HSetter
  BY <1>0, <1>4 DEF HSetter, QuietIsKept
<1>5. ASSUME NEW c \in Caller, HOther(c) PROVE QuietIsKept'
  <2>1. UNCHANGED <<provider, clock, quietUntil>>
    BY <1>5 DEF HOther, StaleCheck, ForceRefresh, FindsFresh, SendDiscovery, DiscoveryNewKeys, Cancel
  <2> QED
    BY <1>0, <2>1, QuietKept DEF HInv
<1> QED
  BY <1>1, <1>2, <1>3, <1>4, <1>5, SuccessQuiet, FailureQuiet DEF HNext

\* However many tasks wait, whatever is set and whatever fails: after a
\* publication no stale check sends a request for the minimum cache duration, and
\* after a masked failure none does for the retry interval.
THEOREM StaleChecksSpaced == HSpec => StaleChecksAreSpaced
<1> DEFINE Spaced == \A c \in Caller : SendsUnforced(c) => clock >= quietUntil
<1>1. HInv /\ [HNext]_hvars => [Spaced]_hvars
  <2> SUFFICES ASSUME HInv, HNext, NEW c \in Caller, SendsUnforced(c)
               PROVE  clock >= quietUntil
    OBVIOUS
  <2>1. SendDiscovery(c)
    <3>1. [Next]_vars /\ TypeOK /\ pc[c] = "queued" /\ pc'[c] = "discovering"
      BY HistoryWatches DEF HInv, IInv, SendsUnforced
    <3>2. ASSUME NEW d \in Caller, NEW o, Return(d, o) PROVE pc'[c] # "discovering"
      BY <3>1, <3>2 DEF Return, TypeOK, CallsOK
    <3>3. ASSUME NEW d \in Caller, CallStep(d) PROVE d = c /\ SendDiscovery(d)
      BY <3>1, <3>2, <3>3
      DEF CallStep, Progress, Succeeds, StaleCheck, ForceRefresh, Queue, FindsFresh, SendDiscovery,
          DiscoverySameKeys, DiscoveryNewKeys, KeysPopulated, Publish, RequestFails, Cancel,
          TypeOK, CallsOK
    <3>4. UNCHANGED pc => FALSE
      BY <3>1
    <3>5. Tick \/ ProviderUpdates \/ Setter => UNCHANGED pc
      BY DEF Tick, ProviderUpdates, Setter, SetRefreshInterval, SetMinimumCacheDuration,
             SetRetainOnError, DisableRefresh, Configures, callVars
    <3> QED
      BY <3>1, <3>3, <3>4, <3>5 DEF Next, vars, callVars
  <2>2. NeedsRefresh
    BY <2>1 DEF SendDiscovery, MustSend, SendsUnforced
  <2>3. /\ clock \in Nat /\ quietUntil \in Nat
        /\ provider.refreshAfter # None => provider.refreshAfter \in 0..MaxInstant
        /\ provider.retryAfter # None => provider.retryAfter \in 0..MaxInstant
    BY ClockBounds DEF HInv, QuietIsKept, IInv, TypeOK, ProviderState, Deadline, Option
  <2> QED
    BY <2>2, <2>3 DEF HInv, QuietIsKept, NeedsRefresh, Past
<1> QED
  BY <1>1, InitQuiet, NextQuiet, PTL DEF HSpec, StaleChecksAreSpaced

-----------------------------------------------------------------------------
(* What the loops over the header lines compute.                           *)

LEMMA NatLeast ==
  ASSUME NEW S, S \subseteq Nat, S # {}
  PROVE  \E m \in S : \A n \in S : m <= n
<1>1. PICK m \in S : \A n \in S : ~(<<n, m>> \in OpToRel(<, Nat))
  BY NatLessThanWellFounded, WFMin
<1>2. \A n \in S : ~(n < m)
  BY <1>1 DEF OpToRel
<1> QED
  BY <1>2

LEMMA MinOf ==
  ASSUME NEW S, S \subseteq Nat, S # {}
  PROVE  Min(S) \in S /\ \A n \in S : Min(S) <= n
BY NatLeast DEF Min

LEMMA MinIs ==
  ASSUME NEW S, S \subseteq Nat, NEW m \in S, \A n \in S : m <= n
  PROVE  Min(S) = m
<1>1. Min(S) \in S /\ Min(S) <= m
  BY MinOf
<1>2. m <= Min(S) /\ m \in Nat /\ Min(S) \in Nat
  BY <1>1
<1> HIDE DEF Min
<1> QED
  BY <1>1, <1>2

\* Two loops that begin alike and take the same turns end alike.
TurnAlike(f, e, n) ==
  f[0] = e[0] /\ \A i \in 1..n : f[i - 1] = e[i - 1] => f[i] = e[i]

LEMMA SameTurns ==
  ASSUME NEW n \in Nat, NEW f, NEW e, TurnAlike(f, e, n)
  PROVE  \A i \in 0..n : f[i] = e[i]
<1> DEFINE S == {i \in 0..n : f[i] # e[i]}
<1>1. SUFFICES ASSUME S # {} PROVE FALSE
  OBVIOUS
<1>2. PICK m \in S : \A i \in S : m <= i
  <2>1. S \subseteq Nat
    OBVIOUS
  <2> HIDE DEF S
  <2> QED
    BY <1>1, <2>1, NatLeast
<1>3. m \in 1..n /\ m - 1 \in 0..n
  BY <1>2 DEF TurnAlike
<1>4. m - 1 \notin S
  BY <1>2, <1>3
<1> QED
  BY <1>2, <1>3, <1>4 DEF TurnAlike

\* The arguments of directives are numbers, or not.
Typed(S) == \A d \in S : d.arg \in Option(Nat \cup {Malformed})

Ages(S) ==
  {ParseDeltaSeconds(d.arg) : d \in {e \in S : e.name = "max-age" /\ e.arg # None}}

\* What a set of directives says, however they are ordered.
Meaning(S) ==
  [maxAge |-> IF Ages(S) = {} THEN None ELSE Min(Ages(S)),
   noCache |-> \E d \in S : d.name = "no-cache",
   noStore |-> \E d \in S : d.name = "no-store",
   mustRevalidate |-> \E d \in S : d.name = "must-revalidate"]

LEMMA AgesType == ASSUME NEW S, Typed(S) PROVE Ages(S) \subseteq Nat
<1>1. ASSUME NEW a \in Nat \cup {Malformed} PROVE ParseDeltaSeconds(a) \in Nat
  BY <1>1, DeltaBounds DEF ParseDeltaSeconds, Smaller
<1> QED
  BY <1>1 DEF Typed, Ages, Option

\* A turn adds its directive to what was said.
LEMMA AddOne ==
  ASSUME NEW S, NEW d, Typed(S \cup {d})
  PROVE  AddDirective(Meaning(S), d) = Meaning(S \cup {d})
<1>1. Typed(S) /\ Ages(S) \subseteq Nat /\ Ages(S \cup {d}) \subseteq Nat
  <2>1. Typed(S)
    BY DEF Typed
  <2> QED
    BY <2>1, AgesType
<1> DEFINE T == S \cup {d}
           a == ParseDeltaSeconds(d.arg)
<1>2. \A n : (\E e \in T : e.name = n) <=> (\E e \in S : e.name = n) \/ d.name = n
  OBVIOUS
<1>3. CASE d.name = "max-age" /\ d.arg # None
  <2>1. Ages(T) = Ages(S) \cup {a}
    BY <1>3 DEF Ages
  <2>2. Meaning(T).maxAge = AddMaxAge(Meaning(S).maxAge, a)
    <3>1. a \in Nat /\ Ages(T) # {} /\ Meaning(T).maxAge = Min(Ages(T))
      BY <1>1, <2>1 DEF Meaning
    <3>2. CASE Ages(S) = {}
      <4>1. Min(Ages(T)) = a
        BY <2>1, <3>1, <3>2, MinIs
      <4> QED
        BY <3>1, <3>2, <4>1 DEF Meaning, AddMaxAge
    <3>3. CASE Ages(S) # {}
      <4>1. PICK m : m = Min(Ages(S))
        OBVIOUS
      <4>2. m \in Ages(S) /\ m \in Nat /\ \A n \in Ages(S) : m <= n
        BY <1>1, <3>3, <4>1, MinOf
      <4>3. Min(Ages(T)) = Smaller(m, a)
        <5>1. Smaller(m, a) \in Ages(T) /\ \A n \in Ages(T) : Smaller(m, a) <= n
          BY <1>1, <2>1, <3>1, <4>2 DEF Smaller
        <5> QED
          BY <1>1, <5>1, MinIs
      <4>4. Meaning(S).maxAge = m /\ m # None
        BY <3>3, <4>1, <4>2, NoneIsNoNumber DEF Meaning
      <4> QED
        BY <3>1, <4>3, <4>4 DEF AddMaxAge
    <3> QED
      BY <3>2, <3>3
  <2> HIDE DEF a
  <2>3. AddDirective(Meaning(S), d) = [Meaning(S) EXCEPT !.maxAge = AddMaxAge(Meaning(S).maxAge, a)]
    BY <1>3 DEF AddDirective, a
  <2> QED
    BY <1>2, <1>3, <2>2, <2>3 DEF Meaning
<1>4. CASE ~(d.name = "max-age" /\ d.arg # None)
  <2>1. Ages(T) = Ages(S)
    BY <1>4 DEF Ages
  <2> QED
    BY <1>2, <1>4, <2>1 DEF AddDirective, Meaning
<1> QED
  BY <1>3, <1>4

\* parse_cache_control adds its directives to what was said before.
LEMMA LoopOfOneLine ==
  ASSUME NEW S, NEW ds, ds \in Seq(Range(ds)), Typed(S \cup Range(ds))
  PROVE  ParseCacheControl(ds, Meaning(S)) = Meaning(S \cup Range(ds))
<1>before. PICK before : before = Meaning(S)
  OBVIOUS
<1> DEFINE n == Len(ds)
           turn[i \in 0..n] == IF i = 0 THEN before ELSE AddDirective(turn[i - 1], ds[i])
           upto(i) == S \cup {ds[k] : k \in 1..i}
           e == [i \in 0..n |-> Meaning(upto(i))]
<1>0. ParseCacheControl(ds, before) = turn[n]
  BY DEF ParseCacheControl
<1>1. n \in Nat /\ DOMAIN ds = 1..n /\ \A i \in 1..n : ds[i] \in Range(ds)
  BY DEF Range
<1>2. /\ upto(0) = S /\ upto(n) = S \cup Range(ds)
      /\ \A i \in 0..n : upto(i) \subseteq S \cup Range(ds)
      /\ \A i \in 1..n : upto(i) = upto(i - 1) \cup {ds[i]}
  <2>1. upto(0) = S
    OBVIOUS
  <2>2. upto(n) = S \cup Range(ds)
    BY <1>1 DEF Range
  <2>3. \A i \in 0..n : upto(i) \subseteq S \cup Range(ds)
    BY <1>1
  <2>4. ASSUME NEW i \in 1..n PROVE upto(i) = upto(i - 1) \cup {ds[i]}
    <3>1. 1..i = 1..(i - 1) \cup {i}
      BY <1>1
    <3> QED
      BY <3>1
  <2> QED
    BY <2>1, <2>2, <2>3, <2>4
<1> HIDE DEF n, upto
<1>3. e = [i \in 0..n |-> Meaning(upto(i))] /\ \A i \in 0..n : e[i] = Meaning(upto(i))
  OBVIOUS
<1> HIDE DEF e
<1>4. ASSUME NEW i \in 1..n PROVE e[i] = AddDirective(e[i - 1], ds[i])
  <2>0. i \in 0..n /\ i - 1 \in 0..n
    BY <1>1
  <2>1. Typed(upto(i)) /\ upto(i) = upto(i - 1) \cup {ds[i]}
    BY <1>2, <2>0 DEF Typed
  <2>2. AddDirective(Meaning(upto(i - 1)), ds[i]) = Meaning(upto(i))
    BY <2>1, AddOne
  <2> QED
    BY <1>3, <2>0, <2>2
<1>5. e[0] = before /\ e[n] = Meaning(S \cup Range(ds))
  <2>1. 0 \in 0..n /\ n \in 0..n
    BY <1>1
  <2> QED
    BY <1>before, <1>2, <1>3, <2>1
<1>6. turn = [i \in 0..n |-> IF i = 0 THEN before ELSE AddDirective(turn[i - 1], ds[i])]
  <2>1. e = [i \in 0..n |-> IF i = 0 THEN before ELSE AddDirective(e[i - 1], ds[i])]
    <3>1. \A i \in 0..n : e[i] = IF i = 0 THEN before ELSE AddDirective(e[i - 1], ds[i])
      BY <1>1, <1>4, <1>5
    <3>2. e = [i \in 0..n |-> e[i]]
      BY <1>3
    <3> QED
      BY <3>1, <3>2
  <2> QED
    BY <2>1 DEF turn
<1> HIDE DEF turn
<1>7. turn[0] = e[0] /\ \A i \in 1..n : turn[i] = AddDirective(turn[i - 1], ds[i])
  BY <1>1, <1>5, <1>6
<1>8. \A i \in 0..n : turn[i] = e[i]
  <2>1. TurnAlike(turn, e, n)
    BY <1>4, <1>7 DEF TurnAlike
  <2> QED
    BY <1>1, <2>1, SameTurns
<1>9. ParseCacheControl(ds, before) = Meaning(S \cup Range(ds))
  <2>1. n \in 0..n
    BY <1>1
  <2> QED
    BY <1>0, <1>5, <1>8, <2>1
<1> QED
  BY <1>before, <1>9

\* Lines as ASSUME LinesAreLines has them, one after another.
Written(lines) == \E L : lines \in Seq(L) /\ Header(L)

LEMMA WrittenIs ==
  ASSUME NEW lines, Written(lines)
  PROVE  /\ Len(lines) \in Nat /\ DOMAIN lines = 1..Len(lines)
         /\ \A i \in DOMAIN lines : Header({lines[i]})
<1>1. PICK L : lines \in Seq(L) /\ Header(L)
  BY DEF Written
<1>2. Len(lines) \in Nat /\ DOMAIN lines = 1..Len(lines)
  BY <1>1
<1>3. ASSUME NEW i \in DOMAIN lines PROVE Header({lines[i]})
  <2>1. PICK l : l = lines[i]
    OBVIOUS
  <2>2. l \in L
    BY <1>1, <2>1
  <2>3. Header({l})
    BY <1>1, <2>2 DEF Header
  <2> QED
    BY <2>1, <2>3
<1> QED
  BY <1>2, <1>3

\* What is received is what was sent, where it can be read.
LEMMA ReceivedIs ==
  ASSUME NEW lines, Written(lines), NEW r, r = Received(lines)
  PROVE  /\ Len(r) = Len(lines) /\ DOMAIN r = DOMAIN lines
         /\ \A i \in DOMAIN lines :
              /\ r[i].name = lines[i].name
              /\ r[i].directives = IF lines[i].ascii THEN lines[i].directives ELSE <<>>
              /\ lines[i].ascii => r[i].value = lines[i].value
              /\ r[i].name \in Scalars => r[i].value \in Nat \cup {Malformed}
<1>1. PICK L : lines \in Seq(L) /\ Header(L)
  BY DEF Written
<1>2. \A i \in DOMAIN lines : lines[i] \in L
  BY <1>1
<1>3. DOMAIN r = DOMAIN lines /\ Len(r) = Len(lines)
  <2>1. DOMAIN r = 1..Len(lines) /\ Len(lines) \in Nat /\ r = [i \in 1..Len(lines) |-> r[i]]
    BY <1>1 DEF Received
  <2>2. r \in Seq({r[i] : i \in 1..Len(lines)})
    BY <2>1
  <2> QED
    BY <1>1, <2>1, <2>2
<1>4. ASSUME NEW i \in DOMAIN lines
      PROVE  /\ r[i].name = lines[i].name
             /\ r[i].directives = IF lines[i].ascii THEN lines[i].directives ELSE <<>>
             /\ lines[i].ascii => r[i].value = lines[i].value
             /\ r[i].name \in Scalars => r[i].value \in Nat \cup {Malformed}
  <2>1. CASE lines[i].ascii
    <3>1. r[i] = lines[i]
      BY <2>1 DEF Received
    <3> QED
      BY <1>1, <1>2, <2>1, <3>1 DEF Header, Scalars
  <2>2. CASE ~lines[i].ascii
    <3>1. r[i] = [name |-> lines[i].name, ascii |-> TRUE, directives |-> <<>>,
                  value |-> IF lines[i].name = "cache-control" THEN None ELSE Malformed]
      BY <2>2 DEF Received
    <3> QED
      BY <2>2, <3>1 DEF Scalars
  <2> QED
    BY <2>1, <2>2
<1> QED
  BY <1>3, <1>4

LEMMA SeenIs ==
  ASSUME NEW lines, Written(lines)
  PROVE  /\ Typed(Seen(lines))
         /\ \A i \in DOMAIN lines :
              lines[i].ascii /\ lines[i].name # "cache-control" => Range(lines[i].directives) = {}
<1>1. PICK L : lines \in Seq(L) /\ Header(L)
  BY DEF Written
<1>2. ASSUME NEW i \in DOMAIN lines
      PROVE  /\ Typed(Range(lines[i].directives))
             /\ lines[i].name # "cache-control" => Range(lines[i].directives) = {}
  <2>1. lines[i] \in L
    BY <1>1
  <2>2. \/ \A d \in Range(lines[i].directives) : d.arg \in Option(Nat \cup {Malformed})
        \/ lines[i].directives = <<>>
    BY <1>1, <2>1 DEF Header
  <2>3. Range(<<>>) = {}
    BY DEF Range
  <2>4. lines[i].name # "cache-control" => lines[i].directives = <<>>
    BY <1>1, <2>1 DEF Header
  <2> QED
    BY <2>2, <2>3, <2>4 DEF Typed
<1> QED
  BY <1>2 DEF Seen, Typed

\* The loop over the lines of Cache-Control says what their directives say.
LEMMA LoopOfLines ==
  ASSUME NEW lines, Written(lines), NEW r, r = Received(lines)
  PROVE  AllDirectives(r) = Meaning(Seen(lines))
<1>1. /\ Len(r) = Len(lines) /\ DOMAIN r = DOMAIN lines /\ Len(lines) \in Nat
      /\ DOMAIN lines = 1..Len(lines)
  BY ReceivedIs, WrittenIs
<1>2. PICK n : n = Len(r)
  OBVIOUS
<1> DEFINE said(i) == IF lines[i].ascii THEN Range(lines[i].directives) ELSE {}
           upto(i) == UNION {said(k) : k \in 1..i}
           turn[i \in 0..n] == IF i = 0 THEN NoDirectives
                               ELSE IF i \in Named(r, "cache-control")
                                    THEN ParseCacheControl(r[i].directives, turn[i - 1])
                               ELSE turn[i - 1]
           e == [i \in 0..n |-> Meaning(upto(i))]
<1>3. AllDirectives(r) = turn[n]
  BY <1>2 DEF AllDirectives
<1>4. /\ upto(0) = {} /\ upto(n) = Seen(lines)
      /\ \A i \in 0..n : Typed(upto(i))
      /\ \A i \in 1..n : upto(i) = upto(i - 1) \cup said(i)
  <2>1. upto(0) = {}
    OBVIOUS
  <2>2. upto(n) = Seen(lines)
    BY <1>1, <1>2 DEF Seen
  <2>3. \A i \in 0..n : upto(i) \subseteq upto(n)
    BY <1>1, <1>2
  <2>4. ASSUME NEW i \in 1..n PROVE upto(i) = upto(i - 1) \cup said(i)
    <3>1. 1..i = 1..(i - 1) \cup {i}
      BY <1>1, <1>2
    <3> QED
      BY <3>1
  <2>5. Typed(Seen(lines))
    BY SeenIs
  <2> QED
    BY <2>1, <2>2, <2>3, <2>4, <2>5 DEF Typed
<1>5. ASSUME NEW i \in 1..n
      PROVE  /\ i \in Named(r, "cache-control") =>
                  /\ said(i) = Range(r[i].directives)
                  /\ r[i].directives \in Seq(Range(r[i].directives))
             /\ i \notin Named(r, "cache-control") => said(i) = {}
  <2>1. /\ i \in DOMAIN lines /\ i \in DOMAIN r
        /\ r[i].name = lines[i].name
        /\ r[i].directives = IF lines[i].ascii THEN lines[i].directives ELSE <<>>
    BY <1>1, <1>2, ReceivedIs
  <2>2. lines[i].directives \in Seq(Range(lines[i].directives))
    BY <2>1, WrittenIs DEF Header
  <2>3. Range(<<>>) = {} /\ <<>> \in Seq(Range(<<>>))
    BY DEF Range
  <2>4. lines[i].ascii /\ lines[i].name # "cache-control" => Range(lines[i].directives) = {}
    BY <2>1, SeenIs
  <2>5. i \in Named(r, "cache-control") <=> lines[i].name = "cache-control"
    BY <2>1 DEF Named
  <2>6. said(i) = Range(r[i].directives)
    BY <2>1, <2>3
  <2>7. r[i].directives \in Seq(Range(r[i].directives))
    BY <2>1, <2>2, <2>3
  <2>8. lines[i].name # "cache-control" => said(i) = {}
    BY <2>4
  <2> QED
    BY <2>5, <2>6, <2>7, <2>8
<1> HIDE DEF said, upto
<1>6. e = [i \in 0..n |-> Meaning(upto(i))] /\ \A i \in 0..n : e[i] = Meaning(upto(i))
  OBVIOUS
<1> HIDE DEF e
<1>7. ASSUME NEW i \in 1..n
      PROVE  e[i] = IF i \in Named(r, "cache-control") THEN ParseCacheControl(r[i].directives, e[i - 1])
                    ELSE e[i - 1]
  <2>1. i \in 0..n /\ i - 1 \in 0..n /\ upto(i) = upto(i - 1) \cup said(i) /\ Typed(upto(i))
    BY <1>1, <1>2, <1>4
  <2>2. e[i] = Meaning(upto(i)) /\ e[i - 1] = Meaning(upto(i - 1))
    BY <1>6, <2>1
  <2>3. CASE i \in Named(r, "cache-control")
    <3>1. PICK S, ds : S = upto(i - 1) /\ ds = r[i].directives
      OBVIOUS
    <3>2. ds \in Seq(Range(ds)) /\ upto(i) = S \cup Range(ds) /\ Typed(S \cup Range(ds))
      BY <1>5, <2>1, <2>3, <3>1
    <3>3. ParseCacheControl(ds, Meaning(S)) = Meaning(S \cup Range(ds))
      BY <3>2, LoopOfOneLine
    <3> QED
      BY <2>2, <2>3, <3>1, <3>2, <3>3
  <2>4. CASE i \notin Named(r, "cache-control")
    BY <1>5, <2>1, <2>2, <2>4
  <2> QED
    BY <2>3, <2>4
<1>8. e[0] = NoDirectives /\ e[n] = Meaning(Seen(lines))
  <2>1. 0 \in 0..n /\ n \in 0..n
    BY <1>1, <1>2
  <2>2. e[0] = Meaning({}) /\ e[n] = Meaning(Seen(lines))
    BY <1>4, <1>6, <2>1
  <2>3. Ages({}) = {}
    BY DEF Ages
  <2>4. Meaning({}) = NoDirectives
    BY <2>3 DEF Meaning, NoDirectives
  <2> QED
    BY <2>2, <2>4
<1>9. turn = [i \in 0..n |-> IF i = 0 THEN NoDirectives
                             ELSE IF i \in Named(r, "cache-control")
                                  THEN ParseCacheControl(r[i].directives, turn[i - 1])
                             ELSE turn[i - 1]]
  <2>1. e = [i \in 0..n |-> IF i = 0 THEN NoDirectives
                            ELSE IF i \in Named(r, "cache-control")
                                 THEN ParseCacheControl(r[i].directives, e[i - 1])
                            ELSE e[i - 1]]
    <3>1. \A i \in 0..n : e[i] = IF i = 0 THEN NoDirectives
                                 ELSE IF i \in Named(r, "cache-control")
                                      THEN ParseCacheControl(r[i].directives, e[i - 1])
                                 ELSE e[i - 1]
      BY <1>1, <1>2, <1>7, <1>8
    <3>2. e = [i \in 0..n |-> e[i]]
      BY <1>6
    <3> QED
      BY <3>1, <3>2
  <2> QED
    BY <2>1 DEF turn
<1> HIDE DEF turn
<1>10. /\ turn[0] = e[0]
       /\ \A i \in 1..n : turn[i] = IF i \in Named(r, "cache-control")
                                    THEN ParseCacheControl(r[i].directives, turn[i - 1])
                                    ELSE turn[i - 1]
  BY <1>1, <1>2, <1>8, <1>9
<1>11. TurnAlike(turn, e, n)
  BY <1>7, <1>10 DEF TurnAlike
<1>12. turn[n] = e[n]
  BY <1>1, <1>2, <1>11, SameTurns
<1> QED
  BY <1>3, <1>8, <1>12

\* What the first line of a name says.
LEMMA HeaderValueType ==
  ASSUME NEW lines, Written(lines), NEW name \in Scalars, NEW r, r = Received(lines)
  PROVE  HeaderValue(r, name) \in Option(Nat \cup {Malformed})
<1>1. CASE Named(r, name) = {}
  BY <1>1 DEF HeaderValue, Option
<1>2. CASE Named(r, name) # {}
  <2>1. Named(r, name) \subseteq Nat
    BY ReceivedIs, WrittenIs DEF Named
  <2>2. Min(Named(r, name)) \in Named(r, name)
    BY <1>2, <2>1, MinOf
  <2>3. PICK i : i = Min(Named(r, name))
    OBVIOUS
  <2>4. i \in DOMAIN lines /\ r[i].name = name
    BY <2>2, <2>3, ReceivedIs DEF Named
  <2>5. r[i].value \in Nat \cup {Malformed}
    BY <2>4, ReceivedIs
  <2> QED
    BY <1>2, <2>3, <2>5 DEF HeaderValue, Option
<1> QED
  BY <1>1, <1>2

\* What the headers say that are read of written lines.
LEMMA HeadersAre ==
  ASSUME NEW lines, Written(lines), NEW h, h = HeadersOf(Received(lines))
  PROVE  /\ h.directives = Meaning(Seen(lines))
         /\ h.expires \in Option(Nat \cup {Malformed})
         /\ h.date \in Option(Nat) /\ h.age \in Option(Nat)
<1>1. PICK r : r = Received(lines)
  OBVIOUS
<1>2. /\ h.directives = AllDirectives(r) /\ h.expires = HeaderValue(r, "expires")
      /\ h.date = Parsed(HeaderValue(r, "date")) /\ h.age = Parsed(HeaderValue(r, "age"))
  BY <1>1 DEF HeadersOf
<1>3. \A name \in Scalars : HeaderValue(r, name) \in Option(Nat \cup {Malformed})
  BY <1>1, HeaderValueType
<1>4. \A v \in Option(Nat \cup {Malformed}) : Parsed(v) \in Option(Nat)
  BY DEF Parsed, Option
<1> QED
  BY <1>1, <1>2, <1>3, <1>4, LoopOfLines DEF Scalars

\* A line more, of lines that were written.
LEMMA WrittenMore ==
  ASSUME NEW lines, Written(lines), NEW l, Header({l}), NEW more, more = Append(lines, l)
  PROVE  /\ Written(more) /\ Len(more) = Len(lines) + 1
         /\ \A i \in DOMAIN lines : more[i] = lines[i]
         /\ more[Len(lines) + 1] = l
         /\ Seen(more) = Seen(lines) \cup (IF l.ascii THEN Range(l.directives) ELSE {})
<1>1. PICK L : lines \in Seq(L) /\ Header(L)
  BY DEF Written
<1>2. more \in Seq(L \cup {l}) /\ lines \in Seq(L \cup {l})
  BY <1>1
<1>3. Header(L \cup {l})
  BY <1>1 DEF Header
<1>4. Written(more)
  BY <1>2, <1>3 DEF Written
<1>5. /\ Len(more) = Len(lines) + 1 /\ Len(lines) \in Nat
      /\ DOMAIN lines = 1..Len(lines) /\ DOMAIN more = 1..(Len(lines) + 1)
      /\ \A i \in DOMAIN lines : more[i] = lines[i]
      /\ more[Len(lines) + 1] = l
  BY <1>1, <1>2
<1>6. Seen(more) = Seen(lines) \cup (IF l.ascii THEN Range(l.directives) ELSE {})
  <2>1. DOMAIN more = DOMAIN lines \cup {Len(lines) + 1} /\ Len(lines) + 1 \notin DOMAIN lines
    BY <1>5
  <2>2. \A d : d \in Seen(more) <=>
          \E i \in DOMAIN more : more[i].ascii /\ d \in Range(more[i].directives)
    BY DEF Seen
  <2>3. \A d : d \in Seen(lines) <=>
          \E i \in DOMAIN lines : lines[i].ascii /\ d \in Range(lines[i].directives)
    BY DEF Seen
  <2>4. ASSUME NEW d
        PROVE  d \in Seen(more) <=> d \in Seen(lines) \/ (l.ascii /\ d \in Range(l.directives))
    BY <1>5, <2>1, <2>2, <2>3
  <2> QED
    BY <2>4
<1> QED
  BY <1>4, <1>5, <1>6

\* It has no say in what a header says that another line of it says already.
LEMMA LineMore ==
  ASSUME NEW lines, Written(lines), NEW l, Header({l}), NEW name \in Scalars,
         l.name # name \/ (\E i \in DOMAIN lines : lines[i].name = name),
         NEW r, r = Received(lines), NEW s, s = Received(Append(lines, l))
  PROVE  HeaderValue(s, name) = HeaderValue(r, name)
<1>1. PICK more : more = Append(lines, l)
  OBVIOUS
<1>2. /\ Written(more) /\ Len(more) = Len(lines) + 1 /\ Len(lines) \in Nat
      /\ DOMAIN lines = 1..Len(lines) /\ DOMAIN more = 1..(Len(lines) + 1)
      /\ \A i \in DOMAIN lines : more[i] = lines[i]
      /\ more[Len(lines) + 1] = l
  <2>1. Written(more) /\ Len(more) = Len(lines) + 1
    BY <1>1, WrittenMore
  <2> QED
    BY <1>1, <2>1, WrittenMore, WrittenIs
<1>3. /\ DOMAIN r = DOMAIN lines /\ DOMAIN s = DOMAIN more
      /\ \A i \in DOMAIN lines : r[i].name = lines[i].name
      /\ \A i \in DOMAIN more : s[i].name = more[i].name
  <2>1. DOMAIN r = DOMAIN lines /\ \A i \in DOMAIN lines : r[i].name = lines[i].name
    BY ReceivedIs
  <2>2. Written(more) /\ s = Received(more)
    BY <1>1, <1>2
  <2>3. DOMAIN s = DOMAIN more /\ \A i \in DOMAIN more : s[i].name = more[i].name
    BY <2>2, ReceivedIs
  <2> QED
    BY <2>1, <2>3
<1>4. \A i \in DOMAIN lines : s[i] = r[i]
  BY <1>1, <1>2 DEF Received
<1>5. PICK A, B : A = Named(r, name) /\ B = Named(s, name)
  OBVIOUS
<1>6. /\ A \subseteq DOMAIN lines /\ A \subseteq B /\ A \subseteq Nat /\ B \subseteq Nat
      /\ B \subseteq A \cup {Len(lines) + 1}
      /\ l.name # name => B = A
  <2>1. \A i : i \in A <=> i \in DOMAIN lines /\ lines[i].name = name
    BY <1>3, <1>5 DEF Named
  <2>2. \A i : i \in B <=> i \in DOMAIN more /\ more[i].name = name
    BY <1>3, <1>5 DEF Named
  <2>3. \A i : i \in DOMAIN more <=> i \in DOMAIN lines \/ i = Len(lines) + 1
    BY <1>2
  <2>4. l.name # name => Len(lines) + 1 \notin B
    BY <1>2, <2>2
  <2>5. DOMAIN lines \subseteq Nat /\ DOMAIN more \subseteq Nat
    BY <1>2
  <2> QED
    BY <1>2, <2>1, <2>2, <2>3, <2>4, <2>5
<1>7. CASE A = {}
  <2>1. B = {}
    <3>1. ~ \E i \in DOMAIN lines : lines[i].name = name
      BY <1>3, <1>5, <1>7 DEF Named
    <3> QED
      BY <1>6, <1>7, <3>1
  <2> QED
    BY <1>5, <1>7, <2>1 DEF HeaderValue
<1>8. CASE A # {}
  <2>1. PICK m : m = Min(A)
    OBVIOUS
  <2>2. m \in A /\ \A i \in A : m <= i
    BY <1>6, <1>8, <2>1, MinOf
  <2>3. Min(B) = m
    <3>1. m \in B /\ \A i \in B : m <= i
      BY <1>2, <1>6, <2>2
    <3> QED
      BY <1>6, <3>1, MinIs
  <2>4. s[m] = r[m] /\ B # {}
    BY <1>4, <1>6, <2>2
  <2> QED
    BY <1>5, <1>8, <2>1, <2>3, <2>4 DEF HeaderValue
<1> QED
  BY <1>7, <1>8

-----------------------------------------------------------------------------
(* The policy.                                                             *)

\* What the headers that are read may be.
Readable(h) ==
  /\ h.directives.maxAge \in Option(Nat)
  /\ h.directives.noStore \in BOOLEAN /\ h.directives.noCache \in BOOLEAN
  /\ h.directives.mustRevalidate \in BOOLEAN
  /\ h.expires \in Option(Nat \cup {Malformed})
  /\ h.date \in Option(Nat) /\ h.age \in Option(Nat)

\* The age counts from the Date at least.
LEMMA AgeIs ==
  ASSUME NEW date \in Option(Nat), NEW age \in Option(Nat), NEW instant \in Nat,
         NEW a, a = OrZero(ResponseAge(date, age, instant))
  PROVE  a \in Nat /\ (date # None /\ date <= instant => a >= instant - date)
<1>1. CASE date = None \/ ~(date <= instant)
  BY <1>1, NoneIsNoNumber DEF ResponseAge, LargerOption, OrZero, Option
<1>2. CASE date # None /\ date <= instant
  <2>1. date \in Nat /\ instant - date \in Nat /\ instant - date # None
    BY <1>2, NoneIsNoNumber DEF Option
  <2>2. CASE age = None
    <3>1. ResponseAge(date, age, instant) = instant - date
      BY <1>2, <2>2 DEF ResponseAge, LargerOption
    <3> QED
      BY <2>1, <3>1 DEF OrZero
  <2>3. CASE age # None
    <3>1. age \in Nat
      BY <2>3 DEF Option
    <3>2. ResponseAge(date, age, instant) = Larger(age, instant - date)
      BY <1>2, <2>1, <2>3 DEF ResponseAge, LargerOption
    <3>3. Larger(age, instant - date) \in Nat /\ Larger(age, instant - date) >= instant - date
      BY <2>1, <3>1 DEF Larger
    <3> QED
      BY <3>2, <3>3, NoneIsNoNumber DEF OrZero
  <2> QED
    BY <2>2, <2>3
<1> QED
  BY <1>1, <1>2

\* How long a response is kept, by what it says.
LEMMA PolicyIs ==
  ASSUME NEW h, Readable(h), NEW default \in Nat, NEW instant \in Nat,
         NEW p, p = PolicyFromDirectives(h, default, instant)
  PROVE  /\ p.lifetime \in Nat /\ p.kind \in {"CacheFor", "Revalidate", "DoNotStore"}
         /\ p.mustRevalidate \in BOOLEAN
         /\ p.mustRevalidate <=> (h.directives.noStore \/ h.directives.noCache
                                    \/ h.directives.mustRevalidate)
         /\ p.kind # "CacheFor" => p.mustRevalidate
         /\ h.directives.maxAge # None /\ h.date # None /\ p.lifetime > 0 =>
              instant + p.lifetime <= h.date + h.directives.maxAge
         /\ h.directives.maxAge # None => p.lifetime <= h.directives.maxAge
         /\ h.directives.maxAge = None /\ h.expires \in Nat /\ p.lifetime > 0 =>
              instant + p.lifetime <= h.expires
<1>1. PICK a : a = OrZero(ResponseAge(h.date, h.age, instant))
  OBVIOUS
<1>2. a \in Nat /\ (h.date # None /\ h.date <= instant => a >= instant - h.date)
  BY <1>1, AgeIs DEF Readable
<1>3. PICK m, x, d : m = h.directives.maxAge /\ x = h.expires /\ d = h.date
  OBVIOUS
<1>4. /\ m \in Option(Nat) /\ x \in Option(Nat \cup {Malformed}) /\ d \in Option(Nat)
      /\ d # None /\ d <= instant => a >= instant - d
  BY <1>2, <1>3 DEF Readable
<1>5. PICK l : l = IF m # None THEN SaturatingSub(m, a)
                   ELSE IF x # None
                     THEN IF x = Malformed THEN 0
                          ELSE SaturatingSub(SaturatingSub(x, IF d = None THEN instant ELSE d), a)
                   ELSE SaturatingSub(default, a)
  OBVIOUS
<1>6. p = IF h.directives.noStore THEN DoNotStore
          ELSE IF h.directives.noCache THEN Revalidate
          ELSE CacheFor(l, h.directives.mustRevalidate)
  BY <1>1, <1>3, <1>5 DEF PolicyFromDirectives, ComputePolicy, ExpiresLifetime
<1>7. /\ l \in Nat
      /\ m # None /\ d # None /\ l > 0 => instant + l <= d + m
      /\ m # None => l <= m
      /\ m = None /\ x \in Nat /\ l > 0 => instant + l <= x
  <2>1. CASE m # None
    <3>1. m \in Nat /\ l = SaturatingSub(m, a)
      BY <1>4, <1>5, <2>1 DEF Option
    <3>2. l \in Nat /\ l <= m /\ (l > 0 => l = m - a)
      BY <1>2, <3>1 DEF SaturatingSub
    <3>3. d # None => d \in Nat
      BY <1>4 DEF Option
    <3> QED
      BY <1>2, <1>4, <2>1, <3>1, <3>2, <3>3
  <2>2. CASE m = None /\ x # None /\ x # Malformed
    <3> DEFINE base == IF d = None THEN instant ELSE d
    <3>1. x \in Nat /\ base \in Nat
      BY <1>4, <2>2 DEF Option
    <3>2. PICK s : s = SaturatingSub(x, base)
      OBVIOUS
    <3>3. s \in Nat /\ (s > 0 => s = x - base)
      BY <3>1, <3>2 DEF SaturatingSub
    <3>4. l = SaturatingSub(s, a)
      BY <1>5, <2>2, <3>2
    <3>5. l \in Nat /\ (l > 0 => l = x - base - a /\ s > 0)
      BY <1>2, <3>1, <3>3, <3>4 DEF SaturatingSub
    <3>6. base + a >= instant
      BY <1>2, <1>4, <3>1
    <3> HIDE DEF base
    <3> QED
      BY <1>2, <2>2, <3>1, <3>5, <3>6
  <2>3. CASE m = None /\ (x = None \/ x = Malformed)
    <3>1. x \notin Nat
      BY <2>3, NoneIsNoNumber, MalformedIsNoNumber
    <3>2. l \in Nat
      BY <1>2, <1>5, <2>3 DEF SaturatingSub
    <3> QED
      BY <2>3, <3>1, <3>2
  <2> QED
    BY <2>1, <2>2, <2>3
<1>8. h.directives.noStore \in BOOLEAN /\ h.directives.noCache \in BOOLEAN
      /\ h.directives.mustRevalidate \in BOOLEAN
  BY DEF Readable
<1>9. p.lifetime \in {0, l}
  BY <1>6 DEF DoNotStore, Revalidate, CacheFor
<1>10. /\ p.kind \in {"CacheFor", "Revalidate", "DoNotStore"}
       /\ p.mustRevalidate \in BOOLEAN
       /\ p.mustRevalidate <=> (h.directives.noStore \/ h.directives.noCache
                                  \/ h.directives.mustRevalidate)
       /\ p.kind # "CacheFor" => p.mustRevalidate
  <2>1. CASE h.directives.noStore
    <3>1. p = DoNotStore
      BY <1>6, <2>1
    <3>2. p.kind = "DoNotStore" /\ p.mustRevalidate = TRUE
      BY <3>1 DEF DoNotStore
    <3> QED
      BY <2>1, <3>2
  <2>2. CASE ~h.directives.noStore /\ h.directives.noCache
    <3>1. p = Revalidate
      BY <1>6, <2>2
    <3>2. p.kind = "Revalidate" /\ p.mustRevalidate = TRUE
      BY <3>1 DEF Revalidate
    <3> QED
      BY <2>2, <3>2
  <2>3. CASE ~h.directives.noStore /\ ~h.directives.noCache
    <3>1. p = CacheFor(l, h.directives.mustRevalidate)
      BY <1>6, <2>3
    <3>2. p.kind = "CacheFor" /\ p.mustRevalidate = h.directives.mustRevalidate
      BY <3>1 DEF CacheFor
    <3> QED
      BY <1>8, <2>3, <3>2
  <2> QED
    BY <2>1, <2>2, <2>3
<1>11. m # None => m \in Nat
  BY <1>4 DEF Option
<1>12. PICK t : t = p.lifetime
  OBVIOUS
<1>13. /\ t \in Nat
       /\ m # None /\ d # None /\ t > 0 => instant + t <= d + m
       /\ m # None => t <= m
       /\ m = None /\ x \in Nat /\ t > 0 => instant + t <= x
  <2>1. CASE t = 0
    BY <1>11, <2>1
  <2>2. CASE t = l
    BY <1>7, <2>2
  <2> QED
    BY <1>9, <1>12, <2>1, <2>2
<1> QED
  BY <1>3, <1>10, <1>12, <1>13

\* Where a response says nothing that counts, or what cannot be read.
LEMMA PolicyEnds ==
  ASSUME NEW h, Readable(h), NEW default \in Nat, NEW instant \in Nat,
         NEW p, p = PolicyFromDirectives(h, default, instant)
  PROVE  /\ p.kind # "CacheFor" => p.lifetime = 0
         /\ h.directives.noStore \/ h.directives.noCache => p.lifetime = 0
         /\ h.directives.maxAge = None /\ h.expires = Malformed => p.lifetime = 0
         /\ h.directives.maxAge = None /\ h.expires = None => p.lifetime <= default
<1>1. PICK a : a = OrZero(ResponseAge(h.date, h.age, instant))
  OBVIOUS
<1>2. a \in Nat
  BY <1>1, AgeIs DEF Readable
<1>3. CASE h.directives.noStore \/ h.directives.noCache
  <2>1. p = DoNotStore \/ p = Revalidate
    BY <1>3 DEF PolicyFromDirectives, ComputePolicy
  <2>2. p.lifetime = 0
    BY <2>1 DEF DoNotStore, Revalidate
  <2> QED
    BY <2>2
<1>4. CASE ~(h.directives.noStore \/ h.directives.noCache)
  <2>1. PICK l : p = CacheFor(l, h.directives.mustRevalidate) /\
          l = IF h.directives.maxAge # None THEN SaturatingSub(h.directives.maxAge, a)
              ELSE IF h.expires # None
                THEN ExpiresLifetime(h.expires, h.date, ResponseAge(h.date, h.age, instant), instant)
              ELSE SaturatingSub(default, a)
    BY <1>1, <1>4 DEF PolicyFromDirectives, ComputePolicy
  <2>2. p.kind = "CacheFor" /\ p.lifetime = l
    BY <2>1 DEF CacheFor
  <2>3. h.directives.maxAge = None /\ h.expires = Malformed => l = 0
    BY <2>1, MalformedIsNoNumber DEF ExpiresLifetime
  <2>4. h.directives.maxAge = None /\ h.expires = None => l <= default
    BY <1>2, <2>1 DEF SaturatingSub
  <2> QED
    BY <1>4, <2>2, <2>3, <2>4
<1> QED
  BY <1>3, <1>4

\* What the caller's minimum makes of a policy.
LEMMA FloorIs ==
  ASSUME NEW p, p.lifetime \in Nat, p.mustRevalidate \in BOOLEAN,
         p.kind # "CacheFor" => p.mustRevalidate /\ p.lifetime = 0,
         NEW minimum \in Nat, NEW f, f = ApplyMinimumCacheDuration(p, minimum)
  PROVE  /\ f.lifetime = Larger(p.lifetime, minimum)
         /\ f.mustRevalidate <=> p.mustRevalidate
         /\ f.kind # "CacheFor" => f.mustRevalidate
<1>1. CASE minimum = 0
  <2>1. f = p
    BY <1>1 DEF ApplyMinimumCacheDuration
  <2> QED
    BY <1>1, <2>1 DEF Larger
<1>2. CASE minimum # 0 /\ p.kind = "CacheFor"
  <2>1. f = CacheFor(Larger(p.lifetime, minimum), p.mustRevalidate)
    BY <1>2 DEF ApplyMinimumCacheDuration
  <2> QED
    BY <2>1 DEF CacheFor
<1>3. CASE minimum # 0 /\ p.kind # "CacheFor"
  <2>1. f = CacheFor(minimum, TRUE)
    BY <1>3 DEF ApplyMinimumCacheDuration
  <2>2. f.lifetime = minimum /\ f.kind = "CacheFor" /\ f.mustRevalidate = TRUE
    BY <2>1 DEF CacheFor
  <2>3. Larger(p.lifetime, minimum) = minimum
    BY <1>3 DEF Larger
  <2> QED
    BY <1>3, <2>2, <2>3
<1> QED
  BY <1>1, <1>2, <1>3

\* What headers of fewer words and the same dates say is no stricter.
NoStricter(h, k) ==
  /\ Readable(h) /\ Readable(k)
  /\ k.expires = h.expires /\ k.date = h.date /\ k.age = h.age
  /\ h.directives.noStore => k.directives.noStore
  /\ h.directives.noCache => k.directives.noCache
  /\ h.directives.mustRevalidate => k.directives.mustRevalidate
  /\ \/ h.directives.maxAge = None /\ k.directives.maxAge = None
     \/ /\ h.directives.maxAge # None /\ k.directives.maxAge # None
        /\ k.directives.maxAge <= h.directives.maxAge

LEMMA StricterIsShorter ==
  ASSUME NEW h, NEW k, NoStricter(h, k), NEW default \in Nat, NEW instant \in Nat,
         NEW p, p = PolicyFromDirectives(h, default, instant),
         NEW q, q = PolicyFromDirectives(k, default, instant)
  PROVE  q.lifetime <= p.lifetime /\ (p.mustRevalidate => q.mustRevalidate)
<1>1. Readable(h) /\ Readable(k)
  BY DEF NoStricter
<1>2. /\ p.lifetime \in Nat
      /\ p.mustRevalidate <=> (h.directives.noStore \/ h.directives.noCache
                                 \/ h.directives.mustRevalidate)
  BY <1>1, PolicyIs
<1>3. /\ q.lifetime \in Nat
      /\ q.mustRevalidate <=> (k.directives.noStore \/ k.directives.noCache
                                 \/ k.directives.mustRevalidate)
  BY <1>1, PolicyIs
<1>4. p.mustRevalidate => q.mustRevalidate
  BY <1>2, <1>3 DEF NoStricter
<1>5. CASE k.directives.noStore \/ k.directives.noCache
  <2>1. q = DoNotStore \/ q = Revalidate
    BY <1>5 DEF PolicyFromDirectives, ComputePolicy
  <2>2. q.lifetime = 0
    BY <2>1 DEF DoNotStore, Revalidate
  <2> QED
    BY <1>2, <1>4, <2>2
<1>6. CASE ~(k.directives.noStore \/ k.directives.noCache)
  <2>1. ~(h.directives.noStore \/ h.directives.noCache)
    BY <1>6 DEF NoStricter
  <2>2. PICK a : a = OrZero(ResponseAge(h.date, h.age, instant))
    OBVIOUS
  <2>3. a \in Nat
    BY <1>1, <2>2, AgeIs DEF Readable
  <2>4. PICK m, n, r : /\ m = h.directives.maxAge /\ n = k.directives.maxAge
                       /\ r = IF h.expires # None
                                THEN ExpiresLifetime(h.expires, h.date,
                                       ResponseAge(h.date, h.age, instant), instant)
                                ELSE SaturatingSub(default, a)
    OBVIOUS
  <2>5. p.lifetime = IF m # None THEN SaturatingSub(m, a) ELSE r
    <3>1. p = CacheFor(IF m # None THEN SaturatingSub(m, a) ELSE r, h.directives.mustRevalidate)
      BY <2>1, <2>2, <2>4 DEF PolicyFromDirectives, ComputePolicy
    <3> QED
      BY <3>1 DEF CacheFor
  <2>6. q.lifetime = IF n # None THEN SaturatingSub(n, a) ELSE r
    <3>1. q = CacheFor(IF n # None THEN SaturatingSub(n, a) ELSE r, k.directives.mustRevalidate)
      BY <1>6, <2>2, <2>4 DEF PolicyFromDirectives, ComputePolicy, NoStricter
    <3> QED
      BY <3>1 DEF CacheFor
  <2>7. \/ m = None /\ n = None
        \/ m # None /\ n # None /\ m \in Nat /\ n \in Nat /\ n <= m
    BY <1>1, <2>4 DEF NoStricter, Readable, Option
  <2>8. CASE m = None /\ n = None
    BY <1>2, <1>4, <2>5, <2>6, <2>8
  <2>9. CASE m # None /\ n # None /\ m \in Nat /\ n \in Nat /\ n <= m
    <3>1. SaturatingSub(n, a) <= SaturatingSub(m, a)
      BY <2>3, <2>9 DEF SaturatingSub
    <3> QED
      BY <1>4, <2>5, <2>6, <2>9, <3>1
  <2> QED
    BY <2>7, <2>8, <2>9
<1> QED
  BY <1>5, <1>6

-----------------------------------------------------------------------------
(* The response under construction.                                        *)

GrowthInv == Written(wire) /\ headers = HeadersOf(Received(wire)) /\ wall \in Nat

LEMMA WrittenTogether ==
  ASSUME NEW s, NEW t, Written(s), Written(t)
  PROVE  Written(s \o t)
<1>1. PICK K : s \in Seq(K) /\ Header(K)
  BY DEF Written
<1>2. PICK L : t \in Seq(L) /\ Header(L)
  BY DEF Written
<1>3. s \o t \in Seq(K \cup L)
  <2>1. s \in Seq(K \cup L) /\ t \in Seq(K \cup L)
    BY <1>1, <1>2
  <2> QED
    BY <2>1
<1>4. Header(K \cup L)
  BY <1>1, <1>2 DEF Header
<1> QED
  BY <1>3, <1>4 DEF Written

LEMMA ScalarIsLine ==
  ASSUME NEW name \in Scalars, NEW v \in Nat \cup {Malformed}, NEW l, l = Scalar(name, v)
  PROVE  Header({l})
<1>1. /\ l.ascii \in BOOLEAN /\ l.directives = <<>> /\ l.name = name /\ l.value = v
  BY DEF Scalar
<1>2. <<>> \in Seq(Range(<<>>))
  OBVIOUS
<1> QED
  BY <1>1, <1>2 DEF Header

LEMMA IfGivenIsWritten ==
  ASSUME NEW name \in Scalars, NEW v \in Option(Nat \cup {Malformed})
  PROVE  Written(IfGiven(name, v))
<1>1. CASE v = None
  <2>1. <<>> \in Seq({}) /\ Header({})
    BY DEF Header
  <2> QED
    BY <1>1, <2>1 DEF IfGiven, Written
<1>2. CASE v # None
  <2>1. PICK l : l = Scalar(name, v)
    OBVIOUS
  <2>2. Header({l})
    BY <1>2, <2>1, ScalarIsLine DEF Option
  <2>3. IfGiven(name, v) = <<l>> /\ <<l>> \in Seq({l})
    BY <1>2, <2>1 DEF IfGiven
  <2> QED
    BY <2>2, <2>3 DEF Written
<1> QED
  BY <1>1, <1>2

LEMMA GrowthBegins == GrowthInit => GrowthInv
<1> SUFFICES ASSUME GrowthInit PROVE GrowthInv
  OBVIOUS
<1>1. PICK expires \in Option(ExpiresChoices), date \in Option(Times), age \in Option(Times) :
        wire = IfGiven("expires", expires) \o IfGiven("date", date) \o IfGiven("age", age)
  BY DEF GrowthInit
<1>2. /\ expires \in Option(Nat \cup {Malformed}) /\ date \in Option(Nat \cup {Malformed})
      /\ age \in Option(Nat \cup {Malformed})
  BY GrowthBounds DEF Option
<1>3. PICK e, d, a : /\ e = IfGiven("expires", expires) /\ d = IfGiven("date", date)
                     /\ a = IfGiven("age", age)
  OBVIOUS
<1>4. Written(e) /\ Written(d) /\ Written(a)
  BY <1>2, <1>3, IfGivenIsWritten DEF Scalars
<1>5. Written((e \o d) \o a)
  <2>1. Written(e \o d)
    BY <1>4, WrittenTogether
  <2> QED
    BY <1>4, <2>1, WrittenTogether
<1>6. wire = (e \o d) \o a
  BY <1>1, <1>3
<1> QED
  BY <1>5, <1>6 DEF GrowthInit, GrowthInv

LEMMA GrowthKeeps == GrowthInv /\ [GrowthNext]_growthVars => GrowthInv'
<1> SUFFICES ASSUME GrowthInv, [GrowthNext]_growthVars PROVE GrowthInv'
  OBVIOUS
<1>1. CASE AppendLine
  <2>1. PICK l \in Lines : Writes(Append(wire, l))
    BY <1>1 DEF AppendLine
  <2>2. Header({l})
    BY <2>1, LinesAreLines DEF Header
  <2>3. Written(wire')
    BY <2>1, <2>2, WrittenMore DEF GrowthInv, Writes
  <2> QED
    BY <1>1, <2>1, <2>3 DEF AppendLine, Writes, GrowthInv
<1>2. CASE RaiseAge
  <2>1. PICK i \in DOMAIN wire, a \in Times : Writes([wire EXCEPT ![i] = Scalar("age", a)])
    BY <1>2 DEF RaiseAge
  <2>2. PICK l : l = Scalar("age", a)
    OBVIOUS
  <2>3. Header({l})
    BY <2>1, <2>2, ScalarIsLine, GrowthBounds DEF Scalars
  <2>4. PICK L : wire \in Seq(L) /\ Header(L)
    BY DEF GrowthInv, Written
  <2>5. [wire EXCEPT ![i] = l] \in Seq(L \cup {l})
    BY <2>1, <2>4
  <2>6. Header(L \cup {l})
    BY <2>3, <2>4 DEF Header
  <2>7. Written(wire')
    BY <2>1, <2>2, <2>5, <2>6 DEF Written, Writes
  <2> QED
    BY <1>2, <2>1, <2>7 DEF RaiseAge, Writes, GrowthInv
<1>3. CASE Wait
  BY <1>3 DEF Wait, GrowthInv
<1>4. CASE UNCHANGED growthVars
  BY <1>4 DEF growthVars, GrowthInv
<1> QED
  BY <1>1, <1>2, <1>3, <1>4 DEF GrowthNext

LEMMA GrowthIsInvariant == GrowthSpec => []GrowthInv
BY GrowthBegins, GrowthKeeps, PTL DEF GrowthSpec

\* The headers that are read of lines are what the lines say.
LEMMA WhatIsRead ==
  ASSUME NEW lines, Written(lines), NEW h, h = HeadersOf(Received(lines))
  PROVE  h.directives = Meaning(Seen(lines)) /\ Readable(h) /\ Typed(Seen(lines))
<1>1. /\ h.directives = Meaning(Seen(lines)) /\ h.expires \in Option(Nat \cup {Malformed})
      /\ h.date \in Option(Nat) /\ h.age \in Option(Nat)
  BY HeadersAre
<1>2. Typed(Seen(lines))
  BY SeenIs
<1>3. PICK S : S = Seen(lines)
  OBVIOUS
<1>4. Meaning(S).maxAge \in Option(Nat)
  <2>1. Ages(S) # {} => Min(Ages(S)) \in Nat
    BY <1>2, <1>3, AgesType, MinOf
  <2> QED
    BY <2>1 DEF Meaning, Option
<1>5. /\ Meaning(S).noStore \in BOOLEAN /\ Meaning(S).noCache \in BOOLEAN
      /\ Meaning(S).mustRevalidate \in BOOLEAN
  BY DEF Meaning
<1> QED
  BY <1>1, <1>2, <1>3, <1>4, <1>5 DEF Readable

\* The policy does not depend on how a response's directives are ordered, nor on
\* how they are spread over lines: it is that of what the set of them says, for
\* every length of the lines and every number of them.
THEOREM OrderNeverMatters == GrowthSpec => []OrderIndependent
<1>1. ASSUME GrowthInv PROVE OrderIndependent
  <2>1. PICK S : S = Seen(wire)
    OBVIOUS
  <2>2. headers.directives = Meaning(S)
    BY <1>1, <2>1, WhatIsRead DEF GrowthInv
  <2> QED
    BY <2>1, <2>2 DEF OrderIndependent, Meaning, Ages
<1> QED
  BY <1>1, GrowthIsInvariant, PTL

\* An argument of max-age that can be read is among the ages, and one that
\* cannot is zero.
LEMMA ReadableAges ==
  ASSUME NEW S, Typed(S), NEW read, NEW unreadable \in BOOLEAN,
         read = {Smaller(d.arg, MaxDelta) :
                   d \in {e \in S : e.name = "max-age" /\ e.arg \in 0..ParseMax}},
         unreadable <=> \E d \in S :
           d.name = "max-age" /\ d.arg \notin (0..ParseMax) \cup {None}
  PROVE  /\ read \subseteq Ages(S)
         /\ unreadable => 0 \in Ages(S)
         /\ Ages(S) # {} => unreadable \/ read # {}
<1>1. ASSUME NEW n \in 0..ParseMax
      PROVE  n # None /\ ParseDeltaSeconds(n) = Smaller(n, MaxDelta)
  BY <1>1, NoneIsNoNumber, MalformedIsNoNumber, DeltaBounds DEF ParseDeltaSeconds
<1>2. ASSUME NEW n \in Option(Nat \cup {Malformed}), n \notin (0..ParseMax) \cup {None}
      PROVE  n # None /\ ParseDeltaSeconds(n) = 0
  BY <1>2, DeltaBounds DEF ParseDeltaSeconds, Option
<1>3. read \subseteq Ages(S)
  BY <1>1 DEF Ages
<1>4. unreadable => 0 \in Ages(S)
  <2>1. SUFFICES ASSUME unreadable PROVE 0 \in Ages(S)
    OBVIOUS
  <2>2. PICK d \in S : d.name = "max-age" /\ d.arg \notin (0..ParseMax) \cup {None}
    BY <2>1
  <2>3. d.arg \in Option(Nat \cup {Malformed})
    BY DEF Typed
  <2>4. d.arg # None /\ ParseDeltaSeconds(d.arg) = 0
    BY <1>2, <2>2, <2>3
  <2> QED
    BY <2>2, <2>4 DEF Ages
<1>5. Ages(S) # {} => unreadable \/ read # {}
  <2>1. SUFFICES ASSUME Ages(S) # {} PROVE unreadable \/ read # {}
    OBVIOUS
  <2>2. PICK d \in S : d.name = "max-age" /\ d.arg # None
    BY <2>1 DEF Ages
  <2> QED
    BY <2>2
<1> QED
  BY <1>3, <1>4, <1>5

\* A response is kept no longer than its own headers say, and not at all if its
\* max-age cannot be read, whatever else it says and however late it is evaluated.
THEOREM FreshnessEnds == GrowthSpec => []FreshnessEndsWhenStated
<1>1. ASSUME GrowthInv PROVE FreshnessEndsWhenStated
  <2>1. PICK S, h, p : S = Seen(wire) /\ h = headers /\ p = Policy
    OBVIOUS
  <2>2. h.directives = Meaning(S) /\ Readable(h) /\ Typed(S) /\ Ages(S) \subseteq Nat
    BY <1>1, <2>1, WhatIsRead, AgesType DEF GrowthInv
  <2>3. /\ p.lifetime \in Nat
        /\ h.directives.maxAge # None /\ h.date # None /\ p.lifetime > 0 =>
             wall + p.lifetime <= h.date + h.directives.maxAge
        /\ h.directives.maxAge # None => p.lifetime <= h.directives.maxAge
        /\ h.directives.maxAge = None /\ h.expires \in Nat /\ p.lifetime > 0 =>
             wall + p.lifetime <= h.expires
    <3>1. DefaultLifetime \in Nat /\ wall \in Nat
      BY <1>1, GrowthBounds DEF GrowthInv
    <3>2. p = PolicyFromDirectives(h, DefaultLifetime, wall)
      BY <2>1 DEF Policy
    <3> QED
      BY <2>2, <3>1, <3>2, PolicyIs
  <2>4. PICK read : read = {Smaller(d.arg, MaxDelta) :
                              d \in {e \in S : e.name = "max-age" /\ e.arg \in 0..ParseMax}}
    OBVIOUS
  <2>5. PICK unreadable \in BOOLEAN : unreadable <=> \E d \in S :
          d.name = "max-age" /\ d.arg \notin (0..ParseMax) \cup {None}
    OBVIOUS
  <2>6. /\ read \subseteq Ages(S)
        /\ unreadable => 0 \in Ages(S)
        /\ Ages(S) # {} => unreadable \/ read # {}
    BY <2>2, <2>4, <2>5, ReadableAges
  <2>7. PICK least : least = Min(Ages(S))
    OBVIOUS
  <2>8. Ages(S) # {} => /\ h.directives.maxAge = least /\ least # None /\ least \in Nat
                        /\ \A n \in Ages(S) : least <= n
    <3>1. SUFFICES ASSUME Ages(S) # {}
                   PROVE  /\ h.directives.maxAge = least /\ least # None /\ least \in Nat
                          /\ \A n \in Ages(S) : least <= n
      OBVIOUS
    <3>2. least \in Ages(S) /\ \A n \in Ages(S) : least <= n
      BY <2>2, <2>7, <3>1, MinOf
    <3>3. h.directives.maxAge = least
      BY <2>2, <2>7, <3>1 DEF Meaning
    <3> QED
      BY <2>2, <3>2, <3>3, NoneIsNoNumber
  <2>9. Ages(S) = {} => h.directives.maxAge = None
    BY <2>2 DEF Meaning
  <2>10. unreadable => p.lifetime = 0
    <3>1. unreadable => least = 0
      BY <2>6, <2>8
    <3> QED
      BY <2>3, <2>6, <2>8, <3>1
  <2>11. PICK ceiling :
           ceiling = IF read # {}
                       THEN IF h.date = None THEN None ELSE h.date + Min(read)
                       ELSE IF h.expires \in Int THEN h.expires ELSE None
    OBVIOUS
  <2>12. (p.lifetime > 0 /\ ceiling # None) => wall + p.lifetime <= ceiling
    <3>1. SUFFICES ASSUME p.lifetime > 0, ceiling # None PROVE wall + p.lifetime <= ceiling
      OBVIOUS
    <3>2. ~unreadable
      BY <2>10, <3>1
    <3>3. CASE read # {}
      <4>1. PICK shortest : shortest = Min(read)
        OBVIOUS
      <4>2. shortest \in Ages(S) /\ shortest \in Nat
        <5>1. read \subseteq Nat
          BY <2>2, <2>6
        <5>2. shortest \in read
          BY <3>3, <4>1, <5>1, MinOf
        <5> QED
          BY <2>6, <5>1, <5>2
      <4>3. h.date # None /\ h.date \in Nat /\ ceiling = h.date + shortest
        BY <2>2, <2>11, <3>1, <3>3, <4>1 DEF Readable, Option
      <4>4. PICK t, d : t = p.lifetime /\ d = h.date
        OBVIOUS
      <4>5. wall + t <= d + least /\ least <= shortest /\ least \in Nat
        BY <2>3, <2>8, <3>1, <4>2, <4>3, <4>4
      <4>6. wall \in Nat /\ t \in Nat /\ d \in Nat
        BY <1>1, <2>3, <4>3, <4>4 DEF GrowthInv
      <4>7. wall + t <= d + shortest
        BY <4>2, <4>5, <4>6
      <4> QED
        BY <4>3, <4>4, <4>7
    <3>4. CASE read = {}
      <4>1. h.directives.maxAge = None
        BY <2>6, <2>9, <3>2, <3>4
      <4>2. ceiling = h.expires /\ h.expires \in Nat
        BY <2>2, <2>11, <3>1, <3>4, NoneIsNoNumber, MalformedIsNoNumber DEF Readable, Option
      <4> QED
        BY <2>3, <3>1, <4>1, <4>2
    <3> QED
      BY <3>3, <3>4
  <2> QED
    BY <2>1, <2>4, <2>5, <2>10, <2>11, <2>12 DEF FreshnessEndsWhenStated
<1> QED
  BY <1>1, GrowthIsInvariant, PTL

\* The caller's minimum gives a response more time and no more freedom.
THEOREM FloorStaysStrict == GrowthSpec => []FloorKeepsStrictness
<1>1. ASSUME GrowthInv PROVE FloorKeepsStrictness
  <2>1. PICK S, h, p, f : S = Seen(wire) /\ h = headers /\ p = Policy /\ f = Floored
    OBVIOUS
  <2>2. h.directives = Meaning(S) /\ Readable(h)
    BY <1>1, <2>1, WhatIsRead DEF GrowthInv
  <2>3. /\ p.lifetime \in Nat
        /\ p.mustRevalidate \in BOOLEAN
        /\ p.mustRevalidate <=> (h.directives.noStore \/ h.directives.noCache
                                   \/ h.directives.mustRevalidate)
        /\ p.kind # "CacheFor" => p.mustRevalidate
    <3>1. DefaultLifetime \in Nat /\ wall \in Nat
      BY <1>1, GrowthBounds DEF GrowthInv
    <3>2. p = PolicyFromDirectives(h, DefaultLifetime, wall)
      BY <2>1 DEF Policy
    <3> QED
      BY <2>2, <3>1, <3>2, PolicyIs
  <2>4. Minimum \in Nat
    BY GrowthBounds
  <2>5. f.lifetime >= Larger(p.lifetime, Minimum) /\ (f.mustRevalidate <=> p.mustRevalidate)
    <3>1. p.kind # "CacheFor" => p.lifetime = 0
      <4>1. DefaultLifetime \in Nat /\ wall \in Nat
        BY <1>1, GrowthBounds DEF GrowthInv
      <4>2. p = PolicyFromDirectives(h, DefaultLifetime, wall)
        BY <2>1 DEF Policy
      <4> QED
        BY <2>2, <4>1, <4>2, PolicyEnds
    <3>2. f = ApplyMinimumCacheDuration(p, Minimum)
      BY <2>1 DEF Floored
    <3>3. f.lifetime = Larger(p.lifetime, Minimum) /\ (f.mustRevalidate <=> p.mustRevalidate)
      BY <2>3, <2>4, <3>1, <3>2, FloorIs
    <3>4. Larger(p.lifetime, Minimum) \in Nat
      BY <2>3, <2>4 DEF Larger
    <3> QED
      BY <3>3, <3>4
  <2>6. ASSUME NEW d \in S, d.name \in {"no-store", "no-cache", "must-revalidate"}
        PROVE  p.mustRevalidate
    BY <2>2, <2>3, <2>6 DEF Meaning
  <2> QED
    BY <2>1, <2>5, <2>6 DEF FloorKeepsStrictness
<1> QED
  BY <1>1, GrowthIsInvariant, PTL

\* More directives say no more than fewer.
LEMMA MoreSaysNoMore ==
  ASSUME NEW S, NEW T, S \subseteq T, Typed(T), NEW h, NEW k,
         h.directives = Meaning(S), k.directives = Meaning(T), Readable(h), Readable(k),
         k.expires = h.expires, k.date = h.date, k.age = h.age,
         h.directives.maxAge # None \/ k.directives.maxAge = None
  PROVE  NoStricter(h, k)
<1>1. Ages(S) \subseteq Ages(T) /\ Ages(T) \subseteq Nat
  BY AgesType DEF Ages
<1>2. PICK A, B : A = Ages(S) /\ B = Ages(T)
  OBVIOUS
<1>3. /\ h.directives.maxAge = IF A = {} THEN None ELSE Min(A)
      /\ k.directives.maxAge = IF B = {} THEN None ELSE Min(B)
  BY <1>2 DEF Meaning
<1>4. /\ A # {} => Min(A) \in A /\ Min(A) # None
      /\ B # {} => Min(B) # None /\ \A n \in B : Min(B) <= n
  <2>1. A # {} => Min(A) \in A
    BY <1>1, <1>2, MinOf
  <2>2. B # {} => Min(B) \in B /\ \A n \in B : Min(B) <= n
    BY <1>1, <1>2, MinOf
  <2> HIDE DEF Min
  <2> QED
    BY <1>1, <1>2, <2>1, <2>2, NoneIsNoNumber
<1>5. \/ h.directives.maxAge = None /\ k.directives.maxAge = None
      \/ /\ h.directives.maxAge # None /\ k.directives.maxAge # None
         /\ k.directives.maxAge <= h.directives.maxAge
  <2>1. CASE A = {}
    BY <1>3, <2>1
  <2>2. CASE A # {}
    <3>1. B # {} /\ Min(A) \in B
      BY <1>1, <1>2, <1>4, <2>2
    <3> QED
      BY <1>3, <1>4, <2>2, <3>1
  <2> QED
    BY <2>1, <2>2
<1>6. /\ h.directives.noStore => k.directives.noStore
      /\ h.directives.noCache => k.directives.noCache
      /\ h.directives.mustRevalidate => k.directives.mustRevalidate
  BY DEF Meaning
<1> QED
  BY <1>5, <1>6 DEF NoStricter

\* A line that is added on the way has no say in what is said already, and one of
\* Cache-Control never lengthens what an earlier one allows.
THEOREM ExtraLinesNeverLengthen == GrowthSpec => ExtraLineNeverLengthens
<1> DEFINE Step ==
      added' # added =>
        LET line == wire'[Len(wire')]
            second == \E i \in DOMAIN wire : wire[i].name = line.name
        IN  /\ line.name \in Scalars /\ second => Policy' = Policy
            /\ (line.name = "cache-control"
                 /\ (headers.directives.maxAge # None \/ headers'.directives.maxAge = None)) =>
                 /\ Policy'.lifetime <= Policy.lifetime
                 /\ Policy.mustRevalidate => Policy'.mustRevalidate
<1>1. ASSUME GrowthInv, GrowthInv', [GrowthNext]_growthVars PROVE [Step]_growthVars
  <2> SUFFICES ASSUME added' # added PROVE Step
    BY DEF growthVars
  <2>1. AppendLine
    BY <1>1 DEF GrowthNext, RaiseAge, Wait, growthVars
  <2>2. PICK l \in Lines : Writes(Append(wire, l))
    BY <2>1 DEF AppendLine
  <2>3. PICK lines, more : lines = wire /\ more = wire'
    OBVIOUS
  <2>4. Written(lines) /\ Header({l}) /\ more = Append(lines, l)
    BY <1>1, <2>2, <2>3, LinesAreLines DEF Header, GrowthInv, Writes
  <2>5. /\ Len(more) = Len(lines) + 1 /\ more[Len(lines) + 1] = l /\ Written(more)
        /\ Seen(more) = Seen(lines) \cup (IF l.ascii THEN Range(l.directives) ELSE {})
    BY <2>4, WrittenMore
  <2>6. PICK h, k : h = headers /\ k = headers'
    OBVIOUS
  <2>7. PICK r, s : r = Received(lines) /\ s = Received(Append(lines, l))
    OBVIOUS
  <2>8. h = HeadersOf(r) /\ k = HeadersOf(s)
    BY <1>1, <2>2, <2>3, <2>6, <2>7 DEF GrowthInv, Writes
  <2>9. /\ h.directives = Meaning(Seen(lines)) /\ Readable(h)
    BY <1>1, <2>3, <2>6, WhatIsRead DEF GrowthInv
  <2>10. k.directives = Meaning(Seen(more)) /\ Readable(k) /\ Typed(Seen(more))
    <3>1. Written(more) /\ k = HeadersOf(Received(more))
      BY <1>1, <2>3, <2>6 DEF GrowthInv
    <3> QED
      BY <3>1, WhatIsRead
  <2>11. PICK second \in BOOLEAN : second <=> \E i \in DOMAIN lines : lines[i].name = l.name
    OBVIOUS
  <2>12. PICK p, q : /\ p = PolicyFromDirectives(h, DefaultLifetime, wall)
                     /\ q = PolicyFromDirectives(k, DefaultLifetime, wall)
    OBVIOUS
  <2>13. Policy = p /\ Policy' = q
    BY <2>1, <2>6, <2>12 DEF Policy, AppendLine
  <2>14. \A name \in Scalars : l.name # name \/ second => HeaderValue(s, name) = HeaderValue(r, name)
    BY <2>4, <2>7, <2>11, LineMore
  <2>15. (\A name \in Scalars : HeaderValue(s, name) = HeaderValue(r, name)) =>
           k.expires = h.expires /\ k.date = h.date /\ k.age = h.age
    BY <2>8 DEF HeadersOf, Scalars
  <2>16. l.name \in Scalars /\ second => q = p
    <3>1. SUFFICES ASSUME l.name \in Scalars, second PROVE q = p
      OBVIOUS
    <3>2. k.expires = h.expires /\ k.date = h.date /\ k.age = h.age
      BY <2>14, <2>15, <3>1
    <3>3. l.directives = <<>>
      BY <2>4, <3>1 DEF Header, Scalars
    <3>4. Seen(more) = Seen(lines)
      BY <2>5, <3>3 DEF Range
    <3> QED
      BY <2>9, <2>10, <2>12, <3>2, <3>4 DEF PolicyFromDirectives
  <2>17. ASSUME l.name = "cache-control", h.directives.maxAge # None \/ k.directives.maxAge = None
         PROVE  q.lifetime <= p.lifetime /\ (p.mustRevalidate => q.mustRevalidate)
    <3>1. k.expires = h.expires /\ k.date = h.date /\ k.age = h.age
      BY <2>14, <2>15, <2>17 DEF Scalars
    <3>2. NoStricter(h, k)
      BY <2>5, <2>9, <2>10, <2>17, <3>1, MoreSaysNoMore
    <3>3. DefaultLifetime \in Nat /\ wall \in Nat
      BY <1>1, GrowthBounds DEF GrowthInv
    <3> QED
      BY <2>12, <3>2, <3>3, StricterIsShorter
  <2> QED
    BY <2>3, <2>5, <2>6, <2>11, <2>13, <2>16, <2>17
<1> QED
  BY <1>1, GrowthIsInvariant, PTL DEF GrowthSpec, ExtraLineNeverLengthens

-----------------------------------------------------------------------------
(* From the headers of a response to the deadlines of the snapshot.        *)

\* What is known of the policy a document is published under.
LEMMA PublishedPolicy ==
  ASSUME TypeOK, NEW r \in Response,
         NEW default, default = IF provider.interval = None THEN DefaultInterval ELSE provider.interval,
         NEW f, f = ResponseCachePolicy(r, default, provider.minimum, clock)
  PROVE  /\ f.lifetime \in Nat
         /\ clock + f.lifetime <= Larger(StatedEnd(r), clock + provider.minimum)
         /\ f.mustRevalidate <=> ForbidsStaleUse(r)
         /\ f.kind # "CacheFor" => f.mustRevalidate
<1>1. /\ default \in Nat /\ clock \in Nat /\ provider.minimum \in Nat
  BY DurationsAreNat, ClockBounds DEF TypeOK, ProviderState, Option
<1>2. Readable(r)
  BY ResponseHeaders DEF Readable, Directives
<1>3. PICK p : p = PolicyFromDirectives(r, default, clock)
  OBVIOUS
<1>4. /\ p.lifetime \in Nat /\ p.mustRevalidate \in BOOLEAN
      /\ p.mustRevalidate <=> (r.directives.noStore \/ r.directives.noCache
                                 \/ r.directives.mustRevalidate)
      /\ p.kind # "CacheFor" => p.mustRevalidate
      /\ r.directives.maxAge # None /\ r.date # None /\ p.lifetime > 0 =>
           clock + p.lifetime <= r.date + r.directives.maxAge
      /\ r.directives.maxAge # None => p.lifetime <= r.directives.maxAge
      /\ r.directives.maxAge = None /\ r.expires \in Nat /\ p.lifetime > 0 =>
           clock + p.lifetime <= r.expires
  BY <1>1, <1>2, <1>3, PolicyIs
<1>5. /\ p.kind # "CacheFor" => p.lifetime = 0
      /\ r.directives.noStore \/ r.directives.noCache => p.lifetime = 0
      /\ r.directives.maxAge = None /\ r.expires = Malformed => p.lifetime = 0
      /\ r.directives.maxAge = None /\ r.expires = None => p.lifetime <= default
  BY <1>1, <1>2, <1>3, PolicyEnds
<1>6. f = ApplyMinimumCacheDuration(p, provider.minimum)
  BY <1>3 DEF ResponseCachePolicy
<1>7. /\ f.lifetime = Larger(p.lifetime, provider.minimum)
      /\ f.mustRevalidate <=> p.mustRevalidate
      /\ f.kind # "CacheFor" => f.mustRevalidate
  BY <1>1, <1>4, <1>5, <1>6, FloorIs
<1>8. PICK l, m, x, d, minimum :
        /\ l = p.lifetime /\ m = r.directives.maxAge /\ x = r.expires /\ d = r.date
        /\ minimum = provider.minimum
  OBVIOUS
<1>9. /\ m \in Option(Nat) /\ x \in Option(Nat \cup {Malformed}) /\ d \in Option(Nat)
  BY <1>2, <1>8 DEF Readable
<1>10. PICK end : end = StatedEnd(r)
  OBVIOUS
<1>11. end \in Nat /\ (l > 0 => clock + l <= end)
  <2>1. CASE r.directives.noStore \/ r.directives.noCache
    <3>1. end = clock
      BY <1>10, <2>1 DEF StatedEnd
    <3> QED
      BY <1>1, <1>5, <1>8, <2>1, <3>1
  <2>2. CASE ~(r.directives.noStore \/ r.directives.noCache) /\ m # None
    <3>1. end = (IF d = None THEN clock ELSE d) + m
      BY <1>8, <1>10, <2>2 DEF StatedEnd
    <3>2. m \in Nat /\ (d # None => d \in Nat) /\ l \in Nat
      BY <1>4, <1>8, <1>9, <2>2 DEF Option
    <3>3. l <= m /\ (d # None /\ l > 0 => clock + l <= d + m)
      BY <1>4, <1>8, <2>2
    <3> QED
      BY <1>1, <3>1, <3>2, <3>3
  <2>3. CASE ~(r.directives.noStore \/ r.directives.noCache) /\ m = None /\ x # None
    <3>1. CASE x = Malformed
      <4>1. end = clock
        BY <1>8, <1>10, <2>3, <3>1 DEF StatedEnd
      <4> QED
        BY <1>1, <1>5, <1>8, <2>3, <3>1, <4>1
    <3>2. CASE x # Malformed
      <4>1. end = x /\ x \in Nat
        BY <1>8, <1>9, <1>10, <2>3, <3>2 DEF StatedEnd, Option
      <4> QED
        BY <1>4, <1>8, <2>3, <4>1
    <3> QED
      BY <3>1, <3>2
  <2>4. CASE ~(r.directives.noStore \/ r.directives.noCache) /\ m = None /\ x = None
    <3>1. end = clock + default
      BY <1>8, <1>10, <2>4 DEF StatedEnd
    <3>2. l <= default /\ l \in Nat
      BY <1>4, <1>5, <1>8, <2>4
    <3> QED
      BY <1>1, <3>1, <3>2
  <2> QED
    BY <2>1, <2>2, <2>3, <2>4
<1>12. PICK longer : longer = Larger(l, minimum)
  OBVIOUS
<1>13. longer \in Nat /\ clock + longer <= Larger(end, clock + minimum)
  <2>1. l \in Nat /\ minimum \in Nat
    BY <1>1, <1>4, <1>8
  <2> QED
    BY <1>1, <1>11, <1>12, <2>1 DEF Larger
<1>14. f.lifetime = longer
  BY <1>7, <1>8, <1>12
<1> QED
  BY <1>4, <1>7, <1>8, <1>10, <1>13, <1>14 DEF ForbidsStaleUse

\* What a publication makes of it.
LEMMA PublishedAsStated ==
  ASSUME TypeOK, NEW c \in Caller, NEW v, NEW r \in Response, NEW j, Publish(c, v, r, j)
  PROVE  /\ provider'.refreshAfter # None =>
              provider'.refreshAfter <= Larger(StatedEnd(r), clock + provider.minimum)
         /\ provider'.staleOnError <=> ~ForbidsStaleUse(r)
         /\ ForbidsStaleUse(r) => provider'.staleUntil = None
<1>1. PICK default : default = IF provider.interval = None THEN DefaultInterval ELSE provider.interval
  OBVIOUS
<1>2. PICK f : f = ResponseCachePolicy(r, default, provider.minimum, clock)
  OBVIOUS
<1>3. PICK d : d = CacheDeadlines(f, provider.retain)
  OBVIOUS
<1>4. /\ f.lifetime \in Nat
      /\ clock + f.lifetime <= Larger(StatedEnd(r), clock + provider.minimum)
      /\ f.mustRevalidate <=> ForbidsStaleUse(r)
      /\ f.kind # "CacheFor" => f.mustRevalidate
  BY <1>1, <1>2, PublishedPolicy
<1>5. provider' =
        [meta |-> v, jwks |-> j,
         refreshAfter |-> IF Enabled(provider.interval) THEN d.refreshAfter ELSE None,
         staleUntil |-> IF Enabled(provider.interval) THEN d.staleUntil ELSE None,
         retryAfter |-> None, staleOnError |-> d.staleOnError, interval |-> provider.interval,
         minimum |-> provider.minimum, retain |-> provider.retain]
  BY <1>1, <1>2, <1>3 DEF Publish, KeptInterval
<1>6. /\ provider'.refreshAfter # None => provider'.refreshAfter = d.refreshAfter
      /\ provider'.staleUntil # None => provider'.staleUntil = d.staleUntil
      /\ provider'.staleOnError = d.staleOnError
  BY <1>5
<1>7. PICK l, after : l = f.lifetime /\ after = RefreshDeadline(l)
  OBVIOUS
<1>8. /\ d.refreshAfter \in {after, clock}
      /\ d.staleOnError <=> f.kind = "CacheFor" /\ ~f.mustRevalidate
      /\ ~d.staleOnError => d.staleUntil = None
  <2>1. CASE f.kind = "CacheFor"
    BY <1>3, <1>7, <2>1 DEF CacheDeadlines, StaleDeadline
  <2>2. CASE f.kind # "CacheFor"
    BY <1>3, <2>2 DEF CacheDeadlines
  <2> QED
    BY <2>1, <2>2
<1>9. clock \in Nat /\ l \in Nat /\ after \in {clock, clock + l}
  BY <1>4, <1>7, ClockBounds DEF TypeOK, RefreshDeadline, CheckedAdd
<1>10. PICK end : end = Larger(StatedEnd(r), clock + provider.minimum)
  OBVIOUS
<1>11. end \in Int
  <2>1. provider.minimum \in Nat /\ (provider.interval # None => provider.interval \in Nat)
    BY DEF TypeOK, ProviderState, Option
  <2>2. StatedEnd(r) \in Nat
    <3>1. /\ r.directives.maxAge \in Option(Nat) /\ r.expires \in Option(Nat \cup {Malformed})
          /\ r.date \in Option(Nat)
      BY ResponseHeaders DEF Directives
    <3> QED
      BY <1>9, <2>1, <3>1, DurationsAreNat DEF StatedEnd, Option
  <2> QED
    BY <1>9, <1>10, <2>1, <2>2 DEF Larger
<1>12. d.refreshAfter <= end
  BY <1>4, <1>7, <1>8, <1>9, <1>10, <1>11
<1> QED
  BY <1>4, <1>6, <1>8, <1>10, <1>12

\* A document counts as fresh no longer than its headers or the caller's minimum
\* allow, for every response, setting and delay, and gets no stale window that
\* its headers forbid.
THEOREM DocumentsAreKeptAsStated == Spec => KeptAsStated
<1> DEFINE Stated == \A c \in Caller, v \in Version, r \in Response, j \in Jwks :
      Publish(c, v, r, j) =>
        /\ provider'.refreshAfter # None =>
             provider'.refreshAfter <= Larger(StatedEnd(r), clock + provider.minimum)
        /\ ForbidsStaleUse(r) => provider'.staleUntil = None /\ ~provider'.staleOnError
<1>1. IInv /\ [Next]_vars => [Stated]_vars
  BY PublishedAsStated DEF IInv
<1> QED
  BY <1>1, Invariance, PTL DEF Spec, KeptAsStated

\* A setter changes neither the permission to use the document stale ...
LEMMA SettersKeepPermission ==
  ASSUME TypeOK, Setter
  PROVE  provider'.staleOnError = provider.staleOnError
<1> USE DEF Configures, Rescheduled
<1>1. provider \in ProviderState
  BY DEF TypeOK
<1>2. CASE SetRefreshInterval
  BY <1>1, <1>2 DEF SetRefreshInterval, ProviderState
<1>3. CASE SetMinimumCacheDuration
  BY <1>1, <1>3 DEF SetMinimumCacheDuration, ProviderState
<1>4. CASE SetRetainOnError
  BY <1>1, <1>4 DEF SetRetainOnError, ProviderState
<1>5. CASE DisableRefresh
  BY <1>1, <1>5 DEF DisableRefresh, ProviderState
<1> QED
  BY <1>2, <1>3, <1>4, <1>5 DEF Setter

\* ... and what succeeds is the publication of some document with its headers.
LEMMA SuccessPublishes ==
  ASSUME IInv, NEW c \in Caller, Succeeds(c)
  PROVE  \E v \in Version, r \in Response, j \in Jwks : Publish(c, v, r, j)
<1>1. TypeOK /\ CallsOK /\ SnapshotStaysCurrent /\ pc[c] \in Refreshing
  BY DEF IInv, TypeOK, Succeeds, DiscoverySameKeys, KeysPopulated, Refreshing
<1>2. CASE DiscoverySameKeys(c)
  <2>1. PICK v \in current[c].askedAt..published, r \in Response :
          Publish(c, v, r, current[c].jwks)
    BY <1>2 DEF DiscoverySameKeys
  <2>2. current[c] \in Snapshot
    BY <1>1, SnapshotType
  <2>3. v \in Version /\ current[c].jwks \in Jwks
    BY <1>1, <2>1, <2>2, VersionBound DEF TypeOK, Snapshot, Version
  <2> QED
    BY <2>1, <2>3
<1>3. CASE KeysPopulated(c)
  <2>1. /\ pc[c] = "populating"
        /\ Publish(c, answer[c].meta, answer[c].headers,
                   [answer[c].jwks EXCEPT !.filled = TRUE])
    BY <1>3 DEF KeysPopulated
  <2>2. answer[c] \in Answer
    BY <1>1, <2>1, AnswerType
  <2>3. [answer[c].jwks EXCEPT !.filled = TRUE] \in Jwks
    BY <2>2 DEF Answer, Jwks
  <2> QED
    BY <2>1, <2>2, <2>3 DEF Answer
<1> QED
  BY <1>2, <1>3 DEF Succeeds

\* A stale window opens for a document that may be used stale, and only with its
\* publication, whatever the setters do.
THEOREM StaleUseNeedsPermission == Spec => StaleUseIsPermitted
<1> DEFINE Permitted == (~provider.staleOnError /\ provider'.staleUntil # None) =>
      \E c \in Caller, v \in Version, r \in Response, j \in Jwks :
        Publish(c, v, r, j) /\ ~ForbidsStaleUse(r)
<1>1. ASSUME IInv, IInv', [Next]_vars PROVE [Permitted]_vars
  <2> SUFFICES ASSUME ~provider.staleOnError, provider'.staleUntil # None
               PROVE  \E c \in Caller, v \in Version, r \in Response, j \in Jwks :
                        Publish(c, v, r, j) /\ ~ForbidsStaleUse(r)
    OBVIOUS
  <2>1. provider'.staleOnError
    BY <1>1 DEF IInv, DeadlinesOK, StaleWindowFollowsFreshness, StaleDeadline
  <2>2. PICK c \in Caller : Succeeds(c)
    <3>1. CASE Setter
      BY <2>1, <3>1, <1>1, SettersKeepPermission DEF IInv
    <3>2. CASE \E c \in Caller : RequestFails(c)
      BY <2>1, <3>2, <1>1 DEF RequestFails, IInv, TypeOK, ProviderState
    <3>3. CASE UNCHANGED provider
      BY <2>1, <3>3
    <3> QED
      BY <1>1, <3>1, <3>2, <3>3 DEF Next, CallStep, Progress, Tick, ProviderUpdates, StaleCheck,
         ForceRefresh, FindsFresh, SendDiscovery, DiscoveryNewKeys, Cancel, vars
  <2>3. PICK v \in Version, r \in Response, j \in Jwks : Publish(c, v, r, j)
    BY <1>1, <2>2, SuccessPublishes
  <2>4. ~ForbidsStaleUse(r)
    BY <1>1, <2>1, <2>3, PublishedAsStated DEF IInv
  <2> QED
    BY <2>3, <2>4
<1>2. IInv /\ IInv' /\ [Next]_vars => [Permitted]_vars
  BY <1>1
<1> QED
  BY <1>2, Invariance, PTL DEF Spec, StaleUseIsPermitted
=============================================================================
