---------------------------- MODULE CachePolicy ----------------------------
(***************************************************************************)
(* The HTTP freshness rules of src/src/metadata/cache.rs: from the headers *)
(* of a discovery response to the policy under which the document is kept. *)
(*                                                                         *)
(* Durations and instants are whole seconds.  A wall-clock instant (the    *)
(* Date and Expires headers, SystemTime::now) is a number on the same      *)
(* scale.  An Option is a value or None.  A definition X_Y is X with a      *)
(* plausible mistake in it, which some property must notice.               *)
(***************************************************************************)
EXTENDS Integers, SequencesExt

CONSTANTS
  None,        \* an absent Option
  Malformed,   \* a header or argument that does not parse
  MaxDelta,    \* MAX_DELTA_SECONDS, the cap on delta-seconds
  ParseMax     \* the largest number that parses (u128::MAX in the code)

ASSUME NoneIsNoNumber == None \notin Int
ASSUME MalformedIsNoNumber == Malformed \notin Int /\ Malformed # None
ASSUME DeltaBounds == MaxDelta \in Nat /\ ParseMax \in Nat /\ MaxDelta <= ParseMax

Option(S) == S \cup {None}
Smaller(a, b) == IF a <= b THEN a ELSE b
Larger(a, b) == IF a >= b THEN a ELSE b

\* Duration::saturating_sub, and its use with Option::unwrap_or_default.
SaturatingSub(a, b) == IF a > b THEN a - b ELSE 0
OrZero(o) == IF o = None THEN 0 ELSE o

\* Option::max: None is below every value.
LargerOption(a, b) ==
  IF a = None THEN b ELSE IF b = None THEN a ELSE Larger(a, b)

-----------------------------------------------------------------------------
(* The policy, and the floor the caller puts under it.                     *)

CacheFor(lifetime, mustRevalidate) ==
  [kind |-> "CacheFor", lifetime |-> lifetime, mustRevalidate |-> mustRevalidate]
Revalidate == [kind |-> "Revalidate", lifetime |-> 0, mustRevalidate |-> TRUE]
DoNotStore == [kind |-> "DoNotStore", lifetime |-> 0, mustRevalidate |-> TRUE]

Policies ==
  [kind : {"CacheFor"}, lifetime : Nat, mustRevalidate : BOOLEAN]
    \cup {Revalidate, DoNotStore}

\* apply_minimum_cache_duration
ApplyMinimumCacheDuration_Lax(policy, minimum) ==
  IF minimum = 0 THEN policy
  ELSE CacheFor(Larger(policy.lifetime, minimum),
                policy.kind = "CacheFor" /\ policy.mustRevalidate)
ApplyMinimumCacheDuration(policy, minimum) ==
  IF minimum = 0 THEN policy
  ELSE IF policy.kind = "CacheFor"
       THEN CacheFor(Larger(policy.lifetime, minimum), policy.mustRevalidate)
       ELSE CacheFor(minimum, TRUE)

-----------------------------------------------------------------------------
(* Cache-Control.  A directive is [name, arg]: arg is None when there is   *)
(* no "=", Malformed when what follows it is not a number.                 *)

Directives ==
  [maxAge : Option(Nat), noCache : BOOLEAN, noStore : BOOLEAN,
   mustRevalidate : BOOLEAN]

NoDirectives ==
  [maxAge |-> None, noCache |-> FALSE, noStore |-> FALSE, mustRevalidate |-> FALSE]

\* parse_delta_seconds: what does not parse counts as zero.
ParseDeltaSeconds(arg) ==
  IF arg = Malformed \/ arg > ParseMax THEN 0 ELSE Smaller(arg, MaxDelta)

\* The shortest of several max-age directives counts.
AddMaxAge_LastWins(maxAge, lifetime) == lifetime
AddMaxAge(maxAge, lifetime) ==
  IF maxAge = None THEN lifetime ELSE Smaller(maxAge, lifetime)

\* One turn of the loop of parse_cache_control.
AddDirective(acc, d) ==
  CASE d.name = "max-age" /\ d.arg # None ->
         [acc EXCEPT !.maxAge = AddMaxAge(@, ParseDeltaSeconds(d.arg))]
    [] d.name = "no-cache" -> [acc EXCEPT !.noCache = TRUE]
    [] d.name = "no-store" -> [acc EXCEPT !.noStore = TRUE]
    [] d.name = "must-revalidate" -> [acc EXCEPT !.mustRevalidate = TRUE]
    [] OTHER -> acc

\* parse_cache_control: the directives of one header, after those of others.
ParseCacheControl(directives, before) ==
  LET turn[i \in 0..Len(directives)] ==
        IF i = 0 THEN before ELSE AddDirective(turn[i - 1], directives[i])
  IN  turn[Len(directives)]

-----------------------------------------------------------------------------
(* Freshness.  A response's expires is None, Malformed or an instant; its  *)
(* date and age are None when absent or malformed.                         *)

\* expires_lifetime
ExpiresLifetime(expires, date, age, wall) ==
  IF expires = Malformed THEN 0
  ELSE SaturatingSub(
         SaturatingSub(expires, IF date = None THEN wall ELSE date), OrZero(age))

\* compute_policy_from_directives
ComputePolicy(directives, expires, date, age, default, wall) ==
  IF directives.noStore THEN DoNotStore
  ELSE IF directives.noCache THEN Revalidate
  ELSE CacheFor(
         IF directives.maxAge # None
           THEN SaturatingSub(directives.maxAge, OrZero(age))
         ELSE IF expires # None
           THEN ExpiresLifetime(expires, date, age, wall)
         ELSE SaturatingSub(default, OrZero(age)),
         directives.mustRevalidate)

\* The age of policy_from_headers: the larger of the Age header and the time
\* since Date, a Date in the future counting for nothing.
ResponseAge_StatedOnly(date, age, wall) == age
ResponseAge(date, age, wall) ==
  LargerOption(age, IF date # None /\ date <= wall THEN wall - date ELSE None)

\* policy_from_headers, once the headers are read.
PolicyFromDirectives(r, default, wall) ==
  ComputePolicy(r.directives, r.expires, r.date,
                ResponseAge(r.date, r.age, wall), default, wall)

\* DiscoveredMetadata::cache_policy
ResponseCachePolicy(r, default, minimum, wall) ==
  ApplyMinimumCacheDuration(PolicyFromDirectives(r, default, wall), minimum)
=============================================================================
