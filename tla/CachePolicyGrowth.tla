------------------------- MODULE CachePolicyGrowth -------------------------
(***************************************************************************)
(* One discovery response under construction and waiting to be evaluated:  *)
(* the provider, or a proxy after it, may add a header line or raise Age,  *)
(* and time passes between the arrival of a response and the evaluation of *)
(* its policy (client.rs evaluates it only after the new JWKS is            *)
(* populated).  The properties compare the policy before and after.         *)
(***************************************************************************)
EXTENDS ResponseHeaders

CONSTANTS
  Lines,             \* the lines that may be added
  MaxLines,          \* bound: lines added to one response
  Times,             \* choices for Date and Age
  ExpiresChoices,    \* choices for Expires, Malformed among them
  DefaultLifetime,   \* freshness when the response states none
  Minimum,           \* the caller's minimum cache duration
  MaxWall            \* bound: the last instant of the wall clock

ASSUME LinesAreLines == Header(Lines)
ASSUME GrowthBounds ==
  /\ {MaxLines, DefaultLifetime, Minimum, MaxWall} \cup Times \subseteq Nat
  /\ ExpiresChoices \subseteq Nat \cup {Malformed}

VARIABLES
  wire,     \* the lines as they were written
  headers,  \* what policy_from_headers reads of them
  added,    \* how many of them were added on the way
  wall      \* SystemTime::now

growthVars == <<wire, headers, added, wall>>

Writes(lines) == wire' = lines /\ headers' = HeadersOf(Received(lines))

Scalar(name, value) == [name |-> name, ascii |-> TRUE, directives |-> <<>>, value |-> value]
IfGiven(name, value) == IF value = None THEN <<>> ELSE <<Scalar(name, value)>>

GrowthInit ==
  /\ \E expires \in Option(ExpiresChoices), date, age \in Option(Times) :
       wire = IfGiven("expires", expires) \o IfGiven("date", date) \o IfGiven("age", age)
  /\ headers = HeadersOf(Received(wire))
  /\ added = 0 /\ wall = 0

AppendLine ==
  /\ added < MaxLines /\ added' = added + 1
  /\ \E l \in Lines : Writes(Append(wire, l))
  /\ UNCHANGED wall

\* A cache writes a larger Age into the line that is there.
RaiseAge ==
  /\ \E i \in DOMAIN wire, a \in Times :
       /\ wire[i].name = "age" /\ wire[i].ascii
       /\ wire[i].value \in Times /\ a > wire[i].value
       /\ Writes([wire EXCEPT ![i] = Scalar("age", a)])
  /\ UNCHANGED <<added, wall>>

Wait ==
  /\ wall < MaxWall
  /\ wall' = wall + 1
  /\ UNCHANGED <<wire, headers, added>>

GrowthNext == AppendLine \/ RaiseAge \/ Wait

GrowthSpec == GrowthInit /\ [][GrowthNext]_growthVars

-----------------------------------------------------------------------------
Policy == PolicyFromDirectives(headers, DefaultLifetime, wall)
Floored == ApplyMinimumCacheDuration(Policy, Minimum)

\* The directives of the lines that can be read.
Seen(lines) ==
  UNION {Range(lines[i].directives) : i \in {j \in DOMAIN lines : lines[j].ascii}}

\* The loops of parse_cache_control, which depend on the order of directives
\* turn by turn, compute a function of the set of directives alone, however they
\* are spread over lines (cache.rs:57): the shortest max-age that has an argument
\* (a malformed or overlong one counting as zero), and each flag if its directive
\* appears anywhere.
OrderIndependent ==
  LET ages == {ParseDeltaSeconds(d.arg) :
                 d \in {e \in Seen(wire) : e.name = "max-age" /\ e.arg # None}}
      Says(n) == \E d \in Seen(wire) : d.name = n
  IN  headers.directives =
        [maxAge |-> IF ages = {} THEN None ELSE Min(ages),
         noCache |-> Says("no-cache"), noStore |-> Says("no-store"),
         mustRevalidate |-> Says("must-revalidate")]

\* However late a response is evaluated, and whatever its Age, the freshness
\* it gets ends no later than the instant its own headers name: Expires, or
\* Date plus the smallest max-age.  (Without a Date a max-age has no anchor and
\* counts from the evaluation: policy_from_headers reads no receipt time.)  An
\* argument that cannot be read ends it at once, whatever longer max-age or far
\* Expires stands beside it (cache.rs:103, 164).
FreshnessEndsWhenStated ==
  LET ages == {Smaller(d.arg, MaxDelta) :
                 d \in {e \in Seen(wire) :
                          e.name = "max-age" /\ e.arg \in 0..ParseMax}}
      ceiling == IF ages # {}
                   THEN IF headers.date = None THEN None ELSE headers.date + Min(ages)
                   ELSE IF headers.expires \in Int THEN headers.expires ELSE None
      unreadable == \E d \in Seen(wire) :
        d.name = "max-age" /\ d.arg \notin (0..ParseMax) \cup {None}
  IN  /\ unreadable => Policy.lifetime = 0
      /\ (Policy.lifetime > 0 /\ ceiling # None) => wall + Policy.lifetime <= ceiling

\* The caller's minimum lengthens freshness and nothing else: a response that
\* forbids unvalidated reuse (no-store, no-cache, must-revalidate) still does
\* afterwards, so client.rs derives no stale window from it.
FloorKeepsStrictness ==
  /\ Floored.lifetime >= Larger(Policy.lifetime, Minimum)
  /\ (Policy.mustRevalidate => Floored.mustRevalidate)
  /\ (Floored.mustRevalidate => Policy.mustRevalidate)
  /\ \A d \in Seen(wire) :
       d.name \in {"no-store", "no-cache", "must-revalidate"} => Floored.mustRevalidate

\* A Cache-Control line that is added, readable or not, never lengthens what the
\* document may be reused for, except that the first max-age with an argument
\* replaces Expires or the default: a second, longer max-age gains nothing.  Nor
\* has a second Expires, Date or Age line a say, which a proxy may have added.
ExtraLineNeverLengthens ==
  [][ added' # added =>
        LET line == wire'[Len(wire')]
            second == \E i \in DOMAIN wire : wire[i].name = line.name
        IN  /\ line.name \in Scalars /\ second => Policy' = Policy
            /\ (line.name = "cache-control"
                 /\ (headers.directives.maxAge # None \/ headers'.directives.maxAge = None)) =>
                 /\ Policy'.lifetime <= Policy.lifetime
                 /\ Policy.mustRevalidate => Policy'.mustRevalidate ]_growthVars
=============================================================================
