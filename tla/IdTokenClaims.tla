---------------------------- MODULE IdTokenClaims ----------------------------
(***************************************************************************)
(* What IdTokenVerifier::verify checks once the signature is right          *)
(* (src/src/token/verify.rs), and CompleteAuthorization::verify_id_token,   *)
(* which wires the checks to a transaction (src/src/client.rs).  An honest  *)
(* provider mints tokens for clients, transactions and access tokens, and   *)
(* authenticates the user when its session is older than max_age.           *)
(*                                                                         *)
(* The clock counts parts of a second; claims count whole seconds.  A nonce *)
(* is the transaction it was drawn for.                                     *)
(*                                                                         *)
(* A definition X_Y is X with a plausible mistake in it, which some        *)
(* property must notice.                                                   *)
(***************************************************************************)
EXTENDS Integers, Sequences

CONSTANTS
  None,
  Malformed,   \* an auth_time that is not a non-negative integer
  Client, Me,  \* the provider's clients, and this one
  Tx, Access,  \* transactions and access tokens
  Alg,         \* the algorithms of the provider's keys
  Second,      \* ticks of the clock per second
  Offsets,     \* the provider's clock less this one's, in ticks
  Lifetime,    \* seconds from iat to exp
  MaxAges,     \* the max_age an application asks for, in ticks
  Skews,       \* clock_skew of a context the application makes, in ticks
  OddTimes,    \* auth_time claims out of any order
  MaxInstant,  \* the last SystemTime, in ticks
  HasOptional, \* bound: whether tokens have a nonce, at_hash
  MaxAud,      \* bound: entries of an audience
  Lacks,       \* bound: the required claims that tokens may have wrong or not at all
  Overrides,   \* the client_id a context may name instead
  StartTime,   \* when the clock starts, after the epoch
  MaxTime      \* bound: the clock stops here

ASSUME MeIsAClient == Me \in Client
ASSUME Clients == None \notin Client
ASSUME Audience == MaxAud \in Nat
ASSUME ClientIds == Overrides \subseteq Client
ASSUME RequiredClaims == Lacks \subseteq {"iss", "sub", "iat", "exp"}

\* What a token is refused for.
Faults ==
  {"audience", "claims", "expired", "azp required", "azp", "nonce required", "nonce",
   "access token required", "no digest", "at_hash", "auth_time required",
   "auth_time malformed", "auth_time out of range", "auth_time in future", "too old"}

ASSUME NoOtherValue ==
  /\ None \notin Int \cup {"iss", "sub", "iat", "exp"} /\ Malformed \notin Int
  /\ None \notin Faults \cup {"accepted"} \cup {"SHA-256", "SHA-384", "SHA-512"}
ASSUME SigningAlgs ==
  Alg \subseteq {"RS256", "RS384", "RS512", "PS256", "PS384", "PS512", "ES256", "ES384", "ES512",
                 "Ed25519", "Ed448"}
ASSUME Ticks == Second \in Nat \ {0} /\ StartTime \in Nat /\ MaxTime \in StartTime..MaxInstant
ASSUME LastInstant == MaxInstant \in Nat
ASSUME AfterTheEpoch ==
  \A o \in Offsets : o \in Int /\ StartTime + o >= 0 /\ MaxTime + o <= MaxInstant
ASSUME Durations == MaxAges \subseteq Nat /\ Skews \subseteq Nat /\ OddTimes \subseteq Nat

Option(S) == S \cup {None}

VARIABLES
  clock, offset,
  maxAge,   \* of the transaction, None if it has none
  begun,    \* when the user was sent to the provider, or None
  session,  \* when the user last authenticated there, or None
  token,    \* the ID token that was minted, or None
  context,  \* the VerifyContext
  verdict   \* None until the token is verified

vars == <<clock, offset, maxAge, begun, session, token, context, verdict>>

Init ==
  /\ clock = StartTime /\ offset \in Offsets
  /\ maxAge \in Option(MaxAges)
  /\ begun = None /\ session = None /\ token = None /\ context = None /\ verdict = None

Tick ==
  /\ clock < MaxTime /\ verdict = None
  /\ clock' = clock + 1
  /\ UNCHANGED <<offset, maxAge, begun, session, token, context, verdict>>

-----------------------------------------------------------------------------
(* The provider.                                                           *)

Authenticates ==
  /\ session # clock /\ token = None
  /\ session' = clock
  /\ UNCHANGED <<clock, offset, maxAge, begun, token, context, verdict>>

\* AuthorizeUrlBuilder::build sends max_age in whole seconds.
Begin ==
  /\ begun = None
  /\ begun' = clock
  /\ UNCHANGED <<clock, offset, maxAge, session, token, context, verdict>>

FreshEnough ==
  maxAge # None => clock - session <= Second * (maxAge \div Second) \/ session > begun

\* calculate_at_hash: the digest that goes with the algorithm and the curve.
Digest_NoCurves(alg) ==
  CASE alg \in {"RS256", "ES256", "PS256"} -> "SHA-256"
    [] alg \in {"RS384", "ES384", "PS384"} -> "SHA-384"
    [] alg \in {"RS512", "ES512", "PS512"} -> "SHA-512"
    [] OTHER -> None
Digest(alg) ==
  CASE alg \in {"RS256", "ES256", "PS256"} -> "SHA-256"
    [] alg \in {"RS384", "ES384", "PS384"} -> "SHA-384"
    [] alg \in {"RS512", "ES512", "PS512", "Ed25519"} -> "SHA-512"
    [] OTHER -> None

\* The left half of a digest of the access token.
HashHalf(access, digest) == [of |-> access, by |-> digest]

\* What providers do: the standard's digest, another one for Ed448.
ProviderDigest(alg) ==
  CASE alg \in {"RS256", "ES256", "PS256"} -> "SHA-256"
    [] alg \in {"RS384", "ES384", "PS384"} -> "SHA-384"
    [] alg = "Ed448" -> "SHAKE256"
    [] OTHER -> "SHA-512"

SecondsAt(t) == (t + offset) \div Second

\* The audience is a list that may name several clients, or one of them twice, and
\* need not name the one the token was issued to if azp does; azp may be left out
\* otherwise.  A flow of another kind has no nonce, at_hash is optional, and a
\* claim the standard requires may be wrong or missing, in a token that has all
\* the others (bound).
Names(aud, client) == \E i \in DOMAIN aud : aud[i] = client

Audiences == UNION {[1..n -> Client] : n \in 1..MaxAud}

Mint ==
  /\ begun # None /\ session # None /\ token = None /\ FreshEnough
  /\ \E client \in Client, tx \in Tx, access \in Access, alg \in Alg,
        aud \in Audiences, nonceToo, hashToo \in HasOptional, lacks \in Option(Lacks) :
     \E azp \in {client} \cup (IF Names(aud, client) THEN {None} ELSE {}),
        time \in {SecondsAt(session), None, Malformed} \cup OddTimes :
       /\ lacks # None => nonceToo /\ hashToo /\ time = SecondsAt(session)
       /\ token' =
            [client |-> client, tx |-> tx, access |-> access, alg |-> alg,
             aud |-> aud, azp |-> azp, lacks |-> lacks,
             nonce |-> IF nonceToo THEN tx ELSE None,
             atHash |-> IF hashToo THEN HashHalf(access, ProviderDigest(alg)) ELSE None,
             authTime |-> time, iat |-> SecondsAt(clock)]
  /\ UNCHANGED <<clock, offset, maxAge, begun, session, context, verdict>>

-----------------------------------------------------------------------------
(* The checks, each with its error or None, in the order of verify.         *)

\* JwtConsumer: the audience, the issuer, the claims that are required, and times
\* by the leeway of the context.
ConsumerError(t, ctx) ==
  IF ~Names(t.aud, Me) THEN "audience"
  ELSE IF t.lacks # None THEN "claims"
  ELSE IF Second * (t.iat + Lifetime) + ctx.skew <= clock THEN "expired" ELSE None

\* check_azp: required beside several audiences, and right wherever it is.  The
\* client_id of the context takes the place of the audience.
ExpectedAzp(ctx) == IF ctx.clientId = None THEN Me ELSE ctx.clientId

AzpError_SeveralOnly(t, ctx) ==
  IF Len(t.aud) > 1 /\ t.azp # ExpectedAzp(ctx) THEN "azp" ELSE None
AzpError(t, ctx) ==
  IF t.azp = None THEN IF Len(t.aud) > 1 THEN "azp required" ELSE None
  ELSE IF t.azp # ExpectedAzp(ctx) THEN "azp" ELSE None

\* ct_equals
CtEquals(a, b) == a = b

\* check_nonce
NonceError(t, ctx) ==
  IF ctx.nonce = None THEN None
  ELSE IF t.nonce = None THEN "nonce required"
  ELSE IF ~CtEquals(t.nonce, ctx.nonce) THEN "nonce" ELSE None

\* check_at_hash
AtHashError(t, ctx) ==
  IF t.atHash = None THEN None
  ELSE IF ctx.access = None THEN "access token required"
  ELSE IF Digest(t.alg) = None THEN "no digest"
  ELSE IF t.atHash # HashHalf(ctx.access, Digest(t.alg)) THEN "at_hash" ELSE None

\* SystemTime::checked_add: None past the last instant.
CheckedAdd(t, d) == IF t = None \/ t + d > MaxInstant THEN None ELSE t + d

\* The two comparisons of check_auth_time, of times that may have overflowed.
InFuture(at, skew) == CheckedAdd(clock, skew) # None /\ at > CheckedAdd(clock, skew)

TooOld_Overflowing(at, age, skew) ==
  LET deadline == CheckedAdd(CheckedAdd(at, age), skew)
  IN  deadline = None \/ clock > deadline
TooOld_WholeSeconds(at, age, skew) ==
  LET deadline == CheckedAdd(CheckedAdd(at, age), skew)
  IN  deadline # None /\ clock \div Second > deadline \div Second
TooOld(at, age, skew) ==
  LET deadline == CheckedAdd(CheckedAdd(at, age), skew)
  IN  deadline # None /\ clock > deadline

AuthTimeError(t, ctx) ==
  IF ctx.maxAge = None THEN None
  ELSE IF t.authTime = None THEN "auth_time required"
  ELSE IF t.authTime = Malformed THEN "auth_time malformed"
  ELSE IF CheckedAdd(0, Second * t.authTime) = None THEN "auth_time out of range"
  ELSE IF InFuture(Second * t.authTime, ctx.skew) THEN "auth_time in future"
  ELSE IF TooOld(Second * t.authTime, ctx.maxAge, ctx.skew) THEN "too old" ELSE None

FirstOf(errors) ==
  LET real == {i \in DOMAIN errors : errors[i] # None}
  IN  IF real = {} THEN "accepted" ELSE errors[CHOOSE i \in real : \A j \in real : i <= j]

Verdict(t, ctx) ==
  FirstOf(<<ConsumerError(t, ctx), AzpError(t, ctx), NonceError(t, ctx), AtHashError(t, ctx),
            AuthTimeError(t, ctx)>>)

\* verify_id_token: the nonce and max_age of the pending request, the access
\* token beside the ID token, and no leeway.
Wired(tx, access) ==
  [nonce |-> tx, access |-> access, skew |-> 0, maxAge |-> maxAge, clientId |-> None]

\* A context the application makes for itself.
Custom(tx, access, skew) ==
  {[nonce |-> n, access |-> a, skew |-> skew, maxAge |-> maxAge, clientId |-> id] :
     n \in {tx, None}, a \in {access, None}, id \in Option(Overrides)}

Verify ==
  /\ token # None /\ verdict = None
  /\ \E tx \in Tx, access \in Access, skew \in Skews :
     \E ctx \in {Wired(tx, access)} \cup Custom(tx, access, skew) :
       context' = ctx /\ verdict' = Verdict(token, ctx)
  /\ UNCHANGED <<clock, offset, maxAge, begun, session, token>>

Next == Tick \/ Authenticates \/ Begin \/ Mint \/ Verify

Spec == Init /\ [][Next]_vars
=============================================================================
