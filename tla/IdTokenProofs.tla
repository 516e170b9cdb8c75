--------------------------- MODULE IdTokenProofs ---------------------------
(***************************************************************************)
(* The checks of an ID token, for any number of clients, transactions and   *)
(* access tokens, any clocks, lifetimes and leeways.                        *)
(***************************************************************************)
EXTENDS IdTokenClaimsProps, TLAPS

\* What the provider puts in a token.
Minted(t) ==
  /\ t.client \in Client /\ t.aud \in Audiences
  /\ t.azp \in {t.client, None} /\ (t.azp = None => Names(t.aud, t.client))
  /\ t.nonce \in {t.tx, None}
  /\ t.alg \in Alg /\ t.atHash \in {None, HashHalf(t.access, ProviderDigest(t.alg))}

IInv ==
  /\ clock \in StartTime..MaxTime /\ offset \in Offsets /\ maxAge \in Option(MaxAges)
  /\ session # None => session \in StartTime..clock
  /\ token # None => Minted(token) /\ session # None
  /\ verdict # None => token # None
  /\ AcceptedTokenIsOurs /\ OwnTokenAccepted

\* A context that verify can be given.
ContextOK(ctx) == ctx.maxAge = maxAge /\ ctx.skew \in Nat

-----------------------------------------------------------------------------
(* Operators.                                                              *)

LEMMA WholeSeconds ==
  ASSUME NEW n \in Int, NEW d \in Nat \ {0}
  PROVE  n \div d \in Int /\ d * (n \div d) <= n /\ n < d * (n \div d) + d
OBVIOUS

\* An audience that names two clients has two entries.
LEMMA TwoNames ==
  ASSUME NEW aud \in Audiences, NEW x, NEW y, Names(aud, x), Names(aud, y), x # y
  PROVE  Len(aud) > 1
<1>1. PICK n \in 1..MaxAud : aud \in [1..n -> Client]
  BY DEF Audiences
<1>2. DOMAIN aud = 1..n /\ n \in Nat
  BY <1>1, Audience
<1>3. Len(aud) = n
  <2>1. aud \in Seq(Client)
    BY <1>1, <1>2
  <2> QED BY <1>2, <2>1
<1>4. PICK i \in 1..n, j \in 1..n : aud[i] = x /\ aud[j] = y
  BY <1>2 DEF Names
<1>5. i # j
  BY <1>4
<1> QED BY <1>2, <1>3, <1>4, <1>5

\* The first of five errors that is one.
LEMMA FirstOfFive ==
  ASSUME NEW a, NEW b, NEW c, NEW d, NEW e
  PROVE  FirstOf(<<a, b, c, d, e>>) =
           IF a # None THEN a ELSE IF b # None THEN b ELSE IF c # None THEN c
           ELSE IF d # None THEN d ELSE IF e # None THEN e ELSE "accepted"
<1> DEFINE errors == <<a, b, c, d, e>>
           real == {i \in DOMAIN errors : errors[i] # None}
           least == CHOOSE i \in real : \A j \in real : i <= j
<1>1. DOMAIN errors = 1..5 /\ errors[1] = a /\ errors[2] = b /\ errors[3] = c
      /\ errors[4] = d /\ errors[5] = e
  OBVIOUS
<1>2. real \subseteq 1..5 /\ \A i \in 1..5 : i \in real <=> errors[i] # None
  BY <1>1
<1>3. ASSUME NEW i \in real, \A j \in real : i <= j PROVE least = i
  <2>1. least \in real /\ \A j \in real : least <= j
    BY <1>3
  <2> HIDE DEF least, real
  <2>2. i \in 1..5 /\ least \in 1..5 /\ i <= least /\ least <= i
    BY <1>2, <1>3, <2>1
  <2> QED BY <2>2
<1>4. FirstOf(errors) = IF real = {} THEN "accepted" ELSE errors[least]
  BY DEF FirstOf
<1> DEFINE ordered ==
  IF a # None THEN a ELSE IF b # None THEN b ELSE IF c # None THEN c
  ELSE IF d # None THEN d ELSE IF e # None THEN e ELSE "accepted"
<1> SUFFICES FirstOf(errors) = ordered
  OBVIOUS
<1> HIDE DEF real, errors, least
<1>5. CASE a # None
  <2>1. least = 1
    BY <1>2, <1>3, <1>1, <1>5
  <2> QED BY <1>1, <1>2, <1>4, <1>5, <2>1
<1>6. CASE a = None /\ b # None
  <2>1. least = 2
    BY <1>2, <1>3, <1>1, <1>6
  <2> QED BY <1>1, <1>2, <1>4, <1>6, <2>1
<1>7. CASE a = None /\ b = None /\ c # None
  <2>1. least = 3
    BY <1>2, <1>3, <1>1, <1>7
  <2> QED BY <1>1, <1>2, <1>4, <1>7, <2>1
<1>8. CASE a = None /\ b = None /\ c = None /\ d # None
  <2>1. least = 4
    BY <1>2, <1>3, <1>1, <1>8
  <2> QED BY <1>1, <1>2, <1>4, <1>8, <2>1
<1>9. CASE a = None /\ b = None /\ c = None /\ d = None /\ e # None
  <2>1. least = 5
    BY <1>2, <1>3, <1>1, <1>9
  <2> QED BY <1>1, <1>2, <1>4, <1>9, <2>1
<1>10. CASE a = None /\ b = None /\ c = None /\ d = None /\ e = None
  <2>1. real = {}
    BY <1>1, <1>2, <1>10
  <2> QED BY <1>4, <1>10, <2>1
<1> QED BY <1>5, <1>6, <1>7, <1>8, <1>9, <1>10

\* What each check may answer.
LEMMA Errors ==
  ASSUME NEW t, NEW ctx
  PROVE  /\ ConsumerError(t, ctx) \in {None, "audience", "claims", "expired"}
         /\ AzpError(t, ctx) \in {None, "azp required", "azp"}
         /\ NonceError(t, ctx) \in {None, "nonce required", "nonce"}
         /\ AtHashError(t, ctx) \in {None, "access token required", "no digest", "at_hash"}
         /\ AuthTimeError(t, ctx) \in {None, "auth_time required", "auth_time malformed",
              "auth_time out of range", "auth_time in future", "too old"}
BY DEF ConsumerError, AzpError, NonceError, AtHashError, AuthTimeError

\* The verdict is the first error.
LEMMA VerdictIs ==
  ASSUME NEW t, NEW ctx
  PROVE  Verdict(t, ctx) =
           IF ConsumerError(t, ctx) # None THEN ConsumerError(t, ctx)
           ELSE IF AzpError(t, ctx) # None THEN AzpError(t, ctx)
           ELSE IF NonceError(t, ctx) # None THEN NonceError(t, ctx)
           ELSE IF AtHashError(t, ctx) # None THEN AtHashError(t, ctx)
           ELSE IF AuthTimeError(t, ctx) # None THEN AuthTimeError(t, ctx) ELSE "accepted"
BY FirstOfFive DEF Verdict

LEMMA NoError ==
  ASSUME NEW t, NEW ctx, Verdict(t, ctx) = "accepted"
  PROVE  /\ ConsumerError(t, ctx) = None /\ AzpError(t, ctx) = None /\ NonceError(t, ctx) = None
         /\ AtHashError(t, ctx) = None /\ AuthTimeError(t, ctx) = None
BY VerdictIs, Errors DEF Faults

\* The digests agree wherever both sides know one.
LEMMA Digests ==
  ASSUME NEW alg \in Alg, alg # "Ed448"
  PROVE  Digest(alg) = ProviderDigest(alg) /\ Digest(alg) # None
BY SigningAlgs, NoOtherValue DEF Digest, ProviderDigest

LEMMA HashesDiffer ==
  ASSUME NEW a, NEW b, NEW d, NEW e, HashHalf(a, d) = HashHalf(b, e) PROVE a = b
<1>1. HashHalf(a, d).of = HashHalf(b, e).of
  OBVIOUS
<1> QED BY <1>1 DEF HashHalf

LEMMA AcceptedIsOurs ==
  ASSUME NEW t, NEW ctx, Minted(t), Verdict(t, ctx) = "accepted"
  PROVE  /\ t.lacks = None /\ t.client \in {Me, ctx.clientId}
         /\ ctx.nonce # None => t.tx = ctx.nonce
         /\ t.atHash # None => ctx.access = t.access
<1>1. /\ ConsumerError(t, ctx) = None /\ AzpError(t, ctx) = None /\ NonceError(t, ctx) = None
      /\ AtHashError(t, ctx) = None
  BY NoError
<1>2. t.lacks = None /\ t.client \in {Me, ctx.clientId}
  <2>1. Names(t.aud, Me) /\ t.lacks = None
    BY <1>1, NoOtherValue DEF ConsumerError, Faults
  <2>2. CASE t.azp = None
    <3>1. Names(t.aud, t.client) /\ t.aud \in Audiences
      BY <2>2 DEF Minted
    <3>2. ~(Len(t.aud) > 1)
      BY <1>1, <2>2, NoOtherValue DEF AzpError, Faults
    <3> QED BY <2>1, <3>1, <3>2, TwoNames
  <2>3. CASE t.azp # None
    BY <1>1, <2>1, <2>3, NoOtherValue DEF AzpError, ExpectedAzp, Minted, Faults
  <2> QED BY <2>1, <2>2, <2>3
<1>3. ctx.nonce # None => t.tx = ctx.nonce
  BY <1>1, NoOtherValue DEF NonceError, CtEquals, Minted, Faults
<1>4. t.atHash # None => ctx.access = t.access
  <2> SUFFICES ASSUME t.atHash # None PROVE ctx.access = t.access
    OBVIOUS
  <2>1. t.atHash = HashHalf(ctx.access, Digest(t.alg))
    BY <1>1, NoOtherValue DEF AtHashError, Faults
  <2>2. t.atHash = HashHalf(t.access, ProviderDigest(t.alg))
    BY DEF Minted
  <2> QED BY <2>1, <2>2, HashesDiffer
<1> QED BY <1>2, <1>3, <1>4

-----------------------------------------------------------------------------
(* Times.                                                                  *)

LEMMA Numbers ==
  ASSUME IInv
  PROVE  /\ clock \in Int /\ clock <= MaxInstant /\ offset \in Int /\ MaxInstant \in Int
         /\ Second \in Nat \ {0} /\ clock + offset <= MaxInstant
         /\ session # None => session \in Int /\ session <= clock
         /\ maxAge # None => maxAge \in Nat
<1>1. clock \in StartTime..MaxTime /\ offset \in Offsets
  BY DEF IInv
<1>2. MaxInstant \in Nat /\ StartTime \in Nat /\ MaxTime \in StartTime..MaxInstant
  BY Ticks, LastInstant
<1>3. offset \in Int /\ MaxTime + offset <= MaxInstant
  BY <1>1, AfterTheEpoch
<1>4. session # None => session \in StartTime..clock
  BY DEF IInv
<1>5. maxAge # None => maxAge \in Nat
  BY Durations DEF IInv, Option
<1> QED BY <1>1, <1>2, <1>3, <1>4, <1>5, Ticks

\* The claim for a session is less than a second before it, by the provider's clock.
LEMMA ClaimedTime ==
  ASSUME IInv, session # None
  PROVE  /\ SecondsAt(session) \in Int /\ Second * SecondsAt(session) \in Int
         /\ Second * SecondsAt(session) <= session + offset
         /\ session + offset < Second * SecondsAt(session) + Second
<1>1. session + offset \in Int /\ Second \in Nat \ {0}
  BY Numbers
<1>2. SecondsAt(session) \in Int
  BY <1>1, WholeSeconds DEF SecondsAt
<1>3. Second * SecondsAt(session) \in Int
  BY <1>1, <1>2
<1> QED BY <1>1, <1>2, <1>3, WholeSeconds DEF SecondsAt

LEMMA Sums ==
  ASSUME NEW t \in Int, NEW d \in Int
  PROVE  /\ CheckedAdd(t, d) = IF t + d > MaxInstant THEN None ELSE t + d
         /\ CheckedAdd(None, d) = None
         /\ CheckedAdd(t, d) # None <=> t + d <= MaxInstant
<1>1. t # None /\ t + d # None /\ t + d \in Int /\ MaxInstant \in Int
  BY NoOtherValue, LastInstant
<1> QED BY <1>1 DEF CheckedAdd

\* A comparison that overflows refuses nothing.
LEMMA TooOldMeans ==
  ASSUME IInv, NEW at \in Int, NEW age \in Nat, NEW skew \in Nat
  PROVE  TooOld(at, age, skew) <=> clock > at + age + skew
<1>1. clock \in Int /\ clock <= MaxInstant /\ MaxInstant \in Int
  BY Numbers
<1>2. CASE at + age > MaxInstant
  <2>1. CheckedAdd(at, age) = None
    BY <1>2, Sums
  <2>2. CheckedAdd(None, skew) = None
    BY DEF CheckedAdd
  <2>3. ~TooOld(at, age, skew)
    BY <2>1, <2>2 DEF TooOld
  <2> QED BY <1>1, <1>2, <2>3
<1>3. CASE at + age <= MaxInstant
  <2>1. PICK t \in Int : t = at + age
    OBVIOUS
  <2>2. CheckedAdd(at, age) = t
    BY <1>1, <1>3, <2>1, Sums
  <2>3. (CheckedAdd(t, skew) # None) => t + skew <= MaxInstant
    BY <1>1, <2>1, Sums
  <2>4. t + skew <= MaxInstant => CheckedAdd(t, skew) = t + skew /\ CheckedAdd(t, skew) # None
    BY <1>1, <2>1, Sums
  <2>5. TooOld(at, age, skew) <=> CheckedAdd(t, skew) # None /\ clock > CheckedAdd(t, skew)
    BY <2>2 DEF TooOld
  <2> QED BY <1>1, <1>3, <2>1, <2>3, <2>4, <2>5
<1> QED BY <1>1, <1>2, <1>3

LEMMA InFutureMeans ==
  ASSUME IInv, NEW at \in Int, NEW skew \in Nat, InFuture(at, skew)
  PROVE  at > clock + skew
<1>1. clock \in Int /\ MaxInstant \in Int
  BY Numbers
<1>2. CheckedAdd(clock, skew) # None /\ at > CheckedAdd(clock, skew)
  BY DEF InFuture
<1>3. clock + skew <= MaxInstant
  BY <1>1, <1>2, Sums
<1>4. CheckedAdd(clock, skew) = clock + skew
  BY <1>1, <1>3, Sums
<1> QED BY <1>2, <1>4

LEMMA ClaimInRange ==
  ASSUME IInv, session # None PROVE CheckedAdd(0, Second * SecondsAt(session)) # None
<1>1. /\ Second * SecondsAt(session) \in Int /\ Second * SecondsAt(session) <= session + offset
      /\ session \in Int /\ session <= clock /\ clock \in Int /\ offset \in Int
      /\ clock + offset <= MaxInstant /\ MaxInstant \in Int
  BY ClaimedTime, Numbers
<1>2. 0 + Second * SecondsAt(session) <= MaxInstant
  BY <1>1
<1> QED BY <1>1, <1>2, Sums

-----------------------------------------------------------------------------
(* What is refused.                                                        *)

LEMMA AtHashFault ==
  ASSUME NEW t, NEW ctx, AtHashError(t, ctx) # None, ctx.access # None, Digest(t.alg) # None
  PROVE  t.atHash # None /\ t.atHash # HashHalf(ctx.access, Digest(t.alg))
BY DEF AtHashError

\* A fault of a token of this client, for its own transaction and access token,
\* that is not a matter of time.
LEMMA FaultsAreLacks ==
  ASSUME IInv, token # None, NEW ctx, token.client = Me,
         ctx.nonce \in {None, token.tx}, ctx.access \in {None, token.access},
         Verdict(token, ctx) \notin {"expired", "too old", "auth_time in future"}
  PROVE  Verdict(token, ctx) = "accepted" \/ Lacking(ctx)
<1>1. Minted(token) /\ session # None
  BY DEF IInv
<1>2. ConsumerError(token, ctx) \in {"audience", "claims"} => Lacking(ctx)
  BY NoOtherValue DEF ConsumerError, Lacking, Faults
<1>3. AzpError(token, ctx) # None => Lacking(ctx)
  BY <1>1 DEF AzpError, ExpectedAzp, Lacking, Minted
<1>4. NonceError(token, ctx) # None => Lacking(ctx)
  BY <1>1 DEF NonceError, CtEquals, Lacking, Minted
<1>5. AtHashError(token, ctx) # None => Lacking(ctx)
  <2> SUFFICES ASSUME AtHashError(token, ctx) # None, ctx.access # None,
                      ctx.access = token.access, token.alg # "Ed448"
               PROVE  FALSE
    BY DEF AtHashError, Lacking
  <2>1. Digest(token.alg) = ProviderDigest(token.alg) /\ Digest(token.alg) # None
    BY <1>1, Digests DEF Minted
  <2>2. token.atHash # None /\ token.atHash # HashHalf(token.access, Digest(token.alg))
    BY <2>1, AtHashFault
  <2>3. token.atHash \in {None, HashHalf(token.access, ProviderDigest(token.alg))}
    BY <1>1 DEF Minted
  <2> QED BY <2>1, <2>2, <2>3
<1>6. ASSUME AuthTimeError(token, ctx) \in
               {"auth_time required", "auth_time malformed", "auth_time out of range"}
      PROVE  Lacking(ctx)
  <2>1. SecondsAt(session) \in Int /\ CheckedAdd(0, Second * SecondsAt(session)) # None
    BY <1>1, ClaimedTime, ClaimInRange
  <2>2. AuthTimeError(token, ctx) # None
    BY <1>6, NoOtherValue DEF Faults
  <2>3. ctx.maxAge # None
    BY <2>2 DEF AuthTimeError
  <2>4. CASE token.authTime = SecondsAt(session)
    <3>1. token.authTime # None /\ token.authTime # Malformed
          /\ CheckedAdd(0, Second * token.authTime) # None
      BY <2>1, <2>4, NoOtherValue
    <3>2. AuthTimeError(token, ctx) \in {None, "auth_time in future", "too old"}
      BY <2>3, <3>1 DEF AuthTimeError
    <3> QED BY <1>6, <2>2, <3>2
  <2> QED BY <2>3, <2>4 DEF Lacking
<1> QED BY <1>2, <1>3, <1>4, <1>5, <1>6, VerdictIs, Errors DEF Faults

-----------------------------------------------------------------------------
LEMMA InitIInv == Init => IInv
BY Ticks, NoOtherValue DEF Init, IInv, AcceptedTokenIsOurs, OwnTokenAccepted, Accepted

\* The properties of a verdict say nothing before there is one.
LEMMA NoVerdict == verdict = None => AcceptedTokenIsOurs /\ OwnTokenAccepted
BY NoOtherValue DEF AcceptedTokenIsOurs, OwnTokenAccepted, Accepted

\* A step that leaves token and verdict alone.
LEMMA EarlyStep ==
  ASSUME IInv, verdict = None, UNCHANGED <<verdict, offset, maxAge>>,
         clock' \in StartTime..MaxTime, clock <= clock',
         session' # None => session' \in StartTime..clock',
         token' # None => Minted(token)' /\ session' # None
  PROVE  IInv'
<1>1. AcceptedTokenIsOurs' /\ OwnTokenAccepted'
  <2>1. verdict' = None
    OBVIOUS
  <2> QED BY <2>1, NoOtherValue DEF AcceptedTokenIsOurs, OwnTokenAccepted, Accepted
<1> QED BY <1>1 DEF IInv

LEMMA MintIsMinted ==
  ASSUME Mint, IInv PROVE Minted(token)' /\ session # None
<1>1. session # None
  BY DEF Mint
<1>2. PICK client \in Client, tx \in Tx, access \in Access, alg \in Alg,
           aud \in Audiences, nonceToo, hashToo \in HasOptional, lacks \in Option(Lacks) :
        \E azp \in {client} \cup (IF Names(aud, client) THEN {None} ELSE {}),
           time \in {SecondsAt(session), None, Malformed} \cup OddTimes :
          /\ lacks # None => nonceToo /\ hashToo /\ time = SecondsAt(session)
          /\ token' =
            [client |-> client, tx |-> tx, access |-> access, alg |-> alg,
             aud |-> aud, azp |-> azp, lacks |-> lacks,
             nonce |-> IF nonceToo THEN tx ELSE None,
             atHash |-> IF hashToo THEN HashHalf(access, ProviderDigest(alg)) ELSE None,
             authTime |-> time, iat |-> SecondsAt(clock)]
  BY DEF Mint
<1>3. PICK azp \in {client} \cup (IF Names(aud, client) THEN {None} ELSE {}),
           time \in {SecondsAt(session), None, Malformed} \cup OddTimes :
        token' =
          [client |-> client, tx |-> tx, access |-> access, alg |-> alg,
           aud |-> aud, azp |-> azp, lacks |-> lacks,
           nonce |-> IF nonceToo THEN tx ELSE None,
           atHash |-> IF hashToo THEN HashHalf(access, ProviderDigest(alg)) ELSE None,
           authTime |-> time, iat |-> SecondsAt(clock)]
  BY <1>2
<1>4. azp \in {client, None} /\ (azp = None => Names(aud, client))
  BY <1>3, Clients
<1>5. /\ token'.client = client /\ token'.aud = aud /\ token'.azp = azp /\ token'.tx = tx
      /\ token'.nonce \in {tx, None} /\ token'.alg = alg /\ token'.access = access
      /\ token'.atHash \in {None, HashHalf(access, ProviderDigest(alg))}
  BY <1>3
<1> QED BY <1>1, <1>2, <1>4, <1>5 DEF Minted

\* The contexts of verify ask for what the transaction asked for.
LEMMA VerifyContext ==
  ASSUME Verify
  PROVE  \E ctx : /\ context' = ctx /\ verdict' = Verdict(token, ctx)
                 /\ ctx.maxAge = maxAge /\ ctx.skew \in Nat
<1>1. PICK tx \in Tx, access \in Access, skew \in Skews :
        \E ctx \in {Wired(tx, access)} \cup Custom(tx, access, skew) :
          context' = ctx /\ verdict' = Verdict(token, ctx)
  BY DEF Verify
<1>2. PICK ctx \in {Wired(tx, access)} \cup Custom(tx, access, skew) :
        context' = ctx /\ verdict' = Verdict(token, ctx)
  BY <1>1
<1>3. ctx.maxAge = maxAge /\ ctx.skew \in {0, skew}
  <2>1. CASE ctx = Wired(tx, access)
    BY <2>1 DEF Wired
  <2>2. CASE ctx \in Custom(tx, access, skew)
    <3>1. PICK n \in {tx, None}, a \in {access, None}, id \in Option(Overrides) :
            ctx = [nonce |-> n, access |-> a, skew |-> skew, maxAge |-> maxAge, clientId |-> id]
      BY <2>2 DEF Custom
    <3> QED BY <3>1
  <2> QED BY <1>2, <2>1, <2>2
<1> QED BY <1>2, <1>3, Durations

LEMMA VerifyIInv == ASSUME IInv, Verify PROVE IInv'
<1>1. PICK ctx : context' = ctx /\ verdict' = Verdict(token, ctx)
  BY VerifyContext
<1>2. token # None /\ UNCHANGED <<clock, offset, maxAge, session, token>>
  BY DEF Verify
<1>3. Minted(token)
  BY <1>2 DEF IInv
<1>4. AcceptedTokenIsOurs'
  BY <1>1, <1>2, <1>3, AcceptedIsOurs DEF AcceptedTokenIsOurs, Accepted
<1>5. OwnTokenAccepted'
  <2>1. Lacking(ctx) => Lacking(context)'
    BY <1>1, <1>2 DEF Lacking, SecondsAt
  <2> QED BY <1>1, <1>2, <2>1, FaultsAreLacks DEF OwnTokenAccepted, Accepted
<1> QED BY <1>2, <1>4, <1>5 DEF IInv

LEMMA NextIInv == IInv /\ [Next]_vars => IInv'
<1> SUFFICES ASSUME IInv, [Next]_vars PROVE IInv'
  OBVIOUS
<1>0. clock \in StartTime..MaxTime /\ StartTime \in Nat /\ MaxTime \in Nat
      /\ (session # None => session \in StartTime..clock)
      /\ (token # None => Minted(token) /\ session # None)
      /\ (token = None => verdict = None)
  BY Ticks DEF IInv
<1>1. CASE Tick
  <2>1. /\ verdict = None /\ clock' = clock + 1 /\ clock < MaxTime
        /\ UNCHANGED <<verdict, offset, maxAge, session, token>>
    BY <1>1 DEF Tick
  <2>2. clock' \in StartTime..MaxTime /\ clock <= clock'
        /\ (session' # None => session' \in StartTime..clock')
    BY <1>0, <2>1
  <2> QED BY <1>0, <2>1, <2>2, EarlyStep DEF Minted
<1>2. CASE Authenticates
  <2>1. /\ verdict = None /\ session' = clock /\ token' = None
        /\ UNCHANGED <<verdict, clock, offset, maxAge>>
    BY <1>0, <1>2 DEF Authenticates
  <2>2. clock' \in StartTime..MaxTime /\ clock <= clock' /\ session' \in StartTime..clock'
    BY <1>0, <2>1
  <2> QED BY <2>1, <2>2, EarlyStep
<1>3. CASE Begin \/ UNCHANGED vars
  <2>1. UNCHANGED <<clock, offset, maxAge, session, token, context, verdict>>
    BY <1>3 DEF Begin, vars
  <2> QED BY <2>1 DEF IInv, Minted, AcceptedTokenIsOurs, OwnTokenAccepted, Accepted, Lacking, SecondsAt
<1>4. CASE Mint
  <2>1. verdict = None /\ UNCHANGED <<verdict, clock, offset, maxAge, session>>
    BY <1>0, <1>4 DEF Mint
  <2>2. Minted(token)' /\ session # None
    BY <1>4, MintIsMinted
  <2>3. clock <= clock'
    BY <1>0, <2>1
  <2> QED BY <1>0, <2>1, <2>2, <2>3, EarlyStep
<1>5. CASE Verify
  BY <1>5, VerifyIInv
<1> QED BY <1>1, <1>2, <1>3, <1>4, <1>5 DEF Next

\* The inductive invariant: what the provider put in the token, and what the verdict
\* says of it (verify.rs).
THEOREM InvariantHolds == Spec => []IInv
BY InitIInv, NextIInv, PTL DEF Spec

\* An accepted token was issued to this client, for this transaction and access
\* token (verify.rs:237, 268, 334).
THEOREM AcceptedTokensAreOurs == Spec => []AcceptedTokenIsOurs
<1>1. IInv => AcceptedTokenIsOurs
  BY DEF IInv
<1> QED BY <1>1, InvariantHolds, PTL

\* A token of the transaction is refused only for a claim that is missing or a time
\* (client.rs:738).
THEOREM OwnTokensAreAccepted == Spec => []OwnTokenAccepted
<1>1. IInv => OwnTokenAccepted
  BY DEF IInv
<1> QED BY <1>1, InvariantHolds, PTL

-----------------------------------------------------------------------------
(* Freshness.                                                              *)

LEMMA Late ==
  ASSUME NEW now \in Int, NEW then \in Int, NEW off \in Int, NEW at \in Int, NEW sec \in Int,
         NEW age \in Nat, NEW skew \in Nat, now > at + age + skew, then + off < at + sec
  PROVE  now - then > age + skew + off - sec
OBVIOUS

LEMMA Ahead ==
  ASSUME NEW now \in Int, NEW then \in Int, NEW off \in Int, NEW at \in Int, NEW skew \in Nat,
         at > now + skew, at <= then + off, then <= now
  PROVE  off > skew
OBVIOUS

\* What the times of a verification say of real time.
LEMMA VerdictTimes ==
  ASSUME IInv, session # None, NEW t, NEW ctx, t.authTime = SecondsAt(session),
         ctx.maxAge = maxAge, ctx.skew \in Nat
  PROVE  /\ Verdict(t, ctx) = "accepted" /\ maxAge # None =>
              clock - session <= maxAge + ctx.skew + offset
         /\ Verdict(t, ctx) = "too old" =>
              clock - session > maxAge + ctx.skew + offset - Second
         /\ Verdict(t, ctx) = "auth_time in future" => offset > ctx.skew
         /\ Verdict(t, ctx) # "auth_time out of range"
<1>1. /\ clock \in Int /\ offset \in Int /\ session \in Int /\ session <= clock
      /\ Second \in Int /\ (maxAge # None => maxAge \in Nat)
  BY Numbers
<1>2. PICK at \in Int : at = Second * SecondsAt(session)
  BY ClaimedTime
<1>3. at <= session + offset /\ session + offset < at + Second
  BY <1>2, ClaimedTime
<1>4. PICK skew \in Nat : skew = ctx.skew
  OBVIOUS
<1>5. t.authTime # None /\ t.authTime # Malformed /\ CheckedAdd(0, Second * t.authTime) # None
  BY ClaimedTime, ClaimInRange, NoOtherValue
<1>6. maxAge # None =>
        AuthTimeError(t, ctx) =
          IF InFuture(at, skew) THEN "auth_time in future"
          ELSE IF TooOld(at, maxAge, skew) THEN "too old" ELSE None
  BY <1>2, <1>4, <1>5 DEF AuthTimeError
<1>7. maxAge = None => AuthTimeError(t, ctx) = None
  BY DEF AuthTimeError
<1>8. /\ maxAge # None => (TooOld(at, maxAge, skew) <=> clock > at + maxAge + skew)
      /\ InFuture(at, skew) => at > clock + skew
  BY <1>1, TooOldMeans, InFutureMeans
<1>9. /\ Verdict(t, ctx) = "accepted" => AuthTimeError(t, ctx) = None
      /\ Verdict(t, ctx) \in {"too old", "auth_time in future", "auth_time out of range"} =>
           AuthTimeError(t, ctx) = Verdict(t, ctx)
  BY VerdictIs, Errors, NoError DEF Faults
<1>10. Verdict(t, ctx) = "accepted" /\ maxAge # None => clock - session <= maxAge + ctx.skew + offset
  <2> SUFFICES ASSUME Verdict(t, ctx) = "accepted", maxAge # None
               PROVE  clock - session <= maxAge + skew + offset
    BY <1>4
  <2>1. ~TooOld(at, maxAge, skew)
    BY <1>6, <1>9, NoOtherValue DEF Faults
  <2>2. ~(clock > at + maxAge + skew) /\ maxAge \in Nat
    BY <1>1, <1>8, <2>1
  <2> QED BY <1>1, <1>3, <2>2
<1>11. Verdict(t, ctx) = "too old" => clock - session > maxAge + ctx.skew + offset - Second
  <2> SUFFICES ASSUME Verdict(t, ctx) = "too old"
               PROVE  clock - session > maxAge + skew + offset - Second
    BY <1>4
  <2>1. AuthTimeError(t, ctx) = "too old"
    BY <1>9
  <2>2. maxAge # None /\ TooOld(at, maxAge, skew)
    BY <1>6, <1>7, <2>1, NoOtherValue DEF Faults
  <2>3. clock > at + maxAge + skew /\ maxAge \in Nat
    BY <1>1, <1>8, <2>2
  <2> QED BY <1>1, <1>3, <2>3, Late
<1>12. Verdict(t, ctx) = "auth_time in future" => offset > ctx.skew
  <2> SUFFICES ASSUME Verdict(t, ctx) = "auth_time in future" PROVE offset > skew
    BY <1>4
  <2>1. AuthTimeError(t, ctx) = "auth_time in future"
    BY <1>9
  <2>2. maxAge # None /\ InFuture(at, skew)
    BY <1>6, <1>7, <2>1, NoOtherValue DEF Faults
  <2>3. at > clock + skew
    BY <1>8, <2>2
  <2> QED BY <1>1, <1>3, <2>3, Ahead
<1>13. Verdict(t, ctx) # "auth_time out of range"
  BY <1>6, <1>7, <1>9, NoOtherValue DEF Faults
<1> QED BY <1>10, <1>11, <1>12, <1>13

LEMMA VerdictStep ==
  ASSUME IInv, Next, verdict = None, verdict' # None
  PROVE  /\ session # None
         /\ \E ctx : /\ context' = ctx /\ verdict' = Verdict(token, ctx)
                    /\ ctx.maxAge = maxAge /\ ctx.skew \in Nat
<1>1. Verify
  BY DEF Next, Tick, Authenticates, Begin, Mint
<1> QED BY <1>1, VerifyContext DEF Verify, IInv

\* An accepted authentication is as recent as was asked for, in real time
\* (verify.rs:303).
THEOREM AuthenticationIsFresh == Spec => AuthenticationFresh
<1> DEFINE Step ==
  (/\ verdict' = "accepted" /\ verdict = None /\ maxAge # None
   /\ token.authTime = SecondsAt(session)) =>
  clock - session <= maxAge + context'.skew + offset
<1>1. ASSUME IInv, Next, verdict' = "accepted", verdict = None, maxAge # None,
             token.authTime = SecondsAt(session)
      PROVE  clock - session <= maxAge + context'.skew + offset
  <2>1. verdict' # None
    BY <1>1, NoOtherValue
  <2>2. session # None
    BY <1>1, <2>1, VerdictStep
  <2>3. PICK ctx : /\ context' = ctx /\ verdict' = Verdict(token, ctx)
                   /\ ctx.maxAge = maxAge /\ ctx.skew \in Nat
    BY <1>1, <2>1, VerdictStep
  <2>4. Verdict(token, ctx) = "accepted" /\ maxAge # None =>
          clock - session <= maxAge + ctx.skew + offset
    BY <1>1, <2>2, <2>3, VerdictTimes
  <2> QED BY <1>1, <2>3, <2>4
<1>2. IInv /\ [Next]_vars => [Step]_vars
  BY <1>1
<1> QED BY <1>2, InvariantHolds, PTL DEF Spec, AuthenticationFresh

\* The times refuse nothing that is right, whatever overflows (verify.rs:303).
THEOREM RightTimesPass == Spec => TimesRefuseOnlyWhatIsWrong
<1> DEFINE Step ==
  (verdict = None /\ verdict' # None /\ token.authTime = SecondsAt(session)) =>
    /\ verdict' = "too old" =>
         clock - session > maxAge + context'.skew + offset - Second
    /\ verdict' = "auth_time in future" => offset > context'.skew
    /\ verdict' # "auth_time out of range"
<1>1. ASSUME IInv, Next, verdict = None, verdict' # None, token.authTime = SecondsAt(session)
      PROVE  /\ verdict' = "too old" =>
                  clock - session > maxAge + context'.skew + offset - Second
             /\ verdict' = "auth_time in future" => offset > context'.skew
             /\ verdict' # "auth_time out of range"
  <2>1. session # None
    BY <1>1, VerdictStep
  <2>2. PICK ctx : /\ context' = ctx /\ verdict' = Verdict(token, ctx)
                   /\ ctx.maxAge = maxAge /\ ctx.skew \in Nat
    BY <1>1, VerdictStep
  <2>3. /\ Verdict(token, ctx) = "too old" =>
             clock - session > maxAge + ctx.skew + offset - Second
        /\ Verdict(token, ctx) = "auth_time in future" => offset > ctx.skew
        /\ Verdict(token, ctx) # "auth_time out of range"
    BY <1>1, <2>1, <2>2, VerdictTimes
  <2> QED BY <2>2, <2>3
<1>2. IInv /\ [Next]_vars => [Step]_vars
  BY <1>1
<1> QED BY <1>2, InvariantHolds, PTL DEF Spec, TimesRefuseOnlyWhatIsWrong
=============================================================================
