---------------------------- MODULE RequestProofs ----------------------------
(***************************************************************************)
(* TokenRequest and Logout for any number of logins and logouts, any        *)
(* documents and any settings.                                              *)
(***************************************************************************)
EXTENDS TokenRequest, Logout, TLAPS

-----------------------------------------------------------------------------
(* Parameters of a query.                                                  *)

\* A query is a sequence, of whatever parameters.
IsQuery(q) == \E S : q \in Seq(S)

\* The parameters of a name are none, or one, and have these values.
Has(q, name, values) ==
  /\ IsQuery(q) /\ Values(q, name) = values
  /\ \A i, j \in Count(q, name) : i = j

LEMMA QueryFacts ==
  ASSUME NEW q, IsQuery(q)
  PROVE  Len(q) \in Nat /\ DOMAIN q = 1..Len(q)
BY DEF IsQuery

LEMMA Concatenation ==
  ASSUME NEW a, NEW b, IsQuery(a), IsQuery(b)
  PROVE  /\ IsQuery(a \o b)
         /\ DOMAIN (a \o b) = 1..(Len(a) + Len(b))
         /\ \A i \in DOMAIN a : (a \o b)[i] = a[i]
         /\ \A i \in DOMAIN b : (a \o b)[Len(a) + i] = b[i]
         /\ \A k \in DOMAIN (a \o b) : k \in DOMAIN a \/ (k - Len(a) \in DOMAIN b)
<1>1. PICK S, T : a \in Seq(S) /\ b \in Seq(T)
  BY DEF IsQuery
<1>2. a \in Seq(S \cup T) /\ b \in Seq(S \cup T)
  BY <1>1
<1>3. a \o b \in Seq(S \cup T)
  BY <1>2
<1>4. IsQuery(a \o b)
  BY <1>3 DEF IsQuery
<1>5. Len(a) \in Nat /\ Len(b) \in Nat /\ DOMAIN a = 1..Len(a) /\ DOMAIN b = 1..Len(b)
  BY <1>2
<1>6. DOMAIN (a \o b) = 1..(Len(a) + Len(b))
  BY <1>2, <1>3
<1>7. \A i \in DOMAIN a : (a \o b)[i] = a[i]
  BY <1>2, <1>5
<1>8. \A i \in DOMAIN b : (a \o b)[Len(a) + i] = b[i]
  BY <1>2, <1>5
<1> QED
  BY <1>4, <1>5, <1>6, <1>7, <1>8

\* The values in a query and in what follows it.
LEMMA ValuesOf ==
  ASSUME NEW a, NEW b, NEW name, IsQuery(a), IsQuery(b)
  PROVE  /\ Values(a \o b, name) = Values(a, name) \cup Values(b, name)
         /\ Count(a \o b, name) = Count(a, name) \cup {Len(a) + i : i \in Count(b, name)}
<1>1. /\ Len(a) \in Nat /\ DOMAIN a = 1..Len(a) /\ Len(b) \in Nat /\ DOMAIN b = 1..Len(b)
      /\ DOMAIN (a \o b) = 1..(Len(a) + Len(b))
      /\ \A i \in DOMAIN a : (a \o b)[i] = a[i]
      /\ \A i \in DOMAIN b : (a \o b)[Len(a) + i] = b[i]
      /\ \A k \in DOMAIN (a \o b) : k \in DOMAIN a \/ (k - Len(a) \in DOMAIN b)
  BY QueryFacts, Concatenation
<1>2. Count(a \o b, name) = Count(a, name) \cup {Len(a) + i : i \in Count(b, name)}
  <2>1. ASSUME NEW k \in Count(a \o b, name)
        PROVE  k \in Count(a, name) \cup {Len(a) + i : i \in Count(b, name)}
    <3>1. k \in DOMAIN (a \o b) /\ (a \o b)[k].name = name
      BY DEF Count
    <3>2. CASE k \in DOMAIN a
      BY <1>1, <3>1, <3>2 DEF Count
    <3>3. CASE k - Len(a) \in DOMAIN b
      <4>1. k = Len(a) + (k - Len(a))
        BY <1>1, <3>1
      <4>2. k - Len(a) \in Count(b, name)
        BY <1>1, <3>1, <3>3, <4>1 DEF Count
      <4> QED
        BY <4>1, <4>2
    <3> QED
      BY <1>1, <3>1, <3>2, <3>3
  <2>2. ASSUME NEW k \in Count(a, name) PROVE k \in Count(a \o b, name)
    BY <1>1 DEF Count
  <2>3. ASSUME NEW i \in Count(b, name) PROVE Len(a) + i \in Count(a \o b, name)
    BY <1>1 DEF Count
  <2> QED
    BY <2>1, <2>2, <2>3
<1>3. \A q : Values(q, name) = {q[i].value : i \in Count(q, name)}
  BY DEF Values, Count
<1>4. Values(a \o b, name) = Values(a, name) \cup Values(b, name)
  <2>1. \A i \in Count(a, name) : (a \o b)[i] = a[i]
    BY <1>1 DEF Count
  <2>2. \A i \in Count(b, name) : (a \o b)[Len(a) + i] = b[i]
    BY <1>1 DEF Count
  <2>3. ASSUME NEW v PROVE v \in Values(a \o b, name) <=> v \in Values(a, name) \cup Values(b, name)
    <3>1. v \in Values(a \o b, name) <=> \E k \in Count(a \o b, name) : v = (a \o b)[k].value
      BY <1>3
    <3>2. v \in Values(a, name) <=> \E i \in Count(a, name) : v = a[i].value
      BY <1>3
    <3>3. v \in Values(b, name) <=> \E i \in Count(b, name) : v = b[i].value
      BY <1>3
    <3> QED
      BY <1>2, <2>1, <2>2, <3>1, <3>2, <3>3
  <2> QED
    BY <2>3
<1> QED
  BY <1>2, <1>4

\* Where one part has none of a name, the whole has what the other part has.
LEMMA HasConcatenated ==
  ASSUME NEW a, NEW b, NEW name, NEW V, NEW W, Has(a, name, V), Has(b, name, W), V = {} \/ W = {}
  PROVE  Has(a \o b, name, V \cup W)
<1>1. IsQuery(a) /\ IsQuery(b) /\ IsQuery(a \o b) /\ Len(a) \in Nat /\ DOMAIN b = 1..Len(b)
  BY Concatenation, QueryFacts DEF Has
<1>2. /\ Values(a \o b, name) = Values(a, name) \cup Values(b, name)
      /\ Count(a \o b, name) = Count(a, name) \cup {Len(a) + i : i \in Count(b, name)}
  BY <1>1, ValuesOf
<1>3. \A q : Values(q, name) = {} => Count(q, name) = {}
  BY DEF Values, Count
<1>4. ASSUME NEW i \in Count(a \o b, name), NEW j \in Count(a \o b, name) PROVE i = j
  <2>1. CASE V = {}
    <3>1. Count(a, name) = {}
      BY <1>3, <2>1 DEF Has
    <3>2. PICK k \in Count(b, name), m \in Count(b, name) : i = Len(a) + k /\ j = Len(a) + m
      BY <1>2, <1>4, <3>1
    <3> QED
      BY <3>2 DEF Has
  <2>2. CASE W = {}
    <3>1. Count(b, name) = {}
      BY <1>3, <2>2 DEF Has
    <3> QED
      BY <1>2, <1>4, <3>1 DEF Has
  <2> QED
    BY <2>1, <2>2
<1> QED
  BY <1>1, <1>2, <1>4 DEF Has

LEMMA HasSingle ==
  ASSUME NEW n, NEW value, NEW name
  PROVE  Has(P(n, value), name, IF name = n THEN {value} ELSE {})
<1>1. P(n, value) \in Seq({[name |-> n, value |-> value]})
  BY DEF P
<1>2. DOMAIN P(n, value) = {1} /\ P(n, value)[1] = [name |-> n, value |-> value]
  BY DEF P
<1> QED
  BY <1>1, <1>2 DEF IsQuery, Has, Count, Values

LEMMA HasEmpty == ASSUME NEW name PROVE Has(<<>>, name, {})
BY DEF IsQuery, Has, Count, Values

\* A parameter that is there under a condition.
LEMMA HasIf ==
  ASSUME NEW c, NEW n, NEW value, NEW name
  PROVE  Has(IF c THEN P(n, value) ELSE <<>>, name, IF c /\ name = n THEN {value} ELSE {})
<1>1. CASE c
  BY <1>1, HasSingle
<1>2. CASE ~c
  BY <1>2, HasEmpty
<1> QED
  BY <1>1, <1>2

\* One more parameter, maybe under a condition, of a name that is new.
LEMMA HasAppended ==
  ASSUME NEW a, NEW name, NEW V, Has(a, name, V), NEW n, NEW value, NEW c \in BOOLEAN,
         V = {} \/ name # n
  PROVE  /\ Has(a \o P(n, value), name, IF name = n THEN {value} ELSE V)
         /\ Has(a \o (IF c THEN P(n, value) ELSE <<>>), name,
                IF c /\ name = n THEN {value} ELSE V)
<1>1. ASSUME NEW b, NEW W, Has(b, name, W), V = {} \/ W = {} PROVE Has(a \o b, name, V \cup W)
  BY <1>1, HasConcatenated
<1>2. /\ Has(P(n, value), name, IF name = n THEN {value} ELSE {})
      /\ Has(IF c THEN P(n, value) ELSE <<>>, name, IF c /\ name = n THEN {value} ELSE {})
  BY HasSingle, HasIf
<1>3. Has(a \o P(n, value), name, V \cup (IF name = n THEN {value} ELSE {}))
  BY <1>1, <1>2
<1>4. Has(a \o (IF c THEN P(n, value) ELSE <<>>), name,
          V \cup (IF c /\ name = n THEN {value} ELSE {}))
  BY <1>1, <1>2
<1>5. /\ V \cup (IF name = n THEN {value} ELSE {}) = IF name = n THEN {value} ELSE V
      /\ V \cup (IF c /\ name = n THEN {value} ELSE {}) = IF c /\ name = n THEN {value} ELSE V
  OBVIOUS
<1> QED
  BY <1>3, <1>4, <1>5

-----------------------------------------------------------------------------
(* The URL and the pending request.                                        *)

\* The parameters that the pending request speaks of.
Stored == {"state", "nonce", "redirect_uri", "scope", "code_challenge", "max_age"}

\* What builder or pending request r says of them.
Stated(r, name) ==
  CASE name = "state" -> {r.state}
    [] name = "nonce" -> {r.nonce}
    [] name = "redirect_uri" -> {r.redirect}
    [] name = "scope" -> {r.scopes}
    [] name = "code_challenge" -> IF r.verifier = None THEN {} ELSE {Hash(r.verifier)}
    [] name = "max_age" -> IF r.maxAge = None THEN {} ELSE {AsSecs(r.maxAge)}

UrlOK(r) == \A name \in Stored \ OwnNames : Has(r.url, name, Stated(r, name))

\* The URL of a builder has those of these parameters that new appends.
BaseOK(b) ==
  \A name \in Stored \ OwnNames :
    Has(b.url, name, IF name \in {"redirect_uri", "scope"} THEN Stated(b, name) ELSE {})

BuilderOK(b) ==
  /\ b = [url |-> b.url, state |-> b.state, nonce |-> b.nonce, verifier |-> b.verifier,
          challenge |-> b.challenge, options |-> b.options, maxAge |-> b.maxAge,
          extra |-> b.extra, redirect |-> b.redirect, scopes |-> b.scopes]
  /\ b.verifier \in Option(1..MaxDraws)
  /\ b.challenge = IF b.verifier = None THEN None ELSE Hash(b.verifier)
  /\ b.maxAge \in Option(MaxAges)
  /\ b.extra \in Seq(Extras)
  /\ BaseOK(b)

\* What new puts into the URL.
LEMMA NewUrl ==
  ASSUME NEW v \in Version, NEW redirect, NEW scopes, NEW name \in Stored \ OwnNames
  PROVE  Has(Document[v].query \o P("response_type", "code") \o P("client_id", "id")
               \o P("redirect_uri", redirect) \o P("scope", scopes),
             name, IF name = "redirect_uri" THEN {redirect}
                   ELSE IF name = "scope" THEN {scopes} ELSE {})
<1> DEFINE q == Document[v].query
           a == q \o P("response_type", "code")
           b == a \o P("client_id", "id")
           c == b \o P("redirect_uri", redirect)
           d == c \o P("scope", scopes)
<1>0. Has(q, name, {})
  <2>1. IsQuery(q)
    BY QueriesAreQueries DEF IsQuery, Version
  <2>2. \A i \in DOMAIN q : q[i].name # name
    BY DEF OwnNames
  <2> QED
    BY <2>1, <2>2 DEF Has, Count, Values
<1> HIDE DEF q
<1>1. Has(a, name, {})
  BY <1>0, HasAppended DEF Stored
<1> HIDE DEF a
<1>2. Has(b, name, {})
  BY <1>1, HasAppended DEF Stored
<1> HIDE DEF b
<1>3. Has(c, name, IF name = "redirect_uri" THEN {redirect} ELSE {})
  BY <1>2, HasAppended
<1> HIDE DEF c
<1>4. Has(d, name, IF name = "redirect_uri" THEN {redirect}
                   ELSE IF name = "scope" THEN {scopes} ELSE {})
  <2>1. Has(d, name, IF name = "scope" THEN {scopes}
                     ELSE IF name = "redirect_uri" THEN {redirect} ELSE {})
    BY <1>3, HasAppended
  <2> QED
    BY <2>1
<1> QED
  BY <1>4 DEF d, c, b, a, q

\* What build appends: the parameters of the pending request, each once.
LEMMA AddedHas ==
  ASSUME NEW b, BuilderOK(b), NEW name \in Stored \ OwnNames
  PROVE  Has(Added(b), name, IF name \in {"redirect_uri", "scope"} THEN {} ELSE Stated(b, name))
<1> DEFINE p2 == P("state", b.state) \o P("nonce", b.nonce)
           cc == IF b.challenge = None THEN <<>>
                 ELSE P("code_challenge", b.challenge) \o P("code_challenge_method", "S256")
           p3 == p2 \o cc
           p4 == p3 \o (IF "response_mode" \in b.options THEN P("response_mode", "set") ELSE <<>>)
           p5 == p4 \o (IF "prompt" \in b.options THEN P("prompt", "set") ELSE <<>>)
           age == IF b.maxAge = None THEN <<>> ELSE P("max_age", AsSecs(b.maxAge))
           p6 == p5 \o age
           p7 == p6 \o (IF "id_token_hint" \in b.options THEN P("id_token_hint", "set") ELSE <<>>)
           p8 == p7 \o b.extra
           V(names) == IF name \in names THEN Stated(b, name) ELSE {}
           U == V({"state", "nonce", "code_challenge"})
           W == V({"state", "nonce", "code_challenge", "max_age"})
<1>1. Has(p2, name, V({"state", "nonce"}))
  <2>1. Has(P("state", b.state), name, IF name = "state" THEN {b.state} ELSE {})
    BY HasSingle
  <2>2. Has(p2, name, IF name = "nonce" THEN {b.nonce} ELSE IF name = "state" THEN {b.state} ELSE {})
    BY <2>1, HasAppended
  <2>3. V({"state", "nonce"}) = IF name = "nonce" THEN {b.nonce} ELSE IF name = "state" THEN {b.state} ELSE {}
    BY DEF Stated
  <2> QED
    BY <2>2, <2>3
<1>2. Has(cc, name, V({"code_challenge"}))
  <2>1. CASE b.challenge = None
    <3>1. b.verifier = None \/ name # "code_challenge"
      <4>1. b.verifier # None => b.challenge = [s256 |-> b.verifier] /\ b.verifier \in 0..MaxDraws
        BY Bounds DEF BuilderOK, Hash, Option
      <4> QED
        BY <2>1, <4>1, NoneIsAbsent
    <3>2. V({"code_challenge"}) = {}
      BY <3>1 DEF Stated
    <3> QED
      BY <2>1, <3>2, HasEmpty
  <2>2. CASE b.challenge # None
    <3>1. b.verifier # None /\ b.challenge = Hash(b.verifier)
      BY <2>2 DEF BuilderOK
    <3>2. Has(P("code_challenge", b.challenge), name,
              IF name = "code_challenge" THEN {b.challenge} ELSE {})
      BY HasSingle
    <3>3. Has(cc, name, IF name = "code_challenge_method" THEN {"S256"}
                        ELSE IF name = "code_challenge" THEN {b.challenge} ELSE {})
      <4> DEFINE p == P("code_challenge", b.challenge)
                 q == p \o P("code_challenge_method", "S256")
      <4>1. cc = q
        BY <2>2
      <4> HIDE DEF cc, p
      <4>2. Has(p, name, IF name = "code_challenge" THEN {b.challenge} ELSE {})
        BY <3>2 DEF p
      <4>3. Has(q, name, IF name = "code_challenge_method" THEN {"S256"}
                         ELSE IF name = "code_challenge" THEN {b.challenge} ELSE {})
        BY <4>2, HasAppended
      <4> QED
        BY <4>1, <4>3
    <3> QED
      BY <3>1, <3>3 DEF Stored, Stated
  <2> QED
    BY <2>1, <2>2
<1> HIDE DEF p2, cc
<1>3. Has(p3, name, U)
  <2>1. V({"state", "nonce"}) = {} \/ V({"code_challenge"}) = {}
    OBVIOUS
  <2>2. Has(p3, name, V({"state", "nonce"}) \cup V({"code_challenge"}))
    <3> HIDE DEF V
    <3> QED BY <1>1, <1>2, <2>1, HasConcatenated
  <2>3. V({"state", "nonce"}) \cup V({"code_challenge"}) = U
    OBVIOUS
  <2> QED
    BY <2>2, <2>3
<1> HIDE DEF p3, V, U, W
<1>4. Has(p4, name, U)
  BY <1>3, HasAppended DEF Stored
<1> HIDE DEF p4
<1>5. Has(p5, name, U)
  BY <1>4, HasAppended DEF Stored
<1> HIDE DEF p5
<1>6. Has(age, name, V({"max_age"}))
  <2>1. V({"max_age"}) = IF b.maxAge # None /\ name = "max_age" THEN {AsSecs(b.maxAge)} ELSE {}
    BY DEF V, Stated
  <2>2. age = IF b.maxAge # None THEN P("max_age", AsSecs(b.maxAge)) ELSE <<>>
    OBVIOUS
  <2> HIDE DEF age
  <2> QED
    BY <2>1, <2>2, HasIf
<1> HIDE DEF age
<1>7. Has(p6, name, W)
  <2>1. U = {} \/ V({"max_age"}) = {}
    BY DEF U, V
  <2>2. Has(p6, name, U \cup V({"max_age"}))
    BY <1>5, <1>6, <2>1, HasConcatenated
  <2>3. U \cup V({"max_age"}) = W
    BY DEF U, V, W
  <2> QED
    BY <2>2, <2>3
<1> HIDE DEF p6
<1>8. Has(p7, name, W)
  BY <1>7, HasAppended DEF Stored
<1> HIDE DEF p7
<1>9. Has(b.extra, name, {})
  <2>1. b.extra \in Seq(Extras)
    BY DEF BuilderOK
  <2>2. \A i \in DOMAIN b.extra : b.extra[i].name # name
    BY <2>1 DEF OwnNames
  <2> QED
    BY <2>1, <2>2 DEF Has, Count, Values, IsQuery
<1>10. Has(p8, name, W)
  BY <1>8, <1>9, HasConcatenated
<1>11. W = IF name \in {"redirect_uri", "scope"} THEN {} ELSE Stated(b, name)
  BY DEF W, V, Stored
<1>12. Added(b) = p8
  BY DEF Added, p2, cc, p3, p4, p5, age, p6, p7
<1> QED
  BY <1>10, <1>11, <1>12

\* The URL says what the pending request says.
LEMMA BuildUrl == ASSUME NEW b, BuilderOK(b) PROVE UrlOK(RequestState(b))
<1> SUFFICES ASSUME NEW name \in Stored \ OwnNames
             PROVE  Has(RequestState(b).url, name, Stated(RequestState(b), name))
  BY DEF UrlOK
<1> DEFINE V == IF name \in {"redirect_uri", "scope"} THEN Stated(b, name) ELSE {}
           W == IF name \in {"redirect_uri", "scope"} THEN {} ELSE Stated(b, name)
<1>1. Has(b.url, name, V) /\ Has(Added(b), name, W)
  BY AddedHas DEF BuilderOK, BaseOK
<1>2. /\ V = {} \/ W = {}
      /\ V \cup W = Stated(b, name)
  OBVIOUS
<1> HIDE DEF V, W
<1>3. Has(b.url \o Added(b), name, Stated(b, name))
  <2>1. Has(b.url \o Added(b), name, V \cup W)
    BY <1>1, <1>2, HasConcatenated
  <2> QED
    BY <1>2, <2>1
<1>4. /\ RequestState(b).url = b.url \o Added(b)
      /\ Stated(RequestState(b), name) = Stated(b, name)
  BY DEF RequestState, Stated
<1> QED
  BY <1>3, <1>4

-----------------------------------------------------------------------------
(* The invariant of the requests.                                          *)

\* The random strings of a builder or a pending request.
Random(r) == {r.state, r.nonce, r.verifier} \ {None}

SecretsOK(t, r) ==
  /\ r.state \in 1..drawn /\ r.nonce \in 1..drawn /\ r.verifier \in Option(1..drawn)
  /\ r.verifier \notin {r.state, r.nonce}
  /\ HasSecret(t) \/ r.verifier # None
  /\ r.redirect \in Redirect

\* Those of a transaction.
Held(t) ==
  (IF builder[t] = None THEN {} ELSE Random(builder[t]))
    \cup (IF request[t] = None THEN {} ELSE Random(request[t]))

RequestsOK ==
  /\ known \in Version /\ drawn \in 0..MaxDraws
  /\ builder = [t \in Tx |-> builder[t]] /\ request = [t \in Tx |-> request[t]]
  /\ \A t \in Tx : builder[t] # None => SecretsOK(t, builder[t]) /\ BuilderOK(builder[t])
  /\ \A t \in Tx : request[t] # None =>
       /\ SecretsOK(t, request[t]) /\ UrlOK(request[t])
       /\ request[t].maxAge \in Option(MaxAges)
  /\ \A t, u \in Tx : t # u => Held(t) \cap Held(u) = {}

LEMMA RequestInitOK == RequestInit => RequestsOK
BY Bounds DEF RequestInit, RequestsOK, Version, Held

\* What a transaction holds was drawn.
LEMMA HeldDrawn == ASSUME RequestsOK, NEW t \in Tx PROVE Held(t) \subseteq 1..drawn
BY DEF RequestsOK, Held, Random, SecretsOK, Option

LEMMA SecretsKept ==
  ASSUME drawn \in Nat, drawn' \in Nat, drawn' >= drawn, NEW t, NEW r, SecretsOK(t, r)
  PROVE  SecretsOK(t, r)'
<1>1. 1..drawn \subseteq 1..drawn'
  OBVIOUS
<1> QED
  BY <1>1 DEF SecretsOK, Option, HasSecret

\* Draws that go elsewhere, as to a logout, do no harm.
LEMMA DrawsElsewhere ==
  ASSUME RequestsOK, drawn' \in 0..MaxDraws, drawn' >= drawn, UNCHANGED <<known, builder, request>>
  PROVE  RequestsOK'
<1>1. drawn \in Nat /\ drawn' \in Nat
  BY DEF RequestsOK
<1>2. \A t, r : SecretsOK(t, r) => SecretsOK(t, r)'
  BY <1>1, SecretsKept
<1> QED
  BY <1>2 DEF RequestsOK, Held

\* What a transaction comes to hold is drawn by the step.
OnlyDrawn ==
  /\ drawn' >= drawn
  /\ \A u \in Tx : Held(u)' \subseteq Held(u) \cup ((drawn + 1)..drawn')

\* A builder that is made or changed, with what it had or has drawn.
LEMMA BuilderChanges ==
  ASSUME RequestsOK, NEW t \in Tx, NEW b,
         builder' = [builder EXCEPT ![t] = b], request' = request, known' = known,
         drawn' \in 0..MaxDraws, drawn' >= drawn,
         b # None => SecretsOK(t, b)' /\ BuilderOK(b) /\ Random(b) \subseteq Held(t) \cup ((drawn + 1)..drawn')
  PROVE  RequestsOK' /\ OnlyDrawn
<1>1. drawn \in Nat /\ drawn' \in Nat
  BY DEF RequestsOK
<1>2. \A u, r : SecretsOK(u, r) => SecretsOK(u, r)'
  BY <1>1, SecretsKept
<1>3. builder'[t] = b /\ \A u \in Tx \ {t} : builder'[u] = builder[u]
  BY DEF RequestsOK
<1>4. /\ Held(t)' \subseteq Held(t) \cup ((drawn + 1)..drawn')
      /\ \A u \in Tx \ {t} : Held(u)' = Held(u)
  BY <1>3 DEF Held
<1>5. \A u \in Tx : Held(u) \cap ((drawn + 1)..drawn') = {}
  BY <1>1, HeldDrawn
<1>6. \A u, w \in Tx : u # w => Held(u)' \cap Held(w)' = {}
  BY <1>4, <1>5 DEF RequestsOK
<1>7. builder' = [u \in Tx |-> builder'[u]]
  BY DEF RequestsOK
<1>8. ASSUME NEW u \in Tx, builder'[u] # None
      PROVE  SecretsOK(u, builder[u])' /\ BuilderOK(builder[u])'
  <2>1. BuilderOK(builder[u])' <=> BuilderOK(builder'[u])
    BY DEF BuilderOK, BaseOK, Stated
  <2>2. CASE u = t
    BY <1>3, <1>8, <2>1, <2>2 DEF SecretsOK, HasSecret
  <2>3. CASE u # t
    BY <1>2, <1>3, <1>8, <2>1, <2>3 DEF RequestsOK, SecretsOK, HasSecret
  <2> QED
    BY <2>2, <2>3
<1>9. OnlyDrawn
  BY <1>4 DEF OnlyDrawn
<1>10. RequestsOK'
  BY <1>2, <1>6, <1>7, <1>8 DEF RequestsOK
<1> QED
  BY <1>9, <1>10

LEMMA NewKeeps ==
  ASSUME RequestsOK, NEW t \in Tx, NEW redirect \in Redirect, NEW scopes, New(t, redirect, scopes)
  PROVE  RequestsOK' /\ OnlyDrawn
<1>0. PICK b : b =
                [url |-> Document[known].query \o P("response_type", "code") \o P("client_id", "id")
                           \o P("redirect_uri", redirect) \o P("scope", scopes),
                 state |-> Rand(1), nonce |-> Rand(2),
                 verifier |-> IF DrawsVerifier(t) THEN Rand(3) ELSE None,
                 challenge |-> IF DrawsVerifier(t) THEN Hash(Rand(3)) ELSE None,
                 options |-> {}, maxAge |-> None, extra |-> <<>>,
                 redirect |-> redirect, scopes |-> scopes]
  OBVIOUS
<1>1. /\ builder' = [builder EXCEPT ![t] = b] /\ UNCHANGED <<known, request>>
      /\ drawn' = drawn + (IF DrawsVerifier(t) THEN 3 ELSE 2) /\ drawn' <= MaxDraws
  BY <1>0 DEF New, Draws
<1>2. drawn \in Nat /\ MaxDraws \in Nat /\ known \in Version
  BY Bounds DEF RequestsOK
<1>3. drawn' \in 0..MaxDraws /\ drawn' >= drawn /\ drawn' \in Nat
  BY <1>1, <1>2
<1>4. SecretsOK(t, b)'
  <2>1. /\ drawn + 1 \in 1..drawn' /\ drawn + 2 \in 1..drawn'
        /\ DrawsVerifier(t) => drawn + 3 \in 1..drawn'
    BY <1>1, <1>2
  <2>2. ~DrawsVerifier(t) => HasSecret(t)
    BY DEF DrawsVerifier
  <2>3. \A n \in Nat : n # None
    BY NoneIsAbsent
  <2>4. drawn + 3 # drawn + 1 /\ drawn + 3 # drawn + 2 /\ None # drawn + 1 /\ None # drawn + 2 /\ drawn + 3 # None
    BY <1>2, <2>3
  <2>5. /\ b.state = drawn + 1 /\ b.nonce = drawn + 2
        /\ b.verifier = IF DrawsVerifier(t) THEN drawn + 3 ELSE None
        /\ b.redirect = redirect
    BY <1>0 DEF Rand
  <2> QED
    BY <2>1, <2>2, <2>4, <2>5 DEF SecretsOK, Option, HasSecret
<1>5. BuilderOK(b)
  <2>1. b.verifier \in Option(1..MaxDraws)
    BY <1>0, <1>1, <1>2 DEF Option, Rand
  <2>2. b.challenge = IF b.verifier = None THEN None ELSE Hash(b.verifier)
    <3>1. drawn + 3 # None
      BY <1>2, NoneIsAbsent
    <3> QED
      BY <1>0, <3>1 DEF Rand
  <2>3. BaseOK(b)
    <3> SUFFICES ASSUME NEW name \in Stored \ OwnNames
                 PROVE  Has(b.url, name, IF name \in {"redirect_uri", "scope"} THEN Stated(b, name) ELSE {})
      BY DEF BaseOK
    <3>1. Has(b.url, name, IF name = "redirect_uri" THEN {redirect}
                           ELSE IF name = "scope" THEN {scopes} ELSE {})
      BY <1>0, <1>2, NewUrl
    <3>2. (IF name \in {"redirect_uri", "scope"} THEN Stated(b, name) ELSE {})
            = IF name = "redirect_uri" THEN {redirect} ELSE IF name = "scope" THEN {scopes} ELSE {}
      BY <1>0 DEF Stated
    <3> QED
      BY <3>1, <3>2
  <2>4. b.extra \in Seq(Extras) /\ b.maxAge \in Option(MaxAges)
    BY <1>0 DEF Option
  <2> QED
    BY <1>0, <2>1, <2>2, <2>3, <2>4 DEF BuilderOK
<1>6. Random(b) \subseteq (drawn + 1)..drawn'
  BY <1>0, <1>1, <1>2 DEF Random, Rand
<1> QED
  BY <1>1, <1>3, <1>4, <1>5, <1>6, BuilderChanges

\* pkce_s256 keeps verifier and challenge together.
LEMMA PkceKeeps == ASSUME RequestsOK, NEW t \in Tx, PkceS256(t) PROVE RequestsOK' /\ OnlyDrawn
<1>0. PICK o : o = builder[t]
  OBVIOUS
<1>1. PICK b : b = [o EXCEPT !.verifier = drawn + 1, !.challenge = Hash(drawn + 1)]
  OBVIOUS
<1>2. /\ builder' = [builder EXCEPT ![t] = b] /\ UNCHANGED <<known, request>>
      /\ drawn' = drawn + 1 /\ drawn' <= MaxDraws /\ o # None
  BY <1>0, <1>1 DEF PkceS256, Draws, WithPkce, Rand
<1>3. drawn \in Nat /\ MaxDraws \in Nat /\ SecretsOK(t, o) /\ BuilderOK(o)
  BY <1>0, <1>2, Bounds DEF RequestsOK
<1>4. drawn + 1 \in 1..MaxDraws /\ drawn + 1 # None /\ drawn' \in 0..MaxDraws /\ drawn' >= drawn
  BY <1>2, <1>3, NoneIsAbsent
<1>5. b = [url |-> o.url, state |-> o.state, nonce |-> o.nonce, verifier |-> drawn + 1,
           challenge |-> Hash(drawn + 1), options |-> o.options, maxAge |-> o.maxAge,
           extra |-> o.extra, redirect |-> o.redirect, scopes |-> o.scopes]
  BY <1>1, <1>3 DEF BuilderOK
<1>6. BuilderOK(b)
  <2>1. BaseOK(b)
    BY <1>3, <1>5 DEF BuilderOK, BaseOK, Stated
  <2> QED
    BY <1>3, <1>4, <1>5, <2>1 DEF BuilderOK, Option
<1>7. SecretsOK(t, b)'
  <2>1. /\ o.state \in 1..drawn /\ o.nonce \in 1..drawn /\ o.redirect \in Redirect
    BY <1>3 DEF SecretsOK
  <2>2. b.state = o.state /\ b.nonce = o.nonce /\ b.verifier = drawn + 1 /\ b.redirect = o.redirect
    BY <1>5
  <2> QED
    BY <1>2, <1>3, <1>4, <2>1, <2>2 DEF SecretsOK, Option
<1>8. Random(b) \subseteq Held(t) \cup ((drawn + 1)..drawn')
  <2>1. Random(o) \subseteq Held(t)
    BY <1>0, <1>2 DEF Held
  <2> QED
    BY <1>2, <1>3, <1>5, <2>1 DEF Random
<1> QED
  BY <1>2, <1>4, <1>6, <1>7, <1>8, BuilderChanges

\* Transaction t gets other settings in its builder o.
Sets(t, o, options, maxAge, extra) ==
  /\ o = builder[t] /\ o # None
  /\ builder' = [builder EXCEPT ![t] =
       [o EXCEPT !.options = options, !.maxAge = maxAge, !.extra = extra]]
  /\ UNCHANGED <<known, drawn, request>>

\* The other setters leave the random strings and the URL alone.
LEMMA SettingKeeps ==
  ASSUME RequestsOK, NEW t \in Tx, NEW o, NEW options, NEW maxAge \in Option(MaxAges),
         NEW extra \in Seq(Extras), Sets(t, o, options, maxAge, extra)
  PROVE  RequestsOK' /\ OnlyDrawn
<1>0. PICK b : b = [o EXCEPT !.options = options, !.maxAge = maxAge, !.extra = extra]
  OBVIOUS
<1>1. /\ o = builder[t] /\ o # None
      /\ builder' = [builder EXCEPT ![t] = b] /\ UNCHANGED <<known, drawn, request>>
  BY <1>0 DEF Sets
<1>2. SecretsOK(t, o) /\ BuilderOK(o) /\ drawn \in 0..MaxDraws /\ drawn \in Nat
  BY <1>1 DEF RequestsOK
<1>3. b = [url |-> o.url, state |-> o.state, nonce |-> o.nonce, verifier |-> o.verifier,
           challenge |-> o.challenge, options |-> options, maxAge |-> maxAge,
           extra |-> extra, redirect |-> o.redirect, scopes |-> o.scopes]
  BY <1>0, <1>2 DEF BuilderOK
<1>4. BuilderOK(b)
  <2>1. BaseOK(b)
    BY <1>2, <1>3 DEF BuilderOK, BaseOK, Stated
  <2> QED
    BY <1>2, <1>3, <2>1 DEF BuilderOK
<1>5. SecretsOK(t, b)'
  BY <1>1, <1>2, <1>3 DEF SecretsOK
<1>6. Random(b) \subseteq Held(t)
  BY <1>1, <1>3 DEF Held, Random
<1>7. drawn' \in 0..MaxDraws /\ drawn' >= drawn
  BY <1>1, <1>2
<1> QED
  BY <1>1, <1>4, <1>5, <1>6, <1>7, BuilderChanges

\* What build returns is what the builder had.
LEMMA BuildKeeps == ASSUME RequestsOK, NEW t \in Tx, Build(t) PROVE RequestsOK' /\ OnlyDrawn
<1>0. PICK b : b = builder[t]
  OBVIOUS
<1>1. PICK r : r = RequestState(b)
  OBVIOUS
<1>2. /\ b # None /\ builder' = [builder EXCEPT ![t] = None]
      /\ request' = [request EXCEPT ![t] = r] /\ UNCHANGED <<known, drawn>>
  BY <1>0, <1>1 DEF Build
<1>3. SecretsOK(t, b) /\ BuilderOK(b)
  BY <1>0, <1>2 DEF RequestsOK
<1>4. /\ r.state = b.state /\ r.nonce = b.nonce /\ r.verifier = b.verifier
      /\ r.redirect = b.redirect /\ r.maxAge = b.maxAge
  BY <1>1 DEF RequestState
<1>5. UrlOK(r)
  BY <1>1, <1>3, BuildUrl
<1>6. SecretsOK(t, r)
  BY <1>3, <1>4 DEF SecretsOK
<1>7. /\ builder'[t] = None /\ \A u \in Tx \ {t} : builder'[u] = builder[u]
      /\ request'[t] = r /\ \A u \in Tx \ {t} : request'[u] = request[u]
      /\ builder' = [u \in Tx |-> builder'[u]] /\ request' = [u \in Tx |-> request'[u]]
  BY <1>2 DEF RequestsOK
<1>8. Random(r) = Random(b)
  BY <1>4 DEF Random
<1>9. /\ Held(t)' \subseteq Held(t)
      /\ \A u \in Tx \ {t} : Held(u)' = Held(u)
  <2>1. Random(b) \subseteq Held(t)
    BY <1>0, <1>2 DEF Held
  <2>2. Held(t)' \subseteq Random(r)
    BY <1>7 DEF Held
  <2> QED
    BY <1>7, <1>8, <2>1, <2>2 DEF Held
<1>10. \A u, w \in Tx : u # w => Held(u)' \cap Held(w)' = {}
  BY <1>9 DEF RequestsOK
<1>11. ASSUME NEW u \in Tx, builder'[u] # None PROVE SecretsOK(u, builder[u])' /\ BuilderOK(builder[u])'
  BY <1>2, <1>7, <1>11 DEF RequestsOK, SecretsOK, BuilderOK, BaseOK, Stated
<1>12. ASSUME NEW u \in Tx, request'[u] # None
       PROVE  /\ SecretsOK(u, request[u])' /\ UrlOK(request[u])'
              /\ request'[u].maxAge \in Option(MaxAges)
  <2>1. CASE u = t
    BY <1>2, <1>3, <1>4, <1>5, <1>6, <1>7, <2>1 DEF SecretsOK, UrlOK, BuilderOK, Stated
  <2>2. CASE u # t
    BY <1>2, <1>7, <1>12, <2>2 DEF RequestsOK, SecretsOK, UrlOK, Stated
  <2> QED
    BY <2>1, <2>2
<1>13. RequestsOK'
  BY <1>2, <1>7, <1>10, <1>11, <1>12 DEF RequestsOK
<1>14. OnlyDrawn
  <2>1. drawn \in Nat /\ drawn' = drawn
    BY <1>2 DEF RequestsOK
  <2> QED
    BY <1>9, <2>1 DEF OnlyDrawn
<1> QED
  BY <1>13, <1>14

\* Every step of the builders keeps the invariant.
LEMMA RequestStepKeeps == ASSUME RequestsOK, RequestStep PROVE RequestsOK' /\ OnlyDrawn
<1>1. CASE Refresh
  <2>1. RequestsOK'
    BY <1>1, Bounds DEF Refresh, RequestsOK, Version, SecretsOK, Held
  <2>2. drawn \in Nat /\ drawn' = drawn /\ \A u : Held(u)' = Held(u)
    BY <1>1 DEF Refresh, RequestsOK, Held
  <2> QED
    BY <2>1, <2>2 DEF OnlyDrawn
<1>2. ASSUME NEW t \in Tx, NEW r \in Redirect, NEW s \in ScopeLists, New(t, r, s) PROVE RequestsOK' /\ OnlyDrawn
  BY <1>2, NewKeeps
<1>3. ASSUME NEW t \in Tx, PkceS256(t) PROVE RequestsOK' /\ OnlyDrawn
  BY <1>3, PkceKeeps
<1>4. ASSUME NEW t \in Tx, Build(t) PROVE RequestsOK' /\ OnlyDrawn
  BY <1>4, BuildKeeps
<1>5. ASSUME NEW t \in Tx, builder[t] # None
      PROVE  /\ builder \in [Tx -> {builder[u] : u \in Tx}]
             /\ BuilderOK(builder[t])
  BY <1>5 DEF RequestsOK
<1>6. ASSUME NEW t \in Tx, NEW o \in Options, SetOption(t, o) PROVE RequestsOK' /\ OnlyDrawn
  <2>0. PICK b : b = builder[t]
    OBVIOUS
  <2>1. /\ b # None /\ UNCHANGED <<known, drawn, request>>
        /\ builder' = [builder EXCEPT ![t].options = @ \cup {o}]
    BY <1>6, <2>0 DEF SetOption, MaySet
  <2>2. BuilderOK(b) /\ DOMAIN builder = Tx
    BY <1>5, <2>0, <2>1
  <2>3. PICK c : c = [b EXCEPT !.options = @ \cup {o}]
    OBVIOUS
  <2>4. builder' = [builder EXCEPT ![t] = c]
    BY <2>0, <2>1, <2>3
  <2>5. PICK options, maxAge, extra : options = b.options \cup {o} /\ maxAge = b.maxAge /\ extra = b.extra
    OBVIOUS
  <2>6. c = [b EXCEPT !.options = options, !.maxAge = maxAge, !.extra = extra]
    BY <2>2, <2>3, <2>5 DEF BuilderOK
  <2>7. maxAge \in Option(MaxAges) /\ extra \in Seq(Extras)
    BY <2>2, <2>5 DEF BuilderOK, Option
  <2>8. Sets(t, b, options, maxAge, extra)
    BY <2>0, <2>1, <2>4, <2>6 DEF Sets
  <2> QED
    BY <2>7, <2>8, SettingKeeps
<1>7. ASSUME NEW t \in Tx, NEW d \in MaxAges, SetMaxAge(t, d) PROVE RequestsOK' /\ OnlyDrawn
  <2>0. PICK b : b = builder[t]
    OBVIOUS
  <2>1. /\ b # None /\ UNCHANGED <<known, drawn, request>>
        /\ builder' = [builder EXCEPT ![t].maxAge = d]
    BY <1>7, <2>0 DEF SetMaxAge, MaySet
  <2>2. BuilderOK(b) /\ DOMAIN builder = Tx
    BY <1>5, <2>0, <2>1
  <2>3. PICK c : c = [b EXCEPT !.maxAge = d]
    OBVIOUS
  <2>4. builder' = [builder EXCEPT ![t] = c]
    BY <2>0, <2>1, <2>3
  <2>5. PICK options, maxAge, extra : options = b.options /\ maxAge = d /\ extra = b.extra
    OBVIOUS
  <2>6. c = [b EXCEPT !.options = options, !.maxAge = maxAge, !.extra = extra]
    BY <2>2, <2>3, <2>5 DEF BuilderOK
  <2>7. maxAge \in Option(MaxAges) /\ extra \in Seq(Extras)
    BY <2>2, <2>5 DEF BuilderOK, Option
  <2>8. Sets(t, b, options, maxAge, extra)
    BY <2>0, <2>1, <2>4, <2>6 DEF Sets
  <2> QED
    BY <2>7, <2>8, SettingKeeps
<1>8. ASSUME NEW t \in Tx, NEW p \in Extras, AddExtra(t, p) PROVE RequestsOK' /\ OnlyDrawn
  <2>0. PICK b : b = builder[t]
    OBVIOUS
  <2>1. /\ b # None /\ UNCHANGED <<known, drawn, request>>
        /\ builder' = [builder EXCEPT ![t].extra = Append(@, p)]
    BY <1>8, <2>0 DEF AddExtra, MaySet
  <2>2. BuilderOK(b) /\ DOMAIN builder = Tx
    BY <1>5, <2>0, <2>1
  <2>3. PICK c : c = [b EXCEPT !.extra = Append(@, p)]
    OBVIOUS
  <2>4. builder' = [builder EXCEPT ![t] = c]
    BY <2>0, <2>1, <2>3
  <2>5. PICK options, maxAge, extra : options = b.options /\ maxAge = b.maxAge /\ extra = Append(b.extra, p)
    OBVIOUS
  <2>6. c = [b EXCEPT !.options = options, !.maxAge = maxAge, !.extra = extra]
    BY <2>2, <2>3, <2>5 DEF BuilderOK
  <2>7. maxAge \in Option(MaxAges) /\ extra \in Seq(Extras)
    BY <2>2, <2>5 DEF BuilderOK, Option
  <2>8. Sets(t, b, options, maxAge, extra)
    BY <2>0, <2>1, <2>4, <2>6 DEF Sets
  <2> QED
    BY <2>7, <2>8, SettingKeeps
<1> QED
  BY <1>1, <1>2, <1>3, <1>4, <1>6, <1>7, <1>8 DEF RequestStep

-----------------------------------------------------------------------------
(* The token requests.                                                     *)

TokenInv ==
  /\ RequestsOK
  /\ sent = [t \in Tx |-> sent[t]] /\ refresh = [t \in Tx |-> refresh[t]]

LEMMA TokenInit == Init => TokenInv
BY RequestInitOK DEF Init, TokenInv

LEMMA TokenNext == TokenInv /\ [Next]_vars => TokenInv'
<1> SUFFICES ASSUME TokenInv, [Next]_vars PROVE TokenInv'
  OBVIOUS
<1>1. ASSUME UNCHANGED requestVars PROVE RequestsOK'
  BY <1>1, Bounds DEF TokenInv, requestVars, RequestsOK, Version, SecretsOK, HasSecret, Held
<1>2. CASE RequestStep /\ UNCHANGED <<sent, refresh>>
  BY <1>2, RequestStepKeeps DEF TokenInv
<1>3. CASE \E t \in Tx : Complete(t) \/ ExchangeByHand(t) \/ Answered(t) \/ RefreshTokens(t)
  BY <1>1, <1>3 DEF TokenInv, Complete, ExchangeByHand, Answered, RefreshTokens
<1>4. CASE UNCHANGED vars
  BY <1>1, <1>4 DEF vars, TokenInv
<1> QED
  BY <1>2, <1>3, <1>4 DEF Next

\* A duration in whole seconds is no longer than it was.
LEMMA AsSecsNoLonger == ASSUME NEW d \in Nat PROVE Second * AsSecs(d) <= d
BY Kinds DEF AsSecs

\* The URL and the pending request agree, for any number of transactions and any
\* order of setters, whatever the endpoint's own query (authorize.rs:273).
THEOREM UrlsMatchPending == Spec => []UrlMatchesPending
<1>1. TokenInv => UrlMatchesPending
  <2> SUFFICES ASSUME RequestsOK PROVE UrlMatchesPending
    BY DEF TokenInv
  <2>1. ASSUME NEW t \in Tx, request[t] # None
        PROVE  LET url_t == request[t].url
                   Once(name, value) == name \notin OwnNames =>
                     /\ Values(url_t, name) = {value}
                     /\ \A i, j \in Count(url_t, name) : i = j
                   Never(name) == name \notin OwnNames => Values(url_t, name) = {}
                   Strings(u) == {request[u].state, request[u].nonce, request[u].verifier} \ {None}
               IN  /\ Once("state", request[t].state) /\ Once("nonce", request[t].nonce)
                   /\ Once("redirect_uri", request[t].redirect) /\ Once("scope", request[t].scopes)
                   /\ IF request[t].verifier = None THEN Never("code_challenge")
                      ELSE /\ Once("code_challenge", Hash(request[t].verifier))
                           /\ request[t].verifier \notin {request[t].state, request[t].nonce}
                   /\ IF request[t].maxAge = None THEN Never("max_age")
                      ELSE "max_age" \notin OwnNames =>
                             /\ Values(url_t, "max_age") # {}
                             /\ \A s \in Values(url_t, "max_age") : Second * s <= request[t].maxAge
                   /\ \A u \in Tx \ {t} : request[u] # None => Strings(t) \cap Strings(u) = {}
    <3>0. PICK r : r = request[t]
      OBVIOUS
    <3>1. SecretsOK(t, r) /\ UrlOK(r) /\ r.maxAge \in Option(MaxAges)
      BY <2>1, <3>0 DEF RequestsOK
    <3>2. \A name \in Stored : name \notin OwnNames =>
            /\ Values(r.url, name) = Stated(r, name)
            /\ \A i, j \in Count(r.url, name) : i = j
      BY <3>1 DEF UrlOK, Has
    <3>3. /\ Stated(r, "state") = {r.state} /\ Stated(r, "nonce") = {r.nonce}
          /\ Stated(r, "redirect_uri") = {r.redirect} /\ Stated(r, "scope") = {r.scopes}
          /\ Stated(r, "code_challenge") = IF r.verifier = None THEN {} ELSE {Hash(r.verifier)}
          /\ Stated(r, "max_age") = IF r.maxAge = None THEN {} ELSE {AsSecs(r.maxAge)}
      BY DEF Stated
    <3>4. r.maxAge # None => Second * AsSecs(r.maxAge) <= r.maxAge
      BY <3>1, AsSecsNoLonger, Kinds DEF Option
    <3>5. r.verifier \notin {r.state, r.nonce}
      BY <3>1 DEF SecretsOK
    <3>6. ASSUME NEW u \in Tx \ {t}, request[u] # None
          PROVE  ({r.state, r.nonce, r.verifier} \ {None})
                   \cap ({request[u].state, request[u].nonce, request[u].verifier} \ {None}) = {}
      <4>1. Random(r) \subseteq Held(t) /\ Random(request[u]) \subseteq Held(u)
        BY <2>1, <3>0, <3>6 DEF Held
      <4>2. Held(t) \cap Held(u) = {}
        BY DEF RequestsOK
      <4> QED
        BY <4>1, <4>2 DEF Random
    <3> QED
      BY <3>0, <3>2, <3>3, <3>4, <3>5, <3>6 DEF Stored
  <2> QED
    BY <2>1 DEF UrlMatchesPending
<1> QED
  BY <1>1, TokenInit, TokenNext, PTL DEF Spec

\* The method that is picked fits the client and the document.
LEMMA AuthMethodFits ==
  ASSUME NEW t, NEW listed, NEW method, method = AuthMethod(t, listed)
  PROVE  /\ method \in Option(Methods)
         /\ HasSecret(t) => method # "none"
         /\ ~HasSecret(t) => method \in {"none", None}
         /\ listed # None /\ method # None => method \in listed
BY NoneIsNoMethod DEF AuthMethod, Methods, Option

\* A parameter of a token request that may be absent.
LEMMA OptionalHas ==
  ASSUME NEW a, NEW name, NEW V, Has(a, name, V), NEW n, NEW value, V = {} \/ name # n
  PROVE  Has(a \o Optional(n, value), name, IF value # None /\ name = n THEN {value} ELSE V)
<1>1. Optional(n, value) = IF value # None THEN P(n, value) ELSE <<>>
  BY DEF Optional
<1>2. Has(a \o (IF value # None THEN P(n, value) ELSE <<>>), name,
          IF value # None /\ name = n THEN {value} ELSE V)
  <2>1. (value # None) \in BOOLEAN
    OBVIOUS
  <2> QED
    BY <2>1, HasAppended
<1> QED
  BY <1>1, <1>2

\* The form of the code exchange before the credentials.
LEMMA CodeForm ==
  ASSUME NEW code, NEW redirect, NEW verifier, NEW name, NEW V,
         name \in {"redirect_uri", "code_verifier", "client_id", "client_secret"},
         V = IF name = "redirect_uri" THEN {redirect}
             ELSE IF name = "code_verifier" /\ verifier # None THEN {verifier} ELSE {}
  PROVE  Has(P("code", code) \o P("redirect_uri", redirect) \o Optional("code_verifier", verifier),
             name, V)
<1> DEFINE a == P("code", code)
           b == a \o P("redirect_uri", redirect)
<1>1. Has(a, name, {})
  <2>1. Has(P("code", code), name, IF name = "code" THEN {code} ELSE {})
    BY HasSingle
  <2> QED
    BY <2>1
<1> HIDE DEF a
<1>2. Has(b, name, IF name = "redirect_uri" THEN {redirect} ELSE {})
  BY <1>1, HasAppended
<1> HIDE DEF b
<1>3. Has(b \o Optional("code_verifier", verifier), name,
          IF verifier # None /\ name = "code_verifier" THEN {verifier}
          ELSE IF name = "redirect_uri" THEN {redirect} ELSE {})
  BY <1>2, OptionalHas
<1>4. (IF verifier # None /\ name = "code_verifier" THEN {verifier}
       ELSE IF name = "redirect_uri" THEN {redirect} ELSE {})
      = IF name = "redirect_uri" THEN {redirect}
        ELSE IF name = "code_verifier" /\ verifier # None THEN {verifier} ELSE {}
  OBVIOUS
<1> QED
  BY <1>3, <1>4 DEF b, a

\* The form of the refresh grant before the credentials.
LEMMA RefreshForm ==
  ASSUME NEW scope, NEW name, name \in {"client_id", "client_secret"}
  PROVE  Has(P("refresh_token", "token") \o Optional("scope", scope), name, {})
<1>1. Has(P("refresh_token", "token"), name, IF name = "refresh_token" THEN {"token"} ELSE {})
  BY HasSingle
<1>2. Has(P("refresh_token", "token"), name, {})
  BY <1>1
<1>3. Has(P("refresh_token", "token") \o Optional("scope", scope), name,
          IF scope # None /\ name = "scope" THEN {scope} ELSE {})
  BY <1>2, OptionalHas
<1> QED
  BY <1>3

\* What the credentials are, by name.
LEMMA CredentialsHas ==
  ASSUME NEW method \in Methods, NEW name
  PROVE  Has(Credentials(method), name,
             IF name = "client_id" /\ method # "client_secret_basic" THEN {"id"}
             ELSE IF name = "client_secret" /\ method = "client_secret_post" THEN {"secret"} ELSE {})
<1>1. CASE method = "client_secret_basic"
  BY <1>1, HasEmpty DEF Credentials
<1>2. CASE method = "client_secret_post"
  <2> DEFINE p == P("client_id", "id")
  <2>1. Has(p, name, IF name = "client_id" THEN {"id"} ELSE {})
    BY HasSingle
  <2> HIDE DEF p
  <2>2. Has(p \o P("client_secret", "secret"), name,
            IF name = "client_secret" THEN {"secret"} ELSE IF name = "client_id" THEN {"id"} ELSE {})
    BY <2>1, HasAppended
  <2>3. Credentials(method) = p \o P("client_secret", "secret")
    BY <1>2 DEF Credentials, p
  <2>4. (IF name = "client_secret" THEN {"secret"} ELSE IF name = "client_id" THEN {"id"} ELSE {})
        = IF name = "client_id" /\ method # "client_secret_basic" THEN {"id"}
          ELSE IF name = "client_secret" /\ method = "client_secret_post" THEN {"secret"} ELSE {}
    BY <1>2
  <2> QED
    BY <2>2, <2>3, <2>4
<1>3. CASE method = "none"
  <2>1. Has(P("client_id", "id"), name, IF name = "client_id" THEN {"id"} ELSE {})
    BY HasSingle
  <2>2. Credentials(method) = P("client_id", "id")
    BY <1>3 DEF Credentials
  <2>3. (IF name = "client_id" THEN {"id"} ELSE {})
        = IF name = "client_id" /\ method # "client_secret_basic" THEN {"id"}
          ELSE IF name = "client_secret" /\ method = "client_secret_post" THEN {"secret"} ELSE {}
    BY <1>3
  <2> QED
    BY <2>1, <2>2, <2>3
<1> QED
  BY <1>1, <1>2, <1>3 DEF Methods

\* What is posted: the form with the credentials, which are where the method says.
LEMMA PostedHas ==
  ASSUME NEW method \in Methods, NEW grant, NEW form, NEW post, post = Posted(method, grant, form)
  PROVE  /\ \A name, V : Has(form, name, V) /\ name \notin {"client_id", "client_secret"} =>
              Values(post.form, name) = V
         /\ Has(form, "client_id", {}) =>
              Values(post.form, "client_id") = IF method # "client_secret_basic" THEN {"id"} ELSE {}
         /\ Has(form, "client_secret", {}) =>
              Values(post.form, "client_secret")
                = IF method = "client_secret_post" THEN {"secret"} ELSE {}
<1>1. ASSUME NEW name, NEW V, Has(form, name, V), NEW W, Has(Credentials(method), name, W)
      PROVE  Values(post.form, name) = V \cup W
  <2>1. Values(form \o Credentials(method), name) = V \cup W
    BY <1>1, ValuesOf DEF Has
  <2> QED
    BY <2>1 DEF Posted
<1>2. \A name : Has(Credentials(method), name,
             IF name = "client_id" /\ method # "client_secret_basic" THEN {"id"}
             ELSE IF name = "client_secret" /\ method = "client_secret_post" THEN {"secret"} ELSE {})
  BY CredentialsHas
<1>3. ASSUME NEW name, NEW V, Has(form, name, V), name \notin {"client_id", "client_secret"}
      PROVE  Values(post.form, name) = V
  <2>1. Has(Credentials(method), name, {})
    BY <1>2, <1>3
  <2> QED
    BY <1>1, <1>3, <2>1
<1>4. ASSUME Has(form, "client_id", {})
      PROVE  Values(post.form, "client_id")
               = IF method # "client_secret_basic" THEN {"id"} ELSE {}
  <2>1. PICK W : W = IF method # "client_secret_basic" THEN {"id"} ELSE {}
    OBVIOUS
  <2>2. Has(Credentials(method), "client_id", W)
    BY <1>2, <2>1
  <2> QED
    BY <1>1, <1>4, <2>1, <2>2
<1>5. ASSUME Has(form, "client_secret", {})
      PROVE  Values(post.form, "client_secret")
               = IF method = "client_secret_post" THEN {"secret"} ELSE {}
  <2>1. PICK W : W = IF method = "client_secret_post" THEN {"secret"} ELSE {}
    OBVIOUS
  <2>2. Has(Credentials(method), "client_secret", W)
    BY <1>2, <2>1
  <2> QED
    BY <1>1, <1>5, <2>1, <2>2
<1> QED
  BY <1>3, <1>4, <1>5 DEF Posted

\* A request that is built has the form of the code exchange, and one that is
\* not, of values that are there, has no method that fits.
LEMMA CodeRequestIs ==
  ASSUME NEW t, NEW override \in Option(Methods), NEW code, NEW redirect, NEW verifier,
         ~CodeRequest(t, override, code, redirect, verifier).failed
  PROVE  /\ Picked(t, override) \in Methods /\ (Picked(t, override) # "none" => HasSecret(t))
         /\ CodeRequest(t, override, code, redirect, verifier)
              = Posted(Picked(t, override), "authorization_code",
                       P("code", code) \o P("redirect_uri", redirect)
                         \o Optional("code_verifier", verifier))
<1>1. Picked(t, override) \in Option(Methods)
  BY AuthMethodFits, NoneIsNoMethod DEF Picked, Overridden, Option
<1> QED
  BY <1>1 DEF CodeRequest, BuildCode, Failed, Option

LEMMA RefreshRequestIs ==
  ASSUME NEW t, NEW override \in Option(Methods), NEW scope
  PROVE  LET method == Picked(t, override)
             sending == RefreshRequest(t, override, scope)
             form == P("refresh_token", "token") \o Optional("scope", scope)
         IN  \/ sending.failed = TRUE
             \/ /\ sending = Posted(method, "refresh_token", form)
                /\ method \in Methods /\ (method # "none" => HasSecret(t))
<1>1. Picked(t, override) \in Option(Methods)
  BY AuthMethodFits, NoneIsNoMethod DEF Picked, Overridden, Option
<1> QED
  BY <1>1 DEF RefreshRequest, BuildRefresh, Failed, Option

\* For any documents and settings, what complete_authorization sends is accepted
\* by the provider that saw the authorization request, or no method fits.
THEOREM ProvidersAccept == Spec => ProviderAccepts
<1>1. TokenInv /\ [Next]_vars =>
        [\A t \in Tx : Complete(t) =>
          IF sent'[t].failed THEN sent'[t].why = "invalid metadata"
          ELSE /\ "redirect_uri" \notin OwnNames =>
                    Values(sent'[t].form, "redirect_uri") = Values(request[t].url, "redirect_uri")
               /\ "code_challenge" \notin OwnNames =>
                    {Hash(v) : v \in Values(sent'[t].form, "code_verifier")}
                      = Values(request[t].url, "code_challenge")]_vars
  <2> SUFFICES ASSUME TokenInv, NEW t \in Tx, Complete(t)
               PROVE  IF sent'[t].failed THEN sent'[t].why = "invalid metadata"
                      ELSE /\ "redirect_uri" \notin OwnNames =>
                                Values(sent'[t].form, "redirect_uri")
                                  = Values(request[t].url, "redirect_uri")
                           /\ "code_challenge" \notin OwnNames =>
                                {Hash(v) : v \in Values(sent'[t].form, "code_verifier")}
                                  = Values(request[t].url, "code_challenge")
    OBVIOUS
  <2>1. PICK r : r = request[t]
    OBVIOUS
  <2>2. SecretsOK(t, r) /\ UrlOK(r)
    BY <2>1 DEF Complete, TokenInv, RequestsOK
  <2>3. PICK post : post = CodeRequest(t, None, t, r.redirect, r.verifier)
    OBVIOUS
  <2>4. sent'[t] = post
    BY <2>1, <2>3 DEF Complete, TokenInv
  <2>5. PICK method : method = Picked(t, None)
    OBVIOUS
  <2>6. /\ method \in Option(Methods)
        /\ HasSecret(t) => method # "none"
        /\ ~HasSecret(t) => method \in {"none", None}
    BY <2>5, AuthMethodFits, NoneIsNoMethod DEF Picked, Overridden
  <2>7. CASE method = None
    <3>1. post = Failed("invalid metadata")
      BY <2>3, <2>5, <2>7 DEF CodeRequest
    <3>2. post.failed = TRUE /\ post.why = "invalid metadata"
      BY <3>1 DEF Failed
    <3> QED
      BY <2>4, <3>2
  <2>8. CASE method # None
    <3> DEFINE form == P("code", t) \o P("redirect_uri", r.redirect)
                         \o Optional("code_verifier", r.verifier)
               V == IF r.verifier # None THEN {r.verifier} ELSE {}
    <3>1. t # None /\ r.redirect # None
      BY <2>2, NoneIsAbsent DEF SecretsOK
    <3>2. ~(method # "none" /\ ~HasSecret(t)) /\ ~(method = "none" /\ r.verifier = None)
      BY <2>2, <2>6, <2>8 DEF SecretsOK
    <3>3. \E grant : post = Posted(method, grant, form)
      BY <2>3, <2>5, <2>8, <3>1, <3>2 DEF CodeRequest, BuildCode
    <3>4. /\ Has(form, "redirect_uri", {r.redirect})
          /\ Has(form, "code_verifier", V)
      <4>1. Has(form, "redirect_uri", {r.redirect})
        BY CodeForm
      <4>2. Has(form, "code_verifier", V)
        BY CodeForm
      <4> QED
        BY <4>1, <4>2
    <3>5. method \in Methods
      BY <2>6, <2>8 DEF Option
    <3> HIDE DEF form, V
    <3>6. /\ post.failed = FALSE /\ Values(post.form, "redirect_uri") = {r.redirect}
          /\ Values(post.form, "code_verifier") = V
      <4>1. PICK grant : post = Posted(method, grant, form)
        BY <3>3
      <4>2. \A name, W : Has(form, name, W) /\ name \notin {"client_id", "client_secret"} =>
              Values(post.form, name) = W
        BY <3>5, <4>1, PostedHas
      <4>3. post.failed = FALSE
        BY <4>1 DEF Posted
      <4> QED
        BY <3>4, <4>2, <4>3
    <3>7. /\ "redirect_uri" \notin OwnNames => Values(r.url, "redirect_uri") = {r.redirect}
          /\ "code_challenge" \notin OwnNames =>
               Values(r.url, "code_challenge")
                 = IF r.verifier = None THEN {} ELSE {Hash(r.verifier)}
      BY <2>2 DEF UrlOK, Has, Stored, Stated
    <3> QED
      BY <2>1, <2>4, <3>6, <3>7 DEF V
  <2> QED
    BY <2>7, <2>8
<1> QED
  BY <1>1, TokenInit, TokenNext, PTL DEF Spec, ProviderAccepts

\* For any documents and overrides, the secret leaves once and as the method says.
THEOREM SecretsAreSentOnce == Spec => SecretSentOnce
<1> DEFINE Step(t) ==
      sent'[t] # sent[t] /\ ~sent'[t].failed =>
        LET inForm == "secret" \in Values(sent'[t].form, "client_secret")
            inHeader == sent'[t].header # None
            listed == Document[known].methods
        IN  /\ inForm <=> sent'[t].method = "client_secret_post"
            /\ inHeader <=> sent'[t].method = "client_secret_basic"
            /\ inForm \/ inHeader => HasSecret(t)
            /\ inHeader => Values(sent'[t].form, "client_id") = {}
            /\ Complete(t) /\ listed # None => sent'[t].method \in listed
<1>1. ASSUME TokenInv, Next, NEW t \in Tx, sent'[t] # sent[t], ~sent'[t].failed
      PROVE  Step(t)
  <2>1. \/ Complete(t) \/ ExchangeByHand(t) \/ RefreshTokens(t)
    BY <1>1 DEF Next, TokenInv, Complete, ExchangeByHand, Answered, RefreshTokens
  <2>2. PICK post : post = sent'[t]
    OBVIOUS
  <2>3. ASSUME NEW method \in Methods, NEW grant, NEW form,
               Has(form, "client_id", {}), Has(form, "client_secret", {}),
               post = Posted(method, grant, form), method # "none" => HasSecret(t)
        PROVE  /\ post.method = method
               /\ "secret" \in Values(post.form, "client_secret") <=> method = "client_secret_post"
               /\ post.header # None <=> method = "client_secret_basic"
               /\ ("secret" \in Values(post.form, "client_secret") \/ post.header # None)
                    => HasSecret(t)
               /\ post.header # None => Values(post.form, "client_id") = {}
    <3>1. post.method = method /\ post.header = Header(method)
      BY <2>3 DEF Posted
    <3>2. /\ Values(post.form, "client_id") = IF method # "client_secret_basic" THEN {"id"} ELSE {}
          /\ Values(post.form, "client_secret")
               = IF method = "client_secret_post" THEN {"secret"} ELSE {}
      BY <2>3, PostedHas
    <3>3. Header(method) # None <=> method = "client_secret_basic"
      BY NoneIsNoMethod DEF Header
    <3> QED
      BY <2>3, <3>1, <3>2, <3>3
  <2>4. ASSUME NEW override \in Option(Methods), NEW code, NEW redirect, NEW verifier,
               post = CodeRequest(t, override, code, redirect, verifier)
        PROVE  \E grant, form : /\ Picked(t, override) \in Methods
                                /\ post = Posted(Picked(t, override), grant, form)
                                /\ Has(form, "client_id", {}) /\ Has(form, "client_secret", {})
                                /\ Picked(t, override) # "none" => HasSecret(t)
    <3> DEFINE form == P("code", code) \o P("redirect_uri", redirect)
                         \o Optional("code_verifier", verifier)
    <3>1. Has(form, "client_id", {}) /\ Has(form, "client_secret", {})
      BY CodeForm
    <3>2. /\ \E grant : post = Posted(Picked(t, override), grant, form)
          /\ Picked(t, override) \in Methods /\ (Picked(t, override) # "none" => HasSecret(t))
      <4>1. ~CodeRequest(t, override, code, redirect, verifier).failed
        BY <1>1, <2>2, <2>4
      <4>2. /\ Picked(t, override) \in Methods /\ (Picked(t, override) # "none" => HasSecret(t))
            /\ CodeRequest(t, override, code, redirect, verifier)
                 = Posted(Picked(t, override), "authorization_code", form)
        BY <4>1, CodeRequestIs
      <4> QED
        BY <2>4, <4>2
    <3> HIDE DEF form
    <3> QED
      BY <3>1, <3>2
  <2>5. ASSUME NEW override \in Option(Methods), NEW scope,
               post = RefreshRequest(t, override, scope)
        PROVE  \E grant, form : /\ Picked(t, override) \in Methods
                                /\ post = Posted(Picked(t, override), grant, form)
                                /\ Has(form, "client_id", {}) /\ Has(form, "client_secret", {})
                                /\ Picked(t, override) # "none" => HasSecret(t)
    <3> DEFINE form == P("refresh_token", "token") \o Optional("scope", scope)
    <3>1. Has(form, "client_id", {}) /\ Has(form, "client_secret", {})
      BY RefreshForm
    <3> HIDE DEF form
    <3> QED
      BY <1>1, <2>2, <2>5, <3>1, RefreshRequestIs DEF form
  <2>6. \A override \in Option(Methods) :
          (\/ \E code, redirect, verifier : post = CodeRequest(t, override, code, redirect, verifier)
           \/ \E scope : post = RefreshRequest(t, override, scope))
          => /\ post.method = Picked(t, override)
             /\ "secret" \in Values(post.form, "client_secret")
                  <=> post.method = "client_secret_post"
             /\ post.header # None <=> post.method = "client_secret_basic"
             /\ ("secret" \in Values(post.form, "client_secret") \/ post.header # None)
                  => HasSecret(t)
             /\ post.header # None => Values(post.form, "client_id") = {}
    BY <2>3, <2>4, <2>5
  <2>7. /\ Complete(t) => \E code, redirect, verifier :
             post = CodeRequest(t, None, code, redirect, verifier)
        /\ ExchangeByHand(t) => \E override \in Option(Methods) :
           \E code, redirect, verifier :
             post = CodeRequest(t, override, code, redirect, verifier)
        /\ RefreshTokens(t) => \E override \in Option(Methods) : \E scope :
             post = RefreshRequest(t, override, scope)
    <3>1. sent = [u \in Tx |-> sent[u]]
      BY <1>1 DEF TokenInv
    <3>2. Complete(t) => post = CodeRequest(t, None, t, request[t].redirect, request[t].verifier)
      BY <2>2, <3>1 DEF Complete
    <3>3. ExchangeByHand(t) => \E override \in Option(Methods) :
          \E code, redirect, verifier :
            post = CodeRequest(t, override, code, redirect, verifier)
      BY <2>2, <3>1 DEF ExchangeByHand
    <3>4. RefreshTokens(t) => \E override \in Option(Methods) : \E scope :
            post = RefreshRequest(t, override, scope)
      BY <2>2, <3>1 DEF RefreshTokens
    <3> QED
      BY <3>2, <3>3, <3>4
  <2>8. \E override \in Option(Methods) :
          /\ \/ \E code, redirect, verifier : post = CodeRequest(t, override, code, redirect, verifier)
             \/ \E scope : post = RefreshRequest(t, override, scope)
          /\ Complete(t) => override = None
    <3>1. CASE Complete(t)
      <4>1. None \in Option(Methods)
        BY DEF Option
      <4> QED
        BY <2>7, <3>1, <4>1
    <3>2. CASE ~Complete(t)
      BY <2>1, <2>7, <3>2
    <3> QED
      BY <3>1, <3>2
  <2>9. PICK override \in Option(Methods) :
          /\ \/ \E code, redirect, verifier : post = CodeRequest(t, override, code, redirect, verifier)
             \/ \E scope : post = RefreshRequest(t, override, scope)
          /\ Complete(t) => override = None
    BY <2>8
  <2>10. Picked(t, override) \in Methods
    BY <2>4, <2>5, <2>9
  <2>11. Complete(t) /\ Document[known].methods # None
           => Picked(t, override) \in Document[known].methods
    BY <2>9, <2>10, AuthMethodFits, NoneIsNoMethod DEF Picked, Overridden
  <2> QED
    BY <2>2, <2>6, <2>9, <2>11
<1>2. TokenInv /\ [Next]_vars => [\A t \in Tx : Step(t)]_vars
  BY <1>1
<1> QED
  BY <1>2, TokenInit, TokenNext, PTL DEF Spec, SecretSentOnce

-----------------------------------------------------------------------------
(* Logout, by the client that sends users to log in.                       *)

ParameterName == Settable \cup {"state", "ui_locales"}

\* The types of the variables.
LogoutTypeOK ==
  /\ stage \in [Logout -> {"new", "building", "url", "refused"}]
  /\ ending \in [Logout -> [set : SUBSET Settable, state : 0..drawn, locales : SUBSET Locale]]
  /\ url \in [Logout -> [endpoint : Nat, query : BOOLEAN, names : SUBSET ParameterName, state : 0..drawn]]
  /\ returned \in [Logout -> 0..drawn]

\* The state a logout owns: the one its builder holds, then the one returned.
Owned(l) == IF stage[l] = "url" THEN returned[l] ELSE ending[l].state

\* No two logouts own the same state, nor does a login hold it; what build
\* returned is what the URL says, and a URL that names a redirect has a state.
StatesOK ==
  /\ \A l, m \in Logout : Owned(l) # NoState /\ Owned(l) = Owned(m) => l = m
  /\ \A l \in Logout, t \in Tx : Owned(l) \notin Held(t)
  /\ \A l \in Logout : stage[l] = "url" =>
       /\ url[l].state = returned[l]
       /\ "post_logout_redirect_uri" \in url[l].names =>
            returned[l] # NoState /\ "state" \in url[l].names

\* Who came back was sent away, and brings the state that was returned for it.
BackOK ==
  \A r \in back :
    /\ r.logout \in Logout /\ stage[r.logout] = "url"
    /\ r.state = returned[r.logout] /\ r.state # NoState

LogoutInv == RequestsOK /\ LogoutTypeOK /\ StatesOK /\ BackOK

LEMMA LogoutInitInv == LogoutInit => LogoutInv
BY RequestInitOK DEF LogoutInit, RequestInit, LogoutInv, LogoutTypeOK, StatesOK, BackOK, Owned,
   EmptyBuilder, NoUrl, NoState, Settable, Held

\* What build makes of a builder.
LEMMA BuildType ==
  ASSUME drawn \in Nat, LogoutTypeOK, NEW l \in Logout
  PROVE  /\ State(ending[l]) \in 0..(drawn + 1)
         /\ Generates(ending[l]) => State(ending[l]) = drawn + 1
         /\ ~Generates(ending[l]) => State(ending[l]) = ending[l].state
         /\ Names(ending[l]) \subseteq ParameterName
<1>1. ending[l].state \in 0..drawn /\ ending[l].set \subseteq Settable
  BY DEF LogoutTypeOK
<1>2. Names(ending[l]) \subseteq ParameterName
  BY <1>1 DEF Names, ParameterName
<1>3. /\ Generates(ending[l]) => State(ending[l]) = drawn + 1
      /\ ~Generates(ending[l]) => State(ending[l]) = ending[l].state
  BY DEF State, Rand
<1> QED
  BY <1>1, <1>2, <1>3

\* A step that leaves the logouts alone, or draws for others.
LEMMA LogoutsKept ==
  ASSUME LogoutInv, RequestsOK', OnlyDrawn, UNCHANGED logoutVars
  PROVE  LogoutInv'
<1>1. drawn \in Nat /\ drawn' \in Nat /\ drawn' >= drawn
  BY DEF LogoutInv, RequestsOK, OnlyDrawn
<1>2. 0..drawn \subseteq 0..drawn'
  BY <1>1
<1>3. \A l \in Logout : Owned(l)' = Owned(l) /\ Owned(l) \in 0..drawn
  BY DEF LogoutInv, LogoutTypeOK, logoutVars, Owned
<1>4. LogoutTypeOK'
  BY <1>2 DEF LogoutInv, LogoutTypeOK, logoutVars
<1>5. \A l \in Logout, t \in Tx : Owned(l) \notin Held(t)'
  <2> SUFFICES ASSUME NEW l \in Logout, NEW t \in Tx PROVE Owned(l) \notin Held(t)'
    OBVIOUS
  <2>1. Owned(l) \notin (drawn + 1)..drawn'
    BY <1>1, <1>3
  <2>2. Held(t)' \subseteq Held(t) \cup ((drawn + 1)..drawn') /\ Owned(l) \notin Held(t)
    BY DEF OnlyDrawn, LogoutInv, StatesOK
  <2> QED
    BY <2>1, <2>2
<1>6. StatesOK'
  BY <1>3, <1>5 DEF LogoutInv, StatesOK, logoutVars
<1>7. BackOK'
  BY DEF LogoutInv, BackOK, logoutVars
<1> QED
  BY <1>4, <1>6, <1>7 DEF LogoutInv

\* A step of one logout, of which the draw is its own.
LEMMA LogoutStepKeeps == ASSUME LogoutInv, LogoutStep PROVE LogoutInv'
<1> USE DEF LogoutInv, NoState
<1>1. drawn \in Nat /\ MaxDraws \in Nat /\ UNCHANGED <<known, builder, request>>
  BY Bounds DEF RequestsOK, LogoutStep
<1>2. \A t \in Tx : Held(t)' = Held(t) /\ Held(t) \subseteq 1..drawn
  BY <1>1, HeldDrawn DEF Held
<1>3. \A l \in Logout : Owned(l) \in 0..drawn
  BY DEF LogoutTypeOK, Owned
<1>4. ASSUME drawn' \in Nat, drawn <= drawn', drawn' <= MaxDraws PROVE RequestsOK'
  BY <1>1, <1>4, DrawsElsewhere
<1>5. ASSUME NEW l \in Logout, NewLogout(l) PROVE LogoutInv'
  <2>1. LogoutTypeOK' /\ drawn' = drawn
    BY <1>5 DEF NewLogout, LogoutTypeOK
  <2>2. \A m \in Logout : Owned(m)' = Owned(m) /\ (stage'[m] = "url" <=> stage[m] = "url")
    BY <1>5 DEF NewLogout, Owned, LogoutTypeOK
  <2>3. StatesOK' /\ BackOK'
    BY <1>2, <1>5, <2>1, <2>2 DEF NewLogout, StatesOK, BackOK
  <2> QED
    BY <1>4, <1>1, <2>1, <2>3 DEF RequestsOK
<1>6. ASSUME NEW l \in Logout, SetState(l) PROVE LogoutInv'
  <2>1. /\ drawn' = drawn + 1 /\ drawn' <= MaxDraws
        /\ ending'[l].state = drawn'
    BY <1>6 DEF SetState, Draws, Rand, LogoutTypeOK
  <2>2. LogoutTypeOK'
    <3>1. 0..drawn \subseteq 0..drawn' /\ drawn' \in 0..drawn'
      BY <1>1, <2>1
    <3>2. ending' \in [Logout -> [set : SUBSET Settable, state : 0..drawn', locales : SUBSET Locale]]
      <4>1. ending' = [ending EXCEPT ![l].state = drawn'] /\ drawn' \in Nat
        BY <1>1, <1>6, <2>1 DEF SetState, Rand
      <4>2. ending \in [Logout -> [set : SUBSET Settable, state : 0..drawn', locales : SUBSET Locale]]
        BY <1>1, <2>1 DEF LogoutTypeOK
      <4> QED
        BY <3>1, <4>1, <4>2
    <3>3. /\ url \in [Logout -> [endpoint : Nat, query : BOOLEAN, names : SUBSET ParameterName,
                                 state : 0..drawn']]
          /\ returned \in [Logout -> 0..drawn']
      BY <1>1, <2>1, <3>1 DEF LogoutTypeOK
    <3> QED
      BY <1>6, <3>2, <3>3 DEF SetState, LogoutTypeOK
  <2>3. /\ Owned(l)' = drawn + 1
        /\ \A m \in Logout \ {l} : Owned(m)' = Owned(m)
    BY <1>6, <2>1 DEF SetState, Owned, LogoutTypeOK
  <2>4. \A m \in Logout \ {l} : Owned(l)' # Owned(m)'
    BY <1>1, <1>3, <2>3
  <2>5. \A t \in Tx : Owned(l)' \notin Held(t)
    BY <1>1, <1>2, <2>3
  <2>6. StatesOK'
    BY <1>2, <1>6, <2>3, <2>4, <2>5 DEF SetState, StatesOK
  <2>7. BackOK'
    BY <1>6 DEF SetState, BackOK
  <2> QED
    BY <1>1, <1>4, <2>1, <2>2, <2>6, <2>7
<1>7. ASSUME NEW l \in Logout, BuildReturnsUrl(l) PROVE LogoutInv'
  <2>0. PICK b : b = ending[l]
    OBVIOUS
  <2>1. /\ drawn' = IF Generates(b) THEN drawn + 1 ELSE drawn
        /\ drawn <= drawn' /\ drawn' <= MaxDraws /\ drawn' \in Nat
        /\ b.state \in 0..drawn
        /\ stage[l] = "building" /\ stage'[l] = "url" /\ \A m \in Logout \ {l} : stage'[m] = stage[m]
    BY <1>1, <1>7, <2>0 DEF BuildReturnsUrl, Draws, LogoutTypeOK, RequestsOK
  <2>2. PICK s, names, built : s = State(b) /\ names = Names(b) /\ built = Built(b)
    OBVIOUS
  <2>3. /\ s \in 0..drawn' /\ 0..drawn \subseteq 0..drawn' /\ names \subseteq ParameterName
        /\ Generates(b) => s = drawn + 1
        /\ ~Generates(b) => s = b.state
    <3>1. /\ Generates(b) => s = drawn + 1
          /\ ~Generates(b) => s = b.state
          /\ names \subseteq ParameterName
      BY <1>1, <2>0, <2>2, BuildType
    <3> QED
      BY <1>1, <2>1, <3>1
  <2>4. /\ built.state = s /\ built.names = names
        /\ built \in [endpoint : Nat, query : BOOLEAN, names : SUBSET ParameterName, state : 0..drawn']
    <3>1. known \in Nat
      BY Bounds DEF RequestsOK, Version
    <3>2. built = [endpoint |-> known, query |-> known \in OwnQuery \/ names # {},
                   names |-> names, state |-> s]
      BY <2>2 DEF Built
    <3> QED
      BY <2>3, <3>1, <3>2
  <2>5. /\ url' = [url EXCEPT ![l] = built] /\ returned' = [returned EXCEPT ![l] = s]
        /\ stage' = [stage EXCEPT ![l] = "url"] /\ UNCHANGED <<ending, back>>
    BY <1>7, <2>0, <2>2 DEF BuildReturnsUrl
  <2>6. LogoutTypeOK'
    BY <2>3, <2>4, <2>5 DEF LogoutTypeOK
  <2>7. /\ Owned(l)' = s /\ url'[l] = built /\ returned'[l] = s
        /\ \A m \in Logout \ {l} : Owned(m)' = Owned(m) /\ url'[m] = url[m] /\ returned'[m] = returned[m]
    BY <2>1, <2>5 DEF Owned, LogoutTypeOK
  <2>8. Owned(l) = b.state
    BY <2>0, <2>1 DEF Owned
  <2>9. /\ \A m \in Logout \ {l} : s # NoState => s # Owned(m)
        /\ \A t \in Tx : s \notin Held(t)
    <3>1. CASE Generates(b)
      BY <1>1, <1>2, <1>3, <2>3, <3>1
    <3>2. CASE ~Generates(b)
      BY <2>3, <2>8, <3>2 DEF StatesOK
    <3> QED
      BY <3>1, <3>2
  <2>10. "post_logout_redirect_uri" \in names => s # NoState /\ "state" \in names
    <3>1. "post_logout_redirect_uri" \in names => "post_logout_redirect_uri" \in b.set
      BY <2>2 DEF Names
    <3>2. "post_logout_redirect_uri" \in b.set => s # NoState
      BY <1>1, <2>1, <2>3 DEF Generates
    <3>3. s # NoState => "state" \in names
      BY <2>2 DEF Names
    <3> QED
      BY <3>1, <3>2, <3>3
  <2>11. StatesOK'
    BY <1>2, <2>1, <2>4, <2>7, <2>9, <2>10 DEF StatesOK
  <2>12. BackOK'
    BY <2>1, <2>5, <2>7 DEF BackOK
  <2> QED
    BY <1>4, <2>1, <2>6, <2>11, <2>12
<1>8. ASSUME NEW l \in Logout, BuildFails(l) PROVE LogoutInv'
  <2>1. LogoutTypeOK' /\ drawn' = drawn
    BY <1>8 DEF BuildFails, LogoutTypeOK
  <2>2. \A m \in Logout : Owned(m)' = Owned(m) /\ (stage'[m] = "url" <=> stage[m] = "url")
    BY <1>8 DEF BuildFails, Owned, LogoutTypeOK
  <2>3. StatesOK' /\ BackOK'
    BY <1>2, <1>8, <2>1, <2>2 DEF BuildFails, StatesOK, BackOK
  <2> QED
    BY <1>4, <1>1, <2>1, <2>3 DEF RequestsOK
<1>9. ASSUME NEW l \in Logout, ComesBack(l) PROVE LogoutInv'
  <2>1. LogoutTypeOK' /\ drawn' = drawn
    BY <1>9 DEF ComesBack, LogoutTypeOK
  <2>2. StatesOK'
    BY <1>2, <1>9 DEF ComesBack, StatesOK, Owned
  <2>3. BackOK'
    BY <1>9 DEF ComesBack, BackOK, StatesOK
  <2> QED
    BY <1>4, <1>1, <2>1, <2>2, <2>3 DEF RequestsOK
<1>10. ASSUME NEW l \in Logout, NEW name \in Settable, SetParameter(l, name) PROVE LogoutInv'
  <2>1. LogoutTypeOK' /\ drawn' = drawn
    BY <1>10 DEF SetParameter, LogoutTypeOK
  <2>2. \A m \in Logout : Owned(m)' = Owned(m)
    BY <1>10 DEF SetParameter, Owned, LogoutTypeOK
  <2>3. StatesOK' /\ BackOK'
    BY <1>2, <1>10, <2>1, <2>2 DEF SetParameter, StatesOK, BackOK
  <2> QED
    BY <1>4, <1>1, <2>1, <2>3 DEF RequestsOK
<1>11. ASSUME NEW l \in Logout, NEW tag \in Locale, AddLocale(l, tag) PROVE LogoutInv'
  <2>1. LogoutTypeOK' /\ drawn' = drawn
    BY <1>11 DEF AddLocale, LogoutTypeOK
  <2>2. \A m \in Logout : Owned(m)' = Owned(m)
    BY <1>11 DEF AddLocale, Owned, LogoutTypeOK
  <2>3. StatesOK' /\ BackOK'
    BY <1>2, <1>11, <2>1, <2>2 DEF AddLocale, StatesOK, BackOK
  <2> QED
    BY <1>4, <1>1, <2>1, <2>3 DEF RequestsOK
<1> QED
  BY <1>5, <1>6, <1>7, <1>8, <1>9, <1>10, <1>11 DEF LogoutStep

LEMMA LogoutNextInv == LogoutInv /\ [LogoutNext]_<<requestVars, logoutVars>> => LogoutInv'
<1> SUFFICES ASSUME LogoutInv, [LogoutNext]_<<requestVars, logoutVars>> PROVE LogoutInv'
  OBVIOUS
<1>1. CASE LogoutStep
  BY <1>1, LogoutStepKeeps
<1>2. CASE RequestStep /\ UNCHANGED logoutVars
  BY <1>2, RequestStepKeeps, LogoutsKept DEF LogoutInv
<1>3. CASE UNCHANGED <<requestVars, logoutVars>>
  <2>1. RequestsOK' /\ OnlyDrawn
    BY <1>3, Bounds DEF LogoutInv, requestVars, RequestsOK, Version, SecretsOK, HasSecret, Held, OnlyDrawn
  <2> QED
    BY <1>3, <2>1, LogoutsKept
<1> QED
  BY <1>1, <1>2, <1>3 DEF LogoutNext

\* With any number of logouts and logins under way, whoever comes back from a
\* logout is recognised, and its state is no login's.
THEOREM EchoIdentifies == LogoutSpec => []EchoIdentifiesLogout
<1>1. LogoutInv => EchoIdentifiesLogout
  <2> SUFFICES ASSUME LogoutInv, NEW r \in back
               PROVE  /\ r.state # NoState
                      /\ {l \in Logout : stage[l] = "url" /\ returned[l] = r.state} = {r.logout}
                      /\ \A t \in Tx : request[t] # None => request[t].state # r.state
    BY DEF EchoIdentifiesLogout
  <2>1. /\ r.logout \in Logout /\ stage[r.logout] = "url"
        /\ r.state = returned[r.logout] /\ r.state # NoState
        /\ Owned(r.logout) = r.state
    BY DEF LogoutInv, BackOK, Owned
  <2>2. \A l \in Logout : stage[l] = "url" /\ returned[l] = r.state => l = r.logout
    BY <2>1 DEF LogoutInv, StatesOK, Owned
  <2>3. ASSUME NEW t \in Tx, request[t] # None PROVE request[t].state # r.state
    <3>1. request[t].state \in 1..drawn /\ drawn \in Nat
      BY <2>3 DEF LogoutInv, RequestsOK, SecretsOK
    <3>2. request[t].state \in Held(t)
      BY <2>3, <3>1, NoneIsAbsent DEF Held, Random
    <3> QED
      BY <2>1, <3>2 DEF LogoutInv, StatesOK
  <2> QED
    BY <2>1, <2>2, <2>3
<1> QED
  BY <1>1, LogoutInitInv, LogoutNextInv, PTL DEF LogoutSpec
=============================================================================
