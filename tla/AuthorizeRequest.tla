-------------------------- MODULE AuthorizeRequest --------------------------
(***************************************************************************)
(* The authorization request (src/src/flow/authorize.rs): a builder draws   *)
(* state, nonce and PKCE verifier, takes what the application sets, and     *)
(* build makes the URL for the user and the pending request for the store.  *)
(*                                                                         *)
(* A random string is the number of its draw, a challenge the hash of a     *)
(* verifier, and a query the sequence of its parameters.  Durations are in  *)
(* ticks, Second of them to a second.                                      *)
(*                                                                         *)
(* A definition X_Y is X with a plausible mistake in it, which some        *)
(* property must notice.                                                   *)
(***************************************************************************)
EXTENDS Integers, Sequences, FiniteSets

CONSTANTS
  None,
  Tx,         \* authorization requests
  Confidential, \* those of a client that has a secret
  Redirect,   \* redirect URIs of the application
  ScopeLists, \* scopes it asks for, as sets
  MaxAges,    \* durations it asks for
  Extras,     \* parameters passed to extra_param, acr_values, login_hint, ui_locales
  Document,   \* of each version: the query of the authorization endpoint, and the
              \* methods its token endpoint lists
  MaxVersion, \* bound: documents
  Second,     \* ticks per second
  MaxDraws,   \* bound: random strings drawn
  MaxSettings \* bound: settings of one builder

ASSUME Kinds == Confidential \subseteq Tx /\ Second \in Nat \ {0} /\ MaxAges \subseteq Nat
ASSUME NoneIsAbsent ==
  None \notin Nat \cup Tx \cup Redirect /\ \A draw \in 0..MaxDraws : None # [s256 |-> draw]
ASSUME QueriesAreQueries ==
  \A v \in 0..MaxVersion :
    Document[v].query \in Seq({Document[v].query[i] : i \in DOMAIN Document[v].query})
ASSUME Bounds == {MaxVersion, MaxDraws, MaxSettings} \subseteq Nat

Version == 0..MaxVersion
HasSecret(t) == t \in Confidential
Option(S) == S \cup {None}
Options == {"response_mode", "prompt", "id_token_hint"}

VARIABLES
  known,    \* the document the client has
  drawn,    \* how many random strings were drawn, by any builder
  builder,  \* each AuthorizeUrlBuilder, None before and after
  request   \* each AuthRequestState

requestVars == <<known, drawn, builder, request>>

RequestInit ==
  /\ known = 0 /\ drawn = 0
  /\ builder = [t \in Tx |-> None]
  /\ request = [t \in Tx |-> None]

\* random_url_safe: the n-th random string from here.
Rand(n) == drawn + n

\* new_random of State, Nonce and PkceCodeVerifier: the next n draws.
Draws(n) == drawn + n <= MaxDraws /\ drawn' = drawn + n

\* PkceCodeChallenge::s256_from_verifier
Hash(verifier) == [s256 |-> verifier]

P(name, value) == <<[name |-> name, value |-> value]>>

Refresh ==
  /\ known < MaxVersion
  /\ known' = known + 1
  /\ UNCHANGED <<drawn, builder, request>>

\* A Scope is the set of what spaces separate in it.
AsksOpenid(scopes) == "openid" \in scopes

\* AuthorizeUrlBuilder::new.  The endpoint is that of the document at this moment.
\* A client without a secret gets a verifier.
DrawsVerifier(t) == ~HasSecret(t)

New(t, redirect, scopes) ==
  /\ builder[t] = None /\ request[t] = None
  /\ AsksOpenid(scopes)
  /\ Draws(IF DrawsVerifier(t) THEN 3 ELSE 2)
  /\ builder' = [builder EXCEPT ![t] =
       [url |-> Document[known].query \o P("response_type", "code") \o P("client_id", "id")
                  \o P("redirect_uri", redirect) \o P("scope", scopes),
        state |-> Rand(1), nonce |-> Rand(2),
        verifier |-> IF DrawsVerifier(t) THEN Rand(3) ELSE None,
        challenge |-> IF DrawsVerifier(t) THEN Hash(Rand(3)) ELSE None,
        options |-> {}, maxAge |-> None, extra |-> <<>>,
        redirect |-> redirect, scopes |-> scopes]]
  /\ UNCHANGED <<known, request>>

\* pkce_s256 replaces the verifier and its challenge.
WithPkce_OldChallenge(b, draw) ==
  [b EXCEPT !.verifier = draw,
            !.challenge = IF b.challenge = None THEN Hash(draw) ELSE b.challenge]
WithPkce(b, draw) == [b EXCEPT !.verifier = draw, !.challenge = Hash(draw)]

PkceS256(t) ==
  /\ builder[t] # None
  /\ Draws(1)
  /\ builder' = [builder EXCEPT ![t] = WithPkce(@, Rand(1))]
  /\ UNCHANGED <<known, request>>

\* Whether another setting is made of a builder, replacing one or not.
MaySet(t) ==
  /\ builder[t] # None
  /\ LET b == builder[t]
     IN  Cardinality(b.options) + Len(b.extra) + (IF b.maxAge = None THEN 0 ELSE 1) < MaxSettings

\* response_mode, prompt, id_token_hint: the last value counts.
SetOption(t, o) ==
  /\ MaySet(t)
  /\ builder' = [builder EXCEPT ![t].options = @ \cup {o}]
  /\ UNCHANGED <<known, drawn, request>>

SetMaxAge(t, age) ==
  /\ MaySet(t)
  /\ builder' = [builder EXCEPT ![t].maxAge = age]
  /\ UNCHANGED <<known, drawn, request>>

\* acr_values, login_hint, ui_locales and extra_param append, each time.
AddExtra(t, p) ==
  /\ MaySet(t)
  /\ builder' = [builder EXCEPT ![t].extra = Append(@, p)]
  /\ UNCHANGED <<known, drawn, request>>

\* Duration::as_secs
AsSecs_Up(d) == (d + Second - 1) \div Second
AsSecs(d) == d \div Second

\* The parameters that build adds, in its order.
Added(b) ==
  P("state", b.state) \o P("nonce", b.nonce)
    \o (IF b.challenge = None THEN <<>>
        ELSE P("code_challenge", b.challenge) \o P("code_challenge_method", "S256"))
    \o (IF "response_mode" \in b.options THEN P("response_mode", "set") ELSE <<>>)
    \o (IF "prompt" \in b.options THEN P("prompt", "set") ELSE <<>>)
    \o (IF b.maxAge = None THEN <<>> ELSE P("max_age", AsSecs(b.maxAge)))
    \o (IF "id_token_hint" \in b.options THEN P("id_token_hint", "set") ELSE <<>>)
    \o b.extra

\* AuthRequestState; to_pending takes all of it but the URL.
RequestState(b) ==
  [url |-> b.url \o Added(b), state |-> b.state, nonce |-> b.nonce, verifier |-> b.verifier,
   maxAge |-> b.maxAge, redirect |-> b.redirect, scopes |-> b.scopes]

\* build
Build(t) ==
  /\ builder[t] # None
  /\ request' = [request EXCEPT ![t] = RequestState(builder[t])]
  /\ builder' = [builder EXCEPT ![t] = None]
  /\ UNCHANGED <<known, drawn>>

RequestStep ==
  \/ Refresh
  \/ \E t \in Tx :
       \/ \E r \in Redirect, s \in ScopeLists : New(t, r, s)
       \/ PkceS256(t) \/ Build(t)
       \/ \E o \in Options : SetOption(t, o)
       \/ \E d \in MaxAges : SetMaxAge(t, d)
       \/ \E p \in Extras : AddExtra(t, p)
=============================================================================
