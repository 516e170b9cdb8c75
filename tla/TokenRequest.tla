---------------------------- MODULE TokenRequest ----------------------------
(***************************************************************************)
(* The token requests (src/src/flow/token.rs) that follow an authorization  *)
(* request: the exchange of the code by complete_authorization or by hand,  *)
(* and the refresh grant, with the client authentication picked from what   *)
(* the provider lists.  Credentials are the strings "id" and "secret".      *)
(***************************************************************************)
EXTENDS AuthorizeRequest

Methods == {"client_secret_basic", "client_secret_post", "none"}

ASSUME NoneIsNoMethod == None \notin Methods /\ None # <<"id", "secret">>

VARIABLES
  sent,    \* the last token request of each transaction, or why there is none
  refresh  \* the refresh token each transaction has: "token" or None

vars == <<requestVars, sent, refresh>>

Init ==
  /\ RequestInit
  /\ sent = [t \in Tx |-> None]
  /\ refresh = [t \in Tx |-> None]

Failed(why) == [failed |-> TRUE, why |-> why]

\* TokenAuthMethod::from_metadata, None when nothing listed fits the client.
AuthMethod(t, listed) ==
  IF listed = None THEN IF HasSecret(t) THEN "client_secret_basic" ELSE "none"
  ELSE IF ~HasSecret(t) THEN IF "none" \in listed THEN "none" ELSE None
  ELSE IF "client_secret_basic" \in listed THEN "client_secret_basic"
  ELSE IF "client_secret_post" \in listed THEN "client_secret_post" ELSE None

\* How a request is authenticated: Basic credentials in the header, or parameters.
Header(method) == IF method = "client_secret_basic" THEN <<"id", "secret">> ELSE None

Credentials_PostBoth(method) ==
  CASE method = "none" -> P("client_id", "id")
    [] OTHER -> P("client_id", "id") \o P("client_secret", "secret")
Credentials(method) ==
  CASE method = "client_secret_basic" -> <<>>
    [] method = "client_secret_post" -> P("client_id", "id") \o P("client_secret", "secret")
    [] method = "none" -> P("client_id", "id")

Posted(method, grant, form) ==
  [failed |-> FALSE, method |-> method, grant |-> grant, header |-> Header(method),
   form |-> form \o Credentials(method), endpoint |-> known]

Optional(name, value) == IF value = None THEN <<>> ELSE P(name, value)

\* CodeTokenRequest::build, from what the builder holds; None for an empty code.
BuildCode(t, method, code, redirect, verifier) ==
  IF method # "none" /\ ~HasSecret(t) THEN Failed("client_secret required")
  ELSE IF code = None THEN Failed("authorization code required")
  ELSE IF redirect = None THEN Failed("redirect_uri required")
  ELSE IF method = "none" /\ verifier = None THEN Failed("missing PKCE verifier")
  ELSE Posted(method, "authorization_code",
              P("code", code) \o P("redirect_uri", redirect) \o Optional("code_verifier", verifier))

\* RefreshTokenRequest::build
BuildRefresh(t, method, scope) ==
  IF method # "none" /\ ~HasSecret(t) THEN Failed("client_secret required")
  ELSE Posted(method, "refresh_token", P("refresh_token", "token") \o Optional("scope", scope))

\* auth_method of the builders.
Overridden(method, override) == IF override = None THEN method ELSE override

\* exchange_code, exchange_refresh_token: no builder when no method fits.
Picked(t, override) ==
  LET method == AuthMethod(t, Document[known].methods)
  IN  IF method = None THEN None ELSE Overridden(method, override)

\* CodeTokenRequest, with what its setters were given.
CodeRequest(t, override, code, redirect, verifier) ==
  IF Picked(t, override) = None THEN Failed("invalid metadata")
  ELSE BuildCode(t, Picked(t, override), code, redirect, verifier)

\* RefreshTokenRequest, likewise.
RefreshRequest(t, override, scope) ==
  IF Picked(t, override) = None THEN Failed("invalid metadata")
  ELSE BuildRefresh(t, Picked(t, override), scope)

\* complete_authorization_from_pending: the values of the pending request.
Complete(t) ==
  /\ request[t] # None /\ sent[t] = None
  /\ sent' = [sent EXCEPT ![t] = CodeRequest(t, None, t, request[t].redirect, request[t].verifier)]
  /\ UNCHANGED <<requestVars, refresh>>

\* exchange_code, and an application that sets what it wants or forgets it.
ExchangeByHand(t) ==
  /\ request[t] # None /\ sent[t] = None
  /\ \E override \in Option(Methods), code \in {t, None},
        redirect \in {request[t].redirect, None}, verifier \in {request[t].verifier, None} :
       sent' = [sent EXCEPT ![t] = CodeRequest(t, override, code, redirect, verifier)]
  /\ UNCHANGED <<requestVars, refresh>>

Sent(t) == sent[t] # None /\ ~sent[t].failed

Sendable == {"absent", "", "token"}

\* The newtypes of tokens and credentials hold no empty string.
Nonempty(text) == text # ""

\* deserialize_refresh_token: an empty refresh token is none.
RefreshTokenRead(token) == IF token # "absent" /\ Nonempty(token) THEN token ELSE None

\* deserialize_access_token: a response without an access token, or with an
\* empty one, is an error, and then its refresh token is lost with it.
ResponseError(access) == access = "absent" \/ ~Nonempty(access)

Answered(t) ==
  /\ Sent(t) /\ refresh[t] = None
  /\ \E access, token \in Sendable :
       refresh' = [refresh EXCEPT ![t] =
         IF ResponseError(access) THEN None ELSE RefreshTokenRead(token)]
  /\ UNCHANGED <<requestVars, sent>>

RefreshTokens(t) ==
  /\ refresh[t] # None
  /\ \E override \in Option(Methods), scope \in {"scope", None} :
       sent' = [sent EXCEPT ![t] = RefreshRequest(t, override, scope)]
  /\ UNCHANGED <<requestVars, refresh>>

Next ==
  \/ RequestStep /\ UNCHANGED <<sent, refresh>>
  \/ \E t \in Tx : Complete(t) \/ ExchangeByHand(t) \/ Answered(t) \/ RefreshTokens(t)

Spec == Init /\ [][Next]_vars

-----------------------------------------------------------------------------
Values(params, name) == {params[i].value : i \in {j \in DOMAIN params : params[j].name = name}}
Count(params, name) == {i \in DOMAIN params : params[i].name = name}

\* Parameters that are not the builder's: those of the endpoint and the application.
OwnNames ==
  {p.name : p \in Extras}
    \cup UNION {{Document[v].query[i].name : i \in DOMAIN Document[v].query} : v \in Version}

\* What the user takes to the provider and what is stored for the callback agree,
\* for every order of setters: the provider sees each parameter once, with the
\* stored value, unless the endpoint or the application has a parameter of that
\* name; a max_age no looser; and the verifier nowhere, nor a random string of
\* another request (authorize.rs:273).
UrlMatchesPending ==
  \A t \in Tx : request[t] # None =>
    LET url == request[t].url
        Once(name, value) == name \notin OwnNames => /\ Values(url, name) = {value}
                                                /\ \A i, j \in Count(url, name) : i = j
        Never(name) == name \notin OwnNames => Values(url, name) = {}
        Random(u) == {request[u].state, request[u].nonce, request[u].verifier} \ {None}
    IN  /\ Once("state", request[t].state) /\ Once("nonce", request[t].nonce)
        /\ Once("redirect_uri", request[t].redirect) /\ Once("scope", request[t].scopes)
        /\ IF request[t].verifier = None THEN Never("code_challenge")
           ELSE /\ Once("code_challenge", Hash(request[t].verifier))
                /\ request[t].verifier \notin {request[t].state, request[t].nonce}
        /\ IF request[t].maxAge = None THEN Never("max_age")
           ELSE "max_age" \notin OwnNames =>
                  /\ Values(url, "max_age") # {}
                  /\ \A s \in Values(url, "max_age") : Second * s <= request[t].maxAge
        /\ \A u \in Tx \ {t} : request[u] # None => Random(t) \cap Random(u) = {}

\* A transaction that was begun can be completed as far as the pending request
\* goes, and a provider that checks the code's redirect URI and challenge accepts
\* what complete_authorization sends.  Only a provider that now lists no method
\* for the client stops it (authorize.rs:160 draws the verifier that token.rs:186
\* insists on).
ProviderAccepts ==
  [][ \A t \in Tx : Complete(t) =>
        IF sent'[t].failed THEN sent'[t].why = "invalid metadata"
        ELSE /\ "redirect_uri" \notin OwnNames =>
                  Values(sent'[t].form, "redirect_uri") = Values(request[t].url, "redirect_uri")
             /\ "code_challenge" \notin OwnNames =>
                  {Hash(v) : v \in Values(sent'[t].form, "code_verifier")}
                    = Values(request[t].url, "code_challenge") ]_vars

\* The secret leaves the client once, the way the method says, and not at all
\* without a secret, as RFC 6749 demands; and what is left to the library is done
\* by a method the document lists when the request is made, though the provider
\* changed its list since the authorization request (token.rs:56, 205, 317).
SecretSentOnce ==
  [][ \A t \in Tx : sent'[t] # sent[t] /\ ~sent'[t].failed =>
        LET inForm == "secret" \in Values(sent'[t].form, "client_secret")
            inHeader == sent'[t].header # None
            listed == Document[known].methods
        IN  /\ inForm <=> sent'[t].method = "client_secret_post"
            /\ inHeader <=> sent'[t].method = "client_secret_basic"
            /\ inForm \/ inHeader => HasSecret(t)
            /\ inHeader => Values(sent'[t].form, "client_id") = {}
            /\ Complete(t) /\ listed # None => sent'[t].method \in listed ]_vars
=============================================================================
