------------------------------ MODULE AuthFlow ------------------------------
(***************************************************************************)
(* The authorization-code flow across the instances of an application      *)
(* (src/src/flow/authorize.rs, src/src/client.rs): a transaction is begun  *)
(* at one instance and stored, the user comes back with a callback that    *)
(* may be delivered several times and anywhere, and a call of              *)
(* complete_authorization takes the transaction from the store, refreshes  *)
(* the metadata, validates, and sends the token request.                   *)
(*                                                                         *)
(* The store is SingleUseStore, the contract KvStore is proved to keep.    *)
(* A transaction stands for the random state, nonce and PKCE verifier and  *)
(* for the redirect URI that its pending request holds, a code for what    *)
(* the provider issued.  Browsers bring any code beside any state, so the  *)
(* answers to a token request may be those of another login: the provider  *)
(* refuses a wrong verifier for a transaction that had a challenge, and the *)
(* application verifies the nonce of the ID token it gets.  Each instance   *)
(* has a wall clock that is off by up to MaxSkew and may be adjusted.      *)
(*                                                                         *)
(* A definition X_Y is X with a plausible mistake in it, which some        *)
(* property must notice.                                                   *)
(***************************************************************************)
EXTENDS Integers

CONSTANTS
  None,
  Instance,   \* processes of the application, each with its Client
  Tx,         \* transactions
  Challenged, \* those begun with a PKCE challenge: by a public client, or pkce_s256
  Code,       \* authorization codes
  Iss,        \* the iss that callbacks bring, by what it is compared with
  Call,       \* completions, one for each time a callback is delivered
  Ttl,        \* PendingAuthRequest::DEFAULT_TTL
  MaxSkew,    \* bound: how far a wall clock is off
  MaxTime,    \* bound: the clock stops here
  MaxVersion, \* bound: documents the provider publishes
  Document    \* what a completion reads of each version: whether the provider
              \* sends iss, and offers an authentication method the client has

ASSUME ChallengedAreTx == Challenged \subseteq Tx
ASSUME Issuers == Iss \subseteq {"expected", "other", "absent"}
ASSUME TtlIsNat == Ttl \in Nat
ASSUME Bounds == MaxTime \in Nat /\ MaxSkew \in Nat /\ MaxVersion \in Nat
ASSUME Documents == Document \in [0..MaxVersion -> [iss : BOOLEAN, method : BOOLEAN]]

\* How a completion may end.
Outcomes == {"missing state", "storage", "refresh", "state mismatch", "from future", "expired",
             "issuer mismatch", "missing iss", "provider error", "invalid metadata",
             "token request", "id token", "complete", "dropped"}

Request == [code : Code, tx : Tx]

ASSUME NoneIsNothingElse == None \notin Tx \cup Code \cup Call \cup Instance \cup Int
Option(S) == S \cup {None}

\* AuthorizationResponse: an error response has no code.
Response == [state : Tx, code : Option(Code), iss : Iss]

ASSUME NoneIsNoResult == None \notin Outcomes /\ None \notin Request /\ None \notin Response

InFlight == {"taking", "refreshing", "exchanging", "verifying"}

VARIABLES
  clock,      \* true time, which the store keeps
  offset,     \* SystemTime::now of an instance is clock + offset
  published,  \* the version of the document the provider serves
  known,      \* the version each instance has
  pending,    \* the PendingAuthRequest of each transaction that was begun
  slot, created, deadline, carried, received,  \* the store
  issued,     \* the transaction each code was issued for
  pc, at, response, lookup,  \* each completion, its instance, its callback,
                             \* and the transaction it takes
  sent,       \* the token request of each completion: code, and the
              \* transaction whose verifier and redirect URI it carries
  outcome,    \* how each completion ended
  tokens      \* the transaction whose tokens it was given

storeVars == <<slot, created, deadline, carried, received>>
worldVars == <<offset, published, pending, issued>>
callVars == <<pc, at, response, lookup, sent, outcome, tokens>>
vars == <<clock, known, worldVars, storeVars, callVars>>

Store == INSTANCE SingleUseStore WITH
  Value <- Tx, Key <- Tx, Taker <- Call, Instant <- 0..(MaxTime + Ttl), time <- clock

Init ==
  /\ Store!Init
  /\ offset \in [Instance -> -MaxSkew..MaxSkew]
  /\ published = 0
  /\ known = [i \in Instance |-> 0]
  /\ pending = [t \in Tx |-> None]
  /\ issued = [c \in Code |-> None]
  /\ pc = [d \in Call |-> "idle"]
  /\ at = [d \in Call |-> None]
  /\ response = [d \in Call |-> None]
  /\ lookup = [d \in Call |-> None]
  /\ sent = [d \in Call |-> None]
  /\ outcome = [d \in Call |-> None]
  /\ tokens = [d \in Call |-> None]

Wall(i) == clock + offset[i]

-----------------------------------------------------------------------------
(* The environment.                                                        *)

Tick ==
  /\ clock < MaxTime
  /\ Store!Tick
  /\ UNCHANGED <<known, worldVars, callVars>>

\* The wall clock of an instance is set.
AdjustClock(i) ==
  /\ \E o \in -MaxSkew..MaxSkew : o # offset[i] /\ offset' = [offset EXCEPT ![i] = o]
  /\ UNCHANGED <<clock, known, published, pending, issued, storeVars, callVars>>

\* The issuer of a document never changes: discover refuses another.
ProviderUpdates ==
  /\ published < MaxVersion
  /\ published' = published + 1
  /\ UNCHANGED <<clock, known, offset, pending, issued, storeVars, callVars>>

\* The store forgets what has expired.
Expire ==
  /\ Store!Purge
  /\ UNCHANGED <<known, worldVars, callVars>>

-----------------------------------------------------------------------------
(* The first leg.                                                          *)

\* AuthorizeUrlBuilder::build and to_pending, which reads the wall clock.  When
\* it was truly begun is recorded for the properties.
Begin(i, t) ==
  /\ pending[t] = None
  /\ pending' = [pending EXCEPT ![t] = [createdAt |-> Wall(i), bornAt |-> clock]]
  /\ UNCHANGED <<clock, known, offset, published, issued, storeVars, callVars>>

\* put_if_absent under the transaction's own storage_key, for DEFAULT_TTL; the
\* user is redirected only if it succeeds.
Put(t) ==
  /\ pending[t] # None
  /\ Store!Create(t)
  /\ slot'[t] = t /\ deadline'[t] = clock + Ttl
  /\ UNCHANGED <<known, worldVars, callVars>>

\* The user who was redirected authorizes, perhaps again with a second code.
UserAuthorizes(t, c) ==
  /\ t \in created /\ issued[c] = None
  /\ issued' = [issued EXCEPT ![c] = t]
  /\ UNCHANGED <<clock, known, offset, published, pending, storeVars, callVars>>

-----------------------------------------------------------------------------
(* The second leg, up to the transaction.                                  *)

\* A browser brings any state, code and iss beside one another, once or again, or
\* an error; a state or code that is not known yet stands for one that never was.
\* complete_authorization looks the transaction up by the state of the callback.
\* An application that calls complete_authorization_from_pending has taken the
\* transaction by a key of its own, which may be that of another one.
Deliver(d, i) ==
  /\ pc[d] = "idle"
  /\ \E r \in Response, t \in Tx :
       /\ response' = [response EXCEPT ![d] = r]
       /\ lookup' = [lookup EXCEPT ![d] = t]
  /\ at' = [at EXCEPT ![d] = i]
  /\ pc' = [pc EXCEPT ![d] = "taking"]
  /\ UNCHANGED <<clock, known, worldVars, storeVars, sent, outcome, tokens>>

Return(d, result) ==
  /\ pc' = [pc EXCEPT ![d] = "done"]
  /\ outcome' = [outcome EXCEPT ![d] = result]
  /\ at' = [at EXCEPT ![d] = None]
  /\ lookup' = [lookup EXCEPT ![d] = None]
  /\ UNCHANGED response

\* take, atomically: the pending request leaves the store.
Consumed_Peeked(d) ==
  /\ carried[d] = None /\ received[d] = None
  /\ carried' = [carried EXCEPT ![d] = slot[lookup[d]]]
  /\ UNCHANGED <<clock, slot, created, deadline, received>>
Consumed_CodesOnly(d) ==
  IF response[d].code = None THEN Consumed_Peeked(d) ELSE Store!Remove(d)
Consumed(d) == Store!Remove(d)

TakeRemoves(d) ==
  /\ pc[d] = "taking" /\ slot[lookup[d]] # None
  /\ Consumed(d)
  /\ carried'[d] = lookup[d]
  /\ UNCHANGED <<known, worldVars, callVars>>

TakeReturns(d) ==
  /\ pc[d] = "taking"
  /\ Store!Receive(d)
  /\ pc' = [pc EXCEPT ![d] = "refreshing"]
  /\ UNCHANGED <<known, worldVars, at, response, lookup, sent, outcome, tokens>>

\* Nothing is stored there, or it has expired since it was removed.
TakeFindsNothing(d) ==
  /\ pc[d] = "taking"
  /\ \/ carried[d] = None /\ slot[lookup[d]] = None /\ UNCHANGED <<clock, storeVars>>
     \/ Store!Discard(d)
  /\ Return(d, "missing state")
  /\ UNCHANGED <<known, worldVars, sent, tokens>>

\* The store reports an error, before or after it removed the entry, or what it
\* holds is not a pending request of this version.
TakeFails(d) ==
  /\ pc[d] = "taking"
  /\ carried' = [carried EXCEPT ![d] = None]
  /\ Return(d, "storage")
  /\ UNCHANGED <<clock, known, worldVars, slot, created, deadline, received, sent, tokens>>

-----------------------------------------------------------------------------
(* complete_authorization_from_pending.                                    *)

\* refresh_metadata_if_stale returns the document the instance has, or a newer
\* one that was published.
Refreshes(d, v) ==
  /\ v \in known[at[d]]..published
  /\ known' = [known EXCEPT ![at[d]] = v]

RefreshFails(d) ==
  /\ pc[d] = "refreshing"
  /\ Return(d, "refresh")
  /\ UNCHANGED <<clock, known, worldVars, storeVars, sent, tokens>>

\* validate_pending_request
StateMatches_Always(d) == TRUE
StateMatches(d) == received[d] = response[d].state

\* validate_created_at.  The age is exact: no leeway for skewed clocks.
AgeError_Early(d) ==
  LET age == Wall(at[d]) - pending[received[d]].createdAt
  IN  IF age < 0 THEN "from future" ELSE IF age >= Ttl THEN "expired" ELSE None
AgeError_Leeway(d) ==
  LET age == Wall(at[d]) - pending[received[d]].createdAt
  IN  IF age < 0 THEN "from future" ELSE IF age > Ttl + 1 THEN "expired" ELSE None
AgeError(d) ==
  LET age == Wall(at[d]) - pending[received[d]].createdAt
  IN  IF age < 0 THEN "from future" ELSE IF age > Ttl THEN "expired" ELSE None

\* RFC 9207, by the document the refresh returned.
IssuerError_Lax(d, v) == IF response[d].iss = "other" THEN "issuer mismatch" ELSE None
IssuerError(d, v) ==
  CASE response[d].iss = "other" -> "issuer mismatch"
    [] response[d].iss = "absent" /\ Document[v].iss -> "missing iss"
    [] OTHER -> None

\* AuthorizationResponse::Error
IsError(d) == response[d].code = None

\* The error a validated completion returns, in the order of the code; None when
\* the token request can be built and is sent.
Verdict(d, v) ==
  IF ~StateMatches(d) THEN "state mismatch"
  ELSE IF AgeError(d) # None THEN AgeError(d)
  ELSE IF IssuerError(d, v) # None THEN IssuerError(d, v)
  ELSE IF IsError(d) THEN "provider error"
  ELSE IF ~Document[v].method THEN "invalid metadata" ELSE None

Refuses(d) ==
  /\ pc[d] = "refreshing"
  /\ \E v \in 0..MaxVersion :
       /\ Refreshes(d, v)
       /\ Verdict(d, v) # None
       /\ Return(d, Verdict(d, v))
  /\ UNCHANGED <<clock, worldVars, storeVars, sent, tokens>>

\* exchange_code_with_metadata, the values of the pending request, the POST.
SendsRequest(d) ==
  /\ pc[d] = "refreshing"
  /\ \E v \in 0..MaxVersion : Refreshes(d, v) /\ Verdict(d, v) = None
  /\ sent' = [sent EXCEPT ![d] = [code |-> response[d].code, tx |-> received[d]]]
  /\ pc' = [pc EXCEPT ![d] = "exchanging"]
  /\ UNCHANGED <<clock, worldVars, storeVars, at, response, lookup, outcome, tokens>>

\* post_token_request: the provider answers 200 with the tokens of the code,
\* perhaps for the second time.  It compares the verifier with the challenge if the
\* code was issued with one, and with nothing otherwise.
ChallengeMet(request) ==
  issued[request.code] \in Challenged => issued[request.code] = request.tx

Exchanged(d) ==
  /\ pc[d] = "exchanging"
  /\ issued[sent[d].code] # None /\ ChallengeMet(sent[d])
  /\ tokens' = [tokens EXCEPT ![d] = issued[sent[d].code]]
  /\ pc' = [pc EXCEPT ![d] = "verifying"]
  /\ UNCHANGED <<clock, known, worldVars, storeVars, at, response, lookup, sent, outcome>>

\* A refusal, transport error, lost answer, other status or unreadable body.
ExchangeFails_Retries(d) ==
  /\ pc[d] = "exchanging"
  /\ pc' = [pc EXCEPT ![d] = "refreshing"]
  /\ UNCHANGED <<clock, known, worldVars, storeVars, at, response, lookup, sent, outcome, tokens>>
ExchangeFails(d) ==
  /\ pc[d] = "exchanging"
  /\ Return(d, "token request")
  /\ UNCHANGED <<clock, known, worldVars, storeVars, sent, tokens>>

\* CompleteAuthorization::verify_id_token, which the application calls on what it
\* gets: the ID token has the nonce its login was begun with, check_nonce compares
\* it with that of the pending request.
NonceMatches_Always(d) == TRUE
NonceMatches(d) == tokens[d] = received[d]

Verifies(d) ==
  /\ pc[d] = "verifying"
  /\ NonceMatches(d)
  /\ Return(d, "complete")
  /\ UNCHANGED <<clock, known, worldVars, storeVars, sent, tokens>>

\* Another nonce, no ID token, no keys, or any other check that fails.
VerifyFails(d) ==
  /\ pc[d] = "verifying"
  /\ Return(d, "id token")
  /\ UNCHANGED <<clock, known, worldVars, storeVars, sent, tokens>>

\* The futures of the completions D are dropped at their awaits.
Dropped(D) ==
  /\ \A d \in D : pc[d] \in InFlight
  /\ pc' = [d \in Call |-> IF d \in D THEN "done" ELSE pc[d]]
  /\ outcome' = [d \in Call |-> IF d \in D THEN "dropped" ELSE outcome[d]]
  /\ carried' = [d \in Call |-> IF d \in D THEN None ELSE carried[d]]
  /\ at' = [d \in Call |-> IF d \in D THEN None ELSE at[d]]
  /\ lookup' = [d \in Call |-> IF d \in D THEN None ELSE lookup[d]]
  /\ UNCHANGED <<clock, worldVars, slot, created, deadline, received, response, sent, tokens>>

Cancel(d) == Dropped({d}) /\ UNCHANGED known

\* An instance stops and starts again, discovering its provider.
Restart(i) ==
  /\ Dropped({d \in Call : pc[d] \in InFlight /\ at[d] = i})
  /\ known' = [known EXCEPT ![i] = published]

-----------------------------------------------------------------------------
Progress(d) ==
  \/ TakeRemoves(d) \/ TakeReturns(d) \/ TakeFindsNothing(d) \/ TakeFails(d)
  \/ RefreshFails(d) \/ Refuses(d) \/ SendsRequest(d) \/ Exchanged(d) \/ ExchangeFails(d)
  \/ Verifies(d) \/ VerifyFails(d)

Next ==
  \/ Tick \/ ProviderUpdates \/ Expire
  \/ \E i \in Instance : \/ AdjustClock(i) \/ Restart(i)
                         \/ \E t \in Tx : Begin(i, t)
                         \/ \E d \in Call : Deliver(d, i)
  \/ \E t \in Tx : \/ Put(t) \/ \E c \in Code : UserAuthorizes(t, c)
  \/ \E d \in Call : Progress(d) \/ Cancel(d)

Spec == Init /\ [][Next]_vars

\* A completion is polled, the store and the transport answer, and the application
\* goes on to verify what it gets.
Fairness == \A d \in Call : WF_vars(Progress(d))

LiveSpec == Spec /\ Fairness
=============================================================================
