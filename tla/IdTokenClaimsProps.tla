------------------------- MODULE IdTokenClaimsProps -------------------------
(***************************************************************************)
(* What an accepted ID token means, and what a refused one did wrong.       *)
(***************************************************************************)
EXTENDS IdTokenClaims

Accepted == verdict = "accepted"

\* An accepted token has every claim that is required and was issued to this client,
\* or to the one the caller names instead: neither one for another client
\* that names this one among its audiences, nor one with an azp beside a single
\* audience slips through.  With the nonce of a transaction, it was issued for that
\* transaction: not for another login, nor by a flow without a nonce.  One that
\* names an access token is accepted only beside that one, whatever the digest its
\* algorithm calls for (verify.rs:237, 268, 334).
AcceptedTokenIsOurs ==
  Accepted =>
    /\ token.lacks = None
    /\ token.client \in {Me, context.clientId}
    /\ context.nonce # None => token.tx = context.nonce
    /\ token.atHash # None => context.access = token.access

\* Only with these faults may a token be refused that was minted for this client
\* and transaction and, by the clock alone, is fresh.
Lacking(ctx) ==
  \/ token.azp = None /\ Len(token.aud) > 1
  \/ token.azp # None /\ ctx.clientId \notin {None, Me}
  \/ ~Names(token.aud, Me) \/ token.lacks # None
  \/ ctx.nonce # None /\ token.nonce = None
  \/ token.atHash # None /\ (ctx.access = None \/ token.alg = "Ed448")
  \/ ctx.maxAge # None /\ token.authTime # SecondsAt(session)

\* verify_id_token refuses no token of its own transaction, beside its own access
\* token, but for a claim that is missing or a time (client.rs:738).  The digest of
\* at_hash must be the one that OpenID Connect Core names, that of the algorithm;
\* docs/SPEC.md:56 and docs/SPEC.md:162 speak of SHA-256 alone, by which a token
\* signed with Ed25519 would be refused here.
OwnTokenAccepted ==
  (/\ verdict \notin {None, "expired", "too old", "auth_time in future"}
   /\ token.client = Me /\ context.nonce \in {None, token.tx}
   /\ context.access \in {None, token.access}) => Accepted \/ Lacking(context)

\* Past its checks, an accepted authentication is as recent as was asked for, give
\* or take the leeway and how far the clocks differ; it is real time, not the
\* claim, that is compared, by the tick at which the token is verified.
AuthenticationFresh ==
  [][ (/\ verdict' = "accepted" /\ verdict = None /\ maxAge # None
       /\ token.authTime = SecondsAt(session)) =>
      clock - session <= maxAge + context'.skew + offset ]_vars

\* No time refuses what is right, whatever overflows.  A claim counts whole
\* seconds, so up to one second of max_age is lost and nothing more is; and only a
\* provider whose clock is ahead by more than the leeway seems to speak of the
\* future (verify.rs:303).
TimesRefuseOnlyWhatIsWrong ==
  [][ (verdict = None /\ verdict' # None /\ token.authTime = SecondsAt(session)) =>
        /\ verdict' = "too old" =>
             clock - session > maxAge + context'.skew + offset - Second
        /\ verdict' = "auth_time in future" => offset > context'.skew
        /\ verdict' # "auth_time out of range" ]_vars
=============================================================================
