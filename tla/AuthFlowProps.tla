--------------------------- MODULE AuthFlowProps ---------------------------
(***************************************************************************)
(* What the flow promises across instances, deliveries, clocks and failures.*)
(***************************************************************************)
EXTENDS AuthFlow

PendingRequest == [createdAt : Int, bornAt : 0..MaxTime]

\* The types of the variables.
TypeOK ==
  /\ clock \in 0..MaxTime
  /\ offset \in [Instance -> -MaxSkew..MaxSkew]
  /\ published \in 0..MaxVersion
  /\ known \in [Instance -> 0..MaxVersion]
  /\ pending \in [Tx -> Option(PendingRequest)]
  /\ slot \in [Tx -> Option(Tx)] /\ created \subseteq Tx
  /\ deadline \in [Tx -> Option(0..(MaxTime + Ttl))]
  /\ carried \in [Call -> Option(Tx)] /\ received \in [Call -> Option(Tx)]
  /\ issued \in [Code -> Option(Tx)]
  /\ pc \in [Call -> {"idle", "done"} \cup InFlight]
  /\ at \in [Call -> Option(Instance)]
  /\ response \in [Call -> Option(Response)]
  /\ lookup \in [Call -> Option(Tx)]
  /\ sent \in [Call -> Option(Request)]
  /\ outcome \in [Call -> Option(Outcomes)]
  /\ tokens \in [Call -> Option(Tx)]

\* A completion has what it works on, and only that.  What it sends is the code
\* of its callback beside the verifier and redirect URI of a pending request whose
\* state the callback has, and a provider that knows a challenge answers nothing
\* else.
LocalOK(d) ==
  /\ pc[d] # "idle" => response[d] # None
  /\ pc[d] \in InFlight => at[d] \in Instance /\ lookup[d] \in Tx
  /\ carried[d] # None => pc[d] = "taking"
  /\ pc[d] \in {"idle", "taking"} => received[d] = None
  /\ pc[d] \in {"refreshing", "exchanging", "verifying"} => received[d] # None
  /\ pc[d] \in {"exchanging", "verifying"} => sent[d] # None
  /\ sent[d] # None =>
       /\ pc[d] \in {"exchanging", "verifying", "done"}
       /\ sent[d].tx = received[d] /\ sent[d].tx = response[d].state
       /\ sent[d].code = response[d].code
  /\ pc[d] = "verifying" => tokens[d] # None
  /\ tokens[d] # None =>
       /\ pc[d] \in {"verifying", "done"} /\ sent[d] # None
       /\ tokens[d] = issued[sent[d].code]
       /\ tokens[d] \in Challenged => tokens[d] = sent[d].tx
  /\ pc[d] = "done" <=> outcome[d] # None
  /\ outcome[d] = "provider error" =>
       received[d] = response[d].state /\ sent[d] = None
  /\ outcome[d] = "complete" => tokens[d] # None /\ tokens[d] = sent[d].tx

LocalsOK == \A d \in Call : LocalOK(d)

\* What was stored was begun, by a clock within the skew of the true one.
BornOK ==
  \A t \in Tx :
    /\ t \in created => pending[t] # None
    /\ pending[t] # None => pending[t].createdAt - pending[t].bornAt \in -MaxSkew..MaxSkew

Has(d, t) == carried[d] = t \/ received[d] = t

\* A transaction is in one place: the store, on its way to one completion, or
\* with one completion for good.
InOnePlace ==
  /\ \A t \in Tx : slot[t] # None => slot[t] = t /\ t \in created
  /\ \A d \in Call, t \in Tx : Has(d, t) => t \in created /\ slot[t] = None
  /\ \A d, e \in Call, t \in Tx : Has(d, t) /\ Has(e, t) => d = e

\* Whatever code a browser brings beside whatever state, and whatever pending
\* request the application hands over: the tokens of a transaction that has a PKCE
\* challenge come only to a completion of that transaction, and without a challenge
\* no login is completed with the tokens of another one.  The library must keep
\* state, verifier and nonce of one pending request together for that, since it
\* never compares a code with anything (client.rs:468, client.rs:738).
BoundToTransaction ==
  \A d \in Call :
    /\ tokens[d] \in Challenged => tokens[d] = received[d] /\ tokens[d] = response[d].state
    /\ outcome[d] = "complete" => tokens[d] = received[d] /\ tokens[d] = response[d].state

\* Whether the callback brought a code of the login its state belongs to.
OwnCode(d) == sent[d] # None /\ issued[sent[d].code] = response[d].state

\* However often and wherever callbacks are delivered, and whatever fails or is
\* dropped meanwhile: no verifier is sent twice, and no code that comes back beside
\* its own state, so that such a code is no replay, on which the provider would
\* have to revoke the tokens (client.rs:450).  Of all the completions that may send
\* a code beside other states, at most one completes the login.
ExchangedAtMostOnce ==
  \A d, e \in Call :
    (\/ sent[d] # None /\ sent[e] # None /\ sent[d].tx = sent[e].tx
     \/ OwnCode(d) /\ OwnCode(e) /\ sent[d].code = sent[e].code
     \/ outcome[d] = "complete" /\ outcome[e] = "complete" /\ tokens[d] = tokens[e]) => d = e

\* "Returns a provider error after consuming its pending request"
\* (client.rs:435): once it has been reported, no callback of that transaction,
\* not even a successful one, leads to a token request.
ErrorEndsTransaction ==
  \A d, e \in Call : outcome[d] = "provider error" /\ sent[e] # None =>
    sent[e].tx # response[d].state

\* The inductive invariant.
IInv == TypeOK /\ LocalsOK /\ BornOK /\ InOnePlace

-----------------------------------------------------------------------------
\* The true age of a completion's transaction.
Age(d) == clock - pending[received[d]].bornAt

\* The age is judged after the wait for the metadata, not when the request was
\* taken: when the token request is sent, the transaction is not older than its
\* lifetime, give or take the skew of the two clocks involved.
CurrentWhenSent ==
  [][ \A d \in Call : (sent'[d] # None /\ sent[d] = None) =>
        Age(d) <= Ttl + 2 * MaxSkew ]_vars

\* Skewed clocks refuse nothing but what lies within the skew of a limit, and
\* with exact clocks nothing is refused that is within its lifetime.
RefusalsAreJustified ==
  [][ \A d \in Call : outcome'[d] # outcome[d] =>
        /\ outcome'[d] = "expired" => Age(d) > Ttl - 2 * MaxSkew
        /\ outcome'[d] = "from future" => Age(d) < 2 * MaxSkew ]_vars

\* An instance that has learned that the provider sends iss accepts nothing
\* without it any more, neither a code nor an error: what it judges by is not
\* older than what it knew before the completion came in.
MissingIssuerRefused ==
  [][ \A d \in Call :
        (/\ response[d] # None /\ response[d].iss # "expected"
         /\ \/ sent'[d] # sent[d]
            \/ outcome'[d] # outcome[d] /\ outcome'[d] = "provider error") =>
        /\ response[d].iss = "absent"
        /\ \E v \in known[at[d]]..published : ~Document[v].iss ]_vars

\* Seen through its transactions alone, the flow is OneLogin: a transaction is
\* open while it is stored or held by a completion that may still send it.
MayStillSend(d, t) ==
  /\ pc[d] \in {"taking", "refreshing"}
  /\ carried[d] = t \/ received[d] = t

SentFor(d, t) == sent[d] # None /\ sent[d].tx = t

Phase ==
  [t \in Tx |->
     IF \E d \in Call : SentFor(d, t) /\ outcome[d] = "complete" THEN "logged in"
     ELSE IF \E d \in Call : SentFor(d, t) THEN "exchanged"
     ELSE IF t \notin created THEN "unknown"
     ELSE IF slot[t] = t \/ \E d \in Call : MayStillSend(d, t) THEN "open" ELSE "closed"]

CodeSentFor(t) == {c \in Code : \E d \in Call : SentFor(d, t) /\ sent[d].code = c}

Used == [t \in Tx |-> IF CodeSentFor(t) = {} THEN None ELSE CHOOSE c \in CodeSentFor(t) : TRUE]

Login == INSTANCE OneLogin WITH phase <- Phase, used <- Used

ImplementsOneLogin == Login!Spec

-----------------------------------------------------------------------------
\* Every completion returns, to its caller or because it was dropped.
CompletionsReturn == \A d \in Call : pc[d] \in InFlight ~> pc[d] = "done"
=============================================================================
