---------------------------- MODULE TokenVerify ----------------------------
(***************************************************************************)
(* IdTokenVerifier::verify (src/src/token/verify.rs) up to the signature.   *)
(* The caller takes the verifier and the JWKS handle from the client in two *)
(* steps, in either order and long before the token, and may change the     *)
(* list of algorithms; the client refreshes in between.                     *)
(***************************************************************************)
EXTENDS KeyCache

CONSTANT Names  \* the algorithms callers list by name, HMAC and none among them

ASSUME ListsOfNames == Names \subseteq SUBSET STRING

VARIABLES
  verifier,  \* the document version a call's IdTokenVerifier was made from
  named,     \* the algorithms its caller listed by name
  allowed    \* its algorithm list

verifyVars == <<verifier, named, allowed>>

VerifyInit ==
  /\ verifier = [c \in Call |-> None]
  /\ named = [c \in Call |-> {}]
  /\ allowed = [c \in Call |-> {}]

\* IdTokenVerifier::from_metadata
VerifierAlgs_Unfiltered(v) == Document[v].algs
VerifierAlgs(v) == Document[v].algs \ Forbidden

\* What the caller starts from: Client::verifier, IdTokenVerifier::new with its
\* defaults, or nothing but the names it gives to with_allowed_algs.  allow_alg
\* adds a name, any name.
Lists(v) == {VerifierAlgs(v), DefaultAlgs, {}}

TakeVerifier(c) ==
  /\ pc[c] = "idle" /\ verifier[c] = None
  /\ verifier' = [verifier EXCEPT ![c] = known]
  /\ \E list \in Lists(known), names \in Names :
       /\ named' = [named EXCEPT ![c] = names]
       /\ allowed' = [allowed EXCEPT ![c] = list \cup names]
  /\ UNCHANGED cacheVars

\* Client::jwks
TakeKeys(c) ==
  /\ pc[c] = "idle" /\ keys[c] = None
  /\ keys' = [keys EXCEPT ![c] = handle]
  /\ UNCHANGED <<serverVars, clientVars, pc, token, key, verifyVars>>

\* The token of the token response, which may be anyone's.
TokenArrives(c) ==
  /\ pc[c] = "idle" /\ token[c] = None
  /\ \E t \in Signed(Document[published].algs) \cup Forged :
       token' = [token EXCEPT ![c] = t]
  /\ UNCHANGED <<serverVars, clientVars, pc, keys, key, verifyVars>>

\* The algorithm check, before any key is looked up.
ChecksAlg(c) ==
  /\ pc[c] = "idle" /\ verifier[c] # None /\ keys[c] # None /\ token[c] # None
  /\ MovesTo(c, IF AlgAccepted(token[c].alg, allowed[c]) THEN "looking" ELSE "unsupported alg")
  /\ UNCHANGED <<serverVars, clientVars, keys, token, key, verifyVars>>

\* verify_signature with the key that was found.
ChecksSignature(c) ==
  /\ pc[c] = "resolved" /\ verifier[c] # None
  /\ MovesTo(c, IF key[c] = token[c].key THEN "verified" ELSE "bad signature")
  /\ UNCHANGED <<serverVars, clientVars, keys, token, key, verifyVars>>

VerifyStep(c) == TakeVerifier(c) \/ TakeKeys(c) \/ TokenArrives(c) \/ ChecksAlg(c) \/ ChecksSignature(c)
=============================================================================
