---------------------------- MODULE ProviderKeys ----------------------------
(***************************************************************************)
(* The two users of a client's key cache over one client: verifications of *)
(* ID tokens and UserInfo calls, while the client refreshes and the        *)
(* provider publishes documents and rotates keys.  A call is of one kind;  *)
(* which one is decided by its first step.                                 *)
(***************************************************************************)
EXTENDS TokenVerify, UserInfo

vars == <<cacheVars, verifyVars, uiVars>>

Init == CacheInit /\ VerifyInit /\ UserInfoInit

\* Any call, of these or others, refreshes the client.
RefreshClient ==
  /\ \E v \in Version : Refreshes(v)
  /\ UNCHANGED <<serverVars, lookupVars>>

Next ==
  \/ (Provider \/ RefreshClient) /\ UNCHANGED <<verifyVars, uiVars>>
  \/ \E c \in Call :
       \/ Lookup(c) /\ UNCHANGED <<verifyVars, uiVars>>
       \/ VerifyStep(c) /\ UNCHANGED uiVars
       \/ verifier[c] = None /\ UserInfoStep(c) /\ UNCHANGED verifyVars

Spec == Init /\ [][Next]_vars

-----------------------------------------------------------------------------
Verifies(c) == verifier[c] # None
Asked(c) == snapshot[c] # None

LookingUp == {"looking", "fetching", "resolved"}

\* The types of the variables.
Listed == DefaultAlgs \cup (UNION Names) \cup UNION {Document[v].algs : v \in Version}
TypeOK ==
  /\ CacheTypeOK
  /\ verifier \in [Call -> Option(Version)]
  /\ named \in [Call -> SUBSET UNION Names] /\ allowed \in [Call -> SUBSET Listed]
  /\ refreshed \in [Call -> Option(Version)] /\ snapshot \in [Call -> Option(Version)]
  /\ answer \in [Call -> Option(Answers)]

\* The document a call decides by: that of its verifier, or of its snapshot.
DocumentOf(c) == IF Verifies(c) THEN verifier[c] ELSE snapshot[c]

\* A token the provider signed is refused only for a reason that a new look at
\* the provider cures: the call works with another document, the handle's URI no
\* longer serves the key, or the algorithm is one that is never used.  Not for a
\* key published after the set was fetched, nor for a list the provider left out
\* (client.rs:738, verify.rs:186, userinfo.rs:178).
RefusedForAReason ==
  [][ \A c \in Call :
        (/\ pc'[c] # pc[c] /\ pc'[c] \in {"unsupported alg", "no matching key", "bad signature"}
         /\ token'[c] # None /\ token'[c].key # None /\ token'[c].kid # None
         /\ Verifies(c) => allowed[c] = VerifierAlgs(verifier[c])) =>
        \/ token'[c].alg \in Forbidden
        \/ pc'[c] = "unsupported alg" /\ DocumentOf(c) # token'[c].version
        \/ pc'[c] = "no matching key" /\ token[c].key \notin served[Document[keys[c]].uri] ]_vars

\* Nothing unsigned is looked up or verified, whatever list the caller sets
\* (verify.rs:168).  A token by HMAC is accepted only where the caller listed that
\* algorithm by name: no list that the crate makes of what a provider publishes
\* lets it through (verify.rs:104), and none that reads UserInfo does.  What is
\* verified in the end was signed by the provider.
UnsignedNeverVerified ==
  \A c \in Call :
    /\ pc[c] \in LookingUp \cup {"verified"} =>
         /\ token[c].alg \notin SpeltNone
         /\ token[c].alg \in Forbidden => Verifies(c) /\ token[c].alg \in named[c]
    /\ pc[c] = "verified" => token[c].key # None

\* Endpoint, algorithm list and keys of a UserInfo call are those of one
\* document, however often the client is refreshed while it waits, and the handle
\* given out is one for the jwks_uri of the client's document also after the URI
\* moved and moved back (client.rs:574, client.rs:382).
OneSnapshot ==
  /\ Document[handle].uri = Document[known].uri
  /\ \A c \in Call : Asked(c) => Document[keys[c]].uri = Document[snapshot[c]].uri

\* What is returned is about the expected subject, and if it was signed then by
\* the provider, for this client: on both paths (client.rs:622).
AnswerIsAboutTheSubject ==
  \A c \in Call : pc[c] = "returned" =>
    /\ answer[c].sub = Expected[c]
    /\ answer[c].ok
    /\ answer[c].type = "jwt" =>
         answer[c].mine /\ token[c].alg \notin Forbidden /\ key[c] = token[c].key /\ key[c] # None
=============================================================================
