------------------------------ MODULE KeyCache ------------------------------
(***************************************************************************)
(* The signing keys of the provider as a Client sees them: the document it *)
(* has, the JWKS cache made for that document's jwks_uri, and the calls    *)
(* that look a key up in a cache handle (src/src/client.rs, resolve_key in *)
(* src/src/token/verify.rs), while the provider publishes documents and    *)
(* rotates keys.                                                           *)
(*                                                                         *)
(* AsyncHttpsJwks is code of jose4rs: it finds a key among those it holds  *)
(* and fetches them again when it finds none.  A handle is named by the    *)
(* version of the document it was made for.                                *)
(*                                                                         *)
(* A definition X_Y is X with a plausible mistake in it, which some        *)
(* property must notice.                                                   *)
(***************************************************************************)
EXTENDS Integers

CONSTANTS
  None,
  Key,         \* the provider's signing keys
  KeyAlg,      \* the algorithm of each
  Uri,         \* where it may serve them
  MaxVersion,  \* bound: documents the provider publishes
  Document,    \* what the client reads of each version
  Call         \* verifications and UserInfo calls

ASSUME NoneIsNoKey == None \notin Key \cup Call \cup Int
ASSUME Versions == MaxVersion \in Nat
ASSUME Algorithms == \A k \in Key : KeyAlg[k] \in STRING

Version == 0..MaxVersion
Option(S) == S \cup {None}

ASSUME Documents ==
  \A v \in Version : Document[v].uri \in Uri /\ Document[v].algs \subseteq STRING

VARIABLES
  published,  \* the version of the document the provider serves
  served,     \* the keys it serves at each URI
  known,      \* the version the client has
  handle,     \* Client::jwks, as the version it was made for
  cached,     \* what each handle holds
  pc,         \* where each call stands
  keys,       \* the handle it looks keys up in
  token,      \* the signed token it verifies
  key         \* the key it found

serverVars == <<published, served>>
clientVars == <<known, handle, cached>>
lookupVars == <<pc, keys, token, key>>
cacheVars == <<serverVars, clientVars, lookupVars>>

\* A client that was discovered: its first handle holds the keys of that moment.
CacheInit ==
  /\ published = 0 /\ known = 0 /\ handle = 0
  /\ served \in [Uri -> SUBSET Key]
  /\ cached = [v \in Version |-> IF v = 0 THEN served[Document[0].uri] ELSE {}]
  /\ pc = [c \in Call |-> "idle"]
  /\ keys = [c \in Call |-> None]
  /\ token = [c \in Call |-> None]
  /\ key = [c \in Call |-> None]

\* A token: the key of the provider it was signed with, if any, what its header
\* names, and the version its provider published then.
SigningAlgs == {KeyAlg[k] : k \in Key} \cup {"none"}
Token == [key : Option(Key), alg : SigningAlgs, kid : Option(Key), version : Version]

ASSUME NoneIsNoToken == None \notin Token

\* Where a call may stand: on its way, and how it ended.
Places ==
  {"idle", "refreshing", "refreshed", "requesting", "looking", "fetching", "resolved"}
    \cup {"verified", "returned"}
    \cup {"unsupported alg", "no matching key", "fetch failed", "bad signature", "bad claims",
          "unreadable", "subject mismatch", "refresh failed", "no endpoint", "transport",
          "userinfo error", "unexpected type"}

\* The types of the variables, for the modules that add to them.
CacheTypeOK ==
  /\ published \in Version /\ known \in 0..published /\ handle \in 0..known
  /\ served \in [Uri -> SUBSET Key] /\ cached \in [Version -> SUBSET Key]
  /\ pc \in [Call -> Places]
  /\ keys \in [Call -> Option(Version)]
  /\ token \in [Call -> Option(Token)] /\ key \in [Call -> Option(Key)]

-----------------------------------------------------------------------------
(* The provider.                                                           *)

PublishDocument ==
  /\ published < MaxVersion
  /\ published' = published + 1
  /\ UNCHANGED <<served, clientVars, lookupVars>>

\* A key is put up or withdrawn.
RotateKey(u, k) ==
  /\ served' = [served EXCEPT ![u] = IF k \in @ THEN @ \ {k} ELSE @ \cup {k}]
  /\ UNCHANGED <<published, clientVars, lookupVars>>

\* The tokens an honest provider signs now: with a key it serves at its jwks_uri,
\* by an algorithm its document lists, the kid in the header or left out.
Signed(algs) ==
  UNION { {[key |-> k, alg |-> KeyAlg[k], kid |-> kid, version |-> published] : kid \in {k, None}} :
          k \in {j \in served[Document[published].uri] : KeyAlg[j] \in algs} }

\* Tokens it did not sign: the header names one of its keys all the same, or none.
Forged ==
  {[key |-> None, alg |-> KeyAlg[k], kid |-> k, version |-> published] : k \in Key}
    \cup {[key |-> None, alg |-> "none", kid |-> None, version |-> published]}

-----------------------------------------------------------------------------
(* The client.                                                             *)

\* refresh_metadata_from publishes the document and its keys together: a new
\* handle, filled before it is used, when jwks_uri changed.
NewHandle(v) == Document[v].uri # Document[known].uri

Refreshes(v) ==
  /\ v \in known..published
  /\ known' = v
  /\ handle' = IF NewHandle(v) THEN v ELSE handle
  /\ cached' = IF NewHandle(v) THEN [cached EXCEPT ![v] = served[Document[v].uri]] ELSE cached

\* What a handle holds has expired, by the headers HttpJwksFetcher passes on.
CacheExpires(h) ==
  /\ cached[h] # {}
  /\ cached' = [cached EXCEPT ![h] = {}]
  /\ UNCHANGED <<serverVars, known, handle, lookupVars>>

\* select_verification_key: by kid, if the token names one, and algorithm.
Matching(held, t) ==
  {k \in held : KeyAlg[k] = t.alg /\ (t.kid = None \/ t.kid = k)}

MovesTo(c, where) == pc' = [pc EXCEPT ![c] = where]

FindsKey(c) ==
  /\ pc[c] = "looking"
  /\ \E k \in Matching(cached[keys[c]], token[c]) : key' = [key EXCEPT ![c] = k]
  /\ MovesTo(c, "resolved")
  /\ UNCHANGED <<serverVars, clientVars, keys, token>>

\* An unknown kid or algorithm: the handle fetches the keys again.
MissesKey_GivesUp(c) == MovesTo(c, "no matching key")
MissesKey(c) == MovesTo(c, "fetching")

Misses(c) ==
  /\ pc[c] = "looking"
  /\ Matching(cached[keys[c]], token[c]) = {}
  /\ MissesKey(c)
  /\ UNCHANGED <<serverVars, clientVars, keys, token, key>>

\* HttpJwksFetcher::fetch returned 200: the new set replaces the old one.
Replaces(h) == [cached EXCEPT ![h] = served[Document[h].uri]]

KeysArrive(c) ==
  LET found == Matching(served[Document[keys[c]].uri], token[c])
  IN  /\ pc[c] = "fetching"
      /\ cached' = Replaces(keys[c])
      /\ IF found = {} THEN MovesTo(c, "no matching key") /\ UNCHANGED key
         ELSE MovesTo(c, "resolved") /\ \E k \in found : key' = [key EXCEPT ![c] = k]
      /\ UNCHANGED <<serverVars, known, handle, keys, token>>

\* A transport error, or a status other than 200: JwksFetch.
FetchFails(c) ==
  /\ pc[c] = "fetching"
  /\ MovesTo(c, "fetch failed")
  /\ UNCHANGED <<serverVars, clientVars, keys, token, key>>

Lookup(c) == FindsKey(c) \/ Misses(c) \/ KeysArrive(c) \/ FetchFails(c)

Provider ==
  \/ PublishDocument
  \/ \E u \in Uri, k \in Key : RotateKey(u, k)
  \/ \E h \in Version : CacheExpires(h)

-----------------------------------------------------------------------------
(* Algorithm lists.                                                        *)

\* DEFAULT_ALLOWED_ALGS and is_forbidden_alg: none in any case, and HMAC.
DefaultAlgs == {"RS256", "ES256", "EdDSA"}
SpeltNone == {"none", "None"}
Forbidden == SpeltNone \cup {"HS256"}

\* check_alg, whatever list the caller set.
AlgAccepted(alg, allowed) == alg \notin SpeltNone /\ alg \in allowed
=============================================================================
