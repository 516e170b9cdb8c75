------------------------- MODULE ProviderKeysProofs -------------------------
(***************************************************************************)
(* Verifications and UserInfo calls over one key cache, for any number of   *)
(* calls, keys, URIs and documents.                                        *)
(***************************************************************************)
EXTENDS ProviderKeys, TLAPS

\* What the algorithm of a token has been checked for.
AlgOK(c) ==
  /\ token[c] # None /\ token[c].alg \notin SpeltNone
  /\ token[c].alg \in Forbidden => verifier[c] # None /\ token[c].alg \in named[c]

\* A token of the provider, with a kid.
Genuine(c) == token[c] # None /\ token[c].key # None /\ token[c].kid # None

\* A call that has gone some way knows what it has been told.
CallOK(c) ==
  /\ pc[c] = "idle" => snapshot[c] = None
  /\ pc[c] = "requesting" => snapshot[c] # None
  /\ verifier[c] # None => snapshot[c] = None /\ allowed[c] \cap Forbidden \subseteq named[c]
  /\ Genuine(c) =>
       /\ token[c].kid = token[c].key /\ token[c].alg = KeyAlg[token[c].key]
       /\ snapshot[c] = None => token[c].alg \in Document[token[c].version].algs
  /\ pc[c] \in LookingUp => keys[c] # None
  /\ pc[c] \in LookingUp \cup {"verified"} => AlgOK(c)
  /\ pc[c] = "verified" => token[c].key # None
  /\ pc[c] \in LookingUp /\ snapshot[c] # None => answer[c].ok /\ answer[c].type = "jwt"
  /\ pc[c] = "resolved" => key[c] # None /\ (token[c].kid # None => key[c] = token[c].kid)
  /\ Asked(c) => keys[c] # None /\ Document[keys[c]].uri = Document[snapshot[c]].uri
  /\ pc[c] = "returned" =>
       /\ answer[c].sub = Expected[c] /\ answer[c].ok
       /\ answer[c].type = "jwt" =>
            answer[c].mine /\ token[c].alg \notin Forbidden /\ key[c] = token[c].key /\ key[c] # None

\* The handle given out is one for the jwks_uri of the client's document.
HandleOK == Document[handle].uri = Document[known].uri

IInv == TypeOK /\ HandleOK /\ \A c \in Call : CallOK(c)

\* The state of one call.
Same(c) ==
  /\ pc'[c] = pc[c] /\ keys'[c] = keys[c] /\ token'[c] = token[c] /\ key'[c] = key[c]
  /\ verifier'[c] = verifier[c] /\ named'[c] = named[c] /\ allowed'[c] = allowed[c]
  /\ refreshed'[c] = refreshed[c] /\ snapshot'[c] = snapshot[c] /\ answer'[c] = answer[c]

LEMMA SameKeeps == ASSUME NEW c \in Call, CallOK(c), Same(c) PROVE CallOK(c)'
BY DEF CallOK, AlgOK, Genuine, Same, Asked

\* A step of one call answers for that call, and leaves the client's document alone.
LEMMA CallStep ==
  ASSUME IInv, NEW c \in Call, TypeOK', CallOK(c)', known' = known, handle' = handle,
         \A d \in Call \ {c} : Same(d)
  PROVE  IInv'
<1>1. \A d \in Call : CallOK(d)'
  BY SameKeeps DEF IInv
<1> QED BY <1>1 DEF IInv, HandleOK

LEMMA Types ==
  ASSUME IInv, NEW c \in Call
  PROVE  /\ TypeOK /\ CacheTypeOK /\ CallOK(c)
         /\ known \in Version /\ handle \in Version /\ published \in Version
BY Versions DEF IInv, TypeOK, CacheTypeOK, Version

LEMMA InitIInv == Init => IInv
<1> SUFFICES ASSUME Init PROVE IInv
  OBVIOUS
<1> USE Versions, Documents, NoneIsNoKey DEF Init, CacheInit, VerifyInit, UserInfoInit
<1>1. CacheTypeOK
  <2>1. published = 0 /\ known = 0 /\ handle = 0 /\ 0 \in Version
    BY DEF Version
  <2>2. served[Document[0].uri] \subseteq Key
    BY <2>1
  <2>3. cached \in [Version -> SUBSET Key]
    BY <2>2
  <2>4. known \in 0..published /\ handle \in 0..known
    BY <2>1
  <2>5. None \in Option(Version) /\ None \in Option(Token) /\ None \in Option(Key)
    BY DEF Option
  <2>6. /\ pc \in [Call -> Places] /\ keys \in [Call -> Option(Version)]
        /\ token \in [Call -> Option(Token)] /\ key \in [Call -> Option(Key)]
    <3>0. "idle" \in Places
      BY DEF Places
    <3>1. pc = [c \in Call |-> "idle"] /\ keys = [c \in Call |-> None]
          /\ token = [c \in Call |-> None] /\ key = [c \in Call |-> None]
      OBVIOUS
    <3> HIDE DEF Init, CacheInit, VerifyInit, UserInfoInit
    <3> QED BY <2>5, <3>0, <3>1
  <2> QED BY <2>1, <2>3, <2>4, <2>6 DEF CacheTypeOK
<1>2. TypeOK
  BY <1>1 DEF TypeOK, Option
<1>3. \A c \in Call : CallOK(c)
  BY DEF CallOK, AlgOK, Genuine, LookingUp, Asked
<1> QED BY <1>2, <1>3 DEF IInv, HandleOK

-----------------------------------------------------------------------------
(* The provider and the client.                                            *)

LEMMA CacheStep ==
  ASSUME IInv, CacheTypeOK', HandleOK', UNCHANGED <<lookupVars, verifyVars, uiVars>>
  PROVE  IInv'
<1>1. \A c \in Call : Same(c)
  BY DEF lookupVars, verifyVars, uiVars, Same
<1>2. TypeOK'
  BY DEF IInv, TypeOK, verifyVars, uiVars
<1> QED BY <1>1, <1>2, SameKeeps DEF IInv

LEMMA ProviderIInv ==
  ASSUME IInv, Provider, UNCHANGED <<verifyVars, uiVars>> PROVE IInv'
<1> USE Versions DEF IInv, TypeOK
<1>1. CASE PublishDocument
  <2>1. CacheTypeOK'
    BY <1>1 DEF PublishDocument, CacheTypeOK, Version, clientVars, lookupVars
  <2> QED BY <1>1, <2>1, CacheStep DEF PublishDocument, HandleOK, clientVars
<1>2. ASSUME NEW u \in Uri, NEW k \in Key, RotateKey(u, k) PROVE IInv'
  <2>1. CacheTypeOK'
    BY <1>2 DEF RotateKey, CacheTypeOK, clientVars, lookupVars
  <2> QED BY <1>2, <2>1, CacheStep DEF RotateKey, HandleOK, clientVars
<1>3. ASSUME NEW h \in Version, CacheExpires(h) PROVE IInv'
  <2>1. CacheTypeOK'
    BY <1>3 DEF CacheExpires, CacheTypeOK, serverVars, lookupVars
  <2> QED BY <1>3, <2>1, CacheStep DEF CacheExpires, HandleOK
<1> QED BY <1>1, <1>2, <1>3 DEF Provider

LEMMA RefreshIInv ==
  ASSUME IInv, RefreshClient, UNCHANGED <<verifyVars, uiVars>> PROVE IInv'
<1>1. PICK v \in Version : Refreshes(v)
  BY DEF RefreshClient
<1>2. UNCHANGED <<published, served, lookupVars>>
  BY DEF RefreshClient, serverVars
<1>3. /\ known' = v /\ v \in known..published /\ v \in Nat
      /\ handle' = IF NewHandle(v) THEN v ELSE handle
      /\ cached' = IF NewHandle(v) THEN [cached EXCEPT ![v] = served[Document[v].uri]] ELSE cached
  BY <1>1, Versions DEF Refreshes, Version
<1>4. CacheTypeOK
  BY DEF IInv, TypeOK
<1>5. published \in Nat /\ known \in 0..published /\ handle \in 0..known
  BY <1>4, Versions DEF CacheTypeOK, Version
<1>6. v \in 0..published /\ handle' \in 0..v
  BY <1>3, <1>5
<1>7. cached' \in [Version -> SUBSET Key]
  <2>1. served[Document[v].uri] \subseteq Key
    BY <1>4, Documents DEF CacheTypeOK
  <2> QED BY <1>3, <1>4, <2>1 DEF CacheTypeOK
<1>8. CacheTypeOK'
  BY <1>2, <1>3, <1>4, <1>6, <1>7 DEF CacheTypeOK, lookupVars
<1>9. HandleOK'
  BY <1>3 DEF HandleOK, NewHandle, IInv
<1> QED BY <1>2, <1>8, <1>9, CacheStep

-----------------------------------------------------------------------------
(* Lookups in the keys of a call.                                          *)

\* What a lookup leaves alone.
Elsewhere(c) ==
  /\ known' = known /\ handle' = handle /\ published' = published /\ served' = served
  /\ keys' = keys /\ token' = token /\ UNCHANGED <<verifyVars, uiVars>>

LEMMA LookupStep ==
  ASSUME IInv, NEW c \in Call, Elsewhere(c),
         cached' \in [Version -> SUBSET Key],
         NEW p \in Places, pc' = [pc EXCEPT ![c] = p],
         NEW k \in Option(Key), key' = [key EXCEPT ![c] = k],
         pc[c] \in LookingUp, p \notin {"idle", "requesting", "returned", "verified"},
         p = "resolved" => k # None /\ (token[c].kid # None => k = token[c].kid)
  PROVE  IInv'
<1>1. TypeOK /\ CacheTypeOK /\ CallOK(c)
  BY Types
<1>2. /\ pc' \in [Call -> Places] /\ pc'[c] = p
      /\ key' \in [Call -> Option(Key)] /\ key'[c] = k
  BY <1>1 DEF CacheTypeOK
<1>3. TypeOK'
  BY <1>1, <1>2 DEF TypeOK, CacheTypeOK, Elsewhere, verifyVars, uiVars
<1>4. CallOK(c)'
  BY <1>1, <1>2 DEF CallOK, AlgOK, Genuine, LookingUp, Asked, Elsewhere, verifyVars, uiVars
<1>5. \A d \in Call \ {c} : Same(d)
  BY <1>1 DEF Same, CacheTypeOK, Elsewhere, verifyVars, uiVars
<1> QED BY <1>3, <1>4, <1>5, CallStep DEF Elsewhere

LEMMA LookupIInv ==
  ASSUME IInv, NEW c \in Call, Lookup(c), UNCHANGED <<verifyVars, uiVars>> PROVE IInv'
<1>1. TypeOK /\ CacheTypeOK /\ CallOK(c)
  BY Types
<1>2. /\ cached \in [Version -> SUBSET Key] /\ served \in [Uri -> SUBSET Key]
      /\ key \in [Call -> Option(Key)] /\ key[c] \in Option(Key)
      /\ key = [key EXCEPT ![c] = key[c]] /\ keys[c] \in Option(Version)
  BY <1>1 DEF CacheTypeOK
<1>3. pc[c] \in LookingUp => keys[c] \in Version
  <2>1. pc[c] \in LookingUp => keys[c] # None
    BY <1>1 DEF CallOK
  <2> QED BY <1>2, <2>1 DEF Option
<1>4. {"fetching", "resolved", "no matching key", "fetch failed"} \subseteq Places
  BY DEF Places
<1>5. CASE FindsKey(c)
  <2>1. pc[c] \in LookingUp /\ Elsewhere(c) /\ cached' = cached
    BY <1>5 DEF FindsKey, Elsewhere, serverVars, clientVars, LookingUp
  <2>2. PICK k \in Matching(cached[keys[c]], token[c]) : key' = [key EXCEPT ![c] = k]
    BY <1>5 DEF FindsKey
  <2>3. k \in Key /\ (token[c].kid # None => k = token[c].kid)
    BY <1>2, <1>3, <2>1, <2>2 DEF Matching
  <2>4. k \in Option(Key) /\ k # None
    BY <2>3, NoneIsNoKey DEF Option
  <2>5. pc' = [pc EXCEPT ![c] = "resolved"]
    BY <1>5 DEF FindsKey, MovesTo
  <2> QED BY <1>2, <1>4, <2>1, <2>2, <2>3, <2>4, <2>5, LookupStep
<1>6. CASE Misses(c)
  <2>1. /\ pc[c] \in LookingUp /\ Elsewhere(c) /\ cached' = cached /\ key' = key
        /\ pc' = [pc EXCEPT ![c] = "fetching"]
    BY <1>6 DEF Misses, MissesKey, MovesTo, Elsewhere, serverVars, clientVars, LookingUp
  <2>2. key' = [key EXCEPT ![c] = key[c]]
    BY <1>2, <2>1
  <2> QED BY <1>2, <1>4, <2>1, <2>2, LookupStep
<1>7. CASE KeysArrive(c)
  <2> DEFINE held == served[Document[keys[c]].uri]
             found == Matching(held, token[c])
  <2>1. pc[c] \in LookingUp /\ Elsewhere(c) /\ cached' = [cached EXCEPT ![keys[c]] = held]
    BY <1>7 DEF KeysArrive, Replaces, Elsewhere, serverVars, LookingUp
  <2>2. held \in SUBSET Key
    BY <1>2, <1>3, <2>1, Documents
  <2>3. cached' \in [Version -> SUBSET Key]
    BY <1>2, <2>1, <2>2
  <2>4. CASE found = {}
    <3>1. key' = key /\ pc' = [pc EXCEPT ![c] = "no matching key"]
      BY <1>7, <2>4 DEF KeysArrive, MovesTo
    <3>2. key' = [key EXCEPT ![c] = key[c]]
      BY <1>2, <3>1
    <3> QED BY <1>2, <1>4, <2>1, <2>3, <3>1, <3>2, LookupStep
  <2>5. CASE found # {}
    <3>1. pc' = [pc EXCEPT ![c] = "resolved"] /\ \E k \in found : key' = [key EXCEPT ![c] = k]
      BY <1>7, <2>5 DEF KeysArrive, MovesTo
    <3>2. PICK k \in found : key' = [key EXCEPT ![c] = k]
      BY <3>1
    <3>3. k \in Key /\ (token[c].kid # None => k = token[c].kid)
      BY <2>2, <3>2 DEF Matching
    <3>4. k \in Option(Key) /\ k # None
      BY <3>3, NoneIsNoKey DEF Option
    <3> QED BY <1>4, <2>1, <2>3, <3>1, <3>2, <3>3, <3>4, LookupStep
  <2> QED BY <2>4, <2>5
<1>8. CASE FetchFails(c)
  <2>1. /\ pc[c] \in LookingUp /\ Elsewhere(c) /\ cached' = cached /\ key' = key
        /\ pc' = [pc EXCEPT ![c] = "fetch failed"]
    BY <1>8 DEF FetchFails, MovesTo, Elsewhere, serverVars, clientVars, LookingUp
  <2>2. key' = [key EXCEPT ![c] = key[c]]
    BY <1>2, <2>1
  <2> QED BY <1>2, <1>4, <2>1, <2>2, LookupStep
<1> QED BY <1>5, <1>6, <1>7, <1>8 DEF Lookup

-----------------------------------------------------------------------------
(* Tokens.                                                                 *)

LEMMA TokenFacts ==
  ASSUME CacheTypeOK, NEW algs, NEW t \in Signed(algs) \cup Forged
  PROVE  /\ t \in Token /\ t # None /\ t.version = published
         /\ t.key # None /\ t.kid # None => t.kid = t.key /\ t.alg = KeyAlg[t.key] /\ t.alg \in algs
<1>1. published \in Version /\ served[Document[published].uri] \subseteq Key
  BY Documents DEF CacheTypeOK
<1>2. CASE t \in Forged
  <2>1. t.key = None /\ t.version = published /\ t \in Token
    <3>1. CASE t = [key |-> None, alg |-> "none", kid |-> None, version |-> published]
      BY <1>1, <3>1 DEF Token, Option, SigningAlgs
    <3>2. CASE t \in {[key |-> None, alg |-> KeyAlg[k], kid |-> k, version |-> published] : k \in Key}
      <4>1. PICK k \in Key : t = [key |-> None, alg |-> KeyAlg[k], kid |-> k, version |-> published]
        BY <3>2
      <4>2. KeyAlg[k] \in SigningAlgs
        BY DEF SigningAlgs
      <4> QED BY <1>1, <4>1, <4>2 DEF Token, Option
    <3> QED BY <1>2, <3>1, <3>2 DEF Forged
  <2> QED BY <2>1, NoneIsNoToken
<1>3. CASE t \in Signed(algs)
  <2>1. PICK k \in {j \in served[Document[published].uri] : KeyAlg[j] \in algs} :
          t \in {[key |-> k, alg |-> KeyAlg[k], kid |-> kid, version |-> published] : kid \in {k, None}}
    BY <1>3 DEF Signed
  <2>2. PICK kid \in {k, None} : t = [key |-> k, alg |-> KeyAlg[k], kid |-> kid, version |-> published]
    BY <2>1
  <2>3. k \in Key /\ KeyAlg[k] \in SigningAlgs /\ KeyAlg[k] \in algs
    BY <1>1, <2>1 DEF SigningAlgs
  <2>4. t \in Token
    BY <1>1, <2>2, <2>3 DEF Token, Option
  <2> QED BY <2>2, <2>3, <2>4, NoneIsNoToken
<1> QED BY <1>2, <1>3

-----------------------------------------------------------------------------
(* Steps that only move a call.                                            *)

\* What an answer that is returned has been checked for.
AnswerOK(c) ==
  /\ answer[c].sub = Expected[c] /\ answer[c].ok
  /\ answer[c].type = "jwt" =>
       answer[c].mine /\ token[c].alg \notin Forbidden /\ key[c] = token[c].key /\ key[c] # None

\* The places a call may be moved to.
MayMove(c, p) ==
  /\ p \in Places \ {"idle", "requesting", "fetching", "resolved"}
  /\ p \in {"looking", "verified"} => AlgOK(c)
  /\ p = "verified" => token[c].key # None
  /\ p = "looking" => keys[c] # None /\ snapshot[c] = None
  /\ p = "returned" => AnswerOK(c)

LEMMA MoveStep ==
  ASSUME IInv, NEW c \in Call, NEW p, MayMove(c, p), MovesTo(c, p),
         UNCHANGED <<serverVars, clientVars, keys, token, key, verifyVars, snapshot, answer>>,
         NEW r \in Option(Version), refreshed' = [refreshed EXCEPT ![c] = r]
  PROVE  IInv'
<1>1. TypeOK /\ CacheTypeOK /\ CallOK(c)
  BY Types
<1>2. pc' \in [Call -> Places] /\ pc'[c] = p /\ refreshed' \in [Call -> Option(Version)]
  BY <1>1 DEF CacheTypeOK, TypeOK, MayMove, MovesTo
<1>3. TypeOK'
  BY <1>1, <1>2 DEF TypeOK, CacheTypeOK, serverVars, clientVars, verifyVars
<1>4. CallOK(c)'
  BY <1>1, <1>2 DEF CallOK, AlgOK, Genuine, LookingUp, Asked, MayMove, AnswerOK, serverVars, clientVars, verifyVars
<1>5. \A d \in Call \ {c} : Same(d)
  BY <1>1 DEF Same, CacheTypeOK, TypeOK, MovesTo, serverVars, clientVars, verifyVars
<1> QED BY <1>3, <1>4, <1>5, CallStep DEF clientVars

LEMMA MoveOnly ==
  ASSUME IInv, NEW c \in Call, NEW p, MayMove(c, p), MovesTo(c, p),
         UNCHANGED <<serverVars, clientVars, keys, token, key, verifyVars, uiVars>>
  PROVE  IInv'
<1>1. refreshed' = [refreshed EXCEPT ![c] = refreshed[c]] /\ refreshed[c] \in Option(Version)
  BY Types DEF TypeOK, uiVars
<1> QED BY <1>1, MoveStep DEF uiVars

-----------------------------------------------------------------------------
(* Verifications.                                                          *)

LEMMA TakeVerifierIInv ==
  ASSUME IInv, NEW c \in Call, TakeVerifier(c), UNCHANGED uiVars PROVE IInv'
<1>1. TypeOK /\ CacheTypeOK /\ CallOK(c) /\ known \in Version
  BY Types
<1>2. PICK list \in Lists(known), names \in Names :
        named' = [named EXCEPT ![c] = names] /\ allowed' = [allowed EXCEPT ![c] = list \cup names]
  BY DEF TakeVerifier
<1>3. /\ list \cup names \subseteq Listed /\ names \in SUBSET UNION Names
      /\ (list \cup names) \cap Forbidden \subseteq names
  <2>1. list \subseteq Listed
    <3>1. Document[known].algs \subseteq Listed
      <4> DEFINE Published == UNION {Document[v].algs : v \in Version}
      <4>1. Document[known].algs \subseteq Published
        <5>1. Document[known].algs \in {Document[v].algs : v \in Version}
          BY <1>1
        <5> QED BY ONLY <5>1
      <4>2. Listed = DefaultAlgs \cup (UNION Names) \cup Published
        BY DEF Listed
      <4> HIDE DEF Published
      <4> QED BY <4>1, <4>2
    <3>2. DefaultAlgs \subseteq Listed
      BY DEF Listed
    <3> QED BY <1>2, <3>1, <3>2 DEF Lists, VerifierAlgs
  <2>2. DefaultAlgs \cap Forbidden = {} /\ VerifierAlgs(known) \cap Forbidden = {}
    BY DEF VerifierAlgs, DefaultAlgs, Forbidden, SpeltNone
  <2>3. names \subseteq Listed
    BY <1>2 DEF Listed
  <2>4. list \cap Forbidden = {}
    BY <1>2, <2>2 DEF Lists
  <2> QED BY <1>2, <2>1, <2>3, <2>4
<1>4. verifier' = [verifier EXCEPT ![c] = known] /\ pc[c] = "idle" /\ UNCHANGED cacheVars
  BY DEF TakeVerifier
<1>5. known \in Option(Version)
  BY <1>1 DEF Option
<1>6. TypeOK'
  BY <1>1, <1>2, <1>3, <1>4, <1>5
     DEF TypeOK, CacheTypeOK, cacheVars, serverVars, clientVars, lookupVars, uiVars
<1>7. CallOK(c)'
  BY <1>1, <1>2, <1>3, <1>4
     DEF TypeOK, CallOK, AlgOK, Genuine, LookingUp, Asked, cacheVars, serverVars, clientVars, lookupVars, uiVars
<1>8. \A d \in Call \ {c} : Same(d)
  BY <1>1, <1>2, <1>4 DEF Same, TypeOK, cacheVars, lookupVars, uiVars
<1> QED BY <1>4, <1>6, <1>7, <1>8, CallStep DEF cacheVars, clientVars

LEMMA TakeKeysIInv ==
  ASSUME IInv, NEW c \in Call, TakeKeys(c), UNCHANGED uiVars PROVE IInv'
<1>1. TypeOK /\ CacheTypeOK /\ CallOK(c) /\ handle \in Version
  BY Types
<1>2. keys' = [keys EXCEPT ![c] = handle] /\ pc[c] = "idle"
      /\ UNCHANGED <<serverVars, clientVars, pc, token, key, verifyVars>>
  BY DEF TakeKeys, verifyVars
<1>3. handle \in Option(Version)
  BY <1>1 DEF Option
<1>4. TypeOK'
  BY <1>1, <1>2, <1>3 DEF TypeOK, CacheTypeOK, serverVars, clientVars, verifyVars, uiVars
<1>5. CallOK(c)'
  BY <1>1, <1>2 DEF TypeOK, CallOK, AlgOK, Genuine, LookingUp, Asked, serverVars, clientVars, verifyVars, uiVars
<1>6. \A d \in Call \ {c} : Same(d)
  BY <1>1, <1>2 DEF Same, CacheTypeOK, verifyVars, uiVars
<1> QED BY <1>2, <1>4, <1>5, <1>6, CallStep DEF clientVars

LEMMA TokenArrivesIInv ==
  ASSUME IInv, NEW c \in Call, TokenArrives(c), UNCHANGED uiVars PROVE IInv'
<1>1. TypeOK /\ CacheTypeOK /\ CallOK(c)
  BY Types
<1>2. PICK t \in Signed(Document[published].algs) \cup Forged : token' = [token EXCEPT ![c] = t]
  BY DEF TokenArrives
<1>3. pc[c] = "idle" /\ UNCHANGED <<serverVars, clientVars, pc, keys, key, verifyVars>>
  BY DEF TokenArrives, verifyVars
<1>4. /\ t \in Token /\ t # None /\ t.version = published
      /\ t.key # None /\ t.kid # None =>
           t.kid = t.key /\ t.alg = KeyAlg[t.key] /\ t.alg \in Document[published].algs
  BY <1>1, <1>2, TokenFacts
<1>5. t \in Option(Token)
  BY <1>4 DEF Option
<1>6. TypeOK'
  BY <1>1, <1>2, <1>3, <1>5 DEF TypeOK, CacheTypeOK, serverVars, clientVars, verifyVars, uiVars
<1>7. token'[c] = t
  BY <1>1, <1>2 DEF CacheTypeOK
<1>8. CallOK(c)'
  BY <1>1, <1>3, <1>4, <1>7 DEF CallOK, AlgOK, Genuine, LookingUp, Asked, serverVars, clientVars, verifyVars, uiVars
<1>9. \A d \in Call \ {c} : Same(d)
  BY <1>1, <1>2, <1>3 DEF Same, CacheTypeOK, verifyVars, uiVars
<1> QED BY <1>3, <1>6, <1>8, <1>9, CallStep DEF clientVars

LEMMA VerifyIInv ==
  ASSUME IInv, NEW c \in Call, VerifyStep(c), UNCHANGED uiVars PROVE IInv'
<1>1. TypeOK /\ CacheTypeOK /\ CallOK(c)
  BY Types
<1>2. CASE ChecksAlg(c)
  <2> DEFINE p == IF AlgAccepted(token[c].alg, allowed[c]) THEN "looking" ELSE "unsupported alg"
  <2>1. /\ verifier[c] # None /\ keys[c] # None /\ token[c] # None /\ MovesTo(c, p)
        /\ UNCHANGED <<serverVars, clientVars, keys, token, key, verifyVars>>
    BY <1>2 DEF ChecksAlg, verifyVars
  <2>2. snapshot[c] = None /\ allowed[c] \cap Forbidden \subseteq named[c]
    BY <1>1, <2>1 DEF CallOK
  <2>3. p = "looking" => AlgOK(c)
    BY <2>1, <2>2 DEF AlgAccepted, AlgOK
  <2>4. MayMove(c, p)
    BY <2>1, <2>2, <2>3 DEF MayMove, Places
  <2> QED BY <2>1, <2>4, MoveOnly
<1>3. CASE ChecksSignature(c)
  <2> DEFINE p == IF key[c] = token[c].key THEN "verified" ELSE "bad signature"
  <2>1. /\ pc[c] = "resolved" /\ MovesTo(c, p)
        /\ UNCHANGED <<serverVars, clientVars, keys, token, key, verifyVars>>
    BY <1>3 DEF ChecksSignature, verifyVars
  <2>2. AlgOK(c) /\ (p = "verified" => token[c].key # None)
    BY <1>1, <2>1 DEF CallOK, LookingUp
  <2>3. MayMove(c, p)
    BY <2>2 DEF MayMove, Places
  <2> QED BY <2>1, <2>3, MoveOnly
<1> QED BY <1>2, <1>3, TakeVerifierIInv, TakeKeysIInv, TokenArrivesIInv DEF VerifyStep

-----------------------------------------------------------------------------
(* UserInfo calls.                                                         *)

LEMMA AsksIInv ==
  ASSUME IInv, NEW c \in Call, Asks(c), verifier[c] = None, UNCHANGED verifyVars PROVE IInv'
<1>1. TypeOK /\ CacheTypeOK /\ CallOK(c) /\ HandleOK /\ handle \in Version /\ known \in Version
  BY Types DEF IInv
<1> DEFINE p == IF Document[known].endpoint THEN "requesting" ELSE "no endpoint"
<1>2. /\ pc[c] = "refreshed" /\ snapshot' = [snapshot EXCEPT ![c] = known]
      /\ keys' = [keys EXCEPT ![c] = handle] /\ pc' = [pc EXCEPT ![c] = p]
      /\ UNCHANGED <<serverVars, clientVars, token, key, refreshed, answer>>
  BY DEF Asks, Read, MovesTo
<1>3. handle \in Option(Version) /\ known \in Option(Version) /\ p \in Places
  BY <1>1 DEF Option, Places
<1>4. TypeOK'
  BY <1>1, <1>2, <1>3 DEF TypeOK, CacheTypeOK, serverVars, clientVars, verifyVars
<1>5. known # None /\ handle # None
  BY <1>1, NoneIsNoKey DEF Version
<1>6. /\ snapshot'[c] = known /\ keys'[c] = handle /\ pc'[c] = p
      /\ verifier'[c] = None /\ token'[c] = token[c]
      /\ Genuine(c) => token[c].kid = token[c].key /\ token[c].alg = KeyAlg[token[c].key]
  BY <1>1, <1>2 DEF TypeOK, CacheTypeOK, CallOK, verifyVars
<1>7. Document[handle].uri = Document[known].uri
  BY <1>1 DEF HandleOK
<1>8. CallOK(c)'
  BY <1>5, <1>6, <1>7 DEF CallOK, AlgOK, Genuine, LookingUp, Asked
<1>9. \A d \in Call \ {c} : Same(d)
  BY <1>1, <1>2 DEF Same, TypeOK, CacheTypeOK, verifyVars
<1> QED BY <1>2, <1>4, <1>8, <1>9, CallStep DEF clientVars

\* A list by which UserInfo is read names nothing forbidden.
LEMMA ListsAreSafe ==
  ASSUME NEW v, NEW alg, AlgAccepted(alg, UserInfoAlgs(v)) PROVE alg \notin Forbidden
BY DEF AlgAccepted, UserInfoAlgs, DefaultAlgs, Forbidden, SpeltNone

\* What an answer may lead to.
LEMMA DispatchFacts ==
  ASSUME NEW c, NEW a, NEW t
  PROVE  /\ Dispatch(c, a, t) \in Places \ {"idle", "requesting", "fetching", "resolved", "verified"}
         /\ Dispatch(c, a, t) = "looking" =>
              a.ok /\ a.type = "jwt" /\ t # None /\ t.alg \notin Forbidden
         /\ Dispatch(c, a, t) = "returned" => a.ok /\ a.type # "jwt" /\ a.sub = Expected[c]
<1>1. SubjectVerdict(c, a) \in {"subject mismatch", "returned"}
      /\ (SubjectVerdict(c, a) = "returned" => a.sub = Expected[c])
  BY DEF SubjectVerdict
<1>2. JsonVerdict(c, a) \in {"unreadable", "subject mismatch", "returned"}
      /\ (JsonVerdict(c, a) = "returned" => a.sub = Expected[c])
  BY <1>1 DEF JsonVerdict
<1>3. CASE StatusError(a) # None
  BY <1>3, NoneIsNoError DEF StatusError, Dispatch, Places
<1>4. CASE StatusError(a) = None /\ EssenceIs(a, "jwt")
  <2>1. a.ok /\ a.type = "jwt"
    BY <1>4, NoneIsNoError DEF StatusError, EssenceIs
  <2> QED BY <1>4, <2>1, ListsAreSafe DEF Dispatch, Places
<1>5. CASE StatusError(a) = None /\ ~EssenceIs(a, "jwt")
  <2>1. a.ok /\ a.type # "jwt"
    BY <1>5, NoneIsNoError DEF StatusError, EssenceIs
  <2> QED BY <1>2, <1>5, <2>1 DEF Dispatch, Places
<1> QED BY <1>3, <1>4, <1>5

LEMMA AnsweredIInv ==
  ASSUME IInv, NEW c \in Call, Answered(c), verifier[c] = None, UNCHANGED verifyVars PROVE IInv'
<1>1. TypeOK /\ CacheTypeOK /\ CallOK(c)
  BY Types
<1>2. PICK a \in Answers, t \in Signed(ListAtProvider) \cup Forged \cup {None} :
        /\ answer' = [answer EXCEPT ![c] = a] /\ token' = [token EXCEPT ![c] = t]
        /\ MovesTo(c, Dispatch(c, a, t))
  BY DEF Answered
<1>3. /\ pc[c] = "requesting" /\ keys' = [keys EXCEPT ![c] = keys[c]]
      /\ UNCHANGED <<serverVars, clientVars, key, refreshed, snapshot>>
  BY DEF Answered, KeysFor
<1>4. /\ t \in Option(Token)
      /\ t # None /\ t.key # None /\ t.kid # None => t.kid = t.key /\ t.alg = KeyAlg[t.key]
  BY <1>1, TokenFacts DEF Option
<1> DEFINE p == Dispatch(c, a, t)
<1>5. /\ p \in Places \ {"idle", "requesting", "fetching", "resolved", "verified"}
      /\ p = "looking" => a.ok /\ a.type = "jwt" /\ t # None /\ t.alg \notin Forbidden
      /\ p = "returned" => a.ok /\ a.type # "jwt" /\ a.sub = Expected[c]
  BY DispatchFacts
<1> HIDE DEF p
<1>6. pc' = [pc EXCEPT ![c] = p] /\ keys' = keys
  BY <1>1, <1>2, <1>3 DEF MovesTo, CacheTypeOK, p
<1>7. t \in Option(Token) /\ a \in Option(Answers)
  BY <1>2, <1>4 DEF Option
<1>8. TypeOK'
  BY <1>1, <1>2, <1>3, <1>5, <1>6, <1>7 DEF TypeOK, CacheTypeOK, serverVars, clientVars, verifyVars
<1>9. /\ pc'[c] = p /\ token'[c] = t /\ answer'[c] = a /\ snapshot'[c] # None
      /\ verifier'[c] = None /\ Asked(c) /\ keys'[c] # None
      /\ Document[keys'[c]].uri = Document[snapshot'[c]].uri
  BY <1>1, <1>2, <1>3, <1>6 DEF TypeOK, CacheTypeOK, CallOK, Asked, verifyVars
<1>10. CallOK(c)'
  BY <1>4, <1>5, <1>9 DEF CallOK, AlgOK, Forbidden, Genuine, LookingUp, Asked
<1>11. \A d \in Call \ {c} : Same(d)
  BY <1>1, <1>2, <1>3, <1>6 DEF Same, TypeOK, CacheTypeOK, verifyVars
<1> QED BY <1>3, <1>8, <1>10, <1>11, CallStep DEF clientVars

LEMMA UserInfoIInv ==
  ASSUME IInv, NEW c \in Call, UserInfoStep(c), verifier[c] = None, UNCHANGED verifyVars PROVE IInv'
<1>1. TypeOK /\ CacheTypeOK /\ CallOK(c) /\ known \in Version
  BY Types
<1>2. CASE Start(c)
  <2>1. MayMove(c, "refreshing")
    BY DEF MayMove, Places
  <2> QED BY <1>2, <2>1, MoveOnly DEF Start
<1>3. CASE Refreshed(c)
  <2>1. MayMove(c, "refreshed") /\ MayMove(c, "refresh failed")
    BY DEF MayMove, Places
  <2>2. UNCHANGED <<serverVars, clientVars, keys, token, key, verifyVars, snapshot, answer>>
    BY <1>3 DEF Refreshed
  <2>3. CASE MovesTo(c, "refreshed") /\ refreshed' = [refreshed EXCEPT ![c] = known]
    <3>1. known \in Option(Version)
      BY <1>1 DEF Option
    <3> QED BY <2>1, <2>2, <2>3, <3>1, MoveStep
  <2>4. CASE MovesTo(c, "refresh failed") /\ UNCHANGED refreshed
    BY <2>1, <2>2, <2>4, MoveOnly DEF uiVars
  <2> QED BY <1>3, <2>3, <2>4 DEF Refreshed
<1>4. CASE TransportFails(c)
  <2>1. MayMove(c, "transport")
    BY DEF MayMove, Places
  <2> QED BY <1>4, <2>1, MoveOnly DEF TransportFails
<1>5. CASE ChecksJwt(c)
  <2> DEFINE p == JwtVerdict(c, answer[c])
  <2>1. pc[c] = "resolved" /\ snapshot[c] # None /\ MovesTo(c, p)
        /\ UNCHANGED <<serverVars, clientVars, keys, token, key, verifyVars, uiVars>>
    BY <1>5 DEF ChecksJwt
  <2>2. answer[c].ok /\ token[c].alg \notin Forbidden /\ key[c] # None
    BY <1>1, <2>1 DEF CallOK, LookingUp, AlgOK
  <2>3. /\ p \in {"bad signature", "bad claims", "unreadable", "subject mismatch", "returned"}
        /\ p = "returned" => key[c] = token[c].key /\ answer[c].mine /\ answer[c].sub = Expected[c]
    BY DEF JwtVerdict, SubjectVerdict
  <2> HIDE DEF p
  <2>4. MayMove(c, p)
    BY <2>2, <2>3 DEF MayMove, AnswerOK, Places
  <2> QED BY <2>1, <2>4, MoveOnly
<1> QED BY <1>2, <1>3, <1>4, <1>5, AsksIInv, AnsweredIInv DEF UserInfoStep

-----------------------------------------------------------------------------
LEMMA NextIInv == IInv /\ [Next]_vars => IInv'
<1> SUFFICES ASSUME IInv, [Next]_vars PROVE IInv'
  OBVIOUS
<1>1. CASE Next
  BY <1>1, ProviderIInv, RefreshIInv, LookupIInv, VerifyIInv, UserInfoIInv DEF Next
<1>2. CASE UNCHANGED vars
  <2>1. /\ UNCHANGED <<published, served, known, handle, cached>>
        /\ UNCHANGED <<lookupVars, verifyVars, uiVars>>
    BY <1>2 DEF vars, cacheVars, serverVars, clientVars
  <2>2. CacheTypeOK' /\ HandleOK'
    BY <2>1 DEF IInv, TypeOK, CacheTypeOK, HandleOK, lookupVars
  <2> QED BY <2>1, <2>2, CacheStep
<1> QED BY <1>1, <1>2

\* The inductive invariant: what each call has been told and checked for so far, in
\* every interleaving with refreshes and the provider (client.rs, verify.rs).
THEOREM InvariantHolds == Spec => []IInv
BY InitIInv, NextIInv, PTL DEF Spec

\* The variables keep their types.
THEOREM TypeCorrect == Spec => []TypeOK
<1>1. IInv => TypeOK
  BY DEF IInv
<1> QED BY <1>1, InvariantHolds, PTL

\* Whatever list the caller sets, nothing unsigned is looked up or verified, a token
\* by HMAC only if the caller listed that algorithm by name, and what is verified
\* was signed by the provider (verify.rs:104, verify.rs:168).
THEOREM NothingUnsigned == Spec => []UnsignedNeverVerified
<1>1. IInv => UnsignedNeverVerified
  BY DEF IInv, CallOK, AlgOK, Verifies, UnsignedNeverVerified
<1> QED BY <1>1, InvariantHolds, PTL

\* Endpoint, algorithms and keys of a UserInfo call are of one document
\* (client.rs:574, client.rs:382).
THEOREM SnapshotIsOne == Spec => []OneSnapshot
<1>1. IInv => OneSnapshot
  BY DEF IInv, HandleOK, CallOK, OneSnapshot
<1> QED BY <1>1, InvariantHolds, PTL

\* What fetch_userinfo returns is about the expected subject (client.rs:622).
THEOREM SubjectIsRight == Spec => []AnswerIsAboutTheSubject
<1>1. IInv => AnswerIsAboutTheSubject
  BY DEF IInv, CallOK, AnswerIsAboutTheSubject
<1> QED BY <1>1, InvariantHolds, PTL

-----------------------------------------------------------------------------
(* Refusals.                                                               *)

LEMMA LookupMoves == ASSUME NEW c \in Call, Lookup(c) PROVE \E p : MovesTo(c, p)
BY DEF Lookup, FindsKey, Misses, MissesKey, KeysArrive, FetchFails

LEMMA VerifyMoves ==
  ASSUME NEW c \in Call, VerifyStep(c) PROVE pc' = pc \/ \E p : MovesTo(c, p)
BY DEF VerifyStep, TakeVerifier, TakeKeys, TokenArrives, ChecksAlg, ChecksSignature,
       cacheVars, lookupVars

LEMMA UserInfoMoves == ASSUME NEW c \in Call, UserInfoStep(c) PROVE \E p : MovesTo(c, p)
BY DEF UserInfoStep, Start, Refreshed, Asks, Answered, TransportFails, ChecksJwt

\* A call is moved by a step of its own.
LEMMA MovedByItself ==
  ASSUME IInv, Next, NEW c \in Call, pc'[c] # pc[c]
  PROVE  Lookup(c) \/ VerifyStep(c) \/ (verifier[c] = None /\ UserInfoStep(c))
<1>1. TypeOK /\ CacheTypeOK
  BY DEF IInv, TypeOK
<1>2. ASSUME NEW d \in Call \ {c}, NEW p, MovesTo(d, p) PROVE FALSE
  BY <1>1, <1>2 DEF MovesTo, CacheTypeOK
<1>3. ASSUME Provider \/ RefreshClient PROVE FALSE
  BY <1>3 DEF Provider, RefreshClient, PublishDocument, RotateKey, CacheExpires, lookupVars
<1>4. PICK d \in Call : Lookup(d) \/ VerifyStep(d) \/ (verifier[d] = None /\ UserInfoStep(d))
  BY <1>3 DEF Next
<1> QED BY <1>2, <1>4, LookupMoves, VerifyMoves, UserInfoMoves

Refusals == {"unsupported alg", "no matching key", "bad signature"}

LEMMA LookupRefuses ==
  ASSUME IInv, NEW c \in Call, Lookup(c), pc'[c] \in Refusals, pc'[c] # pc[c], Genuine(c)'
  PROVE  pc'[c] = "no matching key" /\ token[c].key \notin served[Document[keys[c]].uri]
<1>1. TypeOK /\ CacheTypeOK /\ CallOK(c)
  BY Types
<1>2. ASSUME NEW p, MovesTo(c, p) PROVE pc'[c] = p
  BY <1>1, <1>2 DEF MovesTo, CacheTypeOK
<1>3. ~FindsKey(c) /\ ~Misses(c) /\ ~FetchFails(c)
  BY <1>2 DEF FindsKey, Misses, MissesKey, FetchFails, Refusals
<1>4. KeysArrive(c)
  BY <1>3 DEF Lookup
<1> DEFINE found == Matching(served[Document[keys[c]].uri], token[c])
<1>5. found = {} /\ pc'[c] = "no matching key" /\ pc[c] = "fetching" /\ token' = token
  BY <1>2, <1>4 DEF KeysArrive, Refusals
<1>6. token[c].kid = token[c].key /\ token[c].alg = KeyAlg[token[c].key]
  BY <1>1, <1>5 DEF CallOK, Genuine, LookingUp
<1> QED BY <1>5, <1>6 DEF Matching

LEMMA VerifyRefuses ==
  ASSUME IInv, NEW c \in Call, VerifyStep(c), pc'[c] \in Refusals, pc'[c] # pc[c],
         Genuine(c)', Verifies(c) => allowed[c] = VerifierAlgs(verifier[c])
  PROVE  /\ pc'[c] = "unsupported alg"
         /\ token'[c].alg \in Forbidden \/ DocumentOf(c) # token'[c].version
<1>1. TypeOK /\ CacheTypeOK /\ CallOK(c)
  BY Types
<1>2. ASSUME NEW p, MovesTo(c, p) PROVE pc'[c] = p
  BY <1>1, <1>2 DEF MovesTo, CacheTypeOK
<1>3. ~TakeVerifier(c) /\ ~TakeKeys(c) /\ ~TokenArrives(c)
  BY DEF TakeVerifier, TakeKeys, TokenArrives, cacheVars, lookupVars
<1>4. ~ChecksSignature(c)
  <2> SUFFICES ASSUME ChecksSignature(c) PROVE FALSE
    OBVIOUS
  <2>1. pc[c] = "resolved" /\ token' = token /\ key[c] # token[c].key
    BY <1>2 DEF ChecksSignature, Refusals
  <2>2. key[c] = token[c].kid /\ token[c].kid = token[c].key
    BY <1>1, <2>1 DEF CallOK, Genuine, LookingUp
  <2> QED BY <2>1, <2>2
<1>5. ChecksAlg(c)
  BY <1>3, <1>4 DEF VerifyStep
<1>6. /\ pc'[c] = "unsupported alg" /\ token' = token /\ token[c] # None /\ Verifies(c)
      /\ token[c].alg \in SpeltNone \/ token[c].alg \notin allowed[c]
  BY <1>2, <1>5 DEF ChecksAlg, AlgAccepted, Refusals, Verifies
<1>7. snapshot[c] = None /\ token[c].alg \in Document[token[c].version].algs
  BY <1>1, <1>6 DEF CallOK, Genuine, Verifies
<1> QED BY <1>6, <1>7 DEF DocumentOf, VerifierAlgs, Forbidden

LEMMA UserInfoRefuses ==
  ASSUME IInv, NEW c \in Call, UserInfoStep(c), verifier[c] = None,
         pc'[c] \in Refusals, pc'[c] # pc[c], Genuine(c)'
  PROVE  /\ pc'[c] = "unsupported alg"
         /\ token'[c].alg \in Forbidden \/ DocumentOf(c) # token'[c].version
<1>1. TypeOK /\ CacheTypeOK /\ CallOK(c)
  BY Types
<1>2. ASSUME NEW p, MovesTo(c, p) PROVE pc'[c] = p
  BY <1>1, <1>2 DEF MovesTo, CacheTypeOK
<1>3. ~Start(c) /\ ~Refreshed(c) /\ ~Asks(c) /\ ~TransportFails(c)
  BY <1>2 DEF Start, Refreshed, Asks, TransportFails, Refusals
<1>4. ~ChecksJwt(c)
  <2> SUFFICES ASSUME ChecksJwt(c) PROVE FALSE
    OBVIOUS
  <2>1. pc[c] = "resolved" /\ token' = token /\ pc'[c] = JwtVerdict(c, answer[c])
    BY <1>2 DEF ChecksJwt
  <2>2. key[c] = token[c].kid /\ token[c].kid = token[c].key
    BY <1>1, <2>1 DEF CallOK, Genuine, LookingUp
  <2> QED BY <2>1, <2>2 DEF JwtVerdict, SubjectVerdict, Refusals
<1>5. PICK a \in Answers, t \in Signed(ListAtProvider) \cup Forged \cup {None} :
        token' = [token EXCEPT ![c] = t] /\ MovesTo(c, Dispatch(c, a, t))
  BY <1>3, <1>4 DEF UserInfoStep, Answered
<1>6. token'[c] = t /\ pc'[c] = Dispatch(c, a, t)
  BY <1>1, <1>2, <1>5 DEF CacheTypeOK
<1>7. t.version = published /\ t.alg \in ListAtProvider
  <2>1. t # None /\ t.key # None /\ t.kid # None
    BY <1>6 DEF Genuine
  <2> QED BY <1>1, <1>5, <2>1, TokenFacts
<1>8. pc'[c] = "unsupported alg" /\ ~AlgAccepted(t.alg, UserInfoAlgs(snapshot[c]))
  BY <1>6, NoneIsNoError DEF Dispatch, StatusError, JsonVerdict, SubjectVerdict, Refusals
<1>9. ASSUME snapshot[c] = published, t.alg \notin Forbidden PROVE FALSE
  BY <1>7, <1>8, <1>9 DEF ListAtProvider, UserInfoAlgs, AlgAccepted, Forbidden
<1> QED BY <1>6, <1>7, <1>8, <1>9 DEF DocumentOf, Verifies

\* Tokens of the provider are refused only for reasons a new look at it cures
\* (client.rs:738, verify.rs:186, userinfo.rs:178).
THEOREM RefusalsHaveReasons == Spec => RefusedForAReason
<1>1. ASSUME IInv, Next, NEW c \in Call, pc'[c] # pc[c], pc'[c] \in Refusals,
             Genuine(c)', Verifies(c) => allowed[c] = VerifierAlgs(verifier[c])
      PROVE  \/ token'[c].alg \in Forbidden
             \/ pc'[c] = "unsupported alg" /\ DocumentOf(c) # token'[c].version
             \/ pc'[c] = "no matching key" /\ token[c].key \notin served[Document[keys[c]].uri]
  <2>1. Lookup(c) \/ VerifyStep(c) \/ (verifier[c] = None /\ UserInfoStep(c))
    BY <1>1, MovedByItself
  <2> QED BY <1>1, <2>1, LookupRefuses, VerifyRefuses, UserInfoRefuses
<1> DEFINE Step ==
  \A c \in Call :
    (/\ pc'[c] # pc[c] /\ pc'[c] \in {"unsupported alg", "no matching key", "bad signature"}
     /\ token'[c] # None /\ token'[c].key # None /\ token'[c].kid # None
     /\ Verifies(c) => allowed[c] = VerifierAlgs(verifier[c])) =>
    \/ token'[c].alg \in Forbidden
    \/ pc'[c] = "unsupported alg" /\ DocumentOf(c) # token'[c].version
    \/ pc'[c] = "no matching key" /\ token[c].key \notin served[Document[keys[c]].uri]
<1>2. IInv /\ Next => Step
  BY <1>1 DEF Refusals, Genuine
<1>3. IInv /\ [Next]_vars => [Step]_vars
  BY <1>2
<1> QED BY <1>3, InvariantHolds, PTL DEF Spec, RefusedForAReason
=============================================================================
