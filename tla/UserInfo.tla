------------------------------ MODULE UserInfo ------------------------------
(***************************************************************************)
(* Client::fetch_userinfo (src/src/client.rs, src/src/token/userinfo.rs):   *)
(* refresh, take one snapshot of metadata and keys, send the access token   *)
(* to its endpoint, and read the answer as JSON or as a signed JWT.  The    *)
(* profile claims of UserInfo are one value; what is read of it is sub.     *)
(***************************************************************************)
EXTENDS KeyCache

CONSTANTS Subject, Expected  \* the subject each call expects, from the ID token

ASSUME Subjects == Expected \in [Call -> Subject] /\ None \notin Subject
ASSUME NoneIsNoError == None # "userinfo error"

VARIABLES
  refreshed, \* the version its refresh returned
  snapshot,  \* the document whose endpoint is asked
  answer     \* the response

uiVars == <<refreshed, snapshot, answer>>

UserInfoInit ==
  /\ refreshed = [c \in Call |-> None]
  /\ snapshot = [c \in Call |-> None]
  /\ answer = [c \in Call |-> None]

Start(c) ==
  /\ pc[c] = "idle" /\ keys[c] = None /\ token[c] = None
  /\ MovesTo(c, "refreshing")
  /\ UNCHANGED <<serverVars, clientVars, keys, token, key, uiVars>>

\* refresh_metadata_if_stale returned: what it did to the client, Refreshes says.
\* It may fail.
Refreshed(c) ==
  /\ pc[c] = "refreshing"
  /\ \/ MovesTo(c, "refreshed") /\ refreshed' = [refreshed EXCEPT ![c] = known]
     \/ MovesTo(c, "refresh failed") /\ UNCHANGED refreshed
  /\ UNCHANGED <<serverVars, clientVars, keys, token, key, snapshot, answer>>

\* provider(): document and handle under one read lock, after the wait; what the
\* refresh returned is not used.
Read(c) == known

Asks(c) ==
  /\ pc[c] = "refreshed"
  /\ snapshot' = [snapshot EXCEPT ![c] = Read(c)]
  /\ keys' = [keys EXCEPT ![c] = handle]
  /\ MovesTo(c, IF Document[Read(c)].endpoint THEN "requesting" ELSE "no endpoint")
  /\ UNCHANGED <<serverVars, clientVars, token, key, refreshed, answer>>

\* What the provider may answer: a status, a Content-Type (absent, or one no
\* branch reads, bytes that are not ASCII among them), a body that is not UserInfo
\* when sub is None, and for a JWT its audience.  The JWT itself is the token of
\* the call, None when the body is not one.
Answers ==
  [ok : BOOLEAN, type : {"absent", "json", "jwt", "other"}, sub : Option(Subject),
   mine : BOOLEAN]

ListAtProvider ==
  IF Document[published].userinfoAlgs = None THEN DefaultAlgs ELSE Document[published].userinfoAlgs

\* UserInfoVerifier::from_metadata: an absent list stands for the defaults.
UserInfoAlgs(v) ==
  IF Document[v].userinfoAlgs = None THEN DefaultAlgs ELSE Document[v].userinfoAlgs \ Forbidden

\* verify_subject, at the end of both branches.
SubjectVerdict_SignedOnly(c, a) ==
  IF a.type = "jwt" /\ a.sub # Expected[c] THEN "subject mismatch" ELSE "returned"
SubjectVerdict(c, a) == IF a.sub # Expected[c] THEN "subject mismatch" ELSE "returned"

\* from_json, then verify_subject.
JsonVerdict(c, a) == IF a.sub = None THEN "unreadable" ELSE SubjectVerdict(c, a)

\* content_type_essence_is, where no Content-Type reads as JSON.
EssenceIs(a, essence) == essence = (IF a.type = "absent" THEN "json" ELSE a.type)

\* parse_userinfo_error, whatever the body says.
StatusError(a) == IF a.ok THEN None ELSE "userinfo error"

\* The dispatch on the status and on the essence of the Content-Type; a body that
\* is a JWT goes on to the algorithm check of UserInfoVerifier::verify.
Dispatch(c, a, t) ==
  IF StatusError(a) # None THEN StatusError(a)
  ELSE IF EssenceIs(a, "jwt")
    THEN IF t = None THEN "unreadable"
         ELSE IF AlgAccepted(t.alg, UserInfoAlgs(snapshot[c])) THEN "looking" ELSE "unsupported alg"
  ELSE IF EssenceIs(a, "json") THEN JsonVerdict(c, a)
  ELSE "unexpected type"

\* The JWT is looked up in the keys of the snapshot.
KeysFor_Latest(c) == handle
KeysFor(c) == keys[c]

Answered(c) ==
  /\ pc[c] = "requesting"
  /\ \E a \in Answers, t \in Signed(ListAtProvider) \cup Forged \cup {None} :
       /\ EssenceIs(a, "jwt") \/ (t = None /\ ~a.mine)
       /\ answer' = [answer EXCEPT ![c] = a]
       /\ token' = [token EXCEPT ![c] = t]
       /\ MovesTo(c, Dispatch(c, a, t))
  /\ keys' = [keys EXCEPT ![c] = KeysFor(c)]
  /\ UNCHANGED <<serverVars, clientVars, key, refreshed, snapshot>>

TransportFails(c) ==
  /\ pc[c] = "requesting"
  /\ MovesTo(c, "transport")
  /\ UNCHANGED <<serverVars, clientVars, keys, token, key, uiVars>>

\* The signature, then issuer, audience and times by JwtConsumer, then the claims
\* as UserInfo and their subject.
JwtVerdict(c, a) ==
  IF key[c] # token[c].key THEN "bad signature"
  ELSE IF ~a.mine THEN "bad claims"
  ELSE IF a.sub = None THEN "unreadable" ELSE SubjectVerdict(c, a)

ChecksJwt(c) ==
  /\ pc[c] = "resolved" /\ snapshot[c] # None
  /\ MovesTo(c, JwtVerdict(c, answer[c]))
  /\ UNCHANGED <<serverVars, clientVars, keys, token, key, uiVars>>

UserInfoStep(c) ==
  Start(c) \/ Refreshed(c) \/ Asks(c) \/ Answered(c) \/ TransportFails(c) \/ ChecksJwt(c)
=============================================================================
