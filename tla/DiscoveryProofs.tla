-------------------------- MODULE DiscoveryProofs --------------------------
(***************************************************************************)
(* Discovery for any issuers and documents: a client works for the issuer   *)
(* it was asked for, requests stay with that issuer, and the client has the *)
(* keys of its document.                                                   *)
(***************************************************************************)
EXTENDS Discovery, TLAPS

\* What every document that is used has passed.
Accepted(d) == d \in Document \ {Garbled} /\ Parses(d) /\ Valid(d) /\ d.issuer = home

\* Nothing happens before an issuer is named, a call that waits for keys works on
\* a document it accepted, and so does a client.
StagesOK ==
  /\ home = None => client = None /\ pc = "idle" /\ requested = {}
  /\ pc = "keys" <=> found # None
  /\ found # None => Accepted(found)
  /\ client # None => Accepted(client.doc)

IInv == TypeOK /\ StagesOK /\ RequestsStayHome /\ CanVerify

LEMMA DocumentFields ==
  ASSUME NEW d \in Document \ {Garbled}
  PROVE  d.issuer \in Issuer /\ d.jwks \in Locator
BY Documents

LEMMA WellKnownIsHttps == \A text : WellKnown(text).scheme = "https"
BY DEF WellKnown

LEMMA ValidListsRs256 ==
  ASSUME NEW d, Valid(d)
  PROVE  d.algs \ {"none", "None", "HS256"} # {}
<1>1. "RS256" \in d.algs /\ "RS256" \notin {"none", "None", "HS256"}
  BY DEF Valid
<1> QED BY <1>1

\* A call in flight works for the issuer the application named.
LEMMA AskedIsHome ==
  ASSUME IInv, home # None
  PROVE  Asked = home /\ home \in Issuer /\ WellKnown(Asked) \in Location
<1>1. home \in Issuer
  BY DEF IInv, TypeOK, Option
<1>2. Asked = home
  BY DEF IInv, StagesOK, Asked, Accepted
<1> QED BY <1>1, <1>2 DEF Location

\* What the checks of a response let through.
LEMMA ChecksAccept ==
  ASSUME IInv, pc = "document", DocumentError(served[WellKnown(Asked)]) = None
  PROVE  Accepted(served[WellKnown(Asked)])
<1> DEFINE d == served[WellKnown(Asked)]
<1>1. home # None
  BY DEF IInv, StagesOK
<1>2. d \in Document
  BY <1>1, AskedIsHome DEF IInv, TypeOK
<1>3. None # "invalid metadata" /\ None # "issuer mismatch" => Parses(d) /\ Valid(d) /\ SameIssuer(d)
  BY DEF DocumentError
<1>4. None # "invalid metadata" /\ None # "issuer mismatch"
  BY NoneIsNoError
<1>5. d.issuer = home
  BY <1>1, <1>3, <1>4, AskedIsHome DEF SameIssuer
<1> QED BY <1>2, <1>3, <1>4, <1>5 DEF Accepted, Parses

LEMMA InitIInv == Init => IInv
BY NoneIsNoDocument DEF Init, IInv, TypeOK, StagesOK, RequestsStayHome, CanVerify, Option

\* Requesting a URL that the property allows keeps it.
LEMMA RequestKeeps ==
  ASSUME RequestsStayHome, home # None, home' = home, NEW url,
         url.scheme = "https",
         url = WellKnown(home) \/ \E d \in Document \ {Garbled} : url = d.jwks /\ d.issuer = home,
         requested' = requested \cup {url}
  PROVE  RequestsStayHome'
BY DEF RequestsStayHome

LEMMA NextIInv == IInv /\ [Next]_vars => IInv'
<1> SUFFICES ASSUME IInv, [Next]_vars PROVE IInv'
  OBVIOUS
<1>0. ASSUME UNCHANGED vars PROVE IInv'
  BY <1>0 DEF vars, IInv, TypeOK, StagesOK, Accepted, RequestsStayHome, CanVerify
<1>1. ASSUME NEW l \in Location, NEW d \in Document, ProviderChanges(l, d) PROVE IInv'
  BY <1>1 DEF ProviderChanges, IInv, TypeOK, StagesOK, Accepted, RequestsStayHome, CanVerify
<1>2. ASSUME NEW i \in Issuer, StartDiscover(i) PROVE IInv'
  <2>1. client = None /\ pc = "idle" /\ found = None /\ home' = i /\ client' = client
        /\ found' = found /\ pc' = "document" /\ requested' = requested \cup {WellKnown(i)}
    BY <1>2 DEF StartDiscover, Requests, IInv, StagesOK
  <2>2. TypeOK'
    BY <1>2, <2>1 DEF StartDiscover, IInv, TypeOK, Option
  <2>3. StagesOK' /\ CanVerify'
    BY <1>2, <2>1, NoneIsNoIssuer DEF StagesOK, CanVerify
  <2>4. RequestsStayHome'
    <3>1. home = None => requested = {}
      BY DEF IInv, StagesOK
    <3>2. home = None \/ home = i
      BY <1>2 DEF StartDiscover
    <3>3. i # None
      BY NoneIsNoIssuer
    <3>4. CASE home = None
      <4>1. requested' = {WellKnown(i)}
        BY <2>1, <3>1, <3>4
      <4> QED BY <2>1, <3>3, <4>1, WellKnownIsHttps DEF RequestsStayHome
    <3>5. CASE home = i
      BY <2>1, <3>3, <3>5, WellKnownIsHttps, RequestKeeps DEF IInv
    <3> QED BY <3>2, <3>4, <3>5
  <2> QED BY <2>2, <2>3, <2>4 DEF IInv
<1>3. ASSUME StartRefresh PROVE IInv'
  <2>1. home # None /\ home' = home
    BY <1>3 DEF StartRefresh, IInv, StagesOK
  <2>2. RequestsStayHome'
    BY <1>3, <2>1, AskedIsHome, WellKnownIsHttps, RequestKeeps DEF StartRefresh, Requests, IInv
  <2>3. TypeOK'
    BY <1>3 DEF StartRefresh, IInv, TypeOK
  <2>4. StagesOK' /\ CanVerify'
    BY <1>3, <2>1 DEF StartRefresh, IInv, StagesOK, Accepted, CanVerify
  <2> QED BY <2>2, <2>3, <2>4 DEF IInv
<1>4. ASSUME NEW d \in Document, FromParts(d) PROVE IInv'
  <2>1. d # Garbled
    BY <1>4 DEF FromParts, Parses
  <2>2. d.issuer \in Issuer /\ d.jwks \in Locator
    BY <2>1, DocumentFields
  <2>3. /\ client' = [doc |-> d, jwks |-> d.jwks, filled |-> FALSE, made |-> "from parts"]
        /\ home' = d.issuer /\ found' = found /\ pc' = pc /\ requested' = requested
        /\ served' = served /\ home = None /\ pc = "idle"
    BY <1>4 DEF FromParts
  <2>4. TypeOK'
    BY <2>1, <2>2, <2>3 DEF IInv, TypeOK, Option
  <2>8. /\ client'.doc = d /\ client'.jwks = d.jwks /\ client'.made = "from parts"
        /\ Parses(d) /\ Valid(d) /\ home' # None /\ found = None
    <3>1. Parses(d) /\ Valid(d)
      BY <1>4 DEF FromParts
    <3>2. client'.doc = d /\ client'.jwks = d.jwks /\ client'.made = "from parts"
      BY <2>3
    <3>3. found = None
      BY <2>3 DEF IInv, StagesOK
    <3> QED BY <2>2, <2>3, <3>1, <3>2, <3>3, NoneIsNoIssuer
  <2>5. StagesOK'
    <3>1. Accepted(client.doc)'
      BY <2>1, <2>3, <2>8 DEF Accepted
    <3>2. pc' # "keys" /\ found' = None
      BY <2>3, <2>8
    <3> QED BY <2>8, <3>1, <3>2 DEF StagesOK
  <2>6. RequestsStayHome'
    BY <2>3 DEF IInv, StagesOK, RequestsStayHome
  <2>7. CanVerify'
    <3>1. d.algs \ {"none", "None", "HS256"} # {}
      BY <2>8, ValidListsRs256
    <3> QED BY <2>8, <3>1 DEF CanVerify
  <2> QED BY <2>4, <2>5, <2>6, <2>7 DEF IInv
<1>5. ASSUME Fails PROVE IInv'
  BY <1>5, NoneIsNoDocument DEF Fails, IInv, TypeOK, StagesOK, Accepted, RequestsStayHome, CanVerify, Option
<1>6. ASSUME DocumentArrives PROVE IInv'
  <2> DEFINE d == served[WellKnown(Asked)]
  <2>1. Accepted(d) /\ pc = "document" /\ served' = served /\ home' = home
    BY <1>6, ChecksAccept DEF DocumentArrives
  <2>2. Accepts(d)
    BY <1>6 DEF DocumentArrives
  <2>3. d.issuer = home /\ d.issuer \in Issuer /\ d.jwks \in Locator /\ d.jwks.scheme = "https"
        /\ d \in Document \ {Garbled} /\ home # None /\ found = None
    BY <2>1, DocumentFields DEF Accepted, Parses, IsHttpsUrl, IInv, StagesOK
  <2> HIDE DEF d
  <2>4. CASE KeysKept(d)
    <3>1. client # None /\ client.jwks = d.jwks
      BY <2>4 DEF KeysKept
    <3>2. /\ client' = [client EXCEPT !.doc = d] /\ pc' = "idle"
          /\ found' = found /\ requested' = requested
      BY <2>2, <2>4, <3>1 DEF Accepts
    <3>3. client \in [doc : Document \ {Garbled}, jwks : Locator, filled : BOOLEAN,
                      made : {"discovered", "from parts"}]
      BY <3>1 DEF IInv, TypeOK
    <3>4. client'.doc = d /\ client'.jwks = client.jwks /\ client'.filled = client.filled
          /\ client'.made = client.made
      BY <3>2, <3>3
    <3>5. TypeOK'
      BY <2>1, <2>3, <3>2, <3>3 DEF IInv, TypeOK
    <3>6. StagesOK'
      BY <2>1, <2>3, <3>2, <3>4 DEF StagesOK, Accepted
    <3>7. RequestsStayHome' /\ CanVerify'
      BY <2>1, <3>1, <3>2, <3>4, ValidListsRs256 DEF IInv, RequestsStayHome, CanVerify, Accepted
    <3> QED BY <3>5, <3>6, <3>7 DEF IInv
  <2>5. CASE ~KeysKept(d)
    <3>1. found' = d /\ pc' = "keys" /\ requested' = requested \cup {d.jwks} /\ client' = client
      BY <2>2, <2>5 DEF Accepts, Requests
    <3>2. TypeOK'
      BY <2>1, <2>3, <3>1 DEF IInv, TypeOK, Option
    <3>3. StagesOK' /\ CanVerify'
      BY <2>1, <2>3, <3>1, NoneIsNoDocument DEF IInv, StagesOK, Accepted, CanVerify
    <3>4. RequestsStayHome'
      BY <2>1, <2>3, <3>1, RequestKeeps DEF IInv
    <3> QED BY <3>2, <3>3, <3>4 DEF IInv
  <2> QED BY <2>4, <2>5
<1>7. ASSUME KeysArrive PROVE IInv'
  <2>1. found # None /\ Accepted(found) /\ home # None /\ found \in Document \ {Garbled}
    BY <1>7 DEF KeysArrive, IInv, StagesOK, Accepted
  <2>2. /\ client'.doc = found /\ client'.jwks = found.jwks /\ client'.filled = TRUE
        /\ client' \in [doc : Document \ {Garbled}, jwks : Locator, filled : BOOLEAN,
                        made : {"discovered", "from parts"}]
    BY <1>7, <2>1, DocumentFields DEF KeysArrive, IInv, TypeOK
  <2>3. /\ home' = home /\ requested' = requested /\ served' = served /\ pc' = "idle" /\ found' = None
    BY <1>7 DEF KeysArrive
  <2>4. TypeOK'
    BY <2>2, <2>3 DEF IInv, TypeOK, Option
  <2>5. StagesOK' /\ RequestsStayHome'
    BY <2>1, <2>2, <2>3 DEF IInv, StagesOK, Accepted, RequestsStayHome
  <2>6. CanVerify'
    BY <2>1, <2>2, ValidListsRs256 DEF CanVerify, Accepted
  <2> QED BY <2>4, <2>5, <2>6 DEF IInv
<1>8. ASSUME KeysUsed PROVE IInv'
  <2>1. /\ client # None /\ client' = [client EXCEPT !.filled = TRUE]
        /\ requested' = requested \cup {client.jwks}
        /\ served' = served /\ home' = home /\ pc' = pc /\ found' = found
    BY <1>8 DEF KeysUsed, Requests
  <2>2. client \in [doc : Document \ {Garbled}, jwks : Locator, filled : BOOLEAN,
                    made : {"discovered", "from parts"}]
    BY <2>1 DEF IInv, TypeOK
  <2>3. /\ client'.doc = client.doc /\ client'.jwks = client.jwks /\ client'.filled = TRUE
        /\ client'.made = client.made
    BY <2>1, <2>2
  <2>4. Accepted(client.doc) /\ client.jwks = client.doc.jwks /\ home # None
    BY <2>1 DEF IInv, StagesOK, CanVerify
  <2>5. TypeOK'
    BY <2>1, <2>2 DEF IInv, TypeOK
  <2>6. StagesOK' /\ CanVerify'
    BY <2>1, <2>3, <2>4 DEF IInv, StagesOK, Accepted, CanVerify
  <2>7. RequestsStayHome'
    BY <2>1, <2>4, RequestKeeps DEF IInv, Accepted, Parses, IsHttpsUrl
  <2> QED BY <2>5, <2>6, <2>7 DEF IInv
<1> QED BY <1>0, <1>1, <1>2, <1>3, <1>4, <1>5, <1>6, <1>7, <1>8 DEF Next

THEOREM InvariantHolds == Spec => []IInv
BY InitIInv, NextIInv, PTL DEF Spec

\* The types of the variables hold.
THEOREM TypeCorrect == Spec => []TypeOK
<1>1. IInv => TypeOK
  BY DEF IInv
<1> QED BY <1>1, InvariantHolds, PTL

\* A client works for the issuer the application named, to the byte, whatever the
\* hosts serve.
THEOREM IssuerIsRight == Spec => []IssuerIsTheOneAsked
<1>1. IInv => IssuerIsTheOneAsked
  BY DEF IInv, StagesOK, Accepted, IssuerIsTheOneAsked
<1> QED BY <1>1, InvariantHolds, PTL

\* Nothing is requested in the clear, nor from a place no accepted document names.
THEOREM NoRequestStrays == Spec => []RequestsStayHome
<1>1. IInv => RequestsStayHome
  BY DEF IInv
<1> QED BY <1>1, InvariantHolds, PTL

\* A client has the keys of its document, and may use one of its algorithms.
THEOREM ClientsCanVerify == Spec => []CanVerify
<1>1. IInv => CanVerify
  BY DEF IInv
<1> QED BY <1>1, InvariantHolds, PTL
=============================================================================
