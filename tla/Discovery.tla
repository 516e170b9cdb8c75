------------------------------- MODULE Discovery -------------------------------
(***************************************************************************)
(* Where a Client comes from and what its refreshes accept: discover_with_ *)
(* cache (src/src/metadata/mod.rs), ProviderMetadata::validate, IssuerUrl   *)
(* and the https URLs, Client::discover, from_parts and the requests of     *)
(* refresh_metadata_from, over an HTTP client that follows no redirect.     *)
(*                                                                         *)
(* A host serves several issuers, whose names may differ in spelling only:  *)
(* an issuer is the text the application or a document wrote, a location    *)
(* what the URL library makes of it.                                       *)
(*                                                                         *)
(* A definition X_Y is X with a plausible mistake in it, which some        *)
(* property must notice.                                                   *)
(***************************************************************************)
CONSTANTS
  None,
  Issuer,    \* texts that parse as URLs (see Issuers)
  Document,  \* bodies the host serves: Garbled, or a document (see Documents)
  Garbled    \* no JSON, or a required field missing

ASSUME Issuers ==
  Issuer \subseteq [scheme : {"https", "http"}, spelling : {"lower", "upper"},
                    path : {"", "/", "/t", "/t/"}, query : BOOLEAN]
\* A URL as a string of a document, or one that is requested.
Locator == [scheme : {"https", "http"}, host : {"op", "keys", "other"}, base : {"", "/t", "/1", "/2"}]

ASSUME Documents ==
  \A d \in Document \ {Garbled} :
    d \in [issuer : Issuer, responseTypes : BOOLEAN, subjectTypes : BOOLEAN,
           algs : SUBSET STRING, jwks : Locator]
ASSUME NoneIsNoDocument == None \notin Document /\ Garbled \in Document
ASSUME NoneIsNoIssuer == None \notin Issuer
ASSUME NoneIsNoError == None \notin {"invalid metadata", "issuer mismatch"}

Option(S) == S \cup {None}

\* IssuerUrl::from_str
IsIssuerUrl(text) == text.scheme = "https" /\ ~text.query

\* IssuerUrl::as_url: host names and the empty path are normalised, the rest is kept.
AsUrl(text) == IF text.path = "" THEN "/" ELSE text.path

\* The discovery URL: one empty last segment is dropped before the well-known
\* path is added.
WellKnown(text) ==
  [scheme |-> "https", host |-> "op", base |-> IF text.path \in {"", "/"} THEN "" ELSE "/t"]

Location == {WellKnown(i) : i \in Issuer}

VARIABLES
  served,    \* the body at each location
  home,      \* the issuer the application named
  client,    \* the Client, None before there is one
  pc,        \* the call in flight: discover or a refresh
  found,     \* the document it accepted, while it fetches the keys
  requested  \* every URL that was requested

vars == <<served, home, client, pc, found, requested>>

Init ==
  /\ served \in [Location -> Document]
  /\ home = None /\ client = None /\ pc = "idle" /\ found = None /\ requested = {}

-----------------------------------------------------------------------------
\* The provider publishes something else.
ProviderChanges(l, d) ==
  /\ served' = [served EXCEPT ![l] = d]
  /\ UNCHANGED <<home, client, pc, found, requested>>

\* HyperHttpClient::execute sends one request, to this URL; its answer is a
\* status with a body, or an error.
Requests(url) == requested' = requested \cup {url}

-----------------------------------------------------------------------------
(* What a document must be.                                                *)

\* from_str of https_url_newtype, which serde uses too.
IsHttpsUrl(url) == url.scheme = "https"

\* What serde makes of the fields of ProviderMetadata: the issuer is an IssuerUrl,
\* the endpoints, for which jwks stands, are of https_url_newtype.
Parses_IssuerOnly(d) == d # Garbled /\ IsIssuerUrl(d.issuer)
Parses(d) == d # Garbled /\ IsIssuerUrl(d.issuer) /\ IsHttpsUrl(d.jwks)

\* ProviderMetadata::validate
Valid(d) == d.responseTypes /\ d.subjectTypes /\ "RS256" \in d.algs

\* The issuer a call works for: the one discover was given, or that of the document
\* refresh_metadata_from started with.
Asked == IF client = None THEN home ELSE client.doc.issuer

\* metadata.issuer != issuer compares the URL and the text it was written as.
SameIssuer_AsUrl(d) == AsUrl(d.issuer) = AsUrl(Asked)
SameIssuer(d) == AsUrl(d.issuer) = AsUrl(Asked) /\ d.issuer = Asked

\* The checks of a 200 response, in the order of the code.
DocumentError(d) ==
  IF ~Parses(d) THEN "invalid metadata"
  ELSE IF ~Valid(d) THEN "invalid metadata"
  ELSE IF ~SameIssuer(d) THEN "issuer mismatch" ELSE None

-----------------------------------------------------------------------------
(* The calls.                                                              *)

\* Client::discover with an IssuerUrl; a call that failed may be made again.
StartDiscover(text) ==
  /\ client = None /\ pc = "idle" /\ home \in {None, text}
  /\ IsIssuerUrl(text)
  /\ home' = text
  /\ pc' = "document"
  /\ Requests(WellKnown(text))
  /\ UNCHANGED <<served, client, found>>

\* refresh_metadata_from, for the issuer of the document it has.
StartRefresh ==
  /\ client # None /\ pc = "idle"
  /\ pc' = "document"
  /\ Requests(WellKnown(Asked))
  /\ UNCHANGED <<served, home, client, found>>

\* Client::from_parts takes a document as it is, and validates it.
FromParts(d) ==
  /\ client = None /\ pc = "idle" /\ home = None
  /\ Parses(d) /\ Valid(d)
  /\ home' = d.issuer
  /\ client' = [doc |-> d, jwks |-> d.jwks, filled |-> FALSE, made |-> "from parts"]
  /\ UNCHANGED <<served, pc, found, requested>>

\* A transport error, a status that is not 200, a redirect among them, a document
\* that is refused, or the call's future is dropped: the client stays as it was.
Fails ==
  /\ pc # "idle"
  /\ pc' = "idle" /\ found' = None
  /\ UNCHANGED <<served, home, client, requested>>

\* The document is used at once if its keys are those the client has, and once its
\* keys are there otherwise.
KeysKept_Always(d) == TRUE
KeysKept(d) == client # None /\ client.jwks = d.jwks

Accepts(d) ==
  IF KeysKept(d)
    THEN /\ client' = IF client # None THEN [client EXCEPT !.doc = d]
                      ELSE [doc |-> d, jwks |-> d.jwks, filled |-> FALSE, made |-> "discovered"]
         /\ pc' = "idle"
         /\ UNCHANGED <<found, requested>>
    ELSE /\ found' = d /\ pc' = "keys"
         /\ Requests(d.jwks)
         /\ UNCHANGED client

DocumentArrives ==
  /\ pc = "document"
  /\ LET d == served[WellKnown(Asked)]
     IN  /\ DocumentError(d) = None
         /\ Accepts(d)
  /\ UNCHANGED <<served, home>>

\* jwks.keys() has filled the cache: the client is built, or its snapshot replaced.
KeysArrive ==
  /\ pc = "keys"
  /\ client' = [doc |-> found, jwks |-> found.jwks, filled |-> TRUE,
                made |-> IF client = None THEN "discovered" ELSE client.made]
  /\ pc' = "idle" /\ found' = None
  /\ UNCHANGED <<served, home, requested>>

\* A key set that a call outside uses fills the cache it works with.
KeysUsed ==
  /\ client # None /\ ~client.filled
  /\ Requests(client.jwks)
  /\ client' = [client EXCEPT !.filled = TRUE]
  /\ UNCHANGED <<served, home, pc, found>>

Next ==
  \/ \E l \in Location, d \in Document : ProviderChanges(l, d)
  \/ \E i \in Issuer : StartDiscover(i)
  \/ \E d \in Document : FromParts(d)
  \/ StartRefresh \/ Fails \/ DocumentArrives \/ KeysArrive \/ KeysUsed

Spec == Init /\ [][Next]_vars

-----------------------------------------------------------------------------
\* The types of the variables.
TypeOK ==
  /\ served \in [Location -> Document]
  /\ home \in Option(Issuer)
  /\ client # None => client \in [doc : Document \ {Garbled}, jwks : Locator, filled : BOOLEAN,
                                  made : {"discovered", "from parts"}]
  /\ pc \in {"idle", "document", "keys"}
  /\ found \in Option(Document \ {Garbled})

\* Issuers of one host that differ in the spelling or in a last slash share a
\* discovery URL, yet a client never comes to work for another one than the
\* application named, to the byte, whatever the provider publishes: the issuer of
\* ID tokens and of callbacks is compared with it (metadata/mod.rs:82).
IssuerIsTheOneAsked == client # None => client.doc.issuer = home

\* Requests go to the issuer's own discovery URL and to the jwks_uri of documents
\* that were accepted for it, and none in the clear, whatever a document says
\* (url.rs:47, mod.rs:83): discovery, keys, and so the trust in every token.  That
\* no redirect is followed (hyper_client.rs:25-30) is how a request is modelled,
\* execute sends one, and not something this property could find otherwise.
RequestsStayHome ==
  \A url \in requested :
    /\ url.scheme = "https"
    /\ \/ home # None /\ url = WellKnown(home)
       \/ \E d \in Document \ {Garbled} : url = d.jwks /\ d.issuer = home

\* A client that was discovered can verify from the start and after every refresh:
\* its keys were there before it was, a refresh replaces them only by others that
\* are, and the list a verifier takes from the document in force is never left
\* empty by its filter, which would refuse every token (client.rs:133,
\* client.rs:392, provider.rs:70, verify.rs:95).
CanVerify ==
  client # None => /\ client.jwks = client.doc.jwks
                   /\ client.made = "discovered" => client.filled
                   /\ client.doc.algs \ {"none", "None", "HS256"} # {}
=============================================================================
