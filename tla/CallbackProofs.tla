--------------------------- MODULE CallbackProofs ---------------------------
(***************************************************************************)
(* The callback parser on queries of any length.                            *)
(***************************************************************************)
EXTENDS CallbackGrowth, FiniteSetTheorems, TLAPS

IInv == query \in Seq(Fields)

LEMMA Queries == ASSUME IInv PROVE DOMAIN query = 1..Len(query) /\ Len(query) \in Nat
BY DEF IInv

\* Counting the names tells whether one repeats.
LEMMA NamesCounted ==
  ASSUME IInv
  PROVE  Cardinality({query[i].name : i \in DOMAIN query}) = Len(query) <=> ~Repeats(query)
<1> DEFINE S == 1..Len(query)
           T == {query[i].name : i \in DOMAIN query}
           f == [i \in S |-> query[i].name]
<1>1. DOMAIN query = S /\ Len(query) \in Nat
  BY Queries
<1>2. f \in Surjection(S, T)
  BY <1>1 DEF Surjection
<1>3. IsFiniteSet(S) /\ Cardinality(S) = Len(query)
  <2>1. PICK n \in Nat : n = Len(query)
    BY <1>1
  <2>2. IsFiniteSet(1..n) /\ Cardinality(1..n) = IF 1 > n THEN 0 ELSE n - 1 + 1
    BY FS_Interval
  <2>3. Cardinality(1..n) = n
    BY <2>2
  <2> QED BY <2>1, <2>2, <2>3
<1>4. Cardinality(T) = Cardinality(S) <=> f \in Injection(S, T)
  BY <1>2, <1>3, FS_Surjection
<1>5. f \in [S -> T]
  BY <1>1
<1>6. f \in Injection(S, T) <=> ~Repeats(query)
  <2>1. ASSUME f \in Injection(S, T), Repeats(query) PROVE FALSE
    <3>1. PICK i \in S, j \in S : i < j /\ query[i].name = query[j].name
      BY <1>1, <2>1 DEF Repeats
    <3>2. f[i] = f[j] /\ i # j
      BY <3>1
    <3> QED BY <2>1, <3>1, <3>2 DEF Injection, IsInjective
  <2>2. ASSUME ~Repeats(query) PROVE f \in Injection(S, T)
    <3>1. ASSUME NEW i \in S, NEW j \in S, f[i] = f[j], i # j PROVE FALSE
      <4>1. i < j \/ j < i
        BY <3>1, <1>1
      <4>2. query[i].name = query[j].name
        BY <3>1
      <4> QED BY <1>1, <2>2, <3>1, <4>1, <4>2 DEF Repeats
    <3> QED BY <1>5, <3>1 DEF Injection, IsInjective
  <2> QED BY <2>1, <2>2
<1> QED BY <1>3, <1>4, <1>6

\* Where no name repeats, a parameter is the one value under its name.
LEMMA ParameterIsValue ==
  ASSUME IInv, ~Repeats(query), NEW name
  PROVE  /\ Parameter(query, name) = None => Value(name) = {}
         /\ Parameter(query, name) # None => Value(name) = {Parameter(query, name)}
<1> DEFINE named == {i \in DOMAIN query : query[i].name = name}
           first == query[CHOOSE i \in named : \A j \in named : i <= j].value
<1>1. DOMAIN query = 1..Len(query) /\ Len(query) \in Nat
  BY Queries
<1>2. \A v : v \in Value(name) <=> v # {} /\ \E i \in named : v = query[i].value
  <2>1. \A i \in DOMAIN query : query[i] \in Fields
    BY <1>1 DEF IInv
  <2> QED BY <2>1 DEF Value, Fields
<1>3. CASE named = {}
  BY <1>2, <1>3 DEF Parameter
<1>4. CASE named # {}
  <2>1. PICK i \in named : TRUE
    BY <1>4
  <2>2. \A j \in named : j = i
    BY <1>1 DEF Repeats
  <2>3. named = {i}
    BY <2>1, <2>2
  <2>4. i <= i
    BY <1>1
  <2>5. first = query[i].value
    BY <2>3, <2>4
  <2>6. query[i].value \in SUBSET Kinds
    <3>1. query[i] \in Fields
      BY <1>1, <2>1 DEF IInv
    <3> QED BY <3>1 DEF Fields
  <2>7. Parameter(query, name) = IF query[i].value = {} THEN None ELSE query[i].value
    BY <1>4, <2>5 DEF Parameter
  <2> QED BY <1>2, <2>3, <2>6, <2>7, NoneIsNoValue
<1> QED BY <1>3, <1>4

-----------------------------------------------------------------------------
(* The branches of the parser.                                             *)

LEMMA RefusedKind == ASSUME NEW why PROVE Refused(why).kind = "refused"
BY DEF Refused

ErrorOK(p) ==
  /\ ~Violates(p["error"], NqsChars) /\ ~Violates(p["error_description"], NqsChars)
  /\ ~Violates(p["error_uri"], UriChars)
  /\ p["state"] # None /\ ~Violates(p["state"], VsChars)

TheError(p) ==
  [kind |-> "error", error |-> p["error"], description |-> p["error_description"],
   error_uri |-> p["error_uri"], state |-> p["state"], iss |-> p["iss"]]

LEMMA ErrorFacts ==
  ASSUME NEW p
  PROVE  /\ ErrorOK(p) => ErrorResponse(p) = TheError(p)
         /\ ~ErrorOK(p) => ErrorResponse(p).kind = "refused"
         /\ TheError(p).kind = "error"
         /\ TheError(p).state = p["state"] /\ TheError(p).iss = p["iss"]
<1>1. ErrorOK(p) => ErrorResponse(p) = TheError(p)
  BY DEF ErrorOK, ErrorResponse, TheError
<1>2. ~ErrorOK(p) => \E why : ErrorResponse(p) = Refused(why)
  BY Zenon DEF ErrorOK, ErrorResponse
<1>3. TheError(p).kind = "error" /\ TheError(p).state = p["state"] /\ TheError(p).iss = p["iss"]
  BY DEF TheError
<1> QED BY <1>1, <1>2, <1>3, RefusedKind

SuccessOK(p) ==
  /\ p["code"] # None /\ ~Violates(p["code"], VsChars)
  /\ p["state"] # None /\ ~Violates(p["state"], VsChars)

TheSuccess(p) == [kind |-> "success", code |-> p["code"], state |-> p["state"], iss |-> p["iss"]]

LEMMA SuccessFacts ==
  ASSUME NEW p
  PROVE  /\ SuccessOK(p) => SuccessResponse(p) = TheSuccess(p)
         /\ ~SuccessOK(p) => SuccessResponse(p).kind = "refused"
         /\ TheSuccess(p).kind = "success" /\ TheSuccess(p).code = p["code"]
         /\ TheSuccess(p).state = p["state"] /\ TheSuccess(p).iss = p["iss"]
<1>1. SuccessOK(p) => SuccessResponse(p) = TheSuccess(p)
  BY DEF SuccessOK, SuccessResponse, TheSuccess
<1>2. ~SuccessOK(p) => \E why : SuccessResponse(p) = Refused(why)
  BY Zenon DEF SuccessOK, SuccessResponse
<1>3. /\ TheSuccess(p).kind = "success" /\ TheSuccess(p).code = p["code"]
      /\ TheSuccess(p).state = p["state"] /\ TheSuccess(p).iss = p["iss"]
  BY DEF TheSuccess
<1> QED BY <1>1, <1>2, <1>3, RefusedKind

\* The parameters of the query.
Params == [n \in Given |-> Parameter(query, n)]

LEMMA ParamFacts ==
  ASSUME IInv, ~Repeats(query), NEW n \in Given
  PROVE  /\ Params[n] = None <=> Value(n) = {}
         /\ Params[n] # None => Value(n) = {Params[n]}
         /\ \A chars : Violates(Params[n], chars) <=> ~(Value(n) \subseteq SUBSET chars)
<1>1. Params[n] = Parameter(query, n)
  BY DEF Params
<1>2. /\ Params[n] = None => Value(n) = {}
      /\ Params[n] # None => Value(n) = {Params[n]}
  BY <1>1, ParameterIsValue
<1>3. Params[n] = None \/ Params[n] # None
  OBVIOUS
<1>4. Params[n] = None <=> Value(n) = {}
  BY <1>2
<1>5. ASSUME NEW chars PROVE Violates(Params[n], chars) <=> ~(Value(n) \subseteq SUBSET chars)
  <2>1. CASE Params[n] = None
    BY <1>2, <2>1 DEF Violates
  <2>2. CASE Params[n] # None
    <3>1. PICK v : v = Params[n]
      OBVIOUS
    <3>2. Value(n) = {v} /\ v # None
      BY <1>2, <2>2, <3>1
    <3> QED BY <3>1, <3>2 DEF Violates
  <2> QED BY <2>1, <2>2
<1> QED BY <1>2, <1>4, <1>5

\* The order of the checks.
LEMMA ResponseIs ==
  /\ (~WellEncoded(query) \/ Repeats(query) \/ Ambiguous(Params)) => Response.kind = "refused"
  /\ (/\ Params["error"] = None
      /\ Params["error_description"] # None \/ Params["error_uri"] # None) => Response.kind = "refused"
  /\ WellEncoded(query) /\ ~Repeats(query) /\ ~Ambiguous(Params) =>
       /\ Params["error"] # None => Response = ErrorResponse(Params)
       /\ Params["error"] = None /\ Params["error_description"] = None
            /\ Params["error_uri"] = None => Response = SuccessResponse(Params)
<1>1. Response =
        IF ~WellEncoded(query) THEN Refused("encoding")
        ELSE IF Repeats(query) THEN Refused("duplicate")
        ELSE IF Ambiguous(Params) THEN Refused("ambiguous")
        ELSE IF Params["error"] # None THEN ErrorResponse(Params)
        ELSE IF Params["error_description"] # None \/ Params["error_uri"] # None
               THEN Refused("missing error")
        ELSE SuccessResponse(Params)
  BY Zenon DEF Response, ParseAuthorizationResponse, Params
<1>2. (~WellEncoded(query) \/ Repeats(query) \/ Ambiguous(Params)) => \E why : Response = Refused(why)
  BY <1>1, Zenon
<1>3. (/\ Params["error"] = None
       /\ Params["error_description"] # None \/ Params["error_uri"] # None) =>
        \E why : Response = Refused(why)
  BY <1>1, Zenon
<1>4. WellEncoded(query) /\ ~Repeats(query) /\ ~Ambiguous(Params) =>
        /\ Params["error"] # None => Response = ErrorResponse(Params)
        /\ Params["error"] = None /\ Params["error_description"] = None
             /\ Params["error_uri"] = None => Response = SuccessResponse(Params)
  BY <1>1, Zenon
<1> HIDE DEF Response
<1> QED BY <1>2, <1>3, <1>4, RefusedKind

LEMMA SaneIs ==
  ASSUME IInv
  PROVE  Sane <=> /\ WellEncoded(query) /\ ~Repeats(query)
                  /\ Value("state") # {} /\ Value("state") \subseteq SUBSET VsChars
<1>1. Cardinality({query[i].name : i \in DOMAIN query}) = Len(query) <=> ~Repeats(query)
  BY NamesCounted
<1>2. WellEncoded(query) <=>
        \A i \in DOMAIN query : query[i].name # "malformed" /\ query[i].value \cap NotDecodable = {}
  BY DEF WellEncoded
<1> DEFINE counted == Cardinality({query[i].name : i \in DOMAIN query}) = Len(query)
<1>3. Sane <=> /\ WellEncoded(query) /\ counted
               /\ Value("state") # {} /\ Value("state") \subseteq SUBSET VsChars
  BY <1>2 DEF Sane
<1> QED BY <1>1, <1>3

\* The parser accepts what the rules allow.
LEMMA ParserIsRight == IInv => AcceptsByTheRules
<1> SUFFICES ASSUME IInv PROVE AcceptsByTheRules
  OBVIOUS
<1>1. CASE ~WellEncoded(query) \/ Repeats(query)
  <2>1. Response.kind = "refused"
    BY <1>1, ResponseIs
  <2>2. ~Sane
    BY <1>1, SaneIs
  <2> QED BY <2>1, <2>2 DEF AcceptsByTheRules, IsSuccess, IsError
<1>2. CASE WellEncoded(query) /\ ~Repeats(query)
  <2>1. {"code", "error", "error_description", "error_uri", "state", "iss"} = Given
    BY DEF Given
  <2>2. \A n \in Given :
          /\ Params[n] = None <=> Value(n) = {}
          /\ Params[n] # None => Value(n) = {Params[n]}
          /\ \A chars : Violates(Params[n], chars) <=> ~(Value(n) \subseteq SUBSET chars)
    BY <1>2, ParamFacts
  <2>3. Sane <=> Params["state"] # None /\ ~Violates(Params["state"], VsChars)
    BY <1>2, <2>1, <2>2, SaneIs
  <2>4. IsSuccess <=> /\ SuccessOK(Params) /\ Params["error"] = None
                      /\ Params["error_description"] = None /\ Params["error_uri"] = None
    BY <2>1, <2>2, <2>3 DEF IsSuccess, SuccessOK
  <2>5. IsError <=> ErrorOK(Params) /\ Params["error"] # None /\ Params["code"] = None
    <3>1. Value("error") \cup Value("error_description") \subseteq SUBSET NqsChars <=>
            ~Violates(Params["error"], NqsChars) /\ ~Violates(Params["error_description"], NqsChars)
      BY <2>1, <2>2
    <3> QED BY <2>1, <2>2, <2>3, <3>1 DEF IsError, ErrorOK
  <2>6. Params["state"] # None => Value("state") = {Params["state"]}
    BY <2>1, <2>2
  <2>7. Value("iss") = {Params["iss"]} \ {None}
    BY <2>1, <2>2
  <2>8. Params["code"] # None => Value("code") = {Params["code"]}
    BY <2>1, <2>2
  <2>9. CASE Ambiguous(Params)
    <3>1. Response.kind = "refused"
      BY <2>9, ResponseIs
    <3>2. ~IsSuccess /\ ~IsError
      BY <2>4, <2>5, <2>9 DEF Ambiguous
    <3> QED BY <3>1, <3>2 DEF AcceptsByTheRules
  <2>10. CASE ~Ambiguous(Params) /\ Params["error"] # None
    <3>1. Response = ErrorResponse(Params) /\ ~IsSuccess
      BY <1>2, <2>4, <2>10, ResponseIs
    <3>2. Params["code"] = None
      BY <2>10 DEF Ambiguous
    <3>3. CASE ErrorOK(Params)
      <4>1. Response.kind = "error" /\ Response.state = Params["state"] /\ Response.iss = Params["iss"]
        BY <3>1, <3>3, ErrorFacts
      <4>2. IsError /\ Params["state"] # None
        BY <2>5, <2>10, <3>2, <3>3 DEF ErrorOK
      <4> QED BY <2>6, <2>7, <3>1, <4>1, <4>2 DEF AcceptsByTheRules
    <3>4. CASE ~ErrorOK(Params)
      <4>1. Response.kind = "refused" /\ ~IsError
        BY <2>5, <3>1, <3>4, ErrorFacts
      <4> QED BY <3>1, <4>1 DEF AcceptsByTheRules
    <3> QED BY <3>3, <3>4
  <2>11. CASE /\ Params["error"] = None
              /\ Params["error_description"] # None \/ Params["error_uri"] # None
    <3>1. Response.kind = "refused"
      BY <2>11, ResponseIs
    <3>2. ~IsSuccess /\ ~IsError
      BY <2>4, <2>5, <2>11
    <3> QED BY <3>1, <3>2 DEF AcceptsByTheRules
  <2>12. CASE /\ ~Ambiguous(Params) /\ Params["error"] = None
              /\ Params["error_description"] = None /\ Params["error_uri"] = None
    <3>1. Response = SuccessResponse(Params) /\ ~IsError
      BY <1>2, <2>5, <2>12, ResponseIs
    <3>2. CASE SuccessOK(Params)
      <4>1. /\ Response.kind = "success" /\ Response.state = Params["state"]
            /\ Response.iss = Params["iss"] /\ Response.code = Params["code"]
        BY <3>1, <3>2, SuccessFacts
      <4>2. IsSuccess /\ Params["state"] # None /\ Params["code"] # None
        BY <2>4, <2>12, <3>2 DEF SuccessOK
      <4> QED BY <2>6, <2>7, <2>8, <3>1, <4>1, <4>2 DEF AcceptsByTheRules
    <3>3. CASE ~SuccessOK(Params)
      <4>1. Response.kind = "refused" /\ ~IsSuccess
        BY <2>4, <3>1, <3>3, SuccessFacts
      <4> QED BY <3>1, <4>1 DEF AcceptsByTheRules
    <3> QED BY <3>2, <3>3
  <2> QED BY <2>9, <2>10, <2>11, <2>12
<1> QED BY <1>1, <1>2

-----------------------------------------------------------------------------
LEMMA NextIInv == IInv /\ [AppendField]_query => IInv'
BY FieldsAreFields DEF IInv, AppendField

\* The parser's chain of checks accepts what RFC 6749 allows of a response, for
\* queries of any length and in any order of fields (callback.rs:103-156).
THEOREM ParserByTheRules == Spec => []AcceptsByTheRules
<1>1. Init => IInv
  BY DEF Init, IInv
<1> QED BY <1>1, NextIInv, ParserIsRight, PTL DEF Spec
=============================================================================
