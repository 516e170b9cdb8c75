--------------------------- MODULE ResponseHeaders ---------------------------
(***************************************************************************)
(* The header lines of a discovery response on their way to the policy:    *)
(* HyperHttpClient hands them over (src/src/transport/hyper_client.rs) and  *)
(* policy_from_headers reads them (src/src/metadata/cache.rs).              *)
(*                                                                         *)
(* A line is [name, ascii, directives, value]: whether its bytes are        *)
(* visible ASCII, what Cache-Control says, and what the other headers say.  *)
(***************************************************************************)
EXTENDS CachePolicy

Scalars == {"expires", "date", "age"}

Header(lines) ==
  \A l \in lines :
    /\ l.ascii \in BOOLEAN
    /\ l.directives \in Seq(Range(l.directives))
    /\ \/ /\ l.name = "cache-control" /\ l.value = None
          /\ \A d \in Range(l.directives) : d.arg \in Option(Nat \cup {Malformed})
       \/ /\ l.name \in Scalars /\ l.directives = <<>>
          /\ l.value \in Nat \cup {Malformed}

\* HyperHttpClient::execute: a value that is not visible ASCII becomes the empty
\* string, which has no directive and is no number.
Received(lines) ==
  [i \in DOMAIN lines |->
     IF lines[i].ascii THEN lines[i]
     ELSE [name |-> lines[i].name, ascii |-> TRUE, directives |-> <<>>,
           value |-> IF lines[i].name = "cache-control" THEN None ELSE Malformed]]

Named(lines, name) == {i \in DOMAIN lines : lines[i].name = name}

\* header: the first line of a name.
HeaderValue_Last(lines, name) ==
  IF Named(lines, name) = {} THEN None
  ELSE lines[CHOOSE i \in Named(lines, name) : \A j \in Named(lines, name) : j <= i].value
HeaderValue(lines, name) ==
  IF Named(lines, name) = {} THEN None ELSE lines[Min(Named(lines, name))].value

\* parse().ok() of Date and Age.
Parsed(value) == IF value = Malformed THEN None ELSE value

\* The loop of policy_from_headers, over every Cache-Control line.
AllDirectives(lines) ==
  LET turn[i \in 0..Len(lines)] ==
        IF i = 0 THEN NoDirectives
        ELSE IF i \in Named(lines, "cache-control")
             THEN ParseCacheControl(lines[i].directives, turn[i - 1])
        ELSE turn[i - 1]
  IN  turn[Len(lines)]

\* What policy_from_headers reads of a response.
HeadersOf(lines) ==
  [directives |-> AllDirectives(lines), expires |-> HeaderValue(lines, "expires"),
   date |-> Parsed(HeaderValue(lines, "date")), age |-> Parsed(HeaderValue(lines, "age"))]
=============================================================================
