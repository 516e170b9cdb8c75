-------------------------------- MODULE Logout --------------------------------
(***************************************************************************)
(* RP-initiated logout (src/src/flow/logout.rs), by the client that sends   *)
(* users to log in: a builder for each user's logout takes what the         *)
(* application sets, build makes the URL and the state the provider will    *)
(* echo, and the provider sends the user back.                              *)
(*                                                                         *)
(* Logins and logouts draw their random strings from one source and read    *)
(* one document.  NoState is where there is no state; an endpoint is named  *)
(* by the version of the document that advertises it.                       *)
(***************************************************************************)
EXTENDS AuthorizeRequest

CONSTANTS
  Logout,      \* logouts of the application's users
  Advertised,  \* versions of the document that have an end_session_endpoint
  OwnQuery,    \* those whose endpoint has a query of its own
  Locale       \* languages

NoState == 0

\* The parameters of EndSessionUrlBuilder that are set once or again.
Settable == {"id_token_hint", "client_id", "logout_hint", "post_logout_redirect_uri"}

VARIABLES
  stage,    \* of each logout: "new", "building", "url" or "refused"
  ending,   \* each EndSessionUrlBuilder
  url,      \* the URL build returned
  returned, \* the state build returned beside it
  back      \* who came back to the redirect URI, and with which state

logoutVars == <<stage, ending, url, returned, back>>

EmptyBuilder == [set |-> {}, state |-> NoState, locales |-> {}]
NoUrl == [endpoint |-> 0, query |-> FALSE, names |-> {}, state |-> NoState]

LogoutInit ==
  /\ RequestInit
  /\ stage = [l \in Logout |-> "new"]
  /\ ending = [l \in Logout |-> EmptyBuilder]
  /\ url = [l \in Logout |-> NoUrl]
  /\ returned = [l \in Logout |-> NoState]
  /\ back = {}

-----------------------------------------------------------------------------
\* build_end_session_url
NewLogout(l) ==
  /\ stage[l] = "new"
  /\ stage' = [stage EXCEPT ![l] = "building"]
  /\ UNCHANGED <<drawn, ending, url, returned, back>>

SetParameter(l, name) ==
  /\ stage[l] = "building"
  /\ ending' = [ending EXCEPT ![l].set = @ \cup {name}]
  /\ UNCHANGED <<drawn, stage, url, returned, back>>

\* state, with a State::new_random of the caller; the last one counts.
SetState(l) ==
  /\ stage[l] = "building"
  /\ Draws(1)
  /\ ending' = [ending EXCEPT ![l].state = Rand(1)]
  /\ UNCHANGED <<stage, url, returned, back>>

\* add_ui_locale; in which order matters to the provider alone.
AddLocale(l, tag) ==
  /\ stage[l] = "building"
  /\ ending' = [ending EXCEPT ![l].locales = @ \cup {tag}]
  /\ UNCHANGED <<drawn, stage, url, returned, back>>

-----------------------------------------------------------------------------
(* build                                                                   *)

\* A redirect without a state gets a random one.
Generates(b) == b.state = NoState /\ "post_logout_redirect_uri" \in b.set

State(b) == IF Generates(b) THEN Rand(1) ELSE b.state

\* The parameters that are appended to the query of the endpoint.
Names(b) ==
  b.set \cup (IF State(b) # NoState THEN {"state"} ELSE {})
        \cup (IF b.locales # {} THEN {"ui_locales"} ELSE {})

\* query_pairs_mut makes an empty query of none; build takes it away again.
Built(b) ==
  [endpoint |-> known, query |-> known \in OwnQuery \/ Names(b) # {},
   names |-> Names(b), state |-> State(b)]

\* The endpoint is that of the document at this moment.
BuildReturnsUrl(l) ==
  /\ stage[l] = "building" /\ known \in Advertised
  /\ IF Generates(ending[l]) THEN Draws(1) ELSE UNCHANGED drawn
  /\ url' = [url EXCEPT ![l] = Built(ending[l])]
  /\ returned' = [returned EXCEPT ![l] = State(ending[l])]
  /\ stage' = [stage EXCEPT ![l] = "url"]
  /\ UNCHANGED <<ending, back>>

BuildFails(l) ==
  /\ stage[l] = "building" /\ known \notin Advertised
  /\ stage' = [stage EXCEPT ![l] = "refused"]
  /\ UNCHANGED <<drawn, ending, url, returned, back>>

-----------------------------------------------------------------------------
\* The provider logs the user out and sends it back, if the URL says where, with
\* the state of the URL if it has one.
ComesBack(l) ==
  /\ stage[l] = "url" /\ "post_logout_redirect_uri" \in url[l].names
  /\ back' = back \cup {[logout |-> l,
                         state |-> IF "state" \in url[l].names THEN url[l].state ELSE NoState]}
  /\ UNCHANGED <<drawn, stage, ending, url, returned>>

LogoutStep ==
  /\ \E l \in Logout :
       \/ NewLogout(l) \/ SetState(l) \/ BuildReturnsUrl(l) \/ BuildFails(l) \/ ComesBack(l)
       \/ \E name \in Settable : SetParameter(l, name)
       \/ \E tag \in Locale : AddLocale(l, tag)
  /\ UNCHANGED <<known, builder, request>>

LogoutNext == LogoutStep \/ (RequestStep /\ UNCHANGED logoutVars)

LogoutSpec == LogoutInit /\ [][LogoutNext]_<<requestVars, logoutVars>>

-----------------------------------------------------------------------------
\* Whoever comes back from a logout is recognised, by the state that build
\* returned for it and for no other: with several logouts under way the
\* application never takes one user's return for another's, nor one it has not
\* asked for, nor for the callback of a login (logout.rs:62-72).
EchoIdentifiesLogout ==
  \A r \in back :
    /\ r.state # NoState
    /\ {l \in Logout : stage[l] = "url" /\ returned[l] = r.state} = {r.logout}
    /\ \A t \in Tx : request[t] # None => request[t].state # r.state
=============================================================================
