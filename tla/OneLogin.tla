------------------------------ MODULE OneLogin ------------------------------
(***************************************************************************)
(* What the authorization-code flow promises, whatever is delivered twice,  *)
(* late, to several instances or with the code of another login: a          *)
(* transaction that was begun is at most once turned into a token request,  *)
(* logs a user in only if the code it sent was issued for it, and is never   *)
(* taken up again once it was given up.                                     *)
(***************************************************************************)
CONSTANTS None, Tx, Code

VARIABLES
  issued, \* the transaction each code was issued for, or None
  phase,  \* "unknown", then "open", then "exchanged" or "closed"; at last "logged in"
  used    \* the code each transaction was exchanged with, or None

vars == <<issued, phase, used>>

Init ==
  /\ issued = [c \in Code |-> None]
  /\ phase = [t \in Tx |-> "unknown"]
  /\ used = [t \in Tx |-> None]

\* What may become of one transaction in a step.
Stays(t) == phase'[t] = phase[t] /\ used'[t] = used[t]

Opens(t) == phase[t] = "unknown" /\ phase'[t] = "open" /\ used'[t] = None

Exchanges(t) == phase[t] = "open" /\ phase'[t] = "exchanged" /\ used'[t] \in Code

LogsIn(t) ==
  /\ phase[t] = "exchanged" /\ phase'[t] = "logged in"
  /\ used'[t] = used[t] /\ issued[used[t]] = t

Closes(t) == phase[t] = "open" /\ phase'[t] = "closed" /\ used'[t] = None

\* A code is issued once.
Issued == \A c \in Code : issued[c] # None => issued'[c] = issued[c]

\* Several transactions may expire, or die with a process, at once; two token
\* requests, or two logins, are two steps.
Next ==
  /\ issued' \in [Code -> Tx \cup {None}] /\ Issued
  /\ phase' \in [Tx -> {"unknown", "open", "exchanged", "logged in", "closed"}]
  /\ used' \in [Tx -> Code \cup {None}]
  /\ \A t \in Tx : Stays(t) \/ Opens(t) \/ Exchanges(t) \/ LogsIn(t) \/ Closes(t)
  /\ \A t, u \in Tx : Exchanges(t) /\ Exchanges(u) => t = u
  /\ \A t, u \in Tx : LogsIn(t) /\ LogsIn(u) => t = u

Spec == Init /\ [][Next]_vars
=============================================================================
