--------------------------- MODULE SingleUseStore ---------------------------
(***************************************************************************)
(* What the trait AsyncKvStore (src/src/transport/kv.rs) is for: each value *)
(* is created once under a free key, is removed from there by at most one   *)
(* take, and reaches at most that take.  It is lost to everybody only when  *)
(* its deadline has passed, and after the deadline nobody gets it.          *)
(***************************************************************************)
EXTENDS Integers

CONSTANTS
  None,    \* no value
  Value, Key, Taker,
  Instant  \* the possible deadlines

VARIABLES
  time,      \* the clock all takers share
  slot,      \* the value under each key, or None
  created,   \* the values that have been created
  deadline,  \* the deadline of each value that has been created, or None
  carried,   \* the value each taker has removed and not yet been given
  received   \* the value each taker was given, or None

vars == <<time, slot, created, deadline, carried, received>>

Init ==
  /\ time = 0
  /\ slot = [k \in Key |-> None]
  /\ created = {}
  /\ deadline = [v \in Value |-> None]
  /\ carried = [t \in Taker |-> None]
  /\ received = [t \in Taker |-> None]

Tick ==
  /\ time' = time + 1
  /\ UNCHANGED <<slot, created, deadline, carried, received>>

\* Keys whose values may be forgotten.
Overdue == {k \in Key : slot[k] # None /\ time >= deadline[slot[k]]}

Dropped(K) == [k \in Key |-> IF k \in K THEN None ELSE slot[k]]

Purge ==
  /\ \E K \in SUBSET Overdue : slot' = Dropped(K)
  /\ UNCHANGED <<time, created, deadline, carried, received>>

Create(v) ==
  /\ v \notin created
  /\ \E K \in SUBSET Overdue, k \in Key :
       /\ Dropped(K)[k] = None
       /\ slot' = [Dropped(K) EXCEPT ![k] = v]
  /\ created' = created \cup {v}
  /\ \E d \in Instant : deadline' = [deadline EXCEPT ![v] = d]
  /\ UNCHANGED <<time, carried, received>>

Remove(t) ==
  /\ carried[t] = None /\ received[t] = None
  /\ \E k \in Key :
       /\ slot[k] # None
       /\ carried' = [carried EXCEPT ![t] = slot[k]]
       /\ slot' = [slot EXCEPT ![k] = None]
  /\ UNCHANGED <<time, created, deadline, received>>

Receive(t) ==
  /\ carried[t] # None
  /\ time < deadline[carried[t]]
  /\ received' = [received EXCEPT ![t] = carried[t]]
  /\ carried' = [carried EXCEPT ![t] = None]
  /\ UNCHANGED <<time, slot, created, deadline>>

Discard(t) ==
  /\ carried[t] # None
  /\ time >= deadline[carried[t]]
  /\ carried' = [carried EXCEPT ![t] = None]
  /\ UNCHANGED <<time, slot, created, deadline, received>>

Next ==
  \/ Tick \/ Purge
  \/ \E v \in Value : Create(v)
  \/ \E t \in Taker : Remove(t) \/ Receive(t) \/ Discard(t)

Spec == Init /\ [][Next]_vars
=============================================================================
