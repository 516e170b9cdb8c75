------------------------------ MODULE KvStore ------------------------------
(***************************************************************************)
(* InMemoryKvStore (src/src/transport/kv.rs): the store of pending          *)
(* authorization requests within one process, used by concurrent calls.     *)
(*                                                                         *)
(* A call is one invocation of put_if_absent or take; a task that calls    *)
(* twice is two calls.  The value a call puts is the call itself, so that  *)
(* no two calls put the same value (a pending request holds random state). *)
(* Neither operation awaits, so no call is cancelled half way; but the     *)
(* clock is read outside the mutex, before it in put_if_absent and after   *)
(* it in take, and other threads run in between.                           *)
(*                                                                         *)
(* A definition X_Y is X with a plausible mistake in it, which some        *)
(* property must notice.                                                   *)
(***************************************************************************)
EXTENDS Integers

CONSTANTS
  None,       \* an absent Option
  Call,       \* the invocations, each of one operation
  Key,        \* the keys
  Ttl,        \* the lifetimes passed to put_if_absent
  MaxInstant, \* the last instant an Instant can represent
  MaxTime     \* bound: the clock stops here

ASSUME TtlsAreNat == Ttl \subseteq Nat
ASSUME ClockBounds == MaxTime \in Nat /\ MaxInstant \in Nat /\ MaxTime <= MaxInstant

Option(S) == S \cup {None}
Entry == [value : Call, expiresAt : 0..MaxInstant]

\* What a call returns: Ok(true), Ok(false) and Err(InvalidTtl) of a put;
\* Ok(None) and Ok(Some(value)) of a take.
Created == [kind |-> "created"]
Exists == [kind |-> "exists"]
InvalidTtl == [kind |-> "invalid ttl"]
Nothing == [kind |-> "nothing"]
Got(value) == [kind |-> "value", value |-> value]
Outcome == {Created, Exists, InvalidTtl, Nothing} \cup {Got(v) : v \in Call}

ASSUME NoneIsNothingElse == None \notin Call \cup Key \cup Entry \cup Outcome

VARIABLES
  clock,    \* Instant::now
  entries,  \* InMemoryKvStore::entries: per key an Entry or None
  pc,       \* where each call stands
  key,      \* the key of each call
  now,      \* the local now of put_if_absent
  expiry,   \* the local expires_at of put_if_absent
  hand,     \* the local entry of take
  outcome   \* what each call has returned

storeVars == <<entries, hand>>
callVars == <<pc, key, now, expiry, outcome>>
vars == <<clock, storeVars, callVars>>

Init ==
  /\ clock = 0
  /\ entries = [k \in Key |-> None]
  /\ pc = [c \in Call |-> "ready"]
  /\ key = [c \in Call |-> None]
  /\ now = [c \in Call |-> None]
  /\ expiry = [c \in Call |-> None]
  /\ hand = [c \in Call |-> None]
  /\ outcome = [c \in Call |-> None]

Tick ==
  /\ clock < MaxTime
  /\ clock' = clock + 1
  /\ UNCHANGED <<storeVars, callVars>>

Return(c, result) ==
  /\ pc' = [pc EXCEPT ![c] = "done"]
  /\ outcome' = [outcome EXCEPT ![c] = result]

-----------------------------------------------------------------------------
(* put_if_absent                                                           *)

\* Instant::now().checked_add(ttl)
Representable(ttl) == clock + ttl <= MaxInstant

\* A zero or overlong lifetime is refused before the store is looked at.
RejectTtl(c) ==
  /\ pc[c] = "ready"
  /\ \E ttl \in Ttl : ttl = 0 \/ ~Representable(ttl)
  /\ Return(c, InvalidTtl)
  /\ UNCHANGED <<clock, storeVars, key, now, expiry>>

\* The clock is read, and the wait for the mutex begins.
StartPut(c) ==
  /\ pc[c] = "ready"
  /\ \E k \in Key, ttl \in Ttl :
       /\ ttl # 0 /\ Representable(ttl)
       /\ key' = [key EXCEPT ![c] = k]
       /\ expiry' = [expiry EXCEPT ![c] = clock + ttl]
  /\ now' = [now EXCEPT ![c] = clock]
  /\ pc' = [pc EXCEPT ![c] = "putting"]
  /\ UNCHANGED <<clock, storeVars, outcome>>

\* entries.retain(|_, entry| entry.expires_at > now)
Retained_All(c) == entries
Retained_Others(c) == [entries EXCEPT ![key[c]] = None]
Retained_Outlasting(c) ==
  [k \in Key |-> IF entries[k] # None /\ entries[k].expiresAt > expiry[c]
                 THEN entries[k] ELSE None]
Retained(c) ==
  [k \in Key |-> IF entries[k] # None /\ entries[k].expiresAt > now[c]
                 THEN entries[k] ELSE None]

\* Under the mutex: what has expired is dropped, then the key is looked up.
FinishPut(c) ==
  /\ pc[c] = "putting"
  /\ IF Retained(c)[key[c]] = None
     THEN /\ entries' = [Retained(c) EXCEPT ![key[c]] = [value |-> c, expiresAt |-> expiry[c]]]
          /\ Return(c, Created)
     ELSE /\ entries' = Retained(c)
          /\ Return(c, Exists)
  /\ UNCHANGED <<clock, hand, key, now, expiry>>

-----------------------------------------------------------------------------
(* take                                                                    *)

\* What remove(key) leaves of the entries.
Without(k) == [entries EXCEPT ![k] = None]

\* Under the mutex: the entry is removed whether or not it has expired.
StartTake(c) ==
  /\ pc[c] = "ready"
  /\ \E k \in Key :
       /\ key' = [key EXCEPT ![c] = k]
       /\ hand' = [hand EXCEPT ![c] = entries[k]]
       /\ entries' = Without(k)
  /\ pc' = [pc EXCEPT ![c] = "taking"]
  /\ UNCHANGED <<clock, now, expiry, outcome>>

\* entry.expires_at > Instant::now()
Usable_Always(entry) == entry # None
Usable(entry) == entry # None /\ entry.expiresAt > clock

FinishTake(c) ==
  /\ pc[c] = "taking"
  /\ Return(c, IF Usable(hand[c]) THEN Got(hand[c].value) ELSE Nothing)
  /\ hand' = [hand EXCEPT ![c] = None]
  /\ UNCHANGED <<clock, entries, key, now, expiry>>

-----------------------------------------------------------------------------
Next ==
  \/ Tick
  \/ \E c \in Call : \/ RejectTtl(c) \/ StartPut(c) \/ FinishPut(c)
                     \/ StartTake(c) \/ FinishTake(c)

Spec == Init /\ [][Next]_vars
=============================================================================
