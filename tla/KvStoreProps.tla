---------------------------- MODULE KvStoreProps ----------------------------
(***************************************************************************)
(* What InMemoryKvStore promises to the flows that keep their pending       *)
(* requests in it.                                                         *)
(***************************************************************************)
EXTENDS KvStore

\* The types of the variables: no lifetime makes a deadline overflow (kv.rs:80).
TypeOK ==
  /\ clock \in 0..MaxTime
  /\ entries \in [Key -> Option(Entry)]
  /\ pc \in [Call -> {"ready", "putting", "taking", "done"}]
  /\ key \in [Call -> Option(Key)]
  /\ now \in [Call -> Option(0..MaxTime)]
  /\ expiry \in [Call -> Option(0..MaxInstant)]
  /\ hand \in [Call -> Option(Entry)]
  /\ outcome \in [Call -> Option(Outcome)]

\* A call has the locals that what it does next, or what it did, reads.
LocalsOK ==
  \A c \in Call :
    /\ pc[c] = "done" <=> outcome[c] # None
    /\ hand[c] # None => pc[c] = "taking"
    /\ (pc[c] = "putting" \/ outcome[c] = Created) =>
         key[c] \in Key /\ now[c] \in 0..clock /\ expiry[c] \in 0..MaxInstant
    /\ pc[c] = "taking" => key[c] \in Key

IsCreated(v) == outcome[v] = Created
Held(v) == \E k \in Key : entries[k] # None /\ entries[k].value = v
Carries(t, v) == hand[t] # None /\ hand[t].value = v
GotBy(t, v) == outcome[t] = Got(v)

\* Every value in the store, in a call's hand or returned was created by a put
\* that reported so, lives under its own key and keeps its own deadline.
ComesFromPut ==
  /\ \A k \in Key : entries[k] # None =>
       LET v == entries[k].value
       IN  IsCreated(v) /\ key[v] = k /\ expiry[v] = entries[k].expiresAt
  /\ \A t \in Call : hand[t] # None =>
       LET v == hand[t].value
       IN  IsCreated(v) /\ key[v] = key[t] /\ expiry[v] = hand[t].expiresAt
  /\ \A t, v \in Call : GotBy(t, v) => IsCreated(v) /\ key[v] = key[t]

\* "Concurrent calls for the same key must return the value at most once"
\* (kv.rs:31-32), and not only for the same value of a key: a value is in one
\* place, be it the store, one call's hand or one call's outcome.
InOnePlace ==
  \A v, s, t \in Call :
    /\ Carries(t, v) => ~Held(v)
    /\ GotBy(t, v) => ~Held(v)
    /\ GotBy(s, v) => ~Carries(t, v)
    /\ Carries(s, v) /\ Carries(t, v) => s = t
    /\ GotBy(s, v) /\ GotBy(t, v) => s = t

\* No put of this or another key, and no take that came too late, loses a value
\* before its time: until its deadline a created value is in the store, on its
\* way to a call, or returned by one.
NothingLostEarly ==
  \A v \in Call : IsCreated(v) =>
    \/ Held(v)
    \/ \E t \in Call : Carries(t, v) \/ GotBy(t, v)
    \/ clock >= expiry[v]

\* The inductive invariant.
IInv == TypeOK /\ LocalsOK /\ ComesFromPut /\ InOnePlace /\ NothingLostEarly

-----------------------------------------------------------------------------
\* No call gets a value whose deadline has passed when the call returns,
\* however long ago the entry was removed.
NeverLate ==
  [][ \A t, v \in Call : (GotBy(t, v)' /\ ~GotBy(t, v)) => clock < expiry[v] ]_vars

\* A put is refused only for the sake of a value that was usable when the put
\* read the clock: what expired earlier never blocks a key, although nothing
\* but another put ever clears it away.
RefusedForUsable ==
  [][ \A c \in Call : (outcome'[c] = Exists /\ outcome[c] # Exists) =>
        \E v \in Call : /\ IsCreated(v) /\ key[v] = key[c]
                        /\ now[c] < expiry[v]
                        /\ entries'[key[c]] = [value |-> v, expiresAt |-> expiry[v]] ]_vars

\* The store keeps the promise of its trait, seen through the values alone: a
\* value is the trait's as soon as its put reports it created, a taker carries
\* it from its removal to the look at the clock, and what is returned is given.
Slots == [k \in Key |-> IF entries[k] = None THEN None ELSE entries[k].value]
Deadlines == [v \in Call |-> IF IsCreated(v) THEN expiry[v] ELSE None]
Hands == [t \in Call |-> IF hand[t] = None THEN None ELSE hand[t].value]
Receipts == [t \in Call |-> IF \E v \in Call : GotBy(t, v) THEN outcome[t].value ELSE None]

Store == INSTANCE SingleUseStore WITH
  Value <- Call, Taker <- Call, Instant <- 0..MaxInstant,
  time <- clock, slot <- Slots, created <- {v \in Call : IsCreated(v)},
  deadline <- Deadlines, carried <- Hands, received <- Receipts

ImplementsSingleUse == Store!Spec
=============================================================================
