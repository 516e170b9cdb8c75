--------------------------- MODULE KvStoreProofs ---------------------------
(***************************************************************************)
(* InMemoryKvStore for any number of calls, keys and lifetimes: a value     *)
(* reaches at most one call, none is lost early or delivered late, and the  *)
(* store implements SingleUseStore.                                        *)
(***************************************************************************)
EXTENDS KvStoreProps, TLAPS

\* The outcomes are told apart by their kind.
LEMMA OutcomesDiffer ==
  ASSUME NEW v \in Call, NEW u \in Call
  PROVE  /\ None # Created /\ None # Exists /\ None # InvalidTtl /\ None # Nothing
         /\ None # Got(v)
         /\ Created # Exists /\ Created # InvalidTtl /\ Created # Nothing
         /\ Exists # InvalidTtl /\ Exists # Nothing
         /\ Got(v) # Created /\ Got(v) # Exists /\ Got(v) # InvalidTtl /\ Got(v) # Nothing
         /\ Got(v) = Got(u) => v = u
         /\ {Created, Exists, InvalidTtl, Nothing, Got(v)} \subseteq Outcome
<1>1. {Created, Exists, InvalidTtl, Nothing, Got(v)} \subseteq Outcome
  BY DEF Outcome
<1>2. /\ Created.kind = "created" /\ Exists.kind = "exists"
      /\ InvalidTtl.kind = "invalid ttl" /\ Nothing.kind = "nothing"
      /\ Got(v).kind = "value"
  BY DEF Created, Exists, InvalidTtl, Nothing, Got
<1>3. Got(v).value = v /\ Got(u).value = u
  BY DEF Got
<1>4. /\ Created # Exists /\ Created # InvalidTtl /\ Created # Nothing
      /\ Exists # InvalidTtl /\ Exists # Nothing
      /\ Got(v) # Created /\ Got(v) # Exists /\ Got(v) # InvalidTtl /\ Got(v) # Nothing
  BY <1>2
<1> QED BY <1>1, <1>3, <1>4, NoneIsNothingElse

\* A call that is not done appears nowhere as a value or as a receiver.
LEMMA NotDone ==
  ASSUME IInv, NEW c \in Call, pc[c] # "done"
  PROVE  /\ outcome[c] = None /\ ~IsCreated(c) /\ ~Held(c)
         /\ \A t \in Call : ~Carries(t, c) /\ ~GotBy(t, c) /\ ~GotBy(c, t)
<1>1. outcome[c] = None
  BY DEF IInv, LocalsOK
<1>2. ~IsCreated(c)
  BY <1>1, OutcomesDiffer DEF IsCreated
<1>3. ~Held(c) /\ \A t \in Call : ~Carries(t, c) /\ ~GotBy(t, c)
  BY <1>2 DEF IInv, ComesFromPut, Held, Carries
<1>4. \A t \in Call : ~GotBy(c, t)
  BY <1>1, OutcomesDiffer DEF GotBy
<1> QED BY <1>1, <1>2, <1>3, <1>4

\* Steps that move no value preserve everything but types and locals.
LEMMA Frame ==
  ASSUME IInv, TypeOK', LocalsOK', clock' >= clock,
         entries' = entries, hand' = hand,
         \A v \in Call : IsCreated(v)' <=> IsCreated(v),
         \A t, v \in Call : GotBy(t, v)' <=> GotBy(t, v),
         \A v \in Call : (outcome[v] # None \/ hand[v] # None) =>
                         key'[v] = key[v] /\ expiry'[v] = expiry[v]
  PROVE  IInv'
<1>1. \A v \in Call : IsCreated(v) => outcome[v] # None
  BY OutcomesDiffer DEF IsCreated
<1>2. \A t, v \in Call : GotBy(t, v) => outcome[t] # None
  BY OutcomesDiffer DEF GotBy
<1>3. /\ \A v \in Call : Held(v)' <=> Held(v)
      /\ \A t, v \in Call : Carries(t, v)' <=> Carries(t, v)
  BY DEF Held, Carries
<1>4. ComesFromPut'
  <2>1. \A k \in Key : entries[k] # None => entries[k].value \in Call
    BY DEF IInv, TypeOK, Option, Entry
  <2>2. \A t \in Call : hand[t] # None => hand[t].value \in Call
    BY DEF IInv, TypeOK, Option, Entry
  <2> QED BY <1>1, <1>2, <2>1, <2>2 DEF IInv, ComesFromPut
<1>5. InOnePlace'
  BY <1>3 DEF IInv, InOnePlace
<1>6. NothingLostEarly'
  <2> SUFFICES ASSUME NEW v \in Call, IsCreated(v), ~Held(v),
                      ~\E t \in Call : Carries(t, v) \/ GotBy(t, v)
               PROVE  clock' >= expiry'[v]
    BY <1>3 DEF NothingLostEarly
  <2>1. clock >= expiry[v] /\ expiry[v] \in 0..MaxInstant
    BY DEF IInv, NothingLostEarly, LocalsOK, IsCreated
  <2>2. clock \in Int /\ clock' \in Int
    BY ClockBounds DEF IInv, TypeOK
  <2> QED BY <1>1, <2>1, <2>2, ClockBounds
<1> QED BY <1>4, <1>5, <1>6 DEF IInv

-----------------------------------------------------------------------------
\* The invariant holds before any call starts.
LEMMA InitOK == Init => IInv
<1> SUFFICES ASSUME Init PROVE IInv
  OBVIOUS
<1> USE DEF Init
<1>1. TypeOK
  BY ClockBounds DEF TypeOK, Option
<1>2. LocalsOK
  BY OutcomesDiffer DEF LocalsOK
<1>3. \A v \in Call : ~IsCreated(v) /\ ~Held(v)
  BY OutcomesDiffer DEF IsCreated, Held
<1>4. \A t, v \in Call : ~Carries(t, v) /\ ~GotBy(t, v)
  BY OutcomesDiffer DEF Carries, GotBy
<1> QED BY <1>1, <1>2, <1>3, <1>4 DEF IInv, ComesFromPut, InOnePlace, NothingLostEarly

\* A stuttering step preserves the invariant.
LEMMA StutterOK == IInv /\ UNCHANGED vars => IInv'
<1> SUFFICES ASSUME IInv, UNCHANGED vars PROVE IInv'
  OBVIOUS
<1>1. TypeOK' /\ LocalsOK'
  BY DEF IInv, TypeOK, LocalsOK, vars, storeVars, callVars
<1>2. clock' >= clock
  BY ClockBounds DEF IInv, TypeOK, vars
<1> QED BY <1>1, <1>2, Frame DEF vars, storeVars, callVars, IsCreated, GotBy

\* Deadlines only come nearer as the clock advances.
LEMMA TickOK == IInv /\ Tick => IInv'
<1> SUFFICES ASSUME IInv, Tick PROVE IInv'
  OBVIOUS
<1> USE DEF Tick, storeVars, callVars
<1>1. TypeOK'
  BY ClockBounds DEF IInv, TypeOK
<1>2. LocalsOK'
  BY ClockBounds DEF IInv, TypeOK, LocalsOK
<1>3. clock' >= clock
  BY ClockBounds DEF IInv, TypeOK
<1> QED BY <1>1, <1>2, <1>3, Frame DEF IsCreated, GotBy

\* A refused lifetime leaves the store alone.
LEMMA RejectTtlOK == ASSUME IInv, NEW c \in Call, RejectTtl(c) PROVE IInv'
<1> USE DEF RejectTtl, Return, storeVars
<1>1. TypeOK'
  BY OutcomesDiffer DEF IInv, TypeOK, Option
<1>2. LocalsOK'
  BY OutcomesDiffer DEF IInv, TypeOK, LocalsOK
<1>3. clock' >= clock
  BY ClockBounds DEF IInv, TypeOK
<1>4. /\ \A v \in Call : IsCreated(v)' <=> IsCreated(v)
      /\ \A t, v \in Call : GotBy(t, v)' <=> GotBy(t, v)
  BY NotDone, OutcomesDiffer DEF IInv, TypeOK, IsCreated, GotBy
<1> QED BY <1>1, <1>2, <1>3, <1>4, Frame

\* A put that waits for the mutex has changed its locals only.
LEMMA StartPutOK == ASSUME IInv, NEW c \in Call, StartPut(c) PROVE IInv'
<1> USE DEF StartPut, storeVars
<1>1. TypeOK'
  BY ClockBounds, TtlsAreNat DEF IInv, TypeOK, Option, Representable
<1>2. LocalsOK'
  <2> SUFFICES ASSUME NEW d \in Call
               PROVE  LocalsOK!(d)'
    BY DEF LocalsOK
  <2>1. CASE d # c
    BY <2>1 DEF IInv, TypeOK, LocalsOK
  <2>2. CASE d = c
    <3>1. pc'[c] = "putting" /\ outcome'[c] = None /\ hand'[c] = None
      BY NotDone DEF IInv, TypeOK, LocalsOK
    <3>2. key'[c] \in Key /\ now'[c] \in 0..clock' /\ expiry'[c] \in 0..MaxInstant
      BY ClockBounds, TtlsAreNat DEF IInv, TypeOK, Representable
    <3> QED BY <2>2, <3>1, <3>2
  <2> QED BY <2>1, <2>2
<1>3. clock' >= clock
  BY ClockBounds DEF IInv, TypeOK
<1>4. outcome[c] = None /\ hand[c] = None
  BY NotDone DEF IInv, LocalsOK
<1>5. \A v \in Call : v # c => key'[v] = key[v] /\ expiry'[v] = expiry[v]
  BY DEF IInv, TypeOK
<1> QED BY <1>1, <1>2, <1>3, <1>4, <1>5, Frame DEF IsCreated, GotBy

\* retain drops only what has expired, and lets nothing in.
LEMMA RetainedOK ==
  ASSUME IInv, NEW c \in Call, pc[c] = "putting", NEW k \in Key
  PROVE  /\ Retained(c)[k] \in {None, entries[k]}
         /\ Retained(c)[k] # None => now[c] < entries[k].expiresAt
         /\ (entries[k] # None /\ Retained(c)[k] = None) => clock >= entries[k].expiresAt
<1>1. now[c] \in Int /\ now[c] <= clock /\ clock \in Int
  BY ClockBounds DEF IInv, TypeOK, LocalsOK
<1>2. entries[k] # None => entries[k].expiresAt \in Int
  BY ClockBounds DEF IInv, TypeOK, Option, Entry
<1> QED BY <1>1, <1>2 DEF Retained

\* Under the mutex a put loses only expired values and creates at most its own.
LEMMA FinishPutOK == ASSUME IInv, NEW c \in Call, FinishPut(c) PROVE IInv'
<1> DEFINE new == [value |-> c, expiresAt |-> expiry[c]]
<1>1. /\ key[c] \in Key /\ now[c] \in 0..clock /\ expiry[c] \in 0..MaxInstant
      /\ new \in Entry /\ new # None /\ new.value = c /\ new.expiresAt = expiry[c]
  BY NoneIsNothingElse DEF FinishPut, IInv, LocalsOK, Entry
<1>2. /\ UNCHANGED <<clock, hand, key, now, expiry>>
      /\ outcome' = [outcome EXCEPT ![c] = IF Retained(c)[key[c]] = None THEN Created ELSE Exists]
      /\ pc' = [pc EXCEPT ![c] = "done"]
  BY DEF FinishPut, Return
<1>3. \A k \in Key :
        entries'[k] = IF k = key[c] /\ Retained(c)[k] = None THEN new ELSE Retained(c)[k]
  BY <1>1 DEF FinishPut, Retained
<1> HIDE DEF new
<1>4. \A k \in Key : entries'[k] \in {None, entries[k], new}
  BY <1>3, RetainedOK DEF FinishPut
<1>5. TypeOK'
  <2>1. entries' \in [Key -> Option(Entry)]
    <3>1. DOMAIN entries' = Key /\ entries' = [k \in Key |-> entries'[k]]
      BY DEF FinishPut, Retained
    <3> QED BY <3>1, <1>1, <1>4 DEF IInv, TypeOK, Option
  <2>2. pc' \in [Call -> {"ready", "putting", "taking", "done"}]
    BY <1>2 DEF IInv, TypeOK
  <2>3. outcome' \in [Call -> Option(Outcome)]
    BY <1>2, OutcomesDiffer DEF IInv, TypeOK, Option
  <2> QED BY <1>2, <2>1, <2>2, <2>3 DEF IInv, TypeOK
<1>6. LocalsOK'
  <2>1. /\ outcome'[c] # None /\ pc'[c] = "done" /\ pc[c] = "putting" /\ hand[c] = None
        /\ \A d \in Call : d # c => outcome'[d] = outcome[d] /\ pc'[d] = pc[d]
    BY <1>2, OutcomesDiffer DEF FinishPut, IInv, TypeOK, LocalsOK
  <2> QED BY <1>1, <1>2, <2>1 DEF IInv, LocalsOK
<1>7. /\ ~Held(c) /\ ~IsCreated(c)
      /\ \A t \in Call : ~Carries(t, c) /\ ~GotBy(t, c) /\ ~GotBy(c, t)
  BY NotDone DEF FinishPut
<1>8. /\ \A v \in Call : v # c => (IsCreated(v)' <=> IsCreated(v))
      /\ IsCreated(c)' <=> Retained(c)[key[c]] = None
      /\ \A t, v \in Call : GotBy(t, v)' <=> GotBy(t, v)
      /\ \A t, v \in Call : Carries(t, v)' <=> Carries(t, v)
  <2>1. \A d \in Call : d # c => outcome'[d] = outcome[d]
    BY <1>2 DEF IInv, TypeOK
  <2>2. outcome'[c] = IF Retained(c)[key[c]] = None THEN Created ELSE Exists
    BY <1>2 DEF IInv, TypeOK
  <2> QED BY <1>2, <1>7, <2>1, <2>2, OutcomesDiffer DEF IsCreated, GotBy, Carries
<1>9. \A v \in Call : Held(v)' => Held(v) \/ v = c
  BY <1>1, <1>4 DEF Held
<1>10. \A v \in Call : Held(v) => Held(v)' \/ clock >= expiry[v]
  <2> SUFFICES ASSUME NEW v \in Call, NEW k \in Key, entries[k] # None, entries[k].value = v,
                      ~Held(v)'
               PROVE  clock >= expiry[v]
    BY DEF Held
  <2>1. expiry[v] = entries[k].expiresAt
    BY DEF IInv, ComesFromPut
  <2>2. Retained(c)[k] = None
    BY <1>3, RetainedOK DEF FinishPut, Held
  <2> QED BY <2>1, <2>2, RetainedOK DEF FinishPut
<1>11. ComesFromPut'
  <2>1. ASSUME NEW k \in Key, entries'[k] # None
        PROVE  /\ outcome'[entries'[k].value] = Created
               /\ key[entries'[k].value] = k
               /\ expiry[entries'[k].value] = entries'[k].expiresAt
    <3>1. CASE entries'[k] = entries[k] /\ entries[k] # None
      <4>1. entries[k].value \in Call
        BY <3>1 DEF IInv, TypeOK, Option, Entry
      <4> QED BY <3>1, <4>1, <1>8, <1>7 DEF IInv, ComesFromPut, IsCreated
    <3>2. CASE k = key[c] /\ Retained(c)[k] = None /\ entries'[k] = new
      BY <3>2, <1>1, <1>8 DEF IsCreated
    <3> QED BY <2>1, <3>1, <3>2, <1>3, RetainedOK DEF FinishPut
  <2>2. ASSUME NEW t \in Call, hand[t] # None
        PROVE  /\ outcome'[hand[t].value] = Created
               /\ key[hand[t].value] = key[t]
               /\ expiry[hand[t].value] = hand[t].expiresAt
    <3>1. hand[t].value \in Call
      BY <2>2 DEF IInv, TypeOK, Option, Entry
    <3> QED BY <2>2, <3>1, <1>8, <1>7 DEF IInv, ComesFromPut, IsCreated
  <2>3. \A t, v \in Call : GotBy(t, v)' => IsCreated(v)' /\ key[v] = key[t]
    BY <1>8, <1>7 DEF IInv, ComesFromPut, IsCreated
  <2> QED BY <1>2, <2>1, <2>2, <2>3 DEF ComesFromPut, IsCreated
<1>12. InOnePlace'
  BY <1>8, <1>7, <1>9 DEF IInv, InOnePlace
<1>13. NothingLostEarly'
  <2> SUFFICES ASSUME NEW v \in Call, IsCreated(v)', ~Held(v)',
                      ~\E t \in Call : Carries(t, v) \/ GotBy(t, v)
               PROVE  clock >= expiry[v]
    BY <1>2, <1>8 DEF NothingLostEarly
  <2>1. CASE v = c
    BY <2>1, <1>1, <1>3, <1>8 DEF Held
  <2>2. CASE v # c
    BY <2>2, <1>8, <1>10 DEF IInv, NothingLostEarly
  <2> QED BY <2>1, <2>2
<1> QED BY <1>5, <1>6, <1>11, <1>12, <1>13 DEF IInv

\* A take moves one value from its key to its hand.
LEMMA StartTakeOK == ASSUME IInv, NEW c \in Call, StartTake(c) PROVE IInv'
<1>1. PICK k \in Key : /\ key' = [key EXCEPT ![c] = k]
                       /\ hand' = [hand EXCEPT ![c] = entries[k]]
                       /\ entries' = [entries EXCEPT ![k] = None]
                       /\ pc' = [pc EXCEPT ![c] = "taking"]
                       /\ UNCHANGED <<clock, now, expiry, outcome>>
  BY DEF StartTake, Without
<1>2. /\ outcome[c] = None /\ hand[c] = None /\ ~IsCreated(c)
      /\ \A t \in Call : ~GotBy(c, t)
  BY NotDone DEF StartTake, IInv, LocalsOK
<1>3. TypeOK'
  BY <1>1 DEF IInv, TypeOK, Option
<1>4. LocalsOK'
  BY <1>1, <1>2, OutcomesDiffer DEF IInv, TypeOK, LocalsOK
<1>5. /\ \A v \in Call : IsCreated(v)' <=> IsCreated(v)
      /\ \A t, v \in Call : GotBy(t, v)' <=> GotBy(t, v)
  BY <1>1 DEF IsCreated, GotBy
<1>6. \A t, v \in Call : Carries(t, v)' <=>
        \/ t # c /\ Carries(t, v)
        \/ t = c /\ entries[k] # None /\ entries[k].value = v
  BY <1>1 DEF IInv, TypeOK, Carries
<1>7. \A v \in Call : Held(v)' <=>
        \E j \in Key : j # k /\ entries[j] # None /\ entries[j].value = v
  BY <1>1 DEF IInv, TypeOK, Held
<1>8. ComesFromPut'
  <2>1. \A v \in Call : v # c => key'[v] = key[v]
    BY <1>1 DEF IInv, TypeOK
  <2>2. key'[c] = k
    BY <1>1 DEF IInv, TypeOK
  <2>3. \A j \in Key : entries[j] # None =>
          /\ entries[j].value \in Call /\ IsCreated(entries[j].value)
          /\ entries[j].value # c /\ key[entries[j].value] = j
          /\ expiry[entries[j].value] = entries[j].expiresAt
    BY <1>2 DEF IInv, TypeOK, Option, Entry, ComesFromPut
  <2>4. \A t \in Call : hand[t] # None =>
          /\ hand[t].value \in Call /\ IsCreated(hand[t].value)
          /\ hand[t].value # c /\ key[hand[t].value] = key[t]
          /\ expiry[hand[t].value] = hand[t].expiresAt
    BY <1>2 DEF IInv, TypeOK, Option, Entry, ComesFromPut
  <2>5. \A j \in Key : entries'[j] # None => entries'[j] = entries[j]
    BY <1>1 DEF IInv, TypeOK
  <2>6. \A t \in Call : hand'[t] = IF t = c THEN entries[k] ELSE hand[t]
    BY <1>1 DEF IInv, TypeOK
  <2>7. \A t, v \in Call : GotBy(t, v) =>
          t # c /\ v # c /\ IsCreated(v) /\ key[v] = key[t]
    BY <1>2 DEF IInv, ComesFromPut
  <2>8. ASSUME NEW j \in Key, entries'[j] # None
        PROVE  /\ outcome'[entries'[j].value] = Created
               /\ key'[entries'[j].value] = j
               /\ expiry[entries'[j].value] = entries'[j].expiresAt
    BY <2>8, <2>1, <2>3, <2>5, <1>1 DEF IsCreated
  <2>9. ASSUME NEW t \in Call, hand'[t] # None
        PROVE  /\ outcome'[hand'[t].value] = Created
               /\ key'[hand'[t].value] = key'[t]
               /\ expiry[hand'[t].value] = hand'[t].expiresAt
    <3>1. CASE t = c
      BY <2>9, <3>1, <2>1, <2>2, <2>3, <2>6, <1>1 DEF IsCreated
    <3>2. CASE t # c
      BY <2>9, <3>2, <2>1, <2>4, <2>6, <1>1 DEF IsCreated
    <3> QED BY <3>1, <3>2
  <2>10. \A t, v \in Call : GotBy(t, v) => IsCreated(v)' /\ key'[v] = key'[t]
    BY <2>1, <2>7, <1>5
  <2> QED BY <2>8, <2>9, <2>10, <1>1, <1>5 DEF ComesFromPut, IsCreated
<1>9. \A i, j \in Key : (entries[i] # None /\ entries[j] # None
                          /\ entries[i].value = entries[j].value) => i = j
  BY DEF IInv, ComesFromPut
<1>10. InOnePlace'
  <2>1. \A v \in Call : Held(v)' => Held(v) /\ ~(entries[k] # None /\ entries[k].value = v)
    BY <1>7, <1>9 DEF Held
  <2>2. \A v \in Call : (entries[k] # None /\ entries[k].value = v) => Held(v)
    BY DEF Held
  <2> QED BY <1>5, <1>6, <2>1, <2>2 DEF IInv, InOnePlace
<1>11. NothingLostEarly'
  <2> SUFFICES ASSUME NEW v \in Call, IsCreated(v), ~Held(v)',
                      ~\E t \in Call : Carries(t, v)' \/ GotBy(t, v)
               PROVE  clock >= expiry[v]
    BY <1>1, <1>5 DEF NothingLostEarly
  <2>1. ~Held(v)
    BY <1>6, <1>7 DEF Held
  <2>2. ~\E t \in Call : Carries(t, v)
    BY <1>2, <1>6 DEF Carries
  <2> QED BY <2>1, <2>2 DEF IInv, NothingLostEarly
<1> QED BY <1>3, <1>4, <1>8, <1>10, <1>11 DEF IInv

\* A take returns the value in its hand, or drops it past its deadline.
LEMMA FinishTakeOK == ASSUME IInv, NEW c \in Call, FinishTake(c) PROVE IInv'
<1> USE DEF FinishTake
<1> DEFINE result == IF Usable(hand[c]) THEN Got(hand[c].value) ELSE Nothing
<1>1. /\ outcome' = [outcome EXCEPT ![c] = result]
      /\ pc' = [pc EXCEPT ![c] = "done"]
      /\ hand' = [hand EXCEPT ![c] = None]
  BY DEF Return
<1>2. /\ outcome[c] = None /\ ~IsCreated(c) /\ ~Held(c)
      /\ \A t \in Call : ~GotBy(c, t) /\ ~GotBy(t, c) /\ ~Carries(t, c)
  BY NotDone
<1>3. hand[c] # None => hand[c].value \in Call /\ hand[c].expiresAt \in 0..MaxInstant
  BY DEF IInv, TypeOK, Option, Entry
<1>4. /\ result \in Outcome /\ result # Created /\ result # None
      /\ \A v \in Call : result = Got(v) <=> Carries(c, v) /\ hand[c].expiresAt > clock
  BY <1>3, OutcomesDiffer DEF Usable, Carries
<1> HIDE DEF result
<1>5. TypeOK'
  BY <1>1, <1>4 DEF IInv, TypeOK, Option
<1>6. LocalsOK'
  BY <1>1, <1>4 DEF IInv, TypeOK, LocalsOK
<1>7. /\ \A v \in Call : IsCreated(v)' <=> IsCreated(v)
      /\ \A v \in Call : Held(v)' <=> Held(v)
      /\ \A t, v \in Call : Carries(t, v)' <=> t # c /\ Carries(t, v)
      /\ \A t, v \in Call : GotBy(t, v)' <=>
           GotBy(t, v) \/ (t = c /\ Carries(c, v) /\ hand[c].expiresAt > clock)
  BY <1>1, <1>2, <1>4 DEF IInv, TypeOK, IsCreated, Held, Carries, GotBy
<1>8. ComesFromPut'
  <2>1. \A k \in Key : entries[k] # None => entries[k].value \in Call
    BY DEF IInv, TypeOK, Option, Entry
  <2>2. \A t \in Call : hand'[t] # None => hand'[t] = hand[t] /\ hand[t].value \in Call
    BY <1>1 DEF IInv, TypeOK, Option, Entry
  <2>3. \A t, v \in Call : GotBy(t, v)' => IsCreated(v) /\ key[v] = key[t]
    BY <1>7 DEF IInv, ComesFromPut, Carries
  <2> QED BY <1>7, <2>1, <2>2, <2>3 DEF IInv, ComesFromPut
<1>9. InOnePlace'
  BY <1>2, <1>7 DEF IInv, InOnePlace
<1>10. NothingLostEarly'
  <2> SUFFICES ASSUME NEW v \in Call, IsCreated(v), ~Held(v),
                      ~\E t \in Call : Carries(t, v)' \/ GotBy(t, v)'
               PROVE  clock >= expiry[v]
    BY <1>7 DEF NothingLostEarly
  <2>1. CASE Carries(c, v)
    <3>1. expiry[v] = hand[c].expiresAt
      BY <2>1 DEF IInv, ComesFromPut, Carries
    <3>2. ~(hand[c].expiresAt > clock)
      BY <2>1, <1>7
    <3> QED BY <2>1, <3>1, <3>2, <1>3, ClockBounds DEF IInv, TypeOK, Carries
  <2>2. CASE ~Carries(c, v)
    <3>1. ~\E t \in Call : Carries(t, v) \/ GotBy(t, v)
      BY <2>2, <1>7
    <3> QED BY <3>1 DEF IInv, NothingLostEarly
  <2> QED BY <2>1, <2>2
<1> QED BY <1>5, <1>6, <1>8, <1>9, <1>10 DEF IInv

-----------------------------------------------------------------------------
\* The invariant holds in every reachable state.
THEOREM Invariance == Spec => []IInv
<1>1. IInv /\ [Next]_vars => IInv'
  BY StutterOK, TickOK, RejectTtlOK, StartPutOK, FinishPutOK, StartTakeOK, FinishTakeOK DEF Next
<1> QED BY <1>1, InitOK, PTL DEF Spec

\* The variables have their types; no deadline overflows.
THEOREM TypeCorrect == Spec => []TypeOK
<1>1. IInv => TypeOK
  BY DEF IInv
<1> QED BY <1>1, Invariance, PTL

\* A value reaches at most one call, whatever the calls and their order.
THEOREM AtMostOnce == Spec => []InOnePlace
<1>1. IInv => InOnePlace
  BY DEF IInv
<1> QED BY <1>1, Invariance, PTL

\* No created value is lost before its deadline.
THEOREM NoneLost == Spec => []NothingLostEarly
<1>1. IInv => NothingLostEarly
  BY DEF IInv
<1> QED BY <1>1, Invariance, PTL

\* No call returns a value after its deadline.
THEOREM NeverLateHolds == Spec => NeverLate
<1>1. ASSUME IInv, [Next]_vars, NEW t \in Call, NEW v \in Call, GotBy(t, v)', ~GotBy(t, v)
      PROVE  clock < expiry[v]
  <2>1. CASE Tick \/ UNCHANGED vars
    BY <1>1, <2>1 DEF Tick, vars, storeVars, callVars, GotBy
  <2>2. ASSUME NEW c \in Call, FinishTake(c) PROVE clock < expiry[v]
    <3>1. outcome'[t] = Got(v) /\ outcome'[t] # outcome[t]
      BY <1>1 DEF GotBy
    <3>2. t = c /\ Usable(hand[c]) /\ hand[c].value = v
      <4>1. hand[c] # None => hand[c].value \in Call
        BY <1>1 DEF IInv, TypeOK, Option, Entry
      <4>2. t = c
        BY <1>1, <2>2, <3>1 DEF FinishTake, Return, IInv, TypeOK
      <4>3. outcome'[c] = IF Usable(hand[c]) THEN Got(hand[c].value) ELSE Nothing
        BY <1>1, <2>2 DEF FinishTake, Return, IInv, TypeOK
      <4> QED BY <3>1, <4>1, <4>2, <4>3, OutcomesDiffer DEF Usable
    <3>3. expiry[v] = hand[c].expiresAt /\ hand[c].expiresAt \in Int
      BY <1>1, <3>2, ClockBounds DEF IInv, TypeOK, Option, Entry, ComesFromPut, Usable
    <3> QED BY <1>1, <3>2, <3>3, ClockBounds DEF IInv, TypeOK, Usable
  <2>3. ASSUME NEW c \in Call, RejectTtl(c) \/ StartPut(c) \/ FinishPut(c) \/ StartTake(c)
        PROVE  FALSE
    <3>1. \A d \in Call : outcome'[d] \in {outcome[d], InvalidTtl, Created, Exists}
      BY <1>1, <2>3 DEF RejectTtl, StartPut, FinishPut, StartTake, Return, IInv, TypeOK
    <3> QED BY <1>1, <3>1, OutcomesDiffer DEF GotBy
  <2> QED BY <1>1, <2>1, <2>2, <2>3 DEF Next
<1>2. IInv /\ [Next]_vars =>
        \A t, v \in Call : (GotBy(t, v)' /\ ~GotBy(t, v)) => clock < expiry[v]
  BY <1>1
<1> QED BY <1>2, Invariance, PTL DEF Spec, NeverLate

\* A put is refused only for a value that was usable when it read the clock.
THEOREM RefusalsAreJustified == Spec => RefusedForUsable
<1> DEFINE Justified(c) ==
      \E v \in Call : /\ IsCreated(v) /\ key[v] = key[c]
                      /\ now[c] < expiry[v]
                      /\ entries'[key[c]] = [value |-> v, expiresAt |-> expiry[v]]
<1>1. ASSUME IInv, [Next]_vars, NEW c \in Call, outcome'[c] = Exists, outcome[c] # Exists
      PROVE  Justified(c)
  <2>1. CASE Tick \/ UNCHANGED vars
    BY <1>1, <2>1 DEF Tick, vars, storeVars, callVars
  <2>2. ASSUME NEW d \in Call, FinishPut(d) PROVE Justified(c)
    <3>1. c = d /\ Retained(c)[key[c]] # None /\ entries' = Retained(c)
      <4>1. c = d
        BY <1>1, <2>2 DEF FinishPut, Return, IInv, TypeOK
      <4> QED BY <1>1, <2>2, <4>1, OutcomesDiffer DEF FinishPut, Return, IInv, TypeOK
    <3>2. key[c] \in Key
      BY <1>1, <2>2, <3>1 DEF FinishPut, IInv, LocalsOK
    <3>3. /\ Retained(c)[key[c]] = entries[key[c]]
          /\ now[c] < entries[key[c]].expiresAt
      BY <1>1, <2>2, <3>1, <3>2, RetainedOK DEF FinishPut
    <3> DEFINE e == entries[key[c]]
    <3>4. e \in Entry /\ e # None
      BY <1>1, <3>1, <3>2, <3>3 DEF IInv, TypeOK, Option
    <3>5. IsCreated(e.value) /\ key[e.value] = key[c] /\ expiry[e.value] = e.expiresAt
      BY <1>1, <3>2, <3>4 DEF IInv, ComesFromPut
    <3>6. e.value \in Call /\ e = [value |-> e.value, expiresAt |-> e.expiresAt]
      BY <3>4 DEF Entry
    <3> QED BY <3>1, <3>3, <3>5, <3>6
  <2>3. ASSUME NEW d \in Call, RejectTtl(d) \/ StartPut(d) \/ StartTake(d) \/ FinishTake(d)
        PROVE  FALSE
    <3>1. outcome'[c] \in {outcome[c], InvalidTtl, Nothing} \cup {Got(v) : v \in Call}
      <4>1. hand[d] # None => hand[d].value \in Call
        BY <1>1 DEF IInv, TypeOK, Option, Entry
      <4>2. CASE RejectTtl(d) \/ StartPut(d) \/ StartTake(d)
        BY <1>1, <4>2 DEF RejectTtl, StartPut, StartTake, Return, IInv, TypeOK
      <4>3. CASE FinishTake(d)
        <5> DEFINE r == IF Usable(hand[d]) THEN Got(hand[d].value) ELSE Nothing
        <5>1. r \in {Nothing} \cup {Got(v) : v \in Call}
          BY <4>1 DEF Usable
        <5>2. outcome' = [outcome EXCEPT ![d] = r]
          BY <4>3 DEF FinishTake, Return
        <5> HIDE DEF r
        <5>3. outcome'[c] \in {outcome[c], r}
          BY <1>1, <5>2 DEF IInv, TypeOK
        <5> QED BY <5>1, <5>3
      <4> QED BY <2>3, <4>2, <4>3
    <3> QED BY <1>1, <3>1, OutcomesDiffer
  <2> QED BY <1>1, <2>1, <2>2, <2>3 DEF Next
<1>2. IInv /\ [Next]_vars =>
        \A c \in Call : (outcome'[c] = Exists /\ outcome[c] # Exists) => Justified(c)
  BY <1>1
<1> QED BY <1>2, Invariance, PTL DEF Spec, RefusedForUsable

-----------------------------------------------------------------------------
(* Refinement.                                                             *)

\* A call that gets nothing is given no value, one that gets a value that one.
LEMMA Receipt ==
  ASSUME NEW t \in Call
  PROVE  /\ \A v \in Call : GotBy(t, v) => Receipts[t] = v
         /\ (\A v \in Call : ~GotBy(t, v)) => Receipts[t] = None
<1>1. \A v \in Call : GotBy(t, v) => outcome[t].value = v
  BY DEF GotBy, Got
<1> QED BY <1>1 DEF Receipts

\* Steps of a call that move no value are invisible.
LEMMA InvisibleStep ==
  ASSUME clock' = clock, entries' = entries, hand' = hand,
         \A v \in Call : IsCreated(v)' <=> IsCreated(v),
         \A v \in Call : IsCreated(v) => expiry'[v] = expiry[v],
         \A t, v \in Call : GotBy(t, v)' <=> GotBy(t, v),
         \A t, v \in Call : GotBy(t, v) => outcome'[t] = outcome[t]
  PROVE  UNCHANGED Store!vars
<1>1. Slots' = Slots /\ Hands' = Hands
  BY DEF Slots, Hands
<1>2. Deadlines' = Deadlines
  BY DEF Deadlines
<1>3. {v \in Call : IsCreated(v)}' = {v \in Call : IsCreated(v)}
  OBVIOUS
<1>4. Receipts' = Receipts
  <2>1. \A t \in Call : (\E v \in Call : GotBy(t, v))' <=> (\E v \in Call : GotBy(t, v))
    OBVIOUS
  <2> QED BY <2>1 DEF Receipts
<1> QED BY <1>1, <1>2, <1>3, <1>4 DEF Store!vars

\* The empty store is the empty abstract store.
LEMMA InitRefines == Init => Store!Init
<1> SUFFICES ASSUME Init PROVE Store!Init
  OBVIOUS
<1>1. \A t, v \in Call : ~IsCreated(v) /\ ~GotBy(t, v)
  BY OutcomesDiffer DEF Init, IsCreated, GotBy
<1> QED BY <1>1 DEF Init, Store!Init, Slots, Deadlines, Hands, Receipts

\* The two stores have one clock.
LEMMA TickRefines == IInv /\ Tick => Store!Tick
<1> SUFFICES ASSUME IInv, Tick PROVE Store!Tick
  OBVIOUS
<1> QED BY DEF Tick, storeVars, callVars, Store!Tick, Slots, Deadlines, Hands, Receipts,
              IsCreated, GotBy

\* A refused lifetime is invisible.
LEMMA RejectTtlRefines == ASSUME IInv, NEW c \in Call, RejectTtl(c) PROVE UNCHANGED Store!vars
<1>1. outcome' = [outcome EXCEPT ![c] = InvalidTtl] /\ pc[c] = "ready"
      /\ UNCHANGED <<clock, entries, hand, expiry>>
  BY DEF RejectTtl, Return, storeVars
<1>2. ~IsCreated(c) /\ \A t \in Call : ~GotBy(c, t)
  BY <1>1, NotDone
<1>3. \A d \in Call : outcome'[d] = IF d = c THEN InvalidTtl ELSE outcome[d]
  BY <1>1 DEF IInv, TypeOK
<1> QED BY <1>1, <1>2, <1>3, InvisibleStep, OutcomesDiffer DEF IsCreated, GotBy

\* A put is invisible until it has the mutex.
LEMMA StartPutRefines == ASSUME IInv, NEW c \in Call, StartPut(c) PROVE UNCHANGED Store!vars
<1>1. ~IsCreated(c) /\ \A v \in Call : v # c => expiry'[v] = expiry[v]
  BY NotDone DEF StartPut, IInv, TypeOK
<1>2. UNCHANGED <<clock, entries, hand, outcome>>
  BY DEF StartPut, storeVars
<1> QED BY <1>1, <1>2, InvisibleStep DEF IsCreated, GotBy

\* Under the mutex a put creates its value, or only purges overdue ones.
LEMMA FinishPutRefines ==
  ASSUME IInv, NEW c \in Call, FinishPut(c)
  PROVE  Store!Create(c) \/ Store!Purge
<1> DEFINE gone == {k \in Key : entries[k] # None /\ Retained(c)[k] = None}
           made == Retained(c)[key[c]] = None
<1>1. /\ key[c] \in Key /\ expiry[c] \in 0..MaxInstant /\ pc[c] = "putting"
      /\ UNCHANGED <<clock, hand, expiry>>
      /\ ~IsCreated(c) /\ \A t \in Call : ~GotBy(c, t) /\ ~GotBy(t, c)
  BY NotDone DEF FinishPut, IInv, LocalsOK
<1>2. /\ outcome'[c] = IF made THEN Created ELSE Exists
      /\ \A d \in Call : d # c => outcome'[d] = outcome[d]
  BY DEF FinishPut, Return, IInv, TypeOK
<1>3. /\ IsCreated(c)' <=> made
      /\ \A v \in Call : v # c => (IsCreated(v)' <=> IsCreated(v))
      /\ \A t, v \in Call : GotBy(t, v)' <=> GotBy(t, v)
  BY <1>1, <1>2, OutcomesDiffer DEF IsCreated, GotBy
<1>4. gone \in SUBSET Store!Overdue
  <2> SUFFICES ASSUME NEW k \in Key, entries[k] # None, Retained(c)[k] = None
               PROVE  Slots[k] # None /\ clock >= Deadlines[Slots[k]]
    BY DEF Store!Overdue
  <2>1. entries[k].value \in Call /\ Slots[k] = entries[k].value
    BY DEF Slots, IInv, TypeOK, Option, Entry
  <2>2. Deadlines[Slots[k]] = entries[k].expiresAt
    BY <2>1 DEF Deadlines, IInv, ComesFromPut
  <2> QED BY <1>1, <2>1, <2>2, RetainedOK, NoneIsNothingElse
<1>5. \A k \in Key : Store!Dropped(gone)[k] =
        IF Retained(c)[k] = None THEN None ELSE Retained(c)[k].value
  BY <1>1, RetainedOK DEF Store!Dropped, Slots
<1>6. Hands' = Hands
  BY <1>1 DEF Hands
<1>7. Receipts' = Receipts
  <2>1. \A t \in Call : (\E v \in Call : GotBy(t, v))' <=> (\E v \in Call : GotBy(t, v))
    BY <1>3
  <2>2. \A t \in Call : (\E v \in Call : GotBy(t, v)) => outcome'[t] = outcome[t]
    BY <1>1, <1>2
  <2> QED BY <2>1, <2>2 DEF Receipts
<1>8. CASE made
  <2>1. \A k \in Key : entries'[k] =
          IF k = key[c] THEN [value |-> c, expiresAt |-> expiry[c]] ELSE Retained(c)[k]
    BY <1>8, <1>1 DEF FinishPut, Retained
  <2>2. [value |-> c, expiresAt |-> expiry[c]] # None
    BY <1>1, NoneIsNothingElse DEF Entry
  <2>3. Slots' = [Store!Dropped(gone) EXCEPT ![key[c]] = c]
    <3>1. \A k \in Key : Slots'[k] = IF k = key[c] THEN c ELSE Store!Dropped(gone)[k]
      BY <1>5, <2>1, <2>2 DEF Slots
    <3> QED BY <3>1 DEF Slots, Store!Dropped
  <2>4. {v \in Call : IsCreated(v)}' = {v \in Call : IsCreated(v)} \cup {c}
    BY <1>3, <1>8
  <2>5. Deadlines' = [Deadlines EXCEPT ![c] = expiry[c]]
    BY <1>1, <1>3, <1>8 DEF Deadlines
  <2>6. Store!Dropped(gone)[key[c]] = None
    BY <1>1, <1>5, <1>8
  <2> HIDE DEF gone, made
  <2> QED BY <1>1, <1>4, <1>6, <1>7, <2>3, <2>4, <2>5, <2>6 DEF Store!Create
<1>9. CASE ~made
  <2>1. entries' = Retained(c)
    BY <1>9 DEF FinishPut
  <2>2. Slots' = Store!Dropped(gone)
    BY <1>5, <2>1 DEF Slots, Store!Dropped
  <2>3. {v \in Call : IsCreated(v)}' = {v \in Call : IsCreated(v)}
    BY <1>1, <1>3, <1>9
  <2>4. Deadlines' = Deadlines
    BY <1>1, <1>3, <1>9 DEF Deadlines
  <2> HIDE DEF gone, made
  <2> QED BY <1>1, <1>4, <1>6, <1>7, <2>2, <2>3, <2>4 DEF Store!Purge
<1> QED BY <1>8, <1>9

\* A take that finds an entry removes it.
LEMMA StartTakeRefines ==
  ASSUME IInv, NEW c \in Call, StartTake(c)
  PROVE  Store!Remove(c) \/ UNCHANGED Store!vars
<1>1. PICK k \in Key : /\ hand' = [hand EXCEPT ![c] = entries[k]]
                       /\ entries' = [entries EXCEPT ![k] = None]
  BY DEF StartTake, Without
<1>2. UNCHANGED <<clock, expiry, outcome>>
  BY DEF StartTake
<1>3. hand[c] = None /\ Hands[c] = None /\ Receipts[c] = None
  BY NotDone, Receipt DEF StartTake, IInv, LocalsOK, Hands
<1>4. CASE entries[k] = None
  <2>1. hand' = hand /\ entries' = entries
    BY <1>1, <1>3, <1>4 DEF IInv, TypeOK
  <2> QED BY <1>2, <2>1, InvisibleStep DEF IsCreated, GotBy
<1>5. CASE entries[k] # None
  <2>1. Slots[k] # None /\ Slots[k] = entries[k].value
    BY <1>5, NoneIsNothingElse DEF Slots, IInv, TypeOK, Option, Entry
  <2>2. Hands' = [Hands EXCEPT ![c] = Slots[k]]
    BY <1>1, <1>5, <2>1 DEF Hands, IInv, TypeOK
  <2>3. Slots' = [Slots EXCEPT ![k] = None]
    BY <1>1 DEF Slots, IInv, TypeOK
  <2>4. Receipts' = Receipts /\ Deadlines' = Deadlines
        /\ {v \in Call : IsCreated(v)}' = {v \in Call : IsCreated(v)}
    BY <1>2 DEF Receipts, Deadlines, IsCreated, GotBy
  <2> QED BY <1>2, <1>3, <2>1, <2>2, <2>3, <2>4 DEF Store!Remove
<1> QED BY <1>4, <1>5

\* A take that carries a value receives or discards it.
LEMMA FinishTakeRefines ==
  ASSUME IInv, NEW c \in Call, FinishTake(c)
  PROVE  Store!Receive(c) \/ Store!Discard(c) \/ UNCHANGED Store!vars
<1> DEFINE result == IF Usable(hand[c]) THEN Got(hand[c].value) ELSE Nothing
<1>1. /\ hand' = [hand EXCEPT ![c] = None]
      /\ outcome'[c] = result
      /\ \A d \in Call : d # c => outcome'[d] = outcome[d]
      /\ UNCHANGED <<clock, entries, expiry>>
  BY DEF FinishTake, Return, IInv, TypeOK
<1>2. ~IsCreated(c) /\ \A v \in Call : ~GotBy(c, v)
  BY NotDone DEF FinishTake
<1>3. hand[c] # None =>
        /\ hand[c].value \in Call /\ hand[c].expiresAt \in 0..MaxInstant
        /\ IsCreated(hand[c].value) /\ expiry[hand[c].value] = hand[c].expiresAt
        /\ Hands[c] = hand[c].value /\ Hands[c] # None
        /\ Deadlines[Hands[c]] = hand[c].expiresAt
  BY NoneIsNothingElse DEF IInv, TypeOK, Option, Entry, ComesFromPut, Hands, Deadlines
<1>4. /\ result # Created
      /\ \A v \in Call : result = Got(v) <=> Usable(hand[c]) /\ hand[c].value = v
  BY <1>3, OutcomesDiffer DEF Usable
<1> HIDE DEF result
<1>5. \A v \in Call : IsCreated(v)' <=> IsCreated(v)
  BY <1>1, <1>2, <1>4 DEF IsCreated
<1>6. /\ \A t, v \in Call : t # c => (GotBy(t, v)' <=> GotBy(t, v))
      /\ \A v \in Call : GotBy(c, v)' <=> Usable(hand[c]) /\ hand[c].value = v
  BY <1>1, <1>4 DEF GotBy
<1>7. /\ Slots' = Slots /\ Deadlines' = Deadlines
      /\ {v \in Call : IsCreated(v)}' = {v \in Call : IsCreated(v)}
  BY <1>1, <1>5 DEF Slots, Deadlines
<1>8. Hands' = [Hands EXCEPT ![c] = None]
  BY <1>1 DEF Hands, IInv, TypeOK
<1>9. \A t \in Call : t # c => Receipts'[t] = Receipts[t]
  BY <1>1, <1>6 DEF Receipts
<1>10. clock \in Int
  BY ClockBounds DEF IInv, TypeOK
<1>11. CASE Usable(hand[c])
  <2>1. hand[c] # None /\ clock < hand[c].expiresAt
    BY <1>3, <1>10, <1>11, ClockBounds DEF Usable
  <2>2. outcome'[c].value = hand[c].value
    BY <1>1, <1>3, <1>4, <1>11, <2>1 DEF Got
  <2>3. Receipts'[c] = Hands[c]
    BY <1>3, <1>6, <1>11, <2>1, <2>2 DEF Receipts
  <2>4. Receipts' = [Receipts EXCEPT ![c] = Hands[c]]
    BY <1>9, <2>3 DEF Receipts
  <2> QED BY <1>1, <1>3, <1>7, <1>8, <2>1, <2>4 DEF Store!Receive
<1>12. CASE ~Usable(hand[c])
  <2>1. Receipts'[c] = Receipts[c]
    BY <1>2, <1>6, <1>12 DEF Receipts
  <2>2. Receipts' = Receipts
    BY <1>9, <2>1 DEF Receipts
  <2>3. CASE hand[c] = None
    <3>1. Hands' = Hands
      BY <1>1, <2>3 DEF Hands, IInv, TypeOK
    <3> QED BY <1>1, <1>7, <2>2, <3>1 DEF Store!vars
  <2>4. CASE hand[c] # None
    <3>1. clock >= hand[c].expiresAt
      BY <1>3, <1>10, <1>12, <2>4, ClockBounds DEF Usable
    <3> QED BY <1>1, <1>3, <1>7, <1>8, <2>2, <2>4, <3>1 DEF Store!Discard
  <2> QED BY <2>3, <2>4
<1> QED BY <1>11, <1>12

\* The in-memory store implements the promise of its trait.
THEOREM Refinement == Spec => ImplementsSingleUse
<1>1. ASSUME IInv, Next PROVE Store!Next \/ UNCHANGED Store!vars
  <2>1. CASE Tick
    BY <1>1, <2>1, TickRefines DEF Store!Next
  <2>2. ASSUME NEW c \in Call, RejectTtl(c) \/ StartPut(c)
        PROVE  UNCHANGED Store!vars
    BY <1>1, <2>2, RejectTtlRefines, StartPutRefines
  <2>3. ASSUME NEW c \in Call, FinishPut(c)
        PROVE  Store!Next
    BY <1>1, <2>3, FinishPutRefines DEF Store!Next
  <2>4. ASSUME NEW c \in Call, StartTake(c) \/ FinishTake(c)
        PROVE  Store!Next \/ UNCHANGED Store!vars
    BY <1>1, <2>4, StartTakeRefines, FinishTakeRefines DEF Store!Next
  <2> QED BY <1>1, <2>1, <2>2, <2>3, <2>4 DEF Next
<1>2. UNCHANGED vars => UNCHANGED Store!vars
  BY DEF vars, storeVars, callVars, Store!vars, Slots, Deadlines, Hands, Receipts,
         IsCreated, GotBy
<1>3. IInv /\ [Next]_vars => [Store!Next]_(Store!vars)
  BY <1>1, <1>2
<1> QED BY <1>3, InitRefines, Invariance, PTL DEF Spec, ImplementsSingleUse, Store!Spec
=============================================================================
