--------------------------- MODULE AuthFlowProofs ---------------------------
(***************************************************************************)
(* The authorization-code flow for any number of instances, transactions,   *)
(* codes, completions and documents, and for any skew.                     *)
(***************************************************************************)
EXTENDS AuthFlowProps, TLAPS

\* A completion that a step does not concern.
Same(d) ==
  /\ pc'[d] = pc[d] /\ at'[d] = at[d] /\ response'[d] = response[d] /\ lookup'[d] = lookup[d]
  /\ sent'[d] = sent[d] /\ outcome'[d] = outcome[d] /\ tokens'[d] = tokens[d]
  /\ carried'[d] = carried[d] /\ received'[d] = received[d]

\* A completion that is as it should be after a step.
StaysSound(d) == Same(d) \/ LocalOK(d)'

\* What was redirected and issued stays so.
Grows ==
  /\ created \subseteq created'
  /\ \A c \in Code : issued[c] # None => issued'[c] = issued[c]

\* A completion that a step does not concern stays as it should be.
LEMMA SameKeeps ==
  ASSUME IInv, Grows, NEW d \in Call, Same(d)
  PROVE  LocalOK(d)'
<1>1. LocalOK(d) /\ TypeOK
  BY DEF IInv, LocalsOK
<1>2. tokens[d] # None => issued'[sent[d].code] = issued[sent[d].code]
  <2> SUFFICES ASSUME tokens[d] # None PROVE issued'[sent[d].code] = issued[sent[d].code]
    OBVIOUS
  <2>1. sent[d] # None /\ issued[sent[d].code] # None
    BY <1>1 DEF LocalOK
  <2>2. sent[d].code \in Code
    BY <1>1, <2>1 DEF TypeOK, Option, Request
  <2> QED BY <2>1, <2>2 DEF Grows
<1> QED BY <1>1, <1>2 DEF LocalOK, Same

\* To preserve the invariant, a step answers for the completions it concerns.
LEMMA Assemble ==
  ASSUME IInv, Grows, TypeOK', BornOK', InOnePlace',
         \A d \in Call : StaysSound(d)
  PROVE  IInv'
<1>1. \A d \in Call : LocalOK(d)'
  BY SameKeeps DEF StaysSound
<1> QED BY <1>1 DEF IInv, LocalsOK

\* Nothing comes to be in a second place when nothing is taken up.
LEMMA PlaceKept ==
  ASSUME IInv, Grows,
         \A t \in Tx : slot'[t] \in {slot[t], None},
         \A d \in Call, t \in Tx : Has(d, t)' => Has(d, t)
  PROVE  InOnePlace'
BY DEF IInv, InOnePlace, Grows

LEMMA BornKept ==
  ASSUME IInv, created' = created, pending' = pending
  PROVE  BornOK'
BY DEF IInv, BornOK

LEMMA InitIInv == Init => IInv
<1> SUFFICES ASSUME Init PROVE IInv
  OBVIOUS
<1> USE TtlIsNat, Bounds, NoneIsNothingElse
<1>1. /\ clock = 0 /\ slot = [t \in Tx |-> None] /\ created = {}
      /\ deadline = [t \in Tx |-> None] /\ carried = [d \in Call |-> None]
      /\ received = [d \in Call |-> None]
  BY DEF Init, Store!Init
<1>2. TypeOK
  BY <1>1 DEF Init, TypeOK, Option
<1>3. \A d \in Call : LocalOK(d)
  BY <1>1, NoneIsNoResult DEF Init, LocalOK, InFlight, Outcomes
<1>4. BornOK
  BY <1>1 DEF Init, BornOK
<1>5. InOnePlace
  BY <1>1 DEF InOnePlace, Has
<1> QED BY <1>2, <1>3, <1>4, <1>5 DEF IInv, LocalsOK

-----------------------------------------------------------------------------
(* The steps of the environment and of the first leg.                      *)

LEMMA WorldSteps ==
  ASSUME IInv, UNCHANGED <<slot, created, carried, received, issued, pending, callVars>>, TypeOK'
  PROVE  IInv'
<1>1. Grows /\ \A d \in Call : StaysSound(d)
  BY DEF Grows, StaysSound, Same, callVars
<1>2. InOnePlace'
  BY DEF IInv, InOnePlace, Has
<1> QED BY <1>1, <1>2, Assemble, BornKept

LEMMA TickIInv == ASSUME IInv, Tick PROVE IInv'
<1>1. TypeOK'
  BY Bounds DEF Tick, Store!Tick, IInv, TypeOK, worldVars, callVars
<1> QED BY <1>1, WorldSteps DEF Tick, Store!Tick, worldVars

LEMMA AdjustIInv == ASSUME IInv, NEW i \in Instance, AdjustClock(i) PROVE IInv'
<1>1. TypeOK'
  BY DEF AdjustClock, IInv, TypeOK, storeVars, callVars
<1> QED BY <1>1, WorldSteps DEF AdjustClock, storeVars

LEMMA UpdateIInv == ASSUME IInv, ProviderUpdates PROVE IInv'
<1>1. TypeOK'
  BY Bounds DEF ProviderUpdates, IInv, TypeOK, storeVars, callVars
<1> QED BY <1>1, WorldSteps DEF ProviderUpdates, storeVars

\* What the store forgets is forgotten, and nothing else moves.
LEMMA ForgetsOnly ==
  ASSUME IInv, NEW K, K \subseteq Tx
  PROVE  \A t \in Tx : Store!Dropped(K)[t] = IF t \in K THEN None ELSE slot[t]
BY DEF Store!Dropped

LEMMA ExpireIInv == ASSUME IInv, Expire PROVE IInv'
<1>1. PICK K \in SUBSET Store!Overdue : slot' = Store!Dropped(K)
  BY DEF Expire, Store!Purge
<1>2. K \subseteq Tx
  BY <1>1 DEF Store!Overdue
<1>3. \A t \in Tx : slot'[t] \in {slot[t], None}
  BY <1>1, <1>2, ForgetsOnly
<1>4. slot' \in [Tx -> Option(Tx)]
  BY <1>1, <1>2 DEF Store!Dropped, IInv, TypeOK, Option
<1>5. UNCHANGED <<clock, created, deadline, carried, received, known, worldVars, callVars>>
  BY DEF Expire, Store!Purge
<1>6. TypeOK'
  BY <1>4, <1>5 DEF IInv, TypeOK, worldVars, callVars
<1>7. Grows /\ \A d \in Call : StaysSound(d)
  BY <1>5 DEF Grows, StaysSound, Same, callVars, worldVars
<1>8. \A d \in Call, t \in Tx : Has(d, t)' => Has(d, t)
  BY <1>5 DEF Has
<1> QED BY <1>3, <1>5, <1>6, <1>7, <1>8, Assemble, PlaceKept, BornKept DEF worldVars

LEMMA BeginIInv == ASSUME IInv, NEW i \in Instance, NEW t \in Tx, Begin(i, t) PROVE IInv'
<1>1. /\ clock \in 0..MaxTime /\ offset[i] \in -MaxSkew..MaxSkew /\ MaxSkew \in Nat /\ MaxTime \in Nat
  BY Bounds DEF IInv, TypeOK
<1>2. [createdAt |-> Wall(i), bornAt |-> clock] \in PendingRequest
  BY <1>1 DEF Wall, PendingRequest
<1>3. TypeOK'
  BY <1>2 DEF Begin, IInv, TypeOK, Option, storeVars, callVars
<1>4. Grows /\ \A d \in Call : StaysSound(d)
  BY DEF Begin, Grows, StaysSound, Same, callVars, storeVars
<1>5. InOnePlace'
  BY DEF Begin, IInv, InOnePlace, Has, storeVars
<1>6. BornOK'
  <2>1. /\ pending'[t] = [createdAt |-> Wall(i), bornAt |-> clock] /\ t \notin created
        /\ \A u \in Tx \ {t} : pending'[u] = pending[u]
        /\ created' = created
    BY DEF Begin, IInv, TypeOK, BornOK, storeVars
  <2>2. pending'[t].createdAt - pending'[t].bornAt \in -MaxSkew..MaxSkew
    BY <1>1, <2>1 DEF Wall
  <2> QED BY <2>1, <2>2 DEF IInv, BornOK
<1> QED BY <1>3, <1>4, <1>5, <1>6, Assemble

LEMMA PutIInv == ASSUME IInv, NEW t \in Tx, Put(t) PROVE IInv'
<1>1. /\ pending[t] # None /\ t \notin created /\ slot'[t] = t
      /\ created' = created \cup {t}
      /\ UNCHANGED <<clock, carried, received, known, worldVars, callVars>>
  BY DEF Put, Store!Create
<1>2. PICK K \in SUBSET Store!Overdue, k \in Tx : slot' = [Store!Dropped(K) EXCEPT ![k] = t]
  BY DEF Put, Store!Create
<1>3. PICK i \in 0..(MaxTime + Ttl) : deadline' = [deadline EXCEPT ![t] = i]
  BY DEF Put, Store!Create
<1>4. Store!Dropped(K) \in [Tx -> Option(Tx)] /\ \A u \in Tx : Store!Dropped(K)[u] \in {slot[u], None}
  BY DEF Store!Dropped, IInv, TypeOK, Option
<1>5. slot' \in [Tx -> Option(Tx)] /\ slot'[k] = t
  BY <1>2, <1>4 DEF Option
<1>6. \A u \in Tx \ {k} : slot'[u] \in {slot[u], None}
  BY <1>2, <1>4
\* A value is stored nowhere before, so the key that now holds it is its own.
<1>7. k = t
  <2> SUFFICES ASSUME k # t PROVE FALSE
    OBVIOUS
  <2>1. slot'[t] = slot[t]
    BY <1>1, <1>6, NoneIsNothingElse
  <2> QED BY <1>1, <2>1, NoneIsNothingElse DEF IInv, InOnePlace
<1>8. TypeOK'
  <2>1. deadline' \in [Tx -> Option(0..(MaxTime + Ttl))]
    BY <1>3 DEF IInv, TypeOK, Option
  <2> QED BY <1>1, <1>5, <2>1 DEF IInv, TypeOK, worldVars, callVars
<1>9. Grows /\ \A d \in Call : StaysSound(d)
  BY <1>1 DEF Grows, StaysSound, Same, callVars, worldVars
<1>10. InOnePlace'
  <2>1. \A d \in Call, u \in Tx : Has(d, u)' <=> Has(d, u)
    BY <1>1 DEF Has
  <2>2. \A d \in Call, u \in Tx : Has(d, u) => u # t
    BY <1>1 DEF IInv, InOnePlace
  <2> QED BY <1>1, <1>6, <1>7, <2>1, <2>2 DEF IInv, InOnePlace
<1>11. BornOK'
  BY <1>1 DEF IInv, BornOK, worldVars
<1> QED BY <1>8, <1>9, <1>10, <1>11, Assemble

LEMMA AuthorizesIInv ==
  ASSUME IInv, NEW t \in Tx, NEW c \in Code, UserAuthorizes(t, c) PROVE IInv'
<1>1. TypeOK'
  BY DEF UserAuthorizes, IInv, TypeOK, Option, storeVars, callVars
<1>2. Grows /\ \A d \in Call : StaysSound(d)
  BY DEF UserAuthorizes, Grows, StaysSound, Same, callVars, storeVars, IInv, TypeOK
<1>3. InOnePlace' /\ BornOK'
  BY DEF UserAuthorizes, IInv, InOnePlace, Has, BornOK, storeVars
<1> QED BY <1>1, <1>2, <1>3, Assemble

-----------------------------------------------------------------------------
(* The steps of one completion.                                            *)

LEMMA CallStep ==
  ASSUME IInv, NEW d \in Call, TypeOK',
         created' = created, pending' = pending, issued' = issued,
         \A t \in Tx : slot'[t] \in {slot[t], None},
         \A e \in Call \ {d} : Same(e),
         \A t \in Tx : Has(d, t)' => Has(d, t),
         LocalOK(d)'
  PROVE  IInv'
<1>1. Grows
  BY DEF Grows
<1>2. \A e \in Call : StaysSound(e)
  BY DEF StaysSound
<1>3. \A e \in Call, t \in Tx : Has(e, t)' => Has(e, t)
  BY DEF Same, Has
<1> QED BY <1>1, <1>2, <1>3, Assemble, PlaceKept, BornKept

\* What Return does to the completion, and to no other.
LEMMA Returns ==
  ASSUME TypeOK, NEW d \in Call, NEW result \in Outcomes, Return(d, result)
  PROVE  /\ pc'[d] = "done" /\ outcome'[d] = result /\ outcome'[d] # None
         /\ response' = response
         /\ \A e \in Call \ {d} : /\ pc'[e] = pc[e] /\ outcome'[e] = outcome[e]
                                 /\ at'[e] = at[e] /\ lookup'[e] = lookup[e]
         /\ pc' \in [Call -> {"idle", "done"} \cup InFlight]
         /\ outcome' \in [Call -> Option(Outcomes)]
         /\ at' \in [Call -> Option(Instance)] /\ lookup' \in [Call -> Option(Tx)]
BY NoneIsNoResult DEF TypeOK, Return, Option

\* A completion that returns, and lets the store, what it sent and what it was
\* given alone, needs nothing but the reason.
LEMMA ReturnIInv ==
  ASSUME IInv, NEW d \in Call, NEW result \in Outcomes, Return(d, result),
         pc[d] # "idle", outcome[d] = None,
         known' \in [Instance -> 0..MaxVersion],
         \/ carried' = carried /\ carried[d] = None
         \/ carried' = [carried EXCEPT ![d] = None],
         UNCHANGED <<clock, worldVars, slot, created, deadline, received, sent, tokens>>,
         result = "provider error" => received[d] = response[d].state /\ sent[d] = None,
         result = "complete" => tokens[d] # None /\ tokens[d] = sent[d].tx
  PROVE  IInv'
<1>1. TypeOK /\ LocalOK(d)
  BY DEF IInv, LocalsOK
<1>2. UNCHANGED <<clock, offset, published, pending, issued, slot, created, deadline, received,
                  sent, tokens>>
  BY DEF worldVars
<1>3. /\ carried' \in [Call -> Option(Tx)] /\ carried'[d] = None
      /\ \A e \in Call \ {d} : carried'[e] = carried[e]
  BY <1>1 DEF TypeOK, Option
<1>4. TypeOK'
  <2>1. /\ pc' \in [Call -> {"idle", "done"} \cup InFlight]
        /\ outcome' \in [Call -> Option(Outcomes)]
        /\ at' \in [Call -> Option(Instance)] /\ lookup' \in [Call -> Option(Tx)]
        /\ response' = response
    BY <1>1, Returns
  <2> QED BY <1>1, <1>2, <1>3, <2>1 DEF TypeOK
<1>5. /\ pc'[d] = "done" /\ outcome'[d] = result /\ result # None /\ response' = response
      /\ \A e \in Call \ {d} : Same(e)
  BY <1>1, <1>2, <1>3, Returns DEF Same
<1>6. LocalOK(d)'
  <2>1. pc'[d] \notin InFlight
        /\ pc'[d] \notin {"idle", "taking", "refreshing", "exchanging", "verifying"}
    BY <1>5 DEF InFlight
  <2> QED BY <1>1, <1>2, <1>3, <1>5, <2>1 DEF LocalOK
<1>7. /\ \A t \in Tx : Has(d, t)' => Has(d, t)
      /\ \A t \in Tx : slot'[t] \in {slot[t], None}
  BY <1>2, <1>3, NoneIsNothingElse DEF Has
<1> QED BY <1>2, <1>4, <1>5, <1>6, <1>7, CallStep

LEMMA DeliverIInv ==
  ASSUME IInv, NEW d \in Call, NEW i \in Instance, Deliver(d, i) PROVE IInv'
<1>1. TypeOK /\ LocalOK(d)
  BY DEF IInv, LocalsOK
<1>2. PICK r \in Response, t \in Tx :
        /\ response' = [response EXCEPT ![d] = r]
        /\ lookup' = [lookup EXCEPT ![d] = t]
  BY DEF Deliver
<1>3. /\ at' = [at EXCEPT ![d] = i] /\ pc' = [pc EXCEPT ![d] = "taking"] /\ pc[d] = "idle"
      /\ UNCHANGED <<clock, known, offset, published, pending, issued, slot, created, deadline,
                     carried, received, sent, outcome, tokens>>
  BY DEF Deliver, worldVars, storeVars
<1>5. TypeOK'
  BY <1>1, <1>2, <1>3 DEF TypeOK, Option, InFlight
<1>6. /\ pc'[d] = "taking" /\ response'[d] = r /\ lookup'[d] = t /\ at'[d] = i
      /\ \A e \in Call \ {d} : Same(e)
  BY <1>1, <1>2, <1>3 DEF TypeOK, Same
<1>7. LocalOK(d)'
  <2>1. received[d] = None /\ carried[d] = None /\ sent[d] = None /\ outcome[d] = None
        /\ tokens[d] = None
    BY <1>1, <1>3 DEF LocalOK
  <2>2. /\ received'[d] = None /\ carried'[d] = None /\ sent'[d] = None /\ outcome'[d] = None
        /\ tokens'[d] = None
    BY <1>3, <2>1
  <2>3. response'[d] # None /\ at'[d] \in Instance /\ lookup'[d] \in Tx
    BY <1>6, NoneIsNoResult
  <2> QED BY <1>6, <2>2, <2>3, NoneIsNoResult, NoneIsNothingElse DEF LocalOK, Outcomes
<1> QED BY <1>3, <1>5, <1>6, <1>7, CallStep DEF Has

LEMMA TakeRemovesIInv ==
  ASSUME IInv, NEW d \in Call, TakeRemoves(d) PROVE IInv'
<1> DEFINE t == lookup[d]
<1>1. TypeOK /\ LocalOK(d) /\ InOnePlace
  BY DEF IInv, LocalsOK
<1>2. /\ pc[d] = "taking" /\ slot[t] # None /\ carried'[d] = t
      /\ carried[d] = None /\ received[d] = None
      /\ UNCHANGED <<clock, known, offset, published, pending, issued, created, deadline,
                     received, pc, at, response, lookup, sent, outcome, tokens>>
  BY DEF TakeRemoves, Consumed, Store!Remove, worldVars, callVars
<1>3. t \in Tx
  BY <1>1, <1>2 DEF LocalOK, InFlight, TypeOK
<1>4. PICK k \in Tx : /\ slot[k] # None
                      /\ carried' = [carried EXCEPT ![d] = slot[k]]
                      /\ slot' = [slot EXCEPT ![k] = None]
  BY DEF TakeRemoves, Consumed, Store!Remove
<1>5. k = t
  <2>1. slot[k] = k
    BY <1>1, <1>4 DEF InOnePlace
  <2>2. carried'[d] = slot[k]
    BY <1>1, <1>4 DEF TypeOK
  <2> QED BY <1>2, <2>1, <2>2
<1>6. slot[t] = t /\ t \in created
  BY <1>1, <1>2, <1>3 DEF InOnePlace
<1>7. /\ \A e \in Call \ {d} : carried'[e] = carried[e]
      /\ slot'[t] = None /\ \A u \in Tx \ {t} : slot'[u] = slot[u]
  BY <1>1, <1>3, <1>4, <1>5 DEF TypeOK
<1>8. TypeOK'
  <2>1. carried' \in [Call -> Option(Tx)] /\ slot' \in [Tx -> Option(Tx)]
    BY <1>1, <1>4 DEF TypeOK, Option
  <2> QED BY <1>1, <1>2, <2>1 DEF TypeOK
<1>9. LocalOK(d)'
  <2>1. sent[d] = None /\ tokens[d] = None
    BY <1>1, <1>2 DEF LocalOK
  <2> QED BY <1>1, <1>2, <2>1 DEF LocalOK
<1>10. Grows /\ \A e \in Call : StaysSound(e)
  BY <1>2, <1>7, <1>9 DEF Grows, StaysSound, Same
<1>11. InOnePlace'
  <2>1. \A e \in Call \ {d}, u \in Tx : Has(e, u)' <=> Has(e, u)
    BY <1>2, <1>7 DEF Has
  <2>2. \A u \in Tx : Has(d, u)' <=> u = t
    BY <1>2, NoneIsNothingElse DEF Has
  <2>3. \A e \in Call : ~Has(e, t)
    BY <1>1, <1>2, <1>3 DEF InOnePlace
  <2> QED BY <1>1, <1>2, <1>3, <1>6, <1>7, <2>1, <2>2, <2>3 DEF InOnePlace
<1> QED BY <1>2, <1>8, <1>10, <1>11, Assemble, BornKept

LEMMA TakeReturnsIInv ==
  ASSUME IInv, NEW d \in Call, TakeReturns(d) PROVE IInv'
<1>1. TypeOK /\ LocalOK(d)
  BY DEF IInv, LocalsOK
<1>2. /\ pc[d] = "taking" /\ pc' = [pc EXCEPT ![d] = "refreshing"] /\ carried[d] # None
      /\ received' = [received EXCEPT ![d] = carried[d]]
      /\ carried' = [carried EXCEPT ![d] = None]
      /\ UNCHANGED <<clock, known, offset, published, pending, issued, slot, created, deadline,
                     at, response, lookup, sent, outcome, tokens>>
  BY DEF TakeReturns, Store!Receive, worldVars
<1>3. TypeOK'
  BY <1>1, <1>2 DEF TypeOK, Option, InFlight
<1>4. /\ pc'[d] = "refreshing" /\ received'[d] = carried[d] /\ carried'[d] = None
      /\ \A e \in Call \ {d} : Same(e)
  BY <1>1, <1>2 DEF TypeOK, Same
<1>5. LocalOK(d)'
  <2>1. sent[d] = None /\ outcome[d] = None /\ tokens[d] = None
    BY <1>1, <1>2 DEF LocalOK
  <2> QED BY <1>1, <1>2, <1>4, <2>1, NoneIsNoResult DEF LocalOK, InFlight, Outcomes
<1>6. \A t \in Tx : Has(d, t)' => Has(d, t)
  BY <1>4, NoneIsNothingElse DEF Has
<1> QED BY <1>2, <1>3, <1>4, <1>5, <1>6, CallStep

\* A completion that has not returned has no result.
LEMMA NotReturned ==
  ASSUME IInv, NEW d \in Call, pc[d] \in InFlight
  PROVE  /\ pc[d] # "idle" /\ pc[d] # "done" /\ outcome[d] = None
         /\ TypeOK /\ LocalOK(d) /\ (pc[d] # "taking" => carried[d] = None)
         /\ known \in [Instance -> 0..MaxVersion]
BY DEF IInv, LocalsOK, LocalOK, InFlight, TypeOK

LEMMA TakeFindsNothingIInv ==
  ASSUME IInv, NEW d \in Call, TakeFindsNothing(d) PROVE IInv'
<1>1. pc[d] \in InFlight /\ "missing state" \in Outcomes
      /\ "missing state" \notin {"provider error", "complete"}
  BY DEF TakeFindsNothing, InFlight, Outcomes
<1>2. /\ Return(d, "missing state")
      /\ UNCHANGED <<clock, known, worldVars, slot, created, deadline, received, sent, tokens>>
      /\ \/ carried' = carried /\ carried[d] = None
         \/ carried' = [carried EXCEPT ![d] = None]
  BY DEF TakeFindsNothing, Store!Discard, storeVars
<1> QED BY <1>1, <1>2, NotReturned, ReturnIInv

LEMMA TakeFailsIInv ==
  ASSUME IInv, NEW d \in Call, TakeFails(d) PROVE IInv'
<1>1. pc[d] \in InFlight /\ "storage" \in Outcomes
      /\ "storage" \notin {"provider error", "complete"}
  BY DEF TakeFails, InFlight, Outcomes
<1> QED BY <1>1, NotReturned, ReturnIInv DEF TakeFails

LEMMA RefreshFailsIInv ==
  ASSUME IInv, NEW d \in Call, RefreshFails(d) PROVE IInv'
<1>1. /\ pc[d] \in InFlight /\ pc[d] # "taking"
      /\ "refresh" \in Outcomes /\ "refresh" \notin {"provider error", "complete"}
  BY DEF RefreshFails, InFlight, Outcomes
<1> QED BY <1>1, NotReturned, ReturnIInv DEF RefreshFails, storeVars

LEMMA ExchangeFailsIInv ==
  ASSUME IInv, NEW d \in Call, ExchangeFails(d) PROVE IInv'
<1>1. /\ pc[d] \in InFlight /\ pc[d] # "taking"
      /\ "token request" \in Outcomes /\ "token request" \notin {"provider error", "complete"}
  BY DEF ExchangeFails, InFlight, Outcomes
<1> QED BY <1>1, NotReturned, ReturnIInv DEF ExchangeFails, storeVars

\* What the provider gives for a code is of the login the code was issued for.
LEMMA ExchangedIInv ==
  ASSUME IInv, NEW d \in Call, Exchanged(d) PROVE IInv'
<1>1. TypeOK /\ LocalOK(d)
  BY DEF IInv, LocalsOK
<1>2. /\ pc[d] = "exchanging" /\ pc' = [pc EXCEPT ![d] = "verifying"]
      /\ issued[sent[d].code] # None
      /\ issued[sent[d].code] \in Challenged => issued[sent[d].code] = sent[d].tx
      /\ tokens' = [tokens EXCEPT ![d] = issued[sent[d].code]]
      /\ UNCHANGED <<clock, known, offset, published, pending, issued, slot, created, deadline,
                     carried, received, at, response, lookup, sent, outcome>>
  BY DEF Exchanged, ChallengeMet, worldVars, storeVars
<1>3. sent[d] # None /\ sent[d].code \in Code
  BY <1>1, <1>2 DEF LocalOK, TypeOK, Option, Request
<1>4. issued[sent[d].code] \in Tx
  BY <1>1, <1>2, <1>3 DEF TypeOK, Option
<1>5. TypeOK'
  <2>1. tokens' \in [Call -> Option(Tx)]
    BY <1>1, <1>2, <1>4 DEF TypeOK, Option
  <2>2. pc' \in [Call -> {"idle", "done"} \cup InFlight]
    BY <1>1, <1>2 DEF TypeOK, InFlight
  <2> QED BY <1>1, <1>2, <2>1, <2>2 DEF TypeOK
<1>6. /\ pc'[d] = "verifying" /\ tokens'[d] = issued[sent[d].code]
      /\ \A e \in Call \ {d} : Same(e)
  BY <1>1, <1>2 DEF TypeOK, Same
<1>7. LocalOK(d)'
  <2>1. received[d] # None /\ outcome[d] = None /\ carried[d] = None
        /\ at[d] \in Instance /\ lookup[d] \in Tx
    BY <1>1, <1>2 DEF LocalOK, InFlight
  <2> QED BY <1>1, <1>2, <1>3, <1>6, <2>1, NoneIsNoResult DEF LocalOK, InFlight, Outcomes
<1>8. \A t \in Tx : Has(d, t)' => Has(d, t)
  BY <1>2 DEF Has
<1> QED BY <1>2, <1>5, <1>6, <1>7, <1>8, CallStep

\* The nonce of the tokens is that of the request whose verifier was sent.
LEMMA VerifiesIInv ==
  ASSUME IInv, NEW d \in Call, Verifies(d) PROVE IInv'
<1>1. /\ pc[d] \in InFlight /\ pc[d] = "verifying" /\ tokens[d] = received[d]
      /\ "complete" \in Outcomes /\ "complete" # "provider error"
  BY DEF Verifies, NonceMatches, InFlight, Outcomes
<1>2. tokens[d] # None /\ tokens[d] = sent[d].tx
  BY <1>1 DEF IInv, LocalsOK, LocalOK
<1> QED BY <1>1, <1>2, NotReturned, ReturnIInv DEF Verifies, storeVars

LEMMA VerifyFailsIInv ==
  ASSUME IInv, NEW d \in Call, VerifyFails(d) PROVE IInv'
<1>1. /\ pc[d] \in InFlight /\ pc[d] # "taking"
      /\ "id token" \in Outcomes /\ "id token" \notin {"provider error", "complete"}
  BY DEF VerifyFails, InFlight, Outcomes
<1> QED BY <1>1, NotReturned, ReturnIInv DEF VerifyFails, storeVars

\* What the checks of a completion may say.
LEMMA AgeErrors == ASSUME NEW d PROVE AgeError(d) \in {"from future", "expired", None}
BY DEF AgeError

LEMMA IssuerErrors ==
  ASSUME NEW d, NEW v PROVE IssuerError(d, v) \in {"issuer mismatch", "missing iss", None}
BY DEF IssuerError

LEMMA Verdicts ==
  ASSUME NEW d, NEW v
  PROVE  /\ Verdict(d, v) # None => Verdict(d, v) \in Outcomes
         /\ Verdict(d, v) # "complete"
         /\ Verdict(d, v) = "provider error" => StateMatches(d) /\ IssuerError(d, v) = None
         /\ Verdict(d, v) = "expired" => AgeError(d) = "expired"
         /\ Verdict(d, v) = "from future" => AgeError(d) = "from future"
         /\ Verdict(d, v) = None => /\ StateMatches(d) /\ AgeError(d) = None
                                   /\ IssuerError(d, v) = None /\ ~IsError(d)
<1>1. AgeError(d) \in {"from future", "expired", None}
  BY AgeErrors
<1>2. IssuerError(d, v) \in {"issuer mismatch", "missing iss", None}
  BY IssuerErrors
<1>3. None \notin Outcomes
  BY NoneIsNoResult
<1> QED BY <1>1, <1>2, <1>3 DEF Verdict, Outcomes

LEMMA RefreshesType ==
  ASSUME IInv, NEW d \in Call, NEW v \in 0..MaxVersion, Refreshes(d, v)
  PROVE  known' \in [Instance -> 0..MaxVersion]
BY DEF IInv, TypeOK, Refreshes

LEMMA RefusesIInv ==
  ASSUME IInv, NEW d \in Call, Refuses(d) PROVE IInv'
<1>1. /\ pc[d] = "refreshing" /\ pc[d] \in InFlight /\ pc[d] # "taking"
  BY DEF Refuses, InFlight
<1>2. PICK v \in 0..MaxVersion : /\ Refreshes(d, v)
                                 /\ Verdict(d, v) # None
                                 /\ Return(d, Verdict(d, v))
  BY DEF Refuses
<1>3. Verdict(d, v) \in Outcomes /\ Verdict(d, v) # "complete"
  BY <1>2, Verdicts
<1>4. Verdict(d, v) = "provider error" => received[d] = response[d].state /\ sent[d] = None
  BY <1>1, Verdicts DEF StateMatches, IInv, LocalsOK, LocalOK
<1>5. known' \in [Instance -> 0..MaxVersion]
  BY <1>2, RefreshesType
<1> HIDE DEF Verdict
<1> QED BY <1>1, <1>2, <1>3, <1>4, <1>5, NotReturned, ReturnIInv DEF Refuses, storeVars

\* What is sent is what the callback brought, beside a pending request of its state.
LEMMA SendsFacts ==
  ASSUME IInv, NEW d \in Call, SendsRequest(d)
  PROVE  /\ received[d] = response[d].state /\ received[d] \in Tx
         /\ response[d].code \in Code
         /\ sent' = [sent EXCEPT ![d] = [code |-> response[d].code, tx |-> received[d]]]
<1>1. pc[d] = "refreshing" /\ pc[d] # "idle"
  BY DEF SendsRequest
<1>2. response[d] # None /\ received[d] # None
  BY <1>1 DEF IInv, LocalsOK, LocalOK
<1>3. PICK v \in 0..MaxVersion : Verdict(d, v) = None
  BY DEF SendsRequest
<1>4. StateMatches(d) /\ ~IsError(d)
  BY <1>3, Verdicts
<1>5. received[d] \in Tx /\ response[d] \in Response
  BY <1>2 DEF IInv, TypeOK, Option
<1>6. response[d].code # None /\ response[d].code \in Option(Code)
  BY <1>4, <1>5 DEF IsError, Response
<1> QED BY <1>4, <1>5, <1>6 DEF SendsRequest, StateMatches, Option

LEMMA SendsRequestIInv ==
  ASSUME IInv, NEW d \in Call, SendsRequest(d) PROVE IInv'
<1> DEFINE request == [code |-> response[d].code, tx |-> received[d]]
<1>1. TypeOK /\ LocalOK(d) /\ pc[d] = "refreshing"
  BY DEF IInv, LocalsOK, SendsRequest
<1>2. /\ received[d] = response[d].state /\ received[d] \in Tx
      /\ response[d].code \in Code
      /\ sent' = [sent EXCEPT ![d] = request]
  BY SendsFacts
<1>3. /\ request \in Request /\ request # None
      /\ request.code = response[d].code /\ request.tx = received[d]
  BY <1>2, NoneIsNoResult DEF Request
<1> HIDE DEF request
<1>4. known' \in [Instance -> 0..MaxVersion]
  BY RefreshesType DEF SendsRequest
<1>5. /\ pc' = [pc EXCEPT ![d] = "exchanging"]
      /\ UNCHANGED <<clock, offset, published, pending, issued, slot, created, deadline, carried,
                     received, at, response, lookup, outcome, tokens>>
  BY DEF SendsRequest, worldVars, storeVars
<1>6. TypeOK'
  <2>1. sent' \in [Call -> Option(Request)]
    BY <1>1, <1>2, <1>3 DEF TypeOK, Option
  <2>2. pc' \in [Call -> {"idle", "done"} \cup InFlight]
    BY <1>1, <1>5 DEF TypeOK, InFlight
  <2> QED BY <1>1, <1>4, <1>5, <2>1, <2>2 DEF TypeOK
<1>7. /\ pc'[d] = "exchanging" /\ sent'[d] = request
      /\ \A e \in Call \ {d} : Same(e)
  BY <1>1, <1>2, <1>5 DEF TypeOK, Same
<1>8. LocalOK(d)'
  <2>1. received[d] # None /\ outcome[d] = None /\ tokens[d] = None /\ carried[d] = None
    BY <1>1 DEF LocalOK
  <2> QED BY <1>1, <1>2, <1>3, <1>5, <1>7, <2>1, NoneIsNoResult DEF LocalOK, InFlight, Outcomes
<1>9. \A t \in Tx : Has(d, t)' => Has(d, t)
  BY <1>5 DEF Has
<1> QED BY <1>5, <1>6, <1>7, <1>8, <1>9, CallStep

\* Futures that are dropped take what they carry with them.
LEMMA DroppedIInv ==
  ASSUME IInv, NEW D, D \subseteq Call, Dropped(D), known' \in [Instance -> 0..MaxVersion]
  PROVE  IInv'
<1>1. TypeOK
  BY DEF IInv
<1>2. UNCHANGED <<clock, offset, published, pending, issued, slot, created, deadline, received,
                  response, sent, tokens>>
  BY DEF Dropped, worldVars
<1>3. TypeOK'
  <2>1. "dropped" \in Outcomes
    BY DEF Outcomes
  <2>2. /\ pc' \in [Call -> {"idle", "done"} \cup InFlight]
        /\ outcome' \in [Call -> Option(Outcomes)]
        /\ carried' \in [Call -> Option(Tx)]
    BY <1>1, <2>1 DEF Dropped, TypeOK, Option
  <2>3. /\ at' \in [Call -> Option(Instance)] /\ lookup' \in [Call -> Option(Tx)]
    BY <1>1 DEF Dropped, TypeOK, Option
  <2> QED BY <1>1, <1>2, <2>2, <2>3 DEF TypeOK
<1>4. \A d \in Call \ D : Same(d)
  BY <1>2 DEF Dropped, Same
<1>5. \A d \in D : LocalOK(d)'
  <2> SUFFICES ASSUME NEW d \in D PROVE LocalOK(d)'
    OBVIOUS
  <2>1. /\ pc[d] \in InFlight /\ pc'[d] = "done" /\ outcome'[d] = "dropped" /\ carried'[d] = None
    BY DEF Dropped
  <2>2. LocalOK(d)
    BY DEF IInv, LocalsOK
  <2>3. None # "dropped"
    BY NoneIsNoResult DEF Outcomes
  <2> QED BY <1>2, <2>1, <2>2, <2>3 DEF LocalOK, InFlight
<1>6. Grows /\ \A d \in Call : StaysSound(d)
  BY <1>2, <1>4, <1>5 DEF Grows, StaysSound
<1>7. \A d \in Call, t \in Tx : Has(d, t)' => Has(d, t)
  BY <1>2, NoneIsNothingElse DEF Has, Dropped
<1>8. \A t \in Tx : slot'[t] \in {slot[t], None}
  BY <1>2
<1> QED BY <1>2, <1>3, <1>6, <1>7, <1>8, Assemble, PlaceKept, BornKept

LEMMA CancelIInv == ASSUME IInv, NEW d \in Call, Cancel(d) PROVE IInv'
BY DroppedIInv DEF Cancel, IInv, TypeOK

LEMMA RestartIInv == ASSUME IInv, NEW i \in Instance, Restart(i) PROVE IInv'
<1>1. known' \in [Instance -> 0..MaxVersion]
  BY DEF Restart, IInv, TypeOK
<1> QED BY <1>1, DroppedIInv DEF Restart

LEMMA NextIInv == IInv /\ [Next]_vars => IInv'
<1> SUFFICES ASSUME IInv, [Next]_vars PROVE IInv'
  OBVIOUS
<1>0. ASSUME UNCHANGED vars PROVE IInv'
  <2>1. TypeOK'
    BY <1>0 DEF vars, worldVars, storeVars, callVars, IInv, TypeOK
  <2> QED BY <1>0, <2>1, WorldSteps DEF vars, worldVars, storeVars, callVars
<1>1. ASSUME NEW d \in Call, Progress(d) PROVE IInv'
  BY <1>1, TakeRemovesIInv, TakeReturnsIInv, TakeFindsNothingIInv, TakeFailsIInv,
     RefreshFailsIInv, RefusesIInv, SendsRequestIInv, ExchangedIInv, ExchangeFailsIInv,
     VerifiesIInv, VerifyFailsIInv
  DEF Progress
<1> QED
  BY <1>0, <1>1, TickIInv, UpdateIInv, ExpireIInv, AdjustIInv, RestartIInv, BeginIInv,
     DeliverIInv, PutIInv, AuthorizesIInv, CancelIInv
  DEF Next

-----------------------------------------------------------------------------
(* What follows.                                                           *)

THEOREM InvariantHolds == Spec => []IInv
BY InitIInv, NextIInv, PTL DEF Spec

\* The types of the variables hold.
THEOREM TypeCorrect == Spec => []TypeOK
<1>1. IInv => TypeOK
  BY DEF IInv
<1> QED BY <1>1, InvariantHolds, PTL

\* A completion that sent a request keeps its transaction for good.
LEMMA SentIsReceived ==
  ASSUME IInv, NEW d \in Call, sent[d] # None
  PROVE  /\ sent[d].tx \in Tx /\ sent[d].tx = received[d] /\ sent[d].tx = response[d].state
BY DEF IInv, TypeOK, Option, Request, LocalsOK, LocalOK

\* What a login is completed with is of one transaction, whatever was brought
\* beside its state, and a challenge keeps the tokens of its transaction from every
\* other.
THEOREM BoundAlways == Spec => []BoundToTransaction
<1>1. IInv => BoundToTransaction
  <2> SUFFICES ASSUME IInv, NEW d \in Call, tokens[d] \in Challenged \/ outcome[d] = "complete"
               PROVE  tokens[d] = received[d] /\ tokens[d] = response[d].state
    BY DEF BoundToTransaction
  <2>1. tokens[d] # None /\ sent[d] # None /\ tokens[d] = sent[d].tx
    BY ChallengedAreTx, NoneIsNothingElse DEF IInv, LocalsOK, LocalOK
  <2> QED BY <2>1, SentIsReceived
<1> QED BY <1>1, InvariantHolds, PTL

\* No verifier is sent twice, nor a code that comes back beside its own state, and
\* no code completes two logins.
THEOREM NoReplay == Spec => []ExchangedAtMostOnce
<1>1. IInv => ExchangedAtMostOnce
  <2> SUFFICES ASSUME IInv, NEW d \in Call, NEW e \in Call,
                      \/ sent[d] # None /\ sent[e] # None /\ sent[d].tx = sent[e].tx
                      \/ OwnCode(d) /\ OwnCode(e) /\ sent[d].code = sent[e].code
                      \/ outcome[d] = "complete" /\ outcome[e] = "complete" /\ tokens[d] = tokens[e]
               PROVE  d = e
    BY DEF ExchangedAtMostOnce
  <2>1. ASSUME NEW f \in Call, outcome[f] = "complete"
        PROVE  sent[f] # None /\ sent[f].tx = tokens[f]
    BY <2>1 DEF IInv, LocalsOK, LocalOK
  <2>2. sent[d] # None /\ sent[e] # None /\ sent[d].tx = sent[e].tx
    BY <2>1, SentIsReceived DEF OwnCode
  <2>3. Has(d, sent[d].tx) /\ Has(e, sent[d].tx) /\ sent[d].tx \in Tx
    BY <2>2, SentIsReceived DEF Has
  <2> QED BY <2>3 DEF IInv, InOnePlace
<1> QED BY <1>1, InvariantHolds, PTL

\* After a provider error, no token request is sent for that transaction.
THEOREM ErrorsAreFinal == Spec => []ErrorEndsTransaction
<1>1. IInv => ErrorEndsTransaction
  <2> SUFFICES ASSUME IInv, NEW d \in Call, NEW e \in Call, outcome[d] = "provider error",
                      sent[e] # None, sent[e].tx = response[d].state
               PROVE  FALSE
    BY DEF ErrorEndsTransaction
  <2>1. received[d] = response[d].state /\ sent[d] = None
    BY DEF IInv, LocalsOK, LocalOK
  <2>2. Has(d, sent[e].tx) /\ Has(e, sent[e].tx) /\ sent[e].tx \in Tx
    BY <2>1, SentIsReceived DEF Has
  <2> QED BY <2>1, <2>2 DEF IInv, InOnePlace
<1> QED BY <1>1, InvariantHolds, PTL

-----------------------------------------------------------------------------
(* Clocks and documents.                                                   *)

\* Only SendsRequest sends.
LEMMA Senders ==
  ASSUME TypeOK, [Next]_vars, NEW d \in Call, sent'[d] # sent[d]
  PROVE  SendsRequest(d)
<1>1. CASE sent' = sent
  BY <1>1
<1>2. CASE sent' # sent
  <2>1. PICK e \in Call : SendsRequest(e)
    BY <1>2 DEF Next, vars, Tick, ProviderUpdates, Expire, AdjustClock, Restart, Begin, Deliver,
       Put, UserAuthorizes, Progress, Cancel, Dropped, TakeRemoves, TakeReturns, TakeFindsNothing,
       TakeFails, RefreshFails, Refuses, Exchanged, ExchangeFails, Verifies, VerifyFails, callVars
  <2>2. \A f \in Call \ {e} : sent'[f] = sent[f]
    BY <2>1 DEF SendsRequest, TypeOK
  <2> QED BY <2>1, <2>2
<1> QED BY <1>1, <1>2

\* Only Refuses reports what the checks found.
LEMMA Refusers ==
  ASSUME TypeOK, [Next]_vars, NEW d \in Call, outcome'[d] # outcome[d],
         outcome'[d] \in {"expired", "from future", "provider error"}
  PROVE  Refuses(d)
<1>1. ASSUME NEW e \in Call, NEW result \in Outcomes, Return(e, result)
      PROVE  e = d /\ result \in {"expired", "from future", "provider error"}
  BY <1>1, Returns
<1>2. CASE outcome' = outcome
  BY <1>2
<1>3. CASE outcome' # outcome
  <2>1. ASSUME NEW e \in Call, TakeFindsNothing(e) \/ TakeFails(e) \/ RefreshFails(e)
                                \/ ExchangeFails(e) \/ Verifies(e) \/ VerifyFails(e)
        PROVE  FALSE
    <3>1. PICK result \in {"missing state", "storage", "refresh", "token request", "id token",
                           "complete"} : Return(e, result)
      BY <2>1 DEF TakeFindsNothing, TakeFails, RefreshFails, ExchangeFails, Verifies, VerifyFails
    <3>2. result \in Outcomes
      BY DEF Outcomes
    <3> QED BY <1>1, <3>1, <3>2
  <2>2. ASSUME NEW e \in Call, Refuses(e) PROVE e = d
    <3>1. PICK v \in 0..MaxVersion : Verdict(e, v) # None /\ Return(e, Verdict(e, v))
      BY <2>2 DEF Refuses
    <3> QED BY <1>1, <3>1, Verdicts
  <2>3. ASSUME NEW D, Dropped(D) PROVE FALSE
    BY <2>3 DEF Dropped
  <2> QED
    BY <1>3, <2>1, <2>2, <2>3 DEF Next, vars, Tick, ProviderUpdates, Expire, AdjustClock, Restart,
       Begin, Deliver, Put, UserAuthorizes, Progress, Cancel, TakeRemoves, TakeReturns,
       SendsRequest, Exchanged, callVars
<1> QED BY <1>2, <1>3

LEMMA NearlyLess ==
  ASSUME NEW a \in Int, NEW b \in Int, NEW m \in Int, NEW bound \in Int,
         a - 2 * m <= b, b <= a + 2 * m
  PROVE  /\ a < 0 => b < 2 * m
         /\ a > bound => b > bound - 2 * m
         /\ a <= bound => b <= bound + 2 * m
OBVIOUS

\* The age the code computes.
ClockAge(d) == Wall(at[d]) - pending[received[d]].createdAt

\* The age the code computes is off by no more than the skew of two clocks.
LEMMA AgeIsNearlyTrue ==
  ASSUME IInv, NEW d \in Call, pc[d] = "refreshing"
  PROVE  /\ ClockAge(d) \in Int /\ Age(d) \in Int /\ MaxSkew \in Nat /\ Ttl \in Nat
         /\ ClockAge(d) - 2 * MaxSkew <= Age(d) /\ Age(d) <= ClockAge(d) + 2 * MaxSkew
<1>1. at[d] \in Instance /\ received[d] \in Tx
  BY DEF IInv, LocalsOK, LocalOK, InFlight, TypeOK, Option
<1>2. /\ offset[at[d]] \in -MaxSkew..MaxSkew /\ clock \in 0..MaxTime
  BY <1>1 DEF IInv, TypeOK
<1>3. received[d] \in created
  BY <1>1 DEF IInv, InOnePlace, Has
<1>4. pending[received[d]] \in PendingRequest
  BY <1>1, <1>3 DEF IInv, BornOK, TypeOK, Option
<1>5. /\ pending[received[d]].createdAt \in Int /\ pending[received[d]].bornAt \in 0..MaxTime
      /\ pending[received[d]].createdAt - pending[received[d]].bornAt \in -MaxSkew..MaxSkew
  BY <1>1, <1>3, <1>4 DEF PendingRequest, IInv, BornOK
<1> QED BY <1>2, <1>5, Bounds, TtlIsNat DEF Wall, Age, ClockAge

LEMMA AgeErrorMeans ==
  ASSUME NEW d, ClockAge(d) \in Int
  PROVE  /\ AgeError(d) = "from future" => ClockAge(d) < 0
         /\ AgeError(d) = "expired" => ClockAge(d) > Ttl
         /\ AgeError(d) = None => ClockAge(d) <= Ttl
<1>1. None # "from future" /\ None # "expired"
  BY NoneIsNoResult DEF Outcomes
<1>2. AgeError(d) = IF ClockAge(d) < 0 THEN "from future"
                   ELSE IF ClockAge(d) > Ttl THEN "expired" ELSE None
  BY DEF AgeError, ClockAge
<1> DEFINE age == ClockAge(d)
<1> DEFINE error == AgeError(d)
<1>3. age \in Int /\ Ttl \in Int
  BY TtlIsNat
<1>4. error = IF age < 0 THEN "from future" ELSE IF age > Ttl THEN "expired" ELSE None
  BY <1>2
<1> SUFFICES /\ error = "from future" => age < 0
             /\ error = "expired" => age > Ttl
             /\ error = None => age <= Ttl
  OBVIOUS
<1> HIDE DEF age, error
<1>5. CASE age < 0
  BY <1>1, <1>3, <1>4, <1>5
<1>6. CASE ~(age < 0) /\ age > Ttl
  BY <1>1, <1>3, <1>4, <1>6
<1>7. CASE ~(age < 0) /\ ~(age > Ttl)
  <2>1. error = None
    BY <1>4, <1>7
  <2>2. age <= Ttl
    BY <1>3, <1>7
  <2> QED BY <1>1, <2>1, <2>2
<1> QED BY <1>5, <1>6, <1>7

\* When a token request is sent its transaction is current, give or take the skew.
THEOREM SentWhileCurrent == Spec => CurrentWhenSent
<1>1. ASSUME IInv, [Next]_vars, NEW d \in Call, sent'[d] # None, sent[d] = None
      PROVE  Age(d) <= Ttl + 2 * MaxSkew
  <2>1. SendsRequest(d)
    BY <1>1, Senders DEF IInv
  <2>2. pc[d] = "refreshing" /\ \E v \in 0..MaxVersion : Verdict(d, v) = None
    BY <2>1 DEF SendsRequest
  <2>3. AgeError(d) = None
    BY <2>2, Verdicts
  <2>4. /\ ClockAge(d) \in Int /\ Age(d) \in Int /\ MaxSkew \in Int /\ Ttl \in Int
        /\ Age(d) <= ClockAge(d) + 2 * MaxSkew
    BY <1>1, <2>2, AgeIsNearlyTrue
  <2>5. ClockAge(d) <= Ttl
    BY <2>3, <2>4, AgeErrorMeans
  <2> QED BY <2>4, <2>5
<1>2. IInv /\ [Next]_vars =>
        \A d \in Call : (sent'[d] # None /\ sent[d] = None) => Age(d) <= Ttl + 2 * MaxSkew
  BY <1>1
<1> QED BY <1>2, InvariantHolds, PTL DEF Spec, CurrentWhenSent

\* A transaction is refused as expired or from the future only within the skew of
\* a limit.
THEOREM AgeRefusalsAreJustified == Spec => RefusalsAreJustified
<1>1. ASSUME IInv, [Next]_vars, NEW d \in Call, outcome'[d] # outcome[d],
             outcome'[d] \in {"expired", "from future"}
      PROVE  /\ outcome'[d] = "expired" => Age(d) > Ttl - 2 * MaxSkew
             /\ outcome'[d] = "from future" => Age(d) < 2 * MaxSkew
  <2>1. Refuses(d)
    BY <1>1, Refusers DEF IInv
  <2>2. PICK v \in 0..MaxVersion : Verdict(d, v) # None /\ Return(d, Verdict(d, v))
    BY <2>1 DEF Refuses
  <2>3. outcome'[d] = Verdict(d, v) /\ pc[d] = "refreshing"
    BY <1>1, <2>1, <2>2, Verdicts, Returns DEF Refuses, IInv
  <2>4. AgeError(d) = outcome'[d]
    BY <1>1, <2>3, Verdicts
  <2>5. /\ ClockAge(d) \in Int /\ Age(d) \in Int /\ MaxSkew \in Nat /\ Ttl \in Nat
        /\ ClockAge(d) - 2 * MaxSkew <= Age(d) /\ Age(d) <= ClockAge(d) + 2 * MaxSkew
    BY <1>1, <2>3, AgeIsNearlyTrue
  <2>6. /\ outcome'[d] = "expired" => ClockAge(d) > Ttl
        /\ outcome'[d] = "from future" => ClockAge(d) < 0
    BY <2>4, <2>5, AgeErrorMeans
  <2>7. /\ ClockAge(d) < 0 => Age(d) < 2 * MaxSkew
        /\ ClockAge(d) > Ttl => Age(d) > Ttl - 2 * MaxSkew
    BY <2>5, NearlyLess
  <2> QED BY <2>6, <2>7
<1>2. IInv /\ [Next]_vars =>
        \A d \in Call : outcome'[d] # outcome[d] =>
          /\ outcome'[d] = "expired" => Age(d) > Ttl - 2 * MaxSkew
          /\ outcome'[d] = "from future" => Age(d) < 2 * MaxSkew
  BY <1>1
<1> QED BY <1>2, InvariantHolds, PTL DEF Spec, RefusalsAreJustified

\* Nothing without the expected iss passes an instance that knows of it.
THEOREM IssuerIsRequired == Spec => MissingIssuerRefused
<1> DEFINE Excused(d) == /\ response[d].iss = "absent"
                        /\ \E v \in known[at[d]]..published : ~Document[v].iss
<1>1. ASSUME IInv, [Next]_vars, NEW d \in Call, response[d] # None,
             response[d].iss # "expected",
             sent'[d] # sent[d] \/ (outcome'[d] # outcome[d] /\ outcome'[d] = "provider error")
      PROVE  Excused(d)
  <2>1. pc[d] = "refreshing" /\
        \E v \in 0..MaxVersion : Refreshes(d, v) /\ IssuerError(d, v) = None
    <3>1. CASE sent'[d] # sent[d]
      BY <1>1, <3>1, Senders, Verdicts DEF SendsRequest, IInv
    <3>2. CASE outcome'[d] # outcome[d] /\ outcome'[d] = "provider error"
      <4>1. Refuses(d)
        BY <1>1, <3>2, Refusers DEF IInv
      <4>2. PICK v \in 0..MaxVersion :
              Refreshes(d, v) /\ Verdict(d, v) # None /\ Return(d, Verdict(d, v))
        BY <4>1 DEF Refuses
      <4>3. Verdict(d, v) = "provider error"
        BY <1>1, <3>2, <4>2, Verdicts, Returns DEF IInv
      <4> QED BY <4>1, <4>2, <4>3, Verdicts DEF Refuses
    <3> QED BY <1>1, <3>1, <3>2
  <2>2. PICK v \in 0..MaxVersion : Refreshes(d, v) /\ IssuerError(d, v) = None
    BY <2>1
  <2>3. response[d] \in Response
    BY <1>1 DEF IInv, TypeOK, Option
  <2>4. response[d].iss \in {"other", "absent"}
    BY <1>1, <2>3, Issuers DEF Response
  <2>5. None # "issuer mismatch" /\ None # "missing iss"
    BY NoneIsNoResult DEF Outcomes
  <2>6. response[d].iss = "absent" /\ ~Document[v].iss
    BY <2>2, <2>4, <2>5 DEF IssuerError
  <2> QED BY <2>2, <2>6 DEF Refreshes
<1>2. IInv /\ [Next]_vars =>
        \A d \in Call :
          (/\ response[d] # None /\ response[d].iss # "expected"
           /\ \/ sent'[d] # sent[d]
              \/ outcome'[d] # outcome[d] /\ outcome'[d] = "provider error") =>
          /\ response[d].iss = "absent"
          /\ \E v \in known[at[d]]..published : ~Document[v].iss
  BY <1>1
<1> QED BY <1>2, InvariantHolds, PTL DEF Spec, MissingIssuerRefused

-----------------------------------------------------------------------------
(* Refinement.                                                             *)

LoggedIn(t) == \E d \in Call : SentFor(d, t) /\ outcome[d] = "complete"

\* A transaction that a step may still lead to a token request for.
Live(t) == slot[t] = t \/ \E d \in Call : MayStillSend(d, t)

\* What the phases and codes of the abstract flow say of the detailed one.
PhaseFacts ==
  /\ Phase \in [Tx -> {"unknown", "open", "exchanged", "logged in", "closed"}]
  /\ Used \in [Tx -> Code \cup {None}]
  /\ \A t \in Tx :
       /\ Phase[t] = IF LoggedIn(t) THEN "logged in"
                     ELSE IF \E d \in Call : SentFor(d, t) THEN "exchanged"
                     ELSE IF t \notin created THEN "unknown"
                     ELSE IF Live(t) THEN "open" ELSE "closed"
       /\ \A d \in Call : SentFor(d, t) => t \in created
       /\ (~\E d \in Call : SentFor(d, t)) => Used[t] = None
       /\ \A d \in Call : SentFor(d, t) => Used[t] = sent[d].code /\ Used[t] \in Code

LEMMA PhaseIs == IInv => PhaseFacts
<1> SUFFICES ASSUME IInv PROVE PhaseFacts
  OBVIOUS
<1>1. \A t \in Tx :
        Phase[t] = IF LoggedIn(t) THEN "logged in"
                   ELSE IF \E d \in Call : SentFor(d, t) THEN "exchanged"
                   ELSE IF t \notin created THEN "unknown"
                   ELSE IF Live(t) THEN "open" ELSE "closed"
  BY DEF Phase, LoggedIn, Live
<1>2. \A t \in Tx, d \in Call : SentFor(d, t) => t \in created
  BY SentIsReceived DEF SentFor, IInv, InOnePlace, Has
<1>3. \A t \in Tx :
        Used[t] = IF CodeSentFor(t) = {} THEN None ELSE CHOOSE c \in CodeSentFor(t) : TRUE
  BY DEF Used
<1>4. ASSUME NEW t \in Tx, ~\E d \in Call : SentFor(d, t) PROVE Used[t] = None
  <2>1. CodeSentFor(t) = {}
    BY <1>4 DEF CodeSentFor, SentFor
  <2> QED BY <1>3, <2>1
<1>5. ASSUME NEW t \in Tx, NEW d \in Call, SentFor(d, t)
      PROVE  Used[t] = sent[d].code /\ Used[t] \in Code
  <2>1. sent[d].code \in Code
    BY <1>5 DEF SentFor, IInv, TypeOK, Option, Request
  <2>2. \A e \in Call : SentFor(e, t) => e = d
    BY <1>5, SentIsReceived DEF SentFor, IInv, InOnePlace, Has
  <2>3. CodeSentFor(t) = {sent[d].code}
    BY <1>5, <2>1, <2>2 DEF CodeSentFor, SentFor
  <2> QED BY <1>3, <2>1, <2>3
<1>6. Phase \in [Tx -> {"unknown", "open", "exchanged", "logged in", "closed"}]
  BY DEF Phase
<1>7. Used \in [Tx -> Code \cup {None}]
  <2>1. \A t \in Tx : Used[t] \in Code \cup {None}
    BY <1>4, <1>5
  <2> QED BY <2>1 DEF Used
<1> QED BY <1>1, <1>2, <1>4, <1>5, <1>6, <1>7 DEF PhaseFacts

LEMMA PhaseIsNext == IInv' => PhaseFacts'
BY PhaseIs, PTL

\* The code of a transaction changes only with the requests sent for it.
LEMMA SameCode ==
  ASSUME IInv, IInv', NEW t \in Tx,
         \A d \in Call : SentFor(d, t)' <=> SentFor(d, t),
         \A d \in Call : SentFor(d, t) => sent'[d] = sent[d]
  PROVE  Used'[t] = Used[t]
<1>1. CASE \E d \in Call : SentFor(d, t)
  <2>1. PICK d \in Call : SentFor(d, t)
    BY <1>1
  <2>2. Used[t] = sent[d].code
    BY <2>1, PhaseIs DEF PhaseFacts
  <2>3. SentFor(d, t)' /\ sent'[d] = sent[d]
    BY <2>1
  <2>4. Used'[t] = sent'[d].code
    BY <2>3, PhaseIsNext DEF PhaseFacts
  <2> QED BY <2>2, <2>3, <2>4
<1>2. CASE ~\E d \in Call : SentFor(d, t)
  <2>1. Used[t] = None
    BY <1>2, PhaseIs DEF PhaseFacts
  <2>2. ~\E d \in Call : SentFor(d, t)'
    BY <1>2
  <2>3. Used'[t] = None
    BY <2>2, PhaseIsNext DEF PhaseFacts
  <2> QED BY <2>1, <2>3
<1> QED BY <1>1, <1>2

LEMMA InitRefines == Init => Login!Init
<1> SUFFICES ASSUME Init PROVE Login!Init
  OBVIOUS
<1>1. /\ created = {} /\ sent = [d \in Call |-> None]
  BY DEF Init, Store!Init
<1>2. Phase = [t \in Tx |-> "unknown"]
  BY <1>1 DEF Phase, SentFor
<1>3. \A t \in Tx : CodeSentFor(t) = {}
  BY <1>1 DEF CodeSentFor, SentFor
<1>4. Used = [t \in Tx |-> None]
  BY <1>3 DEF Used
<1> QED BY <1>2, <1>4 DEF Login!Init, Init

\* A step that neither sends nor completes may open one transaction, and close any
\* number.
Quiet ==
  /\ sent' = sent /\ created \subseteq created'
  /\ \A d \in Call : outcome'[d] = "complete" <=> outcome[d] = "complete"
  /\ \A c \in Code : issued[c] # None => issued'[c] = issued[c]

LEMMA QuietStep ==
  ASSUME IInv, IInv', Quiet,
         \A t \in Tx : \/ t \notin created /\ Live(t)'
                       \/ (t \in created' <=> t \in created) /\ (Live(t)' => Live(t))
  PROVE  Login!Next
<1>1. \A t \in Tx, d \in Call : SentFor(d, t)' <=> SentFor(d, t)
  BY DEF SentFor, Quiet
<1>2. \A t \in Tx : LoggedIn(t)' <=> LoggedIn(t)
  BY <1>1 DEF LoggedIn, Quiet
<1>3. ASSUME NEW t \in Tx PROVE Login!Stays(t) \/ Login!Opens(t) \/ Login!Closes(t)
  <2>1. Used'[t] = Used[t]
    BY <1>1, SameCode DEF Quiet
  <2>2. CASE \E d \in Call : SentFor(d, t)
    BY <1>1, <1>2, <2>1, <2>2, PhaseIs, PhaseIsNext DEF PhaseFacts, Login!Stays
  <2>3. CASE ~\E d \in Call : SentFor(d, t)
    <3>1. Used'[t] = None
      BY <1>1, <2>3, PhaseIsNext DEF PhaseFacts
    <3>2. /\ Phase[t] = IF t \notin created THEN "unknown" ELSE IF Live(t) THEN "open" ELSE "closed"
          /\ Phase'[t] = IF t \notin created' THEN "unknown"
                         ELSE IF Live(t)' THEN "open" ELSE "closed"
      BY <1>1, <1>2, <2>3, PhaseIs, PhaseIsNext DEF PhaseFacts, LoggedIn
    <3>3. CASE t \notin created /\ Live(t)'
      BY <2>1, <3>1, <3>2, <3>3 DEF Login!Stays, Login!Opens
    <3>4. CASE (t \in created' <=> t \in created) /\ (Live(t)' => Live(t))
      BY <2>1, <3>1, <3>2, <3>4 DEF Login!Stays, Login!Closes
    <3> QED BY <3>3, <3>4
  <2> QED BY <2>2, <2>3
<1>4. ASSUME NEW t \in Tx PROVE ~Login!Exchanges(t)
  <2>1. Used'[t] = Used[t]
    BY <1>1, SameCode DEF Quiet
  <2>2. Phase[t] = "open" => Used[t] = None
    <3>1. CASE \E d \in Call : SentFor(d, t)
      BY <3>1, PhaseIs DEF PhaseFacts, LoggedIn
    <3>2. CASE ~\E d \in Call : SentFor(d, t)
      BY <3>2, PhaseIs DEF PhaseFacts
    <3> QED BY <3>1, <3>2
  <2> QED BY <2>1, <2>2, NoneIsNothingElse DEF Login!Exchanges
<1>5. ASSUME NEW t \in Tx PROVE ~Login!LogsIn(t)
  BY <1>2, PhaseIs, PhaseIsNext DEF PhaseFacts, Login!LogsIn
<1>6. issued' \in [Code -> Tx \cup {None}] /\ Login!Issued
  BY DEF IInv, TypeOK, Option, Quiet, Login!Issued
<1> QED BY <1>3, <1>4, <1>5, <1>6, PhaseIsNext DEF PhaseFacts, Login!Next

\* A step about one transaction.
LEMMA OneMoves ==
  ASSUME IInv, IInv', issued' = issued, NEW t \in Tx,
         Login!Exchanges(t) \/ Login!LogsIn(t),
         \A u \in Tx \ {t} : Login!Stays(u)
  PROVE  Login!Next
<1>1. \A u \in Tx \ {t} : ~Login!Exchanges(u) /\ ~Login!LogsIn(u)
  BY DEF Login!Stays, Login!Exchanges, Login!LogsIn
<1>2. \A u \in Tx : \/ Login!Stays(u) \/ Login!Opens(u) \/ Login!Exchanges(u) \/ Login!LogsIn(u)
                     \/ Login!Closes(u)
  OBVIOUS
<1>3. issued' \in [Code -> Tx \cup {None}] /\ Login!Issued
  BY DEF IInv, TypeOK, Option, Login!Issued
<1> QED BY <1>1, <1>2, <1>3, PhaseIsNext DEF PhaseFacts, Login!Next

\* Sending a token request exchanges one open transaction.
LEMMA SendsRefines ==
  ASSUME IInv, IInv', NEW d \in Call, SendsRequest(d)
  PROVE  Login!Next
<1>0. PICK t \in Tx : t = received[d]
  BY SendsFacts
<1>1. /\ pc[d] = "refreshing" /\ t \in Tx /\ response[d].code \in Code
      /\ sent' = [sent EXCEPT ![d] = [code |-> response[d].code, tx |-> t]]
      /\ received[d] = t
  BY <1>0, SendsFacts DEF SendsRequest
<1>2. /\ sent[d] = None /\ carried[d] = None /\ outcome[d] = None
  BY <1>1 DEF IInv, LocalsOK, LocalOK
<1>3. /\ sent'[d] = [code |-> response[d].code, tx |-> t] /\ sent'[d] # None
      /\ \A e \in Call \ {d} : sent'[e] = sent[e]
  <2>1. [code |-> response[d].code, tx |-> t] \in Request
    BY <1>1 DEF Request
  <2> QED BY <1>1, <2>1, NoneIsNoResult DEF IInv, TypeOK
<1>4. /\ pc' = [pc EXCEPT ![d] = "exchanging"]
      /\ UNCHANGED <<slot, created, carried, received, outcome, issued>>
  BY DEF SendsRequest, storeVars, worldVars
<1>5. t \in created
  BY <1>1 DEF IInv, InOnePlace, Has
<1>6. \A e \in Call : ~SentFor(e, t)
  BY <1>1, <1>2, SentIsReceived DEF SentFor, IInv, InOnePlace, Has
<1>7. SentFor(d, t)' /\ sent'[d].code = response[d].code
  BY <1>3, <1>4 DEF SentFor
<1>8. Login!Exchanges(t)
  <2>1. Live(t)
    BY <1>1 DEF Live, MayStillSend
  <2>2. ~LoggedIn(t) /\ ~LoggedIn(t)'
    <3>1. \A e \in Call \ {d} : ~SentFor(e, t)'
      BY <1>3, <1>6 DEF SentFor
    <3>2. outcome'[d] # "complete"
      BY <1>2, <1>4, NoneIsNoResult DEF Outcomes
    <3> QED BY <1>6, <3>1, <3>2 DEF LoggedIn
  <2>3. Phase[t] = "open" /\ Phase'[t] = "exchanged"
    BY <1>1, <1>5, <1>6, <1>7, <2>1, <2>2, PhaseIs, PhaseIsNext DEF PhaseFacts
  <2>4. Used'[t] = response[d].code
    BY <1>1, <1>7, PhaseIsNext DEF PhaseFacts
  <2> QED BY <1>1, <2>3, <2>4 DEF Login!Exchanges
<1>9. ASSUME NEW u \in Tx \ {t} PROVE Login!Stays(u)
  <2>1. \A e \in Call : SentFor(e, u)' <=> SentFor(e, u)
    BY <1>2, <1>3, <1>9 DEF SentFor
  <2>2. \A e \in Call : MayStillSend(e, u)' <=> MayStillSend(e, u)
    <3>1. ASSUME NEW e \in Call \ {d} PROVE MayStillSend(e, u)' <=> MayStillSend(e, u)
      BY <1>4 DEF MayStillSend, IInv, TypeOK
    <3>2. ~MayStillSend(d, u) /\ ~MayStillSend(d, u)'
      BY <1>1, <1>2, <1>4, NoneIsNothingElse DEF MayStillSend
    <3> QED BY <3>1, <3>2
  <2>3. (Live(u)' <=> Live(u)) /\ (LoggedIn(u)' <=> LoggedIn(u))
    BY <1>4, <2>1, <2>2 DEF Live, LoggedIn
  <2>4. Phase'[u] = Phase[u]
    BY <1>4, <2>1, <2>3, PhaseIs, PhaseIsNext DEF PhaseFacts
  <2>5. Used'[u] = Used[u]
    <3>1. \A e \in Call : SentFor(e, u) => sent'[e] = sent[e]
      BY <1>2, <1>3 DEF SentFor
    <3> QED BY <2>1, <3>1, SameCode
  <2> QED BY <2>4, <2>5 DEF Login!Stays
<1> QED BY <1>4, <1>8, <1>9, OneMoves

\* A nonce that matches logs in one transaction, whose own code was exchanged.
LEMMA VerifiesRefines ==
  ASSUME IInv, IInv', NEW d \in Call, Verifies(d)
  PROVE  Login!Next
<1>1. /\ pc[d] = "verifying" /\ pc' = [pc EXCEPT ![d] = "done"]
      /\ outcome' = [outcome EXCEPT ![d] = "complete"] /\ tokens[d] = received[d]
      /\ UNCHANGED <<slot, created, carried, received, sent, issued>>
  BY DEF Verifies, NonceMatches, Return, storeVars, worldVars
<1>2. /\ outcome[d] = None /\ sent[d] # None /\ carried[d] = None
      /\ tokens[d] = sent[d].tx /\ tokens[d] = issued[sent[d].code]
  BY <1>1 DEF IInv, LocalsOK, LocalOK
<1>3. PICK t \in Tx : t = sent[d].tx
  BY <1>2, SentIsReceived
<1>4. /\ outcome'[d] = "complete" /\ outcome[d] # "complete"
      /\ \A e \in Call \ {d} : outcome'[e] = outcome[e]
  BY <1>1, <1>2, NoneIsNoResult DEF IInv, TypeOK, Outcomes
<1>5. SentFor(d, t) /\ \A e \in Call : SentFor(e, t) => e = d
  <2>1. SentFor(d, t)
    BY <1>2, <1>3 DEF SentFor
  <2>2. \A e \in Call : SentFor(e, t) => received[e] = t
    BY SentIsReceived DEF SentFor
  <2>3. received[d] = t
    BY <2>1, <2>2
  <2> QED BY <2>1, <2>2, <2>3 DEF IInv, InOnePlace, Has
<1>6. \A e \in Call, u \in Tx : SentFor(e, u)' <=> SentFor(e, u)
  BY <1>1 DEF SentFor
<1>7. Login!LogsIn(t)
  <2>1. ~LoggedIn(t) /\ LoggedIn(t)'
    BY <1>4, <1>5, <1>6 DEF LoggedIn
  <2>2. Phase[t] = "exchanged" /\ Phase'[t] = "logged in"
    BY <1>5, <2>1, PhaseIs, PhaseIsNext DEF PhaseFacts
  <2>3. Used[t] = sent[d].code /\ Used'[t] = sent[d].code
    BY <1>1, <1>5, <1>6, PhaseIs, PhaseIsNext DEF PhaseFacts
  <2> QED BY <1>2, <1>3, <2>2, <2>3 DEF Login!LogsIn
<1>8. ASSUME NEW u \in Tx \ {t} PROVE Login!Stays(u)
  <2>1. ~SentFor(d, u)
    BY <1>3, <1>8 DEF SentFor
  <2>2. LoggedIn(u)' <=> LoggedIn(u)
    BY <1>4, <1>6, <2>1 DEF LoggedIn
  <2>3. Live(u)' <=> Live(u)
    BY <1>1 DEF Live, MayStillSend, IInv, TypeOK
  <2>4. Phase'[u] = Phase[u]
    BY <1>1, <1>6, <2>2, <2>3, PhaseIs, PhaseIsNext DEF PhaseFacts
  <2>5. Used'[u] = Used[u]
    BY <1>1, <1>6, SameCode
  <2> QED BY <2>4, <2>5 DEF Login!Stays
<1> QED BY <1>1, <1>7, <1>8, OneMoves

\* A step that moves no transaction closer to a token request.
LEMMA SettledStep ==
  ASSUME IInv, IInv', Quiet, created' = created,
         \A t \in Tx : slot'[t] \in {slot[t], None},
         \A d \in Call, t \in Tx : MayStillSend(d, t)' => MayStillSend(d, t) \/ slot[t] = t
  PROVE  Login!Next
<1>1. \A t \in Tx : Live(t)' => Live(t)
  BY NoneIsNothingElse DEF Live
<1> QED BY <1>1, QuietStep

\* Steps at which no completion changes its place.
LEMMA WorldRefines ==
  ASSUME IInv, IInv', Quiet, UNCHANGED <<created, pc, carried, received>>,
         \A t \in Tx : slot'[t] \in {slot[t], None}
  PROVE  Login!Next
BY SettledStep DEF MayStillSend

LEMMA StepRefines ==
  ASSUME IInv, IInv', Next
  PROVE  Login!Next
<1> USE DEF worldVars, storeVars, callVars, Quiet
<1>1. CASE Tick
  BY <1>1, WorldRefines DEF Tick, Store!Tick
<1>2. CASE ProviderUpdates
  BY <1>2, WorldRefines DEF ProviderUpdates
<1>3. CASE Expire
  <2>1. PICK K \in SUBSET Store!Overdue : slot' = Store!Dropped(K)
    BY <1>3 DEF Expire, Store!Purge
  <2>2. \A t \in Tx : slot'[t] \in {slot[t], None}
    BY <2>1, ForgetsOnly DEF Store!Overdue
  <2> QED BY <1>3, <2>2, WorldRefines DEF Expire, Store!Purge
<1>4. ASSUME NEW i \in Instance, AdjustClock(i) PROVE Login!Next
  BY <1>4, WorldRefines DEF AdjustClock
<1>5. ASSUME NEW D, D \subseteq Call, Dropped(D) PROVE Login!Next
  <2>1. \A d \in Call, t \in Tx : MayStillSend(d, t)' => MayStillSend(d, t)
    BY <1>5, NoneIsNothingElse DEF Dropped, MayStillSend
  <2>2. \A d \in D : outcome[d] = None
    BY <1>5, NotReturned DEF Dropped
  <2>3. \A d \in Call : outcome'[d] = "complete" <=> outcome[d] = "complete"
    BY <1>5, <2>2, NoneIsNoResult DEF Dropped, Outcomes
  <2> QED BY <1>5, <2>1, <2>3, SettledStep DEF Dropped
<1>6. ASSUME NEW i \in Instance, NEW t \in Tx, Begin(i, t) PROVE Login!Next
  BY <1>6, WorldRefines DEF Begin
<1>7. ASSUME NEW t \in Tx, NEW c \in Code, UserAuthorizes(t, c) PROVE Login!Next
  BY <1>7, WorldRefines DEF UserAuthorizes, IInv, TypeOK
<1>8. ASSUME NEW d \in Call, NEW i \in Instance, Deliver(d, i) PROVE Login!Next
  <2>1. /\ pc[d] = "idle" /\ pc' = [pc EXCEPT ![d] = "taking"]
        /\ UNCHANGED <<slot, created, carried, received, sent, outcome, issued>>
    BY <1>8 DEF Deliver
  <2>2. carried[d] = None /\ received[d] = None
    BY <2>1 DEF IInv, LocalsOK, LocalOK
  <2>3. \A e \in Call, t \in Tx : MayStillSend(e, t)' => MayStillSend(e, t)
    BY <2>1, <2>2, NoneIsNothingElse DEF MayStillSend, IInv, TypeOK
  <2> QED BY <2>1, <2>3, SettledStep
<1>9. ASSUME NEW t \in Tx, Put(t) PROVE Login!Next
  <2>1. /\ t \notin created /\ slot'[t] = t /\ created' = created \cup {t}
        /\ UNCHANGED <<pc, sent, carried, received, outcome, issued>>
    BY <1>9 DEF Put, Store!Create
  <2>2. \A d \in Call, u \in Tx : MayStillSend(d, u)' <=> MayStillSend(d, u)
    BY <2>1 DEF MayStillSend
  <2>3. ASSUME NEW u \in Tx \ {t} PROVE slot'[u] = u => slot[u] = u
    <3>1. PICK K \in SUBSET Store!Overdue, k \in Tx : slot' = [Store!Dropped(K) EXCEPT ![k] = t]
      BY <1>9 DEF Put, Store!Create
    <3>2. Store!Dropped(K)[u] \in {slot[u], None} /\ Store!Dropped(K) = [v \in Tx |-> Store!Dropped(K)[v]]
      BY DEF Store!Dropped
    <3> QED BY <3>1, <3>2, NoneIsNothingElse
  <2>4. Live(t)' /\ \A u \in Tx \ {t} : Live(u)' => Live(u)
    BY <2>1, <2>2, <2>3 DEF Live
  <2> QED BY <2>1, <2>4, QuietStep
<1>10. ASSUME NEW d \in Call, Progress(d) PROVE Login!Next
  <2>1. CASE SendsRequest(d)
    BY <2>1, SendsRefines
  <2>2. CASE TakeRemoves(d)
    <3>1. /\ UNCHANGED <<pc, sent, created, received, outcome, issued>> /\ slot[lookup[d]] # None
          /\ pc[d] = "taking" /\ carried'[d] = lookup[d]
      BY <2>2 DEF TakeRemoves, Consumed, Store!Remove
    <3>2. PICK k \in Tx : /\ carried' = [carried EXCEPT ![d] = slot[k]]
                          /\ slot' = [slot EXCEPT ![k] = None]
      BY <2>2 DEF TakeRemoves, Consumed, Store!Remove
    <3>3. \A t \in Tx : slot'[t] \in {slot[t], None}
      BY <3>2 DEF IInv, TypeOK
    <3>4. lookup[d] \in Tx /\ slot[lookup[d]] = lookup[d]
      BY <3>1 DEF IInv, LocalsOK, LocalOK, InFlight, TypeOK, InOnePlace
    <3>5. \A e \in Call \ {d} : carried'[e] = carried[e]
      BY <3>2 DEF IInv, TypeOK
    <3>6. \A e \in Call, t \in Tx : MayStillSend(e, t)' => MayStillSend(e, t) \/ slot[t] = t
      BY <3>1, <3>4, <3>5 DEF MayStillSend
    <3> QED BY <3>1, <3>3, <3>6, SettledStep
  <2>3. CASE TakeReturns(d)
    <3>1. /\ UNCHANGED <<slot, created, sent, outcome, issued>> /\ pc[d] = "taking"
          /\ pc' = [pc EXCEPT ![d] = "refreshing"]
          /\ received' = [received EXCEPT ![d] = carried[d]]
          /\ carried' = [carried EXCEPT ![d] = None]
      BY <2>3 DEF TakeReturns, Store!Receive
    <3>2. \A e \in Call, t \in Tx : MayStillSend(e, t)' => MayStillSend(e, t)
      BY <3>1, NoneIsNothingElse DEF MayStillSend, IInv, TypeOK
    <3> QED BY <3>1, <3>2, SettledStep
  <2>4. ASSUME NEW result, Return(d, result), pc[d] \in InFlight, result # "complete",
               UNCHANGED <<slot, created, received, sent, issued>>,
               carried' = carried \/ carried' = [carried EXCEPT ![d] = None]
        PROVE  Login!Next
    <3>1. pc' = [pc EXCEPT ![d] = "done"]
      BY <2>4 DEF Return
    <3>2. \A e \in Call \ {d} : carried'[e] = carried[e]
      BY <2>4 DEF IInv, TypeOK
    <3>3. \A e \in Call, t \in Tx : MayStillSend(e, t)' => MayStillSend(e, t)
      BY <2>4, <3>1, <3>2 DEF MayStillSend, IInv, TypeOK
    <3>4. \A e \in Call : outcome'[e] = "complete" <=> outcome[e] = "complete"
      BY <2>4, NotReturned, NoneIsNoResult DEF Return, IInv, TypeOK, Outcomes
    <3> QED BY <2>4, <3>3, <3>4, SettledStep
  <2>5. CASE TakeFindsNothing(d)
    BY <2>4, <2>5 DEF TakeFindsNothing, Store!Discard, InFlight
  <2>6. CASE TakeFails(d)
    BY <2>4, <2>6 DEF TakeFails, InFlight
  <2>7. CASE RefreshFails(d)
    BY <2>4, <2>7 DEF RefreshFails, InFlight
  <2>8. CASE Refuses(d)
    <3>1. PICK v \in 0..MaxVersion : Return(d, Verdict(d, v))
      BY <2>8 DEF Refuses
    <3>2. Verdict(d, v) # "complete"
      BY Verdicts
    <3> QED BY <2>4, <2>8, <3>1, <3>2 DEF Refuses, InFlight
  <2>9. CASE Exchanged(d)
    <3>1. /\ UNCHANGED <<slot, created, received, carried, sent, outcome, issued>>
          /\ pc' = [pc EXCEPT ![d] = "verifying"]
      BY <2>9 DEF Exchanged
    <3>2. \A e \in Call, t \in Tx : MayStillSend(e, t)' => MayStillSend(e, t)
      BY <3>1 DEF MayStillSend, IInv, TypeOK
    <3> QED BY <3>1, <3>2, SettledStep
  <2>10. CASE ExchangeFails(d)
    BY <2>4, <2>10 DEF ExchangeFails, InFlight
  <2>11. CASE Verifies(d)
    BY <2>11, VerifiesRefines
  <2>12. CASE VerifyFails(d)
    BY <2>4, <2>12 DEF VerifyFails, InFlight
  <2> QED
    BY <1>10, <2>1, <2>2, <2>3, <2>5, <2>6, <2>7, <2>8, <2>9, <2>10, <2>11, <2>12 DEF Progress
<1>11. ASSUME NEW d \in Call, Cancel(d) PROVE Login!Next
  BY <1>5, <1>11 DEF Cancel
<1>12. ASSUME NEW i \in Instance, Restart(i) PROVE Login!Next
  BY <1>5, <1>12 DEF Restart
<1> QED
  BY <1>1, <1>2, <1>3, <1>4, <1>6, <1>7, <1>8, <1>9, <1>10, <1>11, <1>12 DEF Next

\* The flow keeps the promise of OneLogin, whatever is delivered twice or fails.
THEOREM Refinement == Spec => ImplementsOneLogin
<1>1. UNCHANGED vars => UNCHANGED Login!vars
  <2> SUFFICES ASSUME UNCHANGED vars PROVE UNCHANGED Login!vars
    OBVIOUS
  <2>1. UNCHANGED <<slot, created, pc, carried, received, sent, outcome, issued>>
    BY DEF vars, storeVars, callVars, worldVars
  <2>2. Phase' = Phase
    BY <2>1 DEF Phase, MayStillSend, SentFor
  <2>3. Used' = Used
    BY <2>1 DEF Used, CodeSentFor, SentFor
  <2> QED BY <2>1, <2>2, <2>3 DEF Login!vars
<1>2. IInv /\ IInv' /\ [Next]_vars => [Login!Next]_(Login!vars)
  BY <1>1, StepRefines
<1> QED BY <1>2, InitRefines, InvariantHolds, PTL DEF Spec, ImplementsOneLogin, Login!Spec
=============================================================================
