------------------------ MODULE QuotaRecoveryQueueProofs ------------------------
(***************************************************************************)
(* Proofs about QuotaRecoveryQueue, for any set of keys and tokens and any *)
(* lease, horizon, batch size and capacity.                                *)
(***************************************************************************)
EXTENDS QuotaRecoveryQueue, TLAPS

----------------------------------------------------------------------------
(* What the queue's operators preserve.                                    *)

\* A delay that a caller may ask for, and a lease, are delays an event may have.
LEMMA DelayType ==
    /\ \A d \in 0 .. Horizon : d \in 0 .. MaxDue
    /\ Lease \in 0 .. MaxDue
    /\ \A d \in 0 .. Horizon, n \in 0 .. MaxAttempts : Waiting(d, n) \in Item
    /\ \A n \in 0 .. MaxAttempts : NextAttempt(n) \in 0 .. MaxAttempts
    /\ 0 \in 0 .. Horizon /\ 0 \in 0 .. MaxAttempts
BY ConstantsAssumption DEF MaxDue, Waiting, Item, NextAttempt

\* A batch holds due events only.
LEMMA BatchesDue == \A q : \A S \in ClaimBatches(q) : S \subseteq DueKeys(q)
BY DEF ClaimBatches, BatchesOf

\* Putting an event into a queue and taking one out give a queue.
LEMMA PutType ==
    ASSUME NEW q, IsQueue(q), NEW k \in Keys, NEW item \in Item
    PROVE  /\ IsQueue(Put(q, k, item))
           /\ IsQueue(Without(q, k))
BY DEF IsQueue, Put, Without

\* Every method of the queue gives a queue.
LEMMA OperatorTypes ==
    ASSUME NEW q, IsQueue(q)
    PROVE  /\ \A k \in Keys, d \in 0 .. Horizon : IsQueue(Schedule(q, k, d))
           /\ \A k \in Keys : IsQueue(Ensure(q, k, 0))
           /\ \A k \in Keys : IsQueue(Cancel(q, k))
           /\ \A k \in Keys, t \in Tokens : IsQueue(Ack(q, k, t))
           /\ \A k \in Keys, t \in Tokens, d \in 0 .. Horizon, n \in 0 .. MaxAttempts :
                 IsQueue(Reschedule(q, k, t, d, n))
           /\ \A S \in SUBSET DueKeys(q) : \A tok \in [S -> Tokens] : IsQueue(Claim(q, S, tok))
           /\ IsQueue(Elapse(q))
<1>1. \A k \in Keys, d \in 0 .. Horizon : IsQueue(Schedule(q, k, d))
  BY DelayType, PutType DEF Schedule
<1>2. \A k \in Keys : IsQueue(Ensure(q, k, 0))
  BY DelayType, PutType DEF Ensure
<1>3. \A k \in Keys : IsQueue(Cancel(q, k))
  <2>1. Waiting(0, 0) \in Item
    BY DelayType
  <2> QED
    BY <2>1, PutType DEF Cancel
<1>4. \A k \in Keys, t \in Tokens : IsQueue(Ack(q, k, t))
  <2>1. Waiting(0, 0) \in Item
    BY DelayType
  <2> QED
    BY <2>1, PutType DEF Ack
<1>5. \A k \in Keys, t \in Tokens, d \in 0 .. Horizon, n \in 0 .. MaxAttempts :
         IsQueue(Reschedule(q, k, t, d, n))
  BY DelayType, PutType DEF Reschedule
<1>6. ASSUME NEW S \in SUBSET DueKeys(q), NEW tok \in [S -> Tokens]
      PROVE  IsQueue(Claim(q, S, tok))
  <2>1. DOMAIN Claim(q, S, tok) = DOMAIN q
    BY DEF Claim
  <2>2. \A x \in DOMAIN q : q[x] \in Item
    BY DEF IsQueue
  <2>3. ASSUME NEW x \in DOMAIN q PROVE Claim(q, S, tok)[x] \in Item
    <3>1. CASE x \in S
      <4>1. Claim(q, S, tok)[x] = Stamped(q[x], tok[x])
        BY <3>1 DEF Claim
      <4>2. tok[x] \in Tokens
        BY <3>1
      <4> QED
        BY <2>2, <4>1, <4>2, DelayType DEF Item, Stamped
    <3>2. CASE x \notin S
      BY <2>2, <3>2 DEF Claim
    <3> QED
      BY <3>1, <3>2
  <2> QED
    BY <2>1, <2>3 DEF IsQueue, Claim
<1>7. IsQueue(Elapse(q))
  <2>1. MaxDue \in Nat
    BY ConstantsAssumption DEF MaxDue
  <2> QED
    BY <2>1 DEF Elapse, IsQueue, Item
<1> QED
  BY <1>1, <1>2, <1>3, <1>4, <1>5, <1>6, <1>7

----------------------------------------------------------------------------
(* The state is well typed: the queue holds events of known keys whose     *)
(* delays and attempts stay in their ranges, and so do the claims.         *)
THEOREM TypeCorrect == Spec => []TypeOK
<1>1. Init => TypeOK
  BY DEF Init, TypeOK, IsQueue
<1>2. TypeOK /\ [Next]_vars => TypeOK'
  <2> SUFFICES ASSUME TypeOK, [Next]_vars PROVE TypeOK'
    OBVIOUS
  <2> USE DEF TypeOK
  <2>1. \A c \in claims : c.key \in Keys /\ c.token \in Tokens /\ NextAttempt(c.attempts) \in 0 .. MaxAttempts
    BY DelayType DEF ClaimRecord
  <2>2. ASSUME NEW k \in Keys, NEW d \in 0 .. Horizon, ScheduleQuotaRecovery(k, d)
        PROVE  TypeOK'
    BY <2>2, OperatorTypes DEF ScheduleQuotaRecovery
  <2>3. ASSUME NEW k \in Keys, EnsureQuotaRecovery(k) \/ CancelQuotaRecovery(k)
        PROVE  TypeOK'
    BY <2>3, OperatorTypes DEF EnsureQuotaRecovery, CancelQuotaRecovery
  <2>4. CASE ClaimDueQuotaRecoveries
    <3>0. PICK S \in ClaimBatches(items) : \E tok \in [S -> Tokens] :
             /\ items' = Claim(items, S, tok)
             /\ claims' = claims \cup
                  {[key |-> k, token |-> tok[k], attempts |-> items[k].attempts, lease |-> Lease] :
                     k \in S}
      BY <2>4 DEF ClaimDueQuotaRecoveries
    <3>1. PICK tok \in [S -> Tokens] :
             /\ items' = Claim(items, S, tok)
             /\ claims' = claims \cup
                  {[key |-> k, token |-> tok[k], attempts |-> items[k].attempts, lease |-> Lease] :
                     k \in S}
      BY <3>0
    <3>2. S \in SUBSET DueKeys(items)
      BY BatchesDue
    <3>3. \A k \in S : k \in Keys /\ tok[k] \in Tokens /\ items[k].attempts \in 0 .. MaxAttempts
      BY <3>2 DEF DueKeys, IsQueue, Item
    <3>4. claims' \subseteq ClaimRecord
      BY <3>1, <3>3, ConstantsAssumption DEF ClaimRecord
    <3> QED
      BY <3>1, <3>2, <3>4, OperatorTypes
  <2>5. CASE ClaimLost
    <3>0. PICK batch \in ClaimBatches(items) : \E S \in SUBSET batch : \E tok \in [S -> Tokens] :
             /\ \A k \in S : TokenFree(k, tok[k])
             /\ items' = Claim(items, S, tok)
             /\ claims' = claims
      BY <2>5 DEF ClaimLost
    <3>s. PICK S \in SUBSET batch : \E tok \in [S -> Tokens] :
             /\ \A k \in S : TokenFree(k, tok[k])
             /\ items' = Claim(items, S, tok)
             /\ claims' = claims
      BY <3>0
    <3>1. PICK tok \in [S -> Tokens] :
             items' = Claim(items, S, tok) /\ claims' = claims
      BY <3>s
    <3>2. S \in SUBSET DueKeys(items)
      BY BatchesDue
    <3> QED
      BY <3>1, <3>2, OperatorTypes
  <2>6. ASSUME NEW c \in claims, AckQuotaRecovery(c)
        PROVE  TypeOK'
    BY <2>1, <2>6, OperatorTypes DEF AckQuotaRecovery
  <2>7. ASSUME NEW c \in claims, NEW d \in 0 .. Horizon, RescheduleQuotaRecovery(c, d)
        PROVE  TypeOK'
    BY <2>1, <2>7, OperatorTypes DEF RescheduleQuotaRecovery
  <2>8. ASSUME NEW c \in claims, Abandon(c)
        PROVE  TypeOK'
    BY <2>8 DEF Abandon
  <2>9. CASE Tick
    <3>1. \A c \in claims : Aged(c) \in ClaimRecord
      BY ConstantsAssumption DEF Aged, ClaimRecord
    <3> QED
      BY <2>9, <3>1, OperatorTypes DEF Tick
  <2>10. CASE UNCHANGED vars
    BY <2>10 DEF vars
  <2> QED
    BY <2>2, <2>3, <2>4, <2>5, <2>6, <2>7, <2>8, <2>9, <2>10 DEF Next
<1> QED
  BY <1>1, <1>2, PTL DEF Spec

----------------------------------------------------------------------------
(* Ownership of claimed events.                                            *)

(* The inductive invariant: the claims own their events while their leases *)
(* run, and a token tells two claims of an event apart. The second part is *)
(* what lets the answer of one claim leave every other claim alone.        *)
Inv == TypeOK /\ LiveClaimOwnsEvent /\ TokensDistinct

\* What each method does to an event that another claim owns: nothing.
LEMMA OwnedEventKept ==
    ASSUME NEW q, NEW k, NEW t \in Tokens, HoldsClaim(q, k, t)
    PROVE  /\ \A x, d : HoldsClaim(Schedule(q, x, d), k, t) /\ Schedule(q, x, d)[k] = q[k]
           /\ \A x, d : HoldsClaim(Ensure(q, x, d), k, t) /\ Ensure(q, x, d)[k] = q[k]
           /\ \A x : HoldsClaim(Cancel(q, x), k, t) /\ Cancel(q, x)[k] = q[k]
           /\ \A x, u : x # k \/ u # t =>
                 HoldsClaim(Ack(q, x, u), k, t) /\ Ack(q, x, u)[k] = q[k]
           /\ \A x, u, d, n : x # k \/ u # t =>
                 HoldsClaim(Reschedule(q, x, u, d, n), k, t) /\ Reschedule(q, x, u, d, n)[k] = q[k]
<1> IsClaimed(q, k)
  BY ConstantsAssumption DEF IsClaimed, HoldsClaim
<1>1. ASSUME NEW x, NEW d
      PROVE  HoldsClaim(Schedule(q, x, d), k, t) /\ Schedule(q, x, d)[k] = q[k]
  BY DEF HoldsClaim, Schedule, IsClaimed, Put
<1>2. ASSUME NEW x, NEW d
      PROVE  HoldsClaim(Ensure(q, x, d), k, t) /\ Ensure(q, x, d)[k] = q[k]
  BY DEF HoldsClaim, Ensure, Put
<1>3. ASSUME NEW x
      PROVE  HoldsClaim(Cancel(q, x), k, t) /\ Cancel(q, x)[k] = q[k]
  BY DEF HoldsClaim, Cancel, IsClaimed, Without
<1>4. ASSUME NEW x, NEW u, x # k \/ u # t
      PROVE  HoldsClaim(Ack(q, x, u), k, t) /\ Ack(q, x, u)[k] = q[k]
  BY <1>4 DEF HoldsClaim, Ack, Without
<1>5. ASSUME NEW x, NEW u, NEW d, NEW n, x # k \/ u # t
      PROVE  HoldsClaim(Reschedule(q, x, u, d, n), k, t) /\ Reschedule(q, x, u, d, n)[k] = q[k]
  BY <1>5 DEF HoldsClaim, Reschedule, Put
<1> QED
  BY <1>1, <1>2, <1>3, <1>4, <1>5

\* Removing a claim keeps tokens distinct.
LEMMA TokensStayDistinct ==
    ASSUME TokensDistinct, claims' \subseteq claims PROVE TokensDistinct'
BY DEF TokensDistinct

(* Claiming a batch: the new claims own their events for a whole lease, and *)
(* the events of live claims were not due.                                  *)
LEMMA ClaimStep ==
    ASSUME Inv, NEW S \in SUBSET DueKeys(items), NEW tok \in [S -> Tokens],
           \A k \in S : TokenFree(k, tok[k]),
           items' = Claim(items, S, tok),
           \/ claims' = claims \cup
                {[key |-> k, token |-> tok[k], attempts |-> items[k].attempts, lease |-> Lease] :
                   k \in S}
           \/ claims' = claims
    PROVE  LiveClaimOwnsEvent' /\ TokensDistinct'
<1> DEFINE New(k) ==
      [key |-> k, token |-> tok[k], attempts |-> items[k].attempts, lease |-> Lease]
<1> USE DEF Inv
<1>1. \A c \in claims' : c \in claims \/ \E k \in S : c = New(k)
  OBVIOUS
<1>2. DOMAIN items' = DOMAIN items /\ S \subseteq DOMAIN items
  BY DEF Claim, DueKeys
<1>3. \A k \in DOMAIN items : items[k] \in Item
  BY DEF TypeOK, IsQueue
<1>4. ASSUME NEW c \in claims, c.lease > 0
      PROVE  c.key \in DOMAIN items /\ items'[c.key] = items[c.key]
  <2>1. c.key \in DOMAIN items /\ items[c.key].due > 0
    BY <1>4 DEF LiveClaimOwnsEvent
  <2>2. c.key \notin S
    BY <2>1 DEF DueKeys
  <2> QED
    BY <2>1, <2>2 DEF Claim
<1>5. ASSUME NEW k \in S
      PROVE  items'[k].token = New(k).token /\ items'[k].due = New(k).lease
  <2>1. items'[k] = Stamped(items[k], tok[k])
    BY <1>2 DEF Claim
  <2> QED
    BY <2>1 DEF Stamped
<1>6. LiveClaimOwnsEvent'
  <2> SUFFICES ASSUME NEW c \in claims', c.lease > 0
               PROVE  /\ c.key \in DOMAIN items'
                      /\ items'[c.key].token = c.token
                      /\ items'[c.key].due = c.lease
    BY DEF LiveClaimOwnsEvent
  <2>1. CASE c \in claims
    BY <1>2, <1>4, <2>1 DEF LiveClaimOwnsEvent
  <2>2. CASE \E k \in S : c = New(k)
    <3> PICK k \in S : c = New(k)
      BY <2>2
    <3> c.key = k /\ c.token = New(k).token /\ c.lease = New(k).lease
      OBVIOUS
    <3> QED
      BY <1>2, <1>5
  <2> QED
    BY <1>1, <2>1, <2>2
<1>7. TokensDistinct'
  <2> SUFFICES ASSUME NEW c1 \in claims', NEW c2 \in claims', c1.key = c2.key, c1.token = c2.token
               PROVE  c1 = c2
    BY DEF TokensDistinct
  <2>1. \A k \in S : New(k).key = k /\ New(k).token = tok[k]
    OBVIOUS
  <2>2. \A k \in S, c \in claims : ~ (c.key = k /\ c.token = tok[k])
    BY DEF TokenFree
  <2>3. CASE c1 \in claims /\ c2 \in claims
    BY <2>3 DEF TokensDistinct
  <2>4. CASE \E k \in S : c1 = New(k)
    BY <1>1, <2>1, <2>2, <2>4
  <2>5. CASE \E k \in S : c2 = New(k)
    BY <1>1, <2>1, <2>2, <2>5
  <2> QED
    BY <1>1, <2>3, <2>4, <2>5
<1> QED
  BY <1>6, <1>7

\* The invariant holds in every reachable state.
THEOREM Ownership == Spec => []Inv
<1>1. Init => Inv
  BY DEF Init, Inv, TypeOK, IsQueue, LiveClaimOwnsEvent, TokensDistinct
<1>2. Inv /\ TypeOK' /\ [Next]_vars => Inv'
  <2> SUFFICES ASSUME Inv, TypeOK', [Next]_vars
               PROVE  LiveClaimOwnsEvent' /\ TokensDistinct'
    BY DEF Inv
  <2> USE DEF Inv
  <2>0. \A c \in claims : c.lease > 0 =>
          c.token \in Tokens /\ HoldsClaim(items, c.key, c.token)
    BY DEF TypeOK, ClaimRecord, LiveClaimOwnsEvent, HoldsClaim
  <2>1. ASSUME NEW k \in Keys, NEW d \in 0 .. Horizon, ScheduleQuotaRecovery(k, d)
        PROVE  LiveClaimOwnsEvent' /\ TokensDistinct'
    BY <2>0, <2>1, OwnedEventKept, TokensStayDistinct
       DEF ScheduleQuotaRecovery, LiveClaimOwnsEvent, HoldsClaim
  <2>2. ASSUME NEW k \in Keys, EnsureQuotaRecovery(k)
        PROVE  LiveClaimOwnsEvent' /\ TokensDistinct'
    BY <2>0, <2>2, OwnedEventKept, TokensStayDistinct
       DEF EnsureQuotaRecovery, LiveClaimOwnsEvent, HoldsClaim
  <2>3. ASSUME NEW k \in Keys, CancelQuotaRecovery(k)
        PROVE  LiveClaimOwnsEvent' /\ TokensDistinct'
    BY <2>0, <2>3, OwnedEventKept, TokensStayDistinct
       DEF CancelQuotaRecovery, LiveClaimOwnsEvent, HoldsClaim
  <2>4. CASE ClaimDueQuotaRecoveries
    <3>1. PICK S \in ClaimBatches(items) : \E tok \in [S -> Tokens] :
             /\ \A k \in S : TokenFree(k, tok[k])
             /\ items' = Claim(items, S, tok)
             /\ claims' = claims \cup
                  {[key |-> k, token |-> tok[k], attempts |-> items[k].attempts, lease |-> Lease] :
                     k \in S}
      BY <2>4 DEF ClaimDueQuotaRecoveries
    <3>2. S \in SUBSET DueKeys(items)
      BY BatchesDue
    <3> QED
      BY <3>1, <3>2, ClaimStep
  <2>5. CASE ClaimLost
    <3>0. PICK batch \in ClaimBatches(items) : \E S \in SUBSET batch : \E tok \in [S -> Tokens] :
             /\ \A k \in S : TokenFree(k, tok[k])
             /\ items' = Claim(items, S, tok)
             /\ claims' = claims
      BY <2>5 DEF ClaimLost
    <3>s. PICK S \in SUBSET batch : \E tok \in [S -> Tokens] :
             /\ \A k \in S : TokenFree(k, tok[k])
             /\ items' = Claim(items, S, tok)
             /\ claims' = claims
      BY <3>0
    <3>1. PICK tok \in [S -> Tokens] :
             /\ \A k \in S : TokenFree(k, tok[k])
             /\ items' = Claim(items, S, tok)
             /\ claims' = claims
      BY <3>s
    <3>2. S \in SUBSET DueKeys(items)
      BY BatchesDue
    <3> QED
      BY <3>1, <3>2, ClaimStep
  <2>6. ASSUME NEW c \in claims, AckQuotaRecovery(c)
        PROVE  LiveClaimOwnsEvent' /\ TokensDistinct'
    <3>1. \A e \in claims' : e \in claims /\ (e.key # c.key \/ e.token # c.token)
      BY <2>6 DEF AckQuotaRecovery, TokensDistinct
    <3> QED
      BY <2>0, <2>6, <3>1, OwnedEventKept, TokensStayDistinct
         DEF AckQuotaRecovery, LiveClaimOwnsEvent, HoldsClaim
  <2>7. ASSUME NEW c \in claims, NEW d \in 0 .. Horizon, RescheduleQuotaRecovery(c, d)
        PROVE  LiveClaimOwnsEvent' /\ TokensDistinct'
    <3>1. \A e \in claims' : e \in claims /\ (e.key # c.key \/ e.token # c.token)
      BY <2>7 DEF RescheduleQuotaRecovery, TokensDistinct
    <3> QED
      BY <2>0, <2>7, <3>1, OwnedEventKept, TokensStayDistinct
         DEF RescheduleQuotaRecovery, LiveClaimOwnsEvent, HoldsClaim
  <2>8. ASSUME NEW c \in claims, Abandon(c)
        PROVE  LiveClaimOwnsEvent' /\ TokensDistinct'
    BY <2>8, TokensStayDistinct DEF Abandon, LiveClaimOwnsEvent
  <2>9. CASE Tick
    <3>1. \A c \in claims : /\ Aged(c).key = c.key /\ Aged(c).token = c.token
                            /\ Aged(c).lease = IF c.lease > 0 THEN c.lease - 1 ELSE 0
      BY DEF TypeOK, ClaimRecord, Aged
    <3>2. \A e \in claims' : \E c \in claims : e = Aged(c)
      BY <2>9 DEF Tick
    <3>3. TokensDistinct'
      BY <3>1, <3>2 DEF TokensDistinct
    <3>4. ASSUME NEW k \in DOMAIN items
          PROVE  /\ k \in DOMAIN items'
                 /\ items'[k].token = items[k].token
                 /\ items'[k].due = IF items[k].due > 0 THEN items[k].due - 1 ELSE 0
      BY <2>9 DEF Tick, Elapse, TypeOK, IsQueue, Item
    <3>5. ASSUME NEW e \in claims', e.lease > 0
          PROVE  /\ e.key \in DOMAIN items'
                 /\ items'[e.key].token = e.token
                 /\ items'[e.key].due = e.lease
      <4> PICK c \in claims : e = Aged(c)
        BY <3>2
      <4>1. c.lease \in Nat /\ c.lease > 0 /\ e.lease = c.lease - 1
        BY <3>1, <3>5, ConstantsAssumption DEF TypeOK, ClaimRecord
      <4>2. /\ c.key \in DOMAIN items
            /\ items[c.key].token = c.token
            /\ items[c.key].due = c.lease
        BY <4>1 DEF LiveClaimOwnsEvent
      <4> QED
        BY <3>1, <3>4, <4>1, <4>2
    <3> QED
      BY <3>3, <3>5 DEF LiveClaimOwnsEvent
  <2>10. CASE UNCHANGED vars
    BY <2>10 DEF vars, LiveClaimOwnsEvent, TokensDistinct
  <2> QED
    BY <2>1, <2>2, <2>3, <2>4, <2>5, <2>6, <2>7, <2>8, <2>9, <2>10 DEF Next
<1> QED
  BY <1>1, <1>2, TypeCorrect, PTL DEF Spec

(* A claim whose lease runs owns its event: refreshes, cancellations,      *)
(* other claims and stale answers left it in the queue as it was claimed.  *)
THEOREM LiveClaims == Spec => []LiveClaimOwnsEvent
<1>1. Inv => LiveClaimOwnsEvent
  BY DEF Inv
<1> QED
  BY <1>1, Ownership, PTL

(* No event is probed by two workers whose leases both run.                *)
THEOREM OneOwner == Spec => []OneLiveClaim
<1>1. Inv => OneLiveClaim
  BY DEF Inv, LiveClaimOwnsEvent, TokensDistinct, OneLiveClaim
<1> QED
  BY <1>1, Ownership, PTL

----------------------------------------------------------------------------
(* What a step may never do.                                               *)

\* A claim given up by this step without any claim of the same event and token left.
GivenUp(c) == c \notin claims' /\ \A d \in claims' : ~ (d.key = c.key /\ d.token = c.token)

(* The answer of a worker that lost its event changes nothing: only an     *)
(* Ack, a Reschedule or an Abandon gives a claim up, and the first two     *)
(* compare its token with the one in the queue.                            *)
THEOREM StaleAnswers == Spec => StaleAnswerInert
<1>1. Inv /\ [Next]_vars =>
        [\A c \in claims : GivenUp(c) /\ ~ HoldsClaim(items, c.key, c.token) => items' = items]_vars
  <2> SUFFICES ASSUME Inv, Next, NEW c \in claims, GivenUp(c), ~ HoldsClaim(items, c.key, c.token)
               PROVE  items' = items
    BY DEF vars
  <2>1. ASSUME claims \subseteq claims' PROVE FALSE
    BY <2>1 DEF GivenUp
  <2>2. CASE Tick
    <3>1. Aged(c) \in claims' /\ Aged(c).key = c.key /\ Aged(c).token = c.token
      BY <2>2 DEF Tick, Inv, TypeOK, ClaimRecord, Aged
    <3> QED
      BY <3>1 DEF GivenUp
  <2>3. ASSUME NEW e \in claims, AckQuotaRecovery(e) PROVE items' = items
    <3>1. c = e
      BY <2>3 DEF AckQuotaRecovery, GivenUp
    <3> QED
      BY <2>3, <3>1 DEF AckQuotaRecovery, Ack
  <2>4. ASSUME NEW e \in claims, NEW d \in 0 .. Horizon, RescheduleQuotaRecovery(e, d)
        PROVE  items' = items
    <3>1. c = e
      BY <2>4 DEF RescheduleQuotaRecovery, GivenUp
    <3> QED
      BY <2>4, <3>1 DEF RescheduleQuotaRecovery, Reschedule
  <2>5. ASSUME NEW e \in claims, Abandon(e) PROVE items' = items
    BY <2>5 DEF Abandon
  <2>6. ASSUME \/ \E k \in Keys, d \in 0 .. Horizon : ScheduleQuotaRecovery(k, d)
               \/ \E k \in Keys : EnsureQuotaRecovery(k)
               \/ \E k \in Keys : CancelQuotaRecovery(k)
               \/ ClaimDueQuotaRecoveries
               \/ ClaimLost
        PROVE  claims \subseteq claims'
    BY <2>6 DEF ScheduleQuotaRecovery, EnsureQuotaRecovery, CancelQuotaRecovery,
                ClaimDueQuotaRecoveries, ClaimLost
  <2> QED
    BY <2>1, <2>2, <2>3, <2>4, <2>5, <2>6 DEF Next
<1> QED
  BY <1>1, Ownership, PTL DEF Spec, StaleAnswerInert, GivenUp

(* A claimed event leaves the queue only by the answer of its owner.       *)
THEOREM OwnerRemoves == Spec => EventRemovedByOwner
<1>1. Inv /\ [Next]_vars =>
        [\A k \in DOMAIN items \ DOMAIN items' :
            IsClaimed(items, k) =>
              \E c \in claims \ claims' : c.key = k /\ c.token = items[k].token]_vars
  <2> SUFFICES ASSUME Inv, Next, NEW k \in DOMAIN items, k \notin DOMAIN items', IsClaimed(items, k)
               PROVE  \E c \in claims \ claims' : c.key = k /\ c.token = items[k].token
    BY DEF vars
  <2>1. HoldsClaim(items, k, items[k].token) /\ items[k].token \in Tokens
    BY DEF IsClaimed, HoldsClaim, Inv, TypeOK, IsQueue, Item
  <2>2. ASSUME NEW e \in claims, AckQuotaRecovery(e)
        PROVE  \E c \in claims \ claims' : c.key = k /\ c.token = items[k].token
    <3>1. e.key = k /\ e.token = items[k].token
      BY <2>1, <2>2, OwnedEventKept DEF AckQuotaRecovery, HoldsClaim
    <3> QED
      BY <2>2, <3>1 DEF AckQuotaRecovery
  <2>3. ASSUME NEW e \in claims, NEW d \in 0 .. Horizon, RescheduleQuotaRecovery(e, d) PROVE FALSE
    BY <2>3 DEF RescheduleQuotaRecovery, Reschedule, Put
  <2>4. CASE \E x \in Keys, d \in 0 .. Horizon : ScheduleQuotaRecovery(x, d)
    BY <2>1, <2>4, OwnedEventKept DEF ScheduleQuotaRecovery, HoldsClaim
  <2>5. CASE \E x \in Keys : EnsureQuotaRecovery(x)
    BY <2>1, <2>5, OwnedEventKept DEF EnsureQuotaRecovery, HoldsClaim
  <2>6. CASE \E x \in Keys : CancelQuotaRecovery(x)
    BY <2>1, <2>6, OwnedEventKept DEF CancelQuotaRecovery, HoldsClaim
  <2>7. CASE ClaimDueQuotaRecoveries \/ ClaimLost
    BY <2>7 DEF ClaimDueQuotaRecoveries, ClaimLost, Claim
  <2>8. CASE \E e \in claims : Abandon(e)
    BY <2>8 DEF Abandon
  <2>9. CASE Tick
    BY <2>9 DEF Tick, Elapse
  <2> QED
    BY <2>2, <2>3, <2>4, <2>5, <2>6, <2>7, <2>8, <2>9 DEF Next
<1> QED
  BY <1>1, Ownership, PTL DEF Spec, EventRemovedByOwner
=============================================================================
