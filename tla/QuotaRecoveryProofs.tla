---------------------------- MODULE QuotaRecoveryProofs ----------------------------
(***************************************************************************)
(* Proofs about the queue of the Redis store and about the service that    *)
(* recovers quota with a queue, for any constants. The Redis scripts       *)
(* implement the queue of QuotaRecoveryQueue, which is the refinement that *)
(* RefinesQueue states; the service keeps the database such that whatever  *)
(* its queue loses can be found again.                                     *)
(***************************************************************************)
EXTENDS QuotaRecovery, RedisQuotaRecoveryQueue, FiniteSetTheorems, TLAPS

\* Delays and attempt counters stay in their ranges.
LEMMA Ranges ==
    /\ MaxDue \in Nat
    /\ \A d \in 0 .. Horizon : d \in 0 .. MaxDue
    /\ Lease \in 0 .. MaxDue
    /\ 0 \in 0 .. MaxDue /\ 0 \in 0 .. MaxAttempts
    /\ \A n \in 0 .. MaxAttempts : NextAttempt(n) \in 0 .. MaxAttempts
    /\ \A d \in 0 .. MaxDue : d > 0 => d - 1 \in 0 .. MaxDue
BY ConstantsAssumption DEF MaxDue, NextAttempt

\* A hash or a sorted set with values in V.
IsField(f, V) == DOMAIN f \subseteq Keys /\ f \in [DOMAIN f -> V]

\* The three structures of the queue, typed and in agreement.
Agree(e, a, t) ==
    /\ IsField(e, 0 .. MaxDue)
    /\ IsField(a, 0 .. MaxAttempts)
    /\ IsField(t, Tokens)
    /\ DOMAIN a = DOMAIN e
    /\ DOMAIN t \subseteq DOMAIN e

\* The three ways a script writes an event: with its claim, without it, and away.
LEMMA EventSteps ==
    ASSUME NEW e, NEW a, NEW t, Agree(e, a, t), NEW k \in Keys
    PROVE  /\ Agree(Without(e, k), Without(a, k), Without(t, k))
           /\ \A d \in 0 .. MaxDue, n \in 0 .. MaxAttempts :
                 /\ Agree(Put(e, k, d), Put(a, k, n), Without(t, k))
                 /\ Agree(Put(e, k, d), Put(a, k, n), t)
<1>e. IsField(e, 0 .. MaxDue)
  BY DEF Agree
<1>a. IsField(a, 0 .. MaxAttempts)
  BY DEF Agree
<1>t. IsField(t, Tokens)
  BY DEF Agree
<1>d. DOMAIN a = DOMAIN e /\ DOMAIN t \subseteq DOMAIN e
  BY DEF Agree
<1>w. /\ IsField(Without(e, k), 0 .. MaxDue) /\ DOMAIN Without(e, k) = DOMAIN e \ {k}
      /\ IsField(Without(a, k), 0 .. MaxAttempts) /\ DOMAIN Without(a, k) = DOMAIN a \ {k}
      /\ IsField(Without(t, k), Tokens) /\ DOMAIN Without(t, k) = DOMAIN t \ {k}
  <2>1. IsField(Without(e, k), 0 .. MaxDue) /\ DOMAIN Without(e, k) = DOMAIN e \ {k}
    BY <1>e DEF IsField, Put, Without
  <2>2. IsField(Without(a, k), 0 .. MaxAttempts) /\ DOMAIN Without(a, k) = DOMAIN a \ {k}
    BY <1>a DEF IsField, Put, Without
  <2>3. IsField(Without(t, k), Tokens) /\ DOMAIN Without(t, k) = DOMAIN t \ {k}
    BY <1>t DEF IsField, Put, Without
  <2> QED
    BY <2>1, <2>2, <2>3
<1>1. Agree(Without(e, k), Without(a, k), Without(t, k))
  BY <1>w, <1>d DEF Agree
<1>2. ASSUME NEW d \in 0 .. MaxDue, NEW n \in 0 .. MaxAttempts
      PROVE  /\ Agree(Put(e, k, d), Put(a, k, n), Without(t, k))
             /\ Agree(Put(e, k, d), Put(a, k, n), t)
  <2>1. IsField(Put(e, k, d), 0 .. MaxDue) /\ DOMAIN Put(e, k, d) = DOMAIN e \cup {k}
    BY <1>e DEF IsField, Put, Without
  <2>2. IsField(Put(a, k, n), 0 .. MaxAttempts) /\ DOMAIN Put(a, k, n) = DOMAIN a \cup {k}
    BY <1>a DEF IsField, Put, Without
  <2> QED
    BY <1>t, <1>d, <1>w, <2>1, <2>2 DEF Agree
<1> QED
  BY <1>1, <1>2

----------------------------------------------------------------------------
\* Typing and agreement, the inductive invariant.
RedisInv == Agree(events, attempts, tokens) /\ claims \subseteq ClaimRecord

\* A batch holds due events only.
LEMMA BatchesDue == \A S \in Batches : S \subseteq DueEvents
BY DEF Batches, BatchesOf

\* Stamping a batch of due events with a token.
LEMMA StampAgrees ==
    ASSUME RedisInv, NEW S \in Batches, NEW t \in Tokens, Stamp(S, t)
    PROVE  Agree(events', attempts', tokens')
<1>1. S \subseteq DOMAIN events
  BY BatchesDue DEF DueEvents
<1>2. IsField(events', 0 .. MaxDue) /\ DOMAIN events' = DOMAIN events
  BY Ranges DEF RedisInv, Agree, Stamp, IsField
<1>3. IsField(tokens', Tokens) /\ DOMAIN tokens' = DOMAIN tokens \cup S
  BY <1>1 DEF RedisInv, Agree, Stamp, IsField
<1> QED
  BY <1>1, <1>2, <1>3 DEF RedisInv, Agree, Stamp

\* The invariant is inductive.
LEMMA RedisInvStep == RedisInv /\ [RedisNext]_redisVars => RedisInv'
<1> SUFFICES ASSUME RedisInv, [RedisNext]_redisVars
             PROVE  Agree(events', attempts', tokens') /\ claims' \subseteq ClaimRecord
  BY DEF RedisInv, Agree, IsField
<1> DEFINE Goal == Agree(events', attempts', tokens') /\ claims' \subseteq ClaimRecord
<1>a. Agree(events, attempts, tokens) /\ claims \subseteq ClaimRecord
  BY DEF RedisInv
<1>c. \A c \in claims : c.key \in Keys /\ c.token \in Tokens /\ NextAttempt(c.attempts) \in 0 .. MaxAttempts
  BY <1>a, Ranges DEF ClaimRecord
<1>1. ASSUME NEW k \in Keys, NEW d \in 0 .. Horizon, ScheduleQuotaRecovery(k, d) PROVE Goal
  BY <1>a, <1>1, EventSteps, Ranges DEF ScheduleQuotaRecovery
<1>2. ASSUME NEW k \in Keys, EnsureQuotaRecovery(k) PROVE Goal
  BY <1>a, <1>2, EventSteps, Ranges DEF EnsureQuotaRecovery
<1>3. ASSUME NEW k \in Keys, CancelQuotaRecovery(k) PROVE Goal
  BY <1>a, <1>3, EventSteps DEF CancelQuotaRecovery
<1>4. CASE ClaimDueQuotaRecoveries
  <2>1. PICK S \in Batches, t \in Tokens :
           /\ Stamp(S, t)
           /\ claims' = claims \cup
                {[key |-> k, token |-> t, attempts |-> AttemptsOf(k), lease |-> Lease] : k \in S}
    BY <1>4 DEF ClaimDueQuotaRecoveries
  <2>2. \A k \in S : k \in Keys /\ AttemptsOf(k) \in 0 .. MaxAttempts
    BY <1>a, Ranges, BatchesDue DEF DueEvents, AttemptsOf, Agree, IsField
  <2>3. claims' \subseteq ClaimRecord
    BY <1>a, <2>1, <2>2, ConstantsAssumption DEF ClaimRecord
  <2> QED
    BY <2>1, <2>3, StampAgrees
<1>5. CASE ClaimLost
  BY <1>a, <1>5, StampAgrees DEF ClaimLost
<1>6. ASSUME NEW c \in claims, AckQuotaRecovery(c) PROVE Goal
  BY <1>a, <1>c, <1>6, EventSteps DEF AckQuotaRecovery
<1>7. ASSUME NEW c \in claims, NEW d \in 0 .. Horizon, RescheduleQuotaRecovery(c, d) PROVE Goal
  BY <1>a, <1>c, <1>7, EventSteps, Ranges DEF RescheduleQuotaRecovery
<1>8. ASSUME NEW c \in claims, Abandon(c) PROVE Goal
  BY <1>a, <1>8 DEF Abandon
<1>9. CASE RedisTick
  <2>1. \A c \in claims : Aged(c) \in ClaimRecord
    BY <1>a, ConstantsAssumption DEF Aged, ClaimRecord
  <2>2. IsField(events', 0 .. MaxDue) /\ DOMAIN events' = DOMAIN events
    BY <1>a, <1>9, Ranges DEF RedisTick, Agree, IsField
  <2> QED
    BY <1>a, <1>9, <2>1, <2>2 DEF RedisTick, Agree
<1>10. CASE UNCHANGED redisVars
  BY <1>a, <1>10 DEF redisVars
<1> QED
  BY <1>1, <1>2, <1>3, <1>4, <1>5, <1>6, <1>7, <1>8, <1>9, <1>10 DEF RedisNext

\* The invariant holds in every reachable state.
THEOREM RedisInvariance == RedisSpec => []RedisInv
<1>1. RedisInit => RedisInv
  BY DEF RedisInit, RedisInv, Agree, IsField, Empty
<1> QED
  BY <1>1, RedisInvStep, PTL DEF RedisSpec

(* The state is well typed.                                                *)
THEOREM RedisTypeCorrect == RedisSpec => []RedisTypeOK
<1>1. RedisInv => RedisTypeOK
  BY DEF RedisInv, Agree, IsField, RedisTypeOK
<1> QED
  BY <1>1, RedisInvariance, PTL

(* The sorted set and the two hashes always describe the same events, so a *)
(* claim token never waits for an event that EnsureQuotaRecovery may add.  *)
THEOREM Consistent == RedisSpec => []StructuresAgree
<1>1. RedisInv => StructuresAgree
  BY DEF RedisInv, Agree, StructuresAgree
<1> QED
  BY <1>1, RedisInvariance, PTL

----------------------------------------------------------------------------
\* What the abstract queue sees of the three structures.
LEMMA ItemsView ==
    ASSUME RedisInv
    PROVE  /\ DOMAIN Items = DOMAIN events
           /\ \A x \in DOMAIN events :
                 Items[x] = [due |-> events[x],
                             attempts |-> attempts[x],
                             token |-> IF x \in DOMAIN tokens THEN tokens[x] ELSE NoToken]
           /\ \A x : IsClaimed(Items, x) <=> x \in DOMAIN tokens
           /\ \A x, t : t \in Tokens => (HoldsClaim(Items, x, t) <=> OwnedBy(x, t))
<1>1. DOMAIN Items = DOMAIN events
  BY DEF Items
<1>2. \A x \in DOMAIN events :
         Items[x] = [due |-> events[x],
                     attempts |-> attempts[x],
                     token |-> IF x \in DOMAIN tokens THEN tokens[x] ELSE NoToken]
  BY DEF Items, Event, AttemptsOf, RedisInv, Agree
<1>3. DOMAIN tokens \subseteq DOMAIN events /\ \A x \in DOMAIN tokens : tokens[x] \in Tokens
  BY DEF RedisInv, Agree, IsField
<1>4. \A x \in DOMAIN events :
         Items[x].token = IF x \in DOMAIN tokens THEN tokens[x] ELSE NoToken
  <2> SUFFICES ASSUME NEW x \in DOMAIN events
               PROVE  Items[x].token = IF x \in DOMAIN tokens THEN tokens[x] ELSE NoToken
    OBVIOUS
  <2> DEFINE owner == IF x \in DOMAIN tokens THEN tokens[x] ELSE NoToken
  <2>1. Items[x] = [due |-> events[x], attempts |-> attempts[x], token |-> owner]
    BY <1>2
  <2> HIDE DEF owner
  <2>2. Items[x].token = owner
    BY <2>1
  <2> QED
    BY <2>2 DEF owner
<1>5. \A x : IsClaimed(Items, x) <=> x \in DOMAIN tokens
  BY <1>1, <1>3, <1>4, ConstantsAssumption DEF IsClaimed
<1>6. \A x, t : t \in Tokens => (HoldsClaim(Items, x, t) <=> OwnedBy(x, t))
  BY <1>1, <1>3, <1>4, ConstantsAssumption DEF HoldsClaim, OwnedBy
<1> QED
  BY <1>1, <1>2, <1>5, <1>6

\* Writing an event without a claim is one Put.
LEMMA WriteView ==
    ASSUME RedisInv, NEW k \in Keys, NEW d, NEW n,
           events' = Put(events, k, d),
           attempts' = Put(attempts, k, n),
           tokens' = Without(tokens, k)
    PROVE  Items' = Put(Items, k, Waiting(d, n))
<1>1. DOMAIN events' = DOMAIN events \cup {k} /\ DOMAIN attempts' = DOMAIN events \cup {k}
      /\ DOMAIN tokens' = DOMAIN tokens \ {k}
  BY DEF Put, Without, RedisInv, Agree
<1>2. \A x \in DOMAIN events' : Event(x)' = IF x = k THEN Waiting(d, n) ELSE Items[x]
  <2>1. Event(k)' = Waiting(d, n)
    BY <1>1 DEF Event, AttemptsOf, Put, Waiting
  <2>2. ASSUME NEW x \in DOMAIN events, x # k PROVE Event(x)' = Items[x]
    <3>1. events'[x] = events[x] /\ attempts'[x] = attempts[x] /\ x \in DOMAIN attempts'
      BY <1>1, <2>2 DEF Put, RedisInv, Agree
    <3>2. (x \in DOMAIN tokens' <=> x \in DOMAIN tokens)
          /\ (x \in DOMAIN tokens => tokens'[x] = tokens[x])
      BY <1>1, <2>2 DEF Without
    <3> QED
      BY <3>1, <3>2, ItemsView DEF Event, AttemptsOf
  <2> QED
    BY <1>1, <2>1, <2>2
<1>3. Items' = [x \in DOMAIN events' |-> Event(x)']
  BY DEF Items
<1> QED
  BY <1>1, <1>2, <1>3, ItemsView DEF Put

\* Deleting an event from the three structures is one Without.
LEMMA DeleteView ==
    ASSUME RedisInv, NEW k \in Keys,
           events' = Without(events, k),
           attempts' = Without(attempts, k),
           tokens' = Without(tokens, k)
    PROVE  Items' = Without(Items, k)
<1>1. DOMAIN events' = DOMAIN events \ {k} /\ DOMAIN attempts' = DOMAIN events \ {k}
      /\ DOMAIN tokens' = DOMAIN tokens \ {k}
  BY DEF Without, RedisInv, Agree
<1>2. ASSUME NEW x \in DOMAIN events' PROVE Event(x)' = Items[x]
  <2>1. events'[x] = events[x] /\ attempts'[x] = attempts[x] /\ x \in DOMAIN attempts'
    BY <1>1, <1>2 DEF Without, RedisInv, Agree
  <2>2. (x \in DOMAIN tokens' <=> x \in DOMAIN tokens)
        /\ (x \in DOMAIN tokens => tokens'[x] = tokens[x])
    BY <1>1, <1>2 DEF Without
  <2> QED
    BY <1>1, <2>1, <2>2, ItemsView DEF Event, AttemptsOf
<1>3. Items' = [x \in DOMAIN events' |-> Event(x)']
  BY DEF Items
<1> QED
  BY <1>1, <1>2, <1>3, ItemsView DEF Without

\* Stamping a batch is one Claim in which every event gets the same token.
LEMMA StampView ==
    ASSUME RedisInv, NEW S \in Batches, NEW t \in Tokens, Stamp(S, t)
    PROVE  Items' = Claim(Items, S, [k \in S |-> t])
<1>1. DOMAIN events' = DOMAIN events /\ attempts' = attempts /\ S \subseteq DOMAIN events
      /\ DOMAIN tokens' = DOMAIN tokens \cup S
  BY BatchesDue DEF Stamp, DueEvents
<1>2. ASSUME NEW x \in DOMAIN events
      PROVE  Event(x)' = IF x \in S
                         THEN Stamped(Items[x], [k \in S |-> t][x])
                         ELSE Items[x]
  <2>1. x \in DOMAIN attempts
    BY DEF RedisInv, Agree
  <2>2. CASE x \in S
    <3>1. events'[x] = Lease /\ x \in DOMAIN tokens' /\ tokens'[x] = t
      BY <1>1, <2>2 DEF Stamp
    <3>2. Event(x)' = [due |-> Lease, attempts |-> attempts[x], token |-> t]
      BY <1>1, <2>1, <3>1 DEF Event, AttemptsOf
    <3> DEFINE owner == IF x \in DOMAIN tokens THEN tokens[x] ELSE NoToken
    <3>3. Items[x] = [due |-> events[x], attempts |-> attempts[x], token |-> owner]
      BY ItemsView
    <3> HIDE DEF owner
    <3>4. Items[x].attempts = attempts[x]
      BY <3>3
    <3> QED
      BY <2>2, <3>2, <3>4 DEF Stamped
  <2>3. CASE x \notin S
    <3>1. events'[x] = events[x] /\ (x \in DOMAIN tokens' <=> x \in DOMAIN tokens)
          /\ (x \in DOMAIN tokens => tokens'[x] = tokens[x])
      BY <1>1, <2>3 DEF Stamp
    <3> QED
      BY <1>1, <2>1, <2>3, <3>1, ItemsView DEF Event, AttemptsOf
  <2> QED
    BY <2>2, <2>3
<1>3. Items' = [x \in DOMAIN events' |-> Event(x)']
  BY DEF Items
<1> QED
  BY <1>1, <1>2, <1>3, ItemsView DEF Claim

----------------------------------------------------------------------------
\* The queue's operators, seen from the abstract module.
LEMMA SameTokens == ASSUME RedisInv, NEW k, NEW t \in Tokens, TokenUnused(k, t) PROVE Queue!TokenFree(k, t)
BY ItemsView DEF TokenUnused, Queue!TokenFree, Queue!HoldsClaim, HoldsClaim

LEMMA SameDue == ASSUME RedisInv PROVE Queue!DueKeys(Items) = DueEvents
<1>1. \A x \in DOMAIN events : Items[x].due = events[x]
  BY DEF Items, Event
<1> QED
  BY <1>1, ItemsView DEF Queue!DueKeys, DueEvents

LEMMA SameCardinality == \A S : Queue!Cardinality(S) = Cardinality(S)
BY Zenon DEF Queue!Cardinality, Cardinality

LEMMA SameBatches == ASSUME RedisInv PROVE Queue!ClaimBatches(Items) = Batches
<1>1. \A D : Queue!BatchesOf(D) = BatchesOf(D)
  BY SameCardinality DEF Queue!BatchesOf, BatchesOf
<1> QED
  BY <1>1, SameDue DEF Queue!ClaimBatches, Batches

LEMMA SameBounds ==
    /\ \A q : Queue!Full(q) <=> Full(q)
    /\ \A q, k : Queue!IsClaimed(q, k) <=> IsClaimed(q, k)
    /\ \A q, k, item : Queue!Put(q, k, item) = Put(q, k, item)
    /\ \A d, n : Queue!Waiting(d, n) = Waiting(d, n)
<1>1. \A q : Queue!Full(q) <=> Full(q)
  BY SameCardinality DEF Queue!Full, Full
<1>2. \A q, k : Queue!IsClaimed(q, k) <=> IsClaimed(q, k)
  BY DEF Queue!IsClaimed, IsClaimed
<1>3. \A q, k, item : Queue!Put(q, k, item) = Put(q, k, item)
  BY DEF Queue!Put, Put
<1>4. \A d, n : Queue!Waiting(d, n) = Waiting(d, n)
  BY DEF Queue!Waiting, Waiting
<1> QED
  BY <1>1, <1>2, <1>3, <1>4

\* Every script is a step of the queue, or leaves it as it is.
LEMMA StepRefines == RedisInv /\ [RedisNext]_redisVars => [Queue!Next]_(Queue!vars)
<1> SUFFICES ASSUME RedisInv, [RedisNext]_redisVars
             PROVE  Queue!Next \/ (Items' = Items /\ claims' = claims)
  BY DEF Queue!vars
<1> DEFINE Goal == Queue!Next \/ (Items' = Items /\ claims' = claims)
<1>s. ASSUME UNCHANGED <<events, attempts, tokens>> PROVE Items' = Items
  BY <1>s DEF Items, Event, AttemptsOf
<1>c. \A c \in claims : c.key \in Keys /\ c.token \in Tokens
  BY DEF RedisInv, ClaimRecord
<1>1. ASSUME NEW k \in Keys, NEW d \in 0 .. Horizon, ScheduleQuotaRecovery(k, d) PROVE Goal
  <2>1. Items' = Put(Items, k, Waiting(d, 0))
    BY <1>1, WriteView DEF ScheduleQuotaRecovery
  <2>2. ~ IsClaimed(Items, k) /\ (k \in DOMAIN Items \/ ~ Full(Items))
    BY <1>1, ItemsView DEF ScheduleQuotaRecovery, ZFull, Full
  <2>3. Items' = Queue!Schedule(Items, k, d)
    BY <2>1, <2>2, SameBounds, Zenon DEF Queue!Schedule
  <2>4. Queue!ScheduleQuotaRecovery(k, d)
    BY <1>1, <2>3 DEF Queue!ScheduleQuotaRecovery, ScheduleQuotaRecovery
  <2> QED
    BY <2>4 DEF Queue!Next
<1>2. ASSUME NEW k \in Keys, EnsureQuotaRecovery(k) PROVE Goal
  <2>1. tokens' = Without(tokens, k)
    <3>1. k \notin DOMAIN tokens /\ tokens \in [DOMAIN tokens -> Tokens]
      BY <1>2 DEF EnsureQuotaRecovery, RedisInv, Agree, IsField
    <3> QED
      BY <1>2, <3>1 DEF EnsureQuotaRecovery, Without
  <2>2. Items' = Put(Items, k, Waiting(0, 0))
    BY <1>2, <2>1, WriteView DEF EnsureQuotaRecovery
  <2>3. k \notin DOMAIN Items /\ ~ Full(Items)
    BY <1>2, ItemsView DEF EnsureQuotaRecovery, ZFull, Full
  <2>4. Items' = Queue!Ensure(Items, k, 0)
    BY <2>2, <2>3, SameBounds, Zenon DEF Queue!Ensure
  <2>5. Queue!EnsureQuotaRecovery(k)
    BY <1>2, <2>4 DEF Queue!EnsureQuotaRecovery, EnsureQuotaRecovery
  <2> QED
    BY <2>5 DEF Queue!Next
<1>3. ASSUME NEW k \in Keys, CancelQuotaRecovery(k) PROVE Goal
  <2>1. Items' = Without(Items, k)
    BY <1>3, DeleteView DEF CancelQuotaRecovery
  <2>2. ~ IsClaimed(Items, k)
    BY <1>3, ItemsView DEF CancelQuotaRecovery
  <2>3. Items' = Queue!Cancel(Items, k)
    BY <2>1, <2>2 DEF Queue!Cancel, Queue!IsClaimed, Queue!Without, IsClaimed, Without
  <2>4. Queue!CancelQuotaRecovery(k)
    BY <1>3, <2>3 DEF Queue!CancelQuotaRecovery, CancelQuotaRecovery
  <2> QED
    BY <2>4 DEF Queue!Next
<1>4. CASE ClaimDueQuotaRecoveries
  <2>1. PICK S \in Batches, t \in Tokens :
           /\ \A k \in S : TokenUnused(k, t)
           /\ Stamp(S, t)
           /\ claims' = claims \cup
                {[key |-> k, token |-> t, attempts |-> AttemptsOf(k), lease |-> Lease] : k \in S}
    BY <1>4 DEF ClaimDueQuotaRecoveries
  <2> DEFINE tok == [k \in S |-> t]
  <2>2. \A k \in S : k \in DOMAIN events /\ Items[k].attempts = AttemptsOf(k)
    BY BatchesDue DEF Items, Event, DueEvents
  <2>3. claims' = claims \cup
           {[key |-> k, token |-> tok[k], attempts |-> Items[k].attempts, lease |-> Lease] : k \in S}
    BY <2>1, <2>2
  <2>4. /\ S \in Queue!ClaimBatches(Items)
        /\ tok \in [S -> Tokens]
        /\ \A k \in S : Queue!TokenFree(k, tok[k])
        /\ Items' = Queue!Claim(Items, S, tok)
    <3>1. tok \in [S -> Tokens] /\ \A k \in S : tok[k] = t
      OBVIOUS
    <3>2. \A k \in S : Queue!TokenFree(k, t)
      BY <2>1, SameTokens
    <3>3. Items' = Claim(Items, S, tok)
      BY <2>1, StampView
    <3>4. Items' = Queue!Claim(Items, S, tok)
      BY <3>3 DEF Queue!Claim, Queue!Stamped, Claim, Stamped
    <3> QED
      BY <3>1, <3>2, <3>4, SameBatches
  <2> HIDE DEF tok
  <2>5. Queue!ClaimDueQuotaRecoveries
    BY <2>3, <2>4, Zenon DEF Queue!ClaimDueQuotaRecoveries
  <2> QED
    BY <2>5 DEF Queue!Next
<1>5. CASE ClaimLost
  <2>1. PICK S \in Batches, t \in Tokens :
           S # {} /\ (\A k \in S : TokenUnused(k, t)) /\ Stamp(S, t) /\ claims' = claims
    BY <1>5 DEF ClaimLost
  <2> DEFINE tok == [k \in S |-> t]
  <2>2. /\ S \in Queue!ClaimBatches(Items)
        /\ tok \in [S -> Tokens]
        /\ \A k \in S : Queue!TokenFree(k, tok[k])
        /\ Items' = Queue!Claim(Items, S, tok)
    <3>1. tok \in [S -> Tokens] /\ \A k \in S : tok[k] = t
      OBVIOUS
    <3>2. \A k \in S : Queue!TokenFree(k, t)
      BY <2>1, SameTokens
    <3>3. Items' = Claim(Items, S, tok)
      BY <2>1, StampView
    <3>4. Items' = Queue!Claim(Items, S, tok)
      BY <3>3 DEF Queue!Claim, Queue!Stamped, Claim, Stamped
    <3> QED
      BY <3>1, <3>2, <3>4, SameBatches
  <2> HIDE DEF tok
  <2>3. Queue!ClaimLost
    BY <2>1, <2>2, Zenon DEF Queue!ClaimLost
  <2> QED
    BY <2>3 DEF Queue!Next
<1>6. ASSUME NEW c \in claims, AckQuotaRecovery(c) PROVE Goal
  <2>1. CASE OwnedBy(c.key, c.token)
    <3>1. Items' = Without(Items, c.key)
      BY <1>6, <1>c, <2>1, DeleteView DEF AckQuotaRecovery
    <3>2. Items' = Queue!Ack(Items, c.key, c.token)
      BY <1>c, <2>1, <3>1, ItemsView DEF Queue!Ack, Queue!HoldsClaim, Queue!Without, HoldsClaim, Without
    <3> QED
      BY <1>6, <3>2 DEF Queue!Next, Queue!AckQuotaRecovery, AckQuotaRecovery
  <2>2. CASE ~ OwnedBy(c.key, c.token)
    <3>1. Items' = Items
      BY <1>6, <1>s, <2>2 DEF AckQuotaRecovery
    <3>2. Items' = Queue!Ack(Items, c.key, c.token)
      BY <1>c, <2>2, <3>1, ItemsView DEF Queue!Ack, Queue!HoldsClaim, HoldsClaim
    <3> QED
      BY <1>6, <3>2 DEF Queue!Next, Queue!AckQuotaRecovery, AckQuotaRecovery
  <2> QED
    BY <2>1, <2>2
<1>7. ASSUME NEW c \in claims, NEW d \in 0 .. Horizon, RescheduleQuotaRecovery(c, d) PROVE Goal
  <2> DEFINE n == NextAttempt(c.attempts)
  <2>n. n = Queue!NextAttempt(c.attempts)
    BY DEF NextAttempt, Queue!NextAttempt
  <2> HIDE DEF n
  <2>1. CASE OwnedBy(c.key, c.token)
    <3>1. Items' = Put(Items, c.key, Waiting(d, n))
      BY <1>7, <1>c, <2>1, WriteView DEF RescheduleQuotaRecovery, n
    <3>2. Items' = Queue!Reschedule(Items, c.key, c.token, d, n)
      BY <1>c, <2>1, <3>1, ItemsView
         DEF Queue!Reschedule, Queue!HoldsClaim, Queue!Put, Queue!Waiting, HoldsClaim, Put, Waiting
    <3>3. Queue!RescheduleQuotaRecovery(c, d)
      BY <1>7, <2>n, <3>2 DEF Queue!RescheduleQuotaRecovery, RescheduleQuotaRecovery
    <3> QED
      BY <3>3 DEF Queue!Next
  <2>2. CASE ~ OwnedBy(c.key, c.token)
    <3>1. Items' = Items
      BY <1>7, <1>s, <2>2 DEF RescheduleQuotaRecovery
    <3>2. Items' = Queue!Reschedule(Items, c.key, c.token, d, n)
      BY <1>c, <2>2, <3>1, ItemsView DEF Queue!Reschedule, Queue!HoldsClaim, HoldsClaim
    <3>3. Queue!RescheduleQuotaRecovery(c, d)
      BY <1>7, <2>n, <3>2 DEF Queue!RescheduleQuotaRecovery, RescheduleQuotaRecovery
    <3> QED
      BY <3>3 DEF Queue!Next
  <2> QED
    BY <2>1, <2>2
<1>8. ASSUME NEW c \in claims, Abandon(c) PROVE Goal
  BY <1>8, <1>s DEF Abandon, Queue!Abandon, Queue!Next
<1>9. CASE RedisTick
  <2>1. DOMAIN Items' = DOMAIN events /\ DOMAIN events' = DOMAIN events
        /\ attempts' = attempts /\ tokens' = tokens
    BY <1>9 DEF RedisTick, Items
  <2>2. ASSUME NEW x \in DOMAIN events
        PROVE  Items'[x] = [Items[x] EXCEPT !.due = IF Items[x].due > 0 THEN Items[x].due - 1 ELSE 0]
    <3> DEFINE owner == IF x \in DOMAIN tokens THEN tokens[x] ELSE NoToken
               left == IF events[x] > 0 THEN events[x] - 1 ELSE 0
    <3>1. Items[x] = [due |-> events[x], attempts |-> AttemptsOf(x), token |-> owner]
      BY DEF Items, Event
    <3>2. events'[x] = left
      BY <1>9 DEF RedisTick
    <3>3. Items'[x] = [due |-> left, attempts |-> AttemptsOf(x), token |-> owner]
      BY <2>1, <3>2 DEF Items, Event, AttemptsOf
    <3>4. Items[x].due = events[x]
      BY <3>1
    <3> HIDE DEF owner
    <3>5. [Items[x] EXCEPT !.due = left] = [due |-> left, attempts |-> AttemptsOf(x), token |-> owner]
      BY <3>1
    <3> QED
      BY <3>3, <3>4, <3>5
  <2>3. Items' = Queue!Elapse(Items)
    BY <2>1, <2>2, ItemsView DEF Queue!Elapse, Items
  <2>4. claims' = {Queue!Aged(c) : c \in claims}
    BY <1>9 DEF RedisTick, Aged, Queue!Aged
  <2> QED
    BY <2>3, <2>4 DEF Queue!Tick, Queue!Next
<1>10. CASE UNCHANGED redisVars
  BY <1>10, <1>s DEF redisVars
<1> QED
  BY <1>1, <1>2, <1>3, <1>4, <1>5, <1>6, <1>7, <1>8, <1>9, <1>10 DEF RedisNext

(* The Redis scripts implement the queue of the in-process store: every    *)
(* behaviour of the three structures is, through Items, one of its own.    *)
THEOREM Refinement == RedisSpec => RefinesQueue
<1>1. RedisInit => Queue!Init
  BY DEF RedisInit, Empty, Items, Queue!Init
<1> QED
  BY <1>1, StepRefines, RedisInvariance, PTL DEF RedisSpec, RefinesQueue, Queue!Spec

----------------------------------------------------------------------------
(* The recovery service. A Grok Web window always carries a reset time,    *)
(* and so does every snapshot of one that a probe or a refresh still has   *)
(* to save; an exhaustion that is saved has the reset it schedules.        *)
WebReset == \A k \in WebKeys : window[k].reset # NoReset \/ k \in blind

JobCarries(j) ==
    j.key \in WebKeys /\ j.stage \in {"fetched", "saved", "shared"} => j.seen.reset # NoReset

CallCarries(x) ==
    /\ x.op = "refresh" /\ x.stage \in {"fetched", "saved", "shared"} /\ x.key \in WebKeys =>
          x.seen.reset # NoReset
    /\ x.op = "exhaust" /\ x.stage = "saved" => x.seen.reset # NoReset

Carried ==
    /\ \A i \in Instances : \A j \in batch[i] : JobCarries(j)
    /\ \A c \in Callers : CallCarries(call[c])

Recoverable == TypeOK /\ WebReset /\ Carried

\* The methods of the queue that the service calls give a queue.
LEMMA QueueMethods ==
    ASSUME NEW q, IsQueue(q)
    PROVE  /\ \A k \in Keys, d \in 0 .. Horizon : IsQueue(Schedule(q, k, d))
           /\ \A k \in Keys : IsQueue(Ensure(q, k, 0))
           /\ \A k \in Keys : IsQueue(Cancel(q, k))
           /\ \A k \in Keys, t \in Tokens : IsQueue(Ack(q, k, t))
           /\ \A k \in Keys, t \in Tokens, d \in 0 .. Horizon, n \in 0 .. MaxAttempts :
                 IsQueue(Reschedule(q, k, t, d, n))
           /\ IsQueue(Elapse(q))
<1>i. \A d \in 0 .. Horizon, n \in 0 .. MaxAttempts : Waiting(d, n) \in Item
  BY Ranges DEF Waiting, Item
<1>z. 0 \in 0 .. Horizon /\ 0 \in 0 .. MaxAttempts
  BY ConstantsAssumption
<1>p. \A k \in Keys, item \in Item : IsQueue(Put(q, k, item)) /\ IsQueue(Without(q, k))
  BY DEF IsQueue, Put, Without
<1>w. \A k \in Keys : IsQueue(Without(q, k))
  BY DEF IsQueue, Without
<1>1. \A k \in Keys, d \in 0 .. Horizon : IsQueue(Schedule(q, k, d))
  BY <1>i, <1>z, <1>p DEF Schedule
<1>2. \A k \in Keys : IsQueue(Ensure(q, k, 0))
  BY <1>i, <1>z, <1>p DEF Ensure
<1>3. \A k \in Keys : IsQueue(Cancel(q, k))
  BY <1>w DEF Cancel
<1>4. \A k \in Keys, t \in Tokens : IsQueue(Ack(q, k, t))
  BY <1>w DEF Ack
<1>5. \A k \in Keys, t \in Tokens, d \in 0 .. Horizon, n \in 0 .. MaxAttempts : IsQueue(Reschedule(q, k, t, d, n))
  BY <1>i, <1>p DEF Reschedule
<1>6. IsQueue(Elapse(q))
  BY Ranges DEF Elapse, IsQueue, Item
<1> QED
  BY <1>1, <1>2, <1>3, <1>4, <1>5, <1>6

\* A claimed batch: its events are due events of known keys, and the queue stays one.
LEMMA ClaimedBatch ==
    ASSUME NEW q, IsQueue(q), NEW S \in ClaimBatches(q), NEW tok \in [S -> Tokens]
    PROVE  /\ \A k \in S : k \in Keys /\ k \in DOMAIN q /\ q[k].attempts \in 0 .. MaxAttempts
           /\ IsQueue(Claim(q, S, tok))
<1>1. S \subseteq DOMAIN q
  BY DEF ClaimBatches, BatchesOf, DueKeys
<1>2. \A x \in DOMAIN q : q[x] \in Item
  BY DEF IsQueue
<1>3. \A x \in DOMAIN q : x \in S => Stamped(q[x], tok[x]) \in Item
  BY <1>2, Ranges DEF Item, Stamped
<1>4. IsQueue(Claim(q, S, tok))
  BY <1>2, <1>3 DEF Claim, IsQueue
<1> QED
  BY <1>1, <1>2, <1>4 DEF IsQueue, Item

\* What a window, a snapshot and a delay may be.
LEMMA Windows ==
    /\ NoWindow \in Window
    /\ \A w \in Window : /\ DueIn(w) \in 1 .. Horizon
                         /\ Closer(w) \in Window
                         /\ w.reset # NoReset <=> Closer(w).reset # NoReset
                         /\ w.left = Closer(w).left
    /\ \A l \in BOOLEAN, d \in NoReset .. Horizon : [left |-> l, reset |-> d] \in Window
BY RecoveryAssumption, ConstantsAssumption DEF NoWindow, Window, DueIn, Closer, NoReset

LEMMA Snapshots ==
    ASSUME TypeOK, NEW k \in Keys
    PROVE  Snapshot(k) \in Window /\ (k \in WebKeys => Snapshot(k).reset # NoReset)
BY RecoveryAssumption, ConstantsAssumption DEF TypeOK, Snapshot, Window, NoReset

\* What is left of a backoff is a delay a caller may ask for.
LEMMA Backoffs == \A n : Backoff(n) \subseteq 0 .. Horizon
<1>1. \A n : Backoff(n) \subseteq 0 .. BackoffMax
  BY Zenon DEF Backoff
<1> QED
  BY <1>1, RecoveryAssumption, ConstantsAssumption

LEMMA NextDues == \A j \in Job : NextDue(j) \subseteq 0 .. Horizon
<1> SUFFICES ASSUME NEW j \in Job PROVE NextDue(j) \subseteq 0 .. Horizon
  OBVIOUS
<1>1. j.seen.reset > 0 => {j.seen.reset} \subseteq 0 .. Horizon
  BY ConstantsAssumption DEF Job, Window, NoReset
<1>2. 0 .. ProbeDelay \subseteq 0 .. Horizon /\ 0 .. ResetAfter \subseteq 0 .. Horizon
  BY RecoveryAssumption, ConstantsAssumption
<1> QED
  BY <1>1, <1>2, Backoffs DEF NextDue

\* One fault more is within the bound.
LEMMA Faulty ==
    ASSUME TypeOK, faults < deployment.faults
    PROVE  faults + 1 \in 0 .. MaxFaults
<1>1. deployment.faults \in 0 .. MaxFaults
  BY RecoveryAssumption DEF TypeOK
<1> QED
  BY <1>1, RecoveryAssumption DEF TypeOK

\* What a call may share is typed and carried.
LEMMA ResultsCarried ==
    ASSUME Recoverable, NEW i \in Instances, NEW k \in Keys, NEW seen \in Results(i, k)
    PROVE  seen \in Window /\ (k \in WebKeys => seen.reset # NoReset)
<1>1. \A j \in batch[i] : j \in Job /\ JobCarries(j)
  BY DEF Recoverable, TypeOK, Carried
<1>2. \A c \in Callers : call[c] \in Call /\ CallCarries(call[c])
  BY DEF Recoverable, TypeOK, Carried
<1>3. CASE \E j \in batch[i] : j.key = k /\ j.stage = "saved" /\ seen = j.seen
  BY <1>1, <1>3 DEF Job, JobCarries
<1>4. CASE \E c \in Callers : /\ call[c].op = "refresh" /\ call[c].key = k
                              /\ call[c].stage = "saved" /\ seen = call[c].seen
  BY <1>2, <1>4 DEF Call, CallCarries
<1> QED
  BY <1>3, <1>4 DEF Results

\* An idle caller.
LEMMA Idling == Idle \in Call /\ CallCarries(Idle)
BY RecoveryAssumption, Windows DEF Idle, Call, CallCarries

LEMMA InitRecoverable == Init => Recoverable
<1> SUFFICES ASSUME Init PROVE Recoverable
  OBVIOUS
<1>1. window \in [Keys -> Window] /\ WebReset
  BY RecoveryAssumption, ConstantsAssumption DEF Init, Snapshot, Window, NoReset, WebReset
<1>2. IsQueue(items)
  BY DEF Init, IsQueue
<1>3. call \in [Callers -> Call] /\ \A c \in Callers : CallCarries(call[c])
  BY Idling DEF Init
<1>4. TypeOK
  BY <1>1, <1>2, <1>3, RecoveryAssumption DEF Init, TypeOK
<1> QED
  BY <1>1, <1>3, <1>4 DEF Init, Recoverable, Carried

----------------------------------------------------------------------------
(* A step of a caller: its call moves on and stays carried, and it writes  *)
(* one window, the queue, or neither.                                      *)
LEMMA CallerMoves ==
    ASSUME Recoverable, NEW c \in Callers, NEW x \in Call, CallCarries(x),
           call' = [call EXCEPT ![c] = x],
           window' \in [Keys -> Window], WebReset', blind' \subseteq Keys,
           IsQueue(items'), faults' \in 0 .. MaxFaults,
           UNCHANGED <<deployment, upstream, batch, listed>>
    PROVE  Recoverable'
<1>1. call' \in [Callers -> Call] /\ \A e \in Callers : CallCarries(call'[e])
  BY DEF Recoverable, TypeOK, Carried
<1>2. TypeOK'
  BY <1>1 DEF Recoverable, TypeOK
<1> QED
  BY <1>1, <1>2 DEF Recoverable, Carried, CallCarries

\* A step of a recovery loop: what its batch becomes is carried too.
LEMMA LoopMoves ==
    ASSUME Recoverable, NEW i \in Instances, NEW b \in SUBSET Job, \A j \in b : JobCarries(j),
           batch' = [batch EXCEPT ![i] = b],
           window' \in [Keys -> Window], WebReset', blind' \subseteq Keys,
           IsQueue(items'), faults' \in 0 .. MaxFaults,
           UNCHANGED <<deployment, upstream, listed, call>>
    PROVE  Recoverable'
<1>1. batch' \in [Instances -> SUBSET Job] /\ \A e \in Instances : \A j \in batch'[e] : JobCarries(j)
  BY DEF Recoverable, TypeOK, Carried
<1>2. TypeOK'
  BY <1>1 DEF Recoverable, TypeOK
<1> QED
  BY <1>1, <1>2 DEF Recoverable, Carried, CallCarries

\* Saving a snapshot that has its reset, or noting that there is none, keeps WebReset.
LEMMA Saving ==
    ASSUME Recoverable, NEW k \in Keys, NEW w \in Window,
           window' = [window EXCEPT ![k] = w],
           \/ (k \in WebKeys => w.reset # NoReset) /\ blind' \in {blind, blind \ {k}}
           \/ blind' = blind \cup {k}
    PROVE  window' \in [Keys -> Window] /\ WebReset' /\ blind' \subseteq Keys
BY RecoveryAssumption DEF Recoverable, TypeOK, WebReset

LEMMA CallerKeeps ==
    ASSUME Recoverable, NEW c \in Callers, CallerStep(c), UNCHANGED deployment
    PROVE  Recoverable'
<1> DEFINE k == call[c].key
           w == call[c].seen
<1>t. /\ call \in [Callers -> Call] /\ call[c] \in Call /\ CallCarries(call[c])
      /\ window \in [Keys -> Window] /\ IsQueue(items) /\ WebReset /\ TypeOK
      /\ blind \subseteq Keys /\ faults \in 0 .. MaxFaults
  BY DEF Recoverable, TypeOK, Carried
<1>k. k \in Keys /\ w \in Window /\ window[k] \in Window
  BY <1>t DEF Call
<1>0. CASE ExhaustRead(c)
  <2>1. PICK d \in NoReset .. Horizon :
           call' = [call EXCEPT ![c] = [call[c] EXCEPT !.stage = "fetched", !.seen = [w EXCEPT !.reset = d]]]
    <3>1. CASE call' = [call EXCEPT ![c].stage = "fetched", ![c].seen.reset = DueIn(window[k])]
      <4>1. DueIn(window[k]) \in NoReset .. Horizon
        BY <1>k, Windows, ConstantsAssumption DEF NoReset
      <4> QED
        BY <3>1, <4>1, <1>t DEF Call
    <3>2. CASE call' = [call EXCEPT ![c].stage = "fetched"]
      <4>1. w = [w EXCEPT !.reset = w.reset] /\ w.reset \in NoReset .. Horizon
        BY <1>k DEF Window
      <4>2. [call[c] EXCEPT !.stage = "fetched"] = [call[c] EXCEPT !.stage = "fetched", !.seen = w]
        BY <1>t DEF Call
      <4> QED
        BY <3>2, <4>1, <4>2
    <3> QED
      BY <1>0, <3>1, <3>2 DEF ExhaustRead
  <2> DEFINE seen == [w EXCEPT !.reset = d]
             x == [call[c] EXCEPT !.stage = "fetched", !.seen = seen]
  <2>2. seen \in Window
    BY <1>k DEF Window
  <2> HIDE DEF seen
  <2>3. x \in Call /\ CallCarries(x)
    BY <1>0, <1>t, <2>2 DEF ExhaustRead, Call, CallCarries
  <2>4. call' = [call EXCEPT ![c] = x]
    BY <2>1 DEF seen
  <2>5. faults' \in 0 .. MaxFaults
    BY <1>0, <1>t, Faulty DEF ExhaustRead
  <2> QED
    BY <1>0, <1>t, <2>3, <2>4, <2>5, CallerMoves DEF ExhaustRead, WebReset
<1>1. CASE ExhaustWindow(c)
  <2> DEFINE x == [call[c] EXCEPT !.stage = "saved"]
  <2>1. window' = [window EXCEPT ![k] = w]
    BY <1>1 DEF ExhaustWindow
  <2>2. CASE w.reset = NoReset
    <3>1. call' = [call EXCEPT ![c] = Idle] /\ blind' = blind \cup {k}
      BY <1>1, <2>2 DEF ExhaustWindow
    <3>2. window' \in [Keys -> Window] /\ WebReset' /\ blind' \subseteq Keys
      BY <1>k, <2>1, <3>1, Saving
    <3> QED
      BY <1>1, <1>t, <3>1, <3>2, Idling, CallerMoves DEF ExhaustWindow
  <2>3. CASE w.reset # NoReset
    <3>1. call' = [call EXCEPT ![c] = x] /\ blind' = blind \ {k}
      BY <1>1, <1>t, <2>3 DEF ExhaustWindow, Sighted
    <3>2. x \in Call /\ CallCarries(x)
      BY <1>1, <1>t, <2>3 DEF ExhaustWindow, Call, CallCarries
    <3>3. window' \in [Keys -> Window] /\ WebReset' /\ blind' \subseteq Keys
      BY <1>k, <2>1, <2>3, <3>1, Saving
    <3> QED
      BY <1>1, <1>t, <3>1, <3>2, <3>3, CallerMoves DEF ExhaustWindow
  <2> QED
    BY <2>2, <2>3
<1>2. CASE ExhaustSchedule(c)
  <2>1. w.reset \in 0 .. Horizon
    BY <1>2, <1>t, <1>k, ConstantsAssumption DEF ExhaustSchedule, CallCarries, Window, NoReset
  <2>2. IsQueue(items')
    BY <1>2, <1>t, <1>k, <2>1, QueueMethods DEF ExhaustSchedule
  <2> QED
    BY <1>2, <1>t, <2>2, Idling, CallerMoves DEF ExhaustSchedule, WebReset
<1>3. CASE RefreshFetch(c)
  <2> DEFINE x == [call[c] EXCEPT !.stage = "fetched", !.seen = Snapshot(k)]
  <2>1. Snapshot(k) \in Window /\ (k \in WebKeys => Snapshot(k).reset # NoReset)
    BY <1>t, <1>k, Snapshots
  <2>2. x \in Call /\ CallCarries(x)
    BY <1>3, <1>t, <2>1 DEF RefreshFetch, Call, CallCarries
  <2>3. call' = [call EXCEPT ![c] = x]
    BY <1>3, <1>t DEF RefreshFetch
  <2> QED
    BY <1>3, <1>t, <2>2, <2>3, CallerMoves DEF RefreshFetch, WebReset
<1>4. CASE RefreshSave(c)
  <2> DEFINE x == [call[c] EXCEPT !.stage = "saved"]
  <2>1. x \in Call /\ CallCarries(x)
    BY <1>4, <1>t DEF RefreshSave, Call, CallCarries
  <2>2. window' \in [Keys -> Window] /\ WebReset' /\ blind' \subseteq Keys
    BY <1>4, <1>t, <1>k, Saving DEF RefreshSave, CallCarries, Sighted
  <2>3. call' = [call EXCEPT ![c] = x]
    BY <1>4, <1>t DEF RefreshSave
  <2> QED
    BY <1>4, <1>t, <2>1, <2>2, <2>3, CallerMoves DEF RefreshSave
<1>5. CASE RefreshReconcile(c)
  <2>1. DueIn(w) \in 0 .. Horizon
    BY <1>k, Windows
  <2>2. IsQueue(items')
    BY <1>5, <1>t, <1>k, <2>1, QueueMethods DEF RefreshReconcile
  <2> QED
    BY <1>5, <1>t, <2>2, Idling, CallerMoves DEF RefreshReconcile, WebReset
<1>6. CASE RefreshJoin(c)
  <2>1. PICK seen \in Results(Home[c], k) :
           call' = [call EXCEPT ![c].stage = "shared", ![c].seen = seen]
    BY <1>6 DEF RefreshJoin
  <2> DEFINE x == [call[c] EXCEPT !.stage = "shared", !.seen = seen]
  <2>2. seen \in Window /\ (k \in WebKeys => seen.reset # NoReset)
    BY <1>k, ResultsCarried, RecoveryAssumption
  <2>3. x \in Call /\ CallCarries(x)
    BY <1>6, <1>t, <2>2 DEF RefreshJoin, Call, CallCarries
  <2>4. call' = [call EXCEPT ![c] = x]
    BY <1>t, <2>1
  <2> QED
    BY <1>6, <1>t, <2>3, <2>4, CallerMoves DEF RefreshJoin, WebReset
<1>7. CASE ExhaustFails(c)
  <2>1. faults' \in 0 .. MaxFaults
    BY <1>7, <1>t, Faulty DEF ExhaustFails
  <2> QED
    BY <1>7, <1>t, <2>1, Idling, CallerMoves DEF ExhaustFails, WebReset
<1>8. CASE RefreshFails(c)
  <2> DEFINE x == [call[c] EXCEPT !.stage = "started", !.seen = NoWindow]
  <2>1. x \in Call /\ CallCarries(x)
    BY <1>8, <1>t, Windows DEF RefreshFails, Call, CallCarries
  <2>2. call' = [call EXCEPT ![c] = x] /\ faults' \in 0 .. MaxFaults
    BY <1>8, <1>t, Faulty DEF RefreshFails
  <2> QED
    BY <1>8, <1>t, <2>1, <2>2, CallerMoves DEF RefreshFails, WebReset
<1> QED
  BY <1>0, <1>1, <1>2, <1>3, <1>4, <1>5, <1>6, <1>7, <1>8 DEF CallerStep

\* A call that begins.
LEMMA CallBegins ==
    ASSUME Recoverable, UNCHANGED deployment, NEW c \in Callers, NEW k \in Keys,
           \/ \E d \in {NoReset} \cup 1 .. Horizon : RateLimited(c, k, d)
           \/ DecrementQuota(c, k)
           \/ StartRefresh(c, k)
    PROVE  Recoverable'
<1>t. /\ window \in [Keys -> Window] /\ IsQueue(items) /\ WebReset /\ TypeOK
      /\ blind \subseteq Keys /\ faults \in 0 .. MaxFaults
  BY DEF Recoverable, TypeOK
<1>r. /\ [op |-> "refresh", stage |-> "started", key |-> k, seen |-> NoWindow] \in Call
      /\ CallCarries([op |-> "refresh", stage |-> "started", key |-> k, seen |-> NoWindow])
  BY Windows DEF Call, CallCarries
<1>1. ASSUME NEW d \in {NoReset} \cup 1 .. Horizon, RateLimited(c, k, d) PROVE Recoverable'
  <2> DEFINE told == [left |-> FALSE, reset |-> d]
             stage == IF d = NoReset THEN "started" ELSE "fetched"
             x == [op |-> "exhaust", stage |-> stage, key |-> k, seen |-> told]
  <2>0. d \in NoReset .. Horizon
    BY ConstantsAssumption DEF NoReset
  <2>1. told \in Window
    BY <2>0, Windows
  <2> HIDE DEF told
  <2>2. x \in Call /\ CallCarries(x)
    BY <2>1 DEF Call, CallCarries
  <2>3. call' = [call EXCEPT ![c] = x]
    BY <1>1 DEF RateLimited, told
  <2> QED
    BY <1>1, <1>t, <2>2, <2>3, CallerMoves DEF RateLimited, WebReset
<1>2. CASE DecrementQuota(c, k)
  <2> DEFINE w == [window[k] EXCEPT !.left = FALSE]
  <2>1. w \in Window /\ w.reset = window[k].reset
    BY <1>t DEF Window
  <2>2. window' = [window EXCEPT ![k] = w] /\ blind' = blind
    BY <1>2, <1>t DEF DecrementQuota
  <2>3. window' \in [Keys -> Window] /\ WebReset'
    BY <1>t, <2>1, <2>2 DEF WebReset
  <2> QED
    BY <1>2, <1>t, <1>r, <2>3, CallerMoves DEF DecrementQuota
<1>3. CASE StartRefresh(c, k)
  BY <1>3, <1>t, <1>r, CallerMoves DEF StartRefresh, WebReset
<1> QED
  BY <1>1, <1>2, <1>3

----------------------------------------------------------------------------
\* A claimed batch becomes the probes of its instance.
LEMMA ClaimKeeps ==
    ASSUME Recoverable, UNCHANGED deployment, NEW i \in Instances, ClaimDue(i)
    PROVE  Recoverable'
<1>t. window \in [Keys -> Window] /\ IsQueue(items) /\ WebReset /\ TypeOK
  BY DEF Recoverable, TypeOK
<1>1. PICK S \in ClaimBatches(items) :
         /\ \A k \in S : \E t \in Tokens : TokenFree(k, t)
         /\ items' = Claim(items, S, [k \in S |-> CHOOSE t \in Tokens : TokenFree(k, t)])
         /\ batch' = [batch EXCEPT ![i] =
              {[key |-> k, token |-> [e \in S |-> CHOOSE t \in Tokens : TokenFree(e, t)][k],
                attempts |-> items[k].attempts, stage |-> "claimed", seen |-> NoWindow] : k \in S}]
  BY DEF ClaimDue
<1> DEFINE tok == [k \in S |-> CHOOSE t \in Tokens : TokenFree(k, t)]
           b == {[key |-> k, token |-> tok[k], attempts |-> items[k].attempts,
                  stage |-> "claimed", seen |-> NoWindow] : k \in S}
<1>2. tok \in [S -> Tokens]
  BY <1>1
<1>3. items' = Claim(items, S, tok) /\ batch' = [batch EXCEPT ![i] = b]
  BY <1>1
<1> HIDE DEF tok
<1>4. IsQueue(items') /\ \A k \in S : k \in Keys /\ items[k].attempts \in 0 .. MaxAttempts
  BY <1>t, <1>2, <1>3, ClaimedBatch
<1>5. b \in SUBSET Job /\ \A j \in b : JobCarries(j)
  BY <1>2, <1>4, Windows DEF Job, JobCarries
<1> HIDE DEF b
<1> QED
  BY <1>t, <1>3, <1>4, <1>5, LoopMoves DEF ClaimDue, TypeOK, WebReset

\* A probe that advances stays in its batch with its key and its token.
LEMMA Advancing ==
    ASSUME Recoverable, NEW i \in Instances, NEW j \in batch[i],
           NEW stage \in {"claimed", "fetched", "saved", "shared", "failed"}, NEW seen \in Window,
           Advance(i, j, stage, seen),
           j.key \in WebKeys /\ stage \in {"fetched", "saved", "shared"} => seen.reset # NoReset
    PROVE  \E b \in SUBSET Job : batch' = [batch EXCEPT ![i] = b] /\ \A e \in b : JobCarries(e)
<1> DEFINE moved == [j EXCEPT !.stage = stage, !.seen = seen]
           b == (batch[i] \ {j}) \cup {moved}
<1>1. batch \in [Instances -> SUBSET Job] /\ j \in Job /\ \A e \in batch[i] : JobCarries(e)
  BY DEF Recoverable, TypeOK, Carried
<1>2. moved \in Job /\ moved.key = j.key /\ moved.stage = stage /\ moved.seen = seen
  BY <1>1 DEF Job
<1>3. JobCarries(moved)
  BY <1>2 DEF JobCarries
<1>4. batch' = [batch EXCEPT ![i] = b]
  BY <1>1 DEF Advance
<1> HIDE DEF moved
<1>5. b \in SUBSET Job /\ \A e \in b : JobCarries(e)
  BY <1>1, <1>2, <1>3
<1> HIDE DEF b
<1> QED
  BY <1>4, <1>5

LEMMA ProbeKeeps ==
    ASSUME Recoverable, UNCHANGED deployment, NEW i \in Instances, ProbeStep(i)
    PROVE  Recoverable'
<1>t. /\ batch \in [Instances -> SUBSET Job] /\ faults \in 0 .. MaxFaults
      /\ window \in [Keys -> Window] /\ IsQueue(items) /\ WebReset /\ TypeOK
      /\ blind \subseteq Keys
  BY DEF Recoverable, TypeOK
<1> PICK j \in batch[i] :
       \/ ProbeFetch(i, j) \/ ProbeSave(i, j) \/ ProbeJoin(i, j) \/ ProbeFail(i, j)
       \/ ProbeAck(i, j) \/ ProbeReschedule(i, j)
  BY DEF ProbeStep
<1>j. /\ j \in Job /\ JobCarries(j) /\ j.key \in Keys /\ j.token \in Tokens /\ j.seen \in Window
      /\ NextAttempt(j.attempts) \in 0 .. MaxAttempts
  BY <1>t, Ranges DEF Recoverable, Carried, Job
<1>o. /\ batch[i] \ {j} \in SUBSET Job
      /\ \A e \in batch[i] \ {j} : JobCarries(e)
  BY <1>t DEF Recoverable, Carried
<1>1. CASE ProbeFetch(i, j)
  <2>1. Snapshot(j.key) \in Window /\ (j.key \in WebKeys => Snapshot(j.key).reset # NoReset)
    BY <1>t, <1>j, Snapshots
  <2>2. PICK b \in SUBSET Job : batch' = [batch EXCEPT ![i] = b] /\ \A e \in b : JobCarries(e)
    BY <1>1, <2>1, Advancing DEF ProbeFetch
  <2> QED
    BY <1>1, <1>t, <2>2, LoopMoves DEF ProbeFetch, WebReset
<1>2. CASE ProbeSave(i, j)
  <2>1. j.key \in WebKeys => j.seen.reset # NoReset
    BY <1>2, <1>j DEF ProbeSave, JobCarries
  <2>2. PICK b \in SUBSET Job : batch' = [batch EXCEPT ![i] = b] /\ \A e \in b : JobCarries(e)
    BY <1>2, <1>j, <2>1, Advancing DEF ProbeSave
  <2>3. window' \in [Keys -> Window] /\ WebReset' /\ blind' \subseteq Keys
    BY <1>2, <1>j, <2>1, Saving DEF ProbeSave, Sighted
  <2> QED
    BY <1>2, <1>t, <2>2, <2>3, LoopMoves DEF ProbeSave
<1>3. CASE ProbeFail(i, j)
  <2>1. PICK b \in SUBSET Job : batch' = [batch EXCEPT ![i] = b] /\ \A e \in b : JobCarries(e)
    BY <1>3, Windows, Advancing DEF ProbeFail
  <2>2. faults' \in 0 .. MaxFaults
    BY <1>3, <1>t, Faulty DEF ProbeFail
  <2> QED
    BY <1>3, <1>t, <2>1, <2>2, LoopMoves DEF ProbeFail, WebReset
<1>4. CASE ProbeAck(i, j)
  <2>1. IsQueue(items')
    BY <1>4, <1>t, <1>j, QueueMethods DEF ProbeAck
  <2> QED
    BY <1>4, <1>t, <1>o, <2>1, LoopMoves DEF ProbeAck, WebReset
<1>5. CASE ProbeReschedule(i, j)
  <2>1. PICK d \in NextDue(j) : items' = Reschedule(items, j.key, j.token, d, NextAttempt(j.attempts))
    BY <1>5 DEF ProbeReschedule
  <2>2. IsQueue(items')
    BY <1>t, <1>j, <2>1, NextDues, QueueMethods
  <2> QED
    BY <1>5, <1>t, <1>o, <2>2, LoopMoves DEF ProbeReschedule, WebReset
<1>6. CASE ProbeJoin(i, j)
  <2>1. PICK seen \in Results(i, j.key) : Advance(i, j, "shared", seen)
    BY <1>6 DEF ProbeJoin
  <2>2. seen \in Window /\ (j.key \in WebKeys => seen.reset # NoReset)
    BY <1>j, ResultsCarried
  <2>3. PICK b \in SUBSET Job : batch' = [batch EXCEPT ![i] = b] /\ \A e \in b : JobCarries(e)
    BY <2>1, <2>2, Advancing
  <2> QED
    BY <1>6, <1>t, <2>3, LoopMoves DEF ProbeJoin, WebReset
<1> QED
  BY <1>1, <1>2, <1>3, <1>4, <1>5, <1>6

\* Time brings resets closer and takes none away.
LEMMA TimeKeeps == ASSUME Recoverable, UNCHANGED deployment, Tick PROVE Recoverable'
<1>t. /\ window \in [Keys -> Window] /\ IsQueue(items) /\ TypeOK
      /\ batch \in [Instances -> SUBSET Job] /\ call \in [Callers -> Call]
  BY DEF Recoverable, TypeOK
<1>1. window' \in [Keys -> Window] /\ WebReset'
  BY <1>t, Windows, RecoveryAssumption DEF Tick, Recoverable, WebReset
<1>2. IsQueue(items')
  BY <1>t, QueueMethods DEF Tick
<1>3. ASSUME NEW j \in Job, JobCarries(j)
      PROVE  [j EXCEPT !.seen = Closer(j.seen)] \in Job /\ JobCarries([j EXCEPT !.seen = Closer(j.seen)])
  BY <1>3, Windows DEF Job, JobCarries
<1>4. batch' \in [Instances -> SUBSET Job] /\ \A i \in Instances : \A j \in batch'[i] : JobCarries(j)
  <2>1. ASSUME NEW i \in Instances
        PROVE  batch'[i] \in SUBSET Job /\ \A j \in batch'[i] : JobCarries(j)
    <3>1. batch'[i] = {[j EXCEPT !.seen = Closer(j.seen)] : j \in batch[i]}
      BY DEF Tick
    <3>2. batch[i] \subseteq Job /\ \A j \in batch[i] : JobCarries(j)
      BY <1>t DEF Recoverable, Carried
    <3> QED
      BY <1>3, <3>1, <3>2
  <2> QED
    BY <2>1 DEF Tick
<1>5. ASSUME NEW x \in Call, CallCarries(x)
      PROVE  [x EXCEPT !.seen = Closer(x.seen)] \in Call /\ CallCarries([x EXCEPT !.seen = Closer(x.seen)])
  BY <1>5, Windows DEF Call, CallCarries
<1>6. call' \in [Callers -> Call] /\ \A c \in Callers : CallCarries(call'[c])
  BY <1>t, <1>5 DEF Tick, Recoverable, Carried
<1>7. TypeOK'
  BY <1>t, <1>1, <1>2, <1>4, <1>6 DEF Tick, TypeOK
<1> QED
  BY <1>1, <1>4, <1>6, <1>7 DEF Recoverable, Carried, CallCarries

\* A restart drops probes and calls, and schedules what the database knows of.
LEMMA RestartKeeps ==
    ASSUME Recoverable, UNCHANGED deployment, NEW i \in Instances, Restart(i)
    PROVE  Recoverable'
<1>t. /\ window \in [Keys -> Window] /\ IsQueue(items) /\ TypeOK
      /\ batch \in [Instances -> SUBSET Job] /\ call \in [Callers -> Call]
  BY DEF Recoverable, TypeOK
<1>1. ASSUME NEW q, IsQueue(q), NEW S \in SUBSET Exhausted PROVE IsQueue(Rehydrated(q, S))
  <2>1. \A k \in S : k \in Keys /\ Waiting(window[k].reset, 0) \in Item
    BY <1>t, Ranges, ConstantsAssumption DEF Exhausted, Window, NoReset, Waiting, Item
  <2> QED
    BY <1>1, <2>1 DEF Rehydrated, IsQueue, IsClaimed
<1>2. IsQueue(items')
  <2>1. IsQueue([k \in {} |-> Waiting(0, 0)])
    BY DEF IsQueue
  <2>2. PICK S \in SUBSET Exhausted :
           items' = Rehydrated(IF deployment.durable THEN items ELSE [k \in {} |-> Waiting(0, 0)], S)
    BY Zenon DEF Restart, Recalled
  <2> QED
    BY <1>t, <1>1, <2>1, <2>2
<1>3. call' \in [Callers -> Call] /\ \A c \in Callers : CallCarries(call'[c])
  BY <1>t, Idling DEF Restart, Recoverable, Carried
<1>4. batch' \in [Instances -> SUBSET Job] /\ \A e \in Instances : \A j \in batch'[e] : JobCarries(j)
  BY <1>t DEF Restart, Recoverable, Carried
<1>5. TypeOK'
  BY <1>t, <1>2, <1>3, <1>4, RecoveryAssumption DEF Restart, TypeOK
<1> QED
  BY <1>3, <1>4, <1>5 DEF Recoverable, Carried, Restart, WebReset, CallCarries

LEMMA NextRecoverable == Recoverable /\ [Next /\ UNCHANGED deployment]_<<deployment, vars>> => Recoverable'
<1> SUFFICES ASSUME Recoverable, [Next /\ UNCHANGED deployment]_<<deployment, vars>> PROVE Recoverable'
  OBVIOUS
<1>u. UNCHANGED deployment
  BY DEF vars
<1>t. TypeOK /\ WebReset /\ Carried
  BY DEF Recoverable
<1>1. ASSUME NEW k \in Keys, Consume(k) \/ Refill(k) PROVE Recoverable'
  BY <1>1, <1>t, <1>u DEF Consume, Refill, Recoverable, TypeOK, WebReset, Carried, CallCarries
<1>2. ASSUME NEW i \in Instances, ReconcileList(i) PROVE Recoverable'
  BY <1>2, <1>t, <1>u DEF ReconcileList, DueWindows, Recoverable, TypeOK, WebReset, Carried, CallCarries
<1>3. ASSUME NEW i \in Instances, NEW k \in Keys, ReconcileEnsure(i, k) PROVE Recoverable'
  <2>1. IsQueue(items')
    BY <1>3, <1>t, QueueMethods DEF ReconcileEnsure, TypeOK
  <2> QED
    BY <1>3, <1>t, <1>u, <2>1
       DEF ReconcileEnsure, Recoverable, TypeOK, WebReset, Carried, CallCarries
<1>4. CASE UNCHANGED <<deployment, vars>>
  BY <1>4, <1>t DEF vars, Recoverable, TypeOK, WebReset, Carried, CallCarries
<1> QED
  BY <1>u, <1>1, <1>2, <1>3, <1>4, TimeKeeps, CallBegins, CallerKeeps, ClaimKeeps, ProbeKeeps, RestartKeeps
     DEF Next

(* The inductive invariant of the service.                                 *)
THEOREM RecoverableAlways == Spec => []Recoverable
BY InitRecoverable, NextRecoverable, PTL DEF Spec

(* The windows, the queue, the probes and the calls are well typed; in     *)
(* particular nobody schedules an event without a delay.                   *)
THEOREM TypeCorrect == Spec => []TypeOK
<1>1. Recoverable => TypeOK
  BY DEF Recoverable
<1> QED
  BY <1>1, RecoverableAlways, PTL

(* An exhausted Web window has its reset time: no snapshot, no local       *)
(* decrement and no exhaustion takes it away, in any order, but for one    *)
(* whose 429 told no reset and whose call could not read the window.       *)
THEOREM ResetKept == Spec => []ExhaustedHasReset
<1>1. Recoverable => ExhaustedHasReset
  BY DEF Recoverable, WebReset, ExhaustedHasReset
<1> QED
  BY <1>1, RecoverableAlways, PTL

(* What a startup promises: when an instance has restarted, every exhausted *)
(* Web window has its event, whatever the queue had lost, unless it was     *)
(* exhausted blindly or more are exhausted than the queue can hold.         *)
THEOREM RestartFindsExhausted ==
    Spec => [][\A i \in Instances : Restart(i) /\ Cardinality(Exhausted) <= Capacity =>
                  \A k \in WebKeys \ blind : ~ window[k].left => k \in DOMAIN items']_<<deployment, vars>>
<1>1. ASSUME Recoverable, NEW i \in Instances, Restart(i), Cardinality(Exhausted) <= Capacity,
             NEW k \in WebKeys \ blind, ~ window[k].left
      PROVE  k \in DOMAIN items'
  <2>1. k \in Exhausted
    BY <1>1, RecoveryAssumption DEF Recoverable, WebReset, Exhausted
  <2>2. PICK S \in Recalled : \E q : items' = Rehydrated(q, S)
    BY <1>1, Zenon DEF Restart
  <2>3. IsFiniteSet(Exhausted) /\ Cardinality(Exhausted) \in Nat
    BY RecoveryAssumption, FS_Subset, FS_CardinalityType DEF Exhausted
  <2>4. S = Exhausted
    BY <1>1, <2>3, ConstantsAssumption, FS_Subset DEF Recalled
  <2> QED
    BY <2>1, <2>2, <2>4 DEF Rehydrated
<1>2. Recoverable =>
        \A i \in Instances : Restart(i) /\ Cardinality(Exhausted) <= Capacity =>
           \A k \in WebKeys \ blind : ~ window[k].left => k \in DOMAIN items'
  BY <1>1
<1> QED
  BY <1>2, RecoverableAlways, PTL DEF Spec
----------------------------------------------------------------------------
(* The service as a client of the queue. A probe is told from all others   *)
(* by its event and its token.                                             *)
Distinct ==
    \A i1, i2 \in Instances : \A j1 \in batch[i1], j2 \in batch[i2] :
        j1.key = j2.key /\ j1.token = j2.token => i1 = i2 /\ j1 = j2

\* What is held of a queue q, and a queue r that leaves all claims as they are.
HeldOf(q, j) ==
    [key |-> j.key, token |-> j.token, attempts |-> j.attempts,
     lease |-> IF HoldsClaim(q, j.key, j.token) THEN q[j.key].due ELSE 0]

KeepsClaims(q, r) ==
    \A k \in Keys, t \in Tokens :
        /\ HoldsClaim(r, k, t) <=> HoldsClaim(q, k, t)
        /\ HoldsClaim(q, k, t) => r[k] = q[k]

HeldClaims == {Held(j) : j \in Probes}

LEMMA HeldNow == (\A j : Held(j) = HeldOf(items, j)) /\ (\A j : Held(j)' = HeldOf(items', j))
BY DEF Held, HeldOf

\* The service's methods of the queue are those of its specification.
LEMMA ClientCardinality == \A S : Client!Cardinality(S) = Cardinality(S)
BY Zenon DEF Client!Cardinality, Cardinality

LEMMA ClientParts ==
    /\ \A q : Client!Full(q) <=> Full(q)
    /\ \A q, k : Client!IsClaimed(q, k) <=> IsClaimed(q, k)
    /\ \A q, k, t : Client!HoldsClaim(q, k, t) <=> HoldsClaim(q, k, t)
    /\ \A q, k, item : Client!Put(q, k, item) = Put(q, k, item)
    /\ \A q, k : Client!Without(q, k) = Without(q, k)
    /\ \A d, n : Client!Waiting(d, n) = Waiting(d, n)
    /\ \A n : Client!NextAttempt(n) = NextAttempt(n)
<1>1. \A q : Client!Full(q) <=> Full(q)
  BY ClientCardinality DEF Client!Full, Full
<1>2. /\ \A q, k : Client!IsClaimed(q, k) <=> IsClaimed(q, k)
      /\ \A q, k, t : Client!HoldsClaim(q, k, t) <=> HoldsClaim(q, k, t)
  BY DEF Client!IsClaimed, IsClaimed, Client!HoldsClaim, HoldsClaim
<1>3. \A q, k, item : Client!Put(q, k, item) = Put(q, k, item)
  BY DEF Client!Put, Put
<1>4. \A q, k : Client!Without(q, k) = Without(q, k)
  BY DEF Client!Without, Without
<1>5. \A d, n : Client!Waiting(d, n) = Waiting(d, n)
  BY DEF Client!Waiting, Waiting
<1>6. \A n : Client!NextAttempt(n) = NextAttempt(n)
  BY DEF Client!NextAttempt, NextAttempt
<1> QED
  BY <1>1, <1>2, <1>3, <1>4, <1>5, <1>6

LEMMA ClientMethods ==
    /\ \A q, k, d : Client!Schedule(q, k, d) = Schedule(q, k, d)
    /\ \A q, k, d : Client!Ensure(q, k, d) = Ensure(q, k, d)
    /\ \A q, k : Client!Cancel(q, k) = Cancel(q, k)
    /\ \A q, k, t : Client!Ack(q, k, t) = Ack(q, k, t)
    /\ \A q, k, t, d, n : Client!Reschedule(q, k, t, d, n) = Reschedule(q, k, t, d, n)
    /\ \A q : Client!Elapse(q) = Elapse(q)
    /\ \A q : Client!ClaimBatches(q) = ClaimBatches(q)
    /\ \A q, S, tok : Client!Claim(q, S, tok) = Claim(q, S, tok)
<1>1. \A q, k, d : Client!Schedule(q, k, d) = Schedule(q, k, d)
  BY ClientParts, Zenon DEF Client!Schedule, Schedule
<1>2. \A q, k, d : Client!Ensure(q, k, d) = Ensure(q, k, d)
  BY ClientParts, Zenon DEF Client!Ensure, Ensure
<1>3. \A q, k : Client!Cancel(q, k) = Cancel(q, k)
  BY ClientParts, Zenon DEF Client!Cancel, Cancel
<1>4. \A q, k, t : Client!Ack(q, k, t) = Ack(q, k, t)
  BY ClientParts, Zenon DEF Client!Ack, Ack
<1>5. \A q, k, t, d, n : Client!Reschedule(q, k, t, d, n) = Reschedule(q, k, t, d, n)
  BY ClientParts, Zenon DEF Client!Reschedule, Reschedule
<1>6. \A q : Client!Elapse(q) = Elapse(q)
  BY DEF Client!Elapse, Elapse
<1>7. \A q : Client!ClaimBatches(q) = ClaimBatches(q)
  <2>1. \A D : Client!BatchesOf(D) = BatchesOf(D)
    BY ClientCardinality DEF Client!BatchesOf, BatchesOf
  <2>2. \A q : Client!DueKeys(q) = DueKeys(q)
    BY DEF Client!DueKeys, DueKeys
  <2> QED
    BY <2>1, <2>2, Zenon DEF Client!ClaimBatches, ClaimBatches
<1>8. \A q, S, tok : Client!Claim(q, S, tok) = Claim(q, S, tok)
  BY DEF Client!Claim, Claim, Client!Stamped, Stamped
<1> QED
  BY <1>1, <1>2, <1>3, <1>4, <1>5, <1>6, <1>7, <1>8

\* A call that adds or takes away an event touches none that is claimed.
LEMMA CallsKeepClaims ==
    ASSUME NEW q, NEW k \in Keys, NEW d
    PROVE  /\ KeepsClaims(q, Schedule(q, k, d))
           /\ KeepsClaims(q, Ensure(q, k, d))
           /\ KeepsClaims(q, Cancel(q, k))
<1>1. NoToken \notin Tokens
  BY ConstantsAssumption
<1>2. ASSUME ~ IsClaimed(q, k) PROVE KeepsClaims(q, Put(q, k, Waiting(d, 0)))
  BY <1>1, <1>2 DEF KeepsClaims, HoldsClaim, IsClaimed, Put, Waiting
<1>3. ASSUME ~ IsClaimed(q, k) PROVE KeepsClaims(q, Without(q, k))
  BY <1>1, <1>3 DEF KeepsClaims, HoldsClaim, IsClaimed, Without
<1>4. KeepsClaims(q, q)
  BY DEF KeepsClaims
<1>5. k \notin DOMAIN q => ~ IsClaimed(q, k)
  BY DEF IsClaimed
<1> QED
  BY <1>2, <1>3, <1>4, <1>5 DEF Schedule, Ensure, Cancel

----------------------------------------------------------------------------
(* Probes are told apart at every step.                                    *)

LEMMA AdvanceDistinct ==
    ASSUME TypeOK, Distinct, NEW i \in Instances, NEW j \in batch[i], NEW stage, NEW seen,
           Advance(i, j, stage, seen)
    PROVE  Distinct'
<1> DEFINE moved == [j EXCEPT !.stage = stage, !.seen = seen]
           Before(x) == IF x = moved THEN j ELSE x
<1>1. batch \in [Instances -> SUBSET Job] /\ j \in Job
  BY DEF TypeOK
<1>2. moved.key = j.key /\ moved.token = j.token
  BY <1>1 DEF Job
<1>3. batch'[i] = (batch[i] \ {j}) \cup {moved} /\ \A e \in Instances \ {i} : batch'[e] = batch[e]
  BY <1>1 DEF Advance
<1> HIDE DEF moved
<1> SUFFICES ASSUME NEW i1 \in Instances, NEW i2 \in Instances, NEW j1 \in batch'[i1], NEW j2 \in batch'[i2],
                    j1.key = j2.key, j1.token = j2.token
             PROVE  i1 = i2 /\ j1 = j2
  BY DEF Distinct
<1>4. CASE j1 \in batch[i1] /\ (i1 = i => j1 # j) /\ j2 \in batch[i2] /\ (i2 = i => j2 # j)
  BY <1>4 DEF Distinct
<1>5. CASE j1 \in batch[i1] /\ (i1 = i => j1 # j) /\ i2 = i /\ j2 = moved
  BY <1>2, <1>5 DEF Distinct
<1>6. CASE i1 = i /\ j1 = moved /\ j2 \in batch[i2] /\ (i2 = i => j2 # j)
  BY <1>2, <1>6 DEF Distinct
<1>7. CASE i1 = i /\ j1 = moved /\ i2 = i /\ j2 = moved
  BY <1>7
<1> QED
  BY <1>3, <1>4, <1>5, <1>6, <1>7

\* Batches that only lose probes.
LEMMA FewerDistinct ==
    ASSUME Distinct, \A e \in Instances : batch'[e] \subseteq batch[e]
    PROVE  Distinct'
BY DEF Distinct

LEMMA TickDistinct == ASSUME TypeOK, Distinct, Tick PROVE Distinct'
<1> DEFINE Later(j) == [j EXCEPT !.seen = Closer(j.seen)]
<1>1. \A e \in Instances : batch'[e] = {Later(j) : j \in batch[e]}
  BY DEF Tick
<1>2. \A e \in Instances : \A j \in batch[e] : Later(j).key = j.key /\ Later(j).token = j.token
  BY DEF TypeOK, Job
<1> HIDE DEF Later
<1> QED
  BY <1>1, <1>2 DEF Distinct

\* What a claim hands out: fresh tokens for events of the queue.
HandsOut(i, S, tok) ==
    /\ S \in ClaimBatches(items) /\ tok \in [S -> Tokens]
    /\ \A k \in S : TokenFree(k, tok[k])
    /\ items' = Claim(items, S, tok)
    /\ batch[i] = {}
    /\ batch' = [batch EXCEPT ![i] =
         {[key |-> k, token |-> tok[k], attempts |-> items[k].attempts,
           stage |-> "claimed", seen |-> NoWindow] : k \in S}]

LEMMA ClaimHandsOut ==
    ASSUME NEW i \in Instances, ClaimDue(i)
    PROVE  \E S, tok : HandsOut(i, S, tok)
<1>1. PICK S \in ClaimBatches(items) :
         /\ \A k \in S : \E t \in Tokens : TokenFree(k, t)
         /\ items' = Claim(items, S, [k \in S |-> CHOOSE t \in Tokens : TokenFree(k, t)])
         /\ batch' = [batch EXCEPT ![i] =
              {[key |-> k, token |-> [e \in S |-> CHOOSE t \in Tokens : TokenFree(e, t)][k],
                attempts |-> items[k].attempts, stage |-> "claimed", seen |-> NoWindow] : k \in S}]
  BY DEF ClaimDue
<1> DEFINE tok == [k \in S |-> CHOOSE t \in Tokens : TokenFree(k, t)]
<1>2. tok \in [S -> Tokens] /\ \A k \in S : TokenFree(k, tok[k])
  BY <1>1
<1>3. items' = Claim(items, S, tok) /\ batch[i] = {}
      /\ batch' = [batch EXCEPT ![i] =
           {[key |-> k, token |-> tok[k], attempts |-> items[k].attempts,
             stage |-> "claimed", seen |-> NoWindow] : k \in S}]
  BY <1>1 DEF ClaimDue, LoopFree
<1> HIDE DEF tok
<1>4. HandsOut(i, S, tok)
  BY <1>2, <1>3 DEF HandsOut
<1> QED
  BY <1>4

LEMMA ClaimDistinct ==
    ASSUME TypeOK, Distinct, NEW i \in Instances, NEW S, NEW tok, HandsOut(i, S, tok)
    PROVE  Distinct'
<1>1. batch'[i] = {[key |-> k, token |-> tok[k], attempts |-> items[k].attempts,
                    stage |-> "claimed", seen |-> NoWindow] : k \in S}
      /\ \A e \in Instances \ {i} : batch'[e] = batch[e]
  BY DEF HandsOut, TypeOK
<1>2. \A j \in batch'[i] : j.key \in S /\ j.token = tok[j.key]
      /\ j = [key |-> j.key, token |-> tok[j.key], attempts |-> items[j.key].attempts,
              stage |-> "claimed", seen |-> NoWindow]
  BY <1>1
<1>3. \A e \in Instances \ {i} : \A j \in batch[e] : \A k \in S : ~ (j.key = k /\ j.token = tok[k])
  BY DEF HandsOut, TokenFree
<1> SUFFICES ASSUME NEW i1 \in Instances, NEW i2 \in Instances, NEW j1 \in batch'[i1], NEW j2 \in batch'[i2],
                    j1.key = j2.key, j1.token = j2.token
             PROVE  i1 = i2 /\ j1 = j2
  BY DEF Distinct
<1>4. CASE i1 = i /\ i2 = i
  BY <1>2, <1>4
<1>5. CASE i1 # i /\ i2 # i
  BY <1>1, <1>5 DEF Distinct
<1>6. CASE i1 = i /\ i2 # i
  BY <1>1, <1>2, <1>3, <1>6
<1>7. CASE i1 # i /\ i2 = i
  BY <1>1, <1>2, <1>3, <1>7
<1> QED
  BY <1>4, <1>5, <1>6, <1>7

LEMMA NextDistinct ==
    ASSUME TypeOK, Distinct, [Next /\ UNCHANGED deployment]_<<deployment, vars>>
    PROVE  Distinct'
<1>1. ASSUME UNCHANGED batch PROVE Distinct'
  BY <1>1, FewerDistinct
<1>2. ASSUME NEW k \in Keys, Consume(k) \/ Refill(k) PROVE Distinct'
  BY <1>1, <1>2 DEF Consume, Refill
<1>3. ASSUME NEW c \in Callers, NEW k \in Keys,
             \/ \E d \in {NoReset} \cup 1 .. Horizon : RateLimited(c, k, d)
             \/ DecrementQuota(c, k) \/ StartRefresh(c, k)
      PROVE  Distinct'
  BY <1>1, <1>3 DEF RateLimited, DecrementQuota, StartRefresh
<1>4. ASSUME NEW c \in Callers, CallerStep(c) PROVE Distinct'
  BY <1>1, <1>4 DEF CallerStep, ExhaustRead, ExhaustWindow, ExhaustSchedule, ExhaustFails,
                     RefreshFetch, RefreshSave, RefreshJoin, RefreshReconcile, RefreshFails
<1>5. ASSUME NEW i \in Instances, ReconcileList(i) \/ \E k \in Keys : ReconcileEnsure(i, k) PROVE Distinct'
  BY <1>1, <1>5 DEF ReconcileList, ReconcileEnsure
<1>6. ASSUME NEW i \in Instances, ClaimDue(i) PROVE Distinct'
  BY <1>6, ClaimHandsOut, ClaimDistinct
<1>7. ASSUME NEW i \in Instances, NEW j \in batch[i],
             \/ ProbeFetch(i, j) \/ ProbeSave(i, j) \/ ProbeJoin(i, j) \/ ProbeFail(i, j)
             \/ ProbeAck(i, j) \/ ProbeReschedule(i, j)
      PROVE  Distinct'
  <2>1. CASE ProbeFetch(i, j) \/ ProbeSave(i, j) \/ ProbeJoin(i, j) \/ ProbeFail(i, j)
    BY <2>1, AdvanceDistinct DEF ProbeFetch, ProbeSave, ProbeJoin, ProbeFail
  <2>2. CASE ProbeAck(i, j) \/ ProbeReschedule(i, j)
    <3>1. batch' = [batch EXCEPT ![i] = @ \ {j}]
      BY <2>2 DEF ProbeAck, ProbeReschedule
    <3> QED
      BY <3>1, FewerDistinct DEF TypeOK
  <2> QED
    BY <1>7, <2>1, <2>2
<1>8. ASSUME NEW i \in Instances, Restart(i) PROVE Distinct'
  <2>1. batch' = [batch EXCEPT ![i] = {}]
    BY <1>8 DEF Restart
  <2> QED
    BY <2>1, FewerDistinct DEF TypeOK
<1>9. CASE UNCHANGED <<deployment, vars>>
  BY <1>1, <1>9 DEF vars
<1> QED
  BY <1>2, <1>3, <1>4, <1>5, <1>6, <1>7, <1>8, <1>9, TickDistinct DEF Next, ProbeStep

----------------------------------------------------------------------------
(* What a step does to the claims, as the queue's specification sees them. *)

\* Nobody's claim changes.
LEMMA ClaimsStay ==
    ASSUME TypeOK, KeepsClaims(items, items'), UNCHANGED batch
    PROVE  HeldClaims' = HeldClaims
<1>1. Probes' = Probes /\ Probes \subseteq Job
  BY DEF Probes, TypeOK
<1>2. \A j \in Job : HeldOf(items', j) = HeldOf(items, j)
  BY DEF HeldOf, KeepsClaims, Job
<1> QED
  BY <1>1, <1>2, HeldNow DEF HeldClaims

\* A probe that advances holds what it held.
LEMMA AdvanceHolds ==
    ASSUME TypeOK, NEW i \in Instances, NEW j \in batch[i], NEW stage, NEW seen,
           Advance(i, j, stage, seen), UNCHANGED items
    PROVE  HeldClaims' = HeldClaims
<1> DEFINE moved == [j EXCEPT !.stage = stage, !.seen = seen]
<1>1. batch \in [Instances -> SUBSET Job] /\ j \in Job
  BY DEF TypeOK
<1>2. moved.key = j.key /\ moved.token = j.token /\ moved.attempts = j.attempts
  BY <1>1 DEF Job
<1>3. batch'[i] = (batch[i] \ {j}) \cup {moved} /\ \A e \in Instances \ {i} : batch'[e] = batch[e]
  BY <1>1 DEF Advance
<1>4. HeldOf(items, moved) = HeldOf(items, j)
  BY <1>2 DEF HeldOf
<1> HIDE DEF moved
<1>5. ASSUME NEW x \in Probes' PROVE \E y \in Probes : HeldOf(items, y) = HeldOf(items, x)
  <2>1. PICK e \in Instances : x \in batch'[e]
    BY <1>5 DEF Probes
  <2>2. CASE x \in batch[e]
    BY <2>2 DEF Probes
  <2>3. CASE x \notin batch[e]
    BY <1>3, <1>4, <2>1, <2>3 DEF Probes
  <2> QED
    BY <2>2, <2>3
<1>6. ASSUME NEW x \in Probes PROVE \E y \in Probes' : HeldOf(items, y) = HeldOf(items, x)
  <2>1. PICK e \in Instances : x \in batch[e]
    BY <1>6 DEF Probes
  <2>2. CASE x \in batch'[e]
    BY <2>2 DEF Probes
  <2>3. CASE x \notin batch'[e]
    <3>1. e = i /\ x = j /\ moved \in batch'[i]
      BY <1>3, <2>1, <2>3
    <3> QED
      BY <1>4, <3>1 DEF Probes
  <2> QED
    BY <2>2, <2>3
<1>7. /\ HeldClaims = {HeldOf(items, x) : x \in Probes}
      /\ HeldClaims' = {HeldOf(items, x) : x \in Probes'}
  BY HeldNow DEF HeldClaims
<1> QED
  BY <1>5, <1>6, <1>7

\* A probe that answers gives up its claim, and no other claim changes.
LEMMA AnswerHolds ==
    ASSUME TypeOK, Distinct, NEW i \in Instances, NEW j \in batch[i],
           batch' = [batch EXCEPT ![i] = @ \ {j}],
           \A k \in Keys, t \in Tokens : <<k, t>> # <<j.key, j.token>> =>
              /\ HoldsClaim(items', k, t) <=> HoldsClaim(items, k, t)
              /\ HoldsClaim(items, k, t) => items'[k] = items[k]
    PROVE  HeldClaims' = HeldClaims \ {Held(j)}
<1>1. batch \in [Instances -> SUBSET Job] /\ j \in Job /\ Probes \subseteq Job
  BY DEF TypeOK, Probes
<1>2. batch'[i] = batch[i] \ {j} /\ \A e \in Instances \ {i} : batch'[e] = batch[e]
  BY <1>1
<1>3. ASSUME NEW x \in Probes, x # j PROVE x.key # j.key \/ x.token # j.token
  BY <1>3 DEF Probes, Distinct
<1>4. Probes' = Probes \ {j}
  <2>1. \A e \in Instances : e # i => j \notin batch[e]
    BY DEF Distinct
  <2> QED
    BY <1>2, <2>1 DEF Probes
<1>5. ASSUME NEW x \in Probes, x # j PROVE HeldOf(items', x) = HeldOf(items, x) /\ HeldOf(items, x) # HeldOf(items, j)
  <2>1. x \in Job /\ <<x.key, x.token>> # <<j.key, j.token>>
    BY <1>1, <1>3, <1>5
  <2>2. HeldOf(items', x) = HeldOf(items, x)
    BY <2>1 DEF HeldOf, Job
  <2>3. HeldOf(items, x).key = x.key /\ HeldOf(items, x).token = x.token
        /\ HeldOf(items, j).key = j.key /\ HeldOf(items, j).token = j.token
    BY DEF HeldOf
  <2> QED
    BY <2>1, <2>2, <2>3
<1>6. /\ HeldClaims = {HeldOf(items, x) : x \in Probes}
      /\ HeldClaims' = {HeldOf(items', x) : x \in Probes'}
      /\ Held(j) = HeldOf(items, j) /\ j \in Probes
  BY HeldNow DEF HeldClaims, Probes
<1> QED
  BY <1>4, <1>5, <1>6

\* A claim adds what it hands out; whoever had the events before has no lease left.
LEMMA ClaimHolds ==
    ASSUME TypeOK, NEW i \in Instances, NEW S, NEW tok, HandsOut(i, S, tok)
    PROVE  HeldClaims' = HeldClaims \cup
             {[key |-> k, token |-> tok[k], attempts |-> items[k].attempts, lease |-> Lease] : k \in S}
<1> DEFINE New(k) == [key |-> k, token |-> tok[k], attempts |-> items[k].attempts,
                      stage |-> "claimed", seen |-> NoWindow]
<1>1. batch \in [Instances -> SUBSET Job] /\ Probes \subseteq Job
  BY DEF TypeOK, Probes
<1>2. batch'[i] = {New(k) : k \in S} /\ batch[i] = {} /\ \A e \in Instances \ {i} : batch'[e] = batch[e]
  BY <1>1 DEF HandsOut
<1>3. Probes' = Probes \cup {New(k) : k \in S}
  BY <1>2 DEF Probes
<1>4. /\ \A k \in S : k \in DOMAIN items /\ items[k].due = 0
      /\ DOMAIN items' = DOMAIN items
      /\ \A k \in S : items'[k].token = tok[k] /\ items'[k].due = Lease
      /\ \A k \in DOMAIN items \ S : items'[k] = items[k]
  BY DEF HandsOut, ClaimBatches, BatchesOf, DueKeys, Claim, Stamped
<1>5. ASSUME NEW x \in Probes PROVE HeldOf(items', x) = HeldOf(items, x)
  <2>1. x.key \in S => x.token # tok[x.key]
    BY DEF Probes, HandsOut, TokenFree
  <2>2. CASE x.key \in S
    <3>1. ~ HoldsClaim(items', x.key, x.token)
      BY <1>4, <2>1, <2>2 DEF HoldsClaim
    <3>2. HoldsClaim(items, x.key, x.token) => items[x.key].due = 0
      BY <1>4, <2>2
    <3> QED
      BY <3>1, <3>2 DEF HeldOf
  <2>3. CASE x.key \notin S
    BY <1>4, <2>3 DEF HeldOf, HoldsClaim
  <2> QED
    BY <2>2, <2>3
<1>6. ASSUME NEW k \in S
      PROVE  HeldOf(items', New(k)) =
               [key |-> k, token |-> tok[k], attempts |-> items[k].attempts, lease |-> Lease]
  BY <1>4 DEF HeldOf, HoldsClaim
<1>7. /\ HeldClaims = {HeldOf(items, x) : x \in Probes}
      /\ HeldClaims' = {HeldOf(items', x) : x \in Probes'}
  BY HeldNow DEF HeldClaims
<1> HIDE DEF New
<1>8. HeldClaims' = {HeldOf(items', x) : x \in Probes} \cup {HeldOf(items', New(k)) : k \in S}
  BY <1>3, <1>7
<1>9. {HeldOf(items', x) : x \in Probes} = HeldClaims
  BY <1>5, <1>7
<1> QED
  BY <1>6, <1>8, <1>9

\* Time takes from every lease what it takes from its event.
LEMMA TickHolds ==
    ASSUME TypeOK, Tick
    PROVE  HeldClaims' = {Client!Aged(c) : c \in HeldClaims}
<1> DEFINE Later(j) == [j EXCEPT !.seen = Closer(j.seen)]
<1>1. batch \in [Instances -> SUBSET Job] /\ Probes \subseteq Job /\ IsQueue(items)
  BY DEF TypeOK, Probes
<1>2. \A e \in Instances : batch'[e] = {Later(j) : j \in batch[e]}
  BY DEF Tick
<1>3. Probes' = {Later(j) : j \in Probes}
  BY <1>2 DEF Probes
<1>4. ASSUME NEW j \in Job PROVE HeldOf(items', Later(j)) = Client!Aged(HeldOf(items, j))
  <2>1. Later(j).key = j.key /\ Later(j).token = j.token /\ Later(j).attempts = j.attempts
    BY DEF Job
  <2> HIDE DEF Later
  <2>2. DOMAIN items' = DOMAIN items
        /\ \A k \in DOMAIN items :
              items'[k] = [items[k] EXCEPT !.due = IF items[k].due > 0 THEN items[k].due - 1 ELSE 0]
    BY DEF Tick, Elapse
  <2>3. \A k \in DOMAIN items :
           /\ items'[k].token = items[k].token
           /\ items'[k].due = IF items[k].due > 0 THEN items[k].due - 1 ELSE 0
    BY <1>1, <2>2 DEF IsQueue, Item
  <2>4. HoldsClaim(items', j.key, j.token) <=> HoldsClaim(items, j.key, j.token)
    BY <2>2, <2>3 DEF HoldsClaim
  <2>5. HoldsClaim(items, j.key, j.token) => j.key \in DOMAIN items
    BY DEF HoldsClaim
  <2> QED
    BY <2>1, <2>3, <2>4, <2>5 DEF HeldOf, Client!Aged
<1>5. /\ HeldClaims = {HeldOf(items, x) : x \in Probes}
      /\ HeldClaims' = {HeldOf(items', x) : x \in Probes'}
  BY HeldNow DEF HeldClaims
<1> HIDE DEF Later
<1>6. HeldClaims' = {HeldOf(items', Later(j)) : j \in Probes}
  BY <1>3, <1>5
<1> QED
  BY <1>1, <1>4, <1>5, <1>6

----------------------------------------------------------------------------
(* Every step but a restart is a call of the queue, or none.               *)

\* The claims of the client's specification are HeldClaims.
LEMMA ClientCalls ==
    ASSUME \/ \E k \in Keys, d \in 0 .. Horizon :
                 items' = Schedule(items, k, d) /\ UNCHANGED HeldClaims
           \/ \E k \in Keys : items' = Ensure(items, k, 0) /\ UNCHANGED HeldClaims
           \/ \E k \in Keys : items' = Cancel(items, k) /\ UNCHANGED HeldClaims
           \/ items' = Elapse(items) /\ HeldClaims' = {Client!Aged(c) : c \in HeldClaims}
           \/ \E c \in HeldClaims : items' = Ack(items, c.key, c.token) /\ HeldClaims' = HeldClaims \ {c}
           \/ \E c \in HeldClaims, d \in 0 .. Horizon :
                 /\ items' = Reschedule(items, c.key, c.token, d, NextAttempt(c.attempts))
                 /\ HeldClaims' = HeldClaims \ {c}
    PROVE  Client!Next
<1>1. ASSUME NEW k \in Keys, NEW d \in 0 .. Horizon, items' = Schedule(items, k, d), UNCHANGED HeldClaims
      PROVE  Client!Next
  <2>1. Client!ScheduleQuotaRecovery(k, d)
    BY <1>1, ClientMethods DEF Client!ScheduleQuotaRecovery, HeldClaims
  <2> QED
    BY <2>1 DEF Client!Next
<1>2. ASSUME NEW k \in Keys, items' = Ensure(items, k, 0), UNCHANGED HeldClaims
      PROVE  Client!Next
  <2>1. Client!EnsureQuotaRecovery(k)
    BY <1>2, ClientMethods DEF Client!EnsureQuotaRecovery, HeldClaims
  <2> QED
    BY <2>1 DEF Client!Next
<1>3. ASSUME NEW k \in Keys, items' = Cancel(items, k), UNCHANGED HeldClaims
      PROVE  Client!Next
  <2>1. Client!CancelQuotaRecovery(k)
    BY <1>3, ClientMethods DEF Client!CancelQuotaRecovery, HeldClaims
  <2> QED
    BY <2>1 DEF Client!Next
<1>4. ASSUME items' = Elapse(items), HeldClaims' = {Client!Aged(c) : c \in HeldClaims}
      PROVE  Client!Next
  <2>1. Client!Tick
    BY <1>4, ClientMethods DEF Client!Tick, HeldClaims
  <2> QED
    BY <2>1 DEF Client!Next
<1>5. ASSUME NEW c \in HeldClaims, items' = Ack(items, c.key, c.token), HeldClaims' = HeldClaims \ {c}
      PROVE  Client!Next
  <2>1. Client!AckQuotaRecovery(c)
    BY <1>5, ClientMethods DEF Client!AckQuotaRecovery, HeldClaims
  <2> QED
    BY <2>1 DEF Client!Next, HeldClaims
<1>6. ASSUME NEW c \in HeldClaims, NEW d \in 0 .. Horizon,
             items' = Reschedule(items, c.key, c.token, d, NextAttempt(c.attempts)),
             HeldClaims' = HeldClaims \ {c}
      PROVE  Client!Next
  <2>1. Client!RescheduleQuotaRecovery(c, d)
    BY <1>6, ClientMethods, ClientParts DEF Client!RescheduleQuotaRecovery, HeldClaims
  <2> QED
    BY <2>1 DEF Client!Next, HeldClaims
<1> QED
  BY <1>1, <1>2, <1>3, <1>4, <1>5, <1>6

LEMMA ClaimCalls ==
    ASSUME TypeOK, NEW i \in Instances, ClaimDue(i)
    PROVE  Client!Next
<1>1. PICK S, tok : HandsOut(i, S, tok)
  BY ClaimHandsOut
<1>2. HeldClaims' = HeldClaims \cup
        {[key |-> k, token |-> tok[k], attempts |-> items[k].attempts, lease |-> Lease] : k \in S}
  BY <1>1, ClaimHolds
<1>3. ASSUME NEW k \in S PROVE Client!TokenFree(k, tok[k])
  <2>1. TokenFree(k, tok[k])
    BY <1>1 DEF HandsOut
  <2>2. \A c \in HeldClaims : ~ (c.key = k /\ c.token = tok[k])
    BY <2>1 DEF HeldClaims, Held, Probes, TokenFree
  <2> QED
    BY <2>1, <2>2, ClientParts DEF Client!TokenFree, TokenFree, HeldClaims
<1>4. /\ S \in Client!ClaimBatches(items) /\ tok \in [S -> Tokens]
      /\ items' = Client!Claim(items, S, tok)
  BY <1>1, ClientMethods DEF HandsOut
<1>5. Client!ClaimDueQuotaRecoveries
  BY <1>2, <1>3, <1>4 DEF Client!ClaimDueQuotaRecoveries, HeldClaims
<1> QED
  BY <1>5 DEF Client!Next

LEMMA CallerCalls ==
    ASSUME Recoverable, NEW c \in Callers, CallerStep(c)
    PROVE  Client!Next \/ UNCHANGED <<items, HeldClaims>>
<1> DEFINE k == call[c].key
           w == call[c].seen
<1>t. /\ call[c] \in Call /\ CallCarries(call[c]) /\ TypeOK
  BY DEF Recoverable, TypeOK, Carried
<1>k. k \in Keys /\ w \in Window
  BY <1>t DEF Call
<1>b. UNCHANGED batch
  BY DEF CallerStep, ExhaustRead, ExhaustWindow, ExhaustSchedule, ExhaustFails,
                     RefreshFetch, RefreshSave, RefreshJoin, RefreshReconcile, RefreshFails
<1>s. UNCHANGED items => UNCHANGED HeldClaims
  <2>1. KeepsClaims(items, items)
    BY DEF KeepsClaims
  <2> QED
    BY <1>t, <1>b, <2>1, ClaimsStay
<1>1. CASE \/ ExhaustRead(c) \/ ExhaustWindow(c) \/ ExhaustFails(c)
          \/ RefreshFetch(c) \/ RefreshSave(c) \/ RefreshJoin(c) \/ RefreshFails(c)
  BY <1>1, <1>s DEF ExhaustRead, ExhaustWindow, ExhaustFails,
                    RefreshFetch, RefreshSave, RefreshJoin, RefreshFails
<1>2. CASE ExhaustSchedule(c)
  <2>1. w.reset \in 0 .. Horizon
    BY <1>2, <1>t, <1>k, ConstantsAssumption DEF ExhaustSchedule, CallCarries, Window, NoReset
  <2>2. items' = Schedule(items, k, w.reset)
    BY <1>2 DEF ExhaustSchedule
  <2>3. UNCHANGED HeldClaims
    BY <1>t, <1>k, <1>b, <2>2, CallsKeepClaims, ClaimsStay
  <2> HIDE DEF k, w
  <2> QED
    BY <1>k, <2>1, <2>2, <2>3, ClientCalls
<1>3. CASE RefreshReconcile(c)
  <2>1. DueIn(w) \in 0 .. Horizon
    BY <1>k, Windows
  <2>2. items' = Cancel(items, k) \/ items' = Schedule(items, k, DueIn(w))
    BY <1>3 DEF RefreshReconcile
  <2>3. UNCHANGED HeldClaims
    BY <1>t, <1>k, <1>b, <2>2, CallsKeepClaims, ClaimsStay
  <2> HIDE DEF k, w
  <2> QED
    BY <1>k, <2>1, <2>2, <2>3, ClientCalls
<1> QED
  BY <1>1, <1>2, <1>3 DEF CallerStep

LEMMA ProbeCalls ==
    ASSUME Recoverable, Distinct, NEW i \in Instances, ProbeStep(i)
    PROVE  Client!Next \/ UNCHANGED <<items, HeldClaims>>
<1> PICK j \in batch[i] :
       \/ ProbeFetch(i, j) \/ ProbeSave(i, j) \/ ProbeJoin(i, j) \/ ProbeFail(i, j)
       \/ ProbeAck(i, j) \/ ProbeReschedule(i, j)
  BY DEF ProbeStep
<1>t. TypeOK /\ j \in Job /\ j.key \in Keys /\ j.token \in Tokens
  BY DEF Recoverable, TypeOK, Job
<1>h. /\ Held(j) \in HeldClaims
      /\ Held(j).key = j.key /\ Held(j).token = j.token /\ Held(j).attempts = j.attempts
  BY DEF Held, HeldClaims, Probes
<1>n. NoToken \notin Tokens
  BY ConstantsAssumption
<1>1. CASE ProbeFetch(i, j) \/ ProbeSave(i, j) \/ ProbeJoin(i, j) \/ ProbeFail(i, j)
  BY <1>1, <1>t, AdvanceHolds DEF ProbeFetch, ProbeSave, ProbeJoin, ProbeFail
<1>2. CASE ProbeAck(i, j)
  <2>1. items' = Ack(items, j.key, j.token) /\ batch' = [batch EXCEPT ![i] = @ \ {j}]
    BY <1>2 DEF ProbeAck
  <2>2. \A k \in Keys, t \in Tokens : <<k, t>> # <<j.key, j.token>> =>
           /\ HoldsClaim(items', k, t) <=> HoldsClaim(items, k, t)
           /\ HoldsClaim(items, k, t) => items'[k] = items[k]
    BY <2>1 DEF Ack, Without, HoldsClaim
  <2>3. HeldClaims' = HeldClaims \ {Held(j)}
    BY <1>t, <2>1, <2>2, AnswerHolds
  <2> QED
    BY <1>h, <2>1, <2>3, ClientCalls
<1>3. CASE ProbeReschedule(i, j)
  <2>1. PICK d \in NextDue(j) : items' = Reschedule(items, j.key, j.token, d, NextAttempt(j.attempts))
    BY <1>3 DEF ProbeReschedule
  <2>2. batch' = [batch EXCEPT ![i] = @ \ {j}] /\ d \in 0 .. Horizon
    BY <1>3, <1>t, NextDues DEF ProbeReschedule
  <2>3. \A k \in Keys, t \in Tokens : <<k, t>> # <<j.key, j.token>> =>
           /\ HoldsClaim(items', k, t) <=> HoldsClaim(items, k, t)
           /\ HoldsClaim(items, k, t) => items'[k] = items[k]
    BY <1>n, <2>1 DEF Reschedule, Put, Waiting, HoldsClaim
  <2>4. HeldClaims' = HeldClaims \ {Held(j)}
    BY <1>t, <2>2, <2>3, AnswerHolds
  <2> QED
    BY <1>h, <2>1, <2>2, <2>4, ClientCalls
<1> QED
  BY <1>1, <1>2, <1>3

LEMMA NextCalls ==
    ASSUME Recoverable, Distinct, Next
    PROVE  (\E i \in Instances : Restart(i)) \/ Client!Next \/ UNCHANGED <<items, HeldClaims>>
<1>t. TypeOK
  BY DEF Recoverable
<1>1. ASSUME UNCHANGED <<items, batch>> PROVE UNCHANGED HeldClaims
  <2>1. KeepsClaims(items, items')
    BY <1>1 DEF KeepsClaims
  <2> QED
    BY <1>t, <1>1, <2>1, ClaimsStay
<1>2. ASSUME \/ \E k \in Keys : Consume(k) \/ Refill(k)
             \/ \E c \in Callers, k \in Keys, d \in {NoReset} \cup 1 .. Horizon : RateLimited(c, k, d)
             \/ \E c \in Callers, k \in Keys : DecrementQuota(c, k) \/ StartRefresh(c, k)
             \/ \E i \in Instances : ReconcileList(i)
      PROVE  UNCHANGED <<items, HeldClaims>>
  BY <1>1, <1>2 DEF Consume, Refill, RateLimited, DecrementQuota, StartRefresh, ReconcileList
<1>3. ASSUME NEW i \in Instances, NEW k \in Keys, ReconcileEnsure(i, k) PROVE Client!Next
  <2>1. items' = Ensure(items, k, 0) /\ UNCHANGED batch
    BY <1>3 DEF ReconcileEnsure
  <2>2. UNCHANGED HeldClaims
    BY <1>t, <2>1, CallsKeepClaims, ClaimsStay
  <2> QED
    BY <2>1, <2>2, ClientCalls
<1>4. CASE Tick
  <2>1. items' = Elapse(items)
    BY <1>4 DEF Tick
  <2> QED
    BY <1>t, <1>4, <2>1, TickHolds, ClientCalls
<1> QED
  BY <1>t, <1>2, <1>3, <1>4, CallerCalls, ClaimCalls, ProbeCalls DEF Next

\* A token of a probe names one claim of one instance, as the random tokens promise.
LEMMA ProbesDistinct == Spec => []Distinct
<1>1. Init => Distinct
  BY DEF Init, Distinct
<1>2. Recoverable /\ Distinct /\ [Next /\ UNCHANGED deployment]_<<deployment, vars>> => Distinct'
  BY NextDistinct DEF Recoverable
<1> QED
  BY <1>1, <1>2, RecoverableAlways, PTL DEF Spec

(* The service uses the queue only as its specification allows, for any    *)
(* number of keys, instances and callers and either queue: each step but a *)
(* restart is one call, made with a fresh token or a claim that is held.   *)
THEOREM QueueUsed == Spec => UsesQueue
<1> DEFINE Step == (\E i \in Instances : Restart(i)) \/ Client!Next
<1>1. Recoverable /\ Distinct /\ [Next /\ UNCHANGED deployment]_<<deployment, vars>> => [Step]_(Client!vars)
  <2>1. ASSUME Recoverable, UNCHANGED vars PROVE UNCHANGED Client!vars
    <3>1. KeepsClaims(items, items') /\ UNCHANGED batch
      BY <2>1 DEF KeepsClaims, vars
    <3>2. UNCHANGED HeldClaims
      BY <2>1, <3>1, ClaimsStay DEF Recoverable
    <3> QED
      BY <2>1, <3>2 DEF Client!vars, HeldClaims, vars
  <2>2. ASSUME Recoverable, Distinct, Next PROVE Step \/ UNCHANGED Client!vars
    <3>1. Step \/ UNCHANGED <<items, HeldClaims>>
      BY <2>2, NextCalls
    <3> QED
      BY <3>1 DEF Client!vars, HeldClaims
  <2> QED
    BY <2>1, <2>2
<1> QED
  BY <1>1, ProbesDistinct, RecoverableAlways, PTL DEF Spec, UsesQueue

(* Two probes never have the claim of the same event at the same time,     *)
(* whatever instances they run in.                                         *)
THEOREM OneProbeOwns ==
    Spec => [](\A i1, i2 \in Instances : \A j1 \in batch[i1], j2 \in batch[i2] :
                  /\ j1.key = j2.key
                  /\ HoldsClaim(items, j1.key, j1.token) /\ HoldsClaim(items, j2.key, j2.token)
                  => i1 = i2 /\ j1 = j2)
<1>1. Distinct => \A i1, i2 \in Instances : \A j1 \in batch[i1], j2 \in batch[i2] :
                     /\ j1.key = j2.key
                     /\ HoldsClaim(items, j1.key, j1.token) /\ HoldsClaim(items, j2.key, j2.token)
                     => i1 = i2 /\ j1 = j2
  BY DEF Distinct, HoldsClaim
<1> QED
  BY <1>1, ProbesDistinct, PTL

=============================================================================
