-------------------------- MODULE RedisQuotaRecoveryQueue --------------------------
(***************************************************************************)
(* The quota recovery queue of the Redis runtime store                     *)
(* (infra/runtime/redis/store.go): one sorted set of due times and two     *)
(* hashes, attempts and claim tokens, all keyed by the event. Every method *)
(* is one Lua script, hence one atomic step; the commands of the script    *)
(* appear here one by one, on the structure each of them touches.          *)
(*                                                                         *)
(* The scripts never compare the three structures with each other: that    *)
(* they stay consistent, and that the queue is therefore the one of        *)
(* QuotaRecoveryQueue, is what the refinement below states.                *)
(***************************************************************************)
EXTENDS QuotaRecoveryItems

VARIABLES
    events,    \* sorted set: key -> ticks until it is due
    attempts,  \* hash: key -> attempts
    tokens,    \* hash: key -> claim token
    claims     \* the claims workers hold

redisVars == <<events, attempts, tokens, claims>>

\* The claims a worker holds, as in QuotaRecoveryQueue.
ClaimRecord ==
    [key : Keys, token : Tokens, attempts : 0 .. MaxAttempts, lease : 0 .. Lease]

RedisTypeOK ==
    /\ DOMAIN events \subseteq Keys
    /\ events \in [DOMAIN events -> 0 .. MaxDue]
    /\ DOMAIN attempts \subseteq Keys
    /\ attempts \in [DOMAIN attempts -> 0 .. MaxAttempts]
    /\ DOMAIN tokens \subseteq Keys
    /\ tokens \in [DOMAIN tokens -> Tokens]
    /\ claims \subseteq ClaimRecord

Empty == [k \in {} |-> 0]

RedisInit ==
    /\ events = Empty
    /\ attempts = Empty
    /\ tokens = Empty
    /\ claims = {}

\* HGET of a claim, and of the attempts with the script's default.
OwnedBy(k, t) == k \in DOMAIN tokens /\ tokens[k] = t

AttemptsOf(k) == IF k \in DOMAIN attempts THEN attempts[k] ELSE 0

\* One random token per call, never one still in use.
TokenUnused(k, t) ==
    /\ ~ OwnedBy(k, t)
    /\ \A c \in claims : ~ (c.key = k /\ c.token = t)

ZFull == Cardinality(DOMAIN events) >= Capacity

----------------------------------------------------------------------------
\* scheduleQuotaRecoveryScript
ScheduleQuotaRecovery(k, d) ==
    /\ k \in DOMAIN events \/ ~ ZFull
    /\ k \notin DOMAIN tokens
    /\ events' = Put(events, k, d)
    /\ attempts' = Put(attempts, k, 0)
    /\ tokens' = Without(tokens, k)
    /\ UNCHANGED claims

\* ensureQuotaRecoveryScript: it neither reads nor clears the claims.
EnsureQuotaRecovery(k) ==
    /\ k \notin DOMAIN events
    /\ ~ ZFull
    /\ events' = Put(events, k, 0)
    /\ attempts' = Put(attempts, k, 0)
    /\ UNCHANGED <<tokens, claims>>

\* Wrong: a cancellation that does not look at the claim.
CancelClaimedEvent(k) ==
    /\ attempts' = Without(attempts, k)
    /\ tokens' = Without(tokens, k)
    /\ events' = Without(events, k)
    /\ UNCHANGED claims

\* cancelQuotaRecoveryScript
CancelQuotaRecovery(k) ==
    /\ k \notin DOMAIN tokens
    /\ attempts' = Without(attempts, k)
    /\ tokens' = Without(tokens, k)
    /\ events' = Without(events, k)
    /\ UNCHANGED claims

DueEvents == {k \in DOMAIN events : events[k] = 0}

\* claimQuotaRecoveryScript: one token for the whole batch.
Stamp(S, t) ==
    /\ events' = [k \in DOMAIN events |-> IF k \in S THEN Lease ELSE events[k]]
    /\ tokens' = [k \in DOMAIN tokens \cup S |-> IF k \in S THEN t ELSE tokens[k]]
    /\ UNCHANGED attempts

Batches == BatchesOf(DueEvents)

ClaimDueQuotaRecoveries ==
    \E S \in Batches, t \in Tokens :
        /\ S # {}
        /\ \A k \in S : TokenUnused(k, t)
        /\ Stamp(S, t)
        /\ claims' = claims \cup
             {[key |-> k, token |-> t, attempts |-> AttemptsOf(k), lease |-> Lease] : k \in S}

\* The script ran and its answer was lost on the way back.
ClaimLost ==
    \E S \in Batches, t \in Tokens :
        /\ S # {}
        /\ \A k \in S : TokenUnused(k, t)
        /\ Stamp(S, t)
        /\ UNCHANGED claims

\* Wrong: an acknowledgement that forgets the claim's token.
AckLeavesToken(c) ==
    /\ IF OwnedBy(c.key, c.token)
       THEN /\ attempts' = Without(attempts, c.key)
            /\ events' = Without(events, c.key)
            /\ UNCHANGED tokens
       ELSE UNCHANGED <<events, attempts, tokens>>
    /\ claims' = claims \ {c}

\* ackQuotaRecoveryScript
AckQuotaRecovery(c) ==
    /\ IF OwnedBy(c.key, c.token)
       THEN /\ attempts' = Without(attempts, c.key)
            /\ tokens' = Without(tokens, c.key)
            /\ events' = Without(events, c.key)
       ELSE UNCHANGED <<events, attempts, tokens>>
    /\ claims' = claims \ {c}

\* rescheduleQuotaRecoveryScript
RescheduleQuotaRecovery(c, d) ==
    /\ IF OwnedBy(c.key, c.token)
       THEN /\ events' = Put(events, c.key, d)
            /\ attempts' = Put(attempts, c.key, NextAttempt(c.attempts))
            /\ tokens' = Without(tokens, c.key)
       ELSE UNCHANGED <<events, attempts, tokens>>
    /\ claims' = claims \ {c}

\* The worker's context ends before it can answer, or its process does.
Abandon(c) ==
    /\ claims' = claims \ {c}
    /\ UNCHANGED <<events, attempts, tokens>>

Aged(c) == [c EXCEPT !.lease = IF c.lease > 0 THEN c.lease - 1 ELSE 0]

RedisTick ==
    /\ events' = [k \in DOMAIN events |-> IF events[k] > 0 THEN events[k] - 1 ELSE 0]
    /\ claims' = {Aged(c) : c \in claims}
    /\ UNCHANGED <<attempts, tokens>>

RedisNext ==
    \/ \E k \in Keys, d \in 0 .. Horizon : ScheduleQuotaRecovery(k, d)
    \/ \E k \in Keys : EnsureQuotaRecovery(k)
    \/ \E k \in Keys : CancelQuotaRecovery(k)
    \/ ClaimDueQuotaRecoveries
    \/ ClaimLost
    \/ \E c \in claims : AckQuotaRecovery(c)
    \/ \E c \in claims, d \in 0 .. Horizon : RescheduleQuotaRecovery(c, d)
    \/ \E c \in claims : Abandon(c)
    \/ RedisTick

RedisSpec == RedisInit /\ [][RedisNext]_redisVars

----------------------------------------------------------------------------
(* The three structures describe the same events: every event has its      *)
(* attempts, no attempts outlive their event, and a claim token only ever  *)
(* belongs to an event that is in the sorted set. EnsureQuotaRecovery      *)
(* relies on it: it adds an event without looking at the claims.           *)
StructuresAgree ==
    /\ DOMAIN attempts = DOMAIN events
    /\ DOMAIN tokens \subseteq DOMAIN events

\* The event of the abstract queue that a key's three entries stand for.
Event(k) ==
    [due |-> events[k],
     attempts |-> AttemptsOf(k),
     token |-> IF k \in DOMAIN tokens THEN tokens[k] ELSE NoToken]

Items == [k \in DOMAIN events |-> Event(k)]

Queue == INSTANCE QuotaRecoveryQueue WITH items <- Items, claims <- claims

(* Seen through Items the three Redis structures behave as the in-process  *)
(* queue does: both drivers of repository.QuotaRecoveryQueue keep the same *)
(* promise to the recovery workers.                                        *)
RefinesQueue == Queue!Spec
=============================================================================
