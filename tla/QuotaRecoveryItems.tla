---------------------------- MODULE QuotaRecoveryItems ----------------------------
(***************************************************************************)
(* The data operations of the quota recovery queue: a map from a key (one  *)
(* account and one quota mode) to its pending recovery event.              *)
(*                                                                         *)
(* Source: infra/runtime/memory/quota_queue.go. Every operator is the      *)
(* effect of one method on the map `items`, which the method computes      *)
(* under its mutex.                                                        *)
(*                                                                         *)
(* Time is relative: an event's `due` is the number of ticks until DueAt   *)
(* and stops at 0, when the event is due. The order of DueAt among events  *)
(* that are already due is abstracted away, so a claim takes any of them.  *)
(***************************************************************************)
EXTENDS Integers, FiniteSets

CONSTANTS
    Keys,         \* the account:mode pairs that may have an event
    Tokens,       \* the random claim tokens
    NoToken,      \* the empty ClaimToken of an event nobody owns
    Lease,        \* recoveryClaimLease, in ticks
    Horizon,      \* the farthest DueAt a caller asks for, in ticks
    MaxAttempts,  \* where the attempt counter saturates (its backoff does)
    ClaimLimit,   \* the limit argument of ClaimDueQuotaRecoveries
    Capacity      \* maxQuotaRecoveryEvents

ASSUME ConstantsAssumption ==
    /\ NoToken \notin Tokens
    /\ Lease \in Nat \ {0}
    /\ Horizon \in Nat
    /\ MaxAttempts \in Nat
    /\ ClaimLimit \in Nat \ {0}
    /\ Capacity \in Nat

\* An event waits at most for the longest of a lease and a requested delay.
MaxDue == IF Lease > Horizon THEN Lease ELSE Horizon

Item == [due : 0 .. MaxDue, attempts : 0 .. MaxAttempts, token : Tokens \cup {NoToken}]

\* A queue: the events of some keys.
IsQueue(items) == DOMAIN items \subseteq Keys /\ items \in [DOMAIN items -> Item]

\* The attempt counter of an event whose probe did not find quota.
NextAttempt(n) == IF n < MaxAttempts THEN n + 1 ELSE MaxAttempts

Waiting(d, n) == [due |-> d, attempts |-> n, token |-> NoToken]

Put(items, k, item) == [x \in DOMAIN items \cup {k} |-> IF x = k THEN item ELSE items[x]]

Without(items, k) == [x \in DOMAIN items \ {k} |-> items[x]]

IsClaimed(items, k) == k \in DOMAIN items /\ items[k].token # NoToken

HoldsClaim(items, k, t) == k \in DOMAIN items /\ items[k].token = t

Full(items) == Cardinality(DOMAIN items) >= Capacity

----------------------------------------------------------------------------
\* Wrong: a schedule that takes a claimed event from its owner.
ScheduleOverClaim(items, k, d) ==
    IF k \notin DOMAIN items /\ Full(items) THEN items ELSE Put(items, k, Waiting(d, 0))

(* ScheduleQuotaRecovery: a claimed event keeps its claim and its lease,   *)
(* any other is replaced, and a new one is refused when the queue is full. *)
Schedule(items, k, d) ==
    IF IsClaimed(items, k) \/ (k \notin DOMAIN items /\ Full(items))
    THEN items
    ELSE Put(items, k, Waiting(d, 0))

\* EnsureQuotaRecovery never touches an event that exists.
Ensure(items, k, d) ==
    IF k \in DOMAIN items \/ Full(items) THEN items ELSE Put(items, k, Waiting(d, 0))

\* Wrong: a cancellation that does not look at the claim.
CancelClaimed(items, k) == Without(items, k)

\* CancelQuotaRecovery leaves a claimed event to its owner.
Cancel(items, k) == IF IsClaimed(items, k) THEN items ELSE Without(items, k)

DueKeys(items) == {k \in DOMAIN items : items[k].due = 0}

\* The batches ClaimDueQuotaRecoveries may return: as many due events as the limit allows.
BatchesOf(due) ==
    {S \in SUBSET due :
        Cardinality(S) = IF Cardinality(due) < ClaimLimit THEN Cardinality(due) ELSE ClaimLimit}

ClaimBatches(items) == BatchesOf(DueKeys(items))

\* A claim stamps each event with a token and moves it one lease ahead.
Stamped(item, t) == [due |-> Lease, attempts |-> item.attempts, token |-> t]

Claim(items, S, tok) ==
    [x \in DOMAIN items |-> IF x \in S THEN Stamped(items[x], tok[x]) ELSE items[x]]

\* Wrong: an acknowledgement that does not compare tokens.
AckAnyToken(items, k, t) == Without(items, k)

\* AckQuotaRecovery removes the event only for the token that owns it.
Ack(items, k, t) == IF HoldsClaim(items, k, t) THEN Without(items, k) ELSE items

\* RescheduleQuotaRecovery gives the event back only for the token that owns it.
Reschedule(items, k, t, d, n) ==
    IF HoldsClaim(items, k, t) THEN Put(items, k, Waiting(d, n)) ELSE items

\* Wrong: a claimed event that is never due again.
ElapseUnclaimed(items) ==
    [x \in DOMAIN items |->
        IF IsClaimed(items, x) THEN items[x]
        ELSE [items[x] EXCEPT !.due = IF items[x].due > 0 THEN items[x].due - 1 ELSE 0]]

\* One tick of the clock brings every event one tick closer.
Elapse(items) ==
    [x \in DOMAIN items |->
        [items[x] EXCEPT !.due = IF items[x].due > 0 THEN items[x].due - 1 ELSE 0]]
=============================================================================
