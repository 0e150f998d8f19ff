---------------------------- MODULE QuotaRecoveryQueue ----------------------------
(***************************************************************************)
(* The quota recovery queue of the in-process runtime store                *)
(* (infra/runtime/memory/quota_queue.go) with every client it may have:    *)
(* refreshes schedule and cancel events, the reconciler ensures them, and  *)
(* recovery workers claim due events for a lease and later acknowledge,    *)
(* reschedule or simply lose the claim (a cancelled context, a crash).     *)
(*                                                                         *)
(* `claims` is what workers hold: a copy of the event as it was handed     *)
(* out, with the rest of its lease. A claim outlives its lease, and the    *)
(* event may then be claimed again: its first owner has become stale.      *)
(***************************************************************************)
EXTENDS QuotaRecoveryItems

VARIABLES
    items,   \* the queue: a map from keys to events
    claims   \* the claims workers hold

vars == <<items, claims>>

ClaimRecord ==
    [key : Keys, token : Tokens, attempts : 0 .. MaxAttempts, lease : 0 .. Lease]

TypeOK ==
    /\ IsQueue(items)
    /\ claims \subseteq ClaimRecord

Init ==
    /\ items = [k \in {} |-> Waiting(0, 0)]
    /\ claims = {}

\* A random token is never one that is still in use for the same event.
TokenFree(k, t) ==
    /\ ~ HoldsClaim(items, k, t)
    /\ \A c \in claims : ~ (c.key = k /\ c.token = t)

----------------------------------------------------------------------------
ScheduleQuotaRecovery(k, d) ==
    /\ items' = Schedule(items, k, d)
    /\ UNCHANGED claims

EnsureQuotaRecovery(k) ==
    /\ items' = Ensure(items, k, 0)
    /\ UNCHANGED claims

CancelQuotaRecovery(k) ==
    /\ items' = Cancel(items, k)
    /\ UNCHANGED claims

ClaimDueQuotaRecoveries ==
    \E S \in ClaimBatches(items) :
        \E tok \in [S -> Tokens] :
            /\ \A k \in S : TokenFree(k, tok[k])
            /\ items' = Claim(items, S, tok)
            /\ claims' = claims \cup
                 {[key |-> k, token |-> tok[k], attempts |-> items[k].attempts, lease |-> Lease] :
                     k \in S}

(* The call fails after some events of its batch were stamped: a token     *)
(* could not be drawn, or the answer never reached the caller. Nobody      *)
(* holds the claims.                                                       *)
ClaimLost ==
    \E batch \in ClaimBatches(items) :
        \E S \in SUBSET batch :
            \E tok \in [S -> Tokens] :
                /\ S # {}
                /\ \A k \in S : TokenFree(k, tok[k])
                /\ items' = Claim(items, S, tok)
                /\ UNCHANGED claims

AckQuotaRecovery(c) ==
    /\ items' = Ack(items, c.key, c.token)
    /\ claims' = claims \ {c}

RescheduleQuotaRecovery(c, d) ==
    /\ items' = Reschedule(items, c.key, c.token, d, NextAttempt(c.attempts))
    /\ claims' = claims \ {c}

\* The worker's context ends before it can answer, or its process does.
Abandon(c) ==
    /\ claims' = claims \ {c}
    /\ UNCHANGED items

Aged(c) == [c EXCEPT !.lease = IF c.lease > 0 THEN c.lease - 1 ELSE 0]

Tick ==
    /\ items' = Elapse(items)
    /\ claims' = {Aged(c) : c \in claims}

Next ==
    \/ \E k \in Keys, d \in 0 .. Horizon : ScheduleQuotaRecovery(k, d)
    \/ \E k \in Keys : EnsureQuotaRecovery(k)
    \/ \E k \in Keys : CancelQuotaRecovery(k)
    \/ ClaimDueQuotaRecoveries
    \/ ClaimLost
    \/ \E c \in claims : AckQuotaRecovery(c)
    \/ \E c \in claims, d \in 0 .. Horizon : RescheduleQuotaRecovery(c, d)
    \/ \E c \in claims : Abandon(c)
    \/ Tick

Spec == Init /\ [][Next]_vars

\* Time passes; nothing else is owed by the clients.
FairSpec == Spec /\ WF_vars(Tick)

----------------------------------------------------------------------------
(* While a lease runs its claim owns the event: whatever refreshes,        *)
(* cancellations and stale workers did in between, the queue still holds   *)
(* the event with this claim's token, and will not hand it out before the  *)
(* lease ends (quota_queue.go:64 "A recovery worker owns a claimed event   *)
(* until it acknowledges or reschedules it").                              *)
LiveClaimOwnsEvent ==
    \A c \in claims : c.lease > 0 =>
        /\ c.key \in DOMAIN items
        /\ items[c.key].token = c.token
        /\ items[c.key].due = c.lease

(* Two workers never probe the same account and mode inside their leases.  *)
OneLiveClaim ==
    \A c1, c2 \in claims :
        c1.key = c2.key /\ c1.lease > 0 /\ c2.lease > 0 => c1 = c2

\* A token names one claim of an event: what was handed out twice has two tokens.
TokensDistinct ==
    \A c1, c2 \in claims : c1.key = c2.key /\ c1.token = c2.token => c1 = c2

(* A worker whose lease expired and whose event was claimed again answers  *)
(* in vain: neither its acknowledgement nor its reschedule changes the     *)
(* queue (the ErrConflict of AckQuotaRecovery and RescheduleQuotaRecovery).*)
StaleAnswerInert ==
    [][\A c \in claims :
          (c \notin claims' /\ \A d \in claims' : ~ (d.key = c.key /\ d.token = c.token))
              /\ ~ HoldsClaim(items, c.key, c.token)
          => items' = items]_vars

(* An event disappears only by a cancellation while nobody owns it, or by  *)
(* the answer of the very claim that owns it.                              *)
EventRemovedByOwner ==
    [][\A k \in DOMAIN items \ DOMAIN items' :
          IsClaimed(items, k) =>
              \E c \in claims \ claims' : c.key = k /\ c.token = items[k].token]_vars

(* A claim whose worker is gone does not strand the event: its lease runs  *)
(* out and it is due again, unless it was answered before.                 *)
ClaimRunsOut ==
    \A k \in Keys : IsClaimed(items, k) ~> (~ IsClaimed(items, k) \/ items[k].due = 0)
=============================================================================
