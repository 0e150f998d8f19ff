------------------------------- MODULE QuotaRecovery -------------------------------
(***************************************************************************)
(* Quota recovery end to end: the quota windows in the database, the       *)
(* recovery queue, the recovery loop of every instance                     *)
(* (application/quotarecovery/service.go) and the request-side callers     *)
(* that exhaust, consume and refresh windows (application/account/         *)
(* service.go), over an upstream whose quota comes and goes.               *)
(*                                                                         *)
(* A probe and a refresh read the upstream, save the snapshot and then     *)
(* update the queue in separate steps; a 429 reads the window to predict   *)
(* its reset, persists the exhaustion and then schedules the event. All of *)
(* them interleave, a claim may outlive its lease, and an instance may     *)
(* restart between any two steps.                                          *)
(***************************************************************************)
EXTENDS QuotaRecoveryItems

CONSTANTS
    Instances,     \* the gateway instances that share the database
    Callers,       \* request-side operations in flight at a time
    Home,          \* the instance each caller runs in
    WebKeys,       \* Grok Web modes: every snapshot carries a reset time
    ChatKeys,      \* the Console chat mode: only an exhausted snapshot does
    Deployments,   \* the deployments to consider, one of which Init chooses
    ResetAfter,    \* ticks until the reset an upstream snapshot reports
    ProbeDelay,    \* the delay predicted when a window has no reset
    BackoffBase,   \* recovery backoff, in ticks
    BackoffMax,
    MaxFaults      \* bound: restarts, failed probes and failed calls

ASSUME RecoveryAssumption ==
    /\ Keys # {} /\ IsFiniteSet(Keys) /\ Instances # {}
    /\ Home \in [Callers -> Instances]
    /\ WebKeys \subseteq Keys /\ ChatKeys \subseteq Keys
    /\ Deployments \subseteq
         [durable : BOOLEAN, restarts : BOOLEAN, faults : 0 .. MaxFaults,
          instances : SUBSET Instances, callers : SUBSET Callers]
    /\ \A d \in Deployments :
         /\ \A c \in d.callers : Home[c] \in d.instances
         /\ ~ d.durable => Cardinality(d.instances) = 1
    /\ ResetAfter \in 1 .. Horizon
    /\ ProbeDelay \in 1 .. Horizon
    /\ BackoffBase \in 1 .. Horizon
    /\ BackoffMax \in BackoffBase .. Horizon
    /\ MaxFaults \in Nat

(* The deployment never changes: it is a variable only so that one run can *)
(* check several. durable: the Redis queue, or else the in-process one;    *)
(* restarts: may an instance restart? faults: how many faults there are.   *)
VARIABLE deployment

VARIABLES
    upstream,  \* does the upstream have quota for this key?
    window,    \* the persisted quota window of each key
    items,     \* the recovery queue
    batch,     \* per instance, the probes of the batch it claimed
    listed,    \* per instance, the due windows reconcileDue still has to ensure
    call,      \* per caller, its operation in flight
    faults,    \* restarts, failed probes and failed calls so far
    blind      \* history: the windows exhausted with no reset time at all

vars == <<upstream, window, items, batch, listed, call, faults, blind>>

NoReset == -1

\* left: Remaining > 0. reset: ticks until ResetAt, 0 once it has passed.
Window == [left : BOOLEAN, reset : NoReset .. Horizon]

NoWindow == [left |-> FALSE, reset |-> NoReset]

Job == [key : Keys, token : Tokens, attempts : 0 .. MaxAttempts,
        stage : {"claimed", "fetched", "saved", "shared", "failed"}, seen : Window]

\* A caller is idle, or it refreshes or exhausts a window.
Call == [op : {"idle", "refresh", "exhaust"}, stage : {"started", "fetched", "saved", "shared"},
         key : Keys, seen : Window]

Idle == [op |-> "idle", stage |-> "started", key |-> CHOOSE k \in Keys : TRUE, seen |-> NoWindow]

TypeOK ==
    /\ deployment \in Deployments
    /\ upstream \in [Keys -> BOOLEAN]
    /\ window \in [Keys -> Window]
    /\ IsQueue(items)
    /\ batch \in [Instances -> SUBSET Job]
    /\ listed \in [Instances -> SUBSET Keys]
    /\ call \in [Callers -> Call]
    /\ faults \in 0 .. MaxFaults
    /\ blind \subseteq Keys

\* Every account was synchronised once, with quota left.
Snapshot(k) ==
    [left |-> upstream[k],
     reset |-> IF k \in WebKeys \/ (k \in ChatKeys /\ ~ upstream[k]) THEN ResetAfter ELSE NoReset]

Init ==
    /\ deployment \in Deployments
    /\ upstream = [k \in Keys |-> TRUE]
    /\ window = [k \in Keys |-> Snapshot(k)]
    /\ items = [k \in {} |-> Waiting(0, 0)]
    /\ batch = [i \in Instances |-> {}]
    /\ listed = [i \in Instances |-> {}]
    /\ call = [c \in Callers |-> Idle]
    /\ faults = 0
    /\ blind = {}

----------------------------------------------------------------------------
(* The environment: the upstream quota, and time.                          *)

Consume(k) ==
    /\ upstream[k]
    /\ upstream' = [upstream EXCEPT ![k] = FALSE]
    /\ UNCHANGED <<window, items, batch, listed, call, faults, blind>>

Refill(k) ==
    /\ ~ upstream[k]
    /\ upstream' = [upstream EXCEPT ![k] = TRUE]
    /\ UNCHANGED <<window, items, batch, listed, call, faults, blind>>

Closer(w) == [w EXCEPT !.reset = IF w.reset > 0 THEN w.reset - 1 ELSE w.reset]

Tick ==
    /\ items' = Elapse(items)
    /\ window' = [k \in Keys |-> Closer(window[k])]
    /\ batch' = [i \in Instances |-> {[j EXCEPT !.seen = Closer(j.seen)] : j \in batch[i]}]
    /\ call' = [c \in Callers |-> [call[c] EXCEPT !.seen = Closer(call[c].seen)]]
    /\ UNCHANGED <<upstream, listed, faults, blind>>

----------------------------------------------------------------------------
(* The request side.                                                       *)

\* quotaRecoveryDueAt of an exhausted upstream window; 0 delay never occurs.
DueIn(w) == IF w.reset > 0 THEN w.reset ELSE ProbeDelay

(* Console modes and refreshes of the whole account share one singleflight *)
(* key per instance. (The modes of a Web account have one key each, and    *)
(* another when the whole account is refreshed.)                           *)
FlightFree(i, k) ==
    k \notin WebKeys =>
        /\ \A j \in batch[i] : ~ (j.key = k /\ j.stage = "fetched")
        /\ \A c \in Callers :
              ~ (Home[c] = i /\ call[c].op = "refresh" /\ call[c].key = k
                             /\ call[c].stage = "fetched")

(* Whoever comes before a flight is over shares its result, once that is   *)
(* saved: the snapshots that a call for k may get so in instance i.        *)
Results(i, k) ==
    {j.seen : j \in {x \in batch[i] : x.key = k /\ x.stage = "saved"}}
    \cup {call[c].seen : c \in {x \in Callers : /\ Home[x] = i /\ call[x].op = "refresh"
                                               /\ call[x].key = k /\ call[x].stage = "saved"}}

\* A request gets 429: with a Retry-After of d ticks, or without one and to be predicted.
RateLimited(c, k, d) ==
    /\ c \in deployment.callers
    /\ call[c].op = "idle"
    /\ ~ upstream[k]
    /\ call' = [call EXCEPT ![c] =
                  [op |-> "exhaust", stage |-> IF d = NoReset THEN "started" ELSE "fetched",
                   key |-> k, seen |-> [left |-> FALSE, reset |-> d]]]
    /\ UNCHANGED <<upstream, window, items, batch, listed, faults, blind>>

\* ExhaustQuota predicts the reset it was not told from the persisted window, if it can read it.
ExhaustRead(c) ==
    /\ call[c].op = "exhaust"
    /\ call[c].stage = "started"
    /\ \/ /\ call' = [call EXCEPT ![c].stage = "fetched",
                                  ![c].seen.reset = DueIn(window[call[c].key])]
          /\ UNCHANGED faults
       \/ /\ faults < deployment.faults
          /\ faults' = faults + 1
          /\ call' = [call EXCEPT ![c].stage = "fetched"]
    /\ UNCHANGED <<upstream, window, items, batch, listed, blind>>

\* A saved window is blind when it is exhausted by a call that knows no reset.
Sighted(k) == blind' = blind \ {k}

\* It persists the exhaustion in any case ...
ExhaustWindow(c) ==
    /\ call[c].op = "exhaust"
    /\ call[c].stage = "fetched"
    /\ LET k == call[c].key IN
       /\ window' = [window EXCEPT ![k] = call[c].seen]
       /\ IF call[c].seen.reset = NoReset
          THEN call' = [call EXCEPT ![c] = Idle] /\ blind' = blind \cup {k}
          ELSE call' = [call EXCEPT ![c].stage = "saved"] /\ Sighted(k)
    /\ UNCHANGED <<upstream, items, batch, listed, faults>>

\* ... and schedules the event if there is a time for it.
ExhaustSchedule(c) ==
    /\ call[c].op = "exhaust"
    /\ call[c].stage = "saved"
    /\ items' = Schedule(items, call[c].key, call[c].seen.reset)
    /\ call' = [call EXCEPT ![c] = Idle]
    /\ UNCHANGED <<upstream, window, batch, listed, faults, blind>>

\* Saving the exhaustion or scheduling its event fails.
ExhaustFails(c) ==
    /\ call[c].op = "exhaust"
    /\ call[c].stage \in {"fetched", "saved"}
    /\ faults < deployment.faults
    /\ faults' = faults + 1
    /\ call' = [call EXCEPT ![c] = Idle]
    /\ UNCHANGED <<upstream, window, items, batch, listed, blind>>

\* Wrong: the consumed window loses its reset.
DecrementClearsReset(c, k) ==
    /\ c \in deployment.callers
    /\ call[c].op = "idle"
    /\ window[k].left
    /\ window' = [window EXCEPT ![k] = NoWindow]
    /\ call' = [call EXCEPT ![c] =
                  [op |-> "refresh", stage |-> "started", key |-> k, seen |-> NoWindow]]
    /\ UNCHANGED <<upstream, items, batch, listed, faults, blind>>

(* A successful request consumes the persisted window; when it takes the   *)
(* last unit the window keeps its reset and nothing is scheduled. The      *)
(* request then queues a refresh.                                          *)
DecrementQuota(c, k) ==
    /\ c \in deployment.callers
    /\ call[c].op = "idle"
    /\ window[k].left
    /\ window' = [window EXCEPT ![k].left = FALSE]
    /\ call' = [call EXCEPT ![c] =
                  [op |-> "refresh", stage |-> "started", key |-> k, seen |-> NoWindow]]
    /\ UNCHANGED <<upstream, items, batch, listed, faults, blind>>

\* A manual, periodic or queued refresh of the key.
StartRefresh(c, k) ==
    /\ c \in deployment.callers
    /\ call[c].op = "idle"
    /\ call' = [call EXCEPT ![c] =
                  [op |-> "refresh", stage |-> "started", key |-> k, seen |-> NoWindow]]
    /\ UNCHANGED <<upstream, window, items, batch, listed, faults, blind>>

RefreshFetch(c) ==
    /\ call[c].op = "refresh"
    /\ call[c].stage = "started"
    /\ FlightFree(Home[c], call[c].key)
    /\ call' = [call EXCEPT ![c].stage = "fetched", ![c].seen = Snapshot(call[c].key)]
    /\ UNCHANGED <<upstream, window, items, batch, listed, faults, blind>>

RefreshSave(c) ==
    /\ call[c].op = "refresh"
    /\ call[c].stage = "fetched"
    /\ window' = [window EXCEPT ![call[c].key] = call[c].seen]
    /\ call' = [call EXCEPT ![c].stage = "saved"]
    /\ Sighted(call[c].key)
    /\ UNCHANGED <<upstream, items, batch, listed, faults>>

\* The refresh shares the flight of another and reconciles what that one saved.
RefreshJoin(c) ==
    /\ call[c].op = "refresh"
    /\ call[c].stage = "started"
    /\ \E seen \in Results(Home[c], call[c].key) :
          call' = [call EXCEPT ![c].stage = "shared", ![c].seen = seen]
    /\ UNCHANGED <<upstream, window, items, batch, listed, faults, blind>>

\* reconcileQuotaRecoveryWindow: schedule an exhausted window, cancel any other.
RefreshReconcile(c) ==
    /\ call[c].op = "refresh"
    /\ call[c].stage \in {"saved", "shared"}
    /\ items' = IF call[c].seen.left
                THEN Cancel(items, call[c].key)
                ELSE Schedule(items, call[c].key, DueIn(call[c].seen))
    /\ call' = [call EXCEPT ![c] = Idle]
    /\ UNCHANGED <<upstream, window, batch, listed, faults, blind>>

(* Reading, saving or reconciling fails. The refresh queue repeats its     *)
(* refresh (QuotaRefresh), and so does whoever asked by hand or by timer.  *)
RefreshFails(c) ==
    /\ call[c].op = "refresh"
    /\ call[c].stage \in {"fetched", "saved", "shared"}
    /\ faults < deployment.faults
    /\ faults' = faults + 1
    /\ call' = [call EXCEPT ![c].stage = "started", ![c].seen = NoWindow]
    /\ UNCHANGED <<upstream, window, items, batch, listed, blind>>

----------------------------------------------------------------------------
(* The recovery loop of an instance: one goroutine, so it claims only when *)
(* its batch is finished and its reconcile pass is over.                   *)

LoopFree(i) == batch[i] = {} /\ listed[i] = {}

TokenFree(k, t) ==
    /\ ~ HoldsClaim(items, k, t)
    /\ \A i \in Instances : \A j \in batch[i] : ~ (j.key = k /\ j.token = t)

(* runDue. A token is a random number, so any that nobody holds will do:    *)
(* the model always takes the same one.                                    *)
ClaimDue(i) ==
    /\ i \in deployment.instances
    /\ LoopFree(i)
    /\ \E S \in ClaimBatches(items) :
         /\ S # {}
         /\ \A k \in S : \E t \in Tokens : TokenFree(k, t)
         /\ LET tok == [k \in S |-> CHOOSE t \in Tokens : TokenFree(k, t)]
            IN  /\ items' = Claim(items, S, tok)
                /\ batch' = [batch EXCEPT ![i] =
                     {[key |-> k, token |-> tok[k], attempts |-> items[k].attempts,
                       stage |-> "claimed", seen |-> NoWindow] : k \in S}]
    /\ UNCHANGED <<upstream, window, listed, call, faults, blind>>

Advance(i, j, stage, seen) ==
    batch' = [batch EXCEPT ![i] = (@ \ {j}) \cup {[j EXCEPT !.stage = stage, !.seen = seen]}]

\* ProbeQuotaMode reads the upstream ...
ProbeFetch(i, j) ==
    /\ j.stage = "claimed"
    /\ FlightFree(i, j.key)
    /\ Advance(i, j, "fetched", Snapshot(j.key))
    /\ UNCHANGED <<upstream, window, items, listed, call, faults, blind>>

\* ... saves what it saw ...
ProbeSave(i, j) ==
    /\ j.stage = "fetched"
    /\ window' = [window EXCEPT ![j.key] = j.seen]
    /\ Sighted(j.key)
    /\ Advance(i, j, "saved", j.seen)
    /\ UNCHANGED <<upstream, items, listed, call, faults>>

\* ... or shares what a refresh of its instance has read and saved ...
ProbeJoin(i, j) ==
    /\ j.stage = "claimed"
    /\ \E seen \in Results(i, j.key) : Advance(i, j, "shared", seen)
    /\ UNCHANGED <<upstream, window, items, listed, call, faults, blind>>

\* ... or fails: an upstream or database error, or its 30 second timeout.
ProbeFail(i, j) ==
    /\ j.stage \in {"claimed", "fetched"}
    /\ faults < deployment.faults
    /\ Advance(i, j, "failed", NoWindow)
    /\ faults' = faults + 1
    /\ UNCHANGED <<upstream, window, items, listed, call, blind>>

Probed(j) == j.stage \in {"saved", "shared"}

\* Wrong: the worker finishes without answering its claim.
ProbeForgetsAck(i, j) ==
    /\ Probed(j)
    /\ j.seen.left
    /\ batch' = [batch EXCEPT ![i] = @ \ {j}]
    /\ UNCHANGED <<upstream, window, items, listed, call, faults, blind>>

\* Wrong: a window with quota ends its event whoever has claimed it since.
ProbeCancels(i, j) ==
    /\ Probed(j)
    /\ j.seen.left
    /\ items' = Without(items, j.key)
    /\ batch' = [batch EXCEPT ![i] = @ \ {j}]
    /\ UNCHANGED <<upstream, window, listed, call, faults, blind>>

\* runOne acknowledges a window with quota ...
ProbeAck(i, j) ==
    /\ Probed(j)
    /\ j.seen.left
    /\ items' = Ack(items, j.key, j.token)
    /\ batch' = [batch EXCEPT ![i] = @ \ {j}]
    /\ UNCHANGED <<upstream, window, listed, call, faults, blind>>

\* What is left of a backoff that doubles with every failed probe, up to its maximum.
Backoff(failed) == {d \in 0 .. BackoffMax : d <= BackoffBase * 2 ^ failed}

(* The next DueAt of a probe without quota. The window length of a Web     *)
(* mode equals the reset its snapshot carries; predictions and backoff     *)
(* count from the claim, so any part of them may have passed already.      *)
NextDue(j) ==
    IF Probed(j) /\ j.seen.reset > 0 THEN {j.seen.reset}
    ELSE IF Probed(j) /\ j.key \in ChatKeys THEN 0 .. ProbeDelay
    ELSE IF Probed(j) /\ j.key \in WebKeys THEN 0 .. ResetAfter
    ELSE Backoff(j.attempts)

\* ... and reschedules the event otherwise.
ProbeReschedule(i, j) ==
    /\ j.stage = "failed" \/ (Probed(j) /\ ~ j.seen.left)
    /\ \E d \in NextDue(j) :
          items' = Reschedule(items, j.key, j.token, d, NextAttempt(j.attempts))
    /\ batch' = [batch EXCEPT ![i] = @ \ {j}]
    /\ UNCHANGED <<upstream, window, listed, call, faults, blind>>

DueWindows == {k \in Keys : ~ window[k].left /\ window[k].reset = 0}

\* reconcileDue: list the due windows, then ensure an event for each.
ReconcileList(i) ==
    /\ i \in deployment.instances
    /\ LoopFree(i)
    /\ listed' = [listed EXCEPT ![i] = DueWindows]
    /\ UNCHANGED <<upstream, window, items, batch, call, faults, blind>>

\* Wrong: the pass drops the window without ensuring its event.
ReconcileSkips(i, k) ==
    /\ k \in listed[i]
    /\ listed' = [listed EXCEPT ![i] = @ \ {k}]
    /\ UNCHANGED <<upstream, window, items, batch, call, faults, blind>>

ReconcileEnsure(i, k) ==
    /\ k \in listed[i]
    /\ items' = Ensure(items, k, 0)
    /\ listed' = [listed EXCEPT ![i] = @ \ {k}]
    /\ UNCHANGED <<upstream, window, batch, call, faults, blind>>

----------------------------------------------------------------------------
(* An instance restarts: its claims and calls are gone, and with the       *)
(* in-process store the queue is. Startup schedules the exhausted windows  *)
(* that have a reset time before it serves, and fails when the queue       *)
(* refuses one: a Restart is a startup that succeeds.                      *)
Exhausted == {k \in Keys : ~ window[k].left /\ window[k].reset # NoReset}

\* ListQuotaRecoveryWindows: at most as many of them as the queue has room for.
Recalled ==
    {S \in SUBSET Exhausted :
        Cardinality(S) = IF Cardinality(Exhausted) < Capacity THEN Cardinality(Exhausted) ELSE Capacity}

Rehydrated(q, S) ==
    [k \in DOMAIN q \cup S |->
        IF k \in S /\ ~ IsClaimed(q, k) THEN Waiting(window[k].reset, 0) ELSE q[k]]

Restart(i) ==
    /\ i \in deployment.instances
    /\ deployment.restarts
    /\ faults < deployment.faults
    /\ faults' = faults + 1
    /\ LET q == IF deployment.durable THEN items ELSE [k \in {} |-> Waiting(0, 0)]
       IN  \E S \in Recalled :
              /\ S \subseteq DOMAIN q \/ Cardinality(DOMAIN q \cup S) <= Capacity
              /\ items' = Rehydrated(q, S)
    /\ batch' = [batch EXCEPT ![i] = {}]
    /\ listed' = [listed EXCEPT ![i] = {}]
    /\ call' = [c \in Callers |-> IF Home[c] = i THEN Idle ELSE call[c]]
    /\ UNCHANGED <<upstream, window, blind>>

----------------------------------------------------------------------------
CallerStep(c) ==
    \/ ExhaustRead(c) \/ ExhaustWindow(c) \/ ExhaustSchedule(c) \/ ExhaustFails(c)
    \/ RefreshFetch(c) \/ RefreshSave(c) \/ RefreshJoin(c) \/ RefreshReconcile(c)
    \/ RefreshFails(c)

ProbeStep(i) ==
    \E j \in batch[i] :
        \/ ProbeFetch(i, j) \/ ProbeSave(i, j) \/ ProbeJoin(i, j) \/ ProbeFail(i, j)
        \/ ProbeAck(i, j) \/ ProbeReschedule(i, j)

Next ==
    \/ \E k \in Keys : Consume(k)
    \/ \E k \in Keys : Refill(k)
    \/ Tick
    \/ \E c \in Callers, k \in Keys, d \in {NoReset} \cup 1 .. Horizon : RateLimited(c, k, d)
    \/ \E c \in Callers, k \in Keys : DecrementQuota(c, k)
    \/ \E c \in Callers, k \in Keys : StartRefresh(c, k)
    \/ \E c \in Callers : CallerStep(c)
    \/ \E i \in Instances : ClaimDue(i)
    \/ \E i \in Instances : ProbeStep(i)
    \/ \E i \in Instances : ReconcileList(i)
    \/ \E i \in Instances, k \in Keys : ReconcileEnsure(i, k)
    \/ \E i \in Instances : Restart(i)

Spec == Init /\ [][Next /\ UNCHANGED deployment]_<<deployment, vars>>

(* Time passes, a call or a probe in progress goes on, and the recovery    *)
(* loop keeps serving both of its tickers: its select chooses among the    *)
(* tickers that are ready at random, so neither is passed over for ever.   *)
Fairness ==
    /\ WF_vars(Tick)
    /\ \A c \in Callers : WF_vars(CallerStep(c))
    /\ \A i \in Instances :
         /\ WF_vars(ProbeStep(i))
         /\ SF_vars(ClaimDue(i))
         /\ SF_vars(ReconcileList(i))
         /\ WF_vars(\E k \in Keys : ReconcileEnsure(i, k))

FairSpec == Spec /\ Fairness

----------------------------------------------------------------------------
(* Once the upstream has quota again for good, a Grok Web window is found  *)
(* with quota again and again: neither stale snapshots, dropped schedules, *)
(* expired leases, failed probes nor restarts leave it exhausted for ever  *)
(* (reconcileDue repairs what the queue lost). The exception: a window     *)
(* exhausted without a reset time, because it could not be read when the   *)
(* 429 came, waits for somebody to refresh it.                             *)
WindowRecovers ==
    \A k \in WebKeys : (<>[]upstream[k]) => ([]<>(window[k].left \/ k \in blind))

(* Every claimed event of the in-process queue is settled: a worker        *)
(* answers it, or its lease ends and its instance claims it again.         *)
ClaimSettles ==
    \A k \in Keys : ~ deployment.durable /\ IsClaimed(items, k) ~> ~ IsClaimed(items, k)

(* What reconcileDue and the startup rehydration rely on: an exhausted Web *)
(* window has the reset time they find it by, whatever was saved over what *)
(* and in whatever order. The exception: the last to exhaust it was a 429  *)
(* without a Retry-After, whose call could not read the window.            *)
ExhaustedHasReset ==
    \A k \in WebKeys : ~ window[k].left => window[k].reset # NoReset \/ k \in blind

\* What a probe holds of the queue: its claim, with what is left of the lease.
Held(j) ==
    [key |-> j.key, token |-> j.token, attempts |-> j.attempts,
     lease |-> IF HoldsClaim(items, j.key, j.token) THEN items[j.key].due ELSE 0]

Probes == UNION {batch[i] : i \in Instances}

Client == INSTANCE QuotaRecoveryQueue WITH claims <- {Held(j) : j \in Probes}

(* The service is a client the queue is made for: between restarts, every  *)
(* step of callers, loops and probes that moves the queue or a claim is    *)
(* one call the queue's specification allows. Tokens are fresh, a claim is *)
(* answered by the probe that holds it and once, and a lease that ran out  *)
(* or was taken over gives no right to the event any more.                 *)
UsesQueue ==
    [][(\E i \in Instances : Restart(i)) \/ Client!Next]_(Client!vars)

\* Something will probe k again: its event, its reset time, or a call that schedules it.
Tracked(k) ==
    \/ k \in DOMAIN items
    \/ window[k].reset # NoReset
    \/ \E c \in Callers : call[c].op # "idle" /\ call[c].key = k

(* "quotaRecoveryDueAt keeps upstream quota exhaustion recoverable even    *)
(* when the Provider reports no reset timestamp"                           *)
(* (application/account/service.go:3240): a window that is exhausted here  *)
(* and upstream is tracked.                                                *)
ExhaustionStaysRecoverable ==
    \A k \in Keys : ~ upstream[k] /\ ~ window[k].left => Tracked(k)
=============================================================================
