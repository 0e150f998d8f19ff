------------------------------ MODULE RoutingCache ------------------------------
(***************************************************************************)
(* What a process believes of the accounts it routes to: the layered       *)
(* snapshots and the health overrides of application/gateway/selector.go,  *)
(* and the invalidations that reach them (application/invalidation).       *)
(*                                                                         *)
(* The candidates of a route are assembled from a base layer, with the     *)
(* accounts and their health, and an overlay, with the models. Each layer  *)
(* is loaded by one flight at a time, kept for a while, and used beyond    *)
(* that when the database is out of reach. An invalidation drops a layer   *)
(* and moves its version on, so that a load that read before it is not     *)
(* kept; the health of one account is written over the candidates instead. *)
(*                                                                         *)
(* One route and one account are modelled. Versions are only compared for  *)
(* equality with the current one and never return: a holder of a version   *)
(* keeps whether it is the current one.                                    *)
(***************************************************************************)
EXTENDS Integers

CONSTANTS
    TTL,         \* candidateCacheTTL
    StaleTTL,    \* candidateCacheStaleTTL
    RetryTTL,    \* candidateCacheRetryTTL
    Attempts,    \* the attempts at a stable pair of versions, 4
    LoadTime,    \* the ticks a query may take
    Bounds       \* what may happen in a behaviour, see Bounded

Layers == {"base", "overlay"}

\* The layers a route has, the writes of each, whether the account may fail, which
\* invalidations come for other reasons, and the ticks of the clock.
Bounded(b) ==
    /\ "base" \in b.layers /\ b.layers \subseteq Layers
    /\ b.writes \in [Layers -> Nat] /\ b.fails \in BOOLEAN /\ b.churn \subseteq Layers \cup {"none"}
    /\ b.ticks \in Nat

ASSUME RoutingAssumption ==
    /\ TTL \in Nat \ {0} /\ StaleTTL \in Nat \ {0} /\ RetryTTL \in Nat \ {0}
    /\ Attempts \in Nat \ {0} /\ LoadTime \in Nat /\ \A b \in Bounds : Bounded(b)

VARIABLES
    bound,       \* the bounds of this behaviour
    clock,
    stored,      \* per layer, how often it was written in the database
    written,     \* and when
    failedAt,    \* when the account failed and is cooling since, or NotYet
    events,      \* the invalidations on their way here
    arriving,    \* those that have taken the overrides and not yet their layer
    applied,     \* per layer, the last write whose invalidation has dropped it
    snap,        \* routingBases and routingOverlays: the snapshot of a layer
    assembled,   \* candidates: the snapshot of the route
    load,        \* the flight that loads a layer
    route,       \* the flight that loads the route
    override,    \* healthOverrides: the end of the account's, 0 without one
    known,       \* the process has heard of the failure in time
    bared        \* the override went and the base stayed

database == <<stored, written, failedAt>>
health == <<override, known, bared>>
vars == <<clock, database, events, arriving, applied, snap, assembled, load, route, health>>

MaxTime == bound.ticks
MaxWrites == bound.writes["base"] + bound.writes["overlay"]

NotYet == MaxTime + 1

\* What a layer says: how many writes it has seen, and the account's health.
Value == [writes : Nat, cooled : BOOLEAN]

Snapshot == [there : BOOLEAN, value : Value, current : BOOLEAN, expiresAt : Nat, staleUntil : Nat]

Blank == [writes |-> 0, cooled |-> FALSE]

None == [there |-> FALSE, value |-> Blank, current |-> FALSE, expiresAt |-> 0, staleUntil |-> 0]

Load == [stage : {"idle", "loading", "loaded"}, check : Nat, current : BOOLEAN, value : Value, old : Snapshot]

NoLoad == [stage |-> "idle", check |-> 0, current |-> FALSE, value |-> Blank, old |-> None]

Route == [stage : {"idle", "settling", "fallback", "done"} \cup Layers, joined : BOOLEAN,
          attempt : Nat, check : Nat, since : [Layers -> Nat],
          got : [Layers -> Value], current : [Layers -> BOOLEAN]]

NoRoute == [stage |-> "idle", joined |-> FALSE, attempt |-> 0, check |-> 0,
            since |-> [l \in Layers |-> 0], got |-> [l \in Layers |-> Blank],
            current |-> [l \in Layers |-> FALSE]]

Assembly == [there : BOOLEAN, got : [Layers -> Value], expiresAt : Nat]

NoAssembly == [there |-> FALSE, got |-> [l \in Layers |-> Blank], expiresAt |-> 0]

TypeOK ==
    /\ bound \in Bounds /\ clock \in 0 .. MaxTime
    /\ stored \in [Layers -> Nat] /\ applied \in [Layers -> Nat]
    /\ written \in [Layers -> [1 .. MaxWrites -> Nat]]
    /\ failedAt \in 0 .. NotYet
    /\ events \subseteq (Layers \X (1 .. MaxWrites)) \cup {<<"health", 1>>}
    /\ arriving \subseteq Layers \X (0 .. MaxWrites)
    /\ snap \in [Layers -> Snapshot] /\ load \in [Layers -> Load]
    /\ assembled \in Assembly
    /\ route \in Route
    /\ override \in Nat /\ known \in BOOLEAN /\ bared \in BOOLEAN

Init ==
    /\ bound \in Bounds /\ clock = 0
    /\ stored = [l \in Layers |-> 0]
    /\ written = [l \in Layers |-> [n \in 1 .. MaxWrites |-> 0]]
    /\ failedAt = NotYet
    /\ events = {} /\ arriving = {} /\ applied = [l \in Layers |-> 0]
    /\ snap = [l \in Layers |-> None]
    /\ assembled = NoAssembly
    /\ load = [l \in Layers |-> NoLoad]
    /\ route = NoRoute
    /\ override = 0 /\ known = FALSE /\ bared = FALSE

----------------------------------------------------------------------------
(* The database, and the events of its writes.                             *)

Reading(l) == [writes |-> stored[l], cooled |-> l = "base" /\ failedAt # NotYet]

\* A write, of this process or another. Its event follows.
Write(l) ==
    /\ stored[l] < bound.writes[l]
    /\ stored' = [stored EXCEPT ![l] = @ + 1]
    /\ written' = [written EXCEPT ![l][stored[l] + 1] = clock]
    /\ events' = events \cup {<<l, stored[l] + 1>>}
    /\ UNCHANGED <<clock, failedAt, arriving, applied, snap, assembled, load, route, health>>

\* UpdateHealth
Cool ==
    /\ bound.fails /\ failedAt = NotYet
    /\ failedAt' = clock
    /\ events' = events \cup {<<"health", 1>>}
    /\ UNCHANGED <<clock, stored, written, arriving, applied, snap, assembled, load, route, health>>

\* A full queue or a failed publication loses the event of another process.
Lose(e) ==
    /\ e \in events
    /\ events' = events \ {e}
    /\ UNCHANGED <<clock, database, arriving, applied, snap, assembled, load, route, health>>

\* The layer is dropped and its version moves on.
DropLayer(l) ==
    /\ snap' = [snap EXCEPT ![l] = None]
    /\ assembled' = NoAssembly
    /\ load' = [load EXCEPT ![l].current = FALSE]
    /\ route' = [route EXCEPT !.current[l] = FALSE]

\* ApplyInvalidation takes the overrides away whatever the layer.
ClearOverride ==
    /\ override' = 0
    /\ bared' = (bared \/ override > 0)
    /\ UNCHANGED known

\* The overrides go first, under a lock of their own, ...
Apply(l, n) ==
    /\ <<l, n>> \in events
    /\ events' = events \ {<<l, n>>} /\ arriving' = arriving \cup {<<l, n>>}
    /\ ClearOverride
    /\ UNCHANGED <<clock, database, applied, snap, assembled, load, route>>

\* An invalidation for a change the layer does not show.
Churn(l) ==
    /\ l \in bound.churn
    /\ arriving' = arriving \cup {<<l, 0>>}
    /\ ClearOverride
    /\ UNCHANGED <<clock, database, events, applied, snap, assembled, load, route>>

\* ... and then the layer, with the candidates.
Drop(l, n) ==
    /\ <<l, n>> \in arriving
    /\ arriving' = arriving \ {<<l, n>>}
    /\ applied' = [applied EXCEPT ![l] = IF n > @ THEN n ELSE @]
    /\ DropLayer(l)
    /\ bared' = (l # "base" /\ bared)
    /\ UNCHANGED <<clock, database, events, override, known>>

\* The event of a client key has no layer here.
ClientKeyChanged ==
    /\ "none" \in bound.churn
    /\ ClearOverride
    /\ UNCHANGED <<clock, database, events, arriving, applied, snap, assembled, load, route>>

\* Wrong: the override lives as long as a snapshot that is not stale.
ShortLife == TTL

\* routingHealthOverrideTTL
OverrideLife == TTL + StaleTTL

\* applyHealthInvalidation. The override lives from the publication on.
ApplyHealth ==
    /\ <<"health", 1>> \in events
    /\ events' = events \ {<<"health", 1>>}
    /\ IF clock < failedAt + OverrideLife
       THEN override' = failedAt + OverrideLife /\ known' = TRUE
       ELSE UNCHANGED <<override, known>>
    /\ UNCHANGED <<clock, database, arriving, applied, snap, assembled, load, route, bared>>

----------------------------------------------------------------------------
(* The flight that loads a layer, for whoever asks.                        *)

Usable(l, t) == snap[l].there /\ snap[l].current /\ t < snap[l].expiresAt

\* A flight keeps the snapshot it may fall back on.
Flight(l) ==
    [NoLoad EXCEPT !.stage = "loading", !.check = clock, !.current = TRUE,
                   !.old = IF snap[l].there /\ snap[l].current /\ clock < snap[l].staleUntil
                           THEN snap[l] ELSE None]

\* Another route needs the layer.
Start(l) ==
    /\ route.stage # l /\ load[l].stage = "idle" /\ ~ Usable(l, clock)
    /\ load' = [load EXCEPT ![l] = Flight(l)]
    /\ UNCHANGED <<clock, database, events, arriving, applied, snap, assembled, route, health>>

Read(l) ==
    /\ load[l].stage = "loading"
    /\ load' = [load EXCEPT ![l].stage = "loaded", ![l].value = Reading(l)]
    /\ UNCHANGED <<clock, database, events, arriving, applied, snap, assembled, route, health>>

NextStage(l) == IF l = "base" /\ "overlay" \in bound.layers THEN "overlay" ELSE "settling"

\* The route gets what the flight it joined returns.
Answer(l, v) ==
    route' = IF route.stage = l /\ route.joined
             THEN [route EXCEPT !.stage = NextStage(l), !.joined = FALSE,
                                !.got[l] = v, !.current[l] = load[l].current]
             ELSE route

Loaded(l) ==
    LET until == load[l].check + TTL IN
    /\ load[l].stage = "loaded"
    /\ snap' = IF load[l].current
               THEN [snap EXCEPT ![l] = [there |-> TRUE, value |-> load[l].value, current |-> TRUE,
                                         expiresAt |-> until, staleUntil |-> until + StaleTTL]]
               ELSE snap
    /\ Answer(l, load[l].value)
    /\ load' = [load EXCEPT ![l] = NoLoad]
    /\ UNCHANGED <<clock, database, events, arriving, applied, assembled, health>>

Least(a, b) == IF a < b THEN a ELSE b

\* Wrong: a stale snapshot that is kept is as good as a new one.
StaleRenewed(l) ==
    [load[l].old EXCEPT !.current = load[l].current, !.expiresAt = load[l].check + RetryTTL,
                        !.staleUntil = load[l].check + RetryTTL + StaleTTL]

\* The stale snapshot is kept for another try, under the version of the load.
Stale(l) ==
    [load[l].old EXCEPT !.current = load[l].current,
                        !.expiresAt = Least(load[l].check + RetryTTL, load[l].old.staleUntil)]

\* The database is out of reach and there is something to fall back on.
FallBack(l) ==
    /\ load[l].stage = "loading" /\ load[l].old.there
    /\ snap' = [snap EXCEPT ![l] = Stale(l)]
    /\ Answer(l, load[l].old.value)
    /\ load' = [load EXCEPT ![l] = NoLoad]
    /\ UNCHANGED <<clock, database, events, arriving, applied, assembled, health>>

LoadFails(l) ==
    /\ load[l].stage = "loading"
    /\ load' = [load EXCEPT ![l] = NoLoad]
    /\ route' = IF route.stage = l /\ route.joined THEN NoRoute ELSE route
    /\ UNCHANGED <<clock, database, events, arriving, applied, snap, assembled, health>>

----------------------------------------------------------------------------
(* The flight that loads the route.                                        *)

Served == assembled.there /\ clock < assembled.expiresAt

Begin ==
    /\ route.stage = "idle" /\ ~ Served
    /\ route' = [NoRoute EXCEPT !.stage = "base", !.check = clock, !.since = applied]
    /\ UNCHANGED <<clock, database, events, arriving, applied, snap, assembled, load, health>>

\* The time of the attempt is what the snapshot is compared with.
Hit(l) ==
    /\ route.stage = l /\ ~ route.joined /\ Usable(l, route.check)
    /\ route' = [route EXCEPT !.stage = NextStage(l), !.got[l] = snap[l].value, !.current[l] = TRUE]
    /\ UNCHANGED <<clock, database, events, arriving, applied, snap, assembled, load, health>>

\* The flight under way is joined, or begun.
Join(l) ==
    /\ route.stage = l /\ ~ route.joined /\ ~ Usable(l, route.check)
    /\ route' = [route EXCEPT !.joined = TRUE]
    /\ load' = IF load[l].stage = "idle" THEN [load EXCEPT ![l] = Flight(l)] ELSE load
    /\ UNCHANGED <<clock, database, events, arriving, applied, snap, assembled, health>>

\* Wrong: whatever was loaded is assembled.
StableAnyway == TRUE

Stable == \A l \in bound.layers : route.current[l]

Assemble ==
    /\ route.stage = "settling" /\ Stable
    /\ assembled' = [there |-> TRUE, got |-> route.got, expiresAt |-> route.check + TTL]
    /\ route' = [route EXCEPT !.stage = "done"]
    /\ UNCHANGED <<clock, database, events, arriving, applied, snap, load, health>>

\* Wrong: the attempts are not counted.
RetryForever ==
    /\ route.stage = "settling" /\ ~ Stable
    /\ route' = [route EXCEPT !.stage = "base", !.check = clock]
    /\ UNCHANGED <<clock, database, events, arriving, applied, snap, assembled, load, health>>

\* The pair is not stable: once more, or the combined query in the end.
Retry ==
    /\ route.stage = "settling" /\ ~ Stable
    /\ route' = [route EXCEPT !.attempt = @ + 1, !.check = clock,
                              !.stage = IF route.attempt + 1 < Attempts THEN "base" ELSE "fallback"]
    /\ UNCHANGED <<clock, database, events, arriving, applied, snap, assembled, load, health>>

\* ListRoutingCandidates, which nothing keeps.
Combined ==
    /\ route.stage = "fallback"
    /\ route' = [route EXCEPT !.stage = "done", !.got = [l \in Layers |-> Reading(l)]]
    /\ UNCHANGED <<clock, database, events, arriving, applied, snap, assembled, load, health>>

CombinedFails ==
    /\ route.stage = "fallback"
    /\ route' = NoRoute
    /\ UNCHANGED <<clock, database, events, arriving, applied, snap, assembled, load, health>>

Return ==
    /\ route.stage = "done"
    /\ route' = NoRoute
    /\ UNCHANGED <<clock, database, events, arriving, applied, snap, assembled, load, health>>

\* The clock. Only queries take time. An override that is over is dropped
\* (routingHealthSnapshot).
Tick ==
    /\ clock < MaxTime
    /\ \A l \in Layers : load[l].stage # "idle" => clock < load[l].check + LoadTime
    /\ route.stage \notin {"settling", "done"}
    /\ clock' = clock + 1
    /\ override' = IF override <= clock + 1 THEN 0 ELSE override
    /\ UNCHANGED <<database, events, arriving, applied, snap, assembled, load, route, known, bared>>

----------------------------------------------------------------------------

LayerStep(l) ==
    \/ Write(l) \/ Churn(l) \/ \E n \in 0 .. MaxWrites : Apply(l, n) \/ Drop(l, n)
    \/ Start(l) \/ Read(l) \/ Loaded(l) \/ FallBack(l) \/ LoadFails(l)
    \/ Hit(l) \/ Join(l)

RouteStep == Begin \/ Assemble \/ Retry \/ Combined \/ CombinedFails \/ Return

Next ==
    \/ \E l \in bound.layers : LayerStep(l)
    \/ RouteStep
    \/ Cool \/ ApplyHealth \/ ClientKeyChanged \/ (\E e \in events : Lose(e)) \/ Tick

Spec == Init /\ [][Next /\ UNCHANGED bound]_<<bound, vars>>

\* A request goes on, a query ends, and a flight runs to its end.
Fairness ==
    /\ \A l \in Layers : WF_vars(Read(l)) /\ WF_vars(Loaded(l)) /\ WF_vars(Hit(l) \/ Join(l))
    /\ WF_vars(Assemble \/ Retry \/ Combined \/ Return)

FairSpec == Spec /\ Fairness

----------------------------------------------------------------------------
(* Properties.                                                             *)

\* Once an invalidation has arrived, what was read before it is neither kept
\* for later requests nor given to those that a flight begun since serves,
\* whatever loads were on their way and however they end.
InvalidatedNotServed ==
    \A l \in Layers :
        /\ assembled.there => assembled.got[l].writes >= applied[l]
        /\ route.stage = "done" => route.got[l].writes >= route.since[l]

\* The longest a snapshot may be out of date: it was loaded just before the
\* write, was used to its last stale moment, and was assembled then.
Longest == TTL + StaleTTL + LoadTime + TTL

\* A change whose event is lost is seen in the end: no candidates outlive it by
\* more than that, though the database stays out of reach.
StalenessBounded ==
    Served => \A l \in Layers :
        LET seen == assembled.got[l].writes IN
        seen < stored[l] => clock - written[l][seen + 1] < Longest

\* An account that is known to be cooling is not routed to, neither on a snapshot
\* older than the failure nor on one that a load under way brings: its override
\* holds until only an assembled snapshot can be left of them, for the last moments
\* of that one. An event that takes the override and leaves the base is the exception.
CooledStaysOut ==
    (Served /\ known /\ ~ bared /\ ~ assembled.got["base"].cooled) =>
        override > 0 \/ clock - failedAt \in TTL + StaleTTL .. Longest - 1

\* A request gets its candidates, or an error, through any number of
\* invalidations.
RouteEnds == route.stage = "base" ~> route.stage = "idle"

=============================================================================
