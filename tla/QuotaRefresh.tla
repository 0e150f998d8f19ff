------------------------------- MODULE QuotaRefresh -------------------------------
(***************************************************************************)
(* The quota refresh queue of the account service                          *)
(* (application/account/service.go, QueueQuotaRefresh and the workers of   *)
(* RunQuotaRefresh) for one account and quota mode: every successful       *)
(* request asks for a refresh, refreshes are coalesced per instance, and   *)
(* instances coordinate through a shared dirty generation                  *)
(* (repository.QuotaRefreshCoordinator) and a distributed lock.            *)
(*                                                                         *)
(* `used` counts the requests that consumed quota and `window` is what the *)
(* persisted window knows of them. The steps of a flight are the ones      *)
(* between which the code holds no lock.                                   *)
(*                                                                         *)
(* The queue is not the only one to refresh: ProbeQuotaMode, the refresh   *)
(* after a weekly 429, RefreshQuota and the console migration read and     *)
(* save without the queue's lock (`outside`). Those of the queue's mode    *)
(* are calls of the singleflight group that the queue's flight uses too,   *)
(* so a flight that holds the lock may join one that read long before.     *)
(***************************************************************************)
EXTENDS Integers

CONSTANTS
    Instances,    \* the gateway instances
    Workers,      \* the refresh workers of an instance
    None,         \* no entry in the map, nobody
    Orphan,       \* the holder of a lock whose instance is gone
    Deployments,  \* the deployments to consider, one of which Init chooses
    MaxSignals,   \* bound: requests that ask for a refresh
    MaxFaults,    \* bound: failed calls and full queues
    MaxRestarts   \* bound: instances that restart

(* The deployment never changes: it is a variable only so that one run can *)
(* check several. Its last four fields bound what happens in it.           *)
VARIABLE deployment

\* Is there a coordinator (quotaRefreshState # nil), and does it outlive an instance?
Coordinated == deployment.coordinated
Durable == deployment.durable

\* Is the key a Console mode, with its minimal refresh interval?
Console == deployment.console

VARIABLES
    used,     \* requests that consumed quota, each with its signal
    window,   \* how many of them the persisted window accounts for
    local,    \* per instance, the quotaRefreshState of the key, or None
    channel,  \* per instance, requests of the key in quotaRefreshQueue
    job,      \* per instance and worker, its flight
    listed,   \* per instance, the dirty generation recoverShared listed; 0: none
    coord,    \* the coordinator's entry
    lock,     \* who holds the refresh lock of the key
    recent,   \* whose flight synced the window within the Console interval; Orphan: nobody's
    faults,   \* faults so far
    restarts, \* restarts so far
    outside   \* per instance and key, what its refresh without the lock has read, or None

\* Kept for the properties only.
VARIABLES
    saved,    \* what a flight that held the lock saved last
    missed    \* the newest request that refreshes without the lock may have left out

history == <<saved, missed>>
aside == <<outside, history>>

vars == <<used, window, local, channel, job, listed, coord, lock, recent, faults, restarts,
          aside>>

\* The singleflight keys: mode is the key of RefreshQuotaMode and ProbeQuotaMode, which the
\* queue's flights share; account is one they do not share (RefreshQuota of a Web account).
FlightKeys == {"mode", "account"}

\* wait: nextAttemptAt is in the future, for a retry or for the Console interval.
State == [generation : Nat, published : Nat, shared : Nat, queued : BOOLEAN,
          running : BOOLEAN, pending : BOOLEAN, wait : {"no", "retry", "interval"}]

ASSUME RefreshAssumption ==
    /\ Instances # {} /\ Workers # {}
    /\ None \notin Instances /\ None \notin State /\ None \notin Nat /\ Orphan # None
    /\ {None, Orphan} \cap (Instances \X Workers) = {}
    /\ Deployments \subseteq
         [coordinated : BOOLEAN, durable : BOOLEAN, console : BOOLEAN, expiry : BOOLEAN,
          instances : SUBSET Instances, signals : 0 .. MaxSignals,
          faults : 0 .. MaxFaults, restarts : 0 .. MaxRestarts,
          unlocked : SUBSET FlightKeys]
    /\ \A d \in Deployments : ~ d.durable => \E i \in Instances : d.instances = {i}
    /\ MaxSignals \in Nat /\ MaxFaults \in Nat /\ MaxRestarts \in Nat

Stages == {"idle", "begin", "publish", "record", "check", "adopt", "settle", "lock",
           "fetch", "save", "join", "compare", "decide", "clear", "finish"}

\* lg, sg: localGeneration and sharedGeneration; gen, dirty: the coordinator's answer.
Job == [at : Stages, lg : Nat, sg : Nat, gen : Nat, dirty : BOOLEAN, read : 0 .. MaxSignals]

\* covers: the requests whose signals the dirty mark stands for.
Entry == [gen : Nat, dirty : BOOLEAN, covers : 0 .. MaxSignals]

Fresh == [generation |-> 0, published |-> 0, shared |-> 0, queued |-> FALSE,
          running |-> FALSE, pending |-> FALSE, wait |-> "no"]

NoJob == [at |-> "idle", lg |-> 0, sg |-> 0, gen |-> 0, dirty |-> FALSE, read |-> 0]

NoEntry == [gen |-> 0, dirty |-> FALSE, covers |-> 0]

TypeOK ==
    /\ deployment \in Deployments
    /\ used \in 0 .. MaxSignals
    /\ window \in 0 .. MaxSignals
    /\ local \in [Instances -> State \cup {None}]
    /\ channel \in [Instances -> 0 .. 1]
    /\ job \in [Instances -> [Workers -> Job]]
    /\ listed \in [Instances -> Nat]
    /\ coord \in Entry
    /\ lock \in Instances \X Workers \cup {None, Orphan}
    /\ recent \in Instances \cup {None, Orphan}
    /\ outside \in [Instances -> [FlightKeys -> 0 .. MaxSignals \cup {None}]]
    /\ saved \in 0 .. MaxSignals
    /\ missed \in 0 .. MaxSignals
    /\ faults \in 0 .. MaxFaults
    /\ restarts \in 0 .. MaxRestarts

Init ==
    /\ deployment \in Deployments
    /\ used = 0
    /\ window = 0
    /\ local = [i \in Instances |-> None]
    /\ channel = [i \in Instances |-> 0]
    /\ job = [i \in Instances |-> [w \in Workers |-> NoJob]]
    /\ listed = [i \in Instances |-> 0]
    /\ coord = NoEntry
    /\ lock = None
    /\ recent = None
    /\ outside = [i \in Instances |-> [k \in FlightKeys |-> None]]
    /\ saved = 0
    /\ missed = 0
    /\ faults = 0
    /\ restarts = 0

----------------------------------------------------------------------------
\* Nothing in the map, or an entry nobody needs any more, counts as a new one.
Idle(s) == ~ s.pending /\ ~ s.queued /\ ~ s.running /\ s.wait = "no"

(* enqueueQuotaRefreshLocked for the entry s of instance i: the channel    *)
(* has room, or it is full of other keys' requests.                        *)
Enqueue(i, s) ==
    \/ /\ local' = [local EXCEPT ![i] = [s EXCEPT !.queued = TRUE]]
       /\ channel' = [channel EXCEPT ![i] = @ + 1]
       /\ UNCHANGED faults
    \/ /\ faults < deployment.faults
       /\ faults' = faults + 1
       /\ local' = [local EXCEPT ![i] = s]
       /\ UNCHANGED channel

Keep(i, s) ==
    /\ local' = [local EXCEPT ![i] = s]
    /\ UNCHANGED <<channel, faults>>

\* A request succeeds and asks for a refresh.
QueueQuotaRefresh(i) ==
    LET known == local[i] # None /\ ~ Idle(local[i])
        old == IF known THEN local[i] ELSE Fresh
        s == [old EXCEPT !.generation = @ + 1, !.pending = TRUE]
    IN  /\ i \in deployment.instances
        /\ used < deployment.signals
        /\ used' = used + 1
        /\ IF s.queued \/ s.running \/ s.wait # "no" THEN Keep(i, s) ELSE Enqueue(i, s)
        /\ UNCHANGED <<window, job, listed, coord, lock, recent, restarts, aside>>

\* A worker takes a request from the channel; it drops it when the key is running.
Take(i, w) ==
    /\ channel[i] > 0
    /\ job[i][w].at = "idle"
    /\ channel' = [channel EXCEPT ![i] = @ - 1]
    /\ IF local[i] = None \/ (local[i] # None /\ local[i].running)
       THEN UNCHANGED <<local, job>>
       ELSE /\ local' = [local EXCEPT ![i].queued = FALSE, ![i].running = TRUE,
                                      ![i].pending = FALSE]
            /\ job' = [job EXCEPT ![i][w].at = "begin"]
    /\ UNCHANGED <<used, window, listed, coord, lock, recent, faults, restarts, aside>>

----------------------------------------------------------------------------
(* One flight: runQuotaRefresh.                                            *)

Goto(i, w, stage) == job' = [job EXCEPT ![i][w].at = stage]

Return(i, w) == job' = [job EXCEPT ![i][w] = NoJob]

\* deferQuotaRefresh, and deferSuccessfulQuotaRefresh with pending.
Defer(i, w, wait) ==
    /\ Return(i, w)
    /\ local' = IF local[i] = None THEN local
                ELSE [local EXCEPT ![i].running = FALSE, ![i].pending = TRUE, ![i].wait = wait]

Begin(i, w) ==
    /\ job[i][w].at = "begin"
    /\ IF local[i] = None
       THEN Return(i, w) /\ UNCHANGED local
       ELSE LET s == local[i] IN
            /\ local' = [local EXCEPT ![i].pending = FALSE]
            /\ job' = [job EXCEPT ![i][w] =
                 [NoJob EXCEPT
                    !.at = IF Coordinated /\ s.published < s.generation THEN "publish"
                           ELSE IF Coordinated /\ s.shared > 0 THEN "check" ELSE "lock",
                    !.lg = s.generation, !.sg = s.shared]]
    /\ UNCHANGED <<used, window, channel, listed, coord, lock, recent, faults, restarts, aside>>

\* MarkQuotaRefreshDirty
Marked == [gen |-> coord.gen + 1, dirty |-> TRUE, covers |-> used]

Publish(i, w) ==
    /\ job[i][w].at = "publish"
    /\ coord' = Marked
    /\ job' = [job EXCEPT ![i][w].at = "record", ![i][w].sg = coord.gen + 1]
    /\ UNCHANGED <<used, window, local, channel, listed, lock, recent, faults, restarts, aside>>

\* Wrong: the published generation is noted without the shared one.
RecordLocally(i, w) ==
    /\ job[i][w].at = "record"
    /\ local' = IF local[i] # None /\ local[i].published < job[i][w].lg
                THEN [local EXCEPT ![i].published = job[i][w].lg]
                ELSE local
    /\ Goto(i, w, "lock")
    /\ UNCHANGED <<used, window, channel, listed, coord, lock, recent, faults, restarts, aside>>

Record(i, w) ==
    /\ job[i][w].at = "record"
    /\ local' = IF local[i] # None /\ local[i].published < job[i][w].lg
                THEN [local EXCEPT ![i].published = job[i][w].lg, ![i].shared = job[i][w].sg]
                ELSE local
    /\ Goto(i, w, "lock")
    /\ UNCHANGED <<used, window, channel, listed, coord, lock, recent, faults, restarts, aside>>

\* QuotaRefreshGeneration before the refresh ...
Check(i, w) ==
    /\ job[i][w].at = "check"
    /\ job' = [job EXCEPT ![i][w].at = IF coord.gen > job[i][w].sg THEN "adopt"
                                       ELSE IF ~ coord.dirty /\ coord.gen = job[i][w].sg
                                       THEN "settle" ELSE "lock",
                          ![i][w].gen = coord.gen, ![i][w].dirty = coord.dirty]
    /\ UNCHANGED <<used, window, local, channel, listed, coord, lock, recent, faults, restarts, aside>>

\* ... adopts a newer generation ...
Adopt(i, w) ==
    /\ job[i][w].at = "adopt"
    /\ local' = IF local[i] = None THEN local ELSE [local EXCEPT ![i].shared = job[i][w].gen]
    /\ job' = [job EXCEPT ![i][w].sg = job[i][w].gen,
                          ![i][w].at = IF job[i][w].dirty THEN "lock" ELSE "settle"]
    /\ UNCHANGED <<used, window, channel, listed, coord, lock, recent, faults, restarts, aside>>

\* ... and ends the flight when somebody else has refreshed this generation.
Settle(i, w) ==
    /\ job[i][w].at = "settle"
    /\ local' = IF local[i] # None /\ local[i].generation = job[i][w].lg
                THEN [local EXCEPT ![i] = None] ELSE local
    /\ Return(i, w)
    /\ UNCHANGED <<used, window, channel, listed, coord, lock, recent, faults, restarts, aside>>

\* A Console window synced within the interval is not read again.
SkipUpstream(i, w) ==
    /\ job[i][w].at = "lock"
    /\ Console
    /\ recent # None
    /\ Goto(i, w, "compare")
    /\ UNCHANGED <<used, window, local, channel, listed, coord, lock, recent, faults, restarts, aside>>

(* The flight decides to read the upstream, and only then asks for the     *)
(* lock. When the windows cannot be read it goes on without them.          *)
Decide(i, w) ==
    /\ job[i][w].at = "lock"
    /\ IF Console /\ recent # None
       THEN faults < deployment.faults /\ faults' = faults + 1
       ELSE UNCHANGED faults
    /\ Goto(i, w, "fetch")
    /\ UNCHANGED <<used, window, local, channel, listed, coord, lock, recent, restarts, aside>>

Holds(i, w) == lock = <<i, w>>

\* Wrong: the lock is taken from its holder.
AcquireAlways(i, w) ==
    /\ job[i][w].at = "fetch"
    /\ ~ Holds(i, w)
    /\ lock' = <<i, w>>
    /\ UNCHANGED <<local, job>>
    /\ UNCHANGED <<used, window, channel, listed, coord, recent, faults, restarts, aside>>

Acquire(i, w) ==
    /\ job[i][w].at = "fetch"
    /\ ~ Holds(i, w)
    /\ IF lock = None
       THEN lock' = <<i, w>> /\ UNCHANGED <<local, job>>
       ELSE Defer(i, w, "retry") /\ UNCHANGED lock
    /\ UNCHANGED <<used, window, channel, listed, coord, recent, faults, restarts, aside>>

\* RefreshQuotaMode reads the upstream, unless the instance does already ...
Fetch(i, w) ==
    /\ job[i][w].at = "fetch"
    /\ Holds(i, w)
    /\ outside[i]["mode"] = None
    /\ job' = [job EXCEPT ![i][w].at = "save", ![i][w].read = used]
    /\ UNCHANGED <<used, window, local, channel, listed, coord, lock, recent, faults, restarts, aside>>

Freed(i, w) == IF Holds(i, w) THEN None ELSE lock

\* ... and saves what it read; the lock is released.
Save(i, w) ==
    /\ job[i][w].at = "save"
    /\ window' = job[i][w].read
    /\ recent' = IF Console THEN i ELSE recent
    /\ saved' = job[i][w].read
    /\ lock' = Freed(i, w)
    /\ Goto(i, w, "compare")
    /\ UNCHANGED <<used, local, channel, listed, coord, faults, restarts, outside, missed>>

\* ... or joins the one that has: it gets what was read, however long ago.
Join(i, w) ==
    /\ job[i][w].at = "fetch"
    /\ Holds(i, w)
    /\ outside[i]["mode"] # None
    /\ job' = [job EXCEPT ![i][w].at = "join", ![i][w].read = outside[i]["mode"]]
    /\ missed' = IF outside[i]["mode"] < used THEN used ELSE missed
    /\ UNCHANGED <<used, window, local, channel, listed, coord, lock, recent, faults, restarts,
                   outside, saved>>

\* A refresh without the lock saves what it read, over whatever was saved since.
SavesOutside(i, k) ==
    /\ outside[i][k] # None
    /\ window' = outside[i][k]
    /\ missed' = IF outside[i][k] < window /\ missed < window THEN window ELSE missed
    /\ outside' = [outside EXCEPT ![i][k] = None]

JoinedSave(i, w) ==
    /\ job[i][w].at = "join"
    /\ SavesOutside(i, "mode")
    /\ recent' = IF Console THEN i ELSE recent
    /\ lock' = Freed(i, w)
    /\ Goto(i, w, "compare")
    /\ UNCHANGED <<used, local, channel, listed, coord, faults, restarts, saved>>

\* QuotaRefreshGeneration after the refresh.
Compare(i, w) ==
    /\ job[i][w].at = "compare"
    /\ job' = [job EXCEPT ![i][w].at = "decide",
                          ![i][w].gen = IF Coordinated THEN coord.gen ELSE job[i][w].sg,
                          ![i][w].dirty = Coordinated /\ coord.dirty]
    /\ UNCHANGED <<used, window, local, channel, listed, coord, lock, recent, faults, restarts, aside>>

\* Another round: at once, or for a Console mode after the interval.
Trail(i, w) ==
    IF Console THEN Defer(i, w, "interval") ELSE Goto(i, w, "begin") /\ UNCHANGED local

Trailing(i, w) ==
    /\ job[i][w].at = "decide"
    /\ LET changed == local[i] # None /\ local[i].generation # job[i][w].lg IN
       IF changed \/ job[i][w].gen # job[i][w].sg
       THEN Trail(i, w)
       ELSE Goto(i, w, IF job[i][w].dirty THEN "clear" ELSE "finish") /\ UNCHANGED local
    /\ UNCHANGED <<used, window, channel, listed, coord, lock, recent, faults, restarts, aside>>

\* Wrong: the mark is cleared without comparing generations.
ClearAnyGeneration(i, w) ==
    /\ job[i][w].at = "clear"
    /\ coord' = [coord EXCEPT !.dirty = FALSE]
    /\ Goto(i, w, "finish")
    /\ UNCHANGED <<used, window, local, channel, listed, lock, recent, faults, restarts, aside>>

\* ClearQuotaRefreshDirty compares the generation before it clears the mark ...
Cleared == [coord EXCEPT !.dirty = FALSE]

Clears(i, w) == coord.gen = job[i][w].sg /\ coord.gen > 0

\* ... and the Redis script answers no when somebody else has cleared it.
ClearDirty(i, w) ==
    /\ job[i][w].at = "clear"
    /\ IF Clears(i, w) /\ (Durable => coord.dirty)
       THEN /\ coord' = Cleared
            /\ Goto(i, w, "finish")
            /\ UNCHANGED local
       ELSE Trail(i, w) /\ UNCHANGED coord
    /\ UNCHANGED <<used, window, channel, listed, lock, recent, faults, restarts, aside>>

\* Wrong: the entry is dropped although a signal came after the last look.
FinishAnyGeneration(i, w) ==
    /\ job[i][w].at = "finish"
    /\ local' = [local EXCEPT ![i] = None]
    /\ Return(i, w)
    /\ UNCHANGED <<used, window, channel, listed, coord, lock, recent, faults, restarts, aside>>

Finish(i, w) ==
    /\ job[i][w].at = "finish"
    /\ LET s == local[i]
           same == s # None /\ s.generation = job[i][w].lg
       IN  \/ /\ same /\ ~ Console
              /\ local' = [local EXCEPT ![i] = None]
              /\ Return(i, w)
           \/ /\ Console /\ s # None
              /\ local' = [local EXCEPT ![i].running = FALSE, ![i].pending = ~ same,
                                        ![i].wait = "interval"]
              /\ Return(i, w)
           \/ /\ ~ same /\ ~ (Console /\ s # None)
              /\ Goto(i, w, "begin")
              /\ UNCHANGED local
    /\ UNCHANGED <<used, window, channel, listed, coord, lock, recent, faults, restarts, aside>>

(* A call of the flight fails, or its 30 seconds are over: the coordinator *)
(* (whose mark may have been made or cleared all the same), the lock, the  *)
(* upstream, the database. A failed clear goes on like one that lost. A    *)
(* flight that joined another waits for its error, whatever its own time.  *)
Fail(i, w) ==
    /\ faults < deployment.faults
    /\ faults' = faults + 1
    /\ job[i][w].at \in {"publish", "check", "fetch", "save", "join", "clear"}
         \cup IF Coordinated THEN {"compare"} ELSE {}
    /\ IF job[i][w].at = "clear" THEN Trail(i, w) ELSE Defer(i, w, "retry")
    /\ \/ coord' = coord
       \/ job[i][w].at = "publish" /\ coord' = Marked
       \/ job[i][w].at = "clear" /\ Clears(i, w) /\ coord' = Cleared
    /\ lock' = Freed(i, w)
    /\ outside' = IF job[i][w].at = "join" THEN [outside EXCEPT ![i]["mode"] = None] ELSE outside
    /\ UNCHANGED <<used, window, channel, listed, recent, restarts, history>>

FlightStep(i, w) ==
    \/ Begin(i, w) \/ Publish(i, w) \/ Record(i, w) \/ Check(i, w) \/ Adopt(i, w)
    \/ Settle(i, w) \/ SkipUpstream(i, w) \/ Decide(i, w) \/ Acquire(i, w) \/ Fetch(i, w)
    \/ Save(i, w) \/ Join(i, w) \/ JoinedSave(i, w) \/ Compare(i, w) \/ Trailing(i, w)
    \/ ClearDirty(i, w) \/ Finish(i, w)

----------------------------------------------------------------------------
(* Refreshes without the lock: ProbeQuotaMode, RefreshQuota and their like. *)

\* One begins and reads the upstream, unless the instance has one of its key.
OutsideRead(i, k) ==
    /\ i \in deployment.instances
    /\ k \in deployment.unlocked
    /\ outside[i][k] = None
    /\ k = "mode" => \A w \in Workers : job[i][w].at # "save"
    /\ outside' = [outside EXCEPT ![i][k] = used]
    /\ UNCHANGED <<used, window, local, channel, job, listed, coord, lock, recent, faults, restarts,
                   history>>

Unjoined(i, k) == k = "mode" => \A w \in Workers : job[i][w].at # "join"

OutsideSave(i, k) ==
    /\ Unjoined(i, k)
    /\ SavesOutside(i, k)
    /\ recent' = IF Console THEN Orphan ELSE recent
    /\ UNCHANGED <<used, local, channel, job, listed, coord, lock, faults, restarts, saved>>

OutsideFail(i, k) ==
    /\ faults < deployment.faults
    /\ faults' = faults + 1
    /\ outside[i][k] # None
    /\ Unjoined(i, k)
    /\ outside' = [outside EXCEPT ![i][k] = None]
    /\ UNCHANGED <<used, window, local, channel, job, listed, coord, lock, recent, restarts, history>>

----------------------------------------------------------------------------
(* The recovery goroutine of an instance.                                  *)

Requeue(i) ==
    /\ listed[i] = 0
    /\ local[i] # None
    /\ LET s == local[i] IN
       \/ /\ Idle(s)
          /\ local' = [local EXCEPT ![i] = None]
          /\ UNCHANGED <<channel, faults>>
       \/ /\ s.pending /\ ~ s.queued /\ ~ s.running /\ s.wait = "no"
          /\ Enqueue(i, s)
    /\ UNCHANGED <<used, window, job, listed, coord, lock, recent, restarts, aside>>

\* recoverSharedQuotaRefreshes lists the dirty generations ...
RecoverList(i) ==
    /\ i \in deployment.instances
    /\ Coordinated
    /\ listed[i] = 0
    /\ coord.dirty
    /\ listed' = [listed EXCEPT ![i] = coord.gen]
    /\ UNCHANGED <<used, window, local, channel, job, coord, lock, recent, faults, restarts, aside>>

\* ... and then takes the service's lock to note them ...
Recovered(i) ==
    IF local[i] = None
    THEN [Fresh EXCEPT !.generation = 1, !.published = 1, !.shared = listed[i], !.pending = TRUE]
    ELSE [local[i] EXCEPT !.shared = IF listed[i] > @ THEN listed[i] ELSE @, !.pending = TRUE]

\* Wrong: a listed key is queued although it runs.
RecoverRunning(i) ==
    LET s == Recovered(i)
    IN  /\ listed[i] > 0
        /\ IF ~ s.queued /\ s.wait = "no" THEN Enqueue(i, s) ELSE Keep(i, s)
        /\ listed' = [listed EXCEPT ![i] = 0]
        /\ UNCHANGED <<used, window, job, coord, lock, recent, restarts, aside>>

\* ... and to queue those that neither run, nor are queued, nor wait.
RecoverApply(i) ==
    LET s == Recovered(i)
    IN  /\ listed[i] > 0
        /\ IF ~ s.queued /\ ~ s.running /\ s.wait = "no" THEN Enqueue(i, s) ELSE Keep(i, s)
        /\ listed' = [listed EXCEPT ![i] = 0]
        /\ UNCHANGED <<used, window, job, coord, lock, recent, restarts, aside>>

----------------------------------------------------------------------------
(* Time, and crashes.                                                      *)

(* nextAttemptAt passes. The Console interval counts from the end of a     *)
(* flight, so the window this instance synced before is no longer recent.  *)
RetryDue(i) ==
    /\ local[i] # None
    /\ \/ local[i].wait = "retry"
       \/ local[i].wait = "interval" /\ recent # i
    /\ local' = [local EXCEPT ![i].wait = "no"]
    /\ UNCHANGED <<used, window, channel, job, listed, coord, lock, recent, faults, restarts, aside>>

IntervalPasses ==
    /\ recent # None
    /\ recent' = None
    /\ UNCHANGED <<used, window, local, channel, job, listed, coord, lock, faults, restarts, aside>>

(* quotaRefreshDirtyTTL passes without a new mark: 24 hours in which every *)
(* flight failed and was deferred. A flight, and the time a request spends *)
(* in the channel, is over in a minute.                                    *)
MarkExpires ==
    /\ deployment.expiry
    /\ coord.gen > 0
    /\ \A i \in Instances :
          /\ channel[i] = 0 /\ listed[i] = 0 /\ \A w \in Workers : job[i][w].at = "idle"
          /\ \A k \in FlightKeys : outside[i][k] = None
    /\ coord' = NoEntry
    /\ UNCHANGED <<used, window, local, channel, job, listed, lock, recent, faults, restarts, aside>>

LockExpires ==
    /\ lock = Orphan
    /\ lock' = None
    /\ UNCHANGED <<used, window, local, channel, job, listed, coord, recent, faults, restarts, aside>>

(* The lock is taken for the 30 seconds the flight has; only one that      *)
(* joined another refresh, and so does not watch its own time, outlives it *)
(* (in Redis; the lock of a single process has no lifetime).               *)
LockLapses(i, w) ==
    /\ Durable
    /\ job[i][w].at = "join"
    /\ Holds(i, w)
    /\ lock' = None
    /\ UNCHANGED <<used, window, local, channel, job, listed, coord, recent, faults, restarts, aside>>

\* An instance restarts; its lock is left to its TTL.
Restart(i) ==
    /\ i \in deployment.instances
    /\ restarts < deployment.restarts
    /\ restarts' = restarts + 1
    /\ local' = [local EXCEPT ![i] = None]
    /\ channel' = [channel EXCEPT ![i] = 0]
    /\ job' = [job EXCEPT ![i] = [w \in Workers |-> NoJob]]
    /\ listed' = [listed EXCEPT ![i] = 0]
    /\ coord' = IF Durable THEN coord ELSE NoEntry
    /\ lock' = IF \E w \in Workers : Holds(i, w) THEN (IF Durable THEN Orphan ELSE None) ELSE lock
    /\ outside' = [outside EXCEPT ![i] = [k \in FlightKeys |-> None]]
    /\ UNCHANGED <<used, window, recent, faults, history>>

Next ==
    \/ \E i \in Instances : QueueQuotaRefresh(i)
    \/ \E i \in Instances, w \in Workers : Take(i, w)
    \/ \E i \in Instances, w \in Workers : FlightStep(i, w)
    \/ \E i \in Instances, w \in Workers : Fail(i, w)
    \/ \E i \in Instances, k \in FlightKeys : OutsideRead(i, k)
    \/ \E i \in Instances, k \in FlightKeys : OutsideSave(i, k)
    \/ \E i \in Instances, k \in FlightKeys : OutsideFail(i, k)
    \/ \E i \in Instances : Requeue(i)
    \/ \E i \in Instances : RecoverList(i)
    \/ \E i \in Instances : RecoverApply(i)
    \/ \E i \in Instances : RetryDue(i)
    \/ IntervalPasses
    \/ MarkExpires
    \/ LockExpires
    \/ \E i \in Instances, w \in Workers : LockLapses(i, w)
    \/ \E i \in Instances : Restart(i)

Spec == Init /\ [][Next /\ UNCHANGED deployment]_<<deployment, vars>>

(* The workers and the recovery goroutine keep running, and time passes.   *)
Fairness ==
    /\ \A i \in Instances :
         /\ \A w \in Workers : WF_vars(FlightStep(i, w))
         /\ WF_vars(\E w \in Workers : Take(i, w))
         /\ WF_vars(Requeue(i))
         /\ WF_vars(RecoverList(i)) /\ WF_vars(RecoverApply(i))
         /\ WF_vars(RetryDue(i))
         /\ \A k \in FlightKeys : WF_vars(OutsideSave(i, k))
    /\ WF_vars(IntervalPasses)
    /\ WF_vars(LockExpires)

FairSpec == Spec /\ Fairness

----------------------------------------------------------------------------
Busy(i, w) == job[i][w].at # "idle"

(* An instance never runs two flights of the same key, and the channel     *)
(* holds the one request that the entry's queued flag stands for: a        *)
(* running key is never queued, dropped requests leave no flag behind.     *)
OneFlight ==
    \A i \in Instances :
        /\ \A w1, w2 \in Workers : Busy(i, w1) /\ Busy(i, w2) => w1 = w2
        /\ channel[i] = IF local[i] # None /\ local[i].queued THEN 1 ELSE 0
        /\ (\E w \in Workers : Busy(i, w)) => local[i] # None /\ local[i].running

(* The shared dirty mark is cleared only when the persisted window knows   *)
(* every request whose signal the mark stands for, whichever instance      *)
(* refreshed it and whatever was marked while it did, unless a refresh     *)
(* without the lock left such a request out: the flight joined one that    *)
(* had read before, or one saved its older snapshot over the newer one.    *)
(* (While the entry lives: its generations start again from 1 once it has  *)
(* expired. A Console flight that finds a recent snapshot clears without   *)
(* reading.)                                                               *)
ClearedWhenCovered ==
    [][~ Console /\ ~ deployment.expiry /\ coord.dirty /\ coord' = [coord EXCEPT !.dirty = FALSE]
          => window >= coord.covers \/ missed >= coord.covers]_vars

(* A signal is not forgotten: when no instance remembers the key and there *)
(* is no mark, the window accounts for every request, through all flights  *)
(* that mark, list and clear against each other, unless a refresh without  *)
(* the lock left the newest request out. (With a coordinator and the       *)
(* exceptions of ClearedWhenCovered; a restart forgets what was not marked *)
(* yet.)                                                                   *)
NothingForgotten ==
    (/\ Coordinated /\ ~ Console /\ ~ deployment.expiry /\ restarts = 0
     /\ ~ coord.dirty
     /\ \A i \in Instances : local[i] = None)
    => window = used \/ missed = used

(* The snapshots that flights of the queue read under the lock are saved   *)
(* in the order in which they were read, by whatever instances, also while *)
(* a flight that joined another refresh outlives its lock. (The other      *)
(* refreshes may put an older snapshot over a newer one.)                  *)
LockedSavesInOrder == [][saved' >= saved]_vars

(* Every flight ends, and again and again no instance has one: a mark of   *)
(* another instance leads to a trailing refresh and not to one after the   *)
(* other ("coordinates trailing refreshes between instances",              *)
(* repository/runtime.go:194).                                             *)
FlightEnds ==
    []<>(\A i \in Instances, w \in Workers : ~ Busy(i, w))

\* The entry of the instance says that it runs, and nobody runs it: no worker takes it again.
Stranded(i) ==
    /\ local[i] # None
    /\ local[i].running
    /\ \A w \in Workers : ~ Busy(i, w)

(* The signal of every successful request is honoured, through failed      *)
(* calls, full queues and flights of other instances: in the end the       *)
(* window accounts for all of them ("asynchronously refreshes the remote   *)
(* quota window after a successful request", service.go:3263). The         *)
(* exceptions: a refresh without the lock left the newest request out, or  *)
(* the key is stranded in an instance (service.go:3420, see SignalHeld).   *)
EventuallyRefreshed ==
    <>[](window = used \/ missed = used \/ \E i \in Instances : Stranded(i))

(* "QuotaRefreshCoordinator preserves successful-request refresh signals   *)
(* across local queue pressure" (repository/runtime.go:193): as long as    *)
(* the window misses a request, some instance still has a refresh to do    *)
(* for it, queued, delayed or in flight, or the coordinator is marked.     *)
SignalHeld ==
    window < used =>
        \/ coord.dirty
        \/ \E i \in Instances :
             \/ \E w \in Workers : Busy(i, w)
             \/ local[i] # None /\ local[i].pending /\ ~ local[i].running
             \/ channel[i] > 0
=============================================================================
