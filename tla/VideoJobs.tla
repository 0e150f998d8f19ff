------------------------------- MODULE VideoJobs -------------------------------
(***************************************************************************)
(* The video jobs of application/gateway/video.go: rows of media_jobs      *)
(* (persistence/relational/media_repository.go) that the workers of every  *)
(* process claim with a token and a lease, run against the provider, and   *)
(* close, and whose use is recorded by the audit once they are closed, by  *)
(* the worker or by the periodic recovery.                                 *)
(*                                                                         *)
(* Every job has a price and so a reservation, of which BillingLedger says *)
(* more; here it is there or not. The worker keeps a copy of the row and   *)
(* writes it whole, under the token of its claim.                          *)
(***************************************************************************)
EXTENDS Integers, FiniteSets

CONSTANTS
    Jobs,        \* the jobs
    Instances,   \* the processes that share the database
    Workers,     \* their workers
    Setups,      \* the loads, of which one is chosen
    QueueSize,   \* the queue of a process
    NoJob        \* no job

\* jobs: those that are made; home: the process that makes each; site: the
\* process of each worker; faults, a bound: crashes, suspensions, failed calls.
ASSUME VideoAssumption ==
    /\ QueueSize \in Nat \ {0} /\ NoJob \notin Jobs
    /\ \A s \in Setups : /\ DOMAIN s = {"jobs", "home", "site", "faults"}
                         /\ s.jobs \subseteq Jobs /\ s.faults \in Nat
                         /\ s.home \in [Jobs -> Instances] /\ s.site \in [Workers -> Instances]

VARIABLES
    setup,
    maker,       \* per job, where the request that makes it is
    row,         \* the rows of media_jobs
    held,        \* the jobs that have their reservation
    expired,     \* those whose reservation is past its expires_at
    reclaimed,   \* those that lost it to another reservation of their key
    audited,     \* per job, what its row of request_audits says
    late,        \* the charged jobs that had no reservation any more
    active,      \* activeBilling, of the process that made the job
    queue,       \* mediaQueue, per process
    queued,      \* mediaQueued, per process
    worker,      \* the workers
    suspended,   \* the workers whose lease ran out under them
    usage,       \* per process, what its recovery has read and recorded
    faults       \* faults so far

ledger == <<held, expired, reclaimed, audited, late, active>>
queues == <<queue, queued>>
vars == <<maker, row, ledger, queues, worker, suspended, usage, faults>>

Terminal == {"completed", "failed"}

\* token counts the claims, each of which draws a new one.
Row == [status : {"none", "queued", "in_progress", "deleted"} \cup Terminal,
        token : Nat, leased : BOOLEAN, recorded : BOOLEAN]

NoRow == [status |-> "none", token |-> 0, leased |-> FALSE, recorded |-> FALSE]

Stages == {"idle", "claiming", "running", "closing", "auditing", "marking", "cancelling"}

Worker == [stage : Stages, job : Jobs \cup {NoJob}, token : Nat, outcome : Terminal]

Idle == [stage |-> "idle", job |-> NoJob, token |-> 0, outcome |-> "failed"]

TypeOK ==
    /\ setup \in Setups
    /\ maker \in [Jobs -> {"idle", "reserved", "cancelling", "refused", "done"}]
    /\ row \in [Jobs -> Row]
    /\ held \subseteq Jobs /\ expired \subseteq held /\ reclaimed \subseteq Jobs
    /\ audited \in [Jobs -> {"none", "free", "charged"}]
    /\ late \subseteq Jobs /\ active \subseteq Jobs
    /\ queue \in [Instances -> SUBSET Jobs] /\ queued \in [Instances -> SUBSET Jobs]
    /\ \A i \in Instances : queue[i] \subseteq queued[i] /\ Cardinality(queue[i]) <= QueueSize
    /\ worker \in [Workers -> Worker]
    /\ \A w \in Workers : worker[w].stage = "idle" <=> worker[w].job = NoJob
    /\ suspended \subseteq Workers
    /\ usage \in [Instances -> [Jobs -> {"none", "recorded"} \cup Terminal]]
    /\ faults \in 0 .. setup.faults

Init ==
    /\ setup \in Setups
    /\ maker = [j \in Jobs |-> IF j \in setup.jobs THEN "idle" ELSE "done"]
    /\ row = [j \in Jobs |-> NoRow]
    /\ held = {} /\ expired = {} /\ reclaimed = {}
    /\ audited = [j \in Jobs |-> "none"] /\ late = {} /\ active = {}
    /\ queue = [i \in Instances |-> {}] /\ queued = [i \in Instances |-> {}]
    /\ worker = [w \in Workers |-> Idle]
    /\ suspended = {}
    /\ usage = [i \in Instances |-> [j \in Jobs |-> "none"]]
    /\ faults = 0

Home(j) == setup.home[j]

Site(w) == setup.site[w]

\* Every process has workers: the others are not there.
Up(i) == \E w \in Workers : Site(w) = i

Fault == faults < setup.faults /\ faults' = faults + 1

----------------------------------------------------------------------------
(* The reservation and the record of a job.                                *)

\* CancelBilling in process i: the marker is the process's own.
Unbook(j, i) ==
    /\ held' = held \ {j} /\ expired' = expired \ {j}
    /\ active' = IF i = Home(j) THEN active \ {j} ELSE active
    /\ UNCHANGED <<reclaimed, audited, late>>

\* CreateDurable in process i, which waits for the commit: the first record of
\* the event gives the reservation back and charges a completed job.
Settle(j, status, i) ==
    LET charged == status = "completed" IN
    /\ IF audited[j] # "none" THEN UNCHANGED <<audited, held, expired, late>>
       ELSE /\ audited' = [audited EXCEPT ![j] = IF charged THEN "charged" ELSE "free"]
            /\ held' = held \ {j} /\ expired' = expired \ {j}
            /\ late' = IF charged /\ j \notin held THEN late \cup {j} ELSE late
    /\ active' = IF i = Home(j) THEN active \ {j} ELSE active
    /\ UNCHANGED reclaimed

----------------------------------------------------------------------------
(* The request.                                                            *)

Reserve(j) ==
    /\ maker[j] = "idle"
    /\ maker' = [maker EXCEPT ![j] = "reserved"]
    /\ held' = held \cup {j} /\ active' = active \cup {j}
    /\ UNCHANGED <<row, expired, reclaimed, audited, late, queues, worker, suspended, usage, faults>>

\* Wrong: a job that finds no room stays marked as queued.
EnqueueKeepsMark(i, j) ==
    /\ queued' = [queued EXCEPT ![i] = @ \cup {j}]
    /\ IF j \in queued[i] \/ Cardinality(queue[i]) >= QueueSize THEN UNCHANGED queue
       ELSE queue' = [queue EXCEPT ![i] = @ \cup {j}]

\* enqueueVideoJob: once per process, and not at all when the queue is full.
Enqueue(i, j) ==
    IF j \in queued[i] \/ Cardinality(queue[i]) >= QueueSize THEN UNCHANGED queues
    ELSE /\ queue' = [queue EXCEPT ![i] = @ \cup {j}]
         /\ queued' = [queued EXCEPT ![i] = @ \cup {j}]

Create(j) ==
    /\ maker[j] = "reserved"
    /\ row' = [row EXCEPT ![j].status = "queued"]
    /\ maker' = [maker EXCEPT ![j] = "done"]
    /\ Enqueue(Home(j), j)
    /\ UNCHANGED <<ledger, worker, suspended, usage, faults>>

\* The row is there or not when the error comes back.
CreateFails(j) ==
    /\ maker[j] = "reserved" /\ Fault
    /\ \/ row' = [row EXCEPT ![j].status = "queued"]
       \/ UNCHANGED row
    /\ maker' = [maker EXCEPT ![j] = "cancelling"]
    /\ UNCHANGED <<ledger, queues, worker, suspended, usage>>

Withdraw(j) ==
    /\ maker[j] = "cancelling"
    /\ Unbook(j, Home(j))
    /\ maker' = [maker EXCEPT ![j] = "refused"]
    /\ UNCHANGED <<row, queues, worker, suspended, usage, faults>>

WithdrawFails(j) ==
    /\ maker[j] = "cancelling" /\ Fault
    /\ maker' = [maker EXCEPT ![j] = "refused"]
    /\ UNCHANGED <<row, ledger, queues, worker, suspended, usage>>

----------------------------------------------------------------------------
(* A worker.                                                               *)

Goto(w, s) == worker' = [worker EXCEPT ![w].stage = s]

\* The worker is done with its job, which its process may queue again.
Retire(w) ==
    /\ worker' = [worker EXCEPT ![w] = Idle]
    /\ queued' = [queued EXCEPT ![Site(w)] = @ \ {worker[w].job}]
    /\ suspended' = suspended \ {w}
    /\ UNCHANGED queue

Take(w) ==
    /\ worker[w].stage = "idle"
    /\ \E j \in queue[Site(w)] :
          /\ queue' = [queue EXCEPT ![Site(w)] = @ \ {j}]
          /\ worker' = [worker EXCEPT ![w] = [Idle EXCEPT !.stage = "claiming", !.job = j]]
    /\ UNCHANGED <<maker, row, ledger, queued, suspended, usage, faults>>

\* Wrong: a job in progress is claimed whatever its lease.
ClaimableAnyway(j) == row[j].status \in {"queued", "in_progress"}

Claimable(j) ==
    \/ row[j].status = "queued"
    \/ row[j].status = "in_progress" /\ ~ row[j].leased

Seize(j) == row' = [row EXCEPT ![j].status = "in_progress", ![j].leased = TRUE, ![j].token = @ + 1]

\* TryClaimMediaJob
Claim(w) ==
    LET j == worker[w].job IN
    /\ worker[w].stage = "claiming" /\ Claimable(j)
    /\ Seize(j)
    /\ worker' = [worker EXCEPT ![w].stage = "running", ![w].token = row[j].token + 1]
    /\ UNCHANGED <<maker, ledger, queues, suspended, usage, faults>>

NotClaimed(w) ==
    /\ worker[w].stage = "claiming" /\ ~ Claimable(worker[w].job)
    /\ Retire(w)
    /\ UNCHANGED <<maker, row, ledger, usage, faults>>

\* The claim fails, or succeeds and nobody hears of it.
ClaimFails(w) ==
    /\ worker[w].stage = "claiming" /\ Fault
    /\ \/ Claimable(worker[w].job) /\ Seize(worker[w].job)
       \/ UNCHANGED row
    /\ Retire(w)
    /\ UNCHANGED <<maker, ledger, usage>>

\* Wrong: the row is written whoever has claimed it.
OwnsAnyway(w) == row[worker[w].job].status # "deleted"

\* UpdateMediaJob writes the row its token is on.
Owns(w) ==
    /\ row[worker[w].job].status # "deleted"
    /\ row[worker[w].job].token = worker[w].token

\* A progress report extends the lease. Its error is ignored.
Progress(w) ==
    /\ worker[w].stage = "running" /\ Owns(w)
    /\ row' = [row EXCEPT ![worker[w].job].status = "in_progress", ![worker[w].job].leased = TRUE]
    /\ suspended' = suspended \ {w}
    /\ UNCHANGED <<maker, ledger, queues, worker, usage, faults>>

\* The provider has answered, or the job was given up.
Generated(w) ==
    /\ worker[w].stage = "running"
    /\ \E o \in Terminal :
          worker' = [worker EXCEPT ![w].stage = "closing", ![w].outcome = o]
    /\ UNCHANGED <<maker, row, ledger, queues, suspended, usage, faults>>

\* The process shuts down, or no slot for the inputs comes free: the job is
\* handed back under a short lease.
Defer(w) ==
    LET j == worker[w].job IN
    /\ worker[w].stage = "running" /\ Fault
    /\ row' = IF Owns(w) THEN [row EXCEPT ![j].status = "in_progress", ![j].leased = TRUE] ELSE row
    /\ Retire(w)
    /\ UNCHANGED <<maker, ledger, usage>>

\* The whole row is written, usage_recorded_at of the copy included.
Close(w) ==
    row' = [row EXCEPT ![worker[w].job].status = worker[w].outcome,
                       ![worker[w].job].leased = FALSE, ![worker[w].job].recorded = FALSE]

Closed(w) ==
    /\ worker[w].stage = "closing" /\ Owns(w)
    /\ Close(w)
    /\ Goto(w, "auditing")
    /\ UNCHANGED <<maker, ledger, queues, suspended, usage, faults>>

\* Wrong: the worker goes on as if it had closed the job.
NotClosedAudits(w) ==
    /\ worker[w].stage = "closing" /\ ~ Owns(w)
    /\ Goto(w, "auditing")
    /\ UNCHANGED <<maker, row, ledger, queues, suspended, usage, faults>>

\* Another worker has the job now, or it was deleted: nothing is recorded.
NotClosed(w) ==
    /\ worker[w].stage = "closing" /\ ~ Owns(w)
    /\ Retire(w)
    /\ UNCHANGED <<maker, row, ledger, usage, faults>>

\* The answer to the write is lost, and it is written again.
CloseLost(w) ==
    /\ worker[w].stage = "closing" /\ Owns(w) /\ Fault
    /\ Close(w)
    /\ UNCHANGED <<maker, ledger, queues, worker, suspended, usage>>

\* The last attempt fails.
CloseFails(w) ==
    /\ worker[w].stage = "closing" /\ Fault
    /\ Retire(w)
    /\ UNCHANGED <<maker, row, ledger, usage>>

\* A failed job gives its reservation back itself.
Conclude(w) == IF worker[w].outcome = "failed" THEN Goto(w, "cancelling") /\ UNCHANGED <<queues, suspended>>
            ELSE Retire(w)

Audit(w) ==
    /\ worker[w].stage = "auditing"
    /\ Settle(worker[w].job, worker[w].outcome, Site(w))
    /\ Goto(w, "marking")
    /\ UNCHANGED <<maker, row, queues, suspended, usage, faults>>

AuditFails(w) ==
    /\ worker[w].stage = "auditing" /\ Fault
    /\ Conclude(w)
    /\ UNCHANGED <<maker, row, ledger, usage>>

\* MarkMediaJobUsageRecorded
MarkRow(j) == row' = IF row[j].status \in Terminal THEN [row EXCEPT ![j].recorded = TRUE] ELSE row

Mark(w) ==
    /\ worker[w].stage = "marking"
    /\ MarkRow(worker[w].job)
    /\ Conclude(w)
    /\ UNCHANGED <<maker, ledger, usage, faults>>

MarkFails(w) ==
    /\ worker[w].stage = "marking" /\ Fault
    /\ Conclude(w)
    /\ UNCHANGED <<maker, row, ledger, usage>>

Cancel(w) ==
    /\ worker[w].stage = "cancelling"
    /\ Unbook(worker[w].job, Site(w))
    /\ Retire(w)
    /\ UNCHANGED <<maker, row, usage, faults>>

CancelFails(w) ==
    /\ worker[w].stage = "cancelling" /\ Fault
    /\ Retire(w)
    /\ UNCHANGED <<maker, row, ledger, usage>>

----------------------------------------------------------------------------
(* The recovery of a process.                                              *)

\* ListRecoverableMediaJobs and enqueueVideoJob
Recover(i, j) ==
    /\ Up(i) /\ Claimable(j) /\ j \notin queued[i]
    /\ Enqueue(i, j)
    /\ UNCHANGED <<maker, row, ledger, worker, suspended, usage, faults>>

Unrecorded(j) == row[j].status \in Terminal /\ ~ row[j].recorded

\* ListUnrecordedTerminalMediaJobs, when the last list is done.
ListUnrecorded(i) ==
    /\ Up(i) /\ \A j \in Jobs : usage[i][j] = "none"
    /\ \E j \in Jobs : Unrecorded(j)
    /\ usage' = [usage EXCEPT ![i] =
                    [j \in Jobs |-> IF Unrecorded(j) THEN row[j].status ELSE "none"]]
    /\ UNCHANGED <<maker, row, ledger, queues, worker, suspended, faults>>

Reconcile(i, j) ==
    /\ usage[i][j] \in Terminal
    /\ Settle(j, usage[i][j], i)
    /\ usage' = [usage EXCEPT ![i][j] = "recorded"]
    /\ UNCHANGED <<maker, row, queues, worker, suspended, faults>>

ReconcileFails(i, j) ==
    /\ usage[i][j] # "none" /\ Fault
    /\ usage' = [usage EXCEPT ![i][j] = "none"]
    /\ UNCHANGED <<maker, row, ledger, queues, worker, suspended>>

MarkReconciled(i, j) ==
    /\ usage[i][j] = "recorded"
    /\ MarkRow(j)
    /\ usage' = [usage EXCEPT ![i][j] = "none"]
    /\ UNCHANGED <<maker, ledger, queues, worker, suspended, faults>>

----------------------------------------------------------------------------
(* Time, the cleanup, the administrator and crashes.                       *)

Works(w, j) ==
    /\ worker[w].job = j /\ worker[w].stage \in {"running", "closing"}
    /\ worker[w].token = row[j].token

\* Five minutes more than a job may take, from its last progress: the lease
\* runs out under a worker only when its process has been suspended.
LeaseLapses(j) ==
    /\ row[j].status = "in_progress" /\ row[j].leased
    /\ \A w \in Workers : ~ Works(w, j)
    /\ row' = [row EXCEPT ![j].leased = FALSE]
    /\ UNCHANGED <<maker, ledger, queues, worker, suspended, usage, faults>>

Suspend(w) ==
    LET j == worker[w].job IN
    /\ \E k \in Jobs : Works(w, k)
    /\ row[j].status = "in_progress" /\ row[j].leased /\ Fault
    /\ row' = [row EXCEPT ![j].leased = FALSE]
    /\ suspended' = suspended \cup {w}
    /\ UNCHANGED <<maker, ledger, queues, worker, usage>>

Expire(j) ==
    /\ j \in held \ expired /\ maker[j] \in {"done", "refused"}
    /\ expired' = expired \cup {j}
    /\ UNCHANGED <<maker, row, held, reclaimed, audited, late, active, queues, worker, suspended, usage, faults>>

\* Another reservation of the key needs the room (Book of BillingLedger).
Reclaim(j) ==
    /\ j \in expired
    /\ held' = held \ {j} /\ expired' = expired \ {j} /\ reclaimed' = reclaimed \cup {j}
    /\ UNCHANGED <<maker, row, audited, late, active, queues, worker, suspended, usage, faults>>

\* Wrong: what the periodic cleanup spares are the jobs under way.
PendingRunning(j) == row[j].status \in {"queued", "in_progress"}

\* Wrong: a job that is not there is pending as well.
PendingUnlessRecorded(j) == ~ row[j].recorded

\* noPendingMediaUsage
Pending(j) == row[j].status \notin {"none", "deleted"} /\ ~ row[j].recorded

Cleanup(i, j) ==
    /\ Up(i) /\ j \in expired /\ ~ Pending(j) /\ ~ (j \in active /\ i = Home(j))
    /\ held' = held \ {j} /\ expired' = expired \ {j}
    /\ UNCHANGED <<maker, row, reclaimed, audited, late, active, queues, worker, suspended, usage, faults>>

\* AdminDeleteVideoJobs takes closed jobs, whether their use is recorded or not.
Delete(j) ==
    /\ row[j].status \in Terminal
    /\ row' = [row EXCEPT ![j].status = "deleted"]
    /\ UNCHANGED <<maker, ledger, queues, worker, suspended, usage, faults>>

\* What is in memory is gone: requests, queue, workers, recovery and markers.
Crash(i) ==
    /\ Up(i) /\ Fault
    /\ maker' = [j \in Jobs |-> IF Home(j) = i /\ maker[j] = "cancelling" THEN "refused"
                                ELSE IF Home(j) = i /\ maker[j] = "reserved" THEN "done" ELSE maker[j]]
    /\ active' = {j \in active : Home(j) # i}
    /\ queue' = [queue EXCEPT ![i] = {}] /\ queued' = [queued EXCEPT ![i] = {}]
    /\ worker' = [w \in Workers |-> IF Site(w) = i THEN Idle ELSE worker[w]]
    /\ suspended' = {w \in suspended : Site(w) # i}
    /\ usage' = [usage EXCEPT ![i] = [j \in Jobs |-> "none"]]
    /\ UNCHANGED <<row, held, expired, reclaimed, audited, late>>

----------------------------------------------------------------------------

JobStep(j) ==
    \/ Reserve(j) \/ Create(j) \/ CreateFails(j) \/ Withdraw(j) \/ WithdrawFails(j)
    \/ LeaseLapses(j) \/ Expire(j) \/ Reclaim(j) \/ Delete(j)

WorkerStep(w) ==
    \/ Take(w) \/ Claim(w) \/ NotClaimed(w) \/ ClaimFails(w)
    \/ Progress(w) \/ Generated(w) \/ Defer(w) \/ Suspend(w)
    \/ Closed(w) \/ NotClosed(w) \/ CloseLost(w) \/ CloseFails(w)
    \/ Audit(w) \/ AuditFails(w) \/ Mark(w) \/ MarkFails(w) \/ Cancel(w) \/ CancelFails(w)

InstanceStep(i) ==
    \/ ListUnrecorded(i) \/ Crash(i)
    \/ \E j \in Jobs : \/ Recover(i, j) \/ Reconcile(i, j) \/ ReconcileFails(i, j)
                       \/ MarkReconciled(i, j) \/ Cleanup(i, j)

Next ==
    \/ \E j \in Jobs : JobStep(j)
    \/ \E w \in Workers : WorkerStep(w)
    \/ \E i \in Instances : InstanceStep(i)

Spec == Init /\ [][Next /\ UNCHANGED setup]_<<setup, vars>>

\* The step of a worker or a request in the absence of faults.
Forward(w) ==
    \/ Take(w) \/ Claim(w) \/ NotClaimed(w) \/ Generated(w) \/ Closed(w) \/ NotClosed(w)
    \/ Audit(w) \/ Mark(w) \/ Cancel(w)

\* Processes run, the recovery and the cleanup are periodic, and time passes.
Fairness ==
    /\ \A w \in Workers : WF_vars(Forward(w))
    /\ \A j \in Jobs : /\ WF_vars(Create(j)) /\ WF_vars(Withdraw(j))
                       /\ WF_vars(LeaseLapses(j)) /\ WF_vars(Expire(j))
    /\ \A i \in Instances : /\ WF_vars(ListUnrecorded(i))
                            /\ \A j \in Jobs : /\ WF_vars(Recover(i, j)) /\ WF_vars(Cleanup(i, j))
                                               /\ WF_vars(Reconcile(i, j)) /\ WF_vars(MarkReconciled(i, j))

FairSpec == Spec /\ Fairness

----------------------------------------------------------------------------
(* Properties.                                                             *)

\* A job is run by one worker at a time, in whatever process, but for workers
\* that slept through their lease: neither the queues nor the recovery of two
\* processes start a job twice.
OneRunner ==
    \A j \in Jobs :
        Cardinality({w \in Workers \ suspended :
                        worker[w].job = j /\ worker[w].stage \in {"running", "closing"}}) <= 1

\* What is recorded of a job is what its row says: a worker that lost its claim
\* neither changes a closed row nor records its own outcome.
RecordedAsStored ==
    \A j \in Jobs : audited[j] # "none" =>
        \/ row[j].status = "deleted"
        \/ row[j].status \in Terminal /\ (audited[j] = "charged" <=> row[j].status = "completed")

\* A charged job finds its reservation, however long it took and whoever closes
\* it, unless another reservation of the key took the room, the job was deleted
\* before its use was recorded, or the request that made it was told it had failed.
ChargeFindsReservation ==
    \A j \in late :
        j \in reclaimed \/ row[j].status = "deleted" \/ maker[j] \in {"cancelling", "refused"}

\* A closed job stays as it is until it is deleted.
ClosedStays ==
    [][\A j \in Jobs : row[j].status \in Terminal => row'[j].status \in {row[j].status, "deleted"}]_vars

Finished(j) ==
    \/ row[j].status = "deleted"
    \/ row[j].status \in Terminal /\ row[j].recorded /\ audited[j] # "none"

\* Every job that is created is closed and recorded in the end, through full
\* queues, crashes, lost answers and lapsed leases.
JobsEnd == \A j \in Jobs : row[j].status = "queued" ~> Finished(j)

\* The marker of j is left in the only process, and nothing there will settle or
\* cancel it: the request could not withdraw what it could not create, or the job
\* was deleted before its use was recorded.
Marooned(j) ==
    /\ \A i \in Instances : Up(i) => i = Home(j)
    /\ j \in active
    /\ (row[j].status = "none" /\ maker[j] = "refused") \/ row[j].status = "deleted"
    /\ usage[Home(j)][j] = "none" /\ \A w \in Workers : worker[w].job # j

\* Every reservation is settled, cancelled or cleaned up in the end, unless its
\* marker is left in the only process there is.
ReservationsGo == \A j \in Jobs : j \in held ~> j \notin held \/ Marooned(j)

=============================================================================
