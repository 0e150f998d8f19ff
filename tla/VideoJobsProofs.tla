---------------------------- MODULE VideoJobsProofs ----------------------------
(***************************************************************************)
(* Proofs about VideoJobs, for every number of jobs, processes, workers    *)
(* and faults. A claim draws a token nobody has had, and a row is written  *)
(* under its token only: what the workers know of a row that is not theirs *)
(* any more can be stale, but it cannot be written.                        *)
(***************************************************************************)
EXTENDS VideoJobs, FiniteSetTheorems, TLAPS

Holding(w) == worker[w].stage \in {"running", "closing"}

\* The claim of a worker: its token was drawn before the row's, and is the
\* row's while the lease has not run out under it. The row of its own token is
\* in progress, unless its closing was written and the answer was lost.
ClaimsFit ==
    \A w \in Workers : Holding(w) =>
        /\ 1 <= worker[w].token /\ worker[w].token <= row[worker[w].job].token
        /\ w \notin suspended =>
              /\ worker[w].token = row[worker[w].job].token
              /\ row[worker[w].job].status = "in_progress" => row[worker[w].job].leased
        /\ worker[w].token = row[worker[w].job].token =>
              \/ row[worker[w].job].status \in {"in_progress", "deleted"}
              \/ worker[w].stage = "closing" /\ row[worker[w].job].status = worker[w].outcome

\* No two workers hold the same token of a job.
TokensDiffer ==
    \A v, w \in Workers :
        v # w /\ Holding(v) /\ Holding(w) /\ worker[v].job = worker[w].job
            => worker[v].token # worker[w].token

\* A worker records what it wrote.
AuditsFit ==
    \A w \in Workers : worker[w].stage = "auditing" =>
        row[worker[w].job].status \in {worker[w].outcome, "deleted"}

\* A row is created by its request, and claimed afterwards.
RowsFit ==
    \A j \in Jobs :
        /\ row[j].status \in {"none", "queued"} => row[j].token = 0
        /\ maker[j] \in {"idle", "reserved"} => row[j].status = "none"

\* What a recovery has read of a closed job is what its row says.
UsageFits ==
    \A i \in Instances, j \in Jobs :
        usage[i][j] \in Terminal => row[j].status \in {usage[i][j], "deleted"}

Rows == ClaimsFit /\ TokensDiffer /\ AuditsFit /\ RowsFit /\ UsageFits /\ RecordedAsStored

QueuesFinite == \A i \in Instances : IsFiniteSet(queue[i])

\* A job that a worker has is marked as queued and not in the queue, and the
\* workers of a process have different jobs.
Shared ==
    \A w \in Workers : worker[w].stage # "idle" =>
        /\ worker[w].job \in queued[Site(w)] \ queue[Site(w)]
        /\ \A v \in Workers : v # w /\ worker[v].stage # "idle" /\ Site(v) = Site(w)
              => worker[v].job # worker[w].job

IInv == TypeOK /\ QueuesFinite /\ Shared /\ Rows

----------------------------------------------------------------------------
(* Types.                                                                  *)

\* A worker that is not idle has a job.
LEMMA WorkerType ==
    ASSUME TypeOK, NEW w \in Workers
    PROVE  /\ worker[w] \in Worker
           /\ worker[w].stage # "idle" => worker[w].job \in Jobs /\ row[worker[w].job] \in Row
           /\ setup.site[w] \in Instances
  BY VideoAssumption DEF TypeOK, Worker

LEMMA HomeType ==
    ASSUME TypeOK, NEW j \in Jobs
    PROVE  Home(j) \in Instances /\ row[j] \in Row /\ j # NoJob
  BY VideoAssumption DEF TypeOK, Home

\* The queues of a process after one of its jobs was queued, or not.
LEMMA EnqueueType ==
    ASSUME TypeOK, QueuesFinite, NEW i \in Instances, NEW j \in Jobs, Enqueue(i, j)
    PROVE  /\ queue' \in [Instances -> SUBSET Jobs] /\ queued' \in [Instances -> SUBSET Jobs]
           /\ \A k \in Instances : queue'[k] \subseteq queued'[k] /\ Cardinality(queue'[k]) <= QueueSize
           /\ \A k \in Instances : IsFiniteSet(queue'[k])
<1>1. CASE j \in queued[i] \/ Cardinality(queue[i]) >= QueueSize
  BY <1>1 DEF Enqueue, queues, TypeOK, QueuesFinite
<1>2. CASE ~ (j \in queued[i] \/ Cardinality(queue[i]) >= QueueSize)
  <2>1. /\ queue' = [queue EXCEPT ![i] = @ \cup {j}]
        /\ queued' = [queued EXCEPT ![i] = @ \cup {j}]
    BY <1>2 DEF Enqueue
  <2>2. IsFiniteSet(queue[i]) /\ j \notin queue[i] /\ Cardinality(queue[i]) \in Nat
    BY <1>2, FS_CardinalityType DEF TypeOK, QueuesFinite
  <2>3. IsFiniteSet(queue[i] \cup {j}) /\ Cardinality(queue[i] \cup {j}) = Cardinality(queue[i]) + 1
    BY <2>2, FS_AddElement
  <2>4. Cardinality(queue[i] \cup {j}) <= QueueSize
    BY <1>2, <2>2, <2>3, VideoAssumption
  <2>5. queue' \in [Instances -> SUBSET Jobs] /\ queued' \in [Instances -> SUBSET Jobs]
    BY <2>1 DEF TypeOK
  <2>6. \A k \in Instances : queue'[k] \subseteq queued'[k]
    BY <2>1 DEF TypeOK
  <2>7. \A k \in Instances : Cardinality(queue'[k]) <= QueueSize /\ IsFiniteSet(queue'[k])
    BY <2>1, <2>3, <2>4 DEF TypeOK, QueuesFinite
  <2> QED
    BY <2>5, <2>6, <2>7
<1> QED
  BY <1>1, <1>2

\* What a process has in its queues.
QueuesType ==
    /\ queue \in [Instances -> SUBSET Jobs] /\ queued \in [Instances -> SUBSET Jobs]
    /\ \A i \in Instances : queue[i] \subseteq queued[i] /\ Cardinality(queue[i]) <= QueueSize
    /\ \A i \in Instances : IsFiniteSet(queue[i])

WorkersType ==
    /\ worker \in [Workers -> Worker]
    /\ \A w \in Workers : worker[w].stage = "idle" <=> worker[w].job = NoJob
    /\ suspended \subseteq Workers

LedgerType ==
    /\ held \subseteq Jobs /\ expired \subseteq held /\ reclaimed \subseteq Jobs
    /\ audited \in [Jobs -> {"none", "free", "charged"}]
    /\ late \subseteq Jobs /\ active \subseteq Jobs

RecoveryType == usage \in [Instances -> [Jobs -> {"none", "recorded"} \cup Terminal]]

MakersType == maker \in [Jobs -> {"idle", "reserved", "cancelling", "refused", "done"}]

FaultsType == setup \in Setups /\ faults \in 0 .. setup.faults

Types ==
    /\ QueuesType /\ WorkersType /\ LedgerType /\ RecoveryType /\ MakersType /\ FaultsType
    /\ row \in [Jobs -> Row]

LEMMA TypeParts == (TypeOK /\ QueuesFinite) <=> Types
  BY DEF TypeOK, QueuesFinite, Types, QueuesType, WorkersType, LedgerType, RecoveryType,
         MakersType, FaultsType

LEMMA QuietQueues ==
    ASSUME QueuesType, UNCHANGED queues
    PROVE  QueuesType'
  BY DEF QueuesType, queues

LEMMA EnqueueQueues ==
    ASSUME TypeOK, QueuesFinite, NEW i \in Instances, NEW j \in Jobs, Enqueue(i, j)
    PROVE  QueuesType'
  BY EnqueueType DEF QueuesType

LEMMA RetireType ==
    ASSUME TypeOK, QueuesFinite, Shared, NEW w \in Workers, worker[w].stage # "idle", Retire(w)
    PROVE  QueuesType' /\ WorkersType'
<1>1. Idle \in Worker /\ Idle.stage = "idle" /\ Idle.job = NoJob
  BY DEF Idle, Worker, Stages, Terminal
<1>2. WorkersType'
  <2>1. worker' \in [Workers -> Worker]
    BY <1>1 DEF Retire, TypeOK
  <2>2. \A v \in Workers : worker'[v].stage = "idle" <=> worker'[v].job = NoJob
    BY <1>1 DEF Retire, TypeOK
  <2>3. suspended' \subseteq Workers
    BY DEF Retire, TypeOK
  <2> QED
    BY <2>1, <2>2, <2>3 DEF WorkersType
<1>3. Site(w) \in Instances /\ worker[w].job \notin queue[Site(w)]
  BY WorkerType DEF Site, Shared
<1>4. queue' = queue /\ queued' = [queued EXCEPT ![Site(w)] = @ \ {worker[w].job}]
  BY DEF Retire
<1>5. QueuesType'
  <2>1. queue \in [Instances -> SUBSET Jobs] /\ queued \in [Instances -> SUBSET Jobs]
    BY DEF TypeOK
  <2>2. queued' \in [Instances -> SUBSET Jobs]
    BY <1>3, <1>4, <2>1
  <2>3. \A i \in Instances : queue[i] \subseteq queued'[i]
    BY <1>3, <1>4, <2>1 DEF TypeOK
  <2> QED
    BY <1>4, <2>1, <2>2, <2>3 DEF QueuesType, TypeOK, QueuesFinite
<1> QED
  BY <1>2, <1>5

\* A worker goes to another stage of its job.
LEMMA GotoType ==
    ASSUME TypeOK, NEW w \in Workers, NEW r \in Worker, worker[w].stage # "idle",
           r.stage # "idle", r.job = worker[w].job,
           worker' = [worker EXCEPT ![w] = r], suspended' \subseteq Workers
    PROVE  WorkersType'
<1>1. worker' \in [Workers -> Worker] /\ worker'[w] = r
  BY DEF TypeOK
<1>2. \A v \in Workers : worker'[v].stage = "idle" <=> worker'[v].job = NoJob
  BY <1>1 DEF TypeOK
<1> QED
  BY <1>1, <1>2 DEF WorkersType

----------------------------------------------------------------------------
(* What the steps do to a worker: it retires, or goes on with its job.     *)

Changes(w) ==
    \/ Retire(w)
    \/ /\ UNCHANGED <<queues>>
       /\ \E r \in Worker :
             /\ r.stage # "idle" /\ r.job = worker[w].job
             /\ worker' = [worker EXCEPT ![w] = r]
       /\ suspended' \subseteq Workers

\* Every step of a worker but Take.
LEMMA WorkerChanges ==
    ASSUME TypeOK, NEW w \in Workers, WorkerStep(w), ~ Take(w)
    PROVE  worker[w].stage # "idle" /\ Changes(w)
<1>1. worker[w] \in Worker /\ suspended \subseteq Workers
  BY DEF TypeOK
<1>2. worker[w].stage # "idle"
  BY DEF WorkerStep, Claim, NotClaimed, ClaimFails, Progress, Generated, Defer, Suspend, Closed,
         NotClosed, CloseLost, CloseFails, Audit, AuditFails, Mark, MarkFails, Cancel,
         CancelFails, Works, TypeOK
<1>3. CASE NotClaimed(w) \/ ClaimFails(w) \/ Defer(w) \/ NotClosed(w) \/ CloseFails(w)
              \/ Cancel(w) \/ CancelFails(w)
  BY <1>2, <1>3 DEF NotClaimed, ClaimFails, Defer, NotClosed, CloseFails, Cancel, CancelFails, Changes
<1>4. ASSUME NEW s \in Stages \ {"idle"}, Goto(w, s), UNCHANGED <<queues, suspended>>
      PROVE  Changes(w)
  <2> DEFINE r == [worker[w] EXCEPT !.stage = s]
  <2>1. r \in Worker /\ r.stage # "idle" /\ r.job = worker[w].job
    BY <1>1, <1>4 DEF Worker
  <2>2. worker' = [worker EXCEPT ![w] = r]
    BY <1>4 DEF Goto
  <2> QED
    BY <1>1, <1>4, <2>1, <2>2 DEF Changes
<1>5. CASE AuditFails(w) \/ Mark(w) \/ MarkFails(w)
  <2>1. Conclude(w)
    BY <1>5 DEF AuditFails, Mark, MarkFails
  <2>2. "cancelling" \in Stages \ {"idle"}
    BY DEF Stages
  <2>3. CASE worker[w].outcome = "failed"
    BY <1>2, <1>4, <2>1, <2>2, <2>3 DEF Conclude
  <2>4. CASE worker[w].outcome # "failed"
    BY <1>2, <2>1, <2>4 DEF Conclude, Changes
  <2> QED
    BY <2>3, <2>4
<1>6. CASE Closed(w) \/ Audit(w)
  <2>1. {"auditing", "marking"} \subseteq Stages \ {"idle"}
    BY DEF Stages
  <2> QED
    BY <1>2, <1>4, <1>6, <2>1 DEF Closed, Audit
<1>7. CASE Progress(w) \/ Suspend(w) \/ CloseLost(w)
  <2>1. UNCHANGED worker /\ suspended' \subseteq Workers /\ UNCHANGED <<queues>>
    BY <1>1, <1>7 DEF Progress, Suspend, CloseLost
  <2>2. worker' = [worker EXCEPT ![w] = worker[w]]
    BY <2>1 DEF TypeOK
  <2> QED
    BY <1>1, <1>2, <2>1, <2>2 DEF Changes
<1>8. CASE Generated(w)
  <2>1. PICK o \in Terminal :
           worker' = [worker EXCEPT ![w].stage = "closing", ![w].outcome = o]
    BY <1>8 DEF Generated
  <2> DEFINE r == [worker[w] EXCEPT !.stage = "closing", !.outcome = o]
  <2>2. r \in Worker /\ r.stage # "idle" /\ r.job = worker[w].job
    BY <1>1 DEF Worker, Stages
  <2>3. worker' = [worker EXCEPT ![w] = r]
    BY <2>1
  <2> QED
    BY <1>1, <1>2, <1>8, <2>2, <2>3 DEF Changes, Generated
<1>9. CASE Claim(w)
  <2>1. row[worker[w].job].token + 1 \in Nat
    BY <1>2, WorkerType DEF Row
  <2> DEFINE r == [worker[w] EXCEPT !.stage = "running", !.token = row[worker[w].job].token + 1]
  <2>2. r \in Worker /\ r.stage # "idle" /\ r.job = worker[w].job
    BY <1>1, <2>1 DEF Worker, Stages
  <2>3. worker' = [worker EXCEPT ![w] = r]
    BY <1>9 DEF Claim
  <2> QED
    BY <1>1, <1>2, <1>9, <2>2, <2>3 DEF Changes, Claim
<1> QED
  BY <1>3, <1>5, <1>6, <1>7, <1>8, <1>9 DEF WorkerStep

LEMMA ChangesType ==
    ASSUME TypeOK, QueuesFinite, Shared, NEW w \in Workers, worker[w].stage # "idle", Changes(w)
    PROVE  QueuesType' /\ WorkersType'
<1>1. QueuesType
  BY TypeParts DEF Types
<1>2. CASE Retire(w)
  BY <1>2, RetireType
<1>3. CASE ~ Retire(w)
  <2>1. PICK r \in Worker : /\ r.stage # "idle" /\ r.job = worker[w].job
                            /\ worker' = [worker EXCEPT ![w] = r]
    BY <1>3 DEF Changes
  <2>2. UNCHANGED <<queues>> /\ suspended' \subseteq Workers
    BY <1>3 DEF Changes
  <2>3. WorkersType'
    BY <2>1, <2>2, GotoType
  <2> QED
    BY <1>1, <2>2, <2>3, QuietQueues
<1> QED
  BY <1>2, <1>3

LEMMA ChangesShared ==
    ASSUME TypeOK, Shared, UNCHANGED setup, NEW w \in Workers, worker[w].stage # "idle", Changes(w)
    PROVE  Shared'
<1>1. worker \in [Workers -> Worker] /\ queued \in [Instances -> SUBSET Jobs]
  BY DEF TypeOK
<1>2. \A v \in Workers : Site(v)' = Site(v) /\ Site(v) \in Instances
  BY WorkerType DEF Site
<1>3. CASE Retire(w)
  <2>1. worker'[w] = Idle /\ \A v \in Workers : v # w => worker'[v] = worker[v]
    BY <1>1, <1>3 DEF Retire
  <2>2. Idle.stage = "idle"
    BY DEF Idle
  <2>3. queue' = queue /\ queued' = [queued EXCEPT ![Site(w)] = @ \ {worker[w].job}]
    BY <1>3 DEF Retire
  <2> SUFFICES ASSUME NEW v \in Workers, worker'[v].stage # "idle"
               PROVE  /\ worker'[v].job \in queued'[Site(v)] \ queue'[Site(v)]
                      /\ \A u \in Workers : u # v /\ worker'[u].stage # "idle" /\ Site(u) = Site(v)
                            => worker'[u].job # worker'[v].job
    BY <1>2 DEF Shared
  <2>4. v # w /\ worker'[v] = worker[v]
    BY <2>1, <2>2
  <2>5. worker[v].job \in queued'[Site(v)]
    <3>1. CASE Site(v) = Site(w)
      BY <1>1, <1>2, <2>3, <2>4, <3>1 DEF Shared
    <3>2. CASE Site(v) # Site(w)
      BY <1>1, <1>2, <2>3, <2>4, <3>2 DEF Shared
    <3> QED
      BY <3>1, <3>2
  <2> QED
    BY <2>1, <2>2, <2>3, <2>4, <2>5 DEF Shared
<1>4. CASE ~ Retire(w)
  <2>1. PICK r \in Worker : /\ r.stage # "idle" /\ r.job = worker[w].job
                            /\ worker' = [worker EXCEPT ![w] = r]
    BY <1>4 DEF Changes
  <2>2. UNCHANGED <<queue, queued>>
    BY <1>4 DEF Changes, queues
  <2>3. \A v \in Workers : worker'[v].job = worker[v].job
                           /\ (worker'[v].stage = "idle" <=> worker[v].stage = "idle")
    BY <1>1, <2>1
  <2> QED
    BY <1>2, <2>2, <2>3 DEF Shared
<1> QED
  BY <1>3, <1>4

----------------------------------------------------------------------------
(* What happens to the rows.                                               *)

\* What the invariant says of the rows depends on these alone.
LEMMA RowsKept ==
    ASSUME Rows, UNCHANGED <<maker, row, audited, worker, suspended, usage>>
    PROVE  Rows'
  BY DEF Rows, ClaimsFit, TokensDiffer, AuditsFit, RowsFit, UsageFits, RecordedAsStored, Holding

\* Workers that hold nothing any more, and rows that are only recorded.
LEMMA RowsAlike ==
    ASSUME TypeOK, Rows, UNCHANGED <<maker, audited>>,
           \A v \in Workers :
              \/ worker'[v] = worker[v] /\ (v \in suspended' <=> v \in suspended)
              \/ worker'[v].stage \notin {"running", "closing", "auditing"},
           \A j \in Jobs : /\ row'[j].status = row[j].status /\ row'[j].token = row[j].token
                           /\ row[j].leased => row'[j].leased,
           \A v \in Workers : worker[v].stage # "idle" => worker[v].job \in Jobs,
           \A i \in Instances, j \in Jobs :
              usage'[i][j] \in Terminal => row[j].status \in {usage'[i][j], "deleted"}
    PROVE  Rows'
<1>1. ClaimsFit'
  BY DEF Rows, ClaimsFit, Holding
<1>2. TokensDiffer'
  BY DEF Rows, TokensDiffer, Holding
<1>3. AuditsFit'
  BY DEF Rows, AuditsFit
<1>4. RowsFit' /\ UsageFits' /\ RecordedAsStored'
  BY DEF Rows, RowsFit, UsageFits, RecordedAsStored
<1> QED
  BY <1>1, <1>2, <1>3, <1>4 DEF Rows

\* A claim finds nobody who holds the job within a lease, and nobody who has
\* closed it.
LEMMA SeizeRows ==
    ASSUME TypeOK, Rows, NEW w \in Workers, NEW j \in Jobs, Claimable(j), Seize(j),
           UNCHANGED <<maker, audited, usage>>,
           \A v \in Workers : v # w => worker'[v] = worker[v] /\ (v \in suspended' <=> v \in suspended),
           \/ worker'[w].stage \notin {"running", "closing", "auditing"}
           \/ worker'[w].stage = "running" /\ worker'[w].job = j /\ worker'[w].token = row[j].token + 1,
           \A v \in Workers : worker[v].stage # "idle" => worker[v].job \in Jobs
    PROVE  Rows'
<1>1. ClaimsFit /\ TokensDiffer /\ AuditsFit /\ RowsFit /\ UsageFits /\ RecordedAsStored
  BY DEF Rows
<1>2. /\ row \in [Jobs -> Row] /\ row[j].token \in Nat /\ \A k \in Jobs : row[k].token \in Nat
      /\ \A v \in Workers : worker[v].token \in Nat
  BY DEF TypeOK, Row, Worker
<1>3. /\ row'[j].status = "in_progress" /\ row'[j].leased = TRUE /\ row'[j].token = row[j].token + 1
      /\ \A k \in Jobs : k # j => row'[k] = row[k]
  BY <1>2 DEF Seize, Row
<1>4. /\ row[j].status \in {"queued", "in_progress"}
      /\ row[j].status = "in_progress" => ~ row[j].leased
      /\ row[j].status = "queued" => row[j].token = 0
  BY <1>1 DEF Claimable, RowsFit
<1>5. \A v \in Workers : Holding(v) /\ worker[v].job = j =>
         v \in suspended /\ worker[v].token <= row[j].token /\ worker[v].token # row[j].token + 1
  BY <1>1, <1>2, <1>4 DEF ClaimsFit
<1>6. ClaimsFit'
  BY <1>1, <1>2, <1>3, <1>5 DEF ClaimsFit, Holding
<1>7. TokensDiffer'
  BY <1>1, <1>5 DEF TokensDiffer, Holding
<1>8. AuditsFit'
  BY <1>1, <1>3, <1>4 DEF AuditsFit, Terminal, TypeOK, Worker
<1>9. RowsFit'
  BY <1>1, <1>3, <1>4 DEF RowsFit
<1>10. UsageFits' /\ RecordedAsStored'
  BY <1>1, <1>3, <1>4 DEF UsageFits, RecordedAsStored, Terminal
<1> QED
  BY <1>6, <1>7, <1>8, <1>9, <1>10 DEF Rows

\* The owner of a row closes it.
LEMMA CloseRows ==
    ASSUME TypeOK, Rows, NEW w \in Workers, worker[w].stage = "closing", Owns(w), Close(w),
           UNCHANGED <<maker, audited, usage>>,
           \A v \in Workers : v # w => worker'[v] = worker[v],
           worker'[w].job = worker[w].job, worker'[w].outcome = worker[w].outcome,
           worker'[w].token = worker[w].token,
           worker'[w].stage \in {"closing", "auditing"}, UNCHANGED suspended,
           \A v \in Workers : worker[v].stage # "idle" => worker[v].job \in Jobs
    PROVE  Rows'
<1> DEFINE j == worker[w].job
<1>1. ClaimsFit /\ TokensDiffer /\ AuditsFit /\ RowsFit /\ UsageFits /\ RecordedAsStored
  BY DEF Rows
<1>2. /\ row \in [Jobs -> Row] /\ j \in Jobs /\ worker[w].outcome \in Terminal
      /\ \A k \in Jobs : row[k].token \in Nat
      /\ \A v \in Workers : worker[v].token \in Nat
  BY DEF TypeOK, Row, Worker
<1>3. /\ row'[j].status = worker[w].outcome /\ row'[j].token = row[j].token
      /\ \A k \in Jobs : k # j => row'[k] = row[k]
  BY <1>2 DEF Close, Row
<1>4. row[j].status \in {"in_progress", worker[w].outcome} /\ worker[w].token = row[j].token
  BY <1>1 DEF Owns, ClaimsFit, Holding
<1>5. \A v \in Workers : v # w /\ Holding(v) /\ worker[v].job = j =>
         v \in suspended /\ worker[v].token # row[j].token
  BY <1>1, <1>4 DEF ClaimsFit, TokensDiffer, Holding
<1>6. ClaimsFit'
  BY <1>1, <1>2, <1>3, <1>4, <1>5 DEF ClaimsFit, Holding, Terminal
<1>7. TokensDiffer'
  BY <1>1 DEF TokensDiffer, Holding
<1>8. AuditsFit'
  BY <1>1, <1>3, <1>4 DEF AuditsFit, Terminal, TypeOK, Worker
<1>9. RowsFit'
  BY <1>1, <1>2, <1>3, <1>4 DEF RowsFit, Terminal
<1>10. UsageFits' /\ RecordedAsStored'
  BY <1>1, <1>2, <1>3, <1>4 DEF UsageFits, RecordedAsStored, Terminal
<1> QED
  BY <1>6, <1>7, <1>8, <1>9, <1>10 DEF Rows

\* The record of a closed job: the first one stays.
LEMMA SettleRecorded ==
    ASSUME TypeOK, RecordedAsStored, NEW j \in Jobs, NEW s \in Terminal, NEW i, Settle(j, s, i),
           row[j].status \in {s, "deleted"},
           \A k \in Jobs : row'[k] = row[k]
    PROVE  RecordedAsStored'
<1>1. audited \in [Jobs -> {"none", "free", "charged"}]
  BY DEF TypeOK
<1>2. CASE audited[j] # "none"
  BY <1>2 DEF Settle, RecordedAsStored
<1>3. CASE audited[j] = "none"
  <2>1. audited' = [audited EXCEPT ![j] = IF s = "completed" THEN "charged" ELSE "free"]
    BY <1>3 DEF Settle
  <2> QED
    BY <1>1, <2>1 DEF RecordedAsStored, Terminal
<1> QED
  BY <1>2, <1>3

----------------------------------------------------------------------------
(* The steps of a worker.                                                  *)

LEMMA WorkerRows ==
    ASSUME IInv, NEW w \in Workers, WorkerStep(w)
    PROVE  Rows'
<1> DEFINE j == worker[w].job
<1>1. /\ TypeOK /\ Rows /\ ClaimsFit /\ TokensDiffer /\ AuditsFit /\ RowsFit /\ UsageFits
      /\ RecordedAsStored
  BY DEF IInv, Rows
<1>2. /\ worker \in [Workers -> Worker] /\ row \in [Jobs -> Row] /\ suspended \subseteq Workers
      /\ \A v \in Workers : worker[v].stage # "idle" => worker[v].job \in Jobs
  BY <1>1, WorkerType DEF TypeOK
<1>3. \A i \in Instances, k \in Jobs : usage[i][k] \in Terminal => row[k].status \in {usage[i][k], "deleted"}
  BY <1>1 DEF UsageFits
<1>4. Idle.stage \notin {"running", "closing", "auditing"}
  BY DEF Idle
<1>5. ASSUME Retire(w)
      PROVE  /\ worker'[w].stage \notin {"running", "closing", "auditing"}
             /\ \A v \in Workers : v # w => worker'[v] = worker[v] /\ (v \in suspended' <=> v \in suspended)
  BY <1>2, <1>4, <1>5 DEF Retire
<1>6. ASSUME Conclude(w)
      PROVE  /\ worker'[w].stage \notin {"running", "closing", "auditing"}
             /\ \A v \in Workers : v # w => worker'[v] = worker[v] /\ (v \in suspended' <=> v \in suspended)
  <2>1. CASE worker[w].outcome = "failed"
    <3>1. /\ worker' = [worker EXCEPT ![w] = [worker[w] EXCEPT !.stage = "cancelling"]]
          /\ UNCHANGED suspended
      BY <1>6, <2>1 DEF Conclude, Goto
    <3> QED
      BY <1>2, <3>1 DEF Worker
  <2>2. CASE worker[w].outcome # "failed"
    BY <1>5, <1>6, <2>2 DEF Conclude
  <2> QED
    BY <2>1, <2>2
<1>7. CASE Take(w)
  BY <1>1, <1>2, <1>3, <1>7, RowsAlike DEF Take, ledger, Idle
<1>8. CASE NotClaimed(w) \/ NotClosed(w) \/ CloseFails(w) \/ CancelFails(w)
  BY <1>1, <1>2, <1>3, <1>5, <1>8, RowsAlike DEF NotClaimed, NotClosed, CloseFails, CancelFails, ledger
<1>9. CASE Cancel(w)
  BY <1>1, <1>2, <1>3, <1>5, <1>9, RowsAlike DEF Cancel, Unbook
<1>10. CASE AuditFails(w) \/ MarkFails(w)
  BY <1>1, <1>2, <1>3, <1>6, <1>10, RowsAlike DEF AuditFails, MarkFails, ledger
<1>11. CASE Mark(w)
  <2>1. \A k \in Jobs : /\ row'[k].status = row[k].status /\ row'[k].token = row[k].token
                        /\ row[k].leased => row'[k].leased
    BY <1>2, <1>11 DEF Mark, MarkRow, Row
  <2> QED
    BY <1>1, <1>2, <1>3, <1>6, <1>11, <2>1, RowsAlike DEF Mark, ledger
<1>12. CASE Defer(w)
  <2>1. j \in Jobs
    BY <1>2, <1>12 DEF Defer
  <2>2. Owns(w) => row[j].status = "in_progress"
    BY <1>1, <1>12 DEF Defer, Owns, ClaimsFit, Holding
  <2>3. \A k \in Jobs : /\ row'[k].status = row[k].status /\ row'[k].token = row[k].token
                        /\ row[k].leased => row'[k].leased
    <3>1. CASE Owns(w)
      <4>1. row' = [row EXCEPT ![j].status = "in_progress", ![j].leased = TRUE]
        BY <1>12, <3>1 DEF Defer
      <4> QED
        BY <1>2, <2>1, <2>2, <3>1, <4>1 DEF Row
    <3>2. CASE ~ Owns(w)
      BY <1>12, <3>2 DEF Defer
    <3> QED
      BY <3>1, <3>2
  <2> QED
    BY <1>1, <1>2, <1>3, <1>5, <1>12, <2>3, RowsAlike DEF Defer, ledger
<1>13. CASE Claim(w)
  <2>1. j \in Jobs /\ Claimable(j) /\ Seize(j) /\ row[j].token + 1 \in Nat
    BY <1>2, <1>13 DEF Claim, Row
  <2>2. worker' = [worker EXCEPT ![w] = [worker[w] EXCEPT !.stage = "running", !.token = row[j].token + 1]]
    BY <1>13 DEF Claim
  <2>3. worker'[w].stage = "running" /\ worker'[w].job = j /\ worker'[w].token = row[j].token + 1
    BY <1>2, <2>1, <2>2 DEF Worker
  <2> QED
    BY <1>1, <1>2, <1>13, <2>1, <2>2, <2>3, SeizeRows DEF Claim, ledger
<1>14. CASE ClaimFails(w)
  <2>1. CASE UNCHANGED row
    BY <1>1, <1>2, <1>3, <1>5, <1>14, <2>1, RowsAlike DEF ClaimFails, ledger
  <2>2. CASE Claimable(j) /\ Seize(j)
    BY <1>1, <1>2, <1>5, <1>14, <2>2, SeizeRows DEF ClaimFails, ledger
  <2> QED
    BY <1>14, <2>1, <2>2 DEF ClaimFails
<1>15. CASE Closed(w)
  <2>1. worker' = [worker EXCEPT ![w] = [worker[w] EXCEPT !.stage = "auditing"]]
    BY <1>15 DEF Closed, Goto
  <2>2. /\ worker'[w].stage = "auditing" /\ worker'[w].job = j
        /\ worker'[w].outcome = worker[w].outcome /\ worker'[w].token = worker[w].token
    BY <1>2, <2>1 DEF Worker
  <2> QED
    BY <1>1, <1>2, <1>15, <2>1, <2>2, CloseRows DEF Closed, ledger
<1>16. CASE CloseLost(w)
  BY <1>1, <1>2, <1>16, CloseRows DEF CloseLost, ledger
<1>17. CASE Generated(w)
  <2>1. PICK o \in Terminal :
           worker' = [worker EXCEPT ![w] = [worker[w] EXCEPT !.stage = "closing", !.outcome = o]]
    BY <1>17 DEF Generated
  <2>2. /\ worker'[w].stage = "closing" /\ worker'[w].job = j /\ worker'[w].token = worker[w].token
        /\ \A v \in Workers : v # w => worker'[v] = worker[v]
    BY <1>2, <2>1 DEF Worker
  <2>3. UNCHANGED <<maker, row, audited, suspended, usage>> /\ Holding(w) /\ worker[w].stage = "running"
    BY <1>17 DEF Generated, ledger, Holding
  <2>4. \A v \in Workers : Holding(v)' <=> Holding(v)
    BY <2>2, <2>3 DEF Holding
  <2>5. \A v \in Workers : worker'[v].job = worker[v].job /\ worker'[v].token = worker[v].token
    BY <2>2
  <2>6. ClaimsFit'
    BY <1>1, <2>2, <2>3, <2>4, <2>5 DEF ClaimsFit
  <2>7. TokensDiffer'
    BY <1>1, <2>4, <2>5 DEF TokensDiffer
  <2>8. AuditsFit' /\ RowsFit' /\ UsageFits' /\ RecordedAsStored'
    BY <1>1, <2>2, <2>3 DEF AuditsFit, RowsFit, UsageFits, RecordedAsStored
  <2> QED
    BY <2>6, <2>7, <2>8 DEF Rows
<1>18. CASE Progress(w)
  <2>1. /\ j \in Jobs /\ Holding(w) /\ worker[w].stage = "running"
        /\ UNCHANGED <<maker, audited, worker, usage>>
        /\ suspended' = suspended \ {w}
        /\ row' = [row EXCEPT ![j].status = "in_progress", ![j].leased = TRUE]
    BY <1>2, <1>18 DEF Progress, ledger, Holding
  <2>2. worker[w].token = row[j].token /\ row[j].status = "in_progress"
    BY <1>1, <1>18, <2>1 DEF Progress, Owns, ClaimsFit
  <2>3. \A k \in Jobs : /\ row'[k].status = row[k].status /\ row'[k].token = row[k].token
                        /\ row[k].leased => row'[k].leased
    BY <1>2, <2>1, <2>2 DEF Row
  <2>4. row'[j].leased
    BY <1>2, <2>1 DEF Row
  <2>5. ClaimsFit'
    BY <1>1, <1>2, <2>1, <2>2, <2>3, <2>4 DEF ClaimsFit, Holding
  <2>6. TokensDiffer' /\ AuditsFit' /\ RowsFit' /\ UsageFits' /\ RecordedAsStored'
    BY <1>1, <1>2, <2>1, <2>3
       DEF TokensDiffer, AuditsFit, RowsFit, UsageFits, RecordedAsStored, Holding
  <2> QED
    BY <2>5, <2>6 DEF Rows
<1>19. CASE Suspend(w)
  <2>1. /\ j \in Jobs /\ Holding(w) /\ worker[w].token = row[j].token
        /\ UNCHANGED <<maker, audited, worker, usage>>
        /\ suspended' = suspended \cup {w}
        /\ row' = [row EXCEPT ![j].leased = FALSE]
    BY <1>2, <1>19 DEF Suspend, Works, ledger, Holding
  <2>2. \A k \in Jobs : /\ row'[k].status = row[k].status /\ row'[k].token = row[k].token
                        /\ k # j => row'[k].leased = row[k].leased
    BY <1>2, <2>1 DEF Row
  <2>3. \A v \in Workers : v # w /\ Holding(v) /\ worker[v].job = j => v \in suspended
    BY <1>1, <2>1 DEF ClaimsFit, TokensDiffer
  <2>4. ClaimsFit'
    BY <1>1, <1>2, <2>1, <2>2, <2>3 DEF ClaimsFit, Holding
  <2>5. TokensDiffer' /\ AuditsFit' /\ RowsFit' /\ UsageFits' /\ RecordedAsStored'
    BY <1>1, <1>2, <2>1, <2>2
       DEF TokensDiffer, AuditsFit, RowsFit, UsageFits, RecordedAsStored, Holding
  <2> QED
    BY <2>4, <2>5 DEF Rows
<1>20. CASE Audit(w)
  <2>1. /\ j \in Jobs /\ worker[w].outcome \in Terminal /\ row[j].status \in {worker[w].outcome, "deleted"}
        /\ UNCHANGED <<maker, row, suspended, usage>>
    BY <1>1, <1>2, <1>20 DEF Audit, AuditsFit, Worker
  <2>2. RecordedAsStored'
    BY <1>1, <1>20, <2>1, SettleRecorded DEF Audit
  <2>3. \A v \in Workers : worker'[v] = worker[v] \/ worker'[v].stage = "marking"
    BY <1>2, <1>20 DEF Audit, Goto, Worker
  <2>4. ClaimsFit' /\ TokensDiffer' /\ AuditsFit' /\ RowsFit' /\ UsageFits'
    BY <1>1, <2>1, <2>3 DEF ClaimsFit, TokensDiffer, AuditsFit, RowsFit, UsageFits, Holding
  <2> QED
    BY <2>2, <2>4 DEF Rows
<1> QED
  BY <1>7, <1>8, <1>9, <1>10, <1>11, <1>12, <1>13, <1>14, <1>15, <1>16, <1>17, <1>18, <1>19, <1>20
     DEF WorkerStep

LEMMA TakeQueues ==
    ASSUME TypeOK, QueuesFinite, Shared, UNCHANGED setup, NEW w \in Workers, Take(w)
    PROVE  QueuesType' /\ WorkersType' /\ Shared'
<1>1. PICK j \in queue[Site(w)] :
         /\ queue' = [queue EXCEPT ![Site(w)] = @ \ {j}]
         /\ worker' = [worker EXCEPT ![w] = [Idle EXCEPT !.stage = "claiming", !.job = j]]
  BY DEF Take
<1>2. \A v \in Workers : Site(v)' = Site(v) /\ Site(v) \in Instances
  BY WorkerType DEF Site
<1>3. /\ queue \in [Instances -> SUBSET Jobs] /\ worker \in [Workers -> Worker]
      /\ UNCHANGED <<queued, suspended>> /\ worker[w].stage = "idle"
      /\ \A i \in Instances : queue[i] \subseteq queued[i]
  BY DEF TypeOK, Take
<1>4. j \in Jobs /\ j # NoJob /\ j \in queued[Site(w)]
  BY <1>2, <1>3, VideoAssumption
<1>5. /\ worker'[w] \in Worker /\ worker'[w].stage = "claiming" /\ worker'[w].job = j
      /\ \A v \in Workers : v # w => worker'[v] = worker[v]
  BY <1>1, <1>3, <1>4 DEF Idle, Worker, Stages, Terminal
<1>6. WorkersType'
  <2>1. worker' \in [Workers -> Worker]
    BY <1>1, <1>3, <1>5
  <2> QED
    BY <1>3, <1>4, <1>5, <2>1 DEF WorkersType, TypeOK
<1>7. QueuesType'
  <2>1. queue' \in [Instances -> SUBSET Jobs] /\ \A i \in Instances : queue'[i] \subseteq queue[i]
    BY <1>1, <1>2, <1>3
  <2>2. ASSUME NEW i \in Instances
        PROVE  IsFiniteSet(queue'[i]) /\ Cardinality(queue'[i]) <= QueueSize
    <3>1. IsFiniteSet(queue[i]) /\ Cardinality(queue[i]) <= QueueSize
      BY DEF TypeOK, QueuesFinite
    <3>2. /\ IsFiniteSet(queue'[i]) /\ Cardinality(queue'[i]) <= Cardinality(queue[i])
          /\ Cardinality(queue'[i]) \in Nat /\ Cardinality(queue[i]) \in Nat
      BY <2>1, <3>1, FS_Subset, FS_CardinalityType
    <3> QED
      BY <3>1, <3>2, VideoAssumption
  <2> QED
    BY <1>3, <2>1, <2>2 DEF QueuesType, TypeOK
<1>8. Shared'
  <2>1. \A v \in Workers : v # w /\ worker[v].stage # "idle" /\ Site(v) = Site(w) => worker[v].job # j
    BY <1>1 DEF Shared
  <2>2. j \notin queue'[Site(w)] /\ \A i \in Instances : queue'[i] \subseteq queue[i]
    BY <1>1, <1>2, <1>3
  <2> QED
    BY <1>2, <1>3, <1>4, <1>5, <2>1, <2>2 DEF Shared
<1> QED
  BY <1>6, <1>7, <1>8

\* The ledger after a job was settled or its reservation given back.
LEMMA SettleType ==
    ASSUME TypeOK, NEW j \in Jobs, NEW i \in Instances, NEW s, Settle(j, s, i) \/ Unbook(j, i)
    PROVE  LedgerType'
<1>1. /\ held \subseteq Jobs /\ expired \subseteq held /\ reclaimed \subseteq Jobs
      /\ audited \in [Jobs -> {"none", "free", "charged"}]
      /\ late \subseteq Jobs /\ active \subseteq Jobs
  BY DEF TypeOK
<1>2. CASE Unbook(j, i)
  BY <1>1, <1>2 DEF Unbook, LedgerType
<1>3. CASE Settle(j, s, i)
  <2>1. active' \subseteq Jobs /\ reclaimed' = reclaimed
    BY <1>1, <1>3 DEF Settle
  <2>2. CASE audited[j] # "none"
    BY <1>1, <1>3, <2>1, <2>2 DEF Settle, LedgerType
  <2>3. CASE audited[j] = "none"
    <3>1. /\ audited' = [audited EXCEPT ![j] = IF s = "completed" THEN "charged" ELSE "free"]
          /\ held' = held \ {j} /\ expired' = expired \ {j} /\ late' \subseteq late \cup {j}
      BY <1>3, <2>3 DEF Settle
    <3>2. audited' \in [Jobs -> {"none", "free", "charged"}]
      BY <1>1, <3>1
    <3> QED
      BY <1>1, <2>1, <3>1, <3>2 DEF LedgerType
  <2> QED
    BY <2>2, <2>3
<1> QED
  BY <1>2, <1>3

LEMMA WorkerInv ==
    ASSUME IInv, UNCHANGED setup, NEW w \in Workers, WorkerStep(w)
    PROVE  IInv'
<1> DEFINE j == worker[w].job
<1>1. TypeOK /\ QueuesFinite /\ Shared /\ Types
  BY TypeParts DEF IInv
<1>2. QueuesType' /\ WorkersType' /\ Shared'
  <2>1. CASE Take(w)
    BY <1>1, <2>1, TakeQueues
  <2>2. CASE ~ Take(w)
    BY <1>1, <2>2, WorkerChanges, ChangesType, ChangesShared
  <2> QED
    BY <2>1, <2>2
<1>3. worker[w].stage # "idle" => j \in Jobs /\ row[j] \in Row
  BY <1>1, WorkerType
<1>4. Site(w) \in Instances /\ worker[w].outcome \in Terminal
  BY <1>1, WorkerType DEF Site, Worker
<1>5. LedgerType'
  <2>1. CASE Audit(w) \/ Cancel(w)
    BY <1>1, <1>3, <1>4, <2>1, SettleType DEF Audit, Cancel
  <2>2. CASE ~ (Audit(w) \/ Cancel(w))
    <3>1. UNCHANGED ledger
      BY <2>2 DEF WorkerStep, Take, Claim, NotClaimed, ClaimFails, Progress, Generated, Defer, Suspend,
                  Closed, NotClosed, CloseLost, CloseFails, AuditFails, Mark, MarkFails, CancelFails
    <3> QED
      BY <1>1, <3>1 DEF Types, LedgerType, ledger
  <2> QED
    BY <2>1, <2>2
<1>6. row' \in [Jobs -> Row]
  <2>1. row \in [Jobs -> Row]
    BY <1>1 DEF Types
  <2>2. CASE Claim(w) \/ ClaimFails(w)
    <3>1. CASE Seize(j)
      <4>1. row[j].token + 1 \in Nat /\ j \in Jobs
        BY <1>3, <2>2 DEF Claim, ClaimFails, Row
      <4>2. [row[j] EXCEPT !.status = "in_progress", !.leased = TRUE, !.token = @ + 1] \in Row
        BY <1>3, <2>2, <4>1 DEF Claim, ClaimFails, Row
      <4> QED
        BY <2>1, <3>1, <4>1, <4>2 DEF Seize
    <3>2. CASE UNCHANGED row
      BY <2>1, <3>2
    <3> QED
      BY <2>2, <3>1, <3>2 DEF Claim, ClaimFails
  <2>3. CASE Progress(w) \/ Defer(w) \/ Suspend(w)
    <3>1. j \in Jobs /\ row[j] \in Row
      BY <1>3, <2>3 DEF Progress, Defer, Suspend, Works, WorkersType, TypeOK
    <3>2. /\ [row[j] EXCEPT !.status = "in_progress", !.leased = TRUE] \in Row
          /\ [row[j] EXCEPT !.leased = FALSE] \in Row
      BY <3>1 DEF Row
    <3>3. \/ UNCHANGED row
          \/ row' = [row EXCEPT ![j] = [row[j] EXCEPT !.status = "in_progress", !.leased = TRUE]]
          \/ row' = [row EXCEPT ![j] = [row[j] EXCEPT !.leased = FALSE]]
      BY <2>3 DEF Progress, Defer, Suspend
    <3> QED
      BY <2>1, <3>1, <3>2, <3>3
  <2>4. CASE Closed(w) \/ CloseLost(w)
    BY <1>3, <1>4, <2>1, <2>4 DEF Closed, CloseLost, Close, Row
  <2>5. CASE Mark(w)
    BY <1>3, <2>1, <2>5 DEF Mark, MarkRow, Row
  <2>6. CASE UNCHANGED row
    BY <2>1, <2>6
  <2> QED
    BY <2>2, <2>3, <2>4, <2>5, <2>6
       DEF WorkerStep, Take, NotClaimed, Generated, NotClosed, CloseFails, Audit, AuditFails,
           MarkFails, Cancel, CancelFails
<1>7. MakersType' /\ RecoveryType' /\ FaultsType'
  <2>1. UNCHANGED <<maker, usage>>
    BY DEF WorkerStep, Take, Claim, NotClaimed, ClaimFails, Progress, Generated, Defer, Suspend,
           Closed, NotClosed, CloseLost, CloseFails, Audit, AuditFails, Mark, MarkFails, Cancel, CancelFails
  <2>2. UNCHANGED faults \/ Fault
    BY DEF WorkerStep, Take, Claim, NotClaimed, ClaimFails, Progress, Generated, Defer, Suspend,
           Closed, NotClosed, CloseLost, CloseFails, Audit, AuditFails, Mark, MarkFails, Cancel, CancelFails
  <2>3. setup.faults \in Nat /\ faults \in 0 .. setup.faults
    BY <1>1, VideoAssumption DEF Types, FaultsType
  <2> QED
    BY <1>1, <2>1, <2>2, <2>3 DEF Types, MakersType, RecoveryType, FaultsType, Fault
<1>8. Types'
  BY <1>2, <1>5, <1>6, <1>7 DEF Types
<1>9. TypeOK' /\ QueuesFinite'
  BY <1>8 DEF TypeOK, QueuesFinite, Types, QueuesType, WorkersType, LedgerType, RecoveryType,
              MakersType, FaultsType
<1> QED
  BY <1>2, <1>9, WorkerRows DEF IInv

----------------------------------------------------------------------------
(* The steps of requests, of time and of the administrator.                *)

LEMMA SharedKept ==
    ASSUME Shared, UNCHANGED <<setup, worker, queue, queued>>
    PROVE  Shared'
  BY DEF Shared, Site

\* Queueing a job leaves those of the workers alone.
LEMMA EnqueueShared ==
    ASSUME TypeOK, Shared, UNCHANGED <<setup, worker>>, NEW i \in Instances, NEW j \in Jobs,
           Enqueue(i, j)
    PROVE  Shared'
<1>1. \A v \in Workers : Site(v)' = Site(v) /\ Site(v) \in Instances
  BY WorkerType DEF Site
<1>2. queue \in [Instances -> SUBSET Jobs] /\ queued \in [Instances -> SUBSET Jobs]
  BY DEF TypeOK
<1>3. CASE UNCHANGED queues
  BY <1>3, SharedKept DEF queues
<1>4. CASE ~ UNCHANGED queues
  <2>1. /\ j \notin queued[i]
        /\ queue' = [queue EXCEPT ![i] = @ \cup {j}]
        /\ queued' = [queued EXCEPT ![i] = @ \cup {j}]
    BY <1>4 DEF Enqueue
  <2>2. ASSUME NEW v \in Workers, worker[v].stage # "idle"
        PROVE  worker[v].job \in queued'[Site(v)] \ queue'[Site(v)]
    <3>1. worker[v].job \in queued[Site(v)] \ queue[Site(v)]
      BY <2>2 DEF Shared
    <3> QED
      BY <1>1, <1>2, <2>1, <3>1
  <2> QED
    BY <1>1, <2>2 DEF Shared
<1> QED
  BY <1>3, <1>4

\* A step that changes one row, of a job nobody has, or whose lease is over.
LEMMA JobRows ==
    ASSUME IInv, NEW j \in Jobs, JobStep(j)
    PROVE  Rows' /\ row' \in [Jobs -> Row] /\ MakersType'
<1>1. /\ TypeOK /\ Rows /\ ClaimsFit /\ TokensDiffer /\ AuditsFit /\ RowsFit /\ UsageFits
      /\ RecordedAsStored
  BY DEF IInv, Rows
<1>2. /\ worker \in [Workers -> Worker] /\ row \in [Jobs -> Row] /\ row[j] \in Row
      /\ maker \in [Jobs -> {"idle", "reserved", "cancelling", "refused", "done"}]
      /\ \A v \in Workers : worker[v].stage # "idle" => worker[v].job \in Jobs
  BY <1>1, WorkerType DEF TypeOK
<1>3. UNCHANGED <<audited, worker, suspended, usage>>
  BY DEF JobStep, Reserve, Create, CreateFails, Withdraw, WithdrawFails, LeaseLapses, Expire,
         Reclaim, Delete, Unbook, ledger
<1>4. CASE Expire(j) \/ Reclaim(j)
  <2>1. UNCHANGED <<maker, row>>
    BY <1>4 DEF Expire, Reclaim
  <2> QED
    BY <1>1, <1>2, <1>3, <2>1, RowsKept DEF MakersType
<1>5. CASE Reserve(j) \/ Withdraw(j) \/ WithdrawFails(j)
  <2>1. /\ UNCHANGED row
        /\ \/ maker[j] = "idle" /\ maker' = [maker EXCEPT ![j] = "reserved"]
           \/ maker' = [maker EXCEPT ![j] = "refused"]
    BY <1>5 DEF Reserve, Withdraw, WithdrawFails
  <2>2. MakersType'
    BY <1>2, <2>1 DEF MakersType
  <2>3. RowsFit'
    BY <1>1, <1>2, <2>1 DEF RowsFit
  <2>4. ClaimsFit' /\ TokensDiffer' /\ AuditsFit' /\ UsageFits' /\ RecordedAsStored'
    BY <1>1, <1>3, <2>1 DEF ClaimsFit, TokensDiffer, AuditsFit, UsageFits, RecordedAsStored, Holding
  <2> QED
    BY <1>2, <2>1, <2>2, <2>3, <2>4 DEF Rows
<1>6. CASE Create(j) \/ CreateFails(j)
  <2>1. /\ maker[j] = "reserved"
        /\ maker' = [maker EXCEPT ![j] = "done"] \/ maker' = [maker EXCEPT ![j] = "cancelling"]
        /\ row' = [row EXCEPT ![j].status = "queued"] \/ UNCHANGED row
    BY <1>6 DEF Create, CreateFails
  <2>2. MakersType'
    BY <1>2, <2>1 DEF MakersType
  <2>3. row[j].status = "none" /\ row[j].token = 0
    BY <1>1, <2>1 DEF RowsFit
  <2>4. /\ \A k \in Jobs : k # j => row'[k] = row[k] /\ maker'[k] = maker[k]
        /\ row'[j].status \in {"none", "queued"} /\ row'[j].token = 0
        /\ row' \in [Jobs -> Row] /\ maker'[j] \in {"done", "cancelling"}
    BY <1>2, <2>1, <2>3 DEF Row
  <2>5. /\ \A v \in Workers : Holding(v) => worker[v].job # j
        /\ \A v \in Workers : worker[v].stage = "auditing" => worker[v].job # j
        /\ \A i \in Instances : usage[i][j] \notin Terminal
        /\ audited[j] = "none"
    <3>1. \A v \in Workers : worker[v].token \in Nat /\ worker[v].outcome \in Terminal
      BY <1>2 DEF Worker
    <3> QED
      BY <1>1, <2>3, <3>1 DEF ClaimsFit, AuditsFit, UsageFits, RecordedAsStored, Terminal
  <2>6. ClaimsFit'
    BY <1>1, <1>2, <1>3, <2>4, <2>5 DEF ClaimsFit, Holding
  <2>7. TokensDiffer' /\ AuditsFit'
    BY <1>1, <1>2, <1>3, <2>4, <2>5 DEF TokensDiffer, AuditsFit, Holding
  <2>8. RowsFit' /\ UsageFits' /\ RecordedAsStored'
    BY <1>1, <1>3, <2>4, <2>5 DEF RowsFit, UsageFits, RecordedAsStored
  <2> QED
    BY <2>2, <2>4, <2>6, <2>7, <2>8 DEF Rows
<1>7. CASE LeaseLapses(j)
  <2>1. /\ row' = [row EXCEPT ![j].leased = FALSE] /\ UNCHANGED maker
        /\ \A w \in Workers : ~ Works(w, j)
    BY <1>7 DEF LeaseLapses
  <2>2. /\ \A k \in Jobs : /\ row'[k].status = row[k].status /\ row'[k].token = row[k].token
                           /\ k # j => row'[k].leased = row[k].leased
        /\ row' \in [Jobs -> Row]
    BY <1>2, <2>1 DEF Row
  <2>3. \A v \in Workers : Holding(v) /\ worker[v].job = j => v \in suspended
    BY <1>1, <2>1 DEF ClaimsFit, Works, Holding
  <2>4. ClaimsFit'
    BY <1>1, <1>2, <1>3, <2>2, <2>3 DEF ClaimsFit, Holding
  <2>5. TokensDiffer' /\ AuditsFit' /\ RowsFit' /\ UsageFits' /\ RecordedAsStored'
    BY <1>1, <1>2, <1>3, <2>1, <2>2
       DEF TokensDiffer, AuditsFit, RowsFit, UsageFits, RecordedAsStored, Holding
  <2> QED
    BY <1>2, <2>1, <2>2, <2>4, <2>5 DEF Rows, MakersType
<1>8. CASE Delete(j)
  <2>1. /\ row' = [row EXCEPT ![j].status = "deleted"] /\ UNCHANGED maker
        /\ row[j].status \in Terminal
    BY <1>8 DEF Delete
  <2>2. /\ \A k \in Jobs : /\ row'[k].token = row[k].token
                           /\ k # j => row'[k] = row[k]
        /\ row'[j].status = "deleted"
        /\ row' \in [Jobs -> Row]
    BY <1>2, <2>1 DEF Row
  <2>3. ClaimsFit'
    BY <1>1, <1>2, <1>3, <2>2 DEF ClaimsFit, Holding
  <2>4. RowsFit'
    BY <1>1, <2>1, <2>2 DEF RowsFit, Terminal
  <2>5. TokensDiffer' /\ AuditsFit' /\ UsageFits' /\ RecordedAsStored'
    BY <1>1, <1>2, <1>3, <2>2 DEF TokensDiffer, AuditsFit, UsageFits, RecordedAsStored, Holding
  <2> QED
    BY <1>2, <2>1, <2>2, <2>3, <2>4, <2>5 DEF Rows, MakersType
<1> QED
  BY <1>4, <1>5, <1>6, <1>7, <1>8 DEF JobStep

LEMMA JobInv ==
    ASSUME IInv, UNCHANGED setup, NEW j \in Jobs, JobStep(j)
    PROVE  IInv'
<1>1. TypeOK /\ QueuesFinite /\ Shared /\ Types
  BY TypeParts DEF IInv
<1>2. Home(j) \in Instances
  BY <1>1, HomeType
<1>3. UNCHANGED <<worker, suspended, usage>>
  BY DEF JobStep, Reserve, Create, CreateFails, Withdraw, WithdrawFails, LeaseLapses, Expire,
         Reclaim, Delete
<1>4. QueuesType' /\ Shared'
  <2>1. CASE Create(j)
    BY <1>1, <1>2, <1>3, <2>1, EnqueueQueues, EnqueueShared DEF Create
  <2>2. CASE ~ Create(j)
    <3>1. UNCHANGED queues
      BY <2>2 DEF JobStep, Reserve, CreateFails, Withdraw, WithdrawFails, LeaseLapses, Expire,
                  Reclaim, Delete
    <3> QED
      BY <1>1, <1>3, <3>1, QuietQueues, SharedKept DEF Types, queues
  <2> QED
    BY <2>1, <2>2
<1>5. LedgerType'
  <2>1. CASE Withdraw(j)
    BY <1>1, <1>2, <2>1, SettleType DEF Withdraw
  <2>2. CASE Reserve(j) \/ Expire(j) \/ Reclaim(j)
    BY <1>1, <2>2 DEF Reserve, Expire, Reclaim, Types, LedgerType
  <2>3. CASE UNCHANGED ledger
    BY <1>1, <2>3 DEF Types, LedgerType, ledger
  <2> QED
    BY <2>1, <2>2, <2>3 DEF JobStep, Create, CreateFails, WithdrawFails, LeaseLapses, Delete
<1>6. FaultsType'
  <2>1. UNCHANGED faults \/ Fault
    BY DEF JobStep, Reserve, Create, CreateFails, Withdraw, WithdrawFails, LeaseLapses, Expire,
           Reclaim, Delete
  <2>2. setup.faults \in Nat /\ faults \in 0 .. setup.faults
    BY <1>1, VideoAssumption DEF Types, FaultsType
  <2> QED
    BY <1>1, <2>1, <2>2 DEF Types, FaultsType, Fault
<1>7. row' \in [Jobs -> Row] /\ MakersType' /\ Rows'
  BY JobRows
<1>8. WorkersType' /\ RecoveryType'
  BY <1>1, <1>3 DEF Types, WorkersType, RecoveryType
<1>9. Types'
  BY <1>4, <1>5, <1>6, <1>7, <1>8 DEF Types
<1>10. TypeOK' /\ QueuesFinite'
  BY <1>9 DEF TypeOK, QueuesFinite, Types, QueuesType, WorkersType, LedgerType, RecoveryType,
              MakersType, FaultsType
<1> QED
  BY <1>4, <1>7, <1>10 DEF IInv

----------------------------------------------------------------------------
(* The recovery and the cleanup of a process, and its end.                 *)

LEMMA RecoveryRows ==
    ASSUME IInv, NEW i \in Instances, InstanceStep(i), ~ Crash(i)
    PROVE  Rows' /\ row' \in [Jobs -> Row] /\ RecoveryType' /\ LedgerType'
<1>1. TypeOK /\ Rows /\ UsageFits /\ RecordedAsStored /\ Types /\ LedgerType
  BY TypeParts DEF IInv, Rows, Types
<1>2. /\ worker \in [Workers -> Worker] /\ row \in [Jobs -> Row]
      /\ usage \in [Instances -> [Jobs -> {"none", "recorded"} \cup Terminal]]
      /\ \A v \in Workers : worker[v].stage # "idle" => worker[v].job \in Jobs
      /\ "none" \notin Terminal /\ "recorded" \notin Terminal /\ "deleted" \notin Terminal
  BY <1>1, WorkerType DEF TypeOK, Terminal
<1>3. UNCHANGED <<maker, worker, suspended>>
  BY DEF InstanceStep, ListUnrecorded, Recover, Reconcile, ReconcileFails, MarkReconciled, Cleanup
<1>4. CASE ListUnrecorded(i)
  <2>1. /\ usage' = [usage EXCEPT ![i] = [k \in Jobs |-> IF Unrecorded(k) THEN row[k].status ELSE "none"]]
        /\ UNCHANGED <<row, ledger>>
    BY <1>4 DEF ListUnrecorded
  <2>2. [k \in Jobs |-> IF Unrecorded(k) THEN row[k].status ELSE "none"]
           \in [Jobs -> {"none", "recorded"} \cup Terminal]
    BY DEF Unrecorded
  <2>3. RecoveryType'
    BY <1>2, <2>1, <2>2 DEF RecoveryType
  <2>4. \A h \in Instances, k \in Jobs : usage'[h][k] \in Terminal => row[k].status \in {usage'[h][k], "deleted"}
    BY <1>1, <1>2, <2>1 DEF UsageFits
  <2>5. Rows'
    BY <1>1, <1>2, <1>3, <2>1, <2>4, RowsAlike DEF ledger
  <2> QED
    BY <1>1, <1>2, <2>1, <2>3, <2>5 DEF LedgerType, ledger
<1>5. ASSUME NEW j \in Jobs, Reconcile(i, j)
      PROVE  Rows' /\ row' \in [Jobs -> Row] /\ RecoveryType' /\ LedgerType'
  <2>1. /\ usage[i][j] \in Terminal /\ Settle(j, usage[i][j], i) /\ UNCHANGED row
        /\ usage' = [usage EXCEPT ![i][j] = "recorded"]
    BY <1>5 DEF Reconcile
  <2>2. row[j].status \in {usage[i][j], "deleted"}
    BY <1>1, <2>1 DEF UsageFits
  <2>3. RecordedAsStored'
    BY <1>1, <2>1, <2>2, SettleRecorded
  <2>4. RecoveryType'
    BY <1>2, <2>1 DEF RecoveryType
  <2>5. UsageFits'
    BY <1>1, <1>2, <2>1 DEF UsageFits
  <2>6. ClaimsFit' /\ TokensDiffer' /\ AuditsFit' /\ RowsFit'
    BY <1>1, <1>3, <2>1 DEF Rows, ClaimsFit, TokensDiffer, AuditsFit, RowsFit, Holding
  <2>7. LedgerType'
    BY <1>1, <2>1, SettleType
  <2> QED
    BY <1>2, <2>1, <2>3, <2>4, <2>5, <2>6, <2>7 DEF Rows
<1>6. ASSUME NEW j \in Jobs, ReconcileFails(i, j) \/ MarkReconciled(i, j)
      PROVE  Rows' /\ row' \in [Jobs -> Row] /\ RecoveryType' /\ LedgerType'
  <2>1. usage' = [usage EXCEPT ![i][j] = "none"] /\ UNCHANGED ledger
    BY <1>6 DEF ReconcileFails, MarkReconciled
  <2>2. /\ row' \in [Jobs -> Row]
        /\ \A k \in Jobs : /\ row'[k].status = row[k].status /\ row'[k].token = row[k].token
                           /\ row[k].leased => row'[k].leased
    <3> DEFINE r == [row[j] EXCEPT !.recorded = TRUE]
    <3>1. r \in Row /\ r.status = row[j].status /\ r.token = row[j].token /\ r.leased = row[j].leased
      BY <1>2 DEF Row
    <3>2. row' = [row EXCEPT ![j] = r] \/ UNCHANGED row
      BY <1>6 DEF ReconcileFails, MarkReconciled, MarkRow
    <3> HIDE DEF r
    <3> QED
      BY <1>2, <3>1, <3>2
  <2>3. RecoveryType'
    BY <1>2, <2>1 DEF RecoveryType
  <2>4. \A h \in Instances, k \in Jobs : usage'[h][k] \in Terminal => row[k].status \in {usage'[h][k], "deleted"}
    BY <1>1, <1>2, <2>1 DEF UsageFits
  <2>5. Rows'
    BY <1>1, <1>2, <1>3, <2>1, <2>2, <2>4, RowsAlike DEF ledger
  <2> QED
    BY <1>1, <2>1, <2>2, <2>3, <2>5 DEF LedgerType, ledger
<1>7. ASSUME NEW j \in Jobs, Recover(i, j) \/ Cleanup(i, j)
      PROVE  Rows' /\ row' \in [Jobs -> Row] /\ RecoveryType' /\ LedgerType'
  <2>1. UNCHANGED <<row, audited, usage>>
    BY <1>7 DEF Recover, Cleanup, ledger
  <2>2. LedgerType'
    BY <1>1, <1>7 DEF Recover, Cleanup, ledger, LedgerType
  <2> QED
    BY <1>1, <1>2, <1>3, <2>1, <2>2, RowsKept DEF RecoveryType
<1> QED
  BY <1>4, <1>5, <1>6, <1>7 DEF InstanceStep

LEMMA RecoveryInv ==
    ASSUME IInv, UNCHANGED setup, NEW i \in Instances, InstanceStep(i), ~ Crash(i)
    PROVE  IInv'
<1>1. TypeOK /\ QueuesFinite /\ Shared /\ Types
  BY TypeParts DEF IInv
<1>2. UNCHANGED <<maker, worker, suspended>>
  BY DEF InstanceStep, ListUnrecorded, Recover, Reconcile, ReconcileFails, MarkReconciled, Cleanup
<1>3. QueuesType' /\ Shared'
  <2>1. CASE \E j \in Jobs : Recover(i, j)
    BY <1>1, <1>2, <2>1, EnqueueQueues, EnqueueShared DEF Recover
  <2>2. CASE ~ (\E j \in Jobs : Recover(i, j))
    <3>1. UNCHANGED queues
      BY <2>2 DEF InstanceStep, ListUnrecorded, Reconcile, ReconcileFails, MarkReconciled, Cleanup
    <3> QED
      BY <1>1, <1>2, <3>1, QuietQueues, SharedKept DEF Types, queues
  <2> QED
    BY <2>1, <2>2
<1>4. Rows' /\ row' \in [Jobs -> Row] /\ RecoveryType' /\ LedgerType'
  BY RecoveryRows
<1>5. FaultsType'
  <2>1. UNCHANGED faults \/ Fault
    BY DEF InstanceStep, ListUnrecorded, Recover, Reconcile, ReconcileFails, MarkReconciled, Cleanup
  <2>2. setup.faults \in Nat /\ faults \in 0 .. setup.faults
    BY <1>1, VideoAssumption DEF Types, FaultsType
  <2> QED
    BY <1>1, <2>1, <2>2 DEF Types, FaultsType, Fault
<1>6. WorkersType' /\ MakersType'
  BY <1>1, <1>2 DEF Types, WorkersType, MakersType
<1>7. Types'
  BY <1>3, <1>4, <1>5, <1>6 DEF Types
<1>8. TypeOK' /\ QueuesFinite'
  BY <1>7 DEF TypeOK, QueuesFinite, Types, QueuesType, WorkersType, LedgerType, RecoveryType,
              MakersType, FaultsType
<1> QED
  BY <1>3, <1>4, <1>8 DEF IInv

\* A process ends, and with it its workers and what it had in memory.
LEMMA CrashInv ==
    ASSUME IInv, UNCHANGED setup, NEW i \in Instances, Crash(i)
    PROVE  IInv'
<1>1. TypeOK /\ QueuesFinite /\ Shared /\ Types /\ Rows
  BY TypeParts DEF IInv
<1>2. /\ maker' = [j \in Jobs |-> IF Home(j) = i /\ maker[j] = "cancelling" THEN "refused"
                                  ELSE IF Home(j) = i /\ maker[j] = "reserved" THEN "done" ELSE maker[j]]
      /\ active' = {j \in active : Home(j) # i}
      /\ queue' = [queue EXCEPT ![i] = {}] /\ queued' = [queued EXCEPT ![i] = {}]
      /\ worker' = [w \in Workers |-> IF Site(w) = i THEN Idle ELSE worker[w]]
      /\ suspended' = {w \in suspended : Site(w) # i}
      /\ usage' = [usage EXCEPT ![i] = [j \in Jobs |-> "none"]]
      /\ Fault /\ UNCHANGED <<row, held, expired, reclaimed, audited, late>>
  BY DEF Crash
<1>3. /\ worker \in [Workers -> Worker] /\ row \in [Jobs -> Row]
      /\ usage \in [Instances -> [Jobs -> {"none", "recorded"} \cup Terminal]]
      /\ \A v \in Workers : worker[v].stage # "idle" => worker[v].job \in Jobs
      /\ \A v \in Workers : Site(v)' = Site(v) /\ Site(v) \in Instances
      /\ Idle \in Worker /\ Idle.stage = "idle" /\ Idle.job = NoJob
  BY <1>1, WorkerType DEF TypeOK, Site, Idle, Worker, Stages, Terminal
<1>4. QueuesType'
  <2>1. IsFiniteSet({}) /\ Cardinality({}) = 0
    BY FS_EmptySet
  <2>2. queue' \in [Instances -> SUBSET Jobs] /\ queued' \in [Instances -> SUBSET Jobs]
    BY <1>1, <1>2 DEF Types, QueuesType
  <2>3. \A h \in Instances : /\ queue'[h] \subseteq queued'[h] /\ IsFiniteSet(queue'[h])
                             /\ Cardinality(queue'[h]) <= QueueSize
    BY <1>1, <1>2, <2>1, VideoAssumption DEF Types, QueuesType
  <2> QED
    BY <2>2, <2>3 DEF QueuesType
<1>5. WorkersType'
  <2>1. worker' \in [Workers -> Worker]
    BY <1>2, <1>3
  <2>2. \A w \in Workers : worker'[w].stage = "idle" <=> worker'[w].job = NoJob
    BY <1>1, <1>2, <1>3 DEF Types, WorkersType
  <2>3. suspended' \subseteq Workers
    BY <1>1, <1>2 DEF Types, WorkersType
  <2> QED
    BY <2>1, <2>2, <2>3 DEF WorkersType
<1>6. Shared'
  <2>1. \A v \in Workers : worker'[v].stage # "idle" => Site(v) # i /\ worker'[v] = worker[v]
    BY <1>2, <1>3
  <2>2. \A h \in Instances : h # i => queue'[h] = queue[h] /\ queued'[h] = queued[h]
    BY <1>1, <1>2 DEF Types, QueuesType
  <2> QED
    BY <1>1, <1>3, <2>1, <2>2 DEF Shared
<1>7. RecoveryType' /\ LedgerType' /\ MakersType'
  BY <1>1, <1>2, <1>3 DEF Types, RecoveryType, LedgerType, MakersType
<1>8. FaultsType'
  BY <1>1, <1>2, VideoAssumption DEF Types, FaultsType, Fault
<1>9. Rows'
  <2>1. \A v \in Workers :
           \/ worker'[v] = worker[v] /\ (v \in suspended' <=> v \in suspended)
           \/ worker'[v].stage \notin {"running", "closing", "auditing"}
    BY <1>2, <1>3
  <2>2. ClaimsFit' /\ TokensDiffer' /\ AuditsFit'
    BY <1>1, <1>2, <2>1 DEF Rows, ClaimsFit, TokensDiffer, AuditsFit, Holding
  <2>3. RowsFit'
    BY <1>1, <1>2 DEF Rows, RowsFit
  <2>4. UsageFits' /\ RecordedAsStored'
    BY <1>1, <1>2, <1>3 DEF Rows, UsageFits, RecordedAsStored, Terminal
  <2> QED
    BY <2>2, <2>3, <2>4 DEF Rows
<1>10. Types'
  BY <1>2, <1>3, <1>4, <1>5, <1>7, <1>8 DEF Types
<1>11. TypeOK' /\ QueuesFinite'
  BY <1>10 DEF TypeOK, QueuesFinite, Types, QueuesType, WorkersType, LedgerType, RecoveryType,
               MakersType, FaultsType
<1> QED
  BY <1>6, <1>9, <1>11 DEF IInv

----------------------------------------------------------------------------
LEMMA InitInv == Init => IInv
<1> SUFFICES ASSUME Init PROVE IInv
  OBVIOUS
<1>1. Idle \in Worker /\ Idle.stage = "idle" /\ Idle.job = NoJob /\ NoRow \in Row
      /\ NoRow.status = "none" /\ NoRow.token = 0
  BY DEF Idle, Worker, Stages, Terminal, NoRow, Row
<1>2. IsFiniteSet({}) /\ Cardinality({}) = 0
  BY FS_EmptySet
<1>3. TypeOK /\ QueuesFinite
  <2>1. setup \in Setups /\ setup.faults \in Nat
    BY VideoAssumption DEF Init
  <2>2. \A i \in Instances : queue[i] = {} /\ queued[i] = {}
    BY DEF Init
  <2>3. /\ QueuesFinite
        /\ \A i \in Instances : queue[i] \subseteq queued[i] /\ Cardinality(queue[i]) <= QueueSize
    <3>1. 0 <= QueueSize
      BY VideoAssumption
    <3> QED
      BY <1>2, <2>2, <3>1 DEF QueuesFinite
  <2>4. worker \in [Workers -> Worker] /\ \A w \in Workers : worker[w].stage = "idle" <=> worker[w].job = NoJob
    BY <1>1 DEF Init
  <2>5. row \in [Jobs -> Row]
    BY <1>1 DEF Init
  <2>6. maker \in [Jobs -> {"idle", "reserved", "cancelling", "refused", "done"}]
    BY DEF Init
  <2>7. /\ usage \in [Instances -> [Jobs -> {"none", "recorded"} \cup Terminal]]
        /\ audited \in [Jobs -> {"none", "free", "charged"}]
    BY DEF Init
  <2>8. faults \in 0 .. setup.faults
    BY <2>1 DEF Init
  <2> QED
    BY <2>1, <2>3, <2>4, <2>5, <2>6, <2>7, <2>8 DEF Init, TypeOK
<1>4. \A w \in Workers : worker[w].stage = "idle"
  BY <1>1 DEF Init
<1>5. Shared /\ ClaimsFit /\ TokensDiffer /\ AuditsFit
  BY <1>4 DEF Shared, ClaimsFit, TokensDiffer, AuditsFit, Holding
<1>6. RowsFit /\ UsageFits /\ RecordedAsStored
  BY <1>1 DEF Init, RowsFit, UsageFits, RecordedAsStored, Terminal
<1> QED
  BY <1>3, <1>5, <1>6 DEF IInv, Rows

LEMMA NextInv == IInv /\ [Next /\ UNCHANGED setup]_<<setup, vars>> => IInv'
<1> SUFFICES ASSUME IInv, [Next /\ UNCHANGED setup]_<<setup, vars>> PROVE IInv'
  OBVIOUS
<1>1. CASE Next /\ UNCHANGED setup
  <2>1. ASSUME NEW j \in Jobs, JobStep(j) PROVE IInv'
    BY <1>1, <2>1, JobInv
  <2>2. ASSUME NEW w \in Workers, WorkerStep(w) PROVE IInv'
    BY <1>1, <2>2, WorkerInv
  <2>3. ASSUME NEW i \in Instances, InstanceStep(i) PROVE IInv'
    BY <1>1, <2>3, RecoveryInv, CrashInv
  <2> QED
    BY <1>1, <2>1, <2>2, <2>3 DEF Next
<1>2. CASE UNCHANGED <<setup, vars>>
  <2>1. UNCHANGED <<setup, maker, row, held, expired, reclaimed, audited, late, active, queue, queued,
                    worker, suspended, usage, faults>>
    BY <1>2 DEF vars, ledger, queues
  <2>2. Rows' /\ Shared'
    BY <2>1, RowsKept, SharedKept DEF IInv
  <2>3. TypeOK' /\ QueuesFinite'
    BY <2>1 DEF IInv, TypeOK, QueuesFinite
  <2> QED
    BY <2>2, <2>3 DEF IInv
<1> QED
  BY <1>1, <1>2

(* The invariant holds for every load of jobs, processes and faults.       *)
THEOREM Invariant == Spec => []IInv
<1>1. Init => IInv
  BY InitInv
<1>2. IInv /\ [Next /\ UNCHANGED setup]_<<setup, vars>> => IInv'
  BY NextInv
<1> QED
  BY <1>1, <1>2, PTL DEF Spec

(* No step leaves a row, a queue, a worker or the ledger in a state the    *)
(* code has no name for, and no queue grows past its size.                 *)
THEOREM TypeCorrect == Spec => []TypeOK
<1>1. IInv => TypeOK
  BY DEF IInv
<1> QED
  BY <1>1, Invariant, PTL

(* However many processes queue, recover and claim a job, one worker runs  *)
(* it at a time, but for those that slept through their lease.             *)
THEOREM RunnerAlone == Spec => []OneRunner
<1>1. IInv => OneRunner
  <2> SUFFICES ASSUME IInv, NEW j \in Jobs
               PROVE  Cardinality({w \in Workers \ suspended :
                         worker[w].job = j /\ worker[w].stage \in {"running", "closing"}}) <= 1
    BY DEF OneRunner
  <2> DEFINE S == {w \in Workers \ suspended :
                      worker[w].job = j /\ worker[w].stage \in {"running", "closing"}}
  <2>1. \A v, w \in S : v = w
    BY DEF IInv, Rows, ClaimsFit, TokensDiffer, Holding
  <2> SUFFICES Cardinality(S) <= 1
    OBVIOUS
  <2> HIDE DEF S
  <2>2. CASE S = {}
    BY <2>2, FS_EmptySet
  <2>3. CASE S # {}
    <3>1. PICK w \in S : S = {w}
      BY <2>1, <2>3
    <3>2. Cardinality({w}) = 1
      BY FS_Singleton
    <3> QED
      BY <3>1, <3>2
  <2> QED
    BY <2>2, <2>3
<1> QED
  BY <1>1, Invariant, PTL

(* What is recorded and charged is what the row says, whoever closed it    *)
(* and whoever recorded it.                                                *)
THEOREM RecordsMatch == Spec => []RecordedAsStored
<1>1. IInv => RecordedAsStored
  BY DEF IInv, Rows
<1> QED
  BY <1>1, Invariant, PTL

\* Only the owner of a closed row writes it again, with the same outcome.
LEMMA ClosedStep ==
    ASSUME IInv, Next, NEW j \in Jobs, row[j].status \in Terminal
    PROVE  row'[j].status \in {row[j].status, "deleted"}
<1>1. /\ TypeOK /\ ClaimsFit /\ RowsFit /\ row \in [Jobs -> Row] /\ worker \in [Workers -> Worker]
      /\ \A v \in Workers : worker[v].stage # "idle" => worker[v].job \in Jobs
  BY WorkerType DEF IInv, Rows, TypeOK
<1>2. "queued" \notin Terminal /\ "in_progress" \notin Terminal /\ "none" \notin Terminal
  BY DEF Terminal
<1>3. ASSUME NEW k \in Jobs, JobStep(k)
      PROVE  row'[j].status \in {row[j].status, "deleted"}
  <2>1. CASE Create(k) \/ CreateFails(k)
    <3>1. k # j
      BY <1>1, <1>2, <2>1 DEF Create, CreateFails, RowsFit
    <3> QED
      BY <1>1, <2>1, <3>1 DEF Create, CreateFails
  <2>2. CASE LeaseLapses(k) \/ Delete(k)
    BY <1>1, <2>2 DEF LeaseLapses, Delete, Row
  <2>3. CASE UNCHANGED row
    BY <2>3
  <2> QED
    BY <1>3, <2>1, <2>2, <2>3 DEF JobStep, Reserve, Withdraw, WithdrawFails, Expire, Reclaim
<1>4. ASSUME NEW w \in Workers, WorkerStep(w)
      PROVE  row'[j].status \in {row[j].status, "deleted"}
  <2>1. CASE Claim(w) \/ ClaimFails(w)
    <3>1. CASE UNCHANGED row
      BY <3>1
    <3>2. CASE Claimable(worker[w].job) /\ Seize(worker[w].job)
      <4>1. worker[w].job # j
        BY <1>2, <3>2 DEF Claimable
      <4> QED
        BY <1>1, <3>2, <4>1 DEF Seize
    <3> QED
      BY <2>1, <3>1, <3>2 DEF Claim, ClaimFails
  <2>2. CASE Progress(w) \/ Defer(w)
    <3>1. Owns(w) => row[worker[w].job].status = "in_progress"
      BY <1>1, <2>2 DEF Progress, Defer, Owns, ClaimsFit, Holding
    <3>2. UNCHANGED row \/ (Owns(w) /\ row' = [row EXCEPT ![worker[w].job].status = "in_progress",
                                                         ![worker[w].job].leased = TRUE])
      BY <2>2 DEF Progress, Defer
    <3> QED
      BY <1>1, <1>2, <3>1, <3>2
  <2>3. CASE Closed(w) \/ CloseLost(w)
    <3>1. row[worker[w].job].status \in {"in_progress", worker[w].outcome} /\ Close(w)
      BY <1>1, <2>3 DEF Closed, CloseLost, Owns, ClaimsFit, Holding
    <3> QED
      BY <1>1, <1>2, <3>1 DEF Close, Row
  <2>4. CASE Suspend(w) \/ Mark(w)
    BY <1>1, <2>4 DEF Suspend, Mark, MarkRow, Row
  <2>5. CASE UNCHANGED row
    BY <2>5
  <2> QED
    BY <1>4, <2>1, <2>2, <2>3, <2>4, <2>5
       DEF WorkerStep, Take, NotClaimed, Generated, NotClosed, CloseFails, Audit, AuditFails,
           MarkFails, Cancel, CancelFails
<1>5. ASSUME NEW i \in Instances, InstanceStep(i)
      PROVE  row'[j].status \in {row[j].status, "deleted"}
  <2>1. CASE \E k \in Jobs : MarkReconciled(i, k)
    BY <1>1, <2>1 DEF MarkReconciled, MarkRow, Row
  <2>2. CASE UNCHANGED row
    BY <2>2
  <2> QED
    BY <1>5, <2>1, <2>2
       DEF InstanceStep, ListUnrecorded, Crash, Recover, Reconcile, ReconcileFails, Cleanup
<1> QED
  BY <1>3, <1>4, <1>5 DEF Next

(* A closed job stays as it is until it is deleted, although its worker    *)
(* may write it again and others may still believe that they run it.       *)
THEOREM ClosedForGood == Spec => ClosedStays
<1>1. IInv /\ [Next /\ UNCHANGED setup]_<<setup, vars>> =>
         [\A j \in Jobs : row[j].status \in Terminal => row'[j].status \in {row[j].status, "deleted"}]_vars
  BY ClosedStep
<1> QED
  BY <1>1, Invariant, PTL DEF Spec, ClosedStays

----------------------------------------------------------------------------
(* Charges and reservations.                                               *)

Excused(j) == j \in reclaimed \/ row[j].status = "deleted" \/ maker[j] \in {"cancelling", "refused"}

\* A job that may still be charged has its reservation.
Backed ==
    \A j \in Jobs :
        row[j].status \in {"queued", "in_progress", "completed"} /\ audited[j] = "none"
            => j \in held \/ Excused(j)

\* A worker that has recorded its job, or gives the reservation back, wrote what
\* the row says; only a failed job gives its reservation back.
WorkersConclude ==
    \A w \in Workers :
        /\ worker[w].stage \in {"marking", "cancelling"} =>
              row[worker[w].job].status \in {worker[w].outcome, "deleted"}
        /\ worker[w].stage = "cancelling" => worker[w].outcome = "failed"
        /\ worker[w].stage = "marking" => audited[worker[w].job] # "none"

\* A row is marked after its use was recorded.
RecordsKept ==
    /\ \A i \in Instances, j \in Jobs : usage[i][j] = "recorded" => audited[j] # "none"
    /\ \A j \in Jobs : row[j].recorded => audited[j] # "none"

\* The reservation of a request under way is there and does not expire.
RequestsHold ==
    \A j \in Jobs :
        /\ maker[j] \in {"idle", "reserved"} => j \notin expired
        /\ maker[j] = "reserved" => j \in held

Funded == Backed /\ WorkersConclude /\ RecordsKept /\ RequestsHold /\ ChargeFindsReservation

----------------------------------------------------------------------------
(* What a step may do to the row of a job, and to its reservation.         *)

RowMoves(j) ==
    /\ row[j].status = "deleted" => row'[j].status = "deleted"
    /\ row[j].status = "none" /\ row'[j].status # "none" => maker[j] = "reserved" /\ UNCHANGED ledger
    /\ row'[j].recorded => row[j].recorded \/ audited[j] # "none"

MakerMoves(j) ==
    /\ maker[j] \in {"cancelling", "refused"} => maker'[j] \in {"cancelling", "refused"}
    /\ maker'[j] = "idle" => maker[j] = "idle"
    /\ maker'[j] = "reserved" => maker[j] = "reserved" \/ (maker[j] = "idle" /\ j \in held' /\ UNCHANGED expired)

LedgerMoves(j) ==
    /\ audited[j] # "none" => audited'[j] # "none"
    /\ j \in reclaimed => j \in reclaimed'
    /\ j \in expired' => j \in expired \/ maker'[j] \in {"done", "refused"}
    /\ j \in held \ held' =>
          \/ audited'[j] # "none" \/ maker'[j] = "refused" \/ row[j].status \in {"failed", "deleted"}
          \/ j \in expired /\ (j \in reclaimed' \/ ~ Pending(j))
    /\ j \in late' \ late =>
          /\ row[j].status \in {"completed", "deleted"} /\ audited[j] = "none" /\ j \notin held
          /\ UNCHANGED <<row, maker, reclaimed>>

\* The first record of a job charges it only when its row is completed.
LEMMA SettleMoves ==
    ASSUME TypeOK, NEW k \in Jobs, NEW s \in Terminal, NEW i \in Instances, Settle(k, s, i),
           row[k].status \in {s, "deleted"}, UNCHANGED <<row, maker>>, NEW j \in Jobs
    PROVE  LedgerMoves(j) /\ audited'[k] # "none"
<1>1. /\ audited \in [Jobs -> {"none", "free", "charged"}] /\ UNCHANGED reclaimed
      /\ expired \subseteq held
  BY DEF TypeOK, Settle
<1>2. CASE audited[k] # "none"
  BY <1>1, <1>2 DEF Settle, LedgerMoves
<1>3. CASE audited[k] = "none"
  <2>1. /\ audited' = [audited EXCEPT ![k] = IF s = "completed" THEN "charged" ELSE "free"]
        /\ held' = held \ {k} /\ expired' = expired \ {k}
        /\ late' = IF s = "completed" /\ k \notin held THEN late \cup {k} ELSE late
    BY <1>3 DEF Settle
  <2>2. audited'[k] # "none" /\ \A l \in Jobs : audited[l] # "none" => audited'[l] # "none"
    BY <1>1, <1>3, <2>1
  <2>3. j \in late' \ late => j = k /\ s = "completed" /\ k \notin held
    BY <2>1
  <2>4. j \in held \ held' => j = k
    BY <2>1
  <2> QED
    BY <1>1, <1>3, <2>1, <2>2, <2>3, <2>4 DEF LedgerMoves
<1> QED
  BY <1>2, <1>3

LEMMA LedgerStays ==
    ASSUME UNCHANGED <<held, expired, reclaimed, audited, late>>, NEW j \in Jobs
    PROVE  LedgerMoves(j)
  BY DEF LedgerMoves

LEMMA JobMoves ==
    ASSUME IInv, NEW k \in Jobs, JobStep(k), NEW j \in Jobs
    PROVE  RowMoves(j) /\ MakerMoves(j) /\ LedgerMoves(j)
<1>1. /\ TypeOK /\ RowsFit /\ row \in [Jobs -> Row]
      /\ maker \in [Jobs -> {"idle", "reserved", "cancelling", "refused", "done"}]
      /\ held \subseteq Jobs /\ expired \subseteq held
  BY DEF IInv, Rows, TypeOK
<1>2. RowMoves(j)
  <2>1. CASE Create(k) \/ CreateFails(k)
    <3>1. /\ maker[k] = "reserved" /\ row[k].status = "none" /\ UNCHANGED ledger
          /\ UNCHANGED row \/ row' = [row EXCEPT ![k].status = "queued"]
      BY <1>1, <2>1 DEF Create, CreateFails, RowsFit
    <3>2. /\ j # k => row'[j] = row[j]
          /\ row'[k].recorded = row[k].recorded
      BY <1>1, <3>1 DEF Row
    <3> QED
      BY <3>1, <3>2 DEF RowMoves
  <2>2. CASE LeaseLapses(k) \/ Delete(k)
    BY <1>1, <2>2 DEF LeaseLapses, Delete, RowMoves, Row, Terminal
  <2>3. CASE UNCHANGED row
    BY <2>3 DEF RowMoves
  <2> QED
    BY <2>1, <2>2, <2>3 DEF JobStep, Reserve, Withdraw, WithdrawFails, Expire, Reclaim
<1>3. MakerMoves(j)
  <2>1. CASE Reserve(k)
    BY <1>1, <2>1 DEF Reserve, MakerMoves
  <2>2. CASE Create(k) \/ CreateFails(k)
    BY <1>1, <2>2 DEF Create, CreateFails, MakerMoves
  <2>3. CASE Withdraw(k) \/ WithdrawFails(k)
    BY <1>1, <2>3 DEF Withdraw, WithdrawFails, MakerMoves
  <2>4. CASE UNCHANGED maker
    BY <2>4 DEF MakerMoves
  <2> QED
    BY <2>1, <2>2, <2>3, <2>4 DEF JobStep, LeaseLapses, Expire, Reclaim, Delete
<1>4. LedgerMoves(j)
  <2>1. CASE Reserve(k)
    BY <2>1 DEF Reserve, LedgerMoves
  <2>2. CASE Withdraw(k)
    BY <1>1, <2>2 DEF Withdraw, Unbook, LedgerMoves
  <2>3. CASE Expire(k) \/ Reclaim(k)
    BY <1>1, <2>3 DEF Expire, Reclaim, LedgerMoves
  <2>4. CASE UNCHANGED ledger
    BY <2>4, LedgerStays DEF ledger
  <2> QED
    BY <2>1, <2>2, <2>3, <2>4 DEF JobStep, Create, CreateFails, WithdrawFails, LeaseLapses, Delete
<1> QED
  BY <1>2, <1>3, <1>4

LEMMA WorkerMoves ==
    ASSUME IInv, WorkersConclude, NEW w \in Workers, WorkerStep(w), NEW j \in Jobs
    PROVE  RowMoves(j) /\ MakerMoves(j) /\ LedgerMoves(j)
<1> DEFINE k == worker[w].job
<1>1. /\ TypeOK /\ ClaimsFit /\ AuditsFit /\ row \in [Jobs -> Row]
      /\ worker[w].stage # "idle" => k \in Jobs
      /\ Site(w) \in Instances /\ worker[w].outcome \in Terminal
      /\ worker[w].token \in Nat
  BY WorkerType DEF IInv, Rows, TypeOK, Site, Worker
<1>2. RowMoves(j)
  <2>1. CASE Claim(w) \/ ClaimFails(w)
    <3>1. CASE UNCHANGED row
      BY <3>1 DEF RowMoves
    <3>2. CASE Claimable(k) /\ Seize(k)
      BY <1>1, <3>2 DEF Claimable, Seize, RowMoves, Row
    <3> QED
      BY <2>1, <3>1, <3>2 DEF Claim, ClaimFails
  <2>2. CASE Progress(w) \/ Defer(w) \/ Suspend(w)
    <3>1. Owns(w) /\ Holding(w) => row[k].status \in {"in_progress", "completed", "failed"}
      BY <1>1 DEF Owns, ClaimsFit, Holding, Terminal
    <3>2. \/ UNCHANGED row
          \/ /\ Owns(w) /\ Holding(w)
             /\ row' = [row EXCEPT ![k].status = "in_progress", ![k].leased = TRUE]
          \/ row[k].status = "in_progress" /\ row' = [row EXCEPT ![k].leased = FALSE]
      BY <2>2 DEF Progress, Defer, Suspend, Holding
    <3>3. row'[j].recorded = row[j].recorded
      BY <1>1, <3>2 DEF Row
    <3>4. /\ row[j].status = "deleted" => row'[j].status = "deleted"
          /\ row[j].status = "none" => row'[j].status = "none"
      BY <1>1, <3>1, <3>2 DEF Row
    <3> QED
      BY <3>3, <3>4 DEF RowMoves
  <2>3. CASE Closed(w) \/ CloseLost(w)
    <3>1. row[k].status \in {"in_progress", worker[w].outcome} /\ Close(w)
      BY <1>1, <2>3 DEF Closed, CloseLost, Owns, ClaimsFit, Holding
    <3> QED
      BY <1>1, <3>1 DEF Close, Row, RowMoves, Terminal
  <2>4. CASE Mark(w)
    <3>1. k \in Jobs /\ audited[k] # "none" /\ MarkRow(k)
      BY <1>1, <2>4 DEF Mark, WorkersConclude
    <3> QED
      BY <1>1, <3>1 DEF MarkRow, RowMoves, Row
  <2>5. CASE UNCHANGED row
    BY <2>5 DEF RowMoves
  <2> QED
    BY <2>1, <2>2, <2>3, <2>4, <2>5
       DEF WorkerStep, Take, NotClaimed, Generated, NotClosed, CloseFails, Audit, AuditFails,
           MarkFails, Cancel, CancelFails
<1>3. MakerMoves(j)
  <2>1. UNCHANGED maker
    BY DEF WorkerStep, Take, Claim, NotClaimed, ClaimFails, Progress, Generated, Defer, Suspend,
           Closed, NotClosed, CloseLost, CloseFails, Audit, AuditFails, Mark, MarkFails, Cancel, CancelFails
  <2> QED
    BY <2>1 DEF MakerMoves
<1>4. LedgerMoves(j)
  <2>1. CASE Audit(w)
    <3>1. /\ k \in Jobs /\ row[k].status \in {worker[w].outcome, "deleted"}
          /\ Settle(k, worker[w].outcome, Site(w)) /\ UNCHANGED <<row, maker>>
      BY <1>1, <2>1 DEF Audit, AuditsFit
    <3> QED
      BY <1>1, <3>1, SettleMoves
  <2>2. CASE Cancel(w)
    <3>1. row[k].status \in {"failed", "deleted"} /\ Unbook(k, Site(w))
      BY <2>2 DEF Cancel, WorkersConclude
    <3> QED
      BY <3>1 DEF Unbook, LedgerMoves
  <2>3. CASE UNCHANGED ledger
    BY <2>3, LedgerStays DEF ledger
  <2> QED
    BY <2>1, <2>2, <2>3
       DEF WorkerStep, Take, Claim, NotClaimed, ClaimFails, Progress, Generated, Defer, Suspend,
           Closed, NotClosed, CloseLost, CloseFails, AuditFails, Mark, MarkFails, CancelFails
<1> QED
  BY <1>2, <1>3, <1>4

LEMMA InstanceMoves ==
    ASSUME IInv, RecordsKept, NEW i \in Instances, InstanceStep(i), NEW j \in Jobs
    PROVE  RowMoves(j) /\ MakerMoves(j) /\ LedgerMoves(j)
<1>1. /\ TypeOK /\ UsageFits /\ row \in [Jobs -> Row]
      /\ maker \in [Jobs -> {"idle", "reserved", "cancelling", "refused", "done"}]
  BY DEF IInv, Rows, TypeOK
<1>2. RowMoves(j)
  <2>1. CASE \E k \in Jobs : MarkReconciled(i, k)
    <3>1. PICK k \in Jobs : MarkReconciled(i, k)
      BY <2>1
    <3>2. audited[k] # "none" /\ MarkRow(k)
      BY <3>1 DEF MarkReconciled, RecordsKept
    <3> QED
      BY <1>1, <3>2 DEF MarkRow, RowMoves, Row
  <2>2. CASE UNCHANGED row
    BY <2>2 DEF RowMoves
  <2> QED
    BY <2>1, <2>2
       DEF InstanceStep, ListUnrecorded, Crash, Recover, Reconcile, ReconcileFails, Cleanup
<1>3. MakerMoves(j)
  <2>1. CASE Crash(i)
    BY <1>1, <2>1 DEF Crash, MakerMoves
  <2>2. CASE UNCHANGED maker
    BY <2>2 DEF MakerMoves
  <2> QED
    BY <2>1, <2>2
       DEF InstanceStep, ListUnrecorded, Recover, Reconcile, ReconcileFails, MarkReconciled, Cleanup
<1>4. LedgerMoves(j)
  <2>1. ASSUME NEW k \in Jobs, Reconcile(i, k) PROVE LedgerMoves(j)
    <3>1. /\ usage[i][k] \in Terminal /\ Settle(k, usage[i][k], i)
          /\ row[k].status \in {usage[i][k], "deleted"} /\ UNCHANGED <<row, maker>>
      BY <1>1, <2>1 DEF Reconcile, UsageFits
    <3> QED
      BY <1>1, <3>1, SettleMoves
  <2>2. ASSUME NEW k \in Jobs, Cleanup(i, k) PROVE LedgerMoves(j)
    BY <2>2 DEF Cleanup, LedgerMoves
  <2>3. CASE UNCHANGED <<held, expired, reclaimed, audited, late>>
    BY <2>3, LedgerStays
  <2> QED
    BY <2>1, <2>2, <2>3
       DEF InstanceStep, ListUnrecorded, Crash, Recover, ReconcileFails, MarkReconciled, ledger
<1> QED
  BY <1>2, <1>3, <1>4

LEMMA StepMoves ==
    ASSUME IInv, Funded, Next, NEW j \in Jobs
    PROVE  RowMoves(j) /\ MakerMoves(j) /\ LedgerMoves(j)
  BY JobMoves, WorkerMoves, InstanceMoves DEF Next, Funded

\* How a worker comes to the end of its job.
LEMMA Concluding ==
    ASSUME IInv, Next, NEW v \in Workers, worker'[v].stage \in {"marking", "cancelling"}
    PROVE  \/ worker'[v] = worker[v]
           \/ /\ worker[v].stage \in {"auditing", "marking"} /\ worker[v].job \in Jobs
              /\ worker'[v].job = worker[v].job /\ worker'[v].outcome = worker[v].outcome
              /\ worker'[v].stage = "cancelling" => worker[v].outcome = "failed"
              /\ worker'[v].stage = "marking" => audited'[worker[v].job] # "none"
<1>1. /\ worker \in [Workers -> Worker] /\ TypeOK /\ AuditsFit
      /\ Idle.stage = "idle"
  BY DEF IInv, TypeOK, Idle, Rows
<1>2. ASSUME NEW w \in Workers, v # w, WorkerStep(w)
      PROVE  worker'[v] = worker[v]
  BY <1>1, <1>2
     DEF WorkerStep, Take, Claim, NotClaimed, ClaimFails, Progress, Generated, Defer, Suspend,
         Closed, NotClosed, CloseLost, CloseFails, Audit, AuditFails, Mark, MarkFails, Cancel, CancelFails,
         Retire, Conclude, Goto
<1>3. CASE WorkerStep(v)
  <2>1. CASE Take(v) \/ Claim(v) \/ Generated(v) \/ Closed(v)
    BY <1>1, <2>1 DEF Take, Claim, Generated, Closed, Goto, Worker, Idle
  <2>2. CASE Retire(v)
    BY <1>1, <2>2 DEF Retire
  <2>3. CASE Progress(v) \/ Suspend(v) \/ CloseLost(v)
    BY <2>3 DEF Progress, Suspend, CloseLost
  <2>4. CASE Audit(v)
    <3>1. /\ worker' = [worker EXCEPT ![v] = [worker[v] EXCEPT !.stage = "marking"]]
          /\ worker[v].job \in Jobs /\ worker[v].outcome \in Terminal
          /\ Settle(worker[v].job, worker[v].outcome, Site(v))
          /\ worker[v].stage = "auditing"
      BY <1>1, <2>4, WorkerType DEF Audit, Goto, Worker
    <3>2. audited'[worker[v].job] # "none"
      BY <1>1, <3>1 DEF Settle, TypeOK
    <3> QED
      BY <1>1, <3>1, <3>2 DEF Worker
  <2>5. CASE Conclude(v) /\ worker[v].stage \in {"auditing", "marking"} /\ ~ Retire(v)
    <3>1. /\ worker' = [worker EXCEPT ![v] = [worker[v] EXCEPT !.stage = "cancelling"]]
          /\ worker[v].outcome = "failed" /\ worker[v].job \in Jobs
      BY <1>1, <2>5, WorkerType DEF Conclude, Goto
    <3> QED
      BY <1>1, <2>5, <3>1 DEF Worker
  <2> QED
    BY <1>3, <2>1, <2>2, <2>3, <2>4, <2>5
       DEF WorkerStep, NotClaimed, ClaimFails, Defer, NotClosed, CloseFails, AuditFails, Mark,
           MarkFails, Cancel, CancelFails
<1>4. CASE \E j \in Jobs : JobStep(j)
  BY <1>4 DEF JobStep, Reserve, Create, CreateFails, Withdraw, WithdrawFails, LeaseLapses, Expire,
              Reclaim, Delete
<1>5. CASE \E i \in Instances : InstanceStep(i)
  <2>1. CASE \E i \in Instances : Crash(i)
    BY <1>1, <2>1 DEF Crash
  <2>2. CASE UNCHANGED worker
    BY <2>2
  <2> QED
    BY <1>5, <2>1, <2>2
       DEF InstanceStep, ListUnrecorded, Recover, Reconcile, ReconcileFails, MarkReconciled, Cleanup
<1> QED
  BY <1>2, <1>3, <1>4, <1>5 DEF Next

LEMMA WorkersConcludeStep ==
    ASSUME IInv, Funded, Next
    PROVE  WorkersConclude'
<1> SUFFICES ASSUME NEW v \in Workers, worker'[v].stage \in {"marking", "cancelling"}
             PROVE  /\ row'[worker'[v].job].status \in {worker'[v].outcome, "deleted"}
                    /\ worker'[v].stage = "cancelling" => worker'[v].outcome = "failed"
                    /\ worker'[v].stage = "marking" => audited'[worker'[v].job] # "none"
  BY DEF WorkersConclude
<1> DEFINE j == worker[v].job
<1>1. AuditsFit /\ WorkersConclude /\ worker[v].outcome \in Terminal /\ TypeOK
  BY DEF IInv, Rows, Funded, TypeOK, Worker
<1>2. worker[v].stage # "idle" => j \in Jobs
  BY <1>1, WorkerType
<1>3. /\ worker[v].stage \in {"auditing", "marking", "cancelling"} /\ j \in Jobs
      /\ worker'[v].job = j /\ worker'[v].outcome = worker[v].outcome
  BY <1>2, Concluding
<1>4. row[j].status \in {worker[v].outcome, "deleted"}
  BY <1>1, <1>3 DEF AuditsFit, WorkersConclude
<1>5. row'[j].status \in {worker[v].outcome, "deleted"}
  BY <1>1, <1>3, <1>4, ClosedStep, StepMoves DEF RowMoves
<1>6. worker'[v].stage = "cancelling" => worker'[v].outcome = "failed"
  BY <1>1, Concluding DEF WorkersConclude
<1>7. worker'[v].stage = "marking" => audited'[j] # "none"
  <2>1. audited[j] # "none" => audited'[j] # "none"
    BY <1>3, StepMoves DEF LedgerMoves
  <2> QED
    BY <1>1, <2>1, Concluding DEF WorkersConclude
<1> QED
  BY <1>3, <1>5, <1>6, <1>7

LEMMA RecordsKeptStep ==
    ASSUME IInv, Funded, Next
    PROVE  RecordsKept'
<1>1. /\ TypeOK /\ UsageFits /\ RecordsKept
      /\ usage \in [Instances -> [Jobs -> {"none", "recorded"} \cup Terminal]]
  BY DEF IInv, Rows, Funded, TypeOK
<1>2. \A j \in Jobs : audited[j] # "none" => audited'[j] # "none"
  BY StepMoves DEF LedgerMoves
<1>3. \A j \in Jobs : row'[j].recorded => audited'[j] # "none"
  BY <1>1, <1>2, StepMoves DEF RowMoves, RecordsKept
<1>4. ASSUME NEW h \in Instances, NEW j \in Jobs, usage'[h][j] = "recorded"
      PROVE  audited'[j] # "none"
  <2>1. CASE usage[h][j] = "recorded"
    BY <1>1, <1>2, <2>1 DEF RecordsKept
  <2>2. CASE usage[h][j] # "recorded"
    <3>1. PICK i \in Instances : InstanceStep(i)
      <4>1. ASSUME NEW k \in Jobs, JobStep(k) PROVE UNCHANGED usage
        BY <4>1 DEF JobStep, Reserve, Create, CreateFails, Withdraw, WithdrawFails, LeaseLapses,
                    Expire, Reclaim, Delete
      <4>2. ASSUME NEW w \in Workers, WorkerStep(w) PROVE UNCHANGED usage
        BY <4>2 DEF WorkerStep, Take, Claim, NotClaimed, ClaimFails, Progress, Generated, Defer,
                    Suspend, Closed, NotClosed, CloseLost, CloseFails, Audit, AuditFails, Mark,
                    MarkFails, Cancel, CancelFails
      <4> QED
        BY <1>4, <2>2, <4>1, <4>2 DEF Next
    <3>2. CASE ListUnrecorded(i)
      <4>1. \A k \in Jobs : (IF Unrecorded(k) THEN row[k].status ELSE "none") # "recorded"
        BY DEF Unrecorded, Terminal
      <4>2. usage' = [usage EXCEPT ![i] = [k \in Jobs |-> IF Unrecorded(k) THEN row[k].status ELSE "none"]]
        BY <3>2 DEF ListUnrecorded
      <4> QED
        BY <1>1, <1>4, <2>2, <4>1, <4>2
    <3>3. CASE Crash(i)
      BY <1>1, <1>4, <2>2, <3>3 DEF Crash
    <3>4. ASSUME NEW k \in Jobs, Reconcile(i, k) PROVE audited'[j] # "none"
      <4>1. k = j
        BY <1>1, <1>4, <2>2, <3>4 DEF Reconcile
      <4>2. Settle(j, usage[i][j], i)
        BY <3>4, <4>1 DEF Reconcile
      <4> QED
        BY <1>1, <4>2 DEF Settle, TypeOK
    <3>5. ASSUME NEW k \in Jobs, ReconcileFails(i, k) \/ MarkReconciled(i, k) PROVE FALSE
      BY <1>1, <1>4, <2>2, <3>5 DEF ReconcileFails, MarkReconciled
    <3>6. ASSUME NEW k \in Jobs, Recover(i, k) \/ Cleanup(i, k) PROVE FALSE
      BY <1>4, <2>2, <3>6 DEF Recover, Cleanup
    <3> QED
      BY <3>1, <3>2, <3>3, <3>4, <3>5, <3>6 DEF InstanceStep
  <2> QED
    BY <2>1, <2>2
<1> QED
  BY <1>3, <1>4 DEF RecordsKept

LEMMA RequestsHoldStep ==
    ASSUME IInv, IInv', Funded, Next
    PROVE  RequestsHold'
<1> SUFFICES ASSUME NEW j \in Jobs
             PROVE  /\ maker'[j] \in {"idle", "reserved"} => j \notin expired'
                    /\ maker'[j] = "reserved" => j \in held'
  BY DEF RequestsHold
<1>1. RowMoves(j) /\ MakerMoves(j) /\ LedgerMoves(j)
  BY StepMoves
<1>2. RequestsHold /\ RowsFit /\ RowsFit' /\ RecordedAsStored'
  BY DEF Funded, IInv, Rows
<1>3. maker'[j] \in {"idle", "reserved"} => j \notin expired
  BY <1>1, <1>2 DEF MakerMoves, RequestsHold
<1>4. maker'[j] \in {"idle", "reserved"} => j \notin expired'
  BY <1>1, <1>3 DEF LedgerMoves
<1>5. ASSUME maker'[j] = "reserved" PROVE j \in held'
  <2>1. CASE maker[j] = "reserved"
    <3>1. j \in held /\ row[j].status = "none" /\ row'[j].status = "none"
      BY <1>2, <1>5, <2>1 DEF RequestsHold, RowsFit
    <3>2. audited'[j] = "none"
      BY <1>2, <3>1 DEF RecordedAsStored, Terminal
    <3> QED
      BY <1>1, <1>3, <1>5, <3>1, <3>2 DEF LedgerMoves
  <2>2. CASE maker[j] # "reserved"
    BY <1>1, <1>5, <2>2 DEF MakerMoves
  <2> QED
    BY <2>1, <2>2
<1> QED
  BY <1>4, <1>5

LEMMA ExcusedStep ==
    ASSUME IInv, Funded, Next, NEW j \in Jobs, Excused(j)
    PROVE  Excused(j)'
<1>1. RowMoves(j) /\ MakerMoves(j) /\ LedgerMoves(j)
  BY StepMoves
<1> QED
  BY <1>1 DEF Excused, RowMoves, MakerMoves, LedgerMoves

LEMMA BackedStep ==
    ASSUME IInv, Funded, Next
    PROVE  Backed'
<1> SUFFICES ASSUME NEW j \in Jobs, audited'[j] = "none",
                    row'[j].status \in {"queued", "in_progress", "completed"}
             PROVE  j \in held' \/ Excused(j)'
  BY DEF Backed
<1>1. RowMoves(j) /\ MakerMoves(j) /\ LedgerMoves(j)
  BY StepMoves
<1>2. /\ Backed /\ RequestsHold /\ RecordsKept /\ row[j] \in Row
  BY DEF Funded, IInv, TypeOK
<1>3. audited[j] = "none"
  BY <1>1 DEF LedgerMoves
<1>4. CASE row[j].status = "none"
  BY <1>1, <1>2, <1>4 DEF RowMoves, RequestsHold, ledger
<1>5. CASE row[j].status # "none"
  <2>1. row[j].status \in {"queued", "in_progress", "completed"}
    <3>1. row[j].status \in {"queued", "in_progress", "completed", "failed", "deleted"}
      BY <1>2, <1>5 DEF Row, Terminal
    <3>2. row[j].status # "deleted"
      BY <1>1 DEF RowMoves
    <3>3. row[j].status # "failed"
      BY ClosedStep DEF Terminal
    <3> QED
      BY <3>1, <3>2, <3>3
  <2>2. CASE Excused(j)
    BY <2>2, ExcusedStep
  <2>3. CASE j \in held
    <3>1. ~ row[j].recorded
      BY <1>2, <1>3 DEF RecordsKept
    <3>2. Pending(j)
      BY <2>1, <3>1 DEF Pending
    <3> QED
      BY <1>1, <2>1, <2>3, <3>2 DEF LedgerMoves, Excused
  <2> QED
    BY <1>2, <1>3, <2>1, <2>2, <2>3 DEF Backed
<1> QED
  BY <1>4, <1>5

LEMMA LateStep ==
    ASSUME IInv, IInv', Funded, Next
    PROVE  ChargeFindsReservation'
<1> SUFFICES ASSUME NEW j \in late'
             PROVE  Excused(j)'
  BY DEF ChargeFindsReservation, Excused
<1>1. CASE j \in late
  <2>1. j \in Jobs /\ Excused(j)
    BY <1>1 DEF IInv, TypeOK, Funded, ChargeFindsReservation, Excused
  <2> QED
    BY <2>1, ExcusedStep
<1>2. CASE j \notin late
  <2>1. j \in Jobs
    BY DEF IInv, TypeOK
  <2>2. /\ row[j].status \in {"completed", "deleted"} /\ audited[j] = "none" /\ j \notin held
    BY <1>2, <2>1, StepMoves DEF LedgerMoves
  <2>3. Excused(j)
    BY <2>1, <2>2 DEF Funded, Backed, Excused
  <2> QED
    BY <2>1, <2>3, ExcusedStep
<1> QED
  BY <1>1, <1>2

LEMMA InitFunded == Init => Funded
<1> SUFFICES ASSUME Init PROVE Funded
  OBVIOUS
<1>1. /\ \A w \in Workers : worker[w].stage = "idle"
      /\ \A j \in Jobs : row[j].status = "none" /\ ~ row[j].recorded
      /\ \A j \in Jobs : maker[j] # "reserved"
      /\ \A i \in Instances, j \in Jobs : usage[i][j] = "none"
  BY DEF Init, Idle, NoRow
<1> QED
  BY <1>1 DEF Init, Funded, Backed, WorkersConclude, RecordsKept, RequestsHold, ChargeFindsReservation

LEMMA NextFunded == IInv /\ IInv' /\ Funded /\ [Next /\ UNCHANGED setup]_<<setup, vars>> => Funded'
<1> SUFFICES ASSUME IInv, IInv', Funded, [Next /\ UNCHANGED setup]_<<setup, vars>> PROVE Funded'
  OBVIOUS
<1>1. CASE Next
  BY <1>1, BackedStep, WorkersConcludeStep, RecordsKeptStep, RequestsHoldStep, LateStep DEF Funded
<1>2. CASE UNCHANGED <<setup, vars>>
  BY <1>2 DEF vars, ledger, Funded, Backed, Excused, WorkersConclude, RecordsKept, RequestsHold,
              ChargeFindsReservation
<1> QED
  BY <1>1, <1>2

(* Until a job is recorded its reservation is there, whatever the cleanup, *)
(* the recovery and the workers of other processes do at the same time:    *)
(* a charge finds it, but for the three cases the property names.          *)
THEOREM ChargesFunded == Spec => []ChargeFindsReservation
<1>1. Init => Funded
  BY InitFunded
<1>2. IInv /\ IInv' /\ Funded /\ [Next /\ UNCHANGED setup]_<<setup, vars>> => Funded'
  BY NextFunded
<1>3. Funded => ChargeFindsReservation
  BY DEF Funded
<1> QED
  BY <1>1, <1>2, <1>3, Invariant, PTL DEF Spec

=============================================================================
