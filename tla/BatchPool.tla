------------------------------- MODULE BatchPool -------------------------------
(***************************************************************************)
(* The bounded worker pools of pkg/batch/executor.go. A batch (Map, Run,   *)
(* ForEachObserved) sends its items to its workers through a bounded       *)
(* channel; a worker runs each item through Pool.Do, which takes a slot of *)
(* its category pool, a lease shared with the other processes, and then    *)
(* the same of the parent pool, before it runs the work.                   *)
(*                                                                         *)
(* The mutex of a pool makes each look at its slots one step. Waiting is   *)
(* on a channel that every release and every change of the limit closes    *)
(* and replaces: whoever looked before that is woken.                      *)
(***************************************************************************)
EXTENDS Integers, Sequences, FiniteSets

CONSTANTS
    Pools,       \* the pools of all processes
    Keys,        \* the lease keys, each shared by the pools of several processes
    KeyOf,       \* the lease key of a pool, or None
    Batches,     \* the batches, each a call of mapObserved
    Path,        \* the pools a task of the batch passes, the category pool first
    Workers,     \* the worker goroutines of all batches
    BatchOf,     \* the batch of a worker
    None,        \* no lease key
    Items,       \* the number of items of each batch
    QueueSize,   \* the capacity of a batch's job channel
    Limits,      \* the limits a pool may be given
    StartLimit,  \* the limit each pool starts with
    Cancellable, \* the batches whose context may be cancelled
    MaxEvents    \* bound: changes of a limit and failed lease calls

ASSUME PoolAssumption ==
    /\ None \notin Keys
    /\ KeyOf \in [Pools -> Keys \cup {None}]
    /\ Path \in [Batches -> Seq(Pools)]
    /\ \A b \in Batches : Len(Path[b]) > 0
    /\ \A b \in Batches : \A m, n \in 1 .. Len(Path[b]) :
          m # n => /\ Path[b][m] # Path[b][n]
                   /\ KeyOf[Path[b][m]] \in Keys => KeyOf[Path[b][m]] # KeyOf[Path[b][n]]
    /\ Cancellable \subseteq Batches
    /\ BatchOf \in [Workers -> Batches]
    /\ \A b \in Batches : Items[b] > 0 => \E w \in Workers : BatchOf[w] = b
    /\ IsFiniteSet(Workers)
    /\ Items \in [Batches -> Nat] /\ QueueSize \in Nat \ {0}
    /\ Limits \subseteq Nat \ {0} /\ StartLimit \in [Pools -> Limits]
    /\ MaxEvents \in Nat

VARIABLES
    limit,     \* per pool, its limit
    slots,     \* per pool, the slots in use
    queued,    \* per pool, the tasks it reports as waiting
    leases,    \* per key, the leases the limiter counts
    worker,    \* per worker, what it does
    batch,     \* per batch, its channel, its counters and whether it is cancelled
    events     \* changes of limits and failed lease calls so far

vars == <<limit, slots, queued, leases, worker, batch, events>>

Stages == {"take", "enter", "slot", "asleep", "woken", "limit", "lease", "poll", "run",
           "unlease", "unslot", "tally", "gone"}

\* level: the position in the path; asked: the limit read for the lease call.
Worker == [at : Stages, level : Nat, asked : {0} \cup Limits, started : BOOLEAN]

Batch == [jobs : 0 .. QueueSize, sent : Nat, closed : BOOLEAN, cancelled : BOOLEAN,
          done : Nat]

TypeOK ==
    /\ limit \in [Pools -> Limits]
    /\ slots \in [Pools -> Int]
    /\ queued \in [Pools -> Int]
    /\ leases \in [Keys -> Int]
    /\ worker \in [Workers -> Worker]
    /\ \A w \in Workers : worker[w].level \in 1 .. Len(Path[BatchOf[w]])
    /\ batch \in [Batches -> Batch]
    /\ events \in 0 .. MaxEvents

Ready == [at |-> "take", level |-> 1, asked |-> 0, started |-> FALSE]

NewBatch == [jobs |-> 0, sent |-> 0, closed |-> FALSE, cancelled |-> FALSE,
             done |-> 0]

Init ==
    /\ limit = StartLimit
    /\ slots = [p \in Pools |-> 0]
    /\ queued = [p \in Pools |-> 0]
    /\ leases = [k \in Keys |-> 0]
    /\ worker = [w \in Workers |-> Ready]
    /\ batch = [b \in Batches |-> NewBatch]
    /\ events = 0

Pool(w) == Path[BatchOf[w]][worker[w].level]

Key(w) == KeyOf[Pool(w)]

Cancelled(w) == batch[BatchOf[w]].cancelled

Goto(w, stage) == worker' = [worker EXCEPT ![w].at = stage]

----------------------------------------------------------------------------
(* The sender of a batch and its workers: mapObserved.                     *)

\* The select may still choose to send when the context is done.
Send(b) ==
    /\ ~ batch[b].closed
    /\ batch[b].sent < Items[b]
    /\ batch[b].jobs < QueueSize
    /\ batch' = [batch EXCEPT ![b].jobs = @ + 1, ![b].sent = @ + 1]
    /\ UNCHANGED <<limit, slots, queued, leases, worker, events>>

\* Everything was sent, or the context is done: close(jobs).
Close(b) ==
    /\ ~ batch[b].closed
    /\ batch[b].sent = Items[b] \/ batch[b].cancelled
    /\ batch' = [batch EXCEPT ![b].closed = TRUE]
    /\ UNCHANGED <<limit, slots, queued, leases, worker, events>>

Cancel(b) ==
    /\ b \in Cancellable
    /\ ~ batch[b].cancelled
    /\ batch' = [batch EXCEPT ![b].cancelled = TRUE]
    /\ UNCHANGED <<limit, slots, queued, leases, worker, events>>

Take(w) ==
    /\ worker[w].at = "take"
    /\ batch[BatchOf[w]].jobs > 0
    /\ batch' = [batch EXCEPT ![BatchOf[w]].jobs = @ - 1]
    /\ worker' = [worker EXCEPT ![w] = [Ready EXCEPT !.at = "enter"]]
    /\ UNCHANGED <<limit, slots, queued, leases, events>>

\* Wrong: a worker goes as soon as the channel is closed.
LeaveClosed(w) ==
    /\ worker[w].at = "take"
    /\ Cancelled(w) \/ batch[BatchOf[w]].closed
    /\ Goto(w, "gone")
    /\ UNCHANGED <<limit, slots, queued, leases, batch, events>>

\* A worker ends with its context, or when the closed channel is empty.
Leave(w) ==
    /\ worker[w].at = "take"
    /\ Cancelled(w) \/ (batch[BatchOf[w]].closed /\ batch[BatchOf[w]].jobs = 0)
    /\ Goto(w, "gone")
    /\ UNCHANGED <<limit, slots, queued, leases, batch, events>>

\* The result of an item is recorded, an error or a panic like any other.
Tally(w) ==
    /\ worker[w].at = "tally"
    /\ batch' = [batch EXCEPT ![BatchOf[w]].done = @ + 1]
    /\ worker' = [worker EXCEPT ![w] = Ready]
    /\ UNCHANGED <<limit, slots, queued, leases, events>>

----------------------------------------------------------------------------
(* Pool.Do, for the pool at the worker's level of its path.                *)

\* What w does once Do of its level has returned.
After(w) ==
    IF worker[w].level = 1
    THEN [worker[w] EXCEPT !.at = "tally"]
    ELSE [worker[w] EXCEPT !.at = "unlease", !.level = @ - 1]

\* Do returns before it has counted the task when the context is done already.
Enter(w) ==
    /\ worker[w].at = "enter"
    /\ IF Cancelled(w)
       THEN /\ worker' = [worker EXCEPT ![w] = After(w)]
            /\ UNCHANGED queued
       ELSE /\ Goto(w, "slot")
            /\ queued' = [queued EXCEPT ![Pool(w)] = @ + 1]
    /\ UNCHANGED <<limit, slots, leases, batch, events>>

\* The task runs inside every pool of its path: nobody reports it as waiting.
StartIn(q, w) == [p \in Pools |-> IF \E l \in 1 .. Len(Path[BatchOf[w]]) : Path[BatchOf[w]][l] = p
                                  THEN q[p] - 1 ELSE q[p]]

\* Inside the pool: on to its parent, or the work starts.
Inside(w) ==
    IF worker[w].level < Len(Path[BatchOf[w]])
    THEN /\ worker' = [worker EXCEPT ![w].at = "enter", ![w].level = @ + 1]
         /\ UNCHANGED queued
    ELSE /\ worker' = [worker EXCEPT ![w].at = "run", ![w].started = TRUE]
         /\ queued' = StartIn(queued, w)

TakeSlot(w) ==
    /\ worker[w].at \in {"slot", "woken"}
    /\ slots[Pool(w)] < limit[Pool(w)]
    /\ slots' = [slots EXCEPT ![Pool(w)] = @ + 1]
    /\ IF Key(w) # None THEN Goto(w, "limit") /\ UNCHANGED queued ELSE Inside(w)
    /\ UNCHANGED <<limit, leases, batch, events>>

Sleep(w) ==
    /\ worker[w].at \in {"slot", "woken"}
    /\ slots[Pool(w)] >= limit[Pool(w)]
    /\ Goto(w, "asleep")
    /\ UNCHANGED <<limit, slots, queued, leases, batch, events>>

\* Wrong: a waiter that gives up releases a slot it never had.
GiveUpReleases(w) ==
    /\ worker[w].at \in {"asleep", "woken"}
    /\ Cancelled(w)
    /\ Goto(w, "unslot")
    /\ UNCHANGED <<limit, slots, queued, leases, batch, events>>

\* A waiter whose context is done gives up, although it may have been woken.
GiveUp(w) ==
    /\ worker[w].at \in {"asleep", "woken"}
    /\ Cancelled(w)
    /\ worker' = [worker EXCEPT ![w] = After(w)]
    /\ queued' = [queued EXCEPT ![Pool(w)] = @ - 1]
    /\ UNCHANGED <<limit, slots, leases, batch, events>>

\* signalLocked: everybody who waits for the pool looks again.
Woken(ws, p) ==
    [w \in Workers |-> IF ws[w].at = "asleep" /\ Path[BatchOf[w]][ws[w].level] = p
                       THEN [ws[w] EXCEPT !.at = "woken"] ELSE ws[w]]

\* The limit is read first, and then a lease is asked for with it.
ReadLimit(w) ==
    /\ worker[w].at = "limit"
    /\ worker' = [worker EXCEPT ![w].at = "lease", ![w].asked = limit[Pool(w)]]
    /\ UNCHANGED <<limit, slots, queued, leases, batch, events>>

Lease(w) ==
    /\ worker[w].at = "lease"
    /\ IF leases[Key(w)] < worker[w].asked
       THEN /\ leases' = [leases EXCEPT ![Key(w)] = @ + 1]
            /\ Inside(w)
       ELSE /\ Goto(w, "poll")
            /\ UNCHANGED <<leases, queued>>
    /\ UNCHANGED <<limit, slots, batch, events>>

\* The limiter fails: Do returns the error and gives its slot back.
LeaseFails(w) ==
    /\ worker[w].at = "lease"
    /\ events < MaxEvents
    /\ events' = events + 1
    /\ Goto(w, "unslot")
    /\ UNCHANGED <<limit, slots, queued, leases, batch>>

\* 100 milliseconds later, or the context is done.
Poll(w) ==
    /\ worker[w].at = "poll"
    /\ \/ Goto(w, "limit")
       \/ Cancelled(w) /\ Goto(w, "unslot")
    /\ UNCHANGED <<limit, slots, queued, leases, batch, events>>

\* The work returns, or panics, which invoke turns into an error.
Finish(w) ==
    /\ worker[w].at = "run"
    /\ Goto(w, "unlease")
    /\ UNCHANGED <<limit, slots, queued, leases, batch, events>>

Unlease(w) ==
    /\ worker[w].at = "unlease"
    /\ leases' = IF Key(w) # None THEN [leases EXCEPT ![Key(w)] = @ - 1] ELSE leases
    /\ Goto(w, "unslot")
    /\ UNCHANGED <<limit, slots, queued, batch, events>>

\* Wrong: a slot is given back and nobody is told.
UnslotSilently(w) ==
    /\ worker[w].at = "unslot"
    /\ slots' = [slots EXCEPT ![Pool(w)] = @ - 1]
    /\ worker' = [worker EXCEPT ![w] = After(w)]
    /\ queued' = IF worker[w].started THEN queued ELSE [queued EXCEPT ![Pool(w)] = @ - 1]
    /\ UNCHANGED <<limit, leases, batch, events>>

\* releaseSlot; a task that never ran is no longer reported as waiting.
Unslot(w) ==
    /\ worker[w].at = "unslot"
    /\ slots' = [slots EXCEPT ![Pool(w)] = @ - 1]
    /\ worker' = Woken([worker EXCEPT ![w] = After(w)], Pool(w))
    /\ queued' = IF worker[w].started THEN queued ELSE [queued EXCEPT ![Pool(w)] = @ - 1]
    /\ UNCHANGED <<limit, leases, batch, events>>

\* Wrong: a raised limit is not announced.
UpdateSilently(p, n) ==
    /\ events < MaxEvents
    /\ events' = events + 1
    /\ limit' = [limit EXCEPT ![p] = n]
    /\ UNCHANGED <<slots, queued, leases, worker, batch>>

\* The settings change while tasks run and wait.
UpdateLimit(p, n) ==
    /\ events < MaxEvents
    /\ events' = events + 1
    /\ limit' = [limit EXCEPT ![p] = n]
    /\ worker' = Woken(worker, p)
    /\ UNCHANGED <<slots, queued, leases, batch>>

----------------------------------------------------------------------------
DoStep(w) ==
    \/ Enter(w) \/ TakeSlot(w) \/ Sleep(w) \/ GiveUp(w) \/ ReadLimit(w) \/ Lease(w)
    \/ Poll(w) \/ Finish(w) \/ Unlease(w) \/ Unslot(w)

WorkerStep(w) == Take(w) \/ Leave(w) \/ Tally(w) \/ DoStep(w)

Next ==
    \/ \E b \in Batches : Send(b) \/ Close(b) \/ Cancel(b)
    \/ \E w \in Workers : WorkerStep(w)
    \/ \E w \in Workers : LeaseFails(w)
    \/ \E p \in Pools, n \in Limits : UpdateLimit(p, n)

Spec == Init /\ [][Next]_vars

(* Goroutines are scheduled, and the work of a task ends.                  *)
Fairness ==
    /\ \A b \in Batches : WF_vars(Send(b)) /\ WF_vars(Close(b))
    /\ \A w \in Workers : WF_vars(WorkerStep(w))

FairSpec == Spec /\ Fairness

----------------------------------------------------------------------------
\* The levels at which w holds a slot, and those at which it waits or runs.
SlotLevels(w) ==
    CASE worker[w].at \in {"take", "tally", "gone"} -> {}
      [] worker[w].at \in {"enter", "slot", "asleep", "woken"} -> 1 .. worker[w].level - 1
      [] OTHER -> 1 .. worker[w].level

LeaseLevels(w) ==
    IF worker[w].at \in {"run", "unlease"} THEN 1 .. worker[w].level
    ELSE IF worker[w].at \in {"take", "tally", "gone"} THEN {} ELSE 1 .. worker[w].level - 1

Holds(w, p) == \E l \in SlotLevels(w) : Path[BatchOf[w]][l] = p

Leases(w, k) == \E l \in LeaseLevels(w) : KeyOf[Path[BatchOf[w]][l]] = k

Waits(w, p) ==
    /\ ~ worker[w].started
    /\ Holds(w, p) \/ (Pool(w) = p /\ worker[w].at \in {"slot", "asleep", "woken"})

(* Nobody sleeps beside a free slot: no release and no raise of a limit is *)
(* missed by a task that looked just before it.                            *)
NoLostWakeup ==
    \A w \in Workers : worker[w].at = "asleep" => slots[Pool(w)] >= limit[Pool(w)]

(* Whatever happens to a task on its way - a limiter that fails, the end   *)
(* of its context at every point, a panic - nothing is given back twice    *)
(* and nothing is forgotten: the slots in use, the tasks reported as       *)
(* waiting and the leases the limiter counts belong to tasks that will     *)
(* give them back.                                                         *)
NothingLeaks ==
    /\ \A p \in Pools : slots[p] = Cardinality({w \in Workers : Holds(w, p)})
    /\ \A p \in Pools : queued[p] = Cardinality({w \in Workers : Waits(w, p)})
    /\ \A k \in Keys : leases[k] = Cardinality({w \in Workers : Leases(w, k)})

(* A batch that returns without having been cancelled has a result for     *)
(* every item, and a cancelled one never more results than items it sent.  *)
AllItemsTallied ==
    \A b \in Batches :
        /\ batch[b].done <= batch[b].sent
        /\ (\A w \in Workers : BatchOf[w] = b => worker[w].at = "gone") /\ ~ batch[b].cancelled
              => batch[b].done = Items[b]

(* Every batch returns: pools inside pools and leases between processes    *)
(* never leave everybody waiting for somebody else.                        *)
BatchReturns ==
    <>(\A w \in Workers : worker[w].at = "gone")
=============================================================================
