----------------------------- MODULE BillingLedger -----------------------------
(***************************************************************************)
(* What a client key is charged: the reservations of                       *)
(* persistence/relational/client_key_repository.go, the settlement of      *)
(* audit_repository.go, the markers of application/clientkey and the       *)
(* writer of application/audit, as the requests of                         *)
(* application/gateway use them.                                           *)
(*                                                                         *)
(* A request with an estimate reserves what it may cost, and the           *)
(* transaction that records it turns the reservation into a charge; one    *)
(* without is served and charged all the same. Records go through a queue  *)
(* and a writer that retries for ever; reservations that nobody settles    *)
(* expire and are cleaned up. One key with a limit is modelled; a record   *)
(* is either free or costs Cost.                                           *)
(***************************************************************************)
EXTENDS Integers, FiniteSets

CONSTANTS
    Requests,    \* the requests, each of which has one event
    Instances,   \* the processes that share the database
    Setups,      \* the keys and the loads it is checked for, of which one is chosen
    Amount,      \* what a request reserves
    Cost,        \* what a charged record costs
    QueueSize,   \* the audit queue of a process
    BatchSize    \* the records its writer takes at a time

\* limit: what the key may spend; processes: those that run; home: the one that
\* serves each request; requests: those that are made, of which those with an
\* estimate are reserving; faults, a bound: restarts, failed calls of the
\* database and records it refuses.
ASSUME BillingAssumption ==
    /\ IsFiniteSet(Requests)
    /\ \A s \in Setups :
          /\ DOMAIN s = {"limit", "processes", "home", "requests", "reserving", "faults"}
          /\ s.limit \in Nat \ {0} /\ s.faults \in Nat
          /\ s.processes \subseteq Instances /\ s.home \in [Requests -> Instances]
          /\ s.requests \subseteq Requests /\ s.reserving \subseteq s.requests
          /\ \A e \in s.requests : s.home[e] \in s.processes
    /\ Amount \in Nat \ {0} /\ Cost \in Nat
    /\ QueueSize \in Nat \ {0} /\ BatchSize \in Nat \ {0}

VARIABLES
    setup,
    stage,      \* per request, where its handler is
    record,     \* per request, what its record says
    reserved,   \* reserved_usage of the key
    billed,     \* billed_usage of the key
    held,       \* the rows of billing_reservations
    expired,    \* those past their expires_at
    audited,    \* the rows of request_audits
    active,     \* activeBilling: the events whose request is under way, by process
    queue,      \* the records in the queue of their process
    batch,      \* the records its writer has taken
    writing,    \* the processes whose writer is persisting its batch
    dropped,    \* the records a process knows to be lost
    lapsed,     \* the events whose reservation has ever expired
    late,       \* the events charged without a reservation, gone or never made
    faults       \* faults so far

database == <<reserved, billed, held, expired, audited, late>>
writer == <<queue, batch, writing, dropped>>
vars == <<stage, record, database, active, writer, lapsed, faults>>

Stages == {"idle", "admitted", "running", "posting", "waiting", "cancelling", "done"}

\* cancels: the reservation is cancelled when the record has been handed over.
Record == [charged : BOOLEAN, valid : BOOLEAN, cancels : BOOLEAN]

TypeOK ==
    /\ setup \in Setups
    /\ stage \in [Requests -> Stages]
    /\ record \in [Requests -> Record]
    /\ reserved \in Nat /\ billed \in Nat
    /\ held \subseteq Requests /\ expired \subseteq held
    /\ audited \subseteq Requests
    /\ active \subseteq Requests
    /\ queue \subseteq Requests /\ batch \subseteq Requests /\ queue \cap batch = {}
    /\ writing \subseteq Instances
    /\ dropped \subseteq Requests
    /\ lapsed \subseteq Requests /\ late \subseteq Requests
    /\ faults \in 0 .. setup.faults

Init ==
    /\ setup \in Setups
    /\ stage = [e \in Requests |-> IF e \in setup.requests THEN "idle" ELSE "done"]
    /\ record = [e \in Requests |-> [charged |-> FALSE, valid |-> TRUE, cancels |-> FALSE]]
    /\ reserved = 0 /\ billed = 0
    /\ held = {} /\ expired = {} /\ audited = {}
    /\ active = {}
    /\ queue = {} /\ batch = {} /\ writing = {} /\ dropped = {}
    /\ lapsed = {} /\ late = {}
    /\ faults = 0

Limit == setup.limit

Reserving == setup.reserving

Home(e) == setup.home[e]

At(i) == {e \in Requests : Home(e) = i}

Goto(e, s) == stage' = [stage EXCEPT ![e] = s]

Charged(S) == {e \in S : record[e].charged}

\* The columns never go below zero.
Minus(a, b) == IF a <= b THEN 0 ELSE a - b

Fault == faults < setup.faults /\ faults' = faults + 1

FaultUnless(fine) == IF fine THEN UNCHANGED faults ELSE Fault

----------------------------------------------------------------------------
(* The transactions of the database.                                       *)

Fits(r) == Amount <= Minus(Minus(Limit, billed), r)

\* Wrong: the capacity is compared without what is reserved.
BookForgetsReserved(e) ==
    /\ Fits(0)
    /\ reserved' = reserved + Amount
    /\ held' = held \cup {e}
    /\ UNCHANGED <<expired, billed, audited, late>>

\* Wrong: the reservations that have expired are removed although there is room.
BookSweeps(e) ==
    LET freed == Minus(reserved, Amount * Cardinality(expired)) IN
    /\ Fits(freed)
    /\ reserved' = freed + Amount
    /\ held' = (held \ expired) \cup {e} /\ expired' = {}
    /\ UNCHANGED <<billed, audited, late>>

\* ReserveBillingUsage: the reservations that have expired are removed only
\* when there is no room otherwise, whoever's they are.
Book(e) ==
    /\ \/ /\ Fits(reserved)
          /\ reserved' = reserved + Amount
          /\ held' = held \cup {e} /\ UNCHANGED expired
       \/ LET freed == Minus(reserved, Amount * Cardinality(expired)) IN
          /\ ~ Fits(reserved) /\ Fits(freed)
          /\ reserved' = freed + Amount
          /\ held' = (held \ expired) \cup {e} /\ expired' = {}
    /\ UNCHANGED <<billed, audited, late>>

NoRoom == ~ Fits(Minus(reserved, Amount * Cardinality(expired)))

\* Reservations are removed without a charge.
Unbook(S) ==
    /\ reserved' = Minus(reserved, Amount * Cardinality(S))
    /\ held' = held \ S /\ expired' = expired \ S
    /\ UNCHANGED <<billed, audited, late>>

\* Wrong: a repeated batch is charged again.
SettleAgain(S) ==
    LET settled == S \cap held IN
    /\ audited' = audited \cup S
    /\ billed' = billed + Cost * Cardinality(Charged(S))
    /\ reserved' = Minus(reserved, Amount * Cardinality(settled))
    /\ held' = held \ settled /\ expired' = expired \ settled
    /\ late' = late \cup Charged(S \ held)

\* CreateBatch: records the audit has already are left out; each of the others
\* gives its reservation back, if it still has one, and is charged.
Settle(S) ==
    LET inserted == S \ audited
        settled == inserted \cap held IN
    /\ audited' = audited \cup S
    /\ billed' = billed + Cost * Cardinality(Charged(inserted))
    /\ reserved' = Minus(reserved, Amount * Cardinality(settled))
    /\ held' = held \ settled /\ expired' = expired \ settled
    /\ late' = late \cup Charged(inserted \ held)

----------------------------------------------------------------------------
(* A request.                                                              *)

\* Authenticate refuses a key with nothing left, reservations included.
Admit(e) ==
    /\ stage[e] = "idle"
    /\ Goto(e, IF Minus(Limit, billed) > reserved THEN "admitted" ELSE "done")
    /\ UNCHANGED <<record, database, active, writer, lapsed, faults>>

LedgerReady(i) == dropped \cap At(i) = {}

\* ReserveBilling of the service: the marker is set when the reservation is there.
Reserve(e) ==
    /\ stage[e] = "admitted" /\ e \in Reserving /\ LedgerReady(Home(e))
    /\ Book(e)
    /\ active' = active \cup {e}
    /\ Goto(e, "running")
    /\ UNCHANGED <<record, writer, lapsed, faults>>

\* The reservation is there and the request ends, because the answer is lost.
ReserveLost(e) ==
    /\ stage[e] = "admitted" /\ e \in Reserving /\ LedgerReady(Home(e))
    /\ Book(e) /\ Fault
    /\ Goto(e, "done")
    /\ UNCHANGED <<record, active, writer, lapsed>>

\* A text nobody can estimate, or a transcription, is served without one.
ServeUnreserved(e) ==
    /\ stage[e] = "admitted" /\ e \notin Reserving /\ LedgerReady(Home(e))
    /\ Goto(e, "running")
    /\ UNCHANGED <<record, database, active, writer, lapsed, faults>>

TurnAway(e) ==
    /\ stage[e] = "admitted"
    /\ (e \in Reserving /\ NoRoom) \/ ~ LedgerReady(Home(e))
    /\ Goto(e, "done")
    /\ UNCHANGED <<record, database, active, writer, lapsed, faults>>

\* Wrong: the handler cancels on its way out although the record owns the reservation.
FinishCancels(e) ==
    /\ stage[e] = "running"
    /\ \E c, v \in BOOLEAN :
          /\ record' = [record EXCEPT ![e] = [charged |-> c, valid |-> v, cancels |-> TRUE]]
          /\ FaultUnless(v)
    /\ Goto(e, "posting")
    /\ UNCHANGED <<database, active, writer, lapsed>>

\* The finalization of a request that was answered: the record takes the
\* reservation over.
Finish(e) ==
    /\ stage[e] = "running"
    /\ \E c, v \in BOOLEAN :
          /\ record' = [record EXCEPT ![e] = [charged |-> c, valid |-> v, cancels |-> FALSE]]
          /\ FaultUnless(v)
    /\ Goto(e, "posting")
    /\ UNCHANGED <<database, active, writer, lapsed>>

\* A failure is recorded at no cost. The handler of an image cancels the
\* reservation on its way out, the one of a text leaves it to the record.
Fail(e) ==
    /\ stage[e] = "running"
    /\ \E x, v \in BOOLEAN :
          /\ record' = [record EXCEPT ![e] = [charged |-> FALSE, valid |-> v, cancels |-> x]]
          /\ FaultUnless(v)
    /\ Goto(e, "posting")
    /\ UNCHANGED <<database, active, writer, lapsed>>

\* A request that ends without a record.
Abandon(e) ==
    /\ stage[e] = "running"
    /\ Goto(e, "cancelling")
    /\ UNCHANGED <<record, database, active, writer, lapsed, faults>>

After(e) == IF record[e].cancels THEN "cancelling" ELSE "done"

QueueFull(i) == Cardinality(queue \cap At(i)) >= QueueSize

Enqueue(e) ==
    /\ stage[e] = "posting" /\ ~ QueueFull(Home(e))
    /\ queue' = queue \cup {e}
    /\ Goto(e, "waiting")
    /\ UNCHANGED <<record, database, active, batch, writing, dropped, lapsed, faults>>

\* The time of the request ends before there is room: its record is lost and counted.
Drop(e) ==
    /\ stage[e] = "posting" /\ QueueFull(Home(e))
    /\ dropped' = dropped \cup {e}
    /\ active' = active \ {e}
    /\ Goto(e, After(e))
    /\ UNCHANGED <<record, database, queue, batch, writing, lapsed, faults>>

\* The writer has answered, or the request waits no longer: the record stays.
Leave(e) ==
    /\ stage[e] = "waiting"
    /\ Goto(e, After(e))
    /\ UNCHANGED <<record, database, active, writer, lapsed, faults>>

Cancel(e) ==
    /\ stage[e] = "cancelling"
    /\ Unbook(held \cap {e})
    /\ active' = active \ {e}
    /\ Goto(e, "done")
    /\ UNCHANGED <<record, writer, lapsed, faults>>

\* The error keeps the marker, whether the reservation is gone or not.
CancelFails(e) ==
    /\ stage[e] = "cancelling" /\ Fault
    /\ Unbook(held \cap {e}) \/ UNCHANGED database
    /\ Goto(e, "done")
    /\ UNCHANGED <<record, active, writer, lapsed>>

----------------------------------------------------------------------------
(* The writer of a process.                                                *)

Batch(i) == batch \cap At(i)

Take(e) ==
    /\ e \in queue /\ Home(e) \notin writing /\ Cardinality(Batch(Home(e))) < BatchSize
    /\ queue' = queue \ {e} /\ batch' = batch \cup {e}
    /\ UNCHANGED <<stage, record, database, active, writing, dropped, lapsed, faults>>

\* The batch is full or the time to collect is over.
Flush(i) ==
    /\ i \notin writing /\ Batch(i) # {}
    /\ writing' = writing \cup {i}
    /\ UNCHANGED <<stage, record, database, active, queue, batch, dropped, lapsed, faults>>

\* Wrong: the record is counted and stays in the batch.
RejectKeeps(e) ==
    /\ e \in batch /\ Home(e) \in writing /\ ~ record[e].valid
    /\ dropped' = dropped \cup {e}
    /\ active' = active \ {e}
    /\ UNCHANGED <<stage, record, database, queue, batch, writing, lapsed, faults>>

\* A record the database would refuse is taken out of the batch and counted.
Reject(e) ==
    /\ e \in batch /\ Home(e) \in writing /\ ~ record[e].valid
    /\ batch' = batch \ {e}
    /\ writing' = IF Batch(Home(e)) = {e} THEN writing \ {Home(e)} ELSE writing
    /\ dropped' = dropped \cup {e}
    /\ active' = active \ {e}
    /\ UNCHANGED <<stage, record, database, queue, lapsed, faults>>

Writes(i) == i \in writing /\ \A e \in Batch(i) : record[e].valid

\* The transaction commits, and the observer takes the markers away.
Commit(i) ==
    /\ Writes(i)
    /\ Settle(Batch(i))
    /\ active' = active \ Batch(i)
    /\ batch' = batch \ At(i) /\ writing' = writing \ {i}
    /\ UNCHANGED <<stage, record, queue, dropped, lapsed, faults>>

\* The transaction commits and the writer, not told, will try again.
CommitLost(i) ==
    /\ Writes(i) /\ Fault
    /\ Settle(Batch(i))
    /\ UNCHANGED <<stage, record, active, writer, lapsed>>

----------------------------------------------------------------------------
(* Time, the cleanup and crashes.                                          *)

\* A reservation outlives the request it was made for.
Expire(e) ==
    /\ e \in held \ expired /\ stage[e] = "done"
    /\ expired' = expired \cup {e} /\ lapsed' = lapsed \cup {e}
    /\ UNCHANGED <<stage, record, reserved, billed, held, audited, late, active, writer, faults>>

\* Wrong: a process cleans up only after itself.
CleanupOfOwn(i) ==
    LET stale == (expired \cap At(i)) \ active IN
    /\ i \in setup.processes /\ stale # {}
    /\ Unbook(stale)
    /\ UNCHANGED <<stage, record, active, writer, lapsed, faults>>

\* CleanupExpiredBilling spares the events that are active in its own process.
Cleanup(i) ==
    LET stale == expired \ (active \cap At(i)) IN
    /\ i \in setup.processes /\ stale # {}
    /\ Unbook(stale)
    /\ UNCHANGED <<stage, record, active, writer, lapsed, faults>>

\* What is in memory is gone: requests, markers, queue and batch.
Crash(i) ==
    /\ i \in setup.processes /\ Fault
    /\ stage' = [e \in Requests |-> IF Home(e) = i /\ stage[e] # "idle" THEN "done" ELSE stage[e]]
    /\ active' = active \ At(i)
    /\ queue' = queue \ At(i) /\ batch' = batch \ At(i) /\ writing' = writing \ {i}
    /\ dropped' = dropped \ At(i)
    /\ UNCHANGED <<record, database, lapsed>>

----------------------------------------------------------------------------

RequestStep(e) ==
    \/ Admit(e) \/ Reserve(e) \/ ReserveLost(e) \/ ServeUnreserved(e) \/ TurnAway(e)
    \/ Finish(e) \/ Fail(e) \/ Abandon(e)
    \/ Enqueue(e) \/ Drop(e) \/ Leave(e) \/ Cancel(e) \/ CancelFails(e)
    \/ Take(e) \/ Reject(e) \/ Expire(e)

InstanceStep(i) == Flush(i) \/ Commit(i) \/ CommitLost(i) \/ Cleanup(i) \/ Crash(i)

Next == (\E e \in Requests : RequestStep(e)) \/ (\E i \in Instances : InstanceStep(i))

Spec == Init /\ [][Next /\ UNCHANGED setup]_<<setup, vars>>

\* The writer works whenever it can and its database in the end, and the
\* cleanup is periodic.
Fairness ==
    /\ \A e \in Requests : WF_vars(Take(e)) /\ WF_vars(Reject(e))
    /\ \A i \in Instances : WF_vars(Flush(i)) /\ WF_vars(Commit(i)) /\ WF_vars(Cleanup(i))

FairSpec == Spec /\ Fairness

----------------------------------------------------------------------------
(* Properties.                                                             *)

\* The counter of the key is the sum of its reservations, whichever of
\* settlement, cancellation and the two cleanups takes a reservation away
\* first: none is given back twice or forgotten.
ReservedIsSum == reserved = Amount * Cardinality(held)

\* Every recorded event is charged once, although the writer repeats a batch
\* whose commit it was not told of, and nothing else is charged.
BilledOnce == billed = Cost * Cardinality(Charged(audited))

\* Both columns of the key say what the rows of the database add up to.
ColumnsAreSums == ReservedIsSum /\ BilledOnce

Overrun == Minus(Cost, Amount)

\* Requests admitted at the same time do not spend more than the limit: what is
\* spent and reserved exceeds it only by what records cost beyond their estimate
\* and by the charges that had no reservation, because it was gone or never made.
WithinLimit ==
    billed + reserved <= Limit + Overrun * Cardinality(audited) + Cost * Cardinality(late)

\* The decisions that the transactions take by the two columns are the ones the
\* rows ask for: a reservation is granted when it fits beside the reservations
\* and the charges there are, others lose theirs only for want of room, and an
\* event is recorded and charged once, whatever is repeated or lost.
Account == INSTANCE BillingAccount
             WITH Events <- Requests, limit <- Limit, recorded <- audited, charged <- Charged(audited)

ImplementsAccount == Account!Spec

\* The charge of a request that reserves finds its reservation, unless its record
\* was held up until the reservation expired: no request cancels under a record on
\* its way.
ChargeFindsReservation == late \cap Reserving \subseteq lapsed

\* A record the writer has taken over is written or counted as lost, also with a
\* record in its batch that the database refuses.
RecordsEnd == \A e \in Requests : e \in queue \cup batch ~> e \notin queue \cup batch

\* The marker of e is left, by a cancellation that failed, in the only process.
Marooned(e) ==
    /\ setup.processes = {Home(e)}
    /\ e \in active /\ stage[e] = "done" /\ e \notin queue \cup batch

\* A reservation that has expired does not block the key for ever, although the
\* process that made it may still have it marked, unless no other process runs and
\* nothing is left that would take the mark away.
ExpiredIsFreed == \A e \in Requests : e \in expired ~> e \notin expired \/ Marooned(e)

=============================================================================
