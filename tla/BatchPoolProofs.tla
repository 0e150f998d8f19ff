---------------------------- MODULE BatchPoolProofs ----------------------------
(***************************************************************************)
(* Proofs about BatchPool, for every number of pools, batches and workers, *)
(* every nesting of pools and every sequence of limits. What a pool counts *)
(* is the number of workers at certain stages: a step moves one worker, or *)
(* wakes some that sleep, and changes the counts by what that worker gains *)
(* or loses.                                                               *)
(***************************************************************************)
EXTENDS BatchPool, FiniteSetTheorems, TLAPS

\* A task that has not started is on its way in, and one that deals with a
\* lease is in a pool that has one.
OnTheWay ==
    \A w \in Workers :
        /\ worker[w].at \in {"enter", "slot", "asleep", "woken", "limit", "lease", "poll"}
              => ~ worker[w].started
        /\ worker[w].at = "run" => worker[w].started
        /\ worker[w].at \in {"limit", "lease", "poll"} => Key(w) # None
        /\ worker[w].started => worker[w].at \in {"run", "unlease", "unslot", "tally"}

IInv == TypeOK /\ OnTheWay /\ NoLostWakeup /\ NothingLeaks

----------------------------------------------------------------------------
(* Counting.                                                               *)

\* Every worker is inside one of the pools of its path.
LEMMA PoolType ==
    ASSUME TypeOK, NEW w \in Workers
    PROVE  /\ Pool(w) \in Pools
           /\ Key(w) \in Keys \cup {None}
           /\ Len(Path[BatchOf[w]]) \in Nat
           /\ worker[w].level \in 1 .. Len(Path[BatchOf[w]])
           /\ \A l \in 1 .. Len(Path[BatchOf[w]]) : Path[BatchOf[w]][l] \in Pools
           /\ \A l \in 1 .. Len(Path[BatchOf[w]]) :
                 l # worker[w].level =>
                    /\ Path[BatchOf[w]][l] # Pool(w)
                    /\ Key(w) # None => KeyOf[Path[BatchOf[w]][l]] # Key(w)
<1>1. Path[BatchOf[w]] \in Seq(Pools)
  BY PoolAssumption
<1>2. Len(Path[BatchOf[w]]) \in Nat /\ \A l \in 1 .. Len(Path[BatchOf[w]]) : Path[BatchOf[w]][l] \in Pools
  BY <1>1
<1>3. worker[w].level \in 1 .. Len(Path[BatchOf[w]])
  BY DEF TypeOK
<1>4. BatchOf[w] \in Batches
  BY PoolAssumption
<1>5. Pool(w) \in Pools /\ Key(w) \in Keys \cup {None}
  BY <1>2, <1>3, PoolAssumption DEF Pool, Key
<1>6. ASSUME NEW l \in 1 .. Len(Path[BatchOf[w]]), l # worker[w].level
      PROVE  Path[BatchOf[w]][l] # Pool(w) /\ (Key(w) # None => KeyOf[Path[BatchOf[w]][l]] # Key(w))
  <2>1. \A b \in Batches : \A m, n \in 1 .. Len(Path[b]) :
           m # n => /\ Path[b][m] # Path[b][n]
                    /\ KeyOf[Path[b][m]] \in Keys => KeyOf[Path[b][m]] # KeyOf[Path[b][n]]
    BY PoolAssumption
  <2> QED
    BY <1>3, <1>4, <1>5, <1>6, <2>1 DEF Pool, Key
<1> QED
  BY <1>2, <1>3, <1>5, <1>6

One(b) == IF b THEN 1 ELSE 0

\* A set of workers that changes by one worker changes its size by one.
LEMMA CountOne ==
    ASSUME NEW S \in SUBSET Workers, NEW T \in SUBSET Workers, NEW w \in Workers,
           \A x \in Workers : x # w => (x \in S <=> x \in T)
    PROVE  Cardinality(T) = Cardinality(S) + One(w \in T) - One(w \in S)
<1>1. IsFiniteSet(S) /\ IsFiniteSet(T)
  BY FS_Subset, PoolAssumption
<1>2. Cardinality(S) \in Nat /\ Cardinality(T) \in Nat
  BY <1>1, FS_CardinalityType
<1>3. CASE w \in S /\ w \in T
  <2>1. S = T
    BY <1>3
  <2> QED
    BY <1>2, <1>3, <2>1 DEF One
<1>4. CASE w \notin S /\ w \notin T
  <2>1. S = T
    BY <1>4
  <2> QED
    BY <1>2, <1>4, <2>1 DEF One
<1>5. CASE w \in S /\ w \notin T
  <2>1. T = S \ {w}
    BY <1>5
  <2> QED
    BY <1>1, <1>2, <1>5, <2>1, FS_RemoveElement DEF One
<1>6. CASE w \notin S /\ w \in T
  <2>1. T = S \cup {w}
    BY <1>6
  <2> QED
    BY <1>1, <1>2, <1>6, <2>1, FS_AddElement DEF One
<1> QED
  BY <1>3, <1>4, <1>5, <1>6

\* x is as it was, or was woken.
Untouched(x) ==
    /\ worker'[x].level = worker[x].level
    /\ worker'[x].started = worker[x].started
    /\ \/ worker'[x].at = worker[x].at
       \/ worker[x].at = "asleep" /\ worker'[x].at = "woken"

LEMMA UntouchedHolds ==
    ASSUME NEW x \in Workers, Untouched(x)
    PROVE  /\ \A p \in Pools : (Holds(x, p)' <=> Holds(x, p)) /\ (Waits(x, p)' <=> Waits(x, p))
           /\ \A k \in Keys : Leases(x, k)' <=> Leases(x, k)
<1>1. SlotLevels(x)' = SlotLevels(x) /\ LeaseLevels(x)' = LeaseLevels(x)
  BY DEF SlotLevels, LeaseLevels, Untouched
<1>2. \A p \in Pools : Holds(x, p)' <=> Holds(x, p)
  BY <1>1 DEF Holds
<1>3. \A k \in Keys : Leases(x, k)' <=> Leases(x, k)
  BY <1>1 DEF Leases
<1>4. Pool(x)' = Pool(x)
  BY DEF Pool, Untouched
<1>5. \A p \in Pools : Waits(x, p)' <=> Waits(x, p)
  BY <1>2, <1>4 DEF Waits, Untouched
<1> QED
  BY <1>2, <1>3, <1>5

\* The counts change by what w gains or loses.
Counted(w) ==
    /\ \A p \in Pools :
          /\ slots'[p] = slots[p] + One(Holds(w, p)') - One(Holds(w, p))
          /\ queued'[p] = queued[p] + One(Waits(w, p)') - One(Waits(w, p))
    /\ \A k \in Keys : leases'[k] = leases[k] + One(Leases(w, k)') - One(Leases(w, k))

\* The counts stay right when only one worker moves.
LEMMA Balance ==
    ASSUME NothingLeaks, NEW w \in Workers,
           \A x \in Workers : x # w => Untouched(x),
           Counted(w)
    PROVE  NothingLeaks'
<1>1. ASSUME NEW p \in Pools
      PROVE  slots'[p] = Cardinality({x \in Workers : Holds(x, p)'})
  <2> DEFINE S == {x \in Workers : Holds(x, p)}
             T == {x \in Workers : Holds(x, p)'}
  <2>1. \A x \in Workers : x # w => (x \in S <=> x \in T)
    BY UntouchedHolds
  <2>2. Cardinality(T) = Cardinality(S) + One(w \in T) - One(w \in S)
    <3> HIDE DEF S, T
    <3>1. S \in SUBSET Workers /\ T \in SUBSET Workers
      BY DEF S, T
    <3> QED
      BY <2>1, <3>1, CountOne
  <2>3. (w \in T <=> Holds(w, p)') /\ (w \in S <=> Holds(w, p))
    OBVIOUS
  <2>4. slots[p] = Cardinality(S)
    BY DEF NothingLeaks
  <2> QED
    BY <2>2, <2>3, <2>4 DEF One, Counted
<1>2. ASSUME NEW p \in Pools
      PROVE  queued'[p] = Cardinality({x \in Workers : Waits(x, p)'})
  <2> DEFINE S == {x \in Workers : Waits(x, p)}
             T == {x \in Workers : Waits(x, p)'}
  <2>1. \A x \in Workers : x # w => (x \in S <=> x \in T)
    BY UntouchedHolds
  <2>2. Cardinality(T) = Cardinality(S) + One(w \in T) - One(w \in S)
    <3> HIDE DEF S, T
    <3>1. S \in SUBSET Workers /\ T \in SUBSET Workers
      BY DEF S, T
    <3> QED
      BY <2>1, <3>1, CountOne
  <2>3. (w \in T <=> Waits(w, p)') /\ (w \in S <=> Waits(w, p))
    OBVIOUS
  <2>4. queued[p] = Cardinality(S)
    BY DEF NothingLeaks
  <2> QED
    BY <2>2, <2>3, <2>4 DEF One, Counted
<1>3. ASSUME NEW k \in Keys
      PROVE  leases'[k] = Cardinality({x \in Workers : Leases(x, k)'})
  <2> DEFINE S == {x \in Workers : Leases(x, k)}
             T == {x \in Workers : Leases(x, k)'}
  <2>1. \A x \in Workers : x # w => (x \in S <=> x \in T)
    BY UntouchedHolds
  <2>2. Cardinality(T) = Cardinality(S) + One(w \in T) - One(w \in S)
    <3> HIDE DEF S, T
    <3>1. S \in SUBSET Workers /\ T \in SUBSET Workers
      BY DEF S, T
    <3> QED
      BY <2>1, <3>1, CountOne
  <2>3. (w \in T <=> Leases(w, k)') /\ (w \in S <=> Leases(w, k))
    OBVIOUS
  <2>4. leases[k] = Cardinality(S)
    BY DEF NothingLeaks
  <2> QED
    BY <2>2, <2>3, <2>4 DEF One, Counted
<1> QED
  BY <1>1, <1>2, <1>3 DEF NothingLeaks

----------------------------------------------------------------------------
(* The step of one worker.                                                 *)

\* r is a record that w may have at that stage.
Fitting(w, r) ==
    /\ r \in Worker
    /\ r.level \in 1 .. Len(Path[BatchOf[w]])
    /\ r.at \in {"enter", "slot", "asleep", "woken", "limit", "lease", "poll"} => ~ r.started
    /\ r.at = "run" => r.started
    /\ r.at \in {"limit", "lease", "poll"} => KeyOf[Path[BatchOf[w]][r.level]] # None
    /\ r.started => r.at \in {"run", "unlease", "unslot", "tally"}

CountsTyped ==
    /\ slots' \in [Pools -> Int]
    /\ queued' \in [Pools -> Int]
    /\ leases' \in [Keys -> Int]

\* A step that moves w alone, takes no slot away and lets w sleep only when
\* there is none.
LEMMA StepInv ==
    ASSUME IInv, NEW w \in Workers, NEW r, Fitting(w, r),
           worker' = [worker EXCEPT ![w] = r], Counted(w), CountsTyped,
           UNCHANGED limit, batch' \in [Batches -> Batch], events' \in 0 .. MaxEvents,
           \A p \in Pools : slots'[p] >= slots[p],
           r.at = "asleep" => slots[Path[BatchOf[w]][r.level]] >= limit[Path[BatchOf[w]][r.level]]
    PROVE  IInv'
<1>1. TypeOK /\ OnTheWay /\ NoLostWakeup /\ NothingLeaks
  BY DEF IInv
<1>2. worker'[w] = r /\ \A x \in Workers : x # w => worker'[x] = worker[x]
  BY <1>1 DEF TypeOK
<1>3. TypeOK'
  <2>1. worker' \in [Workers -> Worker]
    BY <1>1 DEF TypeOK, Fitting
  <2>2. \A x \in Workers : worker'[x].level \in 1 .. Len(Path[BatchOf[x]])
    BY <1>1, <1>2 DEF TypeOK, Fitting
  <2> QED
    BY <1>1, <2>1, <2>2 DEF TypeOK, CountsTyped
<1>4. OnTheWay'
  BY <1>1, <1>2 DEF OnTheWay, Fitting, Key, Pool
<1>5. NoLostWakeup'
  <2> SUFFICES ASSUME NEW x \in Workers, worker'[x].at = "asleep"
               PROVE  slots'[Pool(x)'] >= limit[Pool(x)']
    BY DEF NoLostWakeup
  <2>1. Pool(x)' \in Pools
    <3>1. /\ worker'[x].level \in 1 .. Len(Path[BatchOf[x]])
          /\ Path[BatchOf[x]] \in Seq(Pools)
      BY <1>3, PoolAssumption DEF TypeOK
    <3> QED
      BY <3>1 DEF Pool
  <2>2. slots[Pool(x)'] >= limit[Pool(x)']
    BY <1>1, <1>2 DEF NoLostWakeup, Pool
  <2>3. \A p \in Pools : slots'[p] >= slots[p] /\ slots[p] \in Int /\ slots'[p] \in Int /\ limit[p] \in Int
    <3>1. limit \in [Pools -> Limits] /\ slots \in [Pools -> Int] /\ slots' \in [Pools -> Int]
      BY <1>1 DEF TypeOK, CountsTyped
    <3>2. Limits \subseteq Int
      BY PoolAssumption
    <3> QED
      BY <3>1, <3>2
  <2> QED
    BY <2>1, <2>2, <2>3
<1>6. NothingLeaks'
  <2>1. \A x \in Workers : x # w => Untouched(x)
    BY <1>2 DEF Untouched
  <2> QED
    BY <1>1, <2>1, Balance
<1> QED
  BY <1>3, <1>4, <1>5, <1>6 DEF IInv

\* A step of w after which w holds what it held.
LEMMA QuietStep ==
    ASSUME IInv, NEW w \in Workers, NEW r, Fitting(w, r),
           worker' = [worker EXCEPT ![w] = r],
           UNCHANGED <<limit, slots, queued, leases>>,
           batch' \in [Batches -> Batch], events' \in 0 .. MaxEvents,
           SlotLevels(w)' = SlotLevels(w), LeaseLevels(w)' = LeaseLevels(w),
           \A p \in Pools : Waits(w, p)' <=> Waits(w, p),
           r.at = "asleep" => slots[Path[BatchOf[w]][r.level]] >= limit[Path[BatchOf[w]][r.level]]
    PROVE  IInv'
<1>1. TypeOK
  BY DEF IInv
<1>2. /\ \A p \in Pools : slots[p] \in Int /\ queued[p] \in Int
      /\ \A k \in Keys : leases[k] \in Int
  BY <1>1 DEF TypeOK
<1>3. \A p \in Pools : Holds(w, p)' <=> Holds(w, p)
  BY DEF Holds
<1>4. \A k \in Keys : Leases(w, k)' <=> Leases(w, k)
  BY DEF Leases
<1>5. Counted(w)
  BY <1>2, <1>3, <1>4 DEF Counted, One
<1>6. CountsTyped
  BY <1>1 DEF TypeOK, CountsTyped
<1>7. \A p \in Pools : slots'[p] >= slots[p]
  BY <1>2
<1> QED
  BY <1>5, <1>6, <1>7, StepInv

\* A worker that only changes its stage, to one at which it holds the same.
LEMMA GotoStep ==
    ASSUME IInv, NEW w \in Workers, NEW s \in Stages, Goto(w, s),
           UNCHANGED <<limit, slots, queued, leases>>,
           batch' \in [Batches -> Batch], events' \in 0 .. MaxEvents,
           \/ worker[w].at = "take" /\ s = "gone"
           \/ worker[w].at \in {"slot", "woken"} /\ s = "asleep" /\ slots[Pool(w)] >= limit[Pool(w)]
           \/ worker[w].at = "poll" /\ s = "limit"
           \/ worker[w].at = "lease" /\ s = "poll"
           \/ worker[w].at \in {"lease", "poll"} /\ s = "unslot"
           \/ worker[w].at = "run" /\ s = "unlease"
    PROVE  IInv'
<1> DEFINE r == [worker[w] EXCEPT !.at = s]
<1>1. TypeOK /\ OnTheWay
  BY DEF IInv
<1>2. worker[w] \in Worker
  BY <1>1 DEF TypeOK
<1>3. r \in Worker /\ r.at = s /\ r.level = worker[w].level /\ r.started = worker[w].started
  BY <1>2 DEF Worker
<1>4. worker' = [worker EXCEPT ![w] = r] /\ worker'[w] = r
  BY <1>1 DEF Goto, TypeOK
<1> HIDE DEF r
<1>5. Fitting(w, r)
  BY <1>1, <1>3 DEF Fitting, TypeOK, OnTheWay, Key, Pool
<1>6. SlotLevels(w)' = SlotLevels(w) /\ LeaseLevels(w)' = LeaseLevels(w)
  BY <1>3, <1>4 DEF SlotLevels, LeaseLevels
<1>7. \A p \in Pools : Waits(w, p)' <=> Waits(w, p)
  BY <1>1, <1>3, <1>4, <1>6 DEF Waits, Holds, Pool, OnTheWay
<1>8. r.at = "asleep" => slots[Path[BatchOf[w]][r.level]] >= limit[Path[BatchOf[w]][r.level]]
  BY <1>3 DEF Pool
<1> QED
  BY <1>4, <1>5, <1>6, <1>7, <1>8, QuietStep

\* The steps of a worker outside of Do, and those inside that give nothing back.
LEMMA QuietStepInv ==
    ASSUME IInv, NEW w \in Workers,
           Take(w) \/ Leave(w) \/ Tally(w) \/ Sleep(w) \/ ReadLimit(w) \/ Poll(w)
              \/ LeaseFails(w) \/ Finish(w)
    PROVE  IInv'
<1>1. TypeOK /\ OnTheWay /\ NoLostWakeup /\ NothingLeaks
  BY DEF IInv
<1>2. /\ worker[w] \in Worker /\ worker[w].level \in 1 .. Len(Path[BatchOf[w]])
      /\ batch[BatchOf[w]] \in Batch /\ BatchOf[w] \in Batches
      /\ Len(Path[BatchOf[w]]) \in Nat /\ 1 \in 1 .. Len(Path[BatchOf[w]])
  BY <1>1, PoolType, PoolAssumption DEF TypeOK
<1>3. CASE Take(w)
  <2> DEFINE r == [Ready EXCEPT !.at = "enter"]
  <2>1. Fitting(w, r)
    BY <1>2 DEF Fitting, Worker, Stages, Ready
  <2>2. worker' = [worker EXCEPT ![w] = r] /\ worker'[w] = r
    BY <1>1, <1>3 DEF Take, TypeOK
  <2>3. SlotLevels(w)' = SlotLevels(w) /\ LeaseLevels(w)' = LeaseLevels(w)
    BY <1>3, <2>2 DEF Take, SlotLevels, LeaseLevels, Ready
  <2>4. \A p \in Pools : Waits(w, p)' <=> Waits(w, p)
    BY <1>1, <1>3, <2>2, <2>3 DEF Take, Waits, Holds, SlotLevels, Ready
  <2>5. batch' \in [Batches -> Batch] /\ events' \in 0 .. MaxEvents
    <3>1. [batch[BatchOf[w]] EXCEPT !.jobs = @ - 1] \in Batch
      <4>1. batch[BatchOf[w]].jobs \in 0 .. QueueSize /\ batch[BatchOf[w]].jobs > 0
        BY <1>2, <1>3 DEF Take, Batch
      <4>2. batch[BatchOf[w]].jobs - 1 \in 0 .. QueueSize
        BY <4>1, PoolAssumption
      <4> QED
        BY <1>2, <4>2 DEF Batch
    <3>2. batch' = [batch EXCEPT ![BatchOf[w]] = [batch[BatchOf[w]] EXCEPT !.jobs = @ - 1]]
      BY <1>3 DEF Take
    <3>3. batch' \in [Batches -> Batch]
      BY <1>1, <1>2, <3>1, <3>2 DEF TypeOK
    <3>4. events' \in 0 .. MaxEvents
      BY <1>1, <1>3 DEF Take, TypeOK
    <3> QED
      BY <3>3, <3>4
  <2> QED
    BY <1>3, <2>1, <2>2, <2>3, <2>4, <2>5, QuietStep DEF Take, Ready
<1>4. CASE Tally(w)
  <2>1. Fitting(w, Ready)
    BY <1>2 DEF Fitting, Worker, Stages, Ready
  <2>2. worker' = [worker EXCEPT ![w] = Ready] /\ worker'[w] = Ready
    BY <1>1, <1>4 DEF Tally, TypeOK
  <2>3. SlotLevels(w)' = SlotLevels(w) /\ LeaseLevels(w)' = LeaseLevels(w)
    BY <1>4, <2>2 DEF Tally, SlotLevels, LeaseLevels, Ready
  <2>4. \A p \in Pools : Waits(w, p)' <=> Waits(w, p)
    BY <1>1, <1>4, <2>2, <2>3 DEF Tally, Waits, Holds, SlotLevels, Ready
  <2>5. batch' \in [Batches -> Batch] /\ events' \in 0 .. MaxEvents
    <3>1. [batch[BatchOf[w]] EXCEPT !.done = @ + 1] \in Batch
      <4>1. batch[BatchOf[w]].done + 1 \in Nat
        BY <1>2 DEF Batch
      <4> QED
        BY <1>2, <4>1 DEF Batch
    <3>2. batch' = [batch EXCEPT ![BatchOf[w]] = [batch[BatchOf[w]] EXCEPT !.done = @ + 1]]
      BY <1>4 DEF Tally
    <3>3. batch' \in [Batches -> Batch]
      BY <1>1, <1>2, <3>1, <3>2 DEF TypeOK
    <3>4. events' \in 0 .. MaxEvents
      BY <1>1, <1>4 DEF Tally, TypeOK
    <3> QED
      BY <3>3, <3>4
  <2> QED
    BY <1>4, <2>1, <2>2, <2>3, <2>4, <2>5, QuietStep DEF Tally, Ready
<1>5. CASE ReadLimit(w)
  <2> DEFINE r == [worker[w] EXCEPT !.at = "lease", !.asked = limit[Pool(w)]]
  <2>1. limit[Pool(w)] \in Limits
    BY <1>1, PoolType DEF TypeOK
  <2>2. r \in Worker /\ r.at = "lease" /\ r.level = worker[w].level /\ r.started = worker[w].started
    BY <1>2, <2>1 DEF Worker, Stages
  <2>3. worker' = [worker EXCEPT ![w] = r] /\ worker'[w] = r
    BY <1>1, <1>5 DEF ReadLimit, TypeOK
  <2> HIDE DEF r
  <2>4. Fitting(w, r)
    BY <1>1, <1>2, <1>5, <2>2 DEF ReadLimit, Fitting, OnTheWay, Key, Pool
  <2>5. SlotLevels(w)' = SlotLevels(w) /\ LeaseLevels(w)' = LeaseLevels(w)
    BY <1>5, <2>2, <2>3 DEF ReadLimit, SlotLevels, LeaseLevels
  <2>6. \A p \in Pools : Waits(w, p)' <=> Waits(w, p)
    BY <1>5, <2>2, <2>3, <2>5 DEF ReadLimit, Waits, Holds, SlotLevels, Pool
  <2>7. batch' \in [Batches -> Batch] /\ events' \in 0 .. MaxEvents
    BY <1>1, <1>5 DEF ReadLimit, TypeOK
  <2> QED
    BY <1>5, <2>2, <2>3, <2>4, <2>5, <2>6, <2>7, QuietStep DEF ReadLimit
<1>6. {"gone", "asleep", "limit", "unslot", "unlease"} \subseteq Stages
  BY DEF Stages
<1>7. CASE Leave(w) \/ Sleep(w) \/ Poll(w) \/ Finish(w)
  <2>1. batch' \in [Batches -> Batch] /\ events' \in 0 .. MaxEvents
    BY <1>1, <1>7 DEF Leave, Sleep, Poll, Finish, TypeOK
  <2>2. CASE Leave(w)
    BY <1>6, <2>1, <2>2, GotoStep DEF Leave
  <2>3. CASE Sleep(w)
    BY <1>6, <2>1, <2>3, GotoStep DEF Sleep
  <2>4. CASE Poll(w)
    BY <1>6, <2>1, <2>4, GotoStep DEF Poll
  <2>5. CASE Finish(w)
    BY <1>6, <2>1, <2>5, GotoStep DEF Finish
  <2> QED
    BY <1>7, <2>2, <2>3, <2>4, <2>5
<1>8. CASE LeaseFails(w)
  <2>1. batch' \in [Batches -> Batch] /\ events' \in 0 .. MaxEvents
    BY <1>1, <1>8, PoolAssumption DEF LeaseFails, TypeOK
  <2> QED
    BY <1>6, <1>8, <2>1, GotoStep DEF LeaseFails
<1> QED
  BY <1>3, <1>4, <1>5, <1>7, <1>8

----------------------------------------------------------------------------
(* Into a pool and out of it.                                              *)

\* p, or k, is met at one of the first n levels of w's path.
Within(w, n, p) == \E l \in 1 .. n : Path[BatchOf[w]][l] = p

KeyWithin(w, n, k) == \E l \in 1 .. n : KeyOf[Path[BatchOf[w]][l]] = k

\* What a worker holds at each stage.
HeldAtStage(w) ==
    /\ worker[w].at \in {"take", "tally", "gone"} =>
          /\ \A p \in Pools : ~ Holds(w, p)
          /\ \A k \in Keys : ~ Leases(w, k)
    /\ worker[w].at \in {"enter", "slot", "asleep", "woken"} =>
          /\ \A p \in Pools : Holds(w, p) <=> Within(w, worker[w].level - 1, p)
          /\ \A k \in Keys : Leases(w, k) <=> KeyWithin(w, worker[w].level - 1, k)
    /\ worker[w].at \in {"limit", "lease", "poll", "unslot"} =>
          /\ \A p \in Pools : Holds(w, p) <=> Within(w, worker[w].level, p)
          /\ \A k \in Keys : Leases(w, k) <=> KeyWithin(w, worker[w].level - 1, k)
    /\ worker[w].at \in {"run", "unlease"} =>
          /\ \A p \in Pools : Holds(w, p) <=> Within(w, worker[w].level, p)
          /\ \A k \in Keys : Leases(w, k) <=> KeyWithin(w, worker[w].level, k)

LEMMA Held ==
    ASSUME NEW w \in Workers
    PROVE  HeldAtStage(w) /\ HeldAtStage(w)'
<1>1. HeldAtStage(w)
  BY DEF HeldAtStage, Holds, Leases, SlotLevels, LeaseLevels, Within, KeyWithin
<1>2. HeldAtStage(w)'
  BY DEF HeldAtStage, Holds, Leases, SlotLevels, LeaseLevels, Within, KeyWithin
<1> QED
  BY <1>1, <1>2

\* The innermost of n levels is met once.
LEMMA Innermost ==
    ASSUME TypeOK, NEW w \in Workers
    PROVE  /\ \A p \in Pools :
                 Within(w, worker[w].level, p) <=> Within(w, worker[w].level - 1, p) \/ p = Pool(w)
           /\ ~ Within(w, worker[w].level - 1, Pool(w))
           /\ \A k \in Keys :
                 KeyWithin(w, worker[w].level, k) <=> KeyWithin(w, worker[w].level - 1, k) \/ k = Key(w)
           /\ Key(w) # None => ~ KeyWithin(w, worker[w].level - 1, Key(w))
           /\ \A p \in Pools : ~ Within(w, 0, p)
           /\ \A k \in Keys : ~ KeyWithin(w, 0, k)
<1> DEFINE n == worker[w].level
<1>1. n \in 1 .. Len(Path[BatchOf[w]]) /\ Len(Path[BatchOf[w]]) \in Nat
  BY PoolType
<1>2. Path[BatchOf[w]][n] = Pool(w) /\ KeyOf[Path[BatchOf[w]][n]] = Key(w)
  BY DEF Pool, Key
<1> HIDE DEF n
<1>3. \A l \in 1 .. n - 1 : l \in 1 .. n /\ l # n /\ l \in 1 .. Len(Path[BatchOf[w]])
  BY <1>1
<1>4. \A l \in 1 .. n : l = n \/ l \in 1 .. n - 1
  BY <1>1
<1>5. n \in 1 .. n
  BY <1>1
<1>6. \A l \in 1 .. n - 1 :
         /\ Path[BatchOf[w]][l] # Pool(w)
         /\ Key(w) # None => KeyOf[Path[BatchOf[w]][l]] # Key(w)
  BY <1>3, PoolType DEF n
<1>7. \A p \in Pools : Within(w, n, p) <=> Within(w, n - 1, p) \/ p = Pool(w)
  BY <1>2, <1>3, <1>4, <1>5 DEF Within
<1>8. \A k \in Keys : KeyWithin(w, n, k) <=> KeyWithin(w, n - 1, k) \/ k = Key(w)
  BY <1>2, <1>3, <1>4, <1>5 DEF KeyWithin
<1>9. ~ Within(w, n - 1, Pool(w)) /\ (Key(w) # None => ~ KeyWithin(w, n - 1, Key(w)))
  BY <1>6 DEF Within, KeyWithin
<1>10. (\A p \in Pools : ~ Within(w, 0, p)) /\ (\A k \in Keys : ~ KeyWithin(w, 0, k))
  BY DEF Within, KeyWithin
<1> QED
  BY <1>7, <1>8, <1>9, <1>10 DEF n

\* Do of the innermost pool returned: the worker is in the pools around it.
LEMMA AfterStep ==
    ASSUME TypeOK, NEW w \in Workers, worker'[w] = After(w)
    PROVE  /\ Fitting(w, After(w))
           /\ After(w).at # "asleep"
           /\ \A p \in Pools :
                 /\ Holds(w, p)' <=> Within(w, worker[w].level - 1, p)
                 /\ Waits(w, p)' <=> ~ worker[w].started /\ Within(w, worker[w].level - 1, p)
           /\ \A k \in Keys : Leases(w, k)' <=> KeyWithin(w, worker[w].level - 1, k)
<1> DEFINE n == worker[w].level
<1>1. worker[w] \in Worker /\ n \in 1 .. Len(Path[BatchOf[w]]) /\ Len(Path[BatchOf[w]]) \in Nat
  BY PoolType DEF TypeOK
<1>2. worker'[w] = After(w)
  OBVIOUS
<1>3. HeldAtStage(w)'
  BY Held
<1>4. CASE n = 1
  <2>1. /\ After(w) \in Worker /\ After(w).at = "tally" /\ After(w).level = 1
        /\ After(w).started = worker[w].started
    BY <1>1, <1>4 DEF After, Worker, Stages
  <2>2. Fitting(w, After(w))
    BY <1>1, <1>4, <2>1 DEF Fitting
  <2>3. (\A p \in Pools : ~ Holds(w, p)') /\ (\A k \in Keys : ~ Leases(w, k)')
    BY <1>2, <1>3, <2>1 DEF HeldAtStage
  <2>4. \A p \in Pools : ~ Waits(w, p)'
    BY <1>2, <2>1, <2>3 DEF Waits
  <2>5. (\A p \in Pools : ~ Within(w, n - 1, p)) /\ (\A k \in Keys : ~ KeyWithin(w, n - 1, k))
    BY <1>4, Innermost
  <2> QED
    BY <1>2, <2>1, <2>2, <2>3, <2>4, <2>5
<1>5. CASE n # 1
  <2>1. n - 1 \in Nat /\ n - 1 \in 1 .. Len(Path[BatchOf[w]])
    BY <1>1, <1>5
  <2>2. /\ After(w) \in Worker /\ After(w).at = "unlease" /\ After(w).level = n - 1
        /\ After(w).started = worker[w].started
    BY <1>1, <1>5, <2>1 DEF After, Worker, Stages
  <2>3. Fitting(w, After(w))
    BY <2>1, <2>2 DEF Fitting
  <2>4. /\ \A p \in Pools : Holds(w, p)' <=> Within(w, n - 1, p)
        /\ \A k \in Keys : Leases(w, k)' <=> KeyWithin(w, n - 1, k)
    BY <1>2, <1>3, <2>2 DEF HeldAtStage, Within, KeyWithin
  <2>5. \A p \in Pools : Waits(w, p)' <=> ~ worker[w].started /\ Within(w, n - 1, p)
    BY <1>2, <2>2, <2>4 DEF Waits
  <2> QED
    BY <1>2, <2>2, <2>3, <2>4, <2>5
<1> QED
  BY <1>4, <1>5

\* A worker inside the innermost pool goes on to the next, or starts the work.
LEMMA InsideStep ==
    ASSUME TypeOK, NEW w \in Workers, ~ worker[w].started, Inside(w)
    PROVE  \E r :
              /\ Fitting(w, r)
              /\ r.at # "asleep"
              /\ worker' = [worker EXCEPT ![w] = r]
              /\ queued' \in [Pools -> Int]
              /\ \A p \in Pools :
                    /\ Holds(w, p)' <=> Within(w, worker[w].level, p)
                    /\ queued'[p] = queued[p] + One(Waits(w, p)')
                                      - One(Within(w, worker[w].level, p))
              /\ \A k \in Keys : Leases(w, k)' <=> KeyWithin(w, worker[w].level, k)
<1> DEFINE n == worker[w].level
<1>1. worker[w] \in Worker /\ n \in 1 .. Len(Path[BatchOf[w]]) /\ Len(Path[BatchOf[w]]) \in Nat
  BY PoolType DEF TypeOK
<1>2. HeldAtStage(w)'
  BY Held
<1>3. queued \in [Pools -> Int] /\ worker \in [Workers -> Worker]
  BY DEF TypeOK
<1>4. CASE n < Len(Path[BatchOf[w]])
  <2> DEFINE r == [worker[w] EXCEPT !.at = "enter", !.level = @ + 1]
  <2>1. n + 1 \in Nat /\ n + 1 \in 1 .. Len(Path[BatchOf[w]]) /\ (n + 1) - 1 = n
    BY <1>1, <1>4
  <2>2. worker' = [worker EXCEPT ![w] = r] /\ queued' = queued
    BY <1>4 DEF Inside
  <2>3. worker'[w] = r
    BY <1>3, <2>2
  <2>4. r \in Worker /\ r.at = "enter" /\ r.level = n + 1 /\ r.started = FALSE
    BY <1>1, <2>1 DEF Worker, Stages
  <2> HIDE DEF r
  <2>5. Fitting(w, r)
    BY <2>1, <2>4 DEF Fitting
  <2>6. /\ \A p \in Pools : Holds(w, p)' <=> Within(w, n, p)
        /\ \A k \in Keys : Leases(w, k)' <=> KeyWithin(w, n, k)
    BY <1>2, <2>1, <2>3, <2>4 DEF HeldAtStage, Within, KeyWithin
  <2>7. \A p \in Pools : Waits(w, p)' <=> Within(w, n, p)
    BY <2>3, <2>4, <2>6 DEF Waits
  <2>8. \A p \in Pools : queued'[p] = queued[p] + One(Waits(w, p)') - One(Within(w, n, p))
    BY <1>3, <2>2, <2>7 DEF One
  <2> QED
    BY <1>3, <2>2, <2>4, <2>5, <2>6, <2>8
<1>5. CASE ~ (n < Len(Path[BatchOf[w]]))
  <2> DEFINE r == [worker[w] EXCEPT !.at = "run", !.started = TRUE]
  <2>1. n = Len(Path[BatchOf[w]])
    BY <1>1, <1>5
  <2>2. worker' = [worker EXCEPT ![w] = r] /\ queued' = StartIn(queued, w)
    BY <1>5 DEF Inside
  <2>3. worker'[w] = r
    BY <1>3, <2>2
  <2>4. r \in Worker /\ r.at = "run" /\ r.level = n /\ r.started = TRUE
    BY <1>1 DEF Worker, Stages
  <2> HIDE DEF r
  <2>5. Fitting(w, r)
    BY <1>1, <2>4 DEF Fitting
  <2>6. /\ \A p \in Pools : Holds(w, p)' <=> Within(w, n, p)
        /\ \A k \in Keys : Leases(w, k)' <=> KeyWithin(w, n, k)
    BY <1>2, <2>3, <2>4 DEF HeldAtStage, Within, KeyWithin
  <2>7. \A p \in Pools : ~ Waits(w, p)'
    BY <2>3, <2>4 DEF Waits
  <2>8. queued' = [p \in Pools |-> IF Within(w, n, p) THEN queued[p] - 1 ELSE queued[p]]
    BY <2>1, <2>2 DEF StartIn, Within
  <2>9. queued' \in [Pools -> Int]
    BY <1>3, <2>8
  <2>10. \A p \in Pools : queued'[p] = queued[p] + One(Waits(w, p)') - One(Within(w, n, p))
    BY <1>3, <2>7, <2>8 DEF One
  <2> QED
    BY <2>2, <2>4, <2>5, <2>6, <2>9, <2>10
<1> QED
  BY <1>4, <1>5

\* The steps of Do that take something, or give back what nobody waits for.
LEMMA EnterInv ==
    ASSUME IInv, NEW w \in Workers, Enter(w)
    PROVE  IInv'
<1> DEFINE n == worker[w].level
<1>1. TypeOK /\ OnTheWay /\ NoLostWakeup /\ NothingLeaks
  BY DEF IInv
<1>2. worker[w] \in Worker /\ n \in 1 .. Len(Path[BatchOf[w]]) /\ Pool(w) \in Pools /\ worker[w].at = "enter"
  BY <1>1, PoolType DEF TypeOK, Enter
<1>3. ~ worker[w].started
  BY <1>1, <1>2 DEF OnTheWay
<1>4. /\ \A p \in Pools : Holds(w, p) <=> Within(w, n - 1, p)
      /\ \A k \in Keys : Leases(w, k) <=> KeyWithin(w, n - 1, k)
  BY <1>2, Held DEF HeldAtStage
<1>5. \A p \in Pools : Waits(w, p) <=> Within(w, n - 1, p)
  BY <1>2, <1>3, <1>4 DEF Waits
<1>6. /\ slots \in [Pools -> Int] /\ queued \in [Pools -> Int] /\ leases \in [Keys -> Int]
      /\ UNCHANGED <<limit, slots, leases, batch, events>>
      /\ batch' \in [Batches -> Batch] /\ events' \in 0 .. MaxEvents
  BY <1>1 DEF TypeOK, Enter
<1>7. CASE Cancelled(w)
  <2>1. worker' = [worker EXCEPT ![w] = After(w)] /\ worker'[w] = After(w) /\ queued' = queued
    BY <1>1, <1>7 DEF Enter, TypeOK
  <2>2. /\ Fitting(w, After(w)) /\ After(w).at # "asleep"
        /\ \A p \in Pools : (Holds(w, p)' <=> Holds(w, p)) /\ (Waits(w, p)' <=> Waits(w, p))
        /\ \A k \in Keys : Leases(w, k)' <=> Leases(w, k)
    BY <1>1, <1>3, <1>4, <1>5, <2>1, AfterStep
  <2>3. Counted(w)
    <3>1. \A p \in Pools : queued'[p] = queued[p] + One(Waits(w, p)') - One(Waits(w, p))
      BY <1>6, <2>1, <2>2 DEF One
    <3>2. \A p \in Pools : slots'[p] = slots[p] + One(Holds(w, p)') - One(Holds(w, p))
      BY <1>6, <2>2 DEF One
    <3>3. \A k \in Keys : leases'[k] = leases[k] + One(Leases(w, k)') - One(Leases(w, k))
      BY <1>6, <2>2 DEF One
    <3> QED
      BY <3>1, <3>2, <3>3 DEF Counted
  <2>4. CountsTyped
    BY <1>6, <2>1 DEF CountsTyped
  <2>5. \A p \in Pools : slots'[p] >= slots[p]
    BY <1>6
  <2> QED
    BY <1>6, <2>1, <2>2, <2>3, <2>4, <2>5, StepInv
<1>8. CASE ~ Cancelled(w)
  <2> DEFINE r == [worker[w] EXCEPT !.at = "slot"]
  <2>1. worker' = [worker EXCEPT ![w] = r] /\ worker'[w] = r
    BY <1>1, <1>8 DEF Enter, Goto, TypeOK
  <2>2. queued' = [queued EXCEPT ![Pool(w)] = @ + 1]
    BY <1>8 DEF Enter
  <2>3. r \in Worker /\ r.at = "slot" /\ r.level = n /\ r.started = worker[w].started
    BY <1>2 DEF Worker, Stages
  <2> HIDE DEF r
  <2>4. Fitting(w, r)
    BY <1>2, <1>3, <2>3 DEF Fitting
  <2>5. /\ \A p \in Pools : Holds(w, p)' <=> Within(w, n - 1, p)
        /\ \A k \in Keys : Leases(w, k)' <=> KeyWithin(w, n - 1, k)
    BY <2>1, <2>3, Held DEF HeldAtStage, Within, KeyWithin
  <2>6. \A p \in Pools : Waits(w, p)' <=> Within(w, n - 1, p) \/ p = Pool(w)
    BY <1>3, <2>1, <2>3, <2>5 DEF Waits, Pool
  <2>7. ~ Within(w, n - 1, Pool(w))
    BY <1>1, Innermost
  <2>8. Counted(w)
    <3>1. \A p \in Pools : queued'[p] = queued[p] + One(Waits(w, p)') - One(Waits(w, p))
      BY <1>2, <1>5, <1>6, <2>2, <2>6, <2>7 DEF One
    <3>2. \A p \in Pools : slots'[p] = slots[p] + One(Holds(w, p)') - One(Holds(w, p))
      BY <1>4, <1>6, <2>5 DEF One
    <3>3. \A k \in Keys : leases'[k] = leases[k] + One(Leases(w, k)') - One(Leases(w, k))
      BY <1>4, <1>6, <2>5 DEF One
    <3> QED
      BY <3>1, <3>2, <3>3 DEF Counted
  <2>9. CountsTyped
    BY <1>2, <1>6, <2>2 DEF CountsTyped
  <2>10. \A p \in Pools : slots'[p] >= slots[p]
    BY <1>6
  <2> QED
    BY <1>6, <2>1, <2>3, <2>4, <2>8, <2>9, <2>10, StepInv
<1> QED
  BY <1>7, <1>8

LEMMA GiveUpInv ==
    ASSUME IInv, NEW w \in Workers, GiveUp(w)
    PROVE  IInv'
<1> DEFINE n == worker[w].level
<1>1. TypeOK /\ OnTheWay /\ NoLostWakeup /\ NothingLeaks
  BY DEF IInv
<1>2. worker[w] \in Worker /\ Pool(w) \in Pools /\ worker[w].at \in {"asleep", "woken"}
  BY <1>1, PoolType DEF TypeOK, GiveUp
<1>3. ~ worker[w].started
  BY <1>1, <1>2 DEF OnTheWay
<1>4. /\ \A p \in Pools : Holds(w, p) <=> Within(w, n - 1, p)
      /\ \A k \in Keys : Leases(w, k) <=> KeyWithin(w, n - 1, k)
  BY <1>2, Held DEF HeldAtStage
<1>5. \A p \in Pools : Waits(w, p) <=> Within(w, n - 1, p) \/ p = Pool(w)
  BY <1>2, <1>3, <1>4 DEF Waits
<1>6. /\ slots \in [Pools -> Int] /\ queued \in [Pools -> Int] /\ leases \in [Keys -> Int]
      /\ UNCHANGED <<limit, slots, leases, batch, events>>
      /\ batch' \in [Batches -> Batch] /\ events' \in 0 .. MaxEvents
  BY <1>1 DEF TypeOK, GiveUp
<1>7. /\ worker' = [worker EXCEPT ![w] = After(w)] /\ worker'[w] = After(w)
      /\ queued' = [queued EXCEPT ![Pool(w)] = @ - 1]
  BY <1>1 DEF GiveUp, TypeOK
<1>8. /\ Fitting(w, After(w)) /\ After(w).at # "asleep"
      /\ \A p \in Pools : (Holds(w, p)' <=> Within(w, n - 1, p)) /\ (Waits(w, p)' <=> Within(w, n - 1, p))
      /\ \A k \in Keys : Leases(w, k)' <=> KeyWithin(w, n - 1, k)
  BY <1>1, <1>3, <1>7, AfterStep
<1>9. ~ Within(w, n - 1, Pool(w))
  BY <1>1, Innermost
<1>10. Counted(w)
  <2>1. \A p \in Pools : queued'[p] = queued[p] + One(Waits(w, p)') - One(Waits(w, p))
    BY <1>2, <1>5, <1>6, <1>7, <1>8, <1>9 DEF One
  <2>2. \A p \in Pools : slots'[p] = slots[p] + One(Holds(w, p)') - One(Holds(w, p))
    BY <1>4, <1>6, <1>8 DEF One
  <2>3. \A k \in Keys : leases'[k] = leases[k] + One(Leases(w, k)') - One(Leases(w, k))
    BY <1>4, <1>6, <1>8 DEF One
  <2> QED
    BY <2>1, <2>2, <2>3 DEF Counted
<1>11. CountsTyped
  BY <1>2, <1>6, <1>7 DEF CountsTyped
<1>12. \A p \in Pools : slots'[p] >= slots[p]
  BY <1>6
<1> QED
  BY <1>6, <1>7, <1>8, <1>10, <1>11, <1>12, StepInv

LEMMA TakeSlotInv ==
    ASSUME IInv, NEW w \in Workers, TakeSlot(w)
    PROVE  IInv'
<1> DEFINE n == worker[w].level
<1>1. TypeOK /\ OnTheWay /\ NoLostWakeup /\ NothingLeaks
  BY DEF IInv
<1>2. /\ worker[w] \in Worker /\ Pool(w) \in Pools /\ worker[w].at \in {"slot", "woken"}
      /\ n \in 1 .. Len(Path[BatchOf[w]])
  BY <1>1, PoolType DEF TypeOK, TakeSlot
<1>3. ~ worker[w].started
  BY <1>1, <1>2 DEF OnTheWay
<1>4. /\ \A p \in Pools : Holds(w, p) <=> Within(w, n - 1, p)
      /\ \A k \in Keys : Leases(w, k) <=> KeyWithin(w, n - 1, k)
  BY <1>2, Held DEF HeldAtStage
<1>5. /\ \A p \in Pools : Within(w, n, p) <=> Within(w, n - 1, p) \/ p = Pool(w)
      /\ ~ Within(w, n - 1, Pool(w))
      /\ \A k \in Keys : KeyWithin(w, n, k) <=> KeyWithin(w, n - 1, k) \/ k = Key(w)
  BY <1>1, Innermost
<1>6. \A p \in Pools : Waits(w, p) <=> Within(w, n, p)
  BY <1>2, <1>3, <1>4, <1>5 DEF Waits
<1>7. /\ slots \in [Pools -> Int] /\ queued \in [Pools -> Int] /\ leases \in [Keys -> Int]
      /\ UNCHANGED <<limit, leases, batch, events>>
      /\ slots' = [slots EXCEPT ![Pool(w)] = @ + 1]
      /\ batch' \in [Batches -> Batch] /\ events' \in 0 .. MaxEvents
  BY <1>1 DEF TypeOK, TakeSlot
<1>8. slots' \in [Pools -> Int] /\ \A p \in Pools : slots'[p] >= slots[p]
  BY <1>2, <1>7
<1>9. ASSUME \A p \in Pools : Holds(w, p)' <=> Within(w, n, p)
      PROVE  \A p \in Pools : slots'[p] = slots[p] + One(Holds(w, p)') - One(Holds(w, p))
  BY <1>2, <1>4, <1>5, <1>7, <1>9 DEF One
<1>10. CASE Key(w) # None
  <2> DEFINE r == [worker[w] EXCEPT !.at = "limit"]
  <2>1. worker' = [worker EXCEPT ![w] = r] /\ worker'[w] = r /\ queued' = queued
    BY <1>1, <1>10 DEF TakeSlot, Goto, TypeOK
  <2>2. r \in Worker /\ r.at = "limit" /\ r.level = n /\ r.started = worker[w].started
    BY <1>2 DEF Worker, Stages
  <2> HIDE DEF r
  <2>3. Fitting(w, r)
    BY <1>2, <1>3, <1>10, <2>2 DEF Fitting, Key, Pool
  <2>4. /\ \A p \in Pools : Holds(w, p)' <=> Within(w, n, p)
        /\ \A k \in Keys : Leases(w, k)' <=> KeyWithin(w, n - 1, k)
    BY <2>1, <2>2, Held DEF HeldAtStage, Within, KeyWithin
  <2>5. \A p \in Pools : Waits(w, p)' <=> Within(w, n, p)
    BY <1>3, <2>1, <2>2, <2>4 DEF Waits
  <2>6. Counted(w)
    <3>1. \A p \in Pools : queued'[p] = queued[p] + One(Waits(w, p)') - One(Waits(w, p))
      BY <1>6, <1>7, <2>1, <2>5 DEF One
    <3>2. \A k \in Keys : leases'[k] = leases[k] + One(Leases(w, k)') - One(Leases(w, k))
      BY <1>4, <1>7, <2>4 DEF One
    <3> QED
      BY <1>9, <2>4, <3>1, <3>2 DEF Counted
  <2>7. CountsTyped
    BY <1>7, <1>8, <2>1 DEF CountsTyped
  <2> QED
    BY <1>7, <1>8, <2>1, <2>2, <2>3, <2>6, <2>7, StepInv
<1>11. CASE Key(w) = None
  <2>1. Inside(w)
    BY <1>11 DEF TakeSlot
  <2>2. PICK r :
           /\ Fitting(w, r)
           /\ r.at # "asleep"
           /\ worker' = [worker EXCEPT ![w] = r]
           /\ queued' \in [Pools -> Int]
           /\ \A p \in Pools :
                 /\ Holds(w, p)' <=> Within(w, n, p)
                 /\ queued'[p] = queued[p] + One(Waits(w, p)') - One(Within(w, n, p))
           /\ \A k \in Keys : Leases(w, k)' <=> KeyWithin(w, n, k)
    BY <1>1, <1>3, <2>1, InsideStep
  <2>3. \A k \in Keys : Leases(w, k)' <=> Leases(w, k)
    BY <1>4, <1>5, <1>11, <2>2, PoolAssumption
  <2>4. Counted(w)
    <3>1. \A p \in Pools : One(Within(w, n, p)) = One(Waits(w, p))
      BY <1>6 DEF One
    <3>2. \A k \in Keys : leases'[k] = leases[k] + One(Leases(w, k)') - One(Leases(w, k))
      BY <1>7, <2>3 DEF One
    <3> QED
      BY <1>9, <2>2, <3>1, <3>2 DEF Counted
  <2>5. CountsTyped
    BY <1>7, <1>8, <2>2 DEF CountsTyped
  <2> QED
    BY <1>7, <1>8, <2>2, <2>4, <2>5, StepInv
<1> QED
  BY <1>10, <1>11

LEMMA LeaseInv ==
    ASSUME IInv, NEW w \in Workers, Lease(w)
    PROVE  IInv'
<1> DEFINE n == worker[w].level
<1>1. TypeOK /\ OnTheWay /\ NoLostWakeup /\ NothingLeaks
  BY DEF IInv
<1>2. worker[w].at = "lease" /\ Key(w) \in Keys /\ ~ worker[w].started
  BY <1>1, PoolType DEF Lease, OnTheWay
<1>3. /\ \A p \in Pools : Holds(w, p) <=> Within(w, n, p)
      /\ \A k \in Keys : Leases(w, k) <=> KeyWithin(w, n - 1, k)
  BY <1>2, Held DEF HeldAtStage
<1>4. \A p \in Pools : Waits(w, p) <=> Within(w, n, p)
  BY <1>2, <1>3 DEF Waits
<1>5. /\ \A k \in Keys : KeyWithin(w, n, k) <=> KeyWithin(w, n - 1, k) \/ k = Key(w)
      /\ ~ KeyWithin(w, n - 1, Key(w))
  BY <1>1, <1>2, Innermost, PoolAssumption
<1>6. /\ slots \in [Pools -> Int] /\ queued \in [Pools -> Int] /\ leases \in [Keys -> Int]
      /\ UNCHANGED <<limit, slots, batch, events>>
      /\ batch' \in [Batches -> Batch] /\ events' \in 0 .. MaxEvents
  BY <1>1 DEF TypeOK, Lease
<1>7. CASE leases[Key(w)] < worker[w].asked
  <2>1. Inside(w) /\ leases' = [leases EXCEPT ![Key(w)] = @ + 1]
    BY <1>7 DEF Lease
  <2>2. PICK r :
           /\ Fitting(w, r)
           /\ r.at # "asleep"
           /\ worker' = [worker EXCEPT ![w] = r]
           /\ queued' \in [Pools -> Int]
           /\ \A p \in Pools :
                 /\ Holds(w, p)' <=> Within(w, n, p)
                 /\ queued'[p] = queued[p] + One(Waits(w, p)') - One(Within(w, n, p))
           /\ \A k \in Keys : Leases(w, k)' <=> KeyWithin(w, n, k)
    BY <1>1, <1>2, <2>1, InsideStep
  <2>3. Counted(w)
    <3>1. \A p \in Pools : queued'[p] = queued[p] + One(Waits(w, p)') - One(Waits(w, p))
      BY <1>4, <2>2 DEF One
    <3>2. \A p \in Pools : slots'[p] = slots[p] + One(Holds(w, p)') - One(Holds(w, p))
      BY <1>3, <1>6, <2>2 DEF One
    <3>3. \A k \in Keys : leases'[k] = leases[k] + One(Leases(w, k)') - One(Leases(w, k))
      BY <1>2, <1>3, <1>5, <1>6, <2>1, <2>2 DEF One
    <3> QED
      BY <3>1, <3>2, <3>3 DEF Counted
  <2>4. CountsTyped
    BY <1>2, <1>6, <2>1, <2>2 DEF CountsTyped
  <2>5. \A p \in Pools : slots'[p] >= slots[p]
    BY <1>6
  <2> QED
    BY <1>6, <2>2, <2>3, <2>4, <2>5, StepInv
<1>8. CASE ~ (leases[Key(w)] < worker[w].asked)
  <2>1. Goto(w, "poll") /\ UNCHANGED <<leases, queued>> /\ "poll" \in Stages
    BY <1>8 DEF Lease, Stages
  <2> QED
    BY <1>2, <1>6, <2>1, GotoStep
<1> QED
  BY <1>7, <1>8

LEMMA UnleaseInv ==
    ASSUME IInv, NEW w \in Workers, Unlease(w)
    PROVE  IInv'
<1> DEFINE n == worker[w].level
           r == [worker[w] EXCEPT !.at = "unslot"]
<1>1. TypeOK /\ OnTheWay /\ NoLostWakeup /\ NothingLeaks
  BY DEF IInv
<1>2. /\ worker[w] \in Worker /\ worker[w].at = "unlease" /\ Key(w) \in Keys \cup {None}
      /\ n \in 1 .. Len(Path[BatchOf[w]])
  BY <1>1, PoolType DEF TypeOK, Unlease
<1>3. /\ \A p \in Pools : Holds(w, p) <=> Within(w, n, p)
      /\ \A k \in Keys : Leases(w, k) <=> KeyWithin(w, n, k)
  BY <1>2, Held DEF HeldAtStage
<1>4. /\ \A k \in Keys : KeyWithin(w, n, k) <=> KeyWithin(w, n - 1, k) \/ k = Key(w)
      /\ Key(w) # None => ~ KeyWithin(w, n - 1, Key(w))
  BY <1>1, Innermost
<1>5. /\ slots \in [Pools -> Int] /\ queued \in [Pools -> Int] /\ leases \in [Keys -> Int]
      /\ UNCHANGED <<limit, slots, queued, batch, events>>
      /\ leases' = IF Key(w) # None THEN [leases EXCEPT ![Key(w)] = @ - 1] ELSE leases
      /\ batch' \in [Batches -> Batch] /\ events' \in 0 .. MaxEvents
  BY <1>1 DEF TypeOK, Unlease
<1>6. worker' = [worker EXCEPT ![w] = r] /\ worker'[w] = r
  BY <1>1 DEF Unlease, Goto, TypeOK
<1>7. r \in Worker /\ r.at = "unslot" /\ r.level = n /\ r.started = worker[w].started
  BY <1>2 DEF Worker, Stages
<1> HIDE DEF r
<1>8. Fitting(w, r)
  BY <1>2, <1>7 DEF Fitting
<1>9. /\ \A p \in Pools : Holds(w, p)' <=> Within(w, n, p)
      /\ \A k \in Keys : Leases(w, k)' <=> KeyWithin(w, n - 1, k)
  BY <1>6, <1>7, Held DEF HeldAtStage, Within, KeyWithin
<1>10. \A p \in Pools : Waits(w, p)' <=> Waits(w, p)
  BY <1>2, <1>3, <1>6, <1>7, <1>9 DEF Waits
<1>11. Counted(w)
  <2>1. \A p \in Pools : queued'[p] = queued[p] + One(Waits(w, p)') - One(Waits(w, p))
    BY <1>5, <1>10 DEF One
  <2>2. \A p \in Pools : slots'[p] = slots[p] + One(Holds(w, p)') - One(Holds(w, p))
    BY <1>3, <1>5, <1>9 DEF One
  <2>3. \A k \in Keys : leases'[k] = leases[k] + One(Leases(w, k)') - One(Leases(w, k))
    <3>1. CASE Key(w) # None
      BY <1>2, <1>3, <1>4, <1>5, <1>9, <3>1 DEF One
    <3>2. CASE Key(w) = None
      BY <1>3, <1>4, <1>5, <1>9, <3>2, PoolAssumption DEF One
    <3> QED
      BY <3>1, <3>2
  <2> QED
    BY <2>1, <2>2, <2>3 DEF Counted
<1>12. CountsTyped
  BY <1>2, <1>5 DEF CountsTyped
<1>13. \A p \in Pools : slots'[p] >= slots[p]
  BY <1>5
<1> QED
  BY <1>5, <1>6, <1>7, <1>8, <1>11, <1>12, <1>13, StepInv

----------------------------------------------------------------------------
(* Waking the others.                                                      *)

\* Whoever was woken, or left alone, is still on its way.
LEMMA OthersOnTheWay ==
    ASSUME TypeOK, OnTheWay, worker' \in [Workers -> Worker],
           \A x \in Workers : Untouched(x) \/ Fitting(x, worker'[x])
    PROVE  /\ OnTheWay'
           /\ \A x \in Workers : worker'[x].level \in 1 .. Len(Path[BatchOf[x]])
<1> SUFFICES ASSUME NEW x \in Workers
             PROVE  /\ worker'[x].at \in {"enter", "slot", "asleep", "woken", "limit", "lease", "poll"}
                          => ~ worker'[x].started
                    /\ worker'[x].at = "run" => worker'[x].started
                    /\ worker'[x].at \in {"limit", "lease", "poll"} => Key(x)' # None
                    /\ worker'[x].started => worker'[x].at \in {"run", "unlease", "unslot", "tally"}
                    /\ worker'[x].level \in 1 .. Len(Path[BatchOf[x]])
  BY DEF OnTheWay
<1>1. CASE Untouched(x)
  BY <1>1 DEF Untouched, TypeOK, OnTheWay, Key, Pool
<1>2. CASE Fitting(x, worker'[x])
  BY <1>2 DEF Fitting, Key, Pool
<1> QED
  BY <1>1, <1>2

\* Waking wakes those who sleep at the pool, and nobody else moves.
LEMMA WokenStep ==
    ASSUME NEW ws \in [Workers -> Worker], NEW p, worker' = Woken(ws, p)
    PROVE  /\ worker' \in [Workers -> Worker]
           /\ \A x \in Workers : worker'[x].level = ws[x].level /\ worker'[x].started = ws[x].started
           /\ \A x \in Workers : ws[x].at # "asleep" => worker'[x] = ws[x]
           /\ \A x \in Workers : worker'[x].at = "asleep" => Pool(x)' # p
           /\ \A x \in Workers :
                 \/ worker'[x].at = ws[x].at
                 \/ ws[x].at = "asleep" /\ worker'[x].at = "woken"
<1>1. \A x \in Workers :
         worker'[x] = IF ws[x].at = "asleep" /\ Path[BatchOf[x]][ws[x].level] = p
                      THEN [ws[x] EXCEPT !.at = "woken"] ELSE ws[x]
  BY DEF Woken
<1>2. \A x \in Workers : worker'[x] \in Worker
  BY <1>1 DEF Worker, Stages
<1>3. worker' \in [Workers -> Worker]
  BY <1>2 DEF Woken
<1>4. ASSUME NEW x \in Workers
      PROVE  /\ worker'[x].level = ws[x].level /\ worker'[x].started = ws[x].started
             /\ ws[x].at # "asleep" => worker'[x] = ws[x]
             /\ worker'[x].at = "asleep" => Pool(x)' # p
             /\ \/ worker'[x].at = ws[x].at
                \/ ws[x].at = "asleep" /\ worker'[x].at = "woken"
  <2>1. ws[x] \in Worker
    OBVIOUS
  <2>2. CASE ws[x].at = "asleep" /\ Path[BatchOf[x]][ws[x].level] = p
    <3>1. worker'[x] = [ws[x] EXCEPT !.at = "woken"]
      BY <1>1, <2>2
    <3> QED
      BY <2>1, <2>2, <3>1 DEF Worker
  <2>3. CASE ~ (ws[x].at = "asleep" /\ Path[BatchOf[x]][ws[x].level] = p)
    <3>1. worker'[x] = ws[x]
      BY <1>1, <2>3
    <3> QED
      BY <2>3, <3>1 DEF Pool
  <2> QED
    BY <2>2, <2>3
<1> QED
  BY <1>3, <1>4

LEMMA UnslotInv ==
    ASSUME IInv, NEW w \in Workers, Unslot(w)
    PROVE  IInv'
<1> DEFINE n == worker[w].level
           ws == [worker EXCEPT ![w] = After(w)]
<1>1. TypeOK /\ OnTheWay /\ NoLostWakeup /\ NothingLeaks
  BY DEF IInv
<1>2. /\ worker[w] \in Worker /\ worker[w].at = "unslot" /\ Pool(w) \in Pools
      /\ n \in 1 .. Len(Path[BatchOf[w]]) /\ worker \in [Workers -> Worker]
  BY <1>1, PoolType DEF TypeOK, Unslot
<1>3. After(w) \in Worker /\ After(w).at # "asleep"
  <2>1. n # 1 => n - 1 \in Nat
    BY <1>2, <1>1, PoolType
  <2> QED
    BY <1>2, <2>1 DEF After, Worker, Stages
<1>4. ws \in [Workers -> Worker] /\ ws[w] = After(w) /\ \A x \in Workers : x # w => ws[x] = worker[x]
  BY <1>2, <1>3
<1>5. worker' = Woken(ws, Pool(w))
  BY DEF Unslot
<1> HIDE DEF ws
<1>6. worker'[w] = After(w)
  BY <1>3, <1>4, <1>5, WokenStep
<1>7. \A x \in Workers : x # w => Untouched(x)
  BY <1>4, <1>5, WokenStep DEF Untouched
<1>8. /\ Fitting(w, After(w))
      /\ \A p \in Pools :
            /\ Holds(w, p)' <=> Within(w, n - 1, p)
            /\ Waits(w, p)' <=> ~ worker[w].started /\ Within(w, n - 1, p)
      /\ \A k \in Keys : Leases(w, k)' <=> KeyWithin(w, n - 1, k)
  BY <1>1, <1>6, AfterStep
<1>9. worker' \in [Workers -> Worker]
  BY <1>4, <1>5, WokenStep
<1>10. OnTheWay' /\ \A x \in Workers : worker'[x].level \in 1 .. Len(Path[BatchOf[x]])
  BY <1>1, <1>6, <1>7, <1>8, <1>9, OthersOnTheWay
<1>11. /\ slots \in [Pools -> Int] /\ queued \in [Pools -> Int] /\ leases \in [Keys -> Int]
       /\ UNCHANGED <<limit, leases, batch, events>>
       /\ slots' = [slots EXCEPT ![Pool(w)] = @ - 1]
       /\ queued' = IF worker[w].started THEN queued ELSE [queued EXCEPT ![Pool(w)] = @ - 1]
  BY <1>1 DEF TypeOK, Unslot
<1>12. TypeOK'
  <2>1. slots' \in [Pools -> Int] /\ queued' \in [Pools -> Int]
    BY <1>2, <1>11
  <2> QED
    BY <1>1, <1>9, <1>10, <1>11, <2>1 DEF TypeOK
<1>13. NoLostWakeup'
  <2> SUFFICES ASSUME NEW x \in Workers, worker'[x].at = "asleep"
               PROVE  slots'[Pool(x)'] >= limit'[Pool(x)']
    BY DEF NoLostWakeup
  <2>1. x # w /\ Pool(x)' # Pool(w)
    BY <1>3, <1>4, <1>5, <1>6, WokenStep
  <2>2. worker[x].at = "asleep" /\ Pool(x)' = Pool(x)
    BY <1>7, <2>1 DEF Untouched, Pool
  <2>3. slots[Pool(x)] >= limit[Pool(x)] /\ Pool(x) \in Pools
    BY <1>1, <2>2, PoolType DEF NoLostWakeup
  <2> QED
    BY <1>11, <2>1, <2>2, <2>3
<1>14. Counted(w)
  <2>1. /\ \A p \in Pools : Holds(w, p) <=> Within(w, n, p)
        /\ \A k \in Keys : Leases(w, k) <=> KeyWithin(w, n - 1, k)
    BY <1>2, Held DEF HeldAtStage
  <2>2. \A p \in Pools : Waits(w, p) <=> ~ worker[w].started /\ Within(w, n, p)
    BY <1>2, <2>1 DEF Waits
  <2>3. /\ \A p \in Pools : Within(w, n, p) <=> Within(w, n - 1, p) \/ p = Pool(w)
        /\ ~ Within(w, n - 1, Pool(w))
    BY <1>1, Innermost
  <2>4. \A p \in Pools : slots'[p] = slots[p] + One(Holds(w, p)') - One(Holds(w, p))
    BY <1>2, <1>8, <1>11, <2>1, <2>3 DEF One
  <2>5. \A p \in Pools : queued'[p] = queued[p] + One(Waits(w, p)') - One(Waits(w, p))
    <3>1. CASE worker[w].started
      BY <1>8, <1>11, <2>2, <3>1 DEF One
    <3>2. CASE ~ worker[w].started
      <4> SUFFICES ASSUME NEW p \in Pools
                   PROVE  queued'[p] = queued[p] + One(Waits(w, p)') - One(Waits(w, p))
        OBVIOUS
      <4>1. queued' = [queued EXCEPT ![Pool(w)] = @ - 1]
        BY <1>11, <3>2
      <4>2. Waits(w, p)' <=> Within(w, n - 1, p)
        BY <1>8, <3>2
      <4>3. Waits(w, p) <=> Within(w, n - 1, p) \/ p = Pool(w)
        BY <2>2, <2>3, <3>2
      <4>4. CASE p = Pool(w)
        BY <1>2, <1>11, <2>3, <4>1, <4>2, <4>3, <4>4 DEF One
      <4>5. CASE p # Pool(w)
        BY <1>11, <4>1, <4>2, <4>3, <4>5 DEF One
      <4> QED
        BY <4>4, <4>5
    <3> QED
      BY <3>1, <3>2
  <2>6. \A k \in Keys : leases'[k] = leases[k] + One(Leases(w, k)') - One(Leases(w, k))
    BY <1>8, <1>11, <2>1 DEF One
  <2> QED
    BY <2>4, <2>5, <2>6 DEF Counted
<1>15. NothingLeaks'
  BY <1>1, <1>7, <1>14, Balance
<1> QED
  BY <1>10, <1>12, <1>13, <1>15 DEF IInv

\* A step that leaves every worker where it is, or wakes it.
LEMMA NobodyMoves ==
    ASSUME NothingLeaks, \A x \in Workers : Untouched(x), UNCHANGED <<slots, queued, leases>>
    PROVE  NothingLeaks'
<1>1. \A p \in Pools : /\ {x \in Workers : Holds(x, p)'} = {x \in Workers : Holds(x, p)}
                       /\ {x \in Workers : Waits(x, p)'} = {x \in Workers : Waits(x, p)}
  BY UntouchedHolds
<1>2. \A k \in Keys : {x \in Workers : Leases(x, k)'} = {x \in Workers : Leases(x, k)}
  BY UntouchedHolds
<1>3. \A p \in Pools : /\ slots'[p] = Cardinality({x \in Workers : Holds(x, p)'})
                       /\ queued'[p] = Cardinality({x \in Workers : Waits(x, p)'})
  BY <1>1 DEF NothingLeaks
<1>4. \A k \in Keys : leases'[k] = Cardinality({x \in Workers : Leases(x, k)'})
  BY <1>2 DEF NothingLeaks
<1> QED
  BY <1>3, <1>4 DEF NothingLeaks

LEMMA UpdateLimitInv ==
    ASSUME IInv, NEW q \in Pools, NEW n \in Limits, UpdateLimit(q, n)
    PROVE  IInv'
<1>1. TypeOK /\ OnTheWay /\ NoLostWakeup /\ NothingLeaks
  BY DEF IInv
<1>2. worker \in [Workers -> Worker] /\ worker' = Woken(worker, q)
  BY <1>1 DEF UpdateLimit, TypeOK
<1>3. worker' \in [Workers -> Worker] /\ \A x \in Workers : Untouched(x)
  BY <1>2, WokenStep DEF Untouched
<1>4. OnTheWay' /\ \A x \in Workers : worker'[x].level \in 1 .. Len(Path[BatchOf[x]])
  BY <1>1, <1>3, OthersOnTheWay
<1>5. limit' \in [Pools -> Limits] /\ events' \in 0 .. MaxEvents
  BY <1>1, PoolAssumption DEF UpdateLimit, TypeOK
<1>6. TypeOK'
  BY <1>1, <1>3, <1>4, <1>5 DEF UpdateLimit, TypeOK
<1>7. NoLostWakeup'
  <2> SUFFICES ASSUME NEW x \in Workers, worker'[x].at = "asleep"
               PROVE  slots'[Pool(x)'] >= limit'[Pool(x)']
    BY DEF NoLostWakeup
  <2>1. Pool(x)' # q /\ worker[x].at = "asleep" /\ Pool(x)' = Pool(x)
    BY <1>2, <1>3, WokenStep DEF Untouched, Pool
  <2>2. slots[Pool(x)] >= limit[Pool(x)] /\ Pool(x) \in Pools
    BY <1>1, <2>1, PoolType DEF NoLostWakeup
  <2> QED
    BY <1>1, <2>1, <2>2 DEF UpdateLimit, TypeOK
<1>8. NothingLeaks'
  BY <1>1, <1>3, NobodyMoves DEF UpdateLimit
<1> QED
  BY <1>4, <1>6, <1>7, <1>8 DEF IInv

\* The sender of a batch, and the end of its context.
LEMMA BatchStepInv ==
    ASSUME IInv, NEW b \in Batches, Send(b) \/ Close(b) \/ Cancel(b)
    PROVE  IInv'
<1>1. TypeOK /\ OnTheWay /\ NoLostWakeup /\ NothingLeaks
  BY DEF IInv
<1>2. UNCHANGED <<limit, slots, queued, leases, worker, events>>
  BY DEF Send, Close, Cancel
<1>3. batch' \in [Batches -> Batch]
  <2>1. batch \in [Batches -> Batch] /\ batch[b] \in Batch
    BY <1>1 DEF TypeOK
  <2>2. CASE Send(b)
    <3>1. batch[b].jobs + 1 \in 0 .. QueueSize /\ batch[b].sent + 1 \in Nat
      BY <2>1, <2>2, PoolAssumption DEF Send, Batch
    <3>2. [batch[b] EXCEPT !.jobs = @ + 1, !.sent = @ + 1] \in Batch
      BY <2>1, <3>1 DEF Batch
    <3> QED
      BY <2>1, <2>2, <3>2 DEF Send
  <2>3. CASE Close(b)
    BY <2>1, <2>3 DEF Close, Batch
  <2>4. CASE Cancel(b)
    BY <2>1, <2>4 DEF Cancel, Batch
  <2> QED
    BY <2>2, <2>3, <2>4
<1>4. TypeOK'
  BY <1>1, <1>2, <1>3 DEF TypeOK
<1>5. OnTheWay' /\ NoLostWakeup'
  BY <1>1, <1>2 DEF OnTheWay, NoLostWakeup, Key, Pool
<1>6. \A x \in Workers : Untouched(x)
  BY <1>2 DEF Untouched
<1>7. NothingLeaks'
  BY <1>1, <1>2, <1>6, NobodyMoves
<1> QED
  BY <1>4, <1>5, <1>7 DEF IInv

----------------------------------------------------------------------------
LEMMA InitInv == Init => IInv
<1> SUFFICES ASSUME Init PROVE IInv
  OBVIOUS
<1>1. \A w \in Workers : Len(Path[BatchOf[w]]) \in Nat /\ Len(Path[BatchOf[w]]) > 0
  BY PoolAssumption
<1>2. \A w \in Workers : worker[w] = Ready
  BY DEF Init
<1>3. Ready \in Worker
  BY DEF Ready, Worker, Stages
<1>4. NewBatch \in Batch
  BY PoolAssumption DEF NewBatch, Batch
<1>5. TypeOK
  <2>1. worker \in [Workers -> Worker]
    BY <1>3 DEF Init
  <2>2. \A w \in Workers : worker[w].level \in 1 .. Len(Path[BatchOf[w]])
    BY <1>1, <1>2 DEF Ready
  <2>3. batch \in [Batches -> Batch]
    BY <1>4 DEF Init
  <2> QED
    BY <2>1, <2>2, <2>3, PoolAssumption DEF Init, TypeOK
<1>6. OnTheWay /\ NoLostWakeup
  BY <1>2 DEF OnTheWay, NoLostWakeup, Ready
<1>7. NothingLeaks
  <2>1. \A w \in Workers : /\ \A p \in Pools : ~ Holds(w, p)
                           /\ \A k \in Keys : ~ Leases(w, k)
    BY <1>2, Held DEF Ready, HeldAtStage
  <2>2. \A w \in Workers : \A p \in Pools : ~ Waits(w, p)
    BY <1>2, <2>1 DEF Waits, Ready
  <2>3. \A p \in Pools : {w \in Workers : Holds(w, p)} = {} /\ {w \in Workers : Waits(w, p)} = {}
    BY <2>1, <2>2
  <2>4. \A k \in Keys : {w \in Workers : Leases(w, k)} = {}
    BY <2>1
  <2>5. Cardinality({}) = 0
    BY FS_EmptySet
  <2> QED
    BY <2>3, <2>4, <2>5 DEF Init, NothingLeaks
<1> QED
  BY <1>5, <1>6, <1>7 DEF IInv

LEMMA NextInv == IInv /\ [Next]_vars => IInv'
<1> SUFFICES ASSUME IInv, [Next]_vars PROVE IInv'
  OBVIOUS
<1>1. ASSUME NEW b \in Batches, Send(b) \/ Close(b) \/ Cancel(b) PROVE IInv'
  BY <1>1, BatchStepInv
<1>2. ASSUME NEW w \in Workers, WorkerStep(w) PROVE IInv'
  <2>1. CASE Take(w) \/ Leave(w) \/ Tally(w) \/ Sleep(w) \/ ReadLimit(w) \/ Poll(w) \/ Finish(w)
    BY <2>1, QuietStepInv
  <2>2. CASE Enter(w)
    BY <2>2, EnterInv
  <2>3. CASE TakeSlot(w)
    BY <2>3, TakeSlotInv
  <2>4. CASE GiveUp(w)
    BY <2>4, GiveUpInv
  <2>5. CASE Lease(w)
    BY <2>5, LeaseInv
  <2>6. CASE Unlease(w)
    BY <2>6, UnleaseInv
  <2>7. CASE Unslot(w)
    BY <2>7, UnslotInv
  <2> QED
    BY <1>2, <2>1, <2>2, <2>3, <2>4, <2>5, <2>6, <2>7 DEF WorkerStep, DoStep
<1>3. ASSUME NEW w \in Workers, LeaseFails(w) PROVE IInv'
  BY <1>3, QuietStepInv
<1>4. ASSUME NEW p \in Pools, NEW n \in Limits, UpdateLimit(p, n) PROVE IInv'
  BY <1>4, UpdateLimitInv
<1>5. CASE UNCHANGED vars
  <2>1. \A x \in Workers : Untouched(x)
    BY <1>5 DEF vars, Untouched
  <2>2. NothingLeaks'
    BY <1>5, <2>1, NobodyMoves DEF vars, IInv
  <2> QED
    BY <1>5, <2>2 DEF vars, IInv, TypeOK, OnTheWay, NoLostWakeup, Key, Pool
<1> QED
  BY <1>1, <1>2, <1>3, <1>4, <1>5 DEF Next

(* The invariant holds whatever the pools, the batches and the limits.     *)
THEOREM Invariant == Spec => []IInv
<1>1. Init => IInv
  BY InitInv
<1>2. IInv /\ [Next]_vars => IInv'
  BY NextInv
<1> QED
  BY <1>1, <1>2, PTL DEF Spec

(* No step leaves the pools, the leases or a batch in a state the code has *)
(* no name for, for every nesting of pools and number of workers.          *)
THEOREM TypeCorrect == Spec => []TypeOK
<1>1. IInv => TypeOK
  BY DEF IInv
<1> QED
  BY <1>1, Invariant, PTL

(* However many waiters, slots and changes of a limit there are, nobody    *)
(* sleeps beside a free slot of the pool it waits for.                     *)
THEOREM NobodyMissed == Spec => []NoLostWakeup
<1>1. IInv => NoLostWakeup
  BY DEF IInv
<1> QED
  BY <1>1, Invariant, PTL

(* Every slot in use, every task reported as waiting and every lease the   *)
(* limiter counts belongs to a task that will give it back, whatever fails *)
(* or is cancelled on the way.                                             *)
THEOREM CountsHold == Spec => []NothingLeaks
<1>1. IInv => NothingLeaks
  BY DEF IInv
<1> QED
  BY <1>1, Invariant, PTL

----------------------------------------------------------------------------
(* The items of a batch.                                                   *)

\* The workers of b that have taken an item and not recorded its result.
Carrying(b) == {w \in Workers : BatchOf[w] = b /\ worker[w].at \notin {"take", "gone"}}

\* An item sent is in the channel, with a worker, or has its result.
ItemsKept ==
    \A b \in Batches :
        /\ batch[b].sent <= Items[b]
        /\ batch[b].sent = batch[b].jobs + batch[b].done + Cardinality(Carrying(b))
        /\ batch[b].closed /\ ~ batch[b].cancelled => batch[b].sent = Items[b]

\* A worker leaves a batch that still goes on only when nothing is left for it.
LeftNothing ==
    \A w \in Workers :
        worker[w].at = "gone" /\ ~ Cancelled(w)
            => batch[BatchOf[w]].closed /\ batch[BatchOf[w]].jobs = 0

Accounted == ItemsKept /\ LeftNothing

\* Nobody takes an item, records a result or leaves.
NobodyTurns ==
    \A x \in Workers : worker'[x].at \in {"take", "gone"} \/ worker[x].at \in {"take", "gone"}
                           => worker'[x].at = worker[x].at

LEMMA CarryingFinite ==
    ASSUME NEW b
    PROVE  Carrying(b) \in SUBSET Workers /\ Cardinality(Carrying(b)) \in Nat
<1>1. Carrying(b) \in SUBSET Workers
  BY DEF Carrying
<1>2. IsFiniteSet(Carrying(b))
  BY <1>1, FS_Subset, PoolAssumption
<1> QED
  BY <1>1, <1>2, FS_CardinalityType

LEMMA NobodyTurnsCarrying ==
    ASSUME NobodyTurns, NEW b
    PROVE  Carrying(b)' = Carrying(b)
BY DEF NobodyTurns, Carrying

LEMMA NobodyTurnsAccounted ==
    ASSUME Accounted, NobodyTurns, UNCHANGED batch
    PROVE  Accounted'
<1>1. \A b \in Batches : Cardinality(Carrying(b))' = Cardinality(Carrying(b))
  BY NobodyTurnsCarrying
<1>2. ItemsKept'
  BY <1>1 DEF Accounted, ItemsKept
<1>3. LeftNothing'
  BY DEF Accounted, LeftNothing, NobodyTurns, Cancelled
<1> QED
  BY <1>2, <1>3 DEF Accounted

\* Inside Do, and while limits change, nobody turns to another item.
LEMMA DoTurnsNobody ==
    ASSUME TypeOK, NEW w \in Workers, DoStep(w) \/ LeaseFails(w)
    PROVE  NobodyTurns /\ UNCHANGED batch
<1>1. worker \in [Workers -> Worker] /\ worker[w] \in Worker
  BY DEF TypeOK
<1>2. CASE Enter(w) \/ GiveUp(w)
  <2>1. After(w).at \in {"tally", "unlease"}
    BY <1>1 DEF After, Worker
  <2>2. worker[w].at \notin {"take", "gone"} /\ UNCHANGED batch
    BY <1>2 DEF Enter, GiveUp
  <2>3. \A x \in Workers : x # w => worker'[x] = worker[x]
    BY <1>1, <1>2 DEF Enter, GiveUp, Goto
  <2>4. worker'[w] = After(w) \/ worker'[w] = [worker[w] EXCEPT !.at = "slot"]
    BY <1>1, <1>2 DEF Enter, GiveUp, Goto
  <2>5. worker'[w].at \in {"tally", "unlease", "slot"}
    BY <1>1, <2>1, <2>4 DEF Worker
  <2> QED
    BY <2>2, <2>3, <2>5 DEF NobodyTurns
<1>3. CASE TakeSlot(w) \/ Lease(w)
  BY <1>1, <1>3 DEF TakeSlot, Lease, Inside, Goto, NobodyTurns, Worker
<1>4. CASE Sleep(w) \/ ReadLimit(w) \/ Poll(w) \/ Finish(w) \/ Unlease(w) \/ LeaseFails(w)
  BY <1>1, <1>4 DEF Sleep, ReadLimit, Poll, Finish, Unlease, LeaseFails, Goto, NobodyTurns, Worker
<1>5. CASE Unslot(w)
  BY <1>1, <1>5 DEF Unslot, Woken, After, NobodyTurns, Worker
<1> QED
  BY <1>2, <1>3, <1>4, <1>5 DEF DoStep

LEMMA UpdateTurnsNobody ==
    ASSUME TypeOK, NEW p \in Pools, NEW n \in Limits, UpdateLimit(p, n)
    PROVE  NobodyTurns /\ UNCHANGED batch
<1>1. worker \in [Workers -> Worker]
  BY DEF TypeOK
<1> QED
  BY <1>1 DEF UpdateLimit, Woken, NobodyTurns, Worker

\* A worker takes an item, records its result, or leaves.
LEMMA TurnAccounted ==
    ASSUME TypeOK, Accounted, NEW w \in Workers, Take(w) \/ Tally(w) \/ Leave(w)
    PROVE  Accounted'
<1> DEFINE c == BatchOf[w]
<1>1. /\ worker \in [Workers -> Worker] /\ batch \in [Batches -> Batch]
      /\ c \in Batches /\ \A b \in Batches : batch[b] \in Batch
  BY PoolAssumption DEF TypeOK
<1>2. \A x \in Workers : x # w => worker'[x] = worker[x]
  BY <1>1 DEF Take, Tally, Leave, Goto
<1>3. /\ Take(w) => worker[w].at = "take" /\ worker'[w].at = "enter"
      /\ Tally(w) => worker[w].at = "tally" /\ worker'[w].at = "take"
      /\ Leave(w) => worker[w].at = "take" /\ worker'[w].at = "gone"
  BY <1>1 DEF Take, Tally, Leave, Goto, Ready, Worker
<1>4. \A b \in Batches : b # c => batch'[b] = batch[b]
  BY <1>1 DEF Take, Tally, Leave
<1>5. /\ batch'[c].sent = batch[c].sent /\ batch'[c].closed = batch[c].closed
      /\ batch'[c].cancelled = batch[c].cancelled
      /\ Take(w) => batch'[c].jobs = batch[c].jobs - 1 /\ batch'[c].done = batch[c].done
      /\ Tally(w) => batch'[c].jobs = batch[c].jobs /\ batch'[c].done = batch[c].done + 1
      /\ Leave(w) => batch'[c].jobs = batch[c].jobs /\ batch'[c].done = batch[c].done
  BY <1>1 DEF Take, Tally, Leave, Batch
<1>6. \A b \in Batches :
         /\ batch[b].jobs \in Nat /\ batch[b].done \in Nat /\ batch[b].sent \in Nat
         /\ Cardinality(Carrying(b)) \in Nat /\ Cardinality(Carrying(b)') \in Nat
  <2>1. \A b \in Batches : batch[b].jobs \in Nat /\ batch[b].done \in Nat /\ batch[b].sent \in Nat
    BY <1>1, PoolAssumption DEF Batch
  <2>2. \A b \in Batches : IsFiniteSet(Carrying(b)')
    BY FS_Subset, PoolAssumption DEF Carrying
  <2> QED
    BY <2>1, <2>2, CarryingFinite, FS_CardinalityType
<1>7. ASSUME NEW b \in Batches
      PROVE  Cardinality(Carrying(b)') =
                Cardinality(Carrying(b)) + One(w \in Carrying(b)') - One(w \in Carrying(b))
  <2>1. \A x \in Workers : x # w => (x \in Carrying(b) <=> x \in Carrying(b)')
    BY <1>2 DEF Carrying
  <2>2. Carrying(b) \in SUBSET Workers /\ Carrying(b)' \in SUBSET Workers
    BY DEF Carrying
  <2> DEFINE S == Carrying(b)
             T == Carrying(b)'
  <2>3. S \in SUBSET Workers /\ T \in SUBSET Workers /\ \A x \in Workers : x # w => (x \in S <=> x \in T)
    BY <2>1, <2>2
  <2> HIDE DEF S, T
  <2>4. Cardinality(T) = Cardinality(S) + One(w \in T) - One(w \in S)
    BY <2>3, CountOne
  <2> QED
    BY <2>4 DEF S, T
<1>8. ItemsKept'
  <2> SUFFICES ASSUME NEW b \in Batches
               PROVE  /\ batch'[b].sent <= Items[b]
                      /\ batch'[b].sent = batch'[b].jobs + batch'[b].done + Cardinality(Carrying(b)')
                      /\ batch'[b].closed /\ ~ batch'[b].cancelled => batch'[b].sent = Items[b]
    BY DEF ItemsKept
  <2>1. /\ batch[b].sent <= Items[b]
        /\ batch[b].sent = batch[b].jobs + batch[b].done + Cardinality(Carrying(b))
        /\ batch[b].closed /\ ~ batch[b].cancelled => batch[b].sent = Items[b]
    BY DEF Accounted, ItemsKept
  <2>2. CASE b # c
    <3>1. w \notin Carrying(b) /\ w \notin Carrying(b)'
      BY <2>2 DEF Carrying
    <3>2. Cardinality(Carrying(b)') = Cardinality(Carrying(b))
      BY <1>6, <1>7, <3>1 DEF One
    <3> QED
      BY <1>4, <2>1, <2>2, <3>2
  <2>3. CASE b = c
    <3>1. w \in Carrying(c) <=> worker[w].at \notin {"take", "gone"}
      BY DEF Carrying
    <3>2. w \in Carrying(c)' <=> worker'[w].at \notin {"take", "gone"}
      BY DEF Carrying
    <3>3. CASE Take(w)
      <4>1. Cardinality(Carrying(b)') = Cardinality(Carrying(b)) + 1
        BY <1>3, <1>6, <1>7, <2>3, <3>1, <3>2, <3>3 DEF One
      <4> QED
        BY <1>1, <1>5, <1>6, <2>1, <2>3, <3>3, <4>1
    <3>4. CASE Tally(w)
      <4>1. Cardinality(Carrying(b)') = Cardinality(Carrying(b)) - 1
        BY <1>3, <1>6, <1>7, <2>3, <3>1, <3>2, <3>4 DEF One
      <4> QED
        BY <1>1, <1>5, <1>6, <2>1, <2>3, <3>4, <4>1
    <3>5. CASE Leave(w)
      <4>1. Cardinality(Carrying(b)') = Cardinality(Carrying(b))
        BY <1>3, <1>6, <1>7, <2>3, <3>1, <3>2, <3>5 DEF One
      <4> QED
        BY <1>1, <1>5, <1>6, <2>1, <2>3, <3>5, <4>1
    <3> QED
      BY <3>3, <3>4, <3>5
  <2> QED
    BY <2>2, <2>3
<1>9. LeftNothing'
  <2> SUFFICES ASSUME NEW x \in Workers, worker'[x].at = "gone", ~ Cancelled(x)'
               PROVE  batch'[BatchOf[x]].closed /\ batch'[BatchOf[x]].jobs = 0
    BY DEF LeftNothing
  <2>1. BatchOf[x] \in Batches
    BY PoolAssumption
  <2>2. ~ Cancelled(x)
    BY <1>4, <1>5, <2>1 DEF Cancelled
  <2>3. CASE x = w
    <3>1. Leave(w)
      BY <1>3, <2>3
    <3> QED
      BY <1>5, <2>2, <2>3, <3>1 DEF Leave
  <2>4. CASE x # w
    <3>1. batch[BatchOf[x]].closed /\ batch[BatchOf[x]].jobs = 0
      BY <1>2, <2>2, <2>4 DEF Accounted, LeftNothing
    <3>2. BatchOf[x] = c => ~ Take(w)
      BY <3>1, <1>6, <2>1 DEF Take
    <3>3. batch'[BatchOf[x]].jobs = batch[BatchOf[x]].jobs /\ batch'[BatchOf[x]].closed
      BY <1>4, <1>5, <2>1, <3>1, <3>2
    <3> QED
      BY <3>1, <3>3
  <2> QED
    BY <2>3, <2>4
<1> QED
  BY <1>8, <1>9 DEF Accounted

\* The sender sends at most every item, and closes the channel after the last.
LEMMA SenderAccounted ==
    ASSUME TypeOK, Accounted, NEW c \in Batches, Send(c) \/ Close(c) \/ Cancel(c)
    PROVE  Accounted'
<1>1. batch \in [Batches -> Batch] /\ \A b \in Batches : batch[b] \in Batch
  BY DEF TypeOK
<1>2. UNCHANGED worker
  BY DEF Send, Close, Cancel
<1>3. \A b \in Batches : b # c => batch'[b] = batch[b]
  BY <1>1 DEF Send, Close, Cancel
<1>4. /\ Send(c) => /\ batch'[c].jobs = batch[c].jobs + 1 /\ batch'[c].sent = batch[c].sent + 1
                    /\ batch'[c].done = batch[c].done /\ batch'[c].closed = batch[c].closed
                    /\ batch'[c].cancelled = batch[c].cancelled
      /\ Close(c) => /\ batch'[c].jobs = batch[c].jobs /\ batch'[c].sent = batch[c].sent
                     /\ batch'[c].done = batch[c].done /\ batch'[c].closed
                     /\ batch'[c].cancelled = batch[c].cancelled
      /\ Cancel(c) => /\ batch'[c].jobs = batch[c].jobs /\ batch'[c].sent = batch[c].sent
                      /\ batch'[c].done = batch[c].done /\ batch'[c].closed = batch[c].closed
                      /\ batch'[c].cancelled
  BY <1>1 DEF Send, Close, Cancel, Batch
<1>5. \A b \in Batches : Carrying(b)' = Carrying(b) /\ Cardinality(Carrying(b)) \in Nat
  BY <1>2, CarryingFinite DEF Carrying
<1>6. \A b \in Batches :
         /\ batch[b].jobs \in Nat /\ batch[b].done \in Nat /\ batch[b].sent \in Nat
         /\ Items[b] \in Nat
  BY <1>1, PoolAssumption DEF Batch
<1>7. ItemsKept'
  <2> SUFFICES ASSUME NEW b \in Batches
               PROVE  /\ batch'[b].sent <= Items[b]
                      /\ batch'[b].sent = batch'[b].jobs + batch'[b].done + Cardinality(Carrying(b))
                      /\ batch'[b].closed /\ ~ batch'[b].cancelled => batch'[b].sent = Items[b]
    BY <1>5 DEF ItemsKept
  <2>1. /\ batch[b].sent <= Items[b]
        /\ batch[b].sent = batch[b].jobs + batch[b].done + Cardinality(Carrying(b))
        /\ batch[b].closed /\ ~ batch[b].cancelled => batch[b].sent = Items[b]
    BY DEF Accounted, ItemsKept
  <2>2. CASE b # c
    BY <1>3, <2>1, <2>2
  <2>3. CASE b = c /\ Send(c)
    BY <1>4, <1>5, <1>6, <2>1, <2>3 DEF Send
  <2>4. CASE b = c /\ Close(c)
    BY <1>4, <1>5, <1>6, <2>1, <2>4 DEF Close
  <2>5. CASE b = c /\ Cancel(c)
    BY <1>4, <1>5, <1>6, <2>1, <2>5
  <2> QED
    BY <2>2, <2>3, <2>4, <2>5
<1>8. LeftNothing'
  <2> SUFFICES ASSUME NEW x \in Workers, worker'[x].at = "gone", ~ Cancelled(x)'
               PROVE  batch'[BatchOf[x]].closed /\ batch'[BatchOf[x]].jobs = 0
    BY DEF LeftNothing
  <2>1. BatchOf[x] \in Batches
    BY PoolAssumption
  <2>2. ~ Cancelled(x)
    BY <1>3, <1>4, <2>1 DEF Cancelled
  <2>3. batch[BatchOf[x]].closed /\ batch[BatchOf[x]].jobs = 0
    BY <1>2, <2>2 DEF Accounted, LeftNothing
  <2>4. BatchOf[x] = c => ~ Send(c)
    BY <2>3 DEF Send
  <2> QED
    BY <1>3, <1>4, <2>1, <2>3, <2>4
<1> QED
  BY <1>7, <1>8 DEF Accounted

LEMMA InitAccounted == Init => Accounted
<1> SUFFICES ASSUME Init PROVE Accounted
  OBVIOUS
<1>1. \A w \in Workers : worker[w].at = "take"
  BY DEF Init, Ready
<1>2. \A b \in Batches : Carrying(b) = {} /\ batch[b] = NewBatch /\ Items[b] \in Nat
  BY <1>1, PoolAssumption DEF Carrying, Init
<1>3. ItemsKept
  BY <1>2, FS_EmptySet DEF ItemsKept, NewBatch
<1>4. LeftNothing
  BY <1>1 DEF LeftNothing
<1> QED
  BY <1>3, <1>4 DEF Accounted

LEMMA NextAccounted == IInv /\ Accounted /\ [Next]_vars => Accounted'
<1> SUFFICES ASSUME IInv, Accounted, [Next]_vars PROVE Accounted'
  OBVIOUS
<1>1. TypeOK
  BY DEF IInv
<1>2. ASSUME NEW b \in Batches, Send(b) \/ Close(b) \/ Cancel(b) PROVE Accounted'
  BY <1>1, <1>2, SenderAccounted
<1>3. ASSUME NEW w \in Workers, Take(w) \/ Leave(w) \/ Tally(w) PROVE Accounted'
  BY <1>1, <1>3, TurnAccounted
<1>4. ASSUME NEW w \in Workers, DoStep(w) \/ LeaseFails(w) PROVE Accounted'
  BY <1>1, <1>4, DoTurnsNobody, NobodyTurnsAccounted
<1>5. ASSUME NEW p \in Pools, NEW n \in Limits, UpdateLimit(p, n) PROVE Accounted'
  BY <1>1, <1>5, UpdateTurnsNobody, NobodyTurnsAccounted
<1>6. CASE UNCHANGED vars
  <2>1. NobodyTurns /\ UNCHANGED batch
    BY <1>6 DEF vars, NobodyTurns
  <2> QED
    BY <2>1, NobodyTurnsAccounted
<1> QED
  BY <1>2, <1>3, <1>4, <1>5, <1>6 DEF Next, WorkerStep

(* Every item sent is accounted for at every moment: it waits in the       *)
(* channel, a worker carries it, or its result is recorded; and a worker   *)
(* goes early only from a cancelled batch.                                 *)
THEOREM ItemsAccounted == Spec => []Accounted
<1>1. Init => Accounted
  BY InitAccounted
<1>2. IInv /\ Accounted /\ [Next]_vars => Accounted'
  BY NextAccounted
<1> QED
  BY <1>1, <1>2, Invariant, PTL DEF Spec

(* However the workers of a batch interleave, and whatever fails inside    *)
(* Do, a batch that returns uncancelled has a result for every item.       *)
THEOREM EveryItemTallied == Spec => []AllItemsTallied
<1>1. IInv /\ Accounted => AllItemsTallied
  <2> SUFFICES ASSUME IInv, Accounted, NEW b \in Batches
               PROVE  /\ batch[b].done <= batch[b].sent
                      /\ (\A w \in Workers : BatchOf[w] = b => worker[w].at = "gone")
                            /\ ~ batch[b].cancelled => batch[b].done = Items[b]
    BY DEF AllItemsTallied
  <2>1. /\ batch[b].sent <= Items[b]
        /\ batch[b].sent = batch[b].jobs + batch[b].done + Cardinality(Carrying(b))
        /\ batch[b].closed /\ ~ batch[b].cancelled => batch[b].sent = Items[b]
    BY DEF Accounted, ItemsKept
  <2>2. /\ batch[b].jobs \in Nat /\ batch[b].done \in Nat /\ batch[b].sent \in Nat
        /\ Items[b] \in Nat /\ Cardinality(Carrying(b)) \in Nat
    <3>1. batch[b] \in Batch
      BY DEF IInv, TypeOK
    <3> QED
      BY <3>1, CarryingFinite, PoolAssumption DEF Batch
  <2>3. batch[b].done <= batch[b].sent
    BY <2>1, <2>2
  <2>4. ASSUME \A w \in Workers : BatchOf[w] = b => worker[w].at = "gone", ~ batch[b].cancelled
        PROVE  batch[b].done = Items[b]
    <3>1. CASE Items[b] = 0
      BY <2>1, <2>2, <3>1
    <3>2. CASE Items[b] > 0
      <4>1. PICK w \in Workers : BatchOf[w] = b
        BY <3>2, PoolAssumption
      <4>2. batch[b].closed /\ batch[b].jobs = 0
        BY <2>4, <4>1 DEF Accounted, LeftNothing, Cancelled
      <4>3. Carrying(b) = {}
        BY <2>4 DEF Carrying
      <4>4. Cardinality(Carrying(b)) = 0
        BY <4>3, FS_EmptySet
      <4> QED
        BY <2>1, <2>2, <2>4, <4>2, <4>4
    <3> QED
      BY <2>2, <3>1, <3>2
  <2> QED
    BY <2>3, <2>4
<1> QED
  BY <1>1, Invariant, ItemsAccounted, PTL

=============================================================================
