--------------------------- MODULE QuotaRefreshProofs ---------------------------
(***************************************************************************)
(* Proofs about QuotaRefresh, for any number of instances, workers,        *)
(* requests, faults and restarts, and any deployments.                     *)
(***************************************************************************)
EXTENDS QuotaRefresh, TLAPS

----------------------------------------------------------------------------
(* The inductive invariant.                                                *)

Queued(i) == local[i] # None /\ local[i].queued
Running(i) == local[i] # None /\ local[i].running

\* OneFlight of an instance, and that what runs is not queued.
EntryFits(i) ==
    /\ \A w1, w2 \in Workers : Busy(i, w1) /\ Busy(i, w2) => w1 = w2
    /\ channel[i] = IF Queued(i) THEN 1 ELSE 0
    /\ (\E w \in Workers : Busy(i, w)) => Running(i)
    /\ ~ (Queued(i) /\ Running(i))

\* An instance that is not deployed does nothing.
Absent(i) ==
    i \notin deployment.instances =>
        local[i] = None /\ listed[i] = 0 /\ \A w \in Workers : job[i][w] = NoJob

\* A flight that has read and not saved holds the lock, and no holder saved after its read.
ReadFits(i, w) ==
    job[i][w].at = "save" => Holds(i, w) /\ job[i][w].read \in saved .. used

\* A flight that joined a refresh without the lock waits for what that one has read.
JoinFits(i, w) == job[i][w].at = "join" => job[i][w].read = outside[i]["mode"]

\* Does the dirty mark live as long as a flight may need it?
Marks == ~ Console /\ ~ deployment.expiry

\* No generation that an instance remembers is ahead of the coordinator's ...
Behind(i) ==
    /\ listed[i] <= coord.gen
    /\ local[i] # None => local[i].shared <= coord.gen

\* Does the snapshot n have what the mark stands for, but for what unlocked refreshes left out?
Accounts(n) == n >= coord.covers \/ missed >= coord.covers

\* ... and a flight of the newest one, once it has read, has what the mark stands for, ...
FlightFits(i, w) ==
    LET j == job[i][w] IN
    /\ j.sg <= coord.gen /\ j.gen <= coord.gen
    /\ j.at \in {"save", "join"} /\ j.sg = coord.gen => Accounts(j.read)
    /\ j.at \in {"compare", "decide", "clear"} /\ j.sg = coord.gen => Accounts(window)

\* The flight belongs to the newest generation and is past its request for the lock.
Past(i, w) ==
    job[i][w].at \in {"join", "compare", "decide", "clear"} /\ job[i][w].sg = coord.gen

\* ... and so has one that is about to save while another is to clear the mark.
SaverFits(i, w) ==
    job[i][w].at = "save" /\ (\E k \in Instances, v \in Workers : Past(k, v))
        => Accounts(job[i][w].read)

Entries == \A i \in Instances : EntryFits(i) /\ Absent(i)

Reads == saved <= used /\ \A i \in Instances, w \in Workers : ReadFits(i, w)

Snapshots ==
    /\ window <= used /\ missed <= used
    /\ \A i \in Instances, k \in FlightKeys : outside[i][k] # None => outside[i][k] <= used
    /\ \A i \in Instances, w \in Workers : JoinFits(i, w)

Generations ==
    Marks => /\ coord.covers <= used
             /\ \A i \in Instances : Behind(i)
             /\ \A i \in Instances, w \in Workers : FlightFits(i, w) /\ SaverFits(i, w)

IInv == TypeOK /\ Entries /\ Reads /\ Snapshots /\ Generations

----------------------------------------------------------------------------
(* Types.                                                                  *)

LEMMA DeploymentType ==
    ASSUME TypeOK
    PROVE  /\ deployment.coordinated \in BOOLEAN /\ deployment.durable \in BOOLEAN
           /\ deployment.console \in BOOLEAN /\ deployment.expiry \in BOOLEAN
           /\ deployment.instances \subseteq Instances
           /\ deployment.signals \in 0 .. MaxSignals /\ deployment.faults \in 0 .. MaxFaults
           /\ deployment.restarts \in 0 .. MaxRestarts
           /\ MaxSignals \in Nat /\ MaxFaults \in Nat /\ MaxRestarts \in Nat
  BY RefreshAssumption DEF TypeOK

LEMMA Records ==
    /\ Fresh \in State /\ NoJob \in Job /\ NoEntry \in Entry /\ None \notin State
    /\ NoJob.at = "idle" /\ NoJob.sg = 0 /\ NoJob.gen = 0
    /\ Fresh.shared = 0 /\ ~ Fresh.queued /\ ~ Fresh.running
  BY RefreshAssumption DEF Fresh, State, NoJob, Job, NoEntry, Entry, Stages

Sets(i, w, j) == job' = [job EXCEPT ![i][w] = j]

\* A worker's flight is at another stage, and no other worker's.
LEMMA GotoType ==
    ASSUME TypeOK, NEW i \in Instances, NEW w \in Workers, NEW j \in Job, Sets(i, w, j)
    PROVE  /\ job' \in [Instances -> [Workers -> Job]]
           /\ job'[i][w] = j
           /\ \A i2 \in Instances, w2 \in Workers : i2 # i \/ w2 # w => job'[i2][w2] = job[i2][w2]
  BY DEF TypeOK, Sets

\* What a flight leaves in the map: no entry, or one that runs as long as it flies.
EntryAfter(i, w) ==
    \/ /\ local' = [local EXCEPT ![i] = None]
       /\ ~ Busy(i, w)'
    \/ \E s \in State :
          /\ local' = [local EXCEPT ![i] = s]
          /\ ~ s.queued
          /\ s.running \/ ~ Busy(i, w)'

\* What the steps of a flight do to its job and to the entry of its instance.
Flies(i, w) ==
    /\ \E j \in Job : Sets(i, w, j)
    /\ EntryAfter(i, w)
    /\ UNCHANGED <<used, channel, listed, restarts, deployment>>

LEMMA FlyingEntries ==
    ASSUME TypeOK, Entries, NEW i \in Instances, NEW w \in Workers, Busy(i, w), Flies(i, w)
    PROVE  /\ job' \in [Instances -> [Workers -> Job]]
           /\ local' \in [Instances -> State \cup {None}]
           /\ Entries'
<1>1. PICK j \in Job : Sets(i, w, j)
  BY DEF Flies
<1>2. /\ job' \in [Instances -> [Workers -> Job]]
      /\ \A i2 \in Instances, w2 \in Workers : i2 # i \/ w2 # w => job'[i2][w2] = job[i2][w2]
  BY <1>1, GotoType
<1>3. /\ local' \in [Instances -> State \cup {None}]
      /\ \A i2 \in Instances : i2 # i => local'[i2] = local[i2]
      /\ ~ Queued(i)' /\ (Busy(i, w)' => Running(i)')
  BY Records DEF Flies, EntryAfter, TypeOK, Queued, Running
<1>4. EntryFits(i) /\ Absent(i) /\ i \in deployment.instances
  BY Records DEF Entries, Absent, Busy
<1>5. UNCHANGED <<channel, listed, deployment>>
  BY DEF Flies
<1>6. EntryFits(i)'
  <2>1. \A v \in Workers : v # w => ~ Busy(i, v)'
    BY <1>2, <1>4 DEF EntryFits, Busy
  <2>2. channel[i] = 0
    BY <1>4 DEF EntryFits
  <2> QED
    BY <1>3, <1>5, <2>1, <2>2 DEF EntryFits
<1>7. ASSUME NEW k \in Instances, k # i
      PROVE  EntryFits(k)' /\ Absent(k)'
  <2>1. EntryFits(k) /\ Absent(k)
    BY DEF Entries
  <2>2. \A v \in Workers : job'[k][v] = job[k][v]
    BY <1>2, <1>7
  <2>3. local'[k] = local[k]
    BY <1>3, <1>7
  <2> QED
    BY <1>5, <2>1, <2>2, <2>3 DEF EntryFits, Absent, Queued, Running, Busy
<1>8. Absent(i)'
  BY <1>4, <1>5 DEF Absent
<1> QED
  BY <1>2, <1>3, <1>6, <1>7, <1>8 DEF Entries

\* deferQuotaRefresh
LEMMA DeferShape ==
    ASSUME TypeOK, NEW i \in Instances, NEW w \in Workers, Running(i), ~ Queued(i),
           NEW r \in {"retry", "interval"}, Defer(i, w, r)
    PROVE  /\ Sets(i, w, NoJob)
           /\ EntryAfter(i, w)
<1>1. Sets(i, w, NoJob)
  BY DEF Defer, Return, Sets
<1>2. ~ Busy(i, w)'
  BY <1>1, GotoType, Records DEF Busy
<1> DEFINE s == [local[i] EXCEPT !.running = FALSE, !.pending = TRUE, !.wait = r]
<1>3. local[i] \in State
  BY DEF TypeOK, Running
<1>4. s \in State /\ ~ s.queued
  BY <1>3 DEF State, Running, Queued
<1>5. local' = [local EXCEPT ![i] = s]
  BY DEF Defer, Running
<1> QED
  BY <1>1, <1>2, <1>4, <1>5 DEF EntryAfter

\* An entry that stays.
LEMMA KeptEntry ==
    ASSUME TypeOK, NEW i \in Instances, NEW w \in Workers, Running(i), ~ Queued(i), UNCHANGED local
    PROVE  EntryAfter(i, w)
<1>1. local[i] \in State /\ local' = [local EXCEPT ![i] = local[i]]
  BY DEF TypeOK, Running
<1> QED
  BY <1>1 DEF EntryAfter, Running, Queued

LEMMA FlightBusy ==
    ASSUME NEW i, NEW w, FlightStep(i, w) \/ Fail(i, w)
    PROVE  Busy(i, w)
  BY DEF FlightStep, Fail, Begin, Publish, Record, Check, Adopt, Settle, SkipUpstream, Decide, Acquire,
         Fetch, Save, Join, JoinedSave, Compare, Trailing, ClearDirty, Finish, Busy

\* Every step of a flight.
LEMMA FlightShape ==
    ASSUME TypeOK, NEW i \in Instances, NEW w \in Workers, Running(i), ~ Queued(i),
           FlightStep(i, w) \/ Fail(i, w), UNCHANGED deployment
    PROVE  Flies(i, w)
<1>1. job[i][w] \in Job /\ local[i] \in State /\ local[i] # None /\ coord \in Entry
  BY DEF TypeOK, Running
<1>2. UNCHANGED <<used, channel, listed, restarts>>
  BY DEF FlightStep, Fail, Begin, Publish, Record, Check, Adopt, Settle, SkipUpstream, Decide, Acquire,
         Fetch, Save, Join, JoinedSave, Compare, Trailing, ClearDirty, Finish
<1>j. ASSUME NEW j \in Job, Sets(i, w, j), EntryAfter(i, w)
      PROVE  Flies(i, w)
  BY <1>2, <1>j DEF Flies
<1>k. ASSUME NEW j \in Job, Sets(i, w, j), UNCHANGED local
      PROVE  Flies(i, w)
  BY <1>j, <1>k, KeptEntry
<1>g. ASSUME NEW s \in Stages, Goto(i, w, s), UNCHANGED local
      PROVE  Flies(i, w)
  <2>1. [job[i][w] EXCEPT !.at = s] \in Job
    BY <1>1 DEF Job
  <2>2. Sets(i, w, [job[i][w] EXCEPT !.at = s])
    BY <1>g DEF Goto, Sets
  <2> QED
    BY <1>g, <1>k, <2>1, <2>2
<1>d. ASSUME NEW r \in {"retry", "interval"}, Defer(i, w, r)
      PROVE  Flies(i, w)
  BY <1>d, <1>j, DeferShape, Records
<1>r. ASSUME Return(i, w) PROVE Sets(i, w, NoJob) /\ ~ Busy(i, w)'
  <2>1. Sets(i, w, NoJob)
    BY <1>r DEF Return, Sets
  <2> QED
    BY <2>1, Records DEF Busy, Sets, TypeOK
<1>t. ASSUME Trail(i, w) PROVE Flies(i, w)
  BY <1>t, <1>d, <1>g DEF Trail, Stages
<1>4. CASE Begin(i, w)
  <2> DEFINE s == [local[i] EXCEPT !.pending = FALSE]
  <2>1. PICK st \in {"publish", "check", "lock"} :
           Sets(i, w, [NoJob EXCEPT !.at = st, !.lg = local[i].generation, !.sg = local[i].shared])
    BY <1>1, <1>4 DEF Begin, Sets
  <2>2. [NoJob EXCEPT !.at = st, !.lg = local[i].generation, !.sg = local[i].shared] \in Job
    BY <1>1, Records DEF Job, State, Stages
  <2>3. local' = [local EXCEPT ![i] = s] /\ s \in State /\ ~ s.queued /\ s.running
    BY <1>1, <1>4 DEF Begin, State, Running, Queued
  <2> QED
    BY <1>j, <2>1, <2>2, <2>3 DEF EntryAfter
<1>5. CASE Publish(i, w)
  <2> DEFINE j == [job[i][w] EXCEPT !.at = "record", !.sg = coord.gen + 1]
  <2>1. coord.gen + 1 \in Nat
    BY <1>1 DEF Entry
  <2>2. j \in Job
    BY <1>1, <2>1 DEF Job, Stages
  <2>3. Sets(i, w, j) /\ UNCHANGED local
    BY <1>5 DEF Publish, Sets
  <2> QED
    BY <1>k, <2>2, <2>3
<1>6. CASE Record(i, w)
  <2> DEFINE j == [job[i][w] EXCEPT !.at = "lock"]
             s == [local[i] EXCEPT !.published = job[i][w].lg, !.shared = job[i][w].sg]
  <2>1. j \in Job /\ Sets(i, w, j)
    BY <1>1, <1>6 DEF Record, Goto, Job, Stages, Sets
  <2>2. s \in State /\ ~ s.queued /\ s.running
    BY <1>1 DEF State, Job, Running, Queued
  <2>3. local' = local \/ local' = [local EXCEPT ![i] = s]
    BY <1>6 DEF Record
  <2> QED
    BY <1>j, <1>k, <2>1, <2>2, <2>3 DEF EntryAfter
<1>7. CASE Check(i, w)
  <2>1. PICK st \in {"adopt", "settle", "lock"} :
           Sets(i, w, [job[i][w] EXCEPT !.at = st, !.gen = coord.gen, !.dirty = coord.dirty])
    <3> DEFINE st == IF coord.gen > job[i][w].sg THEN "adopt"
                     ELSE IF ~ coord.dirty /\ coord.gen = job[i][w].sg THEN "settle" ELSE "lock"
    <3>1. st \in {"adopt", "settle", "lock"}
      OBVIOUS
    <3>2. Sets(i, w, [job[i][w] EXCEPT !.at = st, !.gen = coord.gen, !.dirty = coord.dirty])
      BY <1>7 DEF Check, Sets
    <3> HIDE DEF st
    <3> QED
      BY <3>1, <3>2
  <2>2. [job[i][w] EXCEPT !.at = st, !.gen = coord.gen, !.dirty = coord.dirty] \in Job
    BY <1>1 DEF Job, Stages, Entry
  <2> QED
    BY <1>7, <1>k, <2>1, <2>2 DEF Check
<1>8. CASE Adopt(i, w)
  <2> DEFINE s == [local[i] EXCEPT !.shared = job[i][w].gen]
  <2>1. PICK st \in {"settle", "lock"} :
           Sets(i, w, [job[i][w] EXCEPT !.sg = job[i][w].gen, !.at = st])
    BY <1>1, <1>8 DEF Adopt, Sets
  <2>2. [job[i][w] EXCEPT !.sg = job[i][w].gen, !.at = st] \in Job
    BY <1>1 DEF Job, Stages
  <2>3. local' = [local EXCEPT ![i] = s] /\ s \in State /\ ~ s.queued /\ s.running
    BY <1>1, <1>8 DEF Adopt, State, Job, Running, Queued
  <2> QED
    BY <1>j, <2>1, <2>2, <2>3 DEF EntryAfter
<1>9. CASE Settle(i, w)
  <2>1. Return(i, w) /\ (local' = local \/ local' = [local EXCEPT ![i] = None])
    BY <1>9 DEF Settle
  <2> QED
    BY <1>j, <1>k, <1>r, <2>1, Records DEF EntryAfter
<1>10. CASE SkipUpstream(i, w) \/ Decide(i, w) \/ Save(i, w) \/ JoinedSave(i, w)
  <2>1. {"compare", "fetch"} \subseteq Stages
    BY DEF Stages
  <2> QED
    BY <1>10, <1>g, <2>1 DEF SkipUpstream, Decide, Save, JoinedSave
<1>11. CASE Acquire(i, w)
  <2>1. Sets(i, w, job[i][w]) \/ Defer(i, w, "retry")
    BY <1>11 DEF Acquire, TypeOK, Sets
  <2>2. UNCHANGED local \/ Defer(i, w, "retry")
    BY <1>11 DEF Acquire
  <2> QED
    BY <1>1, <1>d, <1>k, <2>1, <2>2
<1>12. CASE Fetch(i, w)
  <2> DEFINE j == [job[i][w] EXCEPT !.at = "save", !.read = used]
  <2>1. j \in Job /\ Sets(i, w, j) /\ UNCHANGED local
    BY <1>1, <1>12 DEF Fetch, Job, Stages, TypeOK, Sets
  <2> QED
    BY <1>k, <2>1
<1>18. CASE Join(i, w)
  <2> DEFINE j == [job[i][w] EXCEPT !.at = "join", !.read = outside[i]["mode"]]
  <2>1. outside[i]["mode"] \in 0 .. MaxSignals
    BY <1>18 DEF Join, TypeOK, FlightKeys
  <2>2. j \in Job /\ Sets(i, w, j) /\ UNCHANGED local
    BY <1>1, <1>18, <2>1 DEF Join, Job, Stages, Sets
  <2> QED
    BY <1>k, <2>2
<1>13. CASE Compare(i, w)
  <2>1. PICK g \in Nat, b \in BOOLEAN :
           Sets(i, w, [job[i][w] EXCEPT !.at = "decide", !.gen = g, !.dirty = b])
    <3>1. coord.gen \in Nat /\ job[i][w].sg \in Nat /\ Coordinated \in BOOLEAN /\ coord.dirty \in BOOLEAN
      BY <1>1, DeploymentType DEF Entry, Job, Coordinated
    <3> DEFINE g == IF Coordinated THEN coord.gen ELSE job[i][w].sg
               b == Coordinated /\ coord.dirty
    <3>2. g \in Nat /\ b \in BOOLEAN
      BY <3>1
    <3>3. Sets(i, w, [job[i][w] EXCEPT !.at = "decide", !.gen = g, !.dirty = b])
      BY <1>13 DEF Compare, Sets
    <3> HIDE DEF g, b
    <3> QED
      BY <3>2, <3>3
  <2>2. [job[i][w] EXCEPT !.at = "decide", !.gen = g, !.dirty = b] \in Job
    BY <1>1 DEF Job, Stages
  <2> QED
    BY <1>13, <1>k, <2>1, <2>2 DEF Compare
<1>14. CASE Trailing(i, w)
  <2>1. {"clear", "finish"} \subseteq Stages
    BY DEF Stages
  <2>2. Trail(i, w) \/ \E s \in {"clear", "finish"} : Goto(i, w, s) /\ UNCHANGED local
    BY <1>14 DEF Trailing
  <2> QED
    BY <1>g, <1>t, <2>1, <2>2
<1>15. CASE ClearDirty(i, w)
  <2>1. "finish" \in Stages
    BY DEF Stages
  <2> QED
    BY <1>15, <1>g, <1>t, <2>1 DEF ClearDirty
<1>16. CASE Finish(i, w)
  <2>1. CASE local' = [local EXCEPT ![i] = None] /\ Return(i, w)
    BY <1>j, <1>r, <2>1, Records DEF EntryAfter
  <2>2. CASE Goto(i, w, "begin") /\ UNCHANGED local
    BY <1>g, <2>2 DEF Stages
  <2>3. ASSUME NEW p \in BOOLEAN, Return(i, w),
               local' = [local EXCEPT ![i].running = FALSE, ![i].pending = p, ![i].wait = "interval"]
        PROVE  Flies(i, w)
    <3> DEFINE s == [local[i] EXCEPT !.running = FALSE, !.pending = p, !.wait = "interval"]
    <3>1. local' = [local EXCEPT ![i] = s] /\ s \in State /\ ~ s.queued
      BY <1>1, <2>3 DEF State, Queued
    <3> QED
      BY <1>j, <1>r, <2>3, <3>1, Records DEF EntryAfter
  <2> QED
    BY <1>16, <2>1, <2>2, <2>3 DEF Finish
<1>17. CASE Fail(i, w)
  <2>1. Trail(i, w) \/ Defer(i, w, "retry")
    BY <1>17 DEF Fail
  <2>2. CASE Defer(i, w, "retry")
    BY <2>2, <1>d
  <2> QED
    BY <2>1, <2>2, <1>t
<1> QED
  BY <1>4, <1>5, <1>6, <1>7, <1>8, <1>9, <1>10, <1>11, <1>12, <1>13, <1>14, <1>15, <1>16, <1>17, <1>18
     DEF FlightStep

Reading == {"save", "join"}
Read == {"compare", "decide", "clear"}

\* The stages of a flight from its read to its clearing the mark.
LEMMA FlightStages ==
    ASSUME TypeOK, NEW i \in Instances, NEW w \in Workers, Running(i),
           FlightStep(i, w) \/ Fail(i, w)
    PROVE  /\ job'[i][w].at = "save" => Fetch(i, w)
           /\ job'[i][w].at = "join" => Join(i, w)
           /\ job'[i][w].at \in Read =>
                /\ job'[i][w].sg = job[i][w].sg
                /\ job[i][w].at \in Reading \cup Read \/ Console
<1>1. /\ job \in [Instances -> [Workers -> Job]] /\ job[i][w] \in Job /\ local[i] # None
  BY DEF TypeOK, Running
<1> DEFINE j == job'[i][w]
<1>s. ASSUME NEW s \in Stages, Goto(i, w, s)
      PROVE  j.at = s /\ j.sg = job[i][w].sg
  <2>1. j = [job[i][w] EXCEPT !.at = s]
    BY <1>1, <1>s DEF Goto
  <2> QED
    BY <1>1, <2>1 DEF Job
<1>r. Return(i, w) => j.at = "idle"
  BY <1>1, Records DEF Return
<1>t. Trail(i, w) \/ Defer(i, w, "retry") => j.at \in {"idle", "begin"}
  BY <1>s, <1>r DEF Trail, Defer, Stages
<1>2. CASE Begin(i, w)
  <2>1. PICK st \in {"publish", "check", "lock"} :
           j = [NoJob EXCEPT !.at = st, !.lg = local[i].generation, !.sg = local[i].shared]
    <3> DEFINE st == IF Coordinated /\ local[i].published < local[i].generation THEN "publish"
                     ELSE IF Coordinated /\ local[i].shared > 0 THEN "check" ELSE "lock"
    <3>1. st \in {"publish", "check", "lock"}
      OBVIOUS
    <3>2. j = [NoJob EXCEPT !.at = st, !.lg = local[i].generation, !.sg = local[i].shared]
      BY <1>1, <1>2 DEF Begin
    <3> HIDE DEF st
    <3> QED
      BY <3>1, <3>2
  <2>2. j.at = st
    BY <2>1 DEF NoJob
  <2> QED
    BY <2>2 DEF Read
<1>3. CASE Publish(i, w) \/ Check(i, w) \/ Adopt(i, w)
  <2>1. CASE Publish(i, w)
    <3>1. j = [job[i][w] EXCEPT !.at = "record", !.sg = coord.gen + 1]
      BY <1>1, <2>1 DEF Publish
    <3> QED
      BY <1>1, <3>1 DEF Job, Read
  <2>2. CASE Check(i, w)
    <3>1. PICK st \in {"adopt", "settle", "lock"} :
             j = [job[i][w] EXCEPT !.at = st, !.gen = coord.gen, !.dirty = coord.dirty]
      BY <1>1, <2>2 DEF Check
    <3> QED
      BY <1>1, <3>1 DEF Job, Read
  <2>3. CASE Adopt(i, w)
    <3>1. PICK st \in {"settle", "lock"} : j = [job[i][w] EXCEPT !.sg = job[i][w].gen, !.at = st]
      BY <1>1, <2>3 DEF Adopt
    <3> QED
      BY <1>1, <3>1 DEF Job, Read
  <2> QED
    BY <1>3, <2>1, <2>2, <2>3
<1>4. CASE Record(i, w) \/ Decide(i, w) \/ Settle(i, w) \/ Finish(i, w)
  <2>1. j.at \in {"lock", "fetch", "idle", "begin"}
    BY <1>4, <1>s, <1>r DEF Record, Decide, Settle, Finish, Stages
  <2> QED
    BY <2>1 DEF Read
<1>5. CASE SkipUpstream(i, w) \/ Save(i, w) \/ JoinedSave(i, w)
  <2>1. Goto(i, w, "compare") /\ (Console \/ job[i][w].at \in Reading)
    BY <1>5 DEF SkipUpstream, Save, JoinedSave, Reading
  <2> QED
    BY <2>1, <1>s DEF Stages
<1>6. CASE Acquire(i, w)
  <2>1. (UNCHANGED job /\ job[i][w].at = "fetch") \/ Defer(i, w, "retry")
    BY <1>6 DEF Acquire
  <2> QED
    BY <2>1, <1>t DEF Read
<1>7. CASE Fetch(i, w)
  <2>1. j = [job[i][w] EXCEPT !.at = "save", !.read = used]
    BY <1>1, <1>7 DEF Fetch
  <2> QED
    BY <1>1, <1>7, <2>1 DEF Job, Read
<1>8. CASE Join(i, w)
  <2>1. j = [job[i][w] EXCEPT !.at = "join", !.read = outside[i]["mode"]]
    BY <1>1, <1>8 DEF Join
  <2> QED
    BY <1>1, <1>8, <2>1 DEF Job, Read
<1>9. CASE Compare(i, w)
  <2>1. \E g, b : j = [job[i][w] EXCEPT !.at = "decide", !.gen = g, !.dirty = b]
    BY <1>1, <1>9 DEF Compare
  <2>2. j.at = "decide" /\ j.sg = job[i][w].sg /\ job[i][w].at = "compare"
    BY <1>1, <1>9, <2>1 DEF Job, Compare
  <2> QED
    BY <2>2 DEF Read
<1>10. CASE Trailing(i, w)
  <2>1. Trail(i, w) \/ Goto(i, w, "clear") \/ Goto(i, w, "finish")
    BY <1>10 DEF Trailing
  <2>2. job[i][w].at = "decide"
    BY <1>10 DEF Trailing
  <2> QED
    BY <1>s, <1>t, <2>1, <2>2 DEF Read, Stages
<1>11. CASE ClearDirty(i, w) \/ Fail(i, w)
  <2>1. Trail(i, w) \/ Defer(i, w, "retry") \/ Goto(i, w, "finish")
    BY <1>11 DEF ClearDirty, Fail
  <2> QED
    BY <1>s, <1>t, <2>1 DEF Read, Stages
<1> QED
  BY <1>2, <1>3, <1>4, <1>5, <1>6, <1>7, <1>8, <1>9, <1>10, <1>11 DEF FlightStep

----------------------------------------------------------------------------
(* The lock: what a flight that holds it read is the newest.               *)

\* A step of a flight that does not leave it before its save, and takes the lock from nobody.
LEMMA ReadsKept ==
    ASSUME TypeOK, Reads, NEW i \in Instances, NEW w \in Workers,
           \A k \in Instances, v \in Workers : k # i \/ v # w => job'[k][v] = job[k][v],
           job'[i][w].at # "save", UNCHANGED <<saved, used>>,
           UNCHANGED lock \/ lock = None \/ Holds(i, w)
    PROVE  Reads'
<1> SUFFICES ASSUME NEW k \in Instances, NEW v \in Workers, job'[k][v].at = "save"
             PROVE  lock' = <<k, v>> /\ job'[k][v].read \in saved' .. used'
  BY DEF Reads, ReadFits, Holds
<1>1. job'[k][v] = job[k][v] /\ (k # i \/ v # w)
  OBVIOUS
<1>2. lock = <<k, v>> /\ job[k][v].read \in saved .. used
  BY <1>1 DEF Reads, ReadFits, Holds
<1>3. lock # None /\ ~ Holds(i, w)
  BY <1>1, <1>2, RefreshAssumption DEF Holds
<1> QED
  BY <1>1, <1>2, <1>3

LEMMA FlightReads ==
    ASSUME TypeOK, Reads, NEW i \in Instances, NEW w \in Workers, Running(i), ~ Queued(i),
           FlightStep(i, w) \/ Fail(i, w), UNCHANGED deployment
    PROVE  /\ Reads'
           /\ saved' \in 0 .. MaxSignals /\ saved' >= saved
           /\ lock' \in Instances \X Workers \cup {None, Orphan}
<1>1. PICK j \in Job : Sets(i, w, j)
  BY FlightShape DEF Flies
<1>2. /\ job'[i][w] = j
      /\ \A k \in Instances, v \in Workers : k # i \/ v # w => job'[k][v] = job[k][v]
  BY <1>1, GotoType
<1>3. /\ job[i][w] \in Job /\ used \in 0 .. MaxSignals /\ saved \in 0 .. MaxSignals
      /\ lock \in Instances \X Workers \cup {None, Orphan} /\ saved <= used
      /\ job \in [Instances -> [Workers -> Job]]
  BY DEF TypeOK, Reads
<1>u. UNCHANGED used
  BY FlightShape DEF Flies
<1>4. CASE Fetch(i, w)
  <2>0. job'[i][w] = [job[i][w] EXCEPT !.at = "save", !.read = used]
    BY <1>3, <1>4 DEF Fetch
  <2>1. j.at = "save" /\ j.read = used /\ UNCHANGED <<saved, lock>> /\ Holds(i, w)
    <3>1. j = [job[i][w] EXCEPT !.at = "save", !.read = used]
      BY <1>2, <2>0
    <3>2. j.at = "save" /\ j.read = used
      BY <1>3, <3>1 DEF Job
    <3> QED
      BY <1>4, <3>2 DEF Fetch, aside, history
  <2> SUFFICES ASSUME NEW k \in Instances, NEW v \in Workers, job'[k][v].at = "save"
               PROVE  lock' = <<k, v>> /\ job'[k][v].read \in saved' .. used'
    BY <1>3, <1>u, <2>1 DEF Reads, ReadFits, Holds
  <2>2. CASE k = i /\ v = w
    BY <1>2, <1>3, <1>u, <2>1, <2>2 DEF Holds
  <2>3. CASE k # i \/ v # w
    BY <1>2, <1>u, <2>1, <2>3 DEF Reads, ReadFits, Holds
  <2> QED
    BY <2>2, <2>3
<1>5. CASE Save(i, w)
  <2>1. /\ job[i][w].at = "save" /\ saved' = job[i][w].read /\ j.at = "compare"
        /\ lock' = IF Holds(i, w) THEN None ELSE lock
    <3>1. job'[i][w] = [job[i][w] EXCEPT !.at = "compare"]
      BY <1>3, <1>5 DEF Save, Goto
    <3> QED
      BY <1>2, <1>3, <1>5, <3>1 DEF Save, Freed, Job
  <2>2. Holds(i, w) /\ job[i][w].read \in saved .. used
    BY <2>1 DEF Reads, ReadFits
  <2>3. \A k \in Instances, v \in Workers : job'[k][v].at # "save"
    BY <1>2, <2>1, <2>2 DEF Reads, ReadFits, Holds
  <2> QED
    <3>1. Reads'
      BY <1>u, <2>1, <2>2, <2>3 DEF Reads, ReadFits
    <3>2. saved' \in 0 .. MaxSignals /\ saved' >= saved
      BY <1>3, <2>1, <2>2, DeploymentType
    <3> QED
      BY <1>3, <2>1, <3>1, <3>2
<1>6. CASE ~ Fetch(i, w) /\ ~ Save(i, w)
  <2>1. UNCHANGED saved
    BY <1>6 DEF FlightStep, Fail, Begin, Publish, Record, Check, Adopt, Settle, SkipUpstream, Decide,
           Acquire, Join, JoinedSave, Compare, Trailing, ClearDirty, Finish, Freed, aside, history
  <2>2. \/ UNCHANGED lock
        \/ lock = None /\ lock' = <<i, w>>
        \/ Holds(i, w) /\ lock' = None
    BY <1>6 DEF FlightStep, Fail, Begin, Publish, Record, Check, Adopt, Settle, SkipUpstream, Decide,
           Acquire, Join, JoinedSave, Compare, Trailing, ClearDirty, Finish, Freed, aside, history
  <2>3. j.at # "save"
    BY <1>2, <1>6, FlightStages
  <2>4. Reads'
    BY <1>2, <1>u, <2>1, <2>2, <2>3, ReadsKept
  <2> QED
    BY <1>3, <2>1, <2>2, <2>4
<1> QED
  BY <1>4, <1>5, <1>6

----------------------------------------------------------------------------
(* The generations: what the coordinator's mark stands for.                *)

\* A step of a flight keeps them when it keeps them for its own flight and instance.
LEMMA GenerationsKept ==
    ASSUME TypeOK, Reads, Generations, UNCHANGED <<deployment, listed>>,
           NEW i \in Instances, NEW w \in Workers,
           \A k \in Instances, v \in Workers : k # i \/ v # w => job'[k][v] = job[k][v],
           \A k \in Instances : k # i => local'[k] = local[k],
           used' = used, window' \in Nat, missed' \in Nat, missed' >= missed,
           coord' \in Entry, coord'.gen >= coord.gen,
           coord'.gen = coord.gen => coord'.covers = coord.covers,
           Marks => coord'.covers <= used,
           Marks /\ Accounts(window) /\ (\E k \in Instances, v \in Workers : Past(k, v))
              /\ coord'.gen = coord.gen => Accounts(window)',
           Marks /\ Past(i, w)' /\ coord'.gen = coord.gen => Past(i, w) \/ Holds(i, w),
           Marks => /\ local'[i] # None => local'[i].shared <= coord'.gen
                    /\ FlightFits(i, w)'
                    /\ job'[i][w].at = "save" => Accounts(job[i][w].read)',
           Marks /\ job'[i][w].at \in {"join", "compare", "decide", "clear"} => job'[i][w].sg <= coord.gen
    PROVE  Generations'
<1>1. Marks' <=> Marks
  BY DEF Marks, Console
<1> SUFFICES ASSUME Marks
             PROVE  /\ \A k \in Instances : Behind(k)'
                    /\ \A k \in Instances, v \in Workers : FlightFits(k, v)' /\ SaverFits(k, v)'
  BY <1>1 DEF Generations
<1>2. /\ coord \in Entry /\ coord.gen \in Nat /\ coord'.gen \in Nat /\ window \in Nat /\ missed \in Nat
      /\ coord.covers \in Nat
  BY DeploymentType DEF TypeOK, Entry
<1>3. ASSUME NEW k \in Instances PROVE Behind(k)'
  <2>1. Behind(k) /\ listed[k] \in Nat /\ (local[k] # None => local[k].shared \in Nat)
    BY DEF Generations, TypeOK, State
  <2>2. CASE k = i
    BY <1>2, <2>1, <2>2 DEF Behind
  <2>3. CASE k # i
    BY <1>2, <2>1, <2>3 DEF Behind
  <2> QED
    BY <2>2, <2>3
<1>a. ASSUME NEW n \in Nat, Accounts(n), coord'.gen = coord.gen
      PROVE  n >= coord'.covers \/ missed' >= coord'.covers
  BY <1>2, <1>a DEF Accounts
<1>4. ASSUME NEW k \in Instances, NEW v \in Workers, k # i \/ v # w PROVE FlightFits(k, v)'
  <2>1. FlightFits(k, v) /\ job[k][v] \in Job /\ job'[k][v] = job[k][v]
    BY <1>4 DEF Generations, TypeOK
  <2>2. job[k][v].sg \in Nat /\ job[k][v].gen \in Nat /\ job[k][v].read \in Nat
    BY <1>2, <2>1, DeploymentType DEF Job
  <2>3. CASE job[k][v].sg # coord'.gen
    BY <1>2, <2>1, <2>2, <2>3 DEF FlightFits
  <2>4. CASE job[k][v].sg = coord'.gen
    <3>1. coord'.gen = coord.gen
      BY <1>2, <2>1, <2>2, <2>4 DEF FlightFits
    <3>2. job[k][v].at \in {"save", "join"} => Accounts(job[k][v].read)'
      BY <1>a, <2>1, <2>2, <2>4, <3>1 DEF FlightFits, Accounts
    <3>3. job[k][v].at \in {"compare", "decide", "clear"} => Accounts(window)'
      BY <2>1, <2>4, <3>1 DEF FlightFits, Past
    <3> QED
      BY <1>2, <2>1, <2>2, <3>1, <3>2, <3>3 DEF FlightFits, Accounts
  <2> QED
    BY <2>3, <2>4
<1>5. ASSUME NEW k \in Instances, NEW v \in Workers, k # i \/ v # w PROVE SaverFits(k, v)'
  <2> SUFFICES ASSUME job'[k][v].at = "save", NEW k2 \in Instances, NEW v2 \in Workers, Past(k2, v2)'
               PROVE  Accounts(job[k][v].read)'
    BY DEF SaverFits
  <2>1. job'[k][v] = job[k][v] /\ job[k][v] \in Job /\ job[k][v].read \in Nat
    BY <1>5, DeploymentType DEF TypeOK, Job
  <2>2. lock = <<k, v>>
    BY <2>1 DEF Reads, ReadFits, Holds
  <2>3. ~ Holds(i, w)
    BY <1>5, <2>2 DEF Holds
  <2>4. coord'.gen = coord.gen /\ Past(k2, v2)
    <3>1. CASE k2 = i /\ v2 = w
      <4>1. coord'.gen = coord.gen
        BY <1>2, <3>1 DEF Past
      <4> QED
        BY <2>3, <3>1, <4>1
    <3>2. CASE k2 # i \/ v2 # w
      <4>1. job'[k2][v2] = job[k2][v2] /\ FlightFits(k2, v2) /\ job[k2][v2].sg \in Nat
        BY <3>2 DEF Generations, TypeOK, Job
      <4> QED
        BY <1>2, <4>1 DEF Past, FlightFits
    <3> QED
      BY <3>1, <3>2
  <2>5. Accounts(job[k][v].read)
    BY <2>1, <2>4 DEF Generations, SaverFits
  <2> QED
    BY <1>a, <2>1, <2>4, <2>5 DEF Accounts
<1>6. SaverFits(i, w)'
  BY DEF SaverFits, Accounts
<1> QED
  BY <1>3, <1>4, <1>5, <1>6

\* What a step of a flight does to the coordinator's entry.
LEMMA FlightCoord ==
    ASSUME TypeOK, NEW i \in Instances, NEW w \in Workers, FlightStep(i, w) \/ Fail(i, w)
    PROVE  /\ \/ coord' = coord
              \/ coord' = Marked /\ job[i][w].at = "publish"
              \/ coord' = Cleared /\ job[i][w].at = "clear" /\ Clears(i, w)
           /\ coord' \in Entry
           /\ coord'.gen >= coord.gen
           /\ coord'.gen = coord.gen => coord'.covers = coord.covers
           /\ coord'.covers \in {coord.covers, used}
<1>1. coord \in Entry /\ used \in 0 .. MaxSignals
  BY DEF TypeOK
<1>2. \/ coord' = coord
      \/ coord' = Marked /\ job[i][w].at = "publish"
      \/ coord' = Cleared /\ job[i][w].at = "clear" /\ Clears(i, w)
  BY DEF FlightStep, Fail, Begin, Publish, Record, Check, Adopt, Settle, SkipUpstream, Decide, Acquire,
         Fetch, Save, Join, JoinedSave, Compare, Trailing, ClearDirty, Finish
<1>3. Marked \in Entry /\ Marked.gen = coord.gen + 1 /\ Marked.covers = used
  BY <1>1 DEF Marked, Entry
<1>4. Cleared \in Entry /\ Cleared.gen = coord.gen /\ Cleared.covers = coord.covers
  BY <1>1 DEF Cleared, Entry
<1>5. coord.gen \in Nat
  BY <1>1 DEF Entry
<1> QED
  BY <1>1, <1>2, <1>3, <1>4, <1>5

\* An unlocked refresh that saves an older snapshot is remembered in missed.
LEMMA SavedOutside ==
    ASSUME TypeOK, Snapshots, NEW i \in Instances, NEW k \in FlightKeys, SavesOutside(i, k)
    PROVE  /\ window' \in 0 .. MaxSignals /\ missed' \in 0 .. MaxSignals
           /\ window' <= used /\ missed' <= used /\ missed' >= missed
           /\ outside' \in [Instances -> [FlightKeys -> 0 .. MaxSignals \cup {None}]]
           /\ outside'[i][k] = None
           /\ \A h \in Instances, l \in FlightKeys :
                 h # i \/ l # k => outside'[h][l] = outside[h][l]
           /\ \A c \in Nat : window >= c \/ missed >= c => window' >= c \/ missed' >= c
<1>1. /\ outside \in [Instances -> [FlightKeys -> 0 .. MaxSignals \cup {None}]]
      /\ window \in 0 .. MaxSignals /\ missed \in 0 .. MaxSignals /\ used \in 0 .. MaxSignals
      /\ MaxSignals \in Nat
  BY DeploymentType DEF TypeOK
<1>2. outside[i][k] \in 0 .. MaxSignals /\ outside[i][k] <= used /\ window' = outside[i][k]
  BY <1>1 DEF SavesOutside, Snapshots
<1>3. window <= used /\ missed <= used
  BY DEF Snapshots
<1>4. missed' \in {missed, window} /\ missed' >= missed /\ (window' < window => missed' >= window)
  BY <1>1, <1>2 DEF SavesOutside
<1>5. outside' = [outside EXCEPT ![i][k] = None]
  BY DEF SavesOutside
<1>6. \A c \in Nat : window >= c \/ missed >= c => window' >= c \/ missed' >= c
  BY <1>1, <1>2, <1>4
<1> QED
  BY <1>1, <1>2, <1>3, <1>4, <1>5, <1>6

\* What a step of a flight does to the windows and to what is read without the lock.
LEMMA FlightSnapshots ==
    ASSUME TypeOK, Snapshots, Reads, NEW i \in Instances, NEW w \in Workers,
           \A v \in Workers : Busy(i, v) => v = w, Running(i), ~ Queued(i),
           FlightStep(i, w) \/ Fail(i, w), UNCHANGED deployment
    PROVE  /\ Snapshots'
           /\ window' \in 0 .. MaxSignals /\ missed' \in 0 .. MaxSignals /\ missed' >= missed
           /\ outside' \in [Instances -> [FlightKeys -> 0 .. MaxSignals \cup {None}]]
<1>1. PICK j \in Job : Sets(i, w, j)
  BY FlightShape DEF Flies
<1>2. /\ job'[i][w] = j
      /\ \A k \in Instances, v \in Workers : k # i \/ v # w => job'[k][v] = job[k][v]
  BY <1>1, GotoType
<1>3. /\ outside \in [Instances -> [FlightKeys -> 0 .. MaxSignals \cup {None}]]
      /\ window \in 0 .. MaxSignals /\ missed \in 0 .. MaxSignals /\ used \in 0 .. MaxSignals
      /\ MaxSignals \in Nat /\ job \in [Instances -> [Workers -> Job]] /\ job[i][w] \in Job
      /\ "mode" \in FlightKeys
  BY DeploymentType DEF TypeOK, FlightKeys
<1>u. UNCHANGED used
  BY FlightShape DEF Flies
<1>4. \A v \in Workers : v # w => job'[i][v].at = "idle"
  BY <1>2, FlightBusy DEF Busy
<1>5. ASSUME j.at # "join", UNCHANGED <<outside, missed>>, window' \in {window, job[i][w].read},
             window' = window \/ job[i][w].at = "save"
      PROVE  Snapshots' /\ window' \in 0 .. MaxSignals
  <2>1. window' \in 0 .. MaxSignals /\ window' <= used
    BY <1>3, <1>5 DEF Snapshots, Reads, ReadFits, Job
  <2>2. ASSUME NEW k \in Instances, NEW v \in Workers PROVE JoinFits(k, v)'
    BY <1>2, <1>5 DEF Snapshots, JoinFits
  <2> QED
    BY <1>5, <1>u, <2>1, <2>2 DEF Snapshots
<1>6. CASE JoinedSave(i, w)
  <2>1. SavesOutside(i, "mode") /\ Goto(i, w, "compare")
    BY <1>6 DEF JoinedSave
  <2>2. j.at = "compare"
    <3>1. job'[i][w] = [job[i][w] EXCEPT !.at = "compare"]
      BY <1>3, <2>1 DEF Goto
    <3> QED
      BY <1>2, <1>3, <3>1 DEF Job
  <2>3. ASSUME NEW k \in Instances, NEW v \in Workers PROVE JoinFits(k, v)'
    <3>1. CASE k = i
      BY <1>2, <1>4, <2>2, <3>1 DEF JoinFits
    <3>2. CASE k # i
      <4>1. job'[k][v] = job[k][v] /\ outside'[k]["mode"] = outside[k]["mode"]
        BY <1>2, <1>3, <2>1, <3>2, SavedOutside
      <4> QED
        BY <4>1 DEF Snapshots, JoinFits
    <3> QED
      BY <3>1, <3>2
  <2>5. window' \in 0 .. MaxSignals /\ missed' \in 0 .. MaxSignals /\ missed' >= missed
        /\ window' <= used /\ missed' <= used
        /\ outside' \in [Instances -> [FlightKeys -> 0 .. MaxSignals \cup {None}]]
    BY <1>3, <2>1, SavedOutside
  <2>4. \A k \in Instances, l \in FlightKeys : outside'[k][l] # None => outside'[k][l] <= used
    <3> SUFFICES ASSUME NEW k \in Instances, NEW l \in FlightKeys, outside'[k][l] # None
                 PROVE  outside'[k][l] <= used
      OBVIOUS
    <3>1. outside'[k][l] = outside[k][l]
      BY <1>3, <2>1, SavedOutside
    <3> QED
      BY <3>1 DEF Snapshots
  <2> QED
    BY <1>u, <2>3, <2>4, <2>5 DEF Snapshots
<1>7. CASE Join(i, w)
  <2>1. /\ job'[i][w] = [job[i][w] EXCEPT !.at = "join", !.read = outside[i]["mode"]]
        /\ missed' \in {missed, used} /\ UNCHANGED <<window, outside>> /\ missed <= used
    BY <1>3, <1>7 DEF Join, Snapshots
  <2>2. job'[i][w].read = outside[i]["mode"]
    BY <1>3, <2>1 DEF Job
  <2>3. ASSUME NEW k \in Instances, NEW v \in Workers PROVE JoinFits(k, v)'
    <3>1. UNCHANGED outside
      BY <2>1
    <3>2. CASE k = i /\ v = w
      BY <2>2, <3>1, <3>2 DEF JoinFits
    <3>3. CASE k # i \/ v # w
      <4>1. job'[k][v] = job[k][v]
        BY <1>2, <3>3
      <4> QED
        BY <3>1, <4>1 DEF Snapshots, JoinFits
    <3> QED
      BY <3>2, <3>3
  <2>4. missed' \in 0 .. MaxSignals /\ missed' <= used /\ missed' >= missed
    BY <1>3, <2>1
  <2>5. \A k \in Instances, l \in FlightKeys : outside'[k][l] # None => outside'[k][l] <= used
    BY <2>1 DEF Snapshots
  <2> QED
    BY <1>3, <1>u, <2>1, <2>3, <2>4, <2>5 DEF Snapshots
<1>8. CASE Fail(i, w)
  <2>1. UNCHANGED <<window, missed>>
    BY <1>8 DEF Fail, history
  <2>2. j.at # "join"
    <3>1. Defer(i, w, "retry") \/ Trail(i, w)
      BY <1>8 DEF Fail
    <3>2. job' = [job EXCEPT ![i][w] = NoJob] \/ job' = [job EXCEPT ![i][w].at = "begin"]
      BY <3>1 DEF Defer, Trail, Return, Goto
    <3>3. j = NoJob \/ j = [job[i][w] EXCEPT !.at = "begin"]
      BY <1>2, <1>3, <3>2
    <3> QED
      BY <1>3, <3>3, Records DEF Job
  <2>3. CASE UNCHANGED outside
    BY <1>3, <1>5, <2>1, <2>2, <2>3
  <2>4. CASE outside' = [outside EXCEPT ![i]["mode"] = None]
    <3>1. /\ outside' \in [Instances -> [FlightKeys -> 0 .. MaxSignals \cup {None}]]
          /\ \A k \in Instances, l \in FlightKeys : outside'[k][l] \in {outside[k][l], None}
          /\ \A k \in Instances : k # i => outside'[k] = outside[k]
      BY <1>3, <2>4
    <3>2. ASSUME NEW k \in Instances, NEW v \in Workers PROVE JoinFits(k, v)'
      BY <1>2, <1>4, <2>2, <3>1 DEF Snapshots, JoinFits
    <3> QED
      BY <1>3, <1>u, <2>1, <3>1, <3>2 DEF Snapshots
  <2> QED
    BY <1>8, <2>3, <2>4 DEF Fail
<1>9. CASE ~ JoinedSave(i, w) /\ ~ Join(i, w) /\ ~ Fail(i, w)
  <2>1. /\ UNCHANGED <<outside, missed>>
        /\ window' = window \/ (job[i][w].at = "save" /\ window' = job[i][w].read)
    BY <1>9 DEF FlightStep, Begin, Publish, Record, Check, Adopt, Settle, SkipUpstream, Decide,
           Acquire, Fetch, Save, Compare, Trailing, ClearDirty, Finish, aside, history
  <2>2. j.at # "join"
    BY <1>2, <1>9, FlightStages
  <2> QED
    BY <1>3, <1>5, <2>1, <2>2
<1> QED
  BY <1>3, <1>6, <1>7, <1>8, <1>9, SavedOutside DEF Join, Fail, FlightKeys

LEMMA FlightGenerations ==
    ASSUME TypeOK, Reads, Snapshots, Generations, NEW i \in Instances, NEW w \in Workers, Running(i),
           ~ Queued(i), \A v \in Workers : Busy(i, v) => v = w,
           FlightStep(i, w) \/ Fail(i, w), UNCHANGED deployment
    PROVE  Generations'
<1>1. PICK j \in Job : Sets(i, w, j)
  BY FlightShape DEF Flies
<1>2. /\ job'[i][w] = j
      /\ \A k \in Instances, v \in Workers : k # i \/ v # w => job'[k][v] = job[k][v]
  BY <1>1, GotoType
<1>3. \A k \in Instances : k # i => local'[k] = local[k]
  BY FlightShape DEF Flies, EntryAfter, TypeOK
<1>4. UNCHANGED <<used, listed>> /\ window' \in Nat /\ missed' \in Nat /\ missed' >= missed
  BY FlightShape, FlightSnapshots, DeploymentType DEF Flies
<1>5. /\ coord' \in Entry /\ coord'.gen >= coord.gen /\ coord'.gen \in Nat
      /\ coord'.gen = coord.gen => coord'.covers = coord.covers
      /\ coord'.covers \in {coord.covers, used}
  BY FlightCoord DEF Entry
<1> SUFFICES ASSUME Marks
             PROVE  (local'[i] # None => local'[i].shared <= coord'.gen) /\ FlightFits(i, w)'
  <2>1. used \in Nat /\ coord.covers \in Nat /\ window \in Nat /\ missed \in Nat
    BY DeploymentType DEF TypeOK, Entry
  <2>2. Marks => coord'.covers <= used
    BY <1>5, <2>1 DEF Generations
  <2>3. ASSUME Marks, Accounts(window), NEW k \in Instances, NEW v \in Workers, Past(k, v),
               coord'.gen = coord.gen
        PROVE  Accounts(window)'
    <3>1. coord'.covers = coord.covers
      BY <1>5, <2>3
    <3>2. CASE Save(i, w)
      <4>1. SaverFits(i, w) /\ job[i][w].at = "save" /\ window' = job[i][w].read
        BY <2>3, <3>2 DEF Save, Generations
      <4>2. job[i][w].read \in Nat
        BY DeploymentType DEF TypeOK, Job
      <4> QED
        BY <1>4, <2>1, <2>3, <3>1, <4>1, <4>2 DEF SaverFits, Accounts
    <3>3. CASE JoinedSave(i, w)
      <4>1. \A c \in Nat : window >= c \/ missed >= c => window' >= c \/ missed' >= c
        BY <3>3, SavedOutside DEF JoinedSave, FlightKeys
      <4> QED
        BY <2>1, <2>3, <3>1, <4>1 DEF Accounts
    <3>4. CASE UNCHANGED window
      BY <1>4, <2>1, <2>3, <3>1, <3>4 DEF Accounts
    <3> QED
      BY <3>2, <3>3, <3>4 DEF FlightStep, Fail, Begin, Publish, Record, Check, Adopt, Settle,
         SkipUpstream, Decide, Acquire, Fetch, Join, Compare, Trailing, ClearDirty, Finish, history, aside
  <2>4. ASSUME Marks, Past(i, w)', coord'.gen = coord.gen PROVE Past(i, w) \/ Holds(i, w)
    <3>1. CASE job'[i][w].at \in Read
      <4>1. job'[i][w].sg = job[i][w].sg /\ job[i][w].at \in Reading \cup Read
        BY <2>4, <3>1, FlightStages DEF Marks
      <4> QED
        BY <2>4, <4>1 DEF Past, Reading, Read, Reads, ReadFits
    <3>2. CASE job'[i][w].at = "join"
      BY <3>2, FlightStages DEF Join
    <3> QED
      BY <2>4, <3>1, <3>2 DEF Past, Read
  <2>5. Marks /\ job'[i][w].at \in {"join", "compare", "decide", "clear"} => job'[i][w].sg <= coord.gen
    <3> SUFFICES ASSUME job'[i][w].at \in {"join", "compare", "decide", "clear"}, Marks
                 PROVE  job'[i][w].sg <= coord.gen
      OBVIOUS
    <3>1. FlightFits(i, w)
      BY DEF Generations
    <3>2. job'[i][w].sg = job[i][w].sg
      <4>2. job \in [Instances -> [Workers -> Job]] /\ job[i][w] \in Job
        BY DEF TypeOK
      <4>1. Join(i, w) => job'[i][w] = [job[i][w] EXCEPT !.at = "join", !.read = outside[i]["mode"]]
        BY <4>2 DEF Join
      <4>3. Join(i, w) => job'[i][w].sg = job[i][w].sg
        <5>1. [job[i][w] EXCEPT !.at = "join", !.read = outside[i]["mode"]].sg = job[i][w].sg
          BY <4>2 DEF Job
        <5> QED
          BY <4>1, <5>1
      <4>4. /\ job'[i][w].at = "join" => Join(i, w)
            /\ job'[i][w].at \in Read => job'[i][w].sg = job[i][w].sg
        BY FlightStages
      <4> QED
        BY <4>3, <4>4 DEF Read
    <3> QED
      BY <3>1, <3>2 DEF FlightFits
  <2>6. ASSUME Marks, job'[i][w].at = "save" PROVE Accounts(job[i][w].read)'
    <3>1. Fetch(i, w)
      BY <2>6, FlightStages
    <3>2. job'[i][w] = [job[i][w] EXCEPT !.at = "save", !.read = used]
      BY <3>1 DEF Fetch, TypeOK
    <3>3. job'[i][w].read = used
      BY <3>2 DEF TypeOK, Job
    <3> QED
      BY <2>1, <2>2, <2>6, <1>5, <3>3 DEF Accounts, Entry
  <2> QED
    BY <1>2, <1>3, <1>4, <1>5, <2>2, <2>3, <2>4, <2>5, <2>6, GenerationsKept
<1>6. /\ job \in [Instances -> [Workers -> Job]] /\ local \in [Instances -> State \cup {None}]
      /\ job[i][w] \in Job /\ coord \in Entry /\ local[i] # None
  BY DEF TypeOK, Running
<1>7. /\ job[i][w].sg \in Nat /\ job[i][w].gen \in Nat /\ coord.gen \in Nat /\ window \in Nat
      /\ coord.covers \in Nat /\ used \in Nat /\ local[i].shared \in Nat
  BY <1>6, DeploymentType DEF TypeOK, Job, Entry, State
<1>8. /\ job[i][w].sg <= coord.gen /\ job[i][w].gen <= coord.gen /\ local[i].shared <= coord.gen
      /\ coord.covers <= used /\ FlightFits(i, w)
  BY <1>6 DEF Generations, Behind, FlightFits
<1> DEFINE Unread == {"begin", "publish", "record", "check", "adopt", "settle", "lock", "fetch",
                      "finish", "idle"}
<1>l. ASSUME UNCHANGED local \/ local'[i] = None \/ local'[i].shared = local[i].shared
      PROVE  local'[i] # None => local'[i].shared <= coord'.gen
  BY <1>5, <1>7, <1>8, <1>l
<1>m. ASSUME coord' = coord PROVE \A n \in Nat : Accounts(n) => n >= coord'.covers \/ missed' >= coord'.covers
  <2>1. missed \in Nat
    BY DeploymentType DEF TypeOK
  <2> QED
    BY <1>4, <1>7, <1>m, <2>1 DEF Accounts
<1>n. ASSUME j.at \in Unread, j.sg <= coord'.gen, j.gen <= coord'.gen
      PROVE  FlightFits(i, w)'
  BY <1>2, <1>n DEF FlightFits
<1>r. ASSUME Return(i, w) PROVE FlightFits(i, w)'
  <2>1. j = NoJob
    BY <1>2, <1>6, <1>r DEF Return
  <2> QED
    BY <1>5, <1>n, <2>1, Records
<1>g. ASSUME NEW s, Goto(i, w, s) PROVE j.at = s /\ j.sg = job[i][w].sg /\ j.gen = job[i][w].gen
  <2>1. job'[i][w] = [job[i][w] EXCEPT !.at = s]
    BY <1>6, <1>g DEF Goto
  <2> QED
    BY <1>2, <1>6, <2>1 DEF Job
<1>h. ASSUME NEW s \in Unread, Goto(i, w, s) PROVE FlightFits(i, w)'
  BY <1>5, <1>7, <1>8, <1>g, <1>h, <1>n
<1>d. ASSUME NEW r, Defer(i, w, r)
      PROVE  (local'[i] # None => local'[i].shared <= coord'.gen) /\ FlightFits(i, w)'
  <2>1. local'[i] = [local[i] EXCEPT !.running = FALSE, !.pending = TRUE, !.wait = r]
    BY <1>6, <1>d DEF Defer
  <2>2. local'[i].shared = local[i].shared
    BY <1>6, <2>1 DEF State
  <2> QED
    BY <1>d, <1>l, <1>r, <2>2 DEF Defer
<1>t. ASSUME Trail(i, w)
      PROVE  (local'[i] # None => local'[i].shared <= coord'.gen) /\ FlightFits(i, w)'
  BY <1>d, <1>h, <1>l, <1>t DEF Trail
<1>9. CASE Begin(i, w)
  <2>1. PICK st \in {"publish", "check", "lock"} : job'[i][w] =
           [NoJob EXCEPT !.at = st, !.lg = local[i].generation, !.sg = local[i].shared]
    <3> DEFINE st == IF Coordinated /\ local[i].published < local[i].generation THEN "publish"
                     ELSE IF Coordinated /\ local[i].shared > 0 THEN "check" ELSE "lock"
    <3>1. st \in {"publish", "check", "lock"}
      OBVIOUS
    <3>2. job'[i][w] = [NoJob EXCEPT !.at = st, !.lg = local[i].generation, !.sg = local[i].shared]
      BY <1>6, <1>9 DEF Begin
    <3> HIDE DEF st
    <3> QED
      BY <3>1, <3>2
  <2>2. j.at = st /\ j.sg = local[i].shared /\ j.gen = 0
    BY <1>2, <2>1 DEF NoJob
  <2>3. coord' = coord /\ local'[i] = [local[i] EXCEPT !.pending = FALSE]
    BY <1>6, <1>9 DEF Begin
  <2>4. local'[i].shared = local[i].shared
    BY <1>6, <2>3 DEF State
  <2> QED
    BY <1>7, <1>8, <1>l, <1>n, <2>2, <2>3, <2>4
<1>10. CASE Publish(i, w)
  <2>1. job'[i][w] = [job[i][w] EXCEPT !.at = "record", !.sg = coord.gen + 1]
    BY <1>6, <1>10 DEF Publish
  <2>2. j.at = "record" /\ j.sg = coord.gen + 1 /\ j.gen = job[i][w].gen
    BY <1>2, <1>6, <2>1 DEF Job
  <2>3. coord'.gen = coord.gen + 1 /\ UNCHANGED local
    BY <1>10 DEF Publish, Marked
  <2> QED
    BY <1>7, <1>8, <1>l, <1>n, <2>2, <2>3
<1>11. CASE Record(i, w)
  <2>1. coord' = coord /\ Goto(i, w, "lock")
    BY <1>11 DEF Record
  <2>2. UNCHANGED local
          \/ local'[i] = [local[i] EXCEPT !.published = job[i][w].lg, !.shared = job[i][w].sg]
    BY <1>6, <1>11 DEF Record
  <2>3. UNCHANGED local \/ local'[i].shared = job[i][w].sg
    BY <1>6, <2>2 DEF State
  <2> QED
    BY <1>8, <1>h, <1>l, <2>1, <2>3
<1>12. CASE Check(i, w)
  <2>1. PICK st \in {"adopt", "settle", "lock"} : job'[i][w] =
           [job[i][w] EXCEPT !.at = st, !.gen = coord.gen, !.dirty = coord.dirty]
    <3> DEFINE st == IF coord.gen > job[i][w].sg THEN "adopt"
                     ELSE IF ~ coord.dirty /\ coord.gen = job[i][w].sg THEN "settle" ELSE "lock"
    <3>1. st \in {"adopt", "settle", "lock"}
      OBVIOUS
    <3>2. job'[i][w] = [job[i][w] EXCEPT !.at = st, !.gen = coord.gen, !.dirty = coord.dirty]
      BY <1>6, <1>12 DEF Check
    <3> HIDE DEF st
    <3> QED
      BY <3>1, <3>2
  <2>2. j.at = st /\ j.sg = job[i][w].sg /\ j.gen = coord.gen
    BY <1>2, <1>6, <2>1 DEF Job
  <2>3. coord' = coord /\ UNCHANGED local
    BY <1>12 DEF Check
  <2> QED
    BY <1>7, <1>8, <1>l, <1>n, <2>2, <2>3
<1>13. CASE Adopt(i, w)
  <2>1. PICK st \in {"settle", "lock"} :
           job'[i][w] = [job[i][w] EXCEPT !.sg = job[i][w].gen, !.at = st]
    BY <1>6, <1>13 DEF Adopt
  <2>2. j.at = st /\ j.sg = job[i][w].gen /\ j.gen = job[i][w].gen
    BY <1>2, <1>6, <2>1 DEF Job
  <2>3. coord' = coord /\ local'[i] = [local[i] EXCEPT !.shared = job[i][w].gen]
    BY <1>6, <1>13 DEF Adopt
  <2>4. local'[i].shared = job[i][w].gen
    BY <1>6, <2>3 DEF State
  <2> QED
    BY <1>7, <1>8, <1>n, <2>2, <2>3, <2>4
<1>14. CASE Settle(i, w)
  <2>1. UNCHANGED local \/ local'[i] = None
    BY <1>6, <1>14 DEF Settle
  <2> QED
    BY <1>14, <1>l, <1>r, <2>1 DEF Settle
<1>15. CASE SkipUpstream(i, w) \/ Decide(i, w)
  BY <1>15, <1>h, <1>l DEF SkipUpstream, Decide, Marks
<1>16. CASE Acquire(i, w)
  <2>1. CASE Defer(i, w, "retry")
    BY <1>d, <2>1
  <2>2. CASE UNCHANGED <<local, job>>
    <3>1. coord' = coord /\ job'[i][w] = job[i][w] /\ job[i][w].at = "fetch"
      BY <1>16, <2>2 DEF Acquire
    <3> QED
      BY <1>8, <1>l, <2>2, <3>1 DEF FlightFits
  <2> QED
    BY <1>16, <2>1, <2>2 DEF Acquire
<1>17. CASE Fetch(i, w)
  <2>1. job'[i][w] = [job[i][w] EXCEPT !.at = "save", !.read = used]
    BY <1>6, <1>17 DEF Fetch
  <2>2. j.at = "save" /\ j.sg = job[i][w].sg /\ j.gen = job[i][w].gen /\ j.read = used
    BY <1>2, <1>6, <2>1 DEF Job
  <2>3. coord' = coord /\ UNCHANGED local
    BY <1>17 DEF Fetch
  <2> QED
    BY <1>2, <1>7, <1>8, <1>l, <2>2, <2>3 DEF FlightFits, Accounts
<1>18. CASE Save(i, w) \/ JoinedSave(i, w)
  <2>1. coord' = coord /\ UNCHANGED local /\ window' = job[i][w].read /\ Goto(i, w, "compare")
        /\ job[i][w].at \in {"save", "join"}
    BY <1>18 DEF Save, JoinedSave, SavesOutside, Snapshots, JoinFits
  <2>2. j.at = "compare" /\ j.sg = job[i][w].sg /\ j.gen = job[i][w].gen
    BY <1>g, <2>1
  <2>3. Accounts(job[i][w].read) => Accounts(window)'
    <3>1. missed \in Nat /\ job[i][w].read \in Nat
      BY DeploymentType DEF TypeOK, Job
    <3> QED
      BY <1>4, <1>7, <2>1, <3>1 DEF Accounts
  <2> QED
    BY <1>2, <1>7, <1>8, <1>l, <2>1, <2>2, <2>3 DEF FlightFits
<1>24. CASE Join(i, w)
  <2>1. job'[i][w] = [job[i][w] EXCEPT !.at = "join", !.read = outside[i]["mode"]]
    BY <1>6, <1>24 DEF Join
  <2>2. j.at = "join" /\ j.sg = job[i][w].sg /\ j.gen = job[i][w].gen /\ j.read = outside[i]["mode"]
    BY <1>2, <1>6, <2>1 DEF Job
  <2>3. coord' = coord /\ UNCHANGED local
    BY <1>24 DEF Join
  <2>4. j.read \in Nat /\ missed \in Nat
    BY <1>2, DeploymentType DEF TypeOK, Job
  <2>5. j.read >= used \/ missed' >= used
    BY <1>7, <1>24, <2>2, <2>4 DEF Join
  <2>6. j.read >= coord.covers \/ missed' >= coord.covers
    BY <1>4, <1>7, <1>8, <2>4, <2>5
  <2> QED
    BY <1>2, <1>7, <1>8, <1>l, <2>2, <2>3, <2>6 DEF FlightFits, Accounts
<1>19. CASE Compare(i, w)
  <2>1. PICK g, b : /\ job'[i][w] = [job[i][w] EXCEPT !.at = "decide", !.gen = g, !.dirty = b]
                    /\ g \in {coord.gen, job[i][w].sg}
    BY <1>6, <1>19 DEF Compare
  <2>2. j.at = "decide" /\ j.sg = job[i][w].sg /\ j.gen = g
    BY <1>2, <1>6, <2>1 DEF Job
  <2>3. coord' = coord /\ UNCHANGED <<local, window>> /\ job[i][w].at = "compare"
    BY <1>19 DEF Compare
  <2> QED
    BY <1>2, <1>7, <1>8, <1>l, <1>m, <2>1, <2>2, <2>3 DEF FlightFits, Accounts
<1>20. CASE Trailing(i, w)
  <2>1. CASE Trail(i, w)
    BY <1>t, <2>1
  <2>2. CASE Goto(i, w, "finish") /\ UNCHANGED local
    BY <1>h, <1>l, <2>2
  <2>3. CASE Goto(i, w, "clear") /\ UNCHANGED local
    <3>1. j.at = "clear" /\ j.sg = job[i][w].sg /\ j.gen = job[i][w].gen
      BY <1>g, <2>3
    <3>2. coord' = coord /\ window' = window /\ job[i][w].at = "decide"
      BY <1>20 DEF Trailing
    <3> QED
      BY <1>2, <1>7, <1>8, <1>l, <1>m, <2>3, <3>1, <3>2 DEF FlightFits, Accounts
  <2> QED
    BY <1>20, <2>1, <2>2, <2>3 DEF Trailing
<1>21. CASE ClearDirty(i, w)
  <2>1. Trail(i, w) \/ (Goto(i, w, "finish") /\ UNCHANGED local)
    BY <1>21 DEF ClearDirty
  <2> QED
    BY <1>h, <1>l, <1>t, <2>1
<1>22. CASE Finish(i, w)
  <2>1. CASE Return(i, w)
    <3>1. local'[i] = None \/ local'[i].shared = local[i].shared
      <4>1. local'[i] = None \/ \E p : local'[i] =
               [local[i] EXCEPT !.running = FALSE, !.pending = p, !.wait = "interval"]
            \/ UNCHANGED local
        BY <1>6, <1>22 DEF Finish
      <4> QED
        BY <1>6, <4>1 DEF State
    <3> QED
      BY <1>l, <1>r, <2>1, <3>1
  <2>2. CASE Goto(i, w, "begin") /\ UNCHANGED local
    BY <1>h, <1>l, <2>2
  <2> QED
    BY <1>22, <2>1, <2>2 DEF Finish
<1>23. CASE Fail(i, w)
  <2>1. Trail(i, w) \/ Defer(i, w, "retry")
    BY <1>23 DEF Fail
  <2> QED
    BY <1>d, <1>t, <2>1
<1> QED
  BY <1>9, <1>10, <1>11, <1>12, <1>13, <1>14, <1>15, <1>16, <1>17, <1>18, <1>19, <1>20, <1>21, <1>22,
     <1>23, <1>24 DEF FlightStep

----------------------------------------------------------------------------
(* The steps.                                                              *)

LEMMA FlightInv ==
    ASSUME IInv, NEW i \in Instances, NEW w \in Workers, FlightStep(i, w) \/ Fail(i, w),
           UNCHANGED deployment
    PROVE  IInv'
<1>1. TypeOK /\ Entries /\ Reads /\ Snapshots /\ Generations
  BY DEF IInv
<1>2. /\ Busy(i, w) /\ Running(i) /\ ~ Queued(i)
      /\ \A v \in Workers : Busy(i, v) => v = w
  BY <1>1, FlightBusy DEF Entries, EntryFits
<1>3. Flies(i, w)
  BY <1>1, <1>2, FlightShape
<1>4. /\ job' \in [Instances -> [Workers -> Job]] /\ local' \in [Instances -> State \cup {None}]
      /\ Entries'
  BY <1>1, <1>2, <1>3, FlyingEntries
<1>5. /\ Reads' /\ saved' \in 0 .. MaxSignals
      /\ lock' \in Instances \X Workers \cup {None, Orphan}
  BY <1>1, <1>2, FlightReads
<1>s. /\ Snapshots' /\ window' \in 0 .. MaxSignals /\ missed' \in 0 .. MaxSignals
      /\ outside' \in [Instances -> [FlightKeys -> 0 .. MaxSignals \cup {None}]]
  BY <1>1, <1>2, FlightSnapshots
<1>6. Generations'
  BY <1>1, <1>2, FlightGenerations
<1>7. coord' \in Entry
  BY <1>1, FlightCoord
<1>8. recent' \in Instances \cup {None, Orphan}
  <2>1. recent' \in {recent, i}
    BY DEF FlightStep, Fail, Begin, Publish, Record, Check, Adopt, Settle, SkipUpstream, Decide, Acquire,
           Fetch, Save, Join, JoinedSave, Compare, Trailing, ClearDirty, Finish
  <2> QED
    BY <1>1, <2>1 DEF TypeOK
<1>9. faults' \in 0 .. MaxFaults
  <2>1. faults' = faults \/ (faults < deployment.faults /\ faults' = faults + 1)
    BY DEF FlightStep, Fail, Begin, Publish, Record, Check, Adopt, Settle, SkipUpstream, Decide, Acquire,
           Fetch, Save, Join, JoinedSave, Compare, Trailing, ClearDirty, Finish
  <2> QED
    BY <1>1, <2>1, DeploymentType DEF TypeOK
<1>10. TypeOK'
  BY <1>1, <1>3, <1>4, <1>5, <1>s, <1>7, <1>8, <1>9 DEF TypeOK, Flies
<1> QED
  BY <1>4, <1>5, <1>s, <1>6, <1>10 DEF IInv

\* A request is taken from the channel: by what OneFlight says, nobody runs the key.
LEMMA TakeInv ==
    ASSUME IInv, NEW i \in Instances, NEW w \in Workers, Take(i, w), UNCHANGED deployment
    PROVE  IInv'
<1>1. TypeOK /\ Entries /\ Reads /\ Snapshots /\ Generations /\ EntryFits(i) /\ Absent(i)
  BY DEF IInv, Entries
<1>2. /\ job \in [Instances -> [Workers -> Job]] /\ local \in [Instances -> State \cup {None}]
      /\ channel \in [Instances -> 0 .. 1] /\ job[i][w] \in Job
  BY <1>1 DEF TypeOK
<1>3. channel[i] = 1 /\ Queued(i) /\ ~ Running(i) /\ i \in deployment.instances
  BY <1>1, <1>2 DEF Take, EntryFits, Absent, Queued
<1>4. \A v \in Workers : ~ Busy(i, v)
  BY <1>1, <1>3 DEF EntryFits
<1> DEFINE j == [job[i][w] EXCEPT !.at = "begin"]
           s == [local[i] EXCEPT !.queued = FALSE, !.running = TRUE, !.pending = FALSE]
<1>5. j \in Job /\ Sets(i, w, j) /\ j.at = "begin" /\ j.sg = job[i][w].sg /\ j.gen = job[i][w].gen
  BY <1>2, <1>3 DEF Take, Running, Queued, Job, Stages, Sets
<1>6. s \in State /\ local' = [local EXCEPT ![i] = s] /\ ~ s.queued /\ s.running /\ s.shared = local[i].shared
  BY <1>2, <1>3 DEF Take, Running, Queued, State
<1>7. channel' = [channel EXCEPT ![i] = 0]
  BY <1>2, <1>3 DEF Take
<1>8. UNCHANGED <<used, window, listed, coord, lock, recent, faults, restarts, outside, saved, missed>>
  BY DEF Take, aside, history
<1> HIDE DEF j, s
<1>9. /\ job' \in [Instances -> [Workers -> Job]] /\ job'[i][w] = j
      /\ \A k \in Instances, v \in Workers : k # i \/ v # w => job'[k][v] = job[k][v]
  BY <1>1, <1>5, GotoType
<1>10. /\ local' \in [Instances -> State \cup {None}] /\ local'[i] = s /\ s # None
       /\ \A k \in Instances : k # i => local'[k] = local[k]
  BY <1>2, <1>6, Records
<1>11. TypeOK'
  <2>1. channel' \in [Instances -> 0 .. 1]
    BY <1>2, <1>7
  <2> QED
    BY <1>1, <1>8, <1>9, <1>10, <2>1 DEF TypeOK
<1>12. Entries'
  <2>1. EntryFits(i)'
    <3>1. ~ Queued(i)' /\ Running(i)' /\ channel'[i] = 0
      BY <1>2, <1>6, <1>7, <1>10 DEF Queued, Running
    <3>2. \A v \in Workers : Busy(i, v)' => v = w
      BY <1>4, <1>9 DEF Busy
    <3> QED
      BY <3>1, <3>2 DEF EntryFits
  <2>2. Absent(i)'
    BY <1>3 DEF Absent
  <2>3. ASSUME NEW k \in Instances, k # i PROVE EntryFits(k)' /\ Absent(k)'
    <3>1. EntryFits(k) /\ Absent(k) /\ local'[k] = local[k] /\ channel'[k] = channel[k]
      BY <1>1, <1>2, <1>7, <1>10, <2>3 DEF Entries
    <3>2. \A v \in Workers : job'[k][v] = job[k][v]
      BY <1>9, <2>3
    <3> QED
      BY <1>8, <3>1, <3>2 DEF EntryFits, Absent, Queued, Running, Busy
  <2> QED
    BY <2>1, <2>2, <2>3 DEF Entries
<1>13. Reads'
  BY <1>1, <1>5, <1>8, <1>9, ReadsKept
<1>15. Snapshots'
  BY <1>1, <1>5, <1>8, <1>9 DEF Snapshots, JoinFits
<1>14. Generations'
  <2>1. /\ coord \in Entry /\ coord.gen \in Nat /\ window \in Nat /\ used \in Nat /\ missed \in Nat
    BY <1>1, DeploymentType DEF TypeOK, Entry
  <2>2. ASSUME Marks
        PROVE  (local'[i] # None => local'[i].shared <= coord'.gen) /\ FlightFits(i, w)'
    <3>1. Behind(i) /\ FlightFits(i, w) /\ local[i] # None
      BY <1>1, <1>3, <2>2 DEF Generations, Queued
    <3>2. local[i].shared <= coord.gen
      BY <3>1 DEF Behind
    <3>3. FlightFits(i, w)'
      BY <1>5, <1>8, <1>9, <3>1 DEF FlightFits
    <3> QED
      BY <1>6, <1>8, <1>10, <3>2, <3>3
  <2>3. Marks => coord.covers <= used
    BY <1>1 DEF Generations
  <2>4. Accounts(window) => Accounts(window)'
    BY <1>8 DEF Accounts
  <2>5. ~ Past(i, w)' /\ job'[i][w].at = "begin"
    BY <1>5, <1>9 DEF Past
  <2> QED
    BY <1>1, <1>8, <1>9, <1>10, <2>1, <2>2, <2>3, <2>4, <2>5, GenerationsKept
<1> QED
  BY <1>11, <1>12, <1>13, <1>14, <1>15 DEF IInv

----------------------------------------------------------------------------
(* Steps that only change the entry of an instance, and its request.       *)

EntryMoves(i, sh) ==
    /\ local' \in [Instances -> State \cup {None}] /\ channel' \in [Instances -> 0 .. 1]
    /\ \A k \in Instances : k # i => local'[k] = local[k] /\ channel'[k] = channel[k]
    /\ channel'[i] = IF Queued(i)' THEN 1 ELSE 0
    /\ Running(i)' <=> Running(i)
    /\ ~ (Queued(i)' /\ Running(i)')
    /\ local'[i] # None => local'[i].shared = sh
    /\ faults' \in 0 .. MaxFaults

LEMMA EnqueueMoves ==
    ASSUME TypeOK, NEW i \in Instances, EntryFits(i), ~ Queued(i), ~ Running(i),
           NEW s \in State, ~ s.queued, ~ s.running, Enqueue(i, s)
    PROVE  EntryMoves(i, s.shared)
<1>1. /\ local \in [Instances -> State \cup {None}] /\ channel \in [Instances -> 0 .. 1]
      /\ channel[i] = 0 /\ faults \in 0 .. MaxFaults
  BY DEF TypeOK, EntryFits
<1>2. CASE local' = [local EXCEPT ![i] = s]
  <2>1. /\ local' \in [Instances -> State \cup {None}] /\ local'[i] = s
        /\ \A k \in Instances : k # i => local'[k] = local[k]
    BY <1>1, <1>2
  <2>2. ~ Queued(i)' /\ ~ Running(i)'
    BY <2>1 DEF Queued, Running
  <2>3. CASE UNCHANGED channel
    <3>1. faults' \in 0 .. MaxFaults
      BY <1>1, DeploymentType DEF Enqueue
    <3> QED
      BY <1>1, <2>1, <2>2, <2>3, <3>1 DEF EntryMoves
  <2>4. CASE ~ UNCHANGED channel
    <3>1. local' = [local EXCEPT ![i] = [s EXCEPT !.queued = TRUE]]
      BY <2>4 DEF Enqueue
    <3>2. local'[i] = [s EXCEPT !.queued = TRUE]
      BY <1>1, <3>1
    <3>3. local'[i].queued
      BY <3>2 DEF State
    <3> QED
      BY <2>1, <3>3
  <2> QED
    BY <2>3, <2>4
<1>3. CASE local' # [local EXCEPT ![i] = s]
  <2> DEFINE r == [s EXCEPT !.queued = TRUE]
  <2>1. local' = [local EXCEPT ![i] = r] /\ channel' = [channel EXCEPT ![i] = @ + 1] /\ UNCHANGED faults
    BY <1>3 DEF Enqueue
  <2>2. r \in State /\ r.queued /\ ~ r.running /\ r.shared = s.shared /\ r # None
    BY Records DEF State
  <2> HIDE DEF r
  <2>3. /\ local' \in [Instances -> State \cup {None}] /\ local'[i] = r
        /\ \A k \in Instances : k # i => local'[k] = local[k]
    BY <1>1, <2>1, <2>2
  <2>4. /\ channel' \in [Instances -> 0 .. 1] /\ channel'[i] = 1
        /\ \A k \in Instances : k # i => channel'[k] = channel[k]
    BY <1>1, <2>1
  <2>5. Queued(i)' /\ ~ Running(i)'
    BY <2>2, <2>3 DEF Queued, Running
  <2> QED
    BY <1>1, <2>1, <2>2, <2>3, <2>4, <2>5 DEF EntryMoves
<1> QED
  BY <1>2, <1>3

\* An entry whose flags stay.
LEMMA KeepMoves ==
    ASSUME TypeOK, NEW i \in Instances, EntryFits(i), NEW s \in State,
           s.queued <=> Queued(i), s.running <=> Running(i), Keep(i, s)
    PROVE  EntryMoves(i, s.shared)
<1>1. /\ local \in [Instances -> State \cup {None}] /\ channel \in [Instances -> 0 .. 1]
      /\ faults \in 0 .. MaxFaults
  BY DEF TypeOK
<1>2. local' = [local EXCEPT ![i] = s] /\ UNCHANGED <<channel, faults>> /\ s # None
  BY Records DEF Keep
<1>3. /\ local' \in [Instances -> State \cup {None}] /\ local'[i] = s
      /\ \A k \in Instances : k # i => local'[k] = local[k]
  BY <1>1, <1>2
<1>4. (Queued(i)' <=> Queued(i)) /\ (Running(i)' <=> Running(i))
  BY <1>2, <1>3 DEF Queued, Running
<1> QED
  BY <1>1, <1>2, <1>3, <1>4 DEF EntryMoves, EntryFits

LEMMA MovedInv ==
    ASSUME IInv, NEW i \in Instances, i \in deployment.instances, NEW sh \in Nat, EntryMoves(i, sh),
           Marks => sh <= coord.gen /\ listed'[i] <= coord.gen,
           UNCHANGED <<deployment, job, coord, lock, window, recent, restarts, aside>>,
           used' \in 0 .. MaxSignals, used' >= used,
           listed' \in [Instances -> Nat], \A k \in Instances : k # i => listed'[k] = listed[k]
    PROVE  IInv'
<1>1. TypeOK /\ Entries /\ Reads /\ Snapshots /\ Generations
  BY DEF IInv
<1>0. UNCHANGED <<outside, saved, missed>>
  BY DEF aside, history
<1>2. TypeOK'
  BY <1>0, <1>1 DEF TypeOK, EntryMoves
<1>3. Entries'
  <2>1. EntryFits(i) /\ (Running(i)' <=> Running(i))
    BY <1>1 DEF Entries, EntryMoves
  <2>2. EntryFits(i)'
    BY <2>1 DEF EntryFits, EntryMoves, Busy
  <2>3. ASSUME NEW k \in Instances, k # i PROVE EntryFits(k)' /\ Absent(k)'
    BY <1>1, <2>3 DEF Entries, EntryMoves, EntryFits, Absent, Queued, Running, Busy
  <2> QED
    BY <2>2, <2>3 DEF Entries, Absent
<1>4. /\ window \in Nat /\ used \in Nat /\ used' \in Nat /\ coord \in Entry
      /\ saved \in Nat /\ missed \in Nat /\ outside \in [Instances -> [FlightKeys -> Nat \cup {None}]]
      /\ job \in [Instances -> [Workers -> Job]]
  <2>1. 0 .. MaxSignals \subseteq Nat
    BY <1>1, DeploymentType
  <2> QED
    BY <1>1, <2>1 DEF TypeOK
<1>5. Reads'
  <2>1. \A k \in Instances, v \in Workers : job[k][v].read \in Nat
    BY <1>1, <1>4, DeploymentType DEF TypeOK, Job
  <2> QED
    BY <1>0, <1>1, <1>4, <2>1 DEF Reads, ReadFits, Holds
<1>7. Snapshots'
  <2>1. \A k \in Instances, l \in FlightKeys : outside[k][l] # None => outside[k][l] \in Nat
    BY <1>4
  <2> QED
    BY <1>0, <1>1, <1>4, <2>1 DEF Snapshots, JoinFits
<1>6. Generations'
  <2>1. Marks' <=> Marks
    BY DEF Marks, Console
  <2> SUFFICES ASSUME Marks
               PROVE  /\ coord.covers <= used'
                      /\ \A k \in Instances : Behind(k)'
                      /\ \A k \in Instances, v \in Workers : FlightFits(k, v)' /\ SaverFits(k, v)'
    BY <2>1 DEF Generations
  <2>2. coord.covers <= used'
    BY <1>1, <1>4, DeploymentType DEF Generations, Entry
  <2>3. \A k \in Instances : Behind(k)'
    BY <1>1 DEF Generations, Behind, EntryMoves
  <2>4. \A k \in Instances, v \in Workers : FlightFits(k, v)' /\ SaverFits(k, v)'
    BY <1>0, <1>1 DEF Generations, FlightFits, SaverFits, Past, Accounts
  <2> QED
    BY <2>2, <2>3, <2>4
<1> QED
  BY <1>2, <1>3, <1>5, <1>6, <1>7 DEF IInv

LEMMA QueueInv ==
    ASSUME IInv, NEW i \in Instances, QueueQuotaRefresh(i), UNCHANGED deployment
    PROVE  IInv'
<1>1. TypeOK /\ EntryFits(i) /\ (Marks => Behind(i)) /\ coord.gen \in Nat /\ listed \in [Instances -> Nat]
  BY DEF IInv, Entries, Generations, TypeOK, Entry
<1> DEFINE known == local[i] # None /\ ~ Idle(local[i])
           old == IF known THEN local[i] ELSE Fresh
           s == [old EXCEPT !.generation = @ + 1, !.pending = TRUE]
<1>2. old \in State /\ (local[i] # None => local[i] \in State)
  BY <1>1, Records DEF TypeOK
<1>3. (old.queued <=> Queued(i)) /\ (old.running <=> Running(i))
  BY <1>2, Records DEF Queued, Running, Idle
<1>4. old.shared \in Nat /\ (Marks => old.shared <= coord.gen)
  BY <1>1, <1>2, Records DEF State, Behind
<1>5. s \in State /\ s.queued = old.queued /\ s.running = old.running /\ s.shared = old.shared
  <2>1. old \in State
    BY <1>2
  <2> HIDE DEF old
  <2>2. old.generation + 1 \in Nat
    BY <2>1 DEF State
  <2> QED
    BY <2>1, <2>2 DEF State
<1>6. EntryMoves(i, s.shared)
  <2>1. IF s.queued \/ s.running \/ s.wait # "no" THEN Keep(i, s) ELSE Enqueue(i, s)
    BY DEF QueueQuotaRefresh
  <2> HIDE DEF s
  <2>2. CASE s.queued \/ s.running \/ s.wait # "no"
    BY <1>1, <1>3, <1>5, <2>1, <2>2, KeepMoves
  <2>3. CASE ~ (s.queued \/ s.running \/ s.wait # "no")
    BY <1>1, <1>3, <1>5, <2>1, <2>3, EnqueueMoves
  <2> QED
    BY <2>2, <2>3
<1> HIDE DEF s, old
<1>7. /\ i \in deployment.instances /\ used' = used + 1
      /\ UNCHANGED <<window, job, listed, coord, lock, recent, restarts, aside>>
  BY DEF QueueQuotaRefresh
<1>8. used' \in 0 .. MaxSignals /\ used' >= used
  <2>1. used < deployment.signals
    BY DEF QueueQuotaRefresh
  <2> QED
    BY <1>1, <1>7, <2>1, DeploymentType DEF TypeOK
<1>9. Marks => s.shared <= coord.gen /\ listed'[i] <= coord.gen
  BY <1>1, <1>4, <1>5, <1>7 DEF Behind
<1> QED
  BY <1>1, <1>4, <1>5, <1>6, <1>7, <1>8, <1>9, MovedInv

LEMMA RequeueInv ==
    ASSUME IInv, NEW i \in Instances, Requeue(i) \/ RetryDue(i), UNCHANGED deployment
    PROVE  IInv'
<1>1. /\ TypeOK /\ EntryFits(i) /\ Absent(i) /\ (Marks => Behind(i)) /\ coord.gen \in Nat
      /\ listed \in [Instances -> Nat] /\ used \in 0 .. MaxSignals
      /\ local \in [Instances -> State \cup {None}]
      /\ channel \in [Instances -> 0 .. 1] /\ faults \in 0 .. MaxFaults
  BY DEF IInv, Entries, Generations, TypeOK, Entry
<1>2. local[i] # None /\ local[i] \in State /\ i \in deployment.instances
  BY <1>1 DEF Requeue, RetryDue, Absent
<1>3. local[i].shared \in Nat /\ (Marks => local[i].shared <= coord.gen)
  BY <1>1, <1>2 DEF State, Behind
<1>4. UNCHANGED <<used, window, job, listed, coord, lock, recent, restarts, aside>>
  BY DEF Requeue, RetryDue
<1>5. EntryMoves(i, local[i].shared)
  <2>1. CASE Idle(local[i]) /\ local' = [local EXCEPT ![i] = None] /\ UNCHANGED <<channel, faults>>
    <3>1. ~ Queued(i) /\ ~ Running(i) /\ channel[i] = 0
      BY <1>1, <2>1 DEF Idle, Queued, Running, EntryFits
    <3>2. ~ Queued(i)' /\ ~ Running(i)' /\ local'[i] = None
      BY <1>1, <2>1 DEF Queued, Running
    <3> QED
      BY <1>1, <2>1, <3>1, <3>2 DEF EntryMoves
  <2>2. CASE ~ local[i].queued /\ ~ local[i].running /\ Enqueue(i, local[i])
    BY <1>1, <1>2, <2>2, EnqueueMoves DEF Queued, Running
  <2>3. CASE RetryDue(i)
    <3> DEFINE s == [local[i] EXCEPT !.wait = "no"]
    <3>1. s \in State /\ s.queued = local[i].queued /\ s.running = local[i].running
          /\ s.shared = local[i].shared
      BY <1>2 DEF State
    <3>2. Keep(i, s)
      BY <2>3 DEF RetryDue, Keep
    <3> HIDE DEF s
    <3>3. EntryMoves(i, s.shared)
      BY <1>1, <1>2, <3>1, <3>2, KeepMoves DEF Queued, Running
    <3> QED
      BY <3>1, <3>3
  <2> QED
    BY <2>1, <2>2, <2>3 DEF Requeue
<1>6. Marks => local[i].shared <= coord.gen /\ listed'[i] <= coord.gen
  BY <1>1, <1>3, <1>4 DEF Behind
<1> QED
  BY <1>1, <1>2, <1>3, <1>4, <1>5, <1>6, MovedInv

LEMMA RecoverInv ==
    ASSUME IInv, NEW i \in Instances, RecoverList(i) \/ RecoverApply(i), UNCHANGED deployment
    PROVE  IInv'
<1>1. /\ TypeOK /\ EntryFits(i) /\ Absent(i) /\ (Marks => Behind(i)) /\ coord.gen \in Nat
      /\ listed \in [Instances -> Nat] /\ used \in 0 .. MaxSignals
      /\ local \in [Instances -> State \cup {None}]
      /\ channel \in [Instances -> 0 .. 1] /\ faults \in 0 .. MaxFaults
  BY DEF IInv, Entries, Generations, TypeOK, Entry
<1>2. CASE RecoverList(i)
  <2>1. /\ listed' = [listed EXCEPT ![i] = coord.gen] /\ i \in deployment.instances
        /\ UNCHANGED <<used, window, local, channel, job, coord, lock, recent, faults, restarts, aside>>
    BY <1>2 DEF RecoverList
  <2> DEFINE sh == IF local[i] = None THEN 0 ELSE local[i].shared
  <2>2. sh \in Nat /\ (Marks => sh <= coord.gen)
    BY <1>1 DEF State, Behind
  <2>3. EntryMoves(i, sh)
    BY <1>1, <2>1 DEF EntryMoves, EntryFits, Queued, Running
  <2> HIDE DEF sh
  <2>4. listed' \in [Instances -> Nat] /\ listed'[i] = coord.gen
        /\ \A k \in Instances : k # i => listed'[k] = listed[k]
    BY <1>1, <2>1
  <2> QED
    BY <1>1, <2>1, <2>2, <2>3, <2>4, MovedInv
<1>3. CASE RecoverApply(i)
  <2> DEFINE s == Recovered(i)
  <2>1. /\ listed[i] > 0 /\ listed' = [listed EXCEPT ![i] = 0]
        /\ IF ~ s.queued /\ ~ s.running /\ s.wait = "no" THEN Enqueue(i, s) ELSE Keep(i, s)
        /\ UNCHANGED <<used, window, job, coord, lock, recent, restarts, aside>>
    BY <1>3 DEF RecoverApply
  <2>2. i \in deployment.instances /\ listed[i] \in Nat
    BY <1>1, <2>1 DEF Absent
  <2>3. /\ s \in State /\ (s.queued <=> Queued(i)) /\ (s.running <=> Running(i))
        /\ Marks => s.shared <= coord.gen
    <3>1. CASE local[i] = None
      <4>1. s = [Fresh EXCEPT !.generation = 1, !.published = 1, !.shared = listed[i], !.pending = TRUE]
        BY <3>1 DEF Recovered
      <4>2. s \in State /\ s.queued = Fresh.queued /\ s.running = Fresh.running /\ s.shared = listed[i]
        <5>1. s = [generation |-> 1, published |-> 1, shared |-> listed[i], queued |-> FALSE,
                   running |-> FALSE, pending |-> TRUE, wait |-> "no"]
          BY <4>1 DEF Fresh
        <5>2. ~ Fresh.queued /\ ~ Fresh.running
          BY Records
        <5> HIDE DEF s
        <5> QED
          BY <2>2, <5>1, <5>2 DEF State, Fresh
      <4> QED
        BY <1>1, <3>1, <4>2, Records DEF Queued, Running, Behind
    <3>2. CASE local[i] # None
      <4> DEFINE sh == IF listed[i] > local[i].shared THEN listed[i] ELSE local[i].shared
      <4>1. s = [local[i] EXCEPT !.shared = sh, !.pending = TRUE] /\ local[i] \in State
        BY <1>1, <3>2 DEF Recovered
      <4>2. sh \in Nat /\ (Marks => sh <= coord.gen)
        BY <1>1, <2>2, <3>2, <4>1 DEF State, Behind
      <4> HIDE DEF sh
      <4>3. s \in State /\ s.queued = local[i].queued /\ s.running = local[i].running /\ s.shared = sh
        BY <4>1, <4>2 DEF State
      <4> QED
        BY <3>2, <4>2, <4>3 DEF Queued, Running
    <3> QED
      BY <3>1, <3>2
  <2> HIDE DEF s
  <2>4. EntryMoves(i, s.shared)
    BY <1>1, <2>1, <2>3, KeepMoves, EnqueueMoves
  <2>5. /\ listed' \in [Instances -> Nat] /\ listed'[i] = 0
        /\ \A k \in Instances : k # i => listed'[k] = listed[k]
    BY <1>1, <2>1
  <2>6. s.shared \in Nat
    BY <2>3 DEF State
  <2> QED
    BY <1>1, <2>1, <2>2, <2>3, <2>4, <2>5, <2>6, MovedInv
<1> QED
  BY <1>2, <1>3

----------------------------------------------------------------------------
(* Refreshes without the lock.                                             *)

\* They change nothing that a flight or an entry consists of.
LEMMA OutsideInv ==
    ASSUME IInv, NEW i \in Instances, NEW k \in FlightKeys,
           OutsideRead(i, k) \/ OutsideSave(i, k) \/ OutsideFail(i, k), UNCHANGED deployment
    PROVE  IInv'
<1>1. /\ TypeOK /\ Entries /\ Reads /\ Snapshots /\ Generations
      /\ outside \in [Instances -> [FlightKeys -> 0 .. MaxSignals \cup {None}]]
      /\ coord \in Entry /\ coord.covers \in Nat
  BY DEF IInv, TypeOK, Entry
<1>2. UNCHANGED <<used, local, channel, job, listed, coord, lock, restarts, saved>>
  BY DEF OutsideRead, OutsideSave, OutsideFail, history
<1>3. /\ window \in 0 .. MaxSignals /\ missed \in 0 .. MaxSignals /\ used \in 0 .. MaxSignals
      /\ 0 .. MaxSignals \subseteq Nat /\ window <= used /\ missed <= used
  BY <1>1, DeploymentType DEF TypeOK, Snapshots
<1>4. /\ window' \in 0 .. MaxSignals /\ missed' \in 0 .. MaxSignals
      /\ window' <= used /\ missed' <= used /\ missed' >= missed
      /\ \A c \in Nat : window >= c \/ missed >= c => window' >= c \/ missed' >= c
  <2>1. CASE UNCHANGED <<window, missed>>
    BY <1>3, <2>1
  <2>2. CASE OutsideSave(i, k)
    BY <1>1, <2>2, SavedOutside DEF OutsideSave
  <2> QED
    BY <2>1, <2>2 DEF OutsideRead, OutsideFail, history
<1>5. /\ outside' \in [Instances -> [FlightKeys -> 0 .. MaxSignals \cup {None}]]
      /\ outside'[i][k] \in {None, used}
      /\ \A h \in Instances, l \in FlightKeys : h # i \/ l # k => outside'[h][l] = outside[h][l]
  <2>1. outside' = [outside EXCEPT ![i][k] = used] \/ outside' = [outside EXCEPT ![i][k] = None]
    BY DEF OutsideRead, OutsideSave, SavesOutside, OutsideFail
  <2> QED
    BY <1>1, <1>3, <2>1
<1>6. faults' \in 0 .. MaxFaults /\ recent' \in Instances \cup {None, Orphan}
  <2>1. recent' \in {recent, Orphan}
    BY DEF OutsideRead, OutsideSave, OutsideFail
  <2>2. faults' = faults \/ (faults < deployment.faults /\ faults' = faults + 1)
    BY DEF OutsideRead, OutsideSave, OutsideFail
  <2> QED
    BY <1>1, <2>1, <2>2, DeploymentType DEF TypeOK
<1>7. TypeOK'
  BY <1>1, <1>2, <1>4, <1>5, <1>6 DEF TypeOK
<1>8. Entries'
  BY <1>1, <1>2 DEF Entries, EntryFits, Absent, Queued, Running, Busy
<1>9. Reads'
  BY <1>1, <1>2 DEF Reads, ReadFits, Holds
<1>10. Snapshots'
  <2>1. \A h \in Instances, l \in FlightKeys : outside'[h][l] # None => outside'[h][l] <= used
    BY <1>1, <1>3, <1>5 DEF Snapshots
  <2>2. ASSUME NEW h \in Instances, NEW v \in Workers PROVE JoinFits(h, v)'
    <3> SUFFICES ASSUME job[h][v].at = "join" PROVE job[h][v].read = outside'[h]["mode"]
      BY <1>2 DEF JoinFits
    <3>1. job[h][v].read = outside[h]["mode"]
      BY <1>1 DEF Snapshots, JoinFits
    <3>2. job[h][v].read # None
      BY <1>1, <1>3, RefreshAssumption DEF TypeOK, Job
    <3>3. h # i \/ "mode" # k
      BY <3>1, <3>2 DEF OutsideRead, OutsideSave, OutsideFail, Unjoined
    <3> QED
      BY <1>5, <3>1, <3>3 DEF FlightKeys
  <2> QED
    BY <1>2, <1>4, <2>1, <2>2 DEF Snapshots
<1>11. Generations'
  <2>1. \A h \in Instances : Behind(h) => Behind(h)'
    BY <1>2 DEF Behind
  <2>2. \A n \in Nat : Accounts(n) => n >= coord.covers \/ missed' >= coord.covers
    BY <1>1, <1>3, <1>4 DEF Accounts
  <2>3. Accounts(window) => Accounts(window)'
    BY <1>1, <1>2, <1>4 DEF Accounts
  <2>4. \A h \in Instances, v \in Workers : Accounts(job[h][v].read) => Accounts(job[h][v].read)'
    <3>1. \A h \in Instances, v \in Workers : job[h][v].read \in Nat
      BY <1>1, <1>3 DEF TypeOK, Job
    <3> QED
      BY <1>2, <2>2, <3>1 DEF Accounts
  <2>5. ASSUME NEW h \in Instances, NEW v \in Workers, FlightFits(h, v), SaverFits(h, v)
        PROVE  FlightFits(h, v)' /\ SaverFits(h, v)'
    <3>1. \A g \in Instances, u \in Workers : Past(g, u)' <=> Past(g, u)
      BY <1>2 DEF Past
    <3> QED
      BY <1>2, <2>3, <2>4, <2>5, <3>1 DEF FlightFits, SaverFits
  <2> QED
    BY <1>1, <1>2, <2>1, <2>5 DEF Generations, Marks, Console
<1> QED
  BY <1>7, <1>8, <1>9, <1>10, <1>11 DEF IInv

----------------------------------------------------------------------------
(* Time, and restarts.                                                     *)

LEMMA TimeInv ==
    ASSUME IInv, IntervalPasses \/ MarkExpires \/ LockExpires
                   \/ \E i \in Instances, w \in Workers : LockLapses(i, w),
           UNCHANGED deployment
    PROVE  IInv'
<1>1. TypeOK /\ Entries /\ Reads /\ Snapshots /\ Generations
  BY DEF IInv
<1>2. UNCHANGED <<used, window, local, channel, job, listed, faults, restarts, outside, saved, missed>>
  BY DEF IntervalPasses, MarkExpires, LockExpires, LockLapses, aside, history
<1>3. TypeOK'
  BY <1>1, <1>2, Records DEF IntervalPasses, MarkExpires, LockExpires, LockLapses, TypeOK
<1>4. Entries'
  BY <1>1, <1>2 DEF Entries, EntryFits, Absent, Queued, Running, Busy
<1>5. Reads'
  <2> SUFFICES ASSUME NEW k \in Instances, NEW v \in Workers, job'[k][v].at = "save"
               PROVE  lock' = <<k, v>> /\ job'[k][v].read \in saved' .. used'
    BY <1>1, <1>2 DEF Reads, ReadFits, Holds
  <2>1. lock = <<k, v>> /\ job[k][v].read \in saved .. used /\ job[k][v].at = "save"
    BY <1>1, <1>2 DEF Reads, ReadFits, Holds
  <2>2. lock # Orphan
    BY <2>1, RefreshAssumption
  <2>3. UNCHANGED lock
    BY <2>1, <2>2 DEF IntervalPasses, MarkExpires, LockExpires, LockLapses, Holds
  <2> QED
    BY <1>2, <2>1, <2>3
<1>6. Generations'
  <2>1. CASE UNCHANGED coord
    BY <1>1, <1>2, <2>1 DEF Generations, Marks, Console, Behind, FlightFits, SaverFits, Past, Accounts
  <2>2. CASE MarkExpires
    BY <2>2 DEF MarkExpires, Generations, Marks
  <2> QED
    BY <2>1, <2>2 DEF IntervalPasses, LockExpires, LockLapses
<1>7. Snapshots'
  BY <1>1, <1>2 DEF Snapshots, JoinFits
<1> QED
  BY <1>3, <1>4, <1>5, <1>6, <1>7 DEF IInv

LEMMA RestartInv ==
    ASSUME IInv, NEW i \in Instances, Restart(i), UNCHANGED deployment
    PROVE  IInv'
<1>1. TypeOK /\ Entries /\ Reads /\ Snapshots /\ Generations
  BY DEF IInv
<1>2. /\ job \in [Instances -> [Workers -> Job]] /\ local \in [Instances -> State \cup {None}]
      /\ channel \in [Instances -> 0 .. 1] /\ listed \in [Instances -> Nat]
  BY <1>1 DEF TypeOK
<1>3. /\ local' = [local EXCEPT ![i] = None] /\ channel' = [channel EXCEPT ![i] = 0]
      /\ job' = [job EXCEPT ![i] = [w \in Workers |-> NoJob]] /\ listed' = [listed EXCEPT ![i] = 0]
      /\ coord' = (IF Durable THEN coord ELSE NoEntry)
      /\ lock' = (IF \E w \in Workers : Holds(i, w) THEN (IF Durable THEN Orphan ELSE None) ELSE lock)
      /\ outside' = [outside EXCEPT ![i] = [k \in FlightKeys |-> None]]
      /\ i \in deployment.instances /\ UNCHANGED <<used, window, recent, faults, saved, missed>>
  BY DEF Restart, history
<1>4. /\ job' \in [Instances -> [Workers -> Job]] /\ local' \in [Instances -> State \cup {None}]
      /\ channel' \in [Instances -> 0 .. 1] /\ listed' \in [Instances -> Nat]
      /\ \A w \in Workers : job'[i][w] = NoJob
      /\ local'[i] = None /\ channel'[i] = 0 /\ listed'[i] = 0
      /\ \A k \in Instances : k # i => /\ local'[k] = local[k] /\ channel'[k] = channel[k]
                                       /\ job'[k] = job[k] /\ listed'[k] = listed[k]
  BY <1>2, <1>3, Records
<1>5. TypeOK'
  <2>1. restarts' \in 0 .. MaxRestarts
    BY <1>1, DeploymentType DEF Restart, TypeOK
  <2>2. coord' \in Entry /\ lock' \in Instances \X Workers \cup {None, Orphan}
    BY <1>1, <1>3, Records DEF TypeOK
  <2>3. outside' \in [Instances -> [FlightKeys -> 0 .. MaxSignals \cup {None}]]
    BY <1>1, <1>3 DEF TypeOK
  <2> QED
    BY <1>1, <1>3, <1>4, <2>1, <2>2, <2>3 DEF TypeOK
<1>9. Snapshots'
  <2>1. \A k \in Instances, l \in FlightKeys : outside'[k][l] # None => k # i /\ outside'[k][l] = outside[k][l]
    BY <1>1, <1>3 DEF TypeOK
  <2>2. ASSUME NEW k \in Instances, NEW v \in Workers PROVE JoinFits(k, v)'
    <3>1. CASE k = i
      BY <1>4, <3>1, Records DEF JoinFits
    <3>2. CASE k # i
      <4>1. outside'[k] = outside[k] /\ job'[k] = job[k]
        BY <1>1, <1>3, <1>4, <3>2 DEF TypeOK
      <4> QED
        BY <1>1, <4>1 DEF Snapshots, JoinFits
    <3> QED
      BY <3>1, <3>2
  <2> QED
    BY <1>1, <1>3, <2>1, <2>2 DEF Snapshots
<1>6. Entries'
  <2>1. EntryFits(i)' /\ Absent(i)'
    BY <1>3, <1>4, Records DEF EntryFits, Absent, Queued, Running, Busy
  <2>2. ASSUME NEW k \in Instances, k # i PROVE EntryFits(k)' /\ Absent(k)'
    BY <1>1, <1>4, <2>2 DEF Entries, EntryFits, Absent, Queued, Running, Busy
  <2> QED
    BY <2>1, <2>2 DEF Entries
<1>7. Reads'
  <2> SUFFICES ASSUME NEW k \in Instances, NEW v \in Workers, job'[k][v].at = "save"
               PROVE  lock' = <<k, v>> /\ job'[k][v].read \in saved' .. used'
    BY <1>1, <1>3 DEF Reads, ReadFits, Holds
  <2>1. k # i /\ job'[k][v] = job[k][v]
    BY <1>4, Records
  <2>2. lock = <<k, v>> /\ job[k][v].read \in saved .. used
    BY <1>1, <2>1 DEF Reads, ReadFits, Holds
  <2>3. UNCHANGED lock
    BY <1>3, <2>1, <2>2 DEF Holds
  <2> QED
    BY <1>3, <2>1, <2>2, <2>3
<1>8. Generations'
  <2>1. Marks' <=> Marks
    BY DEF Marks, Console
  <2> SUFFICES ASSUME Marks
               PROVE  /\ coord'.covers <= used'
                      /\ \A k \in Instances : Behind(k)'
                      /\ \A k \in Instances, v \in Workers : FlightFits(k, v)' /\ SaverFits(k, v)'
    BY <2>1 DEF Generations
  <2>2. coord \in Entry /\ coord.gen \in Nat /\ coord.covers \in Nat /\ used \in Nat
    BY <1>1, DeploymentType DEF TypeOK, Entry
  <2>3. CASE Durable
    <3>1. coord' = coord
      BY <1>3, <2>3
    <3>2. \A k \in Instances : Behind(k)'
      BY <1>1, <1>4, <2>2, <3>1 DEF Generations, Behind
    <3>3. \A v \in Workers : FlightFits(i, v)' /\ SaverFits(i, v)'
      BY <1>4, <2>2, <3>1, Records DEF FlightFits, SaverFits
    <3>4. \A k \in Instances, v \in Workers : k # i => FlightFits(k, v)' /\ SaverFits(k, v)'
      <4> SUFFICES ASSUME NEW k \in Instances, NEW v \in Workers, k # i
                   PROVE  FlightFits(k, v)' /\ SaverFits(k, v)'
        OBVIOUS
      <4>1. FlightFits(k, v) /\ SaverFits(k, v) /\ job'[k][v] = job[k][v]
        BY <1>1, <1>4 DEF Generations
      <4>2. \A h \in Instances, u \in Workers : Past(h, u)' => Past(h, u)
        BY <1>4, <3>1, Records DEF Past
      <4> QED
        BY <1>3, <3>1, <4>1, <4>2 DEF FlightFits, SaverFits, Accounts
    <3> QED
      BY <1>1, <1>3, <3>1, <3>2, <3>3, <3>4 DEF Generations
  <2>4. CASE ~ Durable
    <3>1. coord' = NoEntry /\ coord'.gen = 0 /\ coord'.covers = 0
      BY <1>3, <2>4 DEF NoEntry
    <3>2. ASSUME NEW k \in Instances, k # i PROVE k \notin deployment.instances
      <4>1. \E h \in Instances : deployment.instances = {h}
        BY <1>1, <2>4, RefreshAssumption DEF TypeOK, Durable
      <4> QED
        BY <1>3, <3>2, <4>1
    <3>3. ASSUME NEW k \in Instances
          PROVE  local'[k] = None /\ listed'[k] = 0 /\ \A v \in Workers : job'[k][v] = NoJob
      BY <1>1, <1>4, <3>2 DEF Entries, Absent
    <3>4. \A k \in Instances : Behind(k)'
      BY <3>1, <3>3 DEF Behind
    <3>5. \A k \in Instances, v \in Workers : FlightFits(k, v)' /\ SaverFits(k, v)'
      BY <3>1, <3>3, Records DEF FlightFits, SaverFits
    <3> QED
      BY <1>3, <2>2, <3>1, <3>4, <3>5
  <2> QED
    BY <2>3, <2>4
<1> QED
  BY <1>5, <1>6, <1>7, <1>8, <1>9 DEF IInv

----------------------------------------------------------------------------
(* The invariant, and what follows from it.                                *)

LEMMA InitInv == Init => IInv
<1> SUFFICES ASSUME Init PROVE IInv
  OBVIOUS
<1>1. TypeOK
  BY Records, RefreshAssumption DEF Init, TypeOK
<1>2. Entries
  BY Records DEF Init, Entries, EntryFits, Absent, Queued, Running, Busy
<1>3. Reads
  BY Records DEF Init, Reads, ReadFits
<1>4. Generations
  BY Records DEF Init, Generations, Behind, FlightFits, SaverFits, NoEntry
<1>5. Snapshots
  BY Records DEF Init, Snapshots, JoinFits
<1> QED
  BY <1>1, <1>2, <1>3, <1>4, <1>5 DEF IInv

LEMMA NextInv == IInv /\ [Next /\ UNCHANGED deployment]_<<deployment, vars>> => IInv'
<1> SUFFICES ASSUME IInv, [Next /\ UNCHANGED deployment]_<<deployment, vars>> PROVE IInv'
  OBVIOUS
<1>1. CASE UNCHANGED <<deployment, vars>>
  BY <1>1 DEF vars, aside, history, IInv, TypeOK, Entries, EntryFits, Absent, Queued, Running, Busy,
     Reads, ReadFits, Holds, Snapshots, JoinFits, Generations, Marks, Console, Behind, FlightFits,
     SaverFits, Past, Accounts
<1>2. CASE Next /\ UNCHANGED deployment
  BY <1>2, FlightInv, TakeInv, QueueInv, OutsideInv, RequeueInv, RecoverInv, TimeInv, RestartInv DEF Next
<1> QED
  BY <1>1, <1>2

\* The inductive invariant holds in every state.
THEOREM Invariant == Spec => []IInv
  BY InitInv, NextInv, PTL DEF Spec

(* The state is well typed; in particular the channel holds at most the    *)
(* one request of the key.                                                 *)
THEOREM TypeCorrect == Spec => []TypeOK
<1>1. IInv => TypeOK
  BY DEF IInv
<1> QED
  BY <1>1, Invariant, PTL

(* No instance runs two flights of the key, and the queued flag and the    *)
(* channel agree.                                                          *)
THEOREM FlightAlone == Spec => []OneFlight
<1>1. IInv => OneFlight
  BY DEF IInv, Entries, EntryFits, Queued, Running, OneFlight
<1> QED
  BY <1>1, Invariant, PTL

LEMMA SavedStep ==
    IInv /\ [Next /\ UNCHANGED deployment]_<<deployment, vars>> => [saved' >= saved]_vars
<1> SUFFICES ASSUME IInv, [Next /\ UNCHANGED deployment]_<<deployment, vars>> PROVE saved' >= saved
  OBVIOUS
<1>1. TypeOK /\ Entries /\ Reads /\ saved \in Nat
  BY DeploymentType DEF IInv, TypeOK
<1>2. ASSUME NEW i \in Instances, NEW w \in Workers, FlightStep(i, w) \/ Fail(i, w), UNCHANGED deployment
      PROVE  saved' >= saved
  <2>1. Running(i) /\ ~ Queued(i)
    BY <1>1, <1>2, FlightBusy DEF Entries, EntryFits
  <2> QED
    BY <1>1, <1>2, <2>1, FlightReads
<1>3. CASE UNCHANGED saved
  BY <1>1, <1>3
<1> QED
  BY <1>2, <1>3 DEF Next, vars, aside, history, QueueQuotaRefresh, Take, OutsideRead, OutsideSave,
     OutsideFail, Requeue, RecoverList, RecoverApply, RetryDue, IntervalPasses, MarkExpires,
     LockExpires, LockLapses, Restart

(* What flights read under the lock is saved in the order in which they    *)
(* read it, whatever refreshes without the lock do and however long one    *)
(* that joined them outlives its lock.                                     *)
THEOREM SavesOrdered == Spec => LockedSavesInOrder
  BY Invariant, SavedStep, PTL DEF Spec, LockedSavesInOrder

LEMMA ClearStep ==
    ASSUME IInv, [Next /\ UNCHANGED deployment]_<<deployment, vars>>,
           ~ Console, ~ deployment.expiry, coord.dirty, coord' = [coord EXCEPT !.dirty = FALSE]
    PROVE  window >= coord.covers \/ missed >= coord.covers
<1>1. TypeOK /\ coord \in Entry /\ coord.covers \in Nat /\ coord.gen \in Nat /\ window \in Nat
  BY DeploymentType DEF IInv, TypeOK, Entry
<1>2. ~ coord'.dirty /\ coord'.gen = coord.gen /\ coord'.covers = coord.covers /\ coord' # coord
  BY <1>1 DEF Entry
<1>3. ASSUME NEW i \in Instances, NEW w \in Workers, FlightStep(i, w) \/ Fail(i, w)
      PROVE  window >= coord.covers \/ missed >= coord.covers
  <2>1. Marked.dirty
    BY DEF Marked
  <2>2. job[i][w].at = "clear" /\ Clears(i, w)
    BY <1>1, <1>2, <1>3, <2>1, FlightCoord
  <2>3. FlightFits(i, w)
    BY DEF IInv, Generations, Marks
  <2> QED
    BY <2>2, <2>3 DEF FlightFits, Clears, Accounts
<1>4. CASE MarkExpires
  BY <1>4 DEF MarkExpires
<1>5. ASSUME NEW i \in Instances, Restart(i) PROVE window >= coord.covers
  <2>1. coord' = NoEntry
    BY <1>2, <1>5 DEF Restart
  <2> QED
    BY <1>1, <1>2, <2>1 DEF NoEntry
<1>6. CASE UNCHANGED coord
  BY <1>2, <1>6
<1> QED
  BY <1>3, <1>4, <1>5, <1>6 DEF Next, vars, QueueQuotaRefresh, Take, OutsideRead, OutsideSave,
     OutsideFail, Requeue, RecoverList, RecoverApply, RetryDue, IntervalPasses, LockExpires, LockLapses

(* A mark that is cleared stands for no request that the window misses,    *)
(* but for those that refreshes without the lock left out, for any number  *)
(* of instances, as long as marks do not expire.                           *)
THEOREM MarkCovered == Spec => ClearedWhenCovered
<1>1. IInv /\ [Next /\ UNCHANGED deployment]_<<deployment, vars>>
        => [~ Console /\ ~ deployment.expiry /\ coord.dirty /\ coord' = [coord EXCEPT !.dirty = FALSE]
              => window >= coord.covers \/ missed >= coord.covers]_vars
  BY ClearStep
<1> QED
  BY <1>1, Invariant, PTL DEF Spec, ClearedWhenCovered
----------------------------------------------------------------------------
(* The signals: what the mark does not stand for yet, an instance remembers. *)

Shared == Marks /\ Coordinated /\ restarts = 0

\* Instance i has a signal that no mark stands for, and no flight has just marked it.
Unmarked(i) ==
    /\ local[i] # None /\ local[i].published < local[i].generation
    /\ \A w \in Workers : job[i][w].at = "record" => job[i][w].lg # local[i].generation

\* An entry is never one that counts as new: somebody is to refresh it.
Minds(i) ==
    local[i] # None => /\ local[i].published <= local[i].generation
                       /\ local[i].running \/ local[i].pending

Unrecorded == {"idle", "begin", "publish", "record"}

\* The local generation of a flight that is past its mark is published.
Carries(i, w) ==
    LET j == job[i][w] IN
    /\ j.at = "idle" => j.lg = 0
    /\ local[i] # None => /\ j.lg <= local[i].generation
                          /\ j.at \notin Unrecorded => j.lg <= local[i].published

\* Without a mark, nobody is to save a snapshot that misses what the last one stood for.
Settled ==
    ~ coord.dirty =>
        /\ Accounts(window)
        /\ \A i \in Instances, w \in Workers : job[i][w].at = "save" => Accounts(job[i][w].read)

Told ==
    Shared => /\ \A i \in Instances : Minds(i)
              /\ \A i \in Instances, w \in Workers : Carries(i, w)
              /\ coord.covers < used => \E i \in Instances : Unmarked(i)
              /\ Settled

\* A step of one instance keeps them when it keeps what this instance remembers.
LEMMA ToldKept ==
    ASSUME Told, NEW i \in Instances, UNCHANGED <<deployment, restarts>>,
           \A k \in Instances : k # i => local'[k] = local[k] /\ job'[k] = job[k],
           Shared => /\ Minds(i)' /\ \A w \in Workers : Carries(i, w)'
                     /\ Settled'
                     /\ coord'.covers < used' =>
                          \/ Unmarked(i)'
                          \/ coord.covers < used /\ (Unmarked(i) => Unmarked(i)')
    PROVE  Told'
<1>1. Shared' <=> Shared
  BY DEF Shared, Marks, Console, Coordinated
<1> SUFFICES ASSUME Shared
             PROVE  /\ \A k \in Instances : Minds(k)'
                    /\ \A k \in Instances, w \in Workers : Carries(k, w)'
                    /\ coord'.covers < used' => \E k \in Instances : Unmarked(k)'
  BY <1>1 DEF Told
<1>2. \A k \in Instances : Minds(k)'
  BY DEF Told, Minds
<1>3. \A k \in Instances, w \in Workers : Carries(k, w)'
  BY DEF Told, Carries
<1>4. ASSUME coord'.covers < used' PROVE \E k \in Instances : Unmarked(k)'
  <2>1. CASE Unmarked(i)'
    BY <2>1
  <2>2. CASE coord.covers < used /\ (Unmarked(i) => Unmarked(i)')
    <3>1. PICK k \in Instances : Unmarked(k)
      BY <2>2 DEF Told
    <3>2. CASE k = i
      BY <2>2, <3>1, <3>2
    <3>3. CASE k # i
      BY <3>1, <3>3 DEF Unmarked
    <3> QED
      BY <3>2, <3>3
  <2> QED
    BY <1>4, <2>1, <2>2
<1> QED
  BY <1>2, <1>3, <1>4

\* The entry of i becomes s, queued or not.
Remembers(i, s) ==
    /\ \A k \in Instances : k # i => local'[k] = local[k]
    /\ local'[i] # None
    /\ local'[i].generation = s.generation /\ local'[i].published = s.published
    /\ local'[i].running = s.running /\ local'[i].pending = s.pending

LEMMA EntryRemembers ==
    ASSUME TypeOK, NEW i \in Instances, NEW s \in State, Keep(i, s) \/ Enqueue(i, s)
    PROVE  Remembers(i, s)
<1>1. local \in [Instances -> State \cup {None}]
  BY DEF TypeOK
<1> DEFINE r == [s EXCEPT !.queued = TRUE]
<1>2. PICK q \in {s, r} : local' = [local EXCEPT ![i] = q]
  BY DEF Keep, Enqueue
<1>3. /\ r \in State /\ r.generation = s.generation /\ r.published = s.published
      /\ r.running = s.running /\ r.pending = s.pending
  BY DEF State
<1> HIDE DEF r
<1>4. /\ q \in State /\ q # None /\ q.generation = s.generation /\ q.published = s.published
      /\ q.running = s.running /\ q.pending = s.pending
  BY <1>2, <1>3, Records
<1> QED
  BY <1>1, <1>2, <1>4 DEF Remembers

LEMMA QueueTold ==
    ASSUME IInv, Told, NEW i \in Instances, QueueQuotaRefresh(i), UNCHANGED deployment
    PROVE  Told'
<1>1. TypeOK /\ EntryFits(i) /\ job[i] \in [Workers -> Job]
  BY DEF IInv, Entries, TypeOK
<1> DEFINE known == local[i] # None /\ ~ Idle(local[i])
           old == IF known THEN local[i] ELSE Fresh
           s == [old EXCEPT !.generation = @ + 1, !.pending = TRUE]
<1>2. UNCHANGED <<window, job, coord, restarts, missed>> /\ used' = used + 1
  BY DEF QueueQuotaRefresh, aside, history
<1>3. old \in State /\ (local[i] # None => local[i] \in State)
  BY <1>1, Records DEF TypeOK
<1>4. /\ s \in State /\ old.generation \in Nat /\ s.generation = old.generation + 1
      /\ s.published = old.published /\ s.pending
  <2>1. old \in State
    BY <1>3
  <2> HIDE DEF old
  <2>2. old.generation + 1 \in Nat
    BY <2>1 DEF State
  <2> QED
    BY <2>1, <2>2 DEF State
<1>5. Remembers(i, s)
  <2>1. Keep(i, s) \/ Enqueue(i, s)
    BY DEF QueueQuotaRefresh
  <2> HIDE DEF s
  <2> QED
    BY <1>1, <1>4, <2>1, EntryRemembers
<1> SUFFICES ASSUME Shared
             PROVE  Minds(i)' /\ (\A w \in Workers : Carries(i, w)') /\ Unmarked(i)'
  BY <1>2, <1>5, ToldKept DEF Remembers, Told, Settled, Accounts
<1>6. Minds(i) /\ \A w \in Workers : Carries(i, w)
  BY DEF Told
<1>7. /\ old.published <= old.generation
      /\ \A w \in Workers : /\ job[i][w].lg <= old.generation
                            /\ job[i][w].at \notin Unrecorded => job[i][w].lg <= old.published
  <2>1. CASE local[i] = None
    <3>1. old = Fresh /\ Fresh.generation = 0 /\ Fresh.published = 0
      BY <2>1 DEF Fresh
    <3>2. \A w \in Workers : job[i][w].at = "idle" /\ job[i][w].lg = 0
      BY <1>1, <1>6, <2>1 DEF EntryFits, Busy, Running, Carries
    <3> QED
      BY <3>1, <3>2 DEF Unrecorded
  <2>2. CASE local[i] # None
    <3>1. old = local[i]
      BY <1>6, <2>2 DEF Minds, Idle
    <3> QED
      BY <1>6, <2>2, <3>1 DEF Minds, Carries
  <2> QED
    BY <2>1, <2>2
<1>8. \A w \in Workers : job[i][w].lg \in Nat
  BY <1>1 DEF Job
<1>9. old.published \in Nat
  BY <1>3 DEF State
<1> HIDE DEF old, s
<1>10. Minds(i)'
  BY <1>4, <1>5, <1>7, <1>9 DEF Remembers, Minds
<1>11. \A w \in Workers : Carries(i, w)'
  BY <1>2, <1>4, <1>5, <1>6, <1>7, <1>8 DEF Remembers, Carries
<1>12. Unmarked(i)'
  BY <1>2, <1>4, <1>5, <1>7, <1>8, <1>9 DEF Remembers, Unmarked
<1> QED
  BY <1>10, <1>11, <1>12

LEMMA TakeTold ==
    ASSUME IInv, Told, NEW i \in Instances, NEW w \in Workers, Take(i, w), UNCHANGED deployment
    PROVE  Told'
<1>1. TypeOK /\ job \in [Instances -> [Workers -> Job]] /\ local \in [Instances -> State \cup {None}]
  BY DEF IInv, TypeOK
<1>2. UNCHANGED <<used, window, coord, restarts, missed>>
  BY DEF Take, aside, history
<1>3. CASE UNCHANGED <<local, job>>
  BY <1>2, <1>3 DEF Told, Shared, Marks, Console, Coordinated, Minds, Carries, Unmarked, Settled, Accounts
<1>4. CASE ~ UNCHANGED <<local, job>>
  <2>1. /\ local[i] # None /\ job[i][w].at = "idle"
        /\ local' = [local EXCEPT ![i].queued = FALSE, ![i].running = TRUE, ![i].pending = FALSE]
        /\ job' = [job EXCEPT ![i][w].at = "begin"]
    BY <1>4 DEF Take
  <2>2. /\ local'[i] # None /\ local'[i].running
        /\ local'[i].generation = local[i].generation /\ local'[i].published = local[i].published
    <3>1. local[i] \in State
      BY <1>1, <2>1
    <3>2. local'[i] = [local[i] EXCEPT !.queued = FALSE, !.running = TRUE, !.pending = FALSE]
      BY <1>1, <2>1
    <3>3. local'[i] \in State
      BY <3>1, <3>2 DEF State
    <3> QED
      BY <3>1, <3>2, <3>3, Records DEF State
  <2>3. /\ job'[i][w].at = "begin" /\ job'[i][w].lg = job[i][w].lg
        /\ \A v \in Workers : v # w => job'[i][v] = job[i][v]
    <3>1. job[i][w] \in Job /\ job'[i][w] = [job[i][w] EXCEPT !.at = "begin"]
      BY <1>1, <2>1
    <3> QED
      BY <1>1, <2>1, <3>1 DEF Job
  <2>4. \A k \in Instances : k # i => local'[k] = local[k] /\ job'[k] = job[k]
    BY <1>1, <2>1
  <2>5. ASSUME Shared PROVE Minds(i)' /\ (\A v \in Workers : Carries(i, v)') /\ (Unmarked(i) => Unmarked(i)')
    <3>1. Minds(i) /\ \A v \in Workers : Carries(i, v)
      BY <2>5 DEF Told
    <3>2. Minds(i)'
      BY <2>1, <2>2, <3>1 DEF Minds
    <3>3. Carries(i, w)'
      BY <2>1, <2>2, <2>3, <3>1 DEF Carries, Unrecorded
    <3>4. ASSUME NEW v \in Workers, v # w PROVE Carries(i, v)'
      BY <2>1, <2>2, <2>3, <3>1, <3>4 DEF Carries
    <3>5. Unmarked(i) => Unmarked(i)'
      BY <2>2, <2>3 DEF Unmarked
    <3> QED
      BY <3>2, <3>3, <3>4, <3>5
  <2>6. Settled => Settled'
    <3> SUFFICES ASSUME Settled, ~ coord.dirty, NEW k \in Instances, NEW v \in Workers,
                        job'[k][v].at = "save"
                 PROVE  Accounts(job[k][v].read) /\ job'[k][v] = job[k][v]
      BY <1>2 DEF Settled, Accounts
    <3>1. k # i \/ v # w
      BY <2>3
    <3>2. job'[k][v] = job[k][v]
      BY <2>3, <2>4, <3>1
    <3> QED
      BY <3>2 DEF Settled
  <2> QED
    BY <1>2, <2>4, <2>5, <2>6, ToldKept DEF Told
<1> QED
  BY <1>3, <1>4

\* An entry that keeps its generations, and is still to be refreshed.
LEMMA RememberedTold ==
    ASSUME TypeOK, Told, NEW i \in Instances, NEW s,
           local[i] # None, s.generation = local[i].generation, s.published = local[i].published,
           s.pending \/ (s.running = local[i].running /\ s.pending = local[i].pending),
           Remembers(i, s), UNCHANGED <<deployment, used, window, job, coord, restarts, missed>>
    PROVE  Told'
<1>1. Shared => /\ Minds(i)' /\ (\A w \in Workers : Carries(i, w)')
                /\ Unmarked(i) => Unmarked(i)'
  BY DEF Told, Remembers, Minds, Carries, Unmarked
<1>2. Settled => Settled'
  BY DEF Settled, Accounts
<1> QED
  BY <1>1, <1>2, ToldKept DEF Remembers, Told

LEMMA RequeueTold ==
    ASSUME IInv, Told, NEW i \in Instances, Requeue(i) \/ RetryDue(i), UNCHANGED deployment
    PROVE  Told'
<1>1. TypeOK /\ local[i] # None /\ local[i] \in State /\ local \in [Instances -> State \cup {None}]
  BY DEF IInv, TypeOK, Requeue, RetryDue
<1>2. UNCHANGED <<used, window, job, coord, restarts, missed>>
  BY DEF Requeue, RetryDue, aside, history
<1>3. CASE Idle(local[i]) /\ local' = [local EXCEPT ![i] = None]
  <2>1. ~ Shared
    BY <1>1, <1>3 DEF Told, Minds, Idle
  <2> QED
    BY <1>2, <2>1 DEF Told, Shared, Marks, Console, Coordinated
<1>4. CASE local[i].pending /\ Enqueue(i, local[i])
  BY <1>1, <1>2, <1>4, EntryRemembers, RememberedTold
<1>5. CASE RetryDue(i)
  <2> DEFINE s == [local[i] EXCEPT !.wait = "no"]
  <2>1. /\ s \in State /\ s.generation = local[i].generation /\ s.published = local[i].published
        /\ s.running = local[i].running /\ s.pending = local[i].pending
    BY <1>1 DEF State
  <2>2. Keep(i, s)
    BY <1>5 DEF RetryDue, Keep
  <2> HIDE DEF s
  <2>3. Remembers(i, s)
    BY <1>1, <2>1, <2>2, EntryRemembers
  <2> QED
    BY <1>1, <1>2, <2>1, <2>3, RememberedTold
<1> QED
  BY <1>3, <1>4, <1>5 DEF Requeue

LEMMA RecoverTold ==
    ASSUME IInv, Told, NEW i \in Instances, RecoverApply(i), UNCHANGED deployment
    PROVE  Told'
<1>1. TypeOK /\ EntryFits(i) /\ listed[i] \in Nat
  BY DEF IInv, Entries, TypeOK
<1>2. UNCHANGED <<used, window, job, coord, restarts, missed>>
  BY DEF RecoverApply, aside, history
<1> DEFINE s == Recovered(i)
<1>3. Keep(i, s) \/ Enqueue(i, s)
  BY DEF RecoverApply
<1>4. CASE local[i] = None
  <2>1. s = [generation |-> 1, published |-> 1, shared |-> listed[i], queued |-> FALSE,
             running |-> FALSE, pending |-> TRUE, wait |-> "no"]
    BY <1>4 DEF Recovered, Fresh
  <2> HIDE DEF s
  <2>2. s \in State /\ s.generation = 1 /\ s.published = 1 /\ s.pending
    BY <1>1, <2>1 DEF State
  <2>3. Remembers(i, s)
    BY <1>1, <1>3, <2>2, EntryRemembers
  <2>4. \A w \in Workers : job[i][w].at = "idle"
    BY <1>1, <1>4 DEF EntryFits, Busy, Running
  <2>5. Shared => /\ Minds(i)' /\ (\A w \in Workers : Carries(i, w)') /\ ~ Unmarked(i)
    BY <1>2, <1>4, <2>2, <2>3, <2>4 DEF Told, Remembers, Minds, Carries, Unmarked, Unrecorded
  <2> QED
    BY <1>2, <2>3, <2>5, ToldKept DEF Remembers, Told, Settled, Accounts
<1>5. CASE local[i] # None
  <2> DEFINE sh == IF listed[i] > local[i].shared THEN listed[i] ELSE local[i].shared
  <2>1. s = [local[i] EXCEPT !.shared = sh, !.pending = TRUE] /\ local[i] \in State
    BY <1>1, <1>5 DEF Recovered, TypeOK
  <2>2. sh \in Nat
    BY <1>1, <2>1 DEF State
  <2> HIDE DEF sh, s
  <2>3. s \in State /\ s.generation = local[i].generation /\ s.published = local[i].published /\ s.pending
    BY <2>1, <2>2 DEF State
  <2>4. Remembers(i, s)
    BY <1>1, <1>3, <2>3, EntryRemembers
  <2> QED
    BY <1>1, <1>2, <1>5, <2>3, <2>4, RememberedTold
<1> QED
  BY <1>4, <1>5

\* How a flight goes on, and what becomes of the entry meanwhile.
Ends(i, w) == job'[i][w].at = "idle" /\ job'[i][w].lg = 0

Restarts(i, w) == job'[i][w].at = "begin" /\ job'[i][w].lg = job[i][w].lg

Advances(i, w) ==
    /\ job[i][w].at \notin Unrecorded /\ job'[i][w].at \notin Unrecorded
    /\ job'[i][w].lg = job[i][w].lg

Starts(i, w) ==
    /\ job'[i][w].lg = local[i].generation
    /\ \/ job'[i][w].at = "publish"
       \/ job'[i][w].at \notin Unrecorded /\ local[i].generation <= local[i].published

Marking(i, w) ==
    /\ job[i][w].at = "publish" /\ job'[i][w].at = "record"
    /\ job'[i][w].lg = job[i][w].lg
    /\ coord' = Marked

EntryStays(i) ==
    /\ local'[i] # None
    /\ local'[i].generation = local[i].generation /\ local'[i].published = local[i].published
    /\ local'[i].running \/ local'[i].pending

Recording(i, w) ==
    /\ job[i][w].at = "record" /\ job'[i][w].at = "lock" /\ job'[i][w].lg = job[i][w].lg
    /\ local'[i] # None /\ local'[i].generation = local[i].generation /\ local'[i].running
    /\ local'[i].published = IF local[i].published < job[i][w].lg THEN job[i][w].lg ELSE local[i].published

Dropping(i, w) ==
    /\ job[i][w].at \in {"settle", "finish"} /\ job[i][w].lg = local[i].generation
    /\ local'[i] = None
    /\ Ends(i, w)

LEMMA FlightMemory ==
    ASSUME TypeOK, NEW i \in Instances, NEW w \in Workers, Running(i), ~ Queued(i), Shared,
           FlightStep(i, w) \/ Fail(i, w), UNCHANGED deployment
    PROVE  \/ Recording(i, w)
           \/ Dropping(i, w)
           \/ /\ EntryStays(i)
              /\ Ends(i, w) \/ Restarts(i, w) \/ Advances(i, w) \/ Starts(i, w) \/ Marking(i, w)
<1>1. /\ job \in [Instances -> [Workers -> Job]] /\ local \in [Instances -> State \cup {None}]
      /\ job[i][w] \in Job /\ local[i] \in State /\ local[i] # None /\ local[i].running
      /\ job[i][w].lg \in Nat /\ ~ Console /\ Coordinated
  BY DEF TypeOK, Running, Job, Shared, Marks
<1>k. ASSUME UNCHANGED local PROVE EntryStays(i)
  BY <1>1, <1>k DEF EntryStays
<1>r. ASSUME Return(i, w) PROVE Ends(i, w)
  <2>1. job'[i][w] = NoJob
    BY <1>1, <1>r DEF Return
  <2> QED
    BY <2>1 DEF Ends, NoJob
<1>g. ASSUME NEW s, Goto(i, w, s) PROVE job'[i][w].at = s /\ job'[i][w].lg = job[i][w].lg
  <2>1. job'[i][w] = [job[i][w] EXCEPT !.at = s]
    BY <1>1, <1>g DEF Goto
  <2> QED
    BY <1>1, <2>1 DEF Job
<1>h. ASSUME NEW s, Goto(i, w, s), s \notin Unrecorded, job[i][w].at \notin Unrecorded
      PROVE  Advances(i, w)
  BY <1>g, <1>h DEF Advances
<1>b. ASSUME Goto(i, w, "begin") PROVE Restarts(i, w)
  BY <1>b, <1>g DEF Restarts
<1>d. ASSUME Defer(i, w, "retry") PROVE EntryStays(i) /\ Ends(i, w)
  <2>1. local'[i] = [local[i] EXCEPT !.running = FALSE, !.pending = TRUE, !.wait = "retry"]
    BY <1>1, <1>d DEF Defer
  <2>2. /\ local'[i] \in State /\ local'[i].pending
        /\ local'[i].generation = local[i].generation /\ local'[i].published = local[i].published
    BY <1>1, <2>1 DEF State
  <2> QED
    BY <1>d, <1>r, <2>2, Records DEF Defer, EntryStays
<1>t. ASSUME Trail(i, w) PROVE EntryStays(i) /\ Restarts(i, w)
  BY <1>1, <1>b, <1>k, <1>t DEF Trail
<1>2. CASE Begin(i, w)
  <2> DEFINE st == IF Coordinated /\ local[i].published < local[i].generation THEN "publish"
                   ELSE IF Coordinated /\ local[i].shared > 0 THEN "check" ELSE "lock"
  <2>1. job'[i][w] = [NoJob EXCEPT !.at = st, !.lg = local[i].generation, !.sg = local[i].shared]
    BY <1>1, <1>2 DEF Begin
  <2>2. job'[i][w].at = st /\ job'[i][w].lg = local[i].generation
    BY <2>1 DEF NoJob
  <2>3. Starts(i, w)
    <3>1. local[i].published \in Nat /\ local[i].generation \in Nat
      BY <1>1 DEF State
    <3> QED
      BY <1>1, <2>2, <3>1 DEF Starts, Unrecorded
  <2>4. local'[i] = [local[i] EXCEPT !.pending = FALSE]
    BY <1>1, <1>2 DEF Begin
  <2>5. local'[i] \in State /\ local'[i].running
        /\ local'[i].generation = local[i].generation /\ local'[i].published = local[i].published
    BY <1>1, <2>4 DEF State
  <2> QED
    BY <2>3, <2>5, Records DEF EntryStays
<1>3. CASE Publish(i, w)
  <2>1. job'[i][w] = [job[i][w] EXCEPT !.at = "record", !.sg = coord.gen + 1]
    BY <1>1, <1>3 DEF Publish
  <2>2. job'[i][w].at = "record" /\ job'[i][w].lg = job[i][w].lg
    BY <1>1, <2>1 DEF Job
  <2> QED
    BY <1>3, <1>k, <2>2 DEF Publish, Marking
<1>4. CASE Record(i, w)
  <2>1. job[i][w].at = "record" /\ job'[i][w].at = "lock" /\ job'[i][w].lg = job[i][w].lg
    BY <1>4, <1>g DEF Record
  <2>2. CASE local[i].published < job[i][w].lg
    <3>1. local'[i] = [local[i] EXCEPT !.published = job[i][w].lg, !.shared = job[i][w].sg]
      BY <1>1, <1>4, <2>2 DEF Record
    <3>2. job[i][w].sg \in Nat
      BY <1>1 DEF Job
    <3>3. /\ local'[i] \in State /\ local'[i].generation = local[i].generation /\ local'[i].running
          /\ local'[i].published = job[i][w].lg
      BY <1>1, <3>1, <3>2 DEF State
    <3> QED
      BY <2>1, <2>2, <3>3, Records DEF Recording
  <2>3. CASE ~ (local[i].published < job[i][w].lg)
    <3>1. UNCHANGED local
      BY <1>4, <2>3 DEF Record
    <3> QED
      BY <1>1, <2>1, <2>3, <3>1 DEF Recording
  <2> QED
    BY <2>2, <2>3
<1>5. CASE Check(i, w)
  <2> DEFINE st == IF coord.gen > job[i][w].sg THEN "adopt"
                   ELSE IF ~ coord.dirty /\ coord.gen = job[i][w].sg THEN "settle" ELSE "lock"
  <2>1. job'[i][w] = [job[i][w] EXCEPT !.at = st, !.gen = coord.gen, !.dirty = coord.dirty]
    BY <1>1, <1>5 DEF Check
  <2>2. job'[i][w].at = st /\ job'[i][w].lg = job[i][w].lg
    BY <1>1, <2>1 DEF Job
  <2>3. Advances(i, w)
    BY <1>5, <2>2 DEF Check, Advances, Unrecorded
  <2> QED
    BY <1>5, <1>k, <2>3 DEF Check
<1>6. CASE Adopt(i, w)
  <2>1. PICK st \in {"settle", "lock"} :
           job'[i][w] = [job[i][w] EXCEPT !.sg = job[i][w].gen, !.at = st]
    BY <1>1, <1>6 DEF Adopt
  <2>2. job'[i][w].at = st /\ job'[i][w].lg = job[i][w].lg
    BY <1>1, <2>1 DEF Job
  <2>3. Advances(i, w)
    BY <1>6, <2>2 DEF Adopt, Advances, Unrecorded
  <2>4. local'[i] = [local[i] EXCEPT !.shared = job[i][w].gen] /\ job[i][w].gen \in Nat
    BY <1>1, <1>6 DEF Adopt, Job
  <2>5. local'[i] \in State /\ local'[i].running
        /\ local'[i].generation = local[i].generation /\ local'[i].published = local[i].published
    BY <1>1, <2>4 DEF State
  <2> QED
    BY <2>3, <2>5, Records DEF EntryStays
<1>7. CASE Settle(i, w)
  <2>1. Ends(i, w) /\ job[i][w].at = "settle"
    BY <1>7, <1>r DEF Settle
  <2>2. CASE local[i].generation = job[i][w].lg
    <3>1. local'[i] = None
      BY <1>1, <1>7, <2>2 DEF Settle
    <3> QED
      BY <2>1, <2>2, <3>1 DEF Dropping
  <2>3. CASE local[i].generation # job[i][w].lg
    BY <1>7, <1>k, <2>1, <2>3 DEF Settle
  <2> QED
    BY <2>2, <2>3
<1>8. CASE SkipUpstream(i, w) \/ Decide(i, w) \/ Save(i, w) \/ JoinedSave(i, w)
  <2>1. PICK s \in {"compare", "fetch"} : Goto(i, w, s)
    BY <1>8 DEF SkipUpstream, Decide, Save, JoinedSave
  <2>2. UNCHANGED local /\ job[i][w].at \in {"lock", "save", "join"}
    BY <1>8 DEF SkipUpstream, Decide, Save, JoinedSave
  <2> QED
    BY <1>h, <1>k, <2>1, <2>2 DEF Unrecorded
<1>9. CASE Acquire(i, w)
  <2>1. CASE Defer(i, w, "retry")
    BY <1>d, <2>1
  <2>2. CASE UNCHANGED <<local, job>>
    BY <1>9, <1>k, <2>2 DEF Acquire, Advances, Unrecorded
  <2> QED
    BY <1>9, <2>1, <2>2 DEF Acquire
<1>10. CASE Fetch(i, w)
  <2>1. job'[i][w] = [job[i][w] EXCEPT !.at = "save", !.read = used]
    BY <1>1, <1>10 DEF Fetch
  <2>2. job'[i][w].at = "save" /\ job'[i][w].lg = job[i][w].lg
    BY <1>1, <2>1 DEF Job
  <2> QED
    BY <1>10, <1>k, <2>2 DEF Fetch, Advances, Unrecorded
<1>16. CASE Join(i, w)
  <2>1. job'[i][w] = [job[i][w] EXCEPT !.at = "join", !.read = outside[i]["mode"]]
    BY <1>1, <1>16 DEF Join
  <2>2. job'[i][w].at = "join" /\ job'[i][w].lg = job[i][w].lg
    BY <1>1, <2>1 DEF Job
  <2> QED
    BY <1>16, <1>k, <2>2 DEF Join, Advances, Unrecorded
<1>11. CASE Compare(i, w)
  <2>1. \E x, y : job'[i][w] = [job[i][w] EXCEPT !.at = "decide", !.gen = x, !.dirty = y]
    BY <1>1, <1>11 DEF Compare
  <2>2. job'[i][w].at = "decide" /\ job'[i][w].lg = job[i][w].lg
    BY <1>1, <2>1 DEF Job
  <2> QED
    BY <1>11, <1>k, <2>2 DEF Compare, Advances, Unrecorded
<1>12. CASE Trailing(i, w)
  <2>1. Trail(i, w) \/ \E s \in {"clear", "finish"} : Goto(i, w, s) /\ UNCHANGED local
    BY <1>12 DEF Trailing
  <2>2. job[i][w].at = "decide"
    BY <1>12 DEF Trailing
  <2> QED
    BY <1>h, <1>k, <1>t, <2>1, <2>2 DEF Unrecorded
<1>13. CASE ClearDirty(i, w)
  <2>1. Trail(i, w) \/ (Goto(i, w, "finish") /\ UNCHANGED local)
    BY <1>13 DEF ClearDirty
  <2>2. job[i][w].at = "clear"
    BY <1>13 DEF ClearDirty
  <2> QED
    BY <1>h, <1>k, <1>t, <2>1, <2>2 DEF Unrecorded
<1>14. CASE Finish(i, w)
  <2>1. CASE local[i].generation = job[i][w].lg
    <3>1. local'[i] = None /\ Return(i, w) /\ job[i][w].at = "finish"
      BY <1>1, <1>14, <2>1 DEF Finish
    <3> QED
      BY <1>r, <2>1, <3>1 DEF Dropping
  <2>2. CASE local[i].generation # job[i][w].lg
    BY <1>1, <1>14, <1>b, <1>k, <2>2 DEF Finish
  <2> QED
    BY <2>1, <2>2
<1>15. CASE Fail(i, w)
  <2>1. Trail(i, w) \/ Defer(i, w, "retry")
    BY <1>15 DEF Fail
  <2> QED
    BY <1>d, <1>t, <2>1
<1> QED
  BY <1>2, <1>3, <1>4, <1>5, <1>6, <1>7, <1>8, <1>9, <1>10, <1>11, <1>12, <1>13, <1>14, <1>15,
     <1>16 DEF FlightStep

\* Once a flight has cleared the mark, no snapshot misses what it stood for.
LEMMA FlightCovers ==
    ASSUME IInv, Told, NEW i \in Instances, NEW w \in Workers, FlightStep(i, w) \/ Fail(i, w),
           UNCHANGED deployment, Shared
    PROVE  Settled'
<1> SUFFICES ASSUME ~ coord'.dirty
             PROVE  /\ Accounts(window)'
                    /\ \A k \in Instances, v \in Workers :
                         job'[k][v].at = "save" => Accounts(job[k][v].read)'
  BY DEF Settled
<1>1. /\ TypeOK /\ Reads /\ Snapshots /\ Running(i) /\ ~ Queued(i) /\ FlightFits(i, w)
      /\ coord \in Entry /\ coord.covers \in Nat /\ window \in Nat /\ missed \in Nat /\ used \in Nat
      /\ coord.covers <= used /\ \A v \in Workers : Busy(i, v) => v = w
      /\ job \in [Instances -> [Workers -> Job]]
  BY FlightBusy, DeploymentType DEF IInv, Entries, EntryFits, Generations, Shared, TypeOK, Entry
<1>2. missed' >= missed /\ missed' \in Nat /\ window' \in Nat /\ used' = used
  BY <1>1, FlightSnapshots, FlightShape, DeploymentType DEF Flies
<1>3. /\ Accounts(window)
      /\ \A k \in Instances, v \in Workers : job[k][v].at = "save" => Accounts(job[k][v].read)
  <2>1. CASE coord' = coord
    BY <2>1 DEF Told, Settled
  <2>2. CASE coord' = Marked
    BY <2>2 DEF Marked
  <2>3. CASE job[i][w].at = "clear" /\ Clears(i, w)
    <3>1. Past(i, w)
      BY <2>3 DEF Past, Clears
    <3> QED
      BY <1>1, <2>3, <3>1 DEF FlightFits, Clears, IInv, Generations, Shared, SaverFits
  <2> QED
    BY <1>1, <2>1, <2>2, <2>3, FlightCoord
<1>4. coord'.covers = coord.covers
  <2>1. coord' # Marked
    BY DEF Marked
  <2>2. Cleared.covers = coord.covers
    BY <1>1 DEF Cleared, Entry
  <2> QED
    BY <1>1, <2>1, <2>2, FlightCoord
<1>5. \A n \in Nat : Accounts(n) => n >= coord'.covers \/ missed' >= coord'.covers
  BY <1>1, <1>2, <1>4 DEF Accounts
<1>6. Accounts(window)'
  <2>1. CASE Save(i, w)
    <3>1. Accounts(job[i][w].read) /\ window' = job[i][w].read /\ job[i][w].read \in Nat
      BY <1>2, <1>3, <2>1 DEF Save
    <3> QED
      BY <1>5, <3>1 DEF Accounts
  <2>2. CASE JoinedSave(i, w)
    <3>1. window' >= coord.covers \/ missed' >= coord.covers
      BY <1>1, <1>3, <2>2, SavedOutside DEF JoinedSave, FlightKeys, Accounts
    <3> QED
      BY <1>4, <3>1 DEF Accounts
  <2>3. CASE UNCHANGED window
    BY <1>1, <1>3, <1>5, <2>3 DEF Accounts
  <2> QED
    BY <2>1, <2>2, <2>3 DEF FlightStep, Fail, Begin, Publish, Record, Check, Adopt, Settle,
       SkipUpstream, Decide, Acquire, Fetch, Join, Compare, Trailing, ClearDirty, Finish, history, aside
<1>7. ASSUME NEW k \in Instances, NEW v \in Workers, job'[k][v].at = "save"
      PROVE  Accounts(job[k][v].read)'
  <2>1. CASE k = i /\ v = w
    <3>0. Fetch(i, w)
      BY <1>1, <1>7, <2>1, FlightStages
    <3>1. job'[i][w] = [job[i][w] EXCEPT !.at = "save", !.read = used]
      BY <1>1, <3>0 DEF Fetch
    <3>2. job'[i][w].read = used
      BY <1>1, <3>1 DEF Job
    <3> QED
      BY <1>1, <1>4, <2>1, <3>2 DEF Accounts
  <2>2. CASE k # i \/ v # w
    <3>1. job'[k][v] = job[k][v] /\ job[k][v].read \in Nat
      BY <1>1, <2>2, FlightShape, GotoType, DeploymentType DEF Flies, Job
    <3> QED
      BY <1>3, <1>5, <1>7, <3>1 DEF Accounts
  <2> QED
    BY <2>1, <2>2
<1> QED
  BY <1>6, <1>7

LEMMA FlightTold ==
    ASSUME IInv, Told, NEW i \in Instances, NEW w \in Workers, FlightStep(i, w) \/ Fail(i, w),
           UNCHANGED deployment
    PROVE  Told'
<1>1. TypeOK /\ Running(i) /\ ~ Queued(i) /\ local[i] # None /\ local[i] \in State /\ job[i][w] \in Job
  BY FlightBusy DEF IInv, Entries, EntryFits, TypeOK, Running
<1>2. UNCHANGED <<used, restarts>>
  BY <1>1, FlightShape DEF Flies
<1>3. \A v \in Workers : v # w => job'[i][v] = job[i][v]
  BY <1>1, FlightShape, GotoType DEF Flies
<1>4. \A k \in Instances : k # i => local'[k] = local[k] /\ job'[k] = job[k]
  <2>1. \E j \in Job : Sets(i, w, j)
    BY <1>1, FlightShape DEF Flies
  <2>2. \A k \in Instances : k # i => job'[k] = job[k]
    BY <1>1, <2>1 DEF Sets, TypeOK
  <2>3. \A k \in Instances : k # i => local'[k] = local[k]
    BY <1>1, FlightShape DEF Flies, EntryAfter, TypeOK
  <2> QED
    BY <2>2, <2>3
<1> SUFFICES ASSUME Shared
             PROVE  /\ Minds(i)' /\ \A v \in Workers : Carries(i, v)'
                    /\ coord'.covers < used' =>
                         coord.covers < used /\ (Unmarked(i) => Unmarked(i)')
  BY <1>2, <1>4, FlightCovers, ToldKept
<1>5. /\ Minds(i) /\ \A v \in Workers : Carries(i, v)
      /\ job[i][w].lg \in Nat /\ local[i].generation \in Nat /\ local[i].published \in Nat
  BY <1>1 DEF Told, Job, State
<1>6. \/ Recording(i, w)
      \/ Dropping(i, w)
      \/ /\ EntryStays(i)
         /\ Ends(i, w) \/ Restarts(i, w) \/ Advances(i, w) \/ Starts(i, w) \/ Marking(i, w)
  BY <1>1, FlightMemory
<1>7. local'[i] # None => /\ local'[i].generation = local[i].generation
                          /\ local'[i].published \in Nat /\ local'[i].published >= local[i].published
  BY <1>5, <1>6 DEF Recording, Dropping, EntryStays
<1>8. Minds(i)'
  BY <1>1, <1>5, <1>6 DEF Minds, Carries, Recording, Dropping, EntryStays
<1>9. \A v \in Workers : v # w => Carries(i, v)'
  <2> SUFFICES ASSUME NEW v \in Workers, v # w PROVE Carries(i, v)'
    OBVIOUS
  <2>1. job'[i][v] = job[i][v] /\ Carries(i, v) /\ job[i][v].lg \in Nat
    BY <1>3, <1>5, <1>1 DEF TypeOK, Job
  <2> QED
    BY <1>1, <1>5, <1>7, <2>1 DEF Carries
<1>10. Carries(i, w)'
  <2>1. CASE Recording(i, w)
    BY <1>1, <1>5, <2>1 DEF Carries, Recording, Unrecorded
  <2>2. CASE Dropping(i, w)
    BY <2>2 DEF Carries, Dropping, Ends
  <2>3. CASE EntryStays(i) /\ ~ Starts(i, w)
    BY <1>1, <1>5, <1>6, <2>3
       DEF Carries, EntryStays, Ends, Restarts, Advances, Marking, Recording, Dropping, Unrecorded
  <2>4. CASE EntryStays(i) /\ Starts(i, w)
    BY <1>5, <2>4 DEF Carries, EntryStays, Starts, Unrecorded
  <2> QED
    BY <1>6, <2>1, <2>2, <2>3, <2>4
<1>11. ASSUME coord'.covers < used' PROVE coord.covers < used
  <2>1. coord' # Marked
    BY <1>1, <1>2, <1>11 DEF Marked, TypeOK
  <2>2. coord'.covers = coord.covers
    <3>1. Cleared.covers = coord.covers
      BY <1>1 DEF Cleared, TypeOK, Entry
    <3> QED
      BY <1>1, <2>1, <3>1, FlightCoord
  <2> QED
    BY <1>2, <1>11, <2>2
<1>12. ASSUME coord'.covers < used', Unmarked(i) PROVE Unmarked(i)'
  <2>1. ~ Marking(i, w)
    <3>1. coord' # Marked
      BY <1>1, <1>2, <1>12 DEF Marked, TypeOK
    <3> QED
      BY <3>1 DEF Marking
  <2>2. ~ Dropping(i, w)
    BY <1>1, <1>5, <1>12 DEF Unmarked, Dropping, Carries, Unrecorded
  <2>3. local'[i] # None /\ local'[i].published < local'[i].generation
    BY <1>1, <1>5, <1>6, <1>12, <2>2 DEF Unmarked, Recording, EntryStays, Carries
  <2>4. job'[i][w].at # "record"
    BY <1>6, <2>1, <2>2 DEF Recording, Ends, Restarts, Advances, Starts, Unrecorded
  <2> QED
    BY <1>3, <1>7, <1>12, <2>3, <2>4 DEF Unmarked
<1> QED
  BY <1>8, <1>9, <1>10, <1>11, <1>12

LEMMA InitTold == Init => Told
  BY DEF Init, Told, Minds, Carries, NoJob, NoEntry, Unrecorded, Settled, Accounts

LEMMA NextTold == IInv /\ Told /\ [Next /\ UNCHANGED deployment]_<<deployment, vars>> => Told'
<1> SUFFICES ASSUME IInv, Told, [Next /\ UNCHANGED deployment]_<<deployment, vars>> PROVE Told'
  OBVIOUS
<1>1. ASSUME UNCHANGED <<deployment, used, local, job, coord, restarts>>,
             Accounts(window) => Accounts(window)',
             \A k \in Instances, v \in Workers : Accounts(job[k][v].read) => Accounts(job[k][v].read)'
      PROVE  Told'
  BY <1>1 DEF Told, Shared, Marks, Console, Coordinated, Minds, Carries, Unmarked, Settled
<1>4. ASSUME UNCHANGED <<deployment, used, window, local, job, coord, restarts, missed>> PROVE Told'
  BY <1>1, <1>4 DEF Accounts
<1>5. ASSUME NEW i \in Instances, NEW k \in FlightKeys, OutsideSave(i, k), UNCHANGED deployment
      PROVE  Told'
  <2>1. /\ TypeOK /\ Snapshots /\ missed \in Nat /\ coord.covers \in Nat
        /\ \A h \in Instances, v \in Workers : job[h][v].read \in Nat
    BY DeploymentType DEF IInv, TypeOK, Entry, Job
  <2>2. SavesOutside(i, k) /\ UNCHANGED <<used, local, job, coord, restarts>>
    BY <1>5 DEF OutsideSave
  <2>3. /\ missed' >= missed /\ missed' \in Nat
        /\ window >= coord.covers \/ missed >= coord.covers
             => window' >= coord.covers \/ missed' >= coord.covers
    BY <2>1, <2>2, SavedOutside, DeploymentType
  <2> QED
    BY <1>1, <1>5, <2>1, <2>2, <2>3 DEF Accounts
<1>2. ASSUME NEW i \in Instances, Restart(i) PROVE Told'
  BY <1>2 DEF Restart, IInv, TypeOK, Told, Shared
<1>3. CASE MarkExpires /\ UNCHANGED deployment
  BY <1>3 DEF MarkExpires, Told, Shared, Marks, Console
<1> QED
  BY <1>2, <1>3, <1>4, <1>5, FlightTold, QueueTold, TakeTold, RequeueTold, RecoverTold
     DEF Next, vars, aside, history, RecoverList, OutsideRead, OutsideFail, IntervalPasses,
         LockExpires, LockLapses

(* When every instance has dropped the key and the mark is cleared, no     *)
(* request is missing from the window, whatever flights of any number of   *)
(* instances marked, noted, listed and cleared in between, unless a        *)
(* refresh without the lock left the newest one out.                       *)
THEOREM SignalsKept == Spec => []NothingForgotten
<1>1. IInv /\ Told => NothingForgotten
  <2> SUFFICES ASSUME IInv, Told, Shared, ~ coord.dirty, \A i \in Instances : local[i] = None
               PROVE  window = used \/ missed = used
    BY DEF NothingForgotten, Shared, Marks
  <2>1. /\ window \in Nat /\ used \in Nat /\ coord.covers \in Nat /\ missed \in Nat
        /\ window <= used /\ missed <= used
    BY DeploymentType DEF IInv, TypeOK, Entry, Snapshots
  <2>2. ~ (coord.covers < used)
    BY DEF Told, Unmarked
  <2>3. coord.covers <= window \/ coord.covers <= missed
    BY <2>1 DEF Told, Settled, Accounts
  <2> QED
    BY <2>1, <2>2, <2>3
<1>2. Init /\ [][Next /\ UNCHANGED deployment]_<<deployment, vars>> /\ []IInv => []Told
  BY InitTold, NextTold, PTL
<1> QED
  BY <1>1, <1>2, Invariant, PTL DEF Spec
=============================================================================
