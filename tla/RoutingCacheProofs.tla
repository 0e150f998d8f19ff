--------------------------- MODULE RoutingCacheProofs ---------------------------
(***************************************************************************)
(* What no process believes for longer than it should, for every lifetime  *)
(* of a snapshot, duration of a query, number of writes and length of a    *)
(* behaviour.                                                              *)
(*                                                                         *)
(* A value misses a change when it does not show it. The invariant follows *)
(* what was read from the layer to the flight, the snapshot, the route and *)
(* the candidates: at each of these places it says how long after a change *)
(* that it misses the value may still be there, and that a value under the *)
(* current version misses no change whose invalidation has arrived.        *)
(***************************************************************************)
EXTENDS RoutingCache, TLAPS

Age == TTL + StaleTTL

\* The value of the layer does not show the change of that time.
Missed(l, v, t) ==
    \/ v.writes < stored[l] /\ t = written[l][v.writes + 1]
    \/ l = "base" /\ ~ v.cooled /\ failedAt # NotYet /\ t = failedAt

\* No change that the value misses is more than d before x.
Within(l, v, x, d) == \A t \in Nat : Missed(l, v, t) => x <= t + d

\* The failure is known and no override stands before what was read.
Spared == known /\ ~ bared /\ override = 0 /\ clock < failedAt + OverrideLife

\* The value shows what the process knows of the layer.
UpToDate(l, v) == v.writes >= applied[l] /\ (l = "base" /\ Spared => v.cooled)

\* A snapshot in its place or under a flight.
Kept(l, s) ==
    s.there => /\ s.expiresAt <= s.staleUntil /\ s.staleUntil <= clock + Age
               /\ Within(l, s.value, s.staleUntil, Age)

InPlace(l, s) == Kept(l, s) /\ (s.there /\ s.current => UpToDate(l, s.value))

\* A flight that loads the layer.
Flying(l, f) ==
    f.stage # "idle" =>
        /\ f.check <= clock /\ clock <= f.check + LoadTime
        /\ Kept(l, f.old) /\ (f.old.there => f.check < f.old.staleUntil)
        /\ f.old.there /\ f.current => UpToDate(l, f.old.value)
        /\ f.stage = "loaded" => /\ Within(l, f.value, f.check, 0)
                                 /\ f.current => UpToDate(l, f.value)

\* The route has what it needs of the layer.
Passed(l, r) == r.stage = "settling" \/ (l = "base" /\ r.stage = "overlay")

Routed(l, r) ==
    /\ r.check <= clock /\ r.since[l] <= applied[l]
    /\ r.current[l] => UpToDate(l, r.got[l])
    /\ Passed(l, r) => Within(l, r.got[l], r.check + 1, Age + LoadTime)
    /\ r.stage = "done" => r.got[l].writes >= r.since[l]

\* The candidates that requests are served.
Candidates(l, a) ==
    a.there => /\ a.expiresAt <= clock + TTL
               /\ UpToDate(l, a.got[l])
               /\ Within(l, a.got[l], a.expiresAt + 1, Longest)

Changes ==
    /\ \A l \in Layers : stored[l] <= bound.writes[l] /\ applied[l] <= stored[l]
    /\ \A l \in Layers : l \notin bound.layers => stored[l] = 0
    /\ \A l \in Layers, n \in 1 .. MaxWrites : <<l, n>> \in events => n <= stored[l]
    /\ \A l \in Layers, n \in 0 .. MaxWrites : <<l, n>> \in arriving => n <= stored[l]

Overrides ==
    /\ known \/ <<"health", 1>> \in events => failedAt # NotYet
    /\ override > 0 => known /\ override = failedAt + OverrideLife

\* Naming the value of a variable lets a prime fall on the predicate alone.
Snaps == \A l \in Layers : \A s \in {snap[l]} : InPlace(l, s)
Loads == \A l \in Layers : \A f \in {load[l]} : Flying(l, f)
Routes == \A l \in Layers : \A r \in {route} : Routed(l, r)
Assemblies == \A l \in Layers : \A a \in {assembled} : Candidates(l, a)

IInv == TypeOK /\ Changes /\ Overrides /\ Snaps /\ Loads /\ Routes /\ Assemblies

-----------------------------------------------------------------------------
(* The constants, and the records.                                         *)

LEMMA Constants ==
    ASSUME bound \in Bounds
    PROVE /\ TTL \in Nat /\ StaleTTL \in Nat /\ RetryTTL \in Nat /\ LoadTime \in Nat
          /\ TTL >= 1 /\ StaleTTL >= 1
          /\ Age \in Nat /\ Longest \in Nat /\ OverrideLife = Age
          /\ 1 <= Age + LoadTime /\ TTL < Longest
          /\ "base" \in bound.layers /\ bound.layers \subseteq Layers
          /\ bound.writes["base"] \in Nat /\ bound.writes["overlay"] \in Nat
          /\ MaxWrites \in Nat /\ MaxTime \in Nat
          /\ \A l \in Layers : bound.writes[l] \in Nat /\ bound.writes[l] <= MaxWrites
  BY RoutingAssumption DEF RoutingAssumption, Bounded, Age, Longest, OverrideLife, MaxWrites, MaxTime, Layers

LEMMA Records ==
    /\ Blank \in Value /\ None \in Snapshot /\ NoLoad \in Load /\ NoRoute \in Route
    /\ NoAssembly \in Assembly
  BY DEF Blank, Value, None, Snapshot, NoLoad, Load, NoRoute, Route, NoAssembly, Assembly, Layers

\* Time goes on, and nothing that was seen is forgotten.
Later ==
    /\ bound' = bound /\ clock' \in Nat /\ clock <= clock'
    /\ \A l \in Layers : applied[l] <= applied'[l]
    /\ \A l \in Layers, v \in Value, x, d \in Nat :
           Within(l, v, x, d) /\ x <= clock + d => Within(l, v, x, d)'

\* What shows all the process knows of the layer still does.
Holds(l) == \A v \in Value : UpToDate(l, v) => UpToDate(l, v)'

\* A change of the database is missed by what was read before it, from now on.
LEMMA Grows ==
    ASSUME \A l \in Layers, v \in Value, t \in Nat : Missed(l, v, t)' => Missed(l, v, t) \/ t = clock
    PROVE \A l \in Layers, v \in Value, x, d \in Nat :
              Within(l, v, x, d) /\ x <= clock + d => Within(l, v, x, d)'
  BY DEF Within

\* A step of a flight changes nothing that values are compared with.
LEMMA Quiet ==
    ASSUME TypeOK, UNCHANGED <<bound, clock, database, applied, health>>
    PROVE Later /\ \A l \in Layers : Holds(l)
<1>1. clock \in Nat /\ applied \in [Layers -> Nat]
  BY Constants DEF TypeOK
<1>2. \A l \in Layers, v \in Value, t \in Nat : Missed(l, v, t)' => Missed(l, v, t)
  BY DEF Missed, database, NotYet, MaxTime
<1>3. \A l \in Layers : Holds(l)
  BY DEF Holds, UpToDate, Spared, health, database, OverrideLife
<1> QED
  BY <1>1, <1>2, <1>3, Grows DEF Later

LEMMA KeptStays ==
    ASSUME TypeOK, Later, NEW l \in Layers, NEW s \in Snapshot, Kept(l, s)
    PROVE Kept(l, s)'
<1>1. s.value \in Value /\ s.staleUntil \in Nat /\ Age \in Nat /\ clock \in Nat /\ clock' \in Nat
  BY Constants DEF Snapshot, TypeOK, Later
<1>2. s.there => Within(l, s.value, s.staleUntil, Age)'
  BY <1>1 DEF Kept, Later
<1> QED
  BY <1>1, <1>2 DEF Kept, Later

LEMMA InPlaceStays ==
    ASSUME TypeOK, Later, NEW l \in Layers, Holds(l), NEW s \in Snapshot, InPlace(l, s)
    PROVE InPlace(l, s)'
<1>1. s.value \in Value
  BY DEF Snapshot
<1> QED
  BY <1>1, KeptStays DEF InPlace, Holds

\* A flight stays as it is, or its result is no longer wanted.
LEMMA FlyingStays ==
    ASSUME TypeOK, Later, NEW l \in Layers, NEW f \in Load, Flying(l, f),
           f.stage # "idle" => clock' <= f.check + LoadTime, Holds(l) \/ ~ f.current
    PROVE Flying(l, f)'
<1> SUFFICES ASSUME f.stage # "idle"
             PROVE Flying(l, f)'
  BY DEF Flying
<1>1. /\ f.value \in Value /\ f.old \in Snapshot /\ f.old.value \in Value /\ f.check \in Nat
      /\ clock \in Nat /\ clock' \in Nat
  BY Constants DEF Load, Snapshot, TypeOK, Later
<1>2. Kept(l, f.old)'
  BY <1>1, KeptStays DEF Flying
<1>3. f.stage = "loaded" => Within(l, f.value, f.check, 0)'
  BY <1>1 DEF Flying, Later
<1>4. f.current => /\ f.old.there => UpToDate(l, f.old.value)'
                   /\ f.stage = "loaded" => UpToDate(l, f.value)'
  BY <1>1 DEF Flying, Holds
<1> QED
  BY <1>1, <1>2, <1>3, <1>4 DEF Flying, Later

LEMMA RoutedStays ==
    ASSUME TypeOK, Later, NEW l \in Layers, NEW r \in Route, Routed(l, r), Holds(l) \/ ~ r.current[l],
           applied' \in [Layers -> Nat]
    PROVE Routed(l, r)'
<1>1. r.got[l] \in Value /\ r.check \in Nat /\ r.since[l] \in Nat
  BY DEF Route
<1>5. clock \in Nat /\ clock' \in Nat /\ Age \in Nat /\ LoadTime \in Nat /\ 1 <= Age + LoadTime
  BY Constants DEF TypeOK, Later
<1>2. Passed(l, r) => Within(l, r.got[l], r.check + 1, Age + LoadTime)'
  <2>1. r.check + 1 \in Nat /\ (r.check + 1 <= clock + (Age + LoadTime))
    BY <1>1, <1>5 DEF Routed
  <2> QED
    BY <1>1, <1>5, <2>1 DEF Routed, Later
<1>3. r.current[l] => UpToDate(l, r.got[l])'
  BY <1>1 DEF Routed, Holds
<1>4. r.since[l] <= applied'[l] /\ r.check <= clock'
  BY <1>1, <1>5 DEF Routed, Later, TypeOK
<1> QED
  BY <1>2, <1>3, <1>4 DEF Routed, Passed

LEMMA CandidatesStay ==
    ASSUME TypeOK, Later, NEW l \in Layers, Holds(l), NEW a \in Assembly, Candidates(l, a)
    PROVE Candidates(l, a)'
<1> SUFFICES ASSUME a.there
             PROVE Candidates(l, a)'
  BY DEF Candidates
<1>1. /\ a.got[l] \in Value /\ a.expiresAt \in Nat /\ clock \in Nat /\ clock' \in Nat /\ TTL \in Nat
      /\ Longest \in Nat /\ TTL < Longest
  BY Constants DEF Assembly, TypeOK, Later
<1>2. a.expiresAt + 1 \in Nat /\ (a.expiresAt + 1 <= clock + Longest)
  BY <1>1 DEF Candidates
<1>3. Within(l, a.got[l], a.expiresAt + 1, Longest)'
  BY <1>1, <1>2 DEF Candidates, Later
<1> QED
  BY <1>1, <1>3 DEF Candidates, Later, Holds

LEMMA PlacesStay ==
    ASSUME IInv, Later, \A l \in Layers : Holds(l), applied' \in [Layers -> Nat]
    PROVE /\ UNCHANGED snap => Snaps'
          /\ UNCHANGED load /\ (\A l \in Layers : load[l].stage # "idle" => clock' <= load[l].check + LoadTime)
               => Loads'
          /\ UNCHANGED route => Routes'
          /\ UNCHANGED assembled => Assemblies'
<1>1. TypeOK /\ Snaps /\ Loads /\ Routes /\ Assemblies
  BY DEF IInv
<1>2. \A l \in Layers : snap[l] \in Snapshot /\ load[l] \in Load
  BY <1>1 DEF TypeOK
<1>3. route \in Route /\ assembled \in Assembly
  BY <1>1 DEF TypeOK
<1>4. ASSUME UNCHANGED snap PROVE Snaps'
  BY <1>1, <1>2, <1>4, InPlaceStays DEF Snaps
<1>5. ASSUME UNCHANGED load, \A l \in Layers : load[l].stage # "idle" => clock' <= load[l].check + LoadTime
      PROVE Loads'
  BY <1>1, <1>2, <1>5, FlyingStays DEF Loads
<1>6. ASSUME UNCHANGED route PROVE Routes'
  BY <1>1, <1>3, <1>6, RoutedStays DEF Routes
<1>7. ASSUME UNCHANGED assembled PROVE Assemblies'
  BY <1>1, <1>3, <1>7, CandidatesStay DEF Assemblies
<1> QED
  BY <1>4, <1>5, <1>6, <1>7

-----------------------------------------------------------------------------
(* The database and the events.                                            *)

\* What every step starts from.
LEMMA Facts ==
    ASSUME IInv
    PROVE /\ TypeOK /\ Changes /\ Overrides /\ bound \in Bounds /\ bound.layers \subseteq Layers
          /\ "base" \in bound.layers /\ MaxWrites \in Nat /\ MaxTime \in Nat /\ clock \in Nat /\ clock <= MaxTime
          /\ \A l \in Layers : bound.writes[l] \in Nat /\ bound.writes[l] <= MaxWrites
          /\ UNCHANGED bound => MaxWrites' = MaxWrites /\ MaxTime' = MaxTime /\ NotYet' = NotYet
<1>1. TypeOK /\ Changes /\ Overrides /\ bound \in Bounds
  BY DEF IInv, TypeOK
<1>2. MaxTime \in Nat
  BY <1>1, Constants
<1>3. clock \in Nat /\ clock <= MaxTime
  BY <1>1, <1>2 DEF TypeOK
<1>4. UNCHANGED bound => MaxWrites' = MaxWrites /\ MaxTime' = MaxTime /\ NotYet' = NotYet
  BY DEF MaxWrites, MaxTime, NotYet
<1> QED
  BY <1>1, <1>2, <1>3, <1>4, Constants

\* A flight under way has the time it was given, while the clock stands.
LEMMA InTime ==
    ASSUME IInv, clock' = clock
    PROVE \A l \in Layers : load[l].stage # "idle" => clock' <= load[l].check + LoadTime
  BY DEF IInv, Loads, Flying

LEMMA WriteInv ==
    ASSUME IInv, NEW l \in bound.layers, Write(l), UNCHANGED bound
    PROVE IInv'
<1>1. /\ TypeOK /\ Changes /\ Overrides /\ l \in Layers /\ MaxWrites \in Nat /\ clock \in Nat
      /\ bound.writes[l] \in Nat /\ bound.writes[l] <= MaxWrites
      /\ MaxWrites' = MaxWrites /\ MaxTime' = MaxTime /\ NotYet' = NotYet
  BY Facts
<1>2. /\ stored \in [Layers -> Nat] /\ applied \in [Layers -> Nat] /\ stored[l] \in Nat
      /\ stored[l] + 1 \in 1 .. MaxWrites /\ stored[l] + 1 <= bound.writes[l]
      /\ stored' = [stored EXCEPT ![l] = stored[l] + 1]
  BY <1>1 DEF TypeOK, Write
<1>8. stored' \in [Layers -> Nat] /\ stored'[l] = stored[l] + 1 /\ \A m \in Layers : m # l => stored'[m] = stored[m]
  BY <1>1, <1>2
<1>3. TypeOK'
  <2>2. written' \in [Layers -> [1 .. MaxWrites -> Nat]]
    <3>1. written' = [written EXCEPT ![l] = [written[l] EXCEPT ![stored[l] + 1] = clock]]
      BY DEF Write
    <3>2. [written[l] EXCEPT ![stored[l] + 1] = clock] \in [1 .. MaxWrites -> Nat]
      BY <1>1, <1>2 DEF TypeOK
    <3> QED
      BY <1>1, <3>1, <3>2 DEF TypeOK
  <2>3. events' \subseteq (Layers \X (1 .. MaxWrites)) \cup {<<"health", 1>>}
    BY <1>1, <1>2 DEF TypeOK, Write
  <2>4. UNCHANGED <<clock, failedAt, arriving, applied, snap, load, assembled, route, override, known, bared>>
    BY DEF Write, health
  <2> QED
    BY <1>1, <1>8, <2>2, <2>3, <2>4 DEF TypeOK
<1>4. Changes'
  <2>1. \A m \in Layers : stored[m] <= stored'[m] /\ stored[m] \in Nat /\ stored'[m] \in Nat
    BY <1>2, <1>8
  <2>2. \A m \in Layers, n \in 1 .. MaxWrites : <<m, n>> \in events' => n <= stored'[m]
    <3>1. \A m \in Layers, n \in 1 .. MaxWrites :
              <<m, n>> \in events' => <<m, n>> \in events \/ (m = l /\ n = stored[l] + 1)
      BY DEF Write
    <3> QED
      BY <1>1, <1>8, <2>1, <3>1 DEF Changes
  <2>3. \A m \in Layers : stored'[m] <= bound.writes[m] /\ applied[m] <= stored'[m]
    BY <1>1, <1>2, <1>8, <2>1 DEF Changes
  <2>4. \A m \in Layers : m \notin bound.layers => stored'[m] = 0
    BY <1>1, <1>8 DEF Changes
  <2>5. arriving' = arriving /\ \A m \in Layers, n \in 0 .. MaxWrites : <<m, n>> \in arriving => n <= stored'[m]
    BY <1>1, <2>1 DEF Changes, Write
  <2> QED
    BY <1>1, <2>2, <2>3, <2>4, <2>5 DEF Changes, Write
<1>5. Overrides'
  <2>1. <<"health", 1>> \in events' => <<"health", 1>> \in events
    BY <1>1 DEF Write, Layers
  <2> QED
    BY <1>1, <2>1 DEF Overrides, Write, OverrideLife, health
<1>6. \A m \in Layers, v \in Value, t \in Nat : Missed(m, v, t)' => Missed(m, v, t) \/ t = clock
  <2> SUFFICES ASSUME NEW m \in Layers, NEW v \in Value, NEW t \in Nat, Missed(m, v, t)', t # clock
               PROVE Missed(m, v, t)
    OBVIOUS
  <2>1. CASE v.writes < stored'[m] /\ t = written'[m][v.writes + 1]
    <3>1. v.writes \in Nat
      BY DEF Value
    <3>2. m # l => v.writes < stored[m] /\ t = written[m][v.writes + 1]
      BY <1>1, <2>1 DEF Write, TypeOK
    <3>3. m = l => v.writes < stored[l] /\ t = written[l][v.writes + 1]
      <4>1. written'[l] = [written[l] EXCEPT ![stored[l] + 1] = clock] /\ written[l] \in [1 .. MaxWrites -> Nat]
        BY <1>1 DEF Write, TypeOK
      <4>2. m = l => v.writes # stored[l]
        BY <1>2, <2>1, <4>1
      <4>3. m = l => v.writes < stored[l]
        BY <1>2, <1>8, <2>1, <3>1, <4>2
      <4>4. v.writes < stored[l] => v.writes + 1 \in 1 .. MaxWrites /\ v.writes + 1 # stored[l] + 1
        BY <1>1, <1>2, <3>1
      <4> QED
        BY <2>1, <4>1, <4>3, <4>4
    <3> QED
      BY <3>2, <3>3 DEF Missed
  <2> QED
    BY <1>1, <2>1 DEF Missed, Write
<1>7. Later /\ \A m \in Layers : Holds(m)
  <2>1. \A m \in Layers : Holds(m)
    BY <1>1 DEF Holds, UpToDate, Spared, health, Write, OverrideLife
  <2>2. UNCHANGED <<bound, clock, applied>>
    BY DEF Write
  <2> QED
    BY <1>1, <1>2, <1>6, <2>1, <2>2, Grows DEF Later
<1> QED
  BY <1>1, <1>3, <1>4, <1>5, <1>7, PlacesStay, InTime DEF IInv, Write, TypeOK

LEMMA CoolInv ==
    ASSUME IInv, Cool, UNCHANGED bound
    PROVE IInv'
<1>1. /\ TypeOK /\ Changes /\ Overrides /\ clock \in Nat /\ MaxTime \in Nat /\ clock <= MaxTime
      /\ MaxWrites' = MaxWrites /\ MaxTime' = MaxTime /\ NotYet' = NotYet
  BY Facts
<1>2. TypeOK'
  BY <1>1 DEF TypeOK, Cool, health, NotYet
<1>3. ~ known /\ ~ (override > 0) /\ UNCHANGED health
  BY <1>1 DEF Overrides, Cool
<1>4. Changes' /\ Overrides'
  BY <1>1, <1>3 DEF Changes, Overrides, Cool, health, NotYet, Layers
<1>5. \A m \in Layers, v \in Value, t \in Nat : Missed(m, v, t)' => Missed(m, v, t) \/ t = clock
  BY <1>1 DEF Missed, Cool
<1>6. \A m \in Layers : Holds(m)
  BY <1>3 DEF Holds, UpToDate, Spared, health, Cool
<1>8. applied \in [Layers -> Nat] /\ UNCHANGED <<bound, clock, applied>>
  BY <1>1 DEF TypeOK, Cool
<1>7. Later
  BY <1>1, <1>5, <1>8, Grows DEF Later
<1> QED
  BY <1>1, <1>2, <1>4, <1>6, <1>7, PlacesStay, InTime DEF IInv, Cool, TypeOK

LEMMA LoseInv ==
    ASSUME IInv, NEW e \in events, Lose(e), UNCHANGED bound
    PROVE IInv'
<1>1. TypeOK /\ Changes /\ Overrides /\ MaxWrites' = MaxWrites /\ MaxTime' = MaxTime /\ NotYet' = NotYet
  BY Facts
<1>2. TypeOK'
  BY <1>1 DEF TypeOK, Lose, health, database
<1>3. Changes' /\ Overrides'
  BY <1>1 DEF Changes, Overrides, Lose, health, database, OverrideLife
<1>4. Later /\ \A m \in Layers : Holds(m)
  BY <1>1, Quiet DEF Lose
<1> QED
  BY <1>1, <1>2, <1>3, <1>4, PlacesStay, InTime DEF IInv, Lose, TypeOK

-----------------------------------------------------------------------------
(* Invalidations.                                                          *)

\* An override that goes leaves the base marked.
LEMMA ClearSteps ==
    ASSUME IInv, UNCHANGED <<bound, clock, database, applied>>, ClearOverride
    PROVE /\ override' \in Nat /\ known' \in BOOLEAN /\ bared' \in BOOLEAN
          /\ Later /\ \A m \in Layers : Holds(m)
          /\ (<<"health", 1>> \in events' => <<"health", 1>> \in events) => Overrides'
<1>1. /\ TypeOK /\ Overrides /\ clock \in Nat /\ NotYet' = NotYet /\ applied \in [Layers -> Nat]
      /\ override \in Nat /\ known \in BOOLEAN /\ bared \in BOOLEAN
  BY Facts DEF TypeOK
<1>2. Spared' => Spared
  <2>1. ~ bared' => ~ bared /\ ~ (override > 0)
    BY Zenon DEF ClearOverride
  <2>2. ~ (override > 0) => override = 0
    BY <1>1
  <2> QED
    BY <2>1, <2>2 DEF Spared, ClearOverride, OverrideLife, database
<1>3. \A m \in Layers : Holds(m)
  BY <1>2 DEF Holds, UpToDate
<1>4. \A m \in Layers, v \in Value, t \in Nat : Missed(m, v, t)' => Missed(m, v, t)
  BY <1>1 DEF Missed, database
<1>5. Later
  BY <1>1, <1>4, Grows DEF Later
<1>6. (<<"health", 1>> \in events' => <<"health", 1>> \in events) => Overrides'
  BY <1>1 DEF Overrides, ClearOverride, database
<1> QED
  BY <1>1, <1>3, <1>5, <1>6 DEF ClearOverride

\* Where the layer was it no longer is, and what is on its way is not wanted.
LEMMA DropPlaces ==
    ASSUME IInv, NEW l \in Layers, DropLayer(l), Later, clock' = clock, applied' \in [Layers -> Nat],
           \A m \in Layers : m # l => Holds(m)
    PROVE /\ snap' \in [Layers -> Snapshot] /\ load' \in [Layers -> Load] /\ route' \in Route
          /\ assembled' \in Assembly
          /\ Snaps' /\ Loads' /\ Routes' /\ Assemblies'
<1>1. /\ TypeOK /\ Snaps /\ Loads /\ Routes /\ Assemblies
      /\ snap \in [Layers -> Snapshot] /\ load \in [Layers -> Load] /\ route \in Route
  BY DEF IInv, TypeOK
<1>3. PICK f \in Load : f = [load[l] EXCEPT !.current = FALSE]
  BY <1>1 DEF Load
<1>4. /\ ~ f.current /\ f.stage = load[l].stage /\ f.check = load[l].check /\ f.value = load[l].value
      /\ f.old = load[l].old
  BY <1>1, <1>3 DEF Load
<1>5. PICK r \in Route : r = [route EXCEPT !.current = [route.current EXCEPT ![l] = FALSE]]
  BY <1>1 DEF Route
<1>6. /\ r.stage = route.stage /\ r.check = route.check /\ r.since = route.since /\ r.got = route.got
      /\ ~ r.current[l] /\ \A m \in Layers : m # l => r.current[m] = route.current[m]
  BY <1>1, <1>5 DEF Route
<1>2. /\ snap' = [snap EXCEPT ![l] = None] /\ load' = [load EXCEPT ![l] = f] /\ route' = r
      /\ assembled' = NoAssembly
  BY <1>3, <1>5 DEF DropLayer
<1>7. Snaps'
  <2>1. \A m \in Layers : m # l => snap'[m] = snap[m] /\ snap[m] \in Snapshot
    BY <1>1, <1>2
  <2>2. \A m \in Layers : m # l => \A s \in {snap'[m]} : InPlace(m, s)'
    BY <1>1, <2>1, InPlaceStays DEF Snaps
  <2>3. snap'[l] = None
    BY <1>1, <1>2
  <2>4. InPlace(l, None)'
    BY DEF InPlace, Kept, None
  <2> QED
    BY <2>2, <2>3, <2>4 DEF Snaps
<1>8. Loads'
  <2>1. Flying(l, f)
    BY <1>1, <1>4 DEF Loads, Flying
  <2>2. f.stage # "idle" => clock' <= f.check + LoadTime
    BY <2>1 DEF Flying
  <2>3. Flying(l, f)'
    BY <1>1, <1>4, <2>1, <2>2, FlyingStays
  <2>4. load'[l] = f
    BY <1>1, <1>2
  <2>5. \A m \in Layers : m # l => \A g \in {load'[m]} : Flying(m, g)'
    <3>1. \A m \in Layers : load[m] \in Load /\ (load[m].stage # "idle" => clock' <= load[m].check + LoadTime)
      BY <1>1, InTime
    <3> QED
      BY <1>1, <1>2, <3>1, FlyingStays DEF Loads
  <2> QED
    BY <2>3, <2>4, <2>5 DEF Loads
<1>9. Routes'
  <2>1. \A m \in Layers : Routed(m, r)
    BY <1>1, <1>6 DEF Routes, Routed, Passed
  <2>2. \A m \in Layers : Routed(m, r)'
    BY <1>1, <1>6, <2>1, RoutedStays
  <2> QED
    BY <1>2, <2>2 DEF Routes
<1>10. Assemblies'
  BY <1>2 DEF Assemblies, Candidates, NoAssembly
<1>11. snap' \in [Layers -> Snapshot] /\ assembled' \in Assembly
  BY <1>1, <1>2, Records
<1>12. load' \in [Layers -> Load] /\ route' \in Route
  BY <1>1, <1>2
<1> QED
  BY <1>7, <1>8, <1>9, <1>10, <1>11, <1>12

LEMMA DropInv ==
    ASSUME IInv, NEW l \in bound.layers, NEW n \in 0 .. MaxWrites, Drop(l, n), UNCHANGED bound
    PROVE IInv'
<1>1. /\ TypeOK /\ Changes /\ Overrides /\ l \in Layers /\ MaxWrites \in Nat /\ clock \in Nat
      /\ MaxWrites' = MaxWrites /\ MaxTime' = MaxTime /\ NotYet' = NotYet
      /\ applied \in [Layers -> Nat] /\ stored \in [Layers -> Nat]
  BY Facts DEF TypeOK
<1>8. n \in Nat
  BY <1>1
<1>2. /\ applied' \in [Layers -> Nat] /\ \A m \in Layers : m # l => applied'[m] = applied[m]
      /\ applied'[l] = (IF n > applied[l] THEN n ELSE applied[l])
  BY <1>1, <1>8 DEF Drop
<1>3. (\A m \in Layers : applied[m] <= applied'[m]) /\ applied'[l] <= stored[l] /\ arriving' \subseteq arriving
  BY <1>1, <1>2 DEF Changes, Drop
<1>4. \A m \in Layers : m # l => Holds(m)
  <2>1. l # "base" => (Spared' => Spared)
    BY <1>1 DEF Spared, Drop, OverrideLife, database
  <2> QED
    BY <1>2, <2>1 DEF Holds, UpToDate
<1>9. Later
  <2>1. \A m \in Layers, v \in Value, t \in Nat : Missed(m, v, t)' => Missed(m, v, t)
    BY <1>1 DEF Missed, Drop, database
  <2> QED
    BY <1>1, <1>3, <2>1, Grows DEF Later, Drop
<1>5. /\ snap' \in [Layers -> Snapshot] /\ load' \in [Layers -> Load] /\ route' \in Route
      /\ assembled' \in Assembly
      /\ Snaps' /\ Loads' /\ Routes' /\ Assemblies'
  BY <1>1, <1>2, <1>4, <1>9, DropPlaces DEF Drop
<1>10. bared' \in BOOLEAN /\ UNCHANGED <<override, known, events>>
  BY <1>1 DEF Drop, TypeOK
<1>6. TypeOK'
  BY <1>1, <1>2, <1>3, <1>5, <1>10 DEF TypeOK, Drop, database
<1>7. Changes' /\ Overrides'
  <2>1. \A m \in Layers : applied'[m] <= stored[m]
    BY <1>1, <1>2, <1>3 DEF Changes
  <2> QED
    BY <1>1, <1>3, <1>10, <2>1 DEF Changes, Overrides, OverrideLife, Drop, database
<1> QED
  BY <1>5, <1>6, <1>7 DEF IInv

LEMMA ClearInv ==
    ASSUME IInv, UNCHANGED bound,
           \/ ClientKeyChanged
           \/ \E l \in bound.layers : Churn(l)
           \/ \E l \in bound.layers, n \in 0 .. MaxWrites : Apply(l, n)
    PROVE IInv'
<1>1. /\ TypeOK /\ Changes /\ MaxWrites' = MaxWrites /\ MaxTime' = MaxTime /\ NotYet' = NotYet
      /\ applied \in [Layers -> Nat] /\ stored \in [Layers -> Nat] /\ MaxWrites \in Nat
      /\ bound.layers \subseteq Layers
  BY Facts DEF TypeOK
<1>2. /\ UNCHANGED <<clock, database, applied, snap, assembled, load, route>> /\ ClearOverride
      /\ events' \subseteq events
  BY DEF ClientKeyChanged, Churn, Apply
<1>3. /\ arriving' \subseteq Layers \X (0 .. MaxWrites)
      /\ \A m \in Layers, k \in 0 .. MaxWrites : <<m, k>> \in arriving' => k <= stored[m]
  <2>1. CASE ClientKeyChanged
    BY <1>1, <2>1 DEF ClientKeyChanged, TypeOK, Changes
  <2>2. ASSUME NEW l \in bound.layers, NEW n \in 0 .. MaxWrites, arriving' = arriving \cup {<<l, n>>},
               n <= stored[l]
        PROVE <1>3!:
    BY <1>1, <2>2 DEF TypeOK, Changes
  <2>3. ASSUME NEW l \in bound.layers, Churn(l)
        PROVE <1>3!:
    <3>1. 0 \in 0 .. MaxWrites /\ stored[l] \in Nat /\ 0 <= stored[l]
      BY <1>1
    <3> QED
      BY <2>2, <2>3, <3>1 DEF Churn
  <2>4. ASSUME NEW l \in bound.layers, NEW n \in 0 .. MaxWrites, Apply(l, n)
        PROVE <1>3!:
    <3>1. n \in 1 .. MaxWrites /\ n <= stored[l]
      BY <1>1, <2>4 DEF Apply, TypeOK, Changes, Layers
    <3> QED
      BY <2>2, <2>4, <3>1 DEF Apply
  <2> QED
    BY <2>1, <2>3, <2>4
<1>4. /\ override' \in Nat /\ known' \in BOOLEAN /\ bared' \in BOOLEAN
      /\ Later /\ (\A m \in Layers : Holds(m)) /\ Overrides'
  BY <1>1, <1>2, ClearSteps
<1>5. TypeOK'
  BY <1>1, <1>2, <1>3, <1>4 DEF TypeOK, database
<1>6. Changes'
  BY <1>1, <1>2, <1>3 DEF Changes, database
<1> QED
  BY <1>1, <1>2, <1>4, <1>5, <1>6, PlacesStay, InTime DEF IInv

LEMMA HealthInv ==
    ASSUME IInv, ApplyHealth, UNCHANGED bound
    PROVE IInv'
<1>1. /\ TypeOK /\ Changes /\ Overrides /\ MaxWrites' = MaxWrites /\ MaxTime' = MaxTime /\ NotYet' = NotYet
      /\ applied \in [Layers -> Nat] /\ clock \in Nat /\ MaxTime \in Nat
  BY Facts DEF TypeOK
<1>2. failedAt \in Nat /\ OverrideLife \in Nat /\ OverrideLife >= 1
  BY <1>1, Constants DEF TypeOK, NotYet, Age
<1>3. override' \in Nat /\ known' \in BOOLEAN /\ events' \subseteq events
  <2>1. override \in Nat /\ known \in BOOLEAN
    BY <1>1 DEF TypeOK
  <2>2. override' \in Nat
    BY <1>2, <2>1 DEF ApplyHealth
  <2>3. known' \in BOOLEAN
    BY <2>1 DEF ApplyHealth
  <2> QED
    BY <2>2, <2>3 DEF ApplyHealth
<1>4. Overrides'
  BY <1>1, <1>2 DEF Overrides, ApplyHealth, database, OverrideLife
<1>5. Spared' => Spared
  BY <1>1, <1>2 DEF Spared, ApplyHealth, database, OverrideLife
<1>6. \A m \in Layers, v \in Value, t \in Nat : Missed(m, v, t)' => Missed(m, v, t)
  BY <1>1 DEF Missed, ApplyHealth, database
<1>7. UNCHANGED <<clock, applied>>
  BY DEF ApplyHealth
<1>8. Later /\ \A m \in Layers : Holds(m)
  BY <1>1, <1>5, <1>6, <1>7, Grows DEF Later, Holds, UpToDate
<1>9. TypeOK' /\ Changes'
  BY <1>1, <1>3 DEF TypeOK, Changes, ApplyHealth, database
<1> QED
  BY <1>1, <1>4, <1>7, <1>8, <1>9, PlacesStay, InTime DEF IInv, ApplyHealth

LEMMA TickInv ==
    ASSUME IInv, Tick, UNCHANGED bound
    PROVE IInv'
<1>1. /\ TypeOK /\ Changes /\ Overrides /\ MaxWrites' = MaxWrites /\ MaxTime' = MaxTime /\ NotYet' = NotYet
      /\ applied \in [Layers -> Nat] /\ clock \in Nat /\ MaxTime \in Nat
  BY Facts DEF TypeOK
<1>2. failedAt \in Nat /\ OverrideLife \in Nat /\ LoadTime \in Nat /\ override \in Nat
  BY <1>1, Constants DEF TypeOK, NotYet
<1>3. clock' = clock + 1 /\ clock' \in 0 .. MaxTime /\ override' \in Nat
  BY <1>1, <1>2 DEF Tick
<1>4. Overrides'
  BY <1>1, <1>2 DEF Overrides, Tick, database, OverrideLife
<1>5. Spared' => Spared
  BY <1>1, <1>2, <1>3 DEF Spared, Overrides, Tick, database, OverrideLife
<1>6. \A m \in Layers, v \in Value, t \in Nat : Missed(m, v, t)' => Missed(m, v, t)
  BY <1>1 DEF Missed, Tick, database
<1>7. UNCHANGED <<applied, snap, load, route, assembled>>
  BY DEF Tick
<1>8. Later /\ \A m \in Layers : Holds(m)
  BY <1>1, <1>3, <1>5, <1>6, <1>7, Grows DEF Later, Holds, UpToDate
<1>9. TypeOK' /\ Changes'
  BY <1>1, <1>3 DEF TypeOK, Changes, Tick, database
<1>10. \A l \in Layers : load[l].stage # "idle" => clock' <= load[l].check + LoadTime
  <2> SUFFICES ASSUME NEW l \in Layers, load[l].stage # "idle"
               PROVE clock' <= load[l].check + LoadTime
    OBVIOUS
  <2>1. load[l].check \in Nat /\ clock < load[l].check + LoadTime
    BY <1>1 DEF TypeOK, Load, Tick
  <2> QED
    BY <1>1, <1>2, <1>3, <2>1
<1> QED
  BY <1>1, <1>4, <1>7, <1>8, <1>9, <1>10, PlacesStay DEF IInv

-----------------------------------------------------------------------------
(* The flights of the layers.                                              *)

\* A step of a flight, of a layer or the route, leaves the rest alone.
Aside == UNCHANGED <<bound, clock, database, events, arriving, applied, health>>

\* It suffices that what it puts into a place fits there now.
LEMMA Moves ==
    ASSUME IInv, Aside,
           snap' \in [Layers -> Snapshot], \A l \in Layers : \A s \in {snap'[l]} : InPlace(l, s),
           load' \in [Layers -> Load], \A l \in Layers : \A f \in {load'[l]} : Flying(l, f),
           route' \in Route, \A l \in Layers : \A r \in {route'} : Routed(l, r),
           assembled' \in Assembly, \A l \in Layers : \A a \in {assembled'} : Candidates(l, a)
    PROVE IInv'
<1>1. /\ TypeOK /\ Changes /\ Overrides /\ MaxWrites' = MaxWrites /\ MaxTime' = MaxTime /\ NotYet' = NotYet
      /\ applied' \in [Layers -> Nat]
  BY Facts DEF TypeOK, Aside
<1>2. Later /\ \A l \in Layers : Holds(l)
  BY <1>1, Quiet DEF Aside
<1>3. TypeOK' /\ Changes' /\ Overrides'
  BY <1>1 DEF TypeOK, Changes, Overrides, Aside, database, health, OverrideLife
<1>4. Snaps'
  BY <1>1, <1>2, InPlaceStays DEF Snaps
<1>5. Loads'
  <2>1. ASSUME NEW l \in Layers, NEW f \in Load, Flying(l, f)
        PROVE Flying(l, f)'
    <3>1. f.stage # "idle" => clock' <= f.check + LoadTime
      BY <2>1 DEF Flying, Aside
    <3> QED
      BY <1>1, <1>2, <2>1, <3>1, FlyingStays
  <2> QED
    BY <2>1 DEF Loads
<1>6. Routes'
  BY <1>1, <1>2, RoutedStays DEF Routes
<1>7. Assemblies'
  BY <1>1, <1>2, CandidatesStay DEF Assemblies
<1> QED
  BY <1>3, <1>4, <1>5, <1>6, <1>7 DEF IInv

\* What is left as it was fits.
LEMMA Unmoved ==
    ASSUME IInv
    PROVE /\ snap \in [Layers -> Snapshot] /\ \A l \in Layers : \A s \in {snap[l]} : InPlace(l, s)
          /\ load \in [Layers -> Load] /\ \A l \in Layers : \A f \in {load[l]} : Flying(l, f)
          /\ route \in Route /\ \A l \in Layers : \A r \in {route} : Routed(l, r)
          /\ assembled \in Assembly /\ \A l \in Layers : \A a \in {assembled} : Candidates(l, a)
  BY DEF IInv, TypeOK, Snaps, Loads, Routes, Assemblies

\* A value that was just read misses nothing.
LEMMA ReadingShows ==
    ASSUME IInv, NEW l \in Layers
    PROVE /\ Reading(l) \in Value /\ UpToDate(l, Reading(l))
          /\ \A x, d \in Nat : Within(l, Reading(l), x, d)
<1>1. TypeOK /\ Changes /\ Overrides /\ stored[l] \in Nat
  BY Facts DEF TypeOK
<1>2. Reading(l) \in Value
  BY <1>1 DEF Reading, Value
<1>3. UpToDate(l, Reading(l))
  BY <1>1 DEF UpToDate, Reading, Changes, Overrides, Spared
<1>4. \A t \in Nat : ~ Missed(l, Reading(l), t)
  <2>1. Reading(l).writes = stored[l] /\ ~ (stored[l] < stored[l])
    BY <1>1 DEF Reading
  <2>2. l = "base" /\ failedAt # NotYet => Reading(l).cooled
    BY DEF Reading
  <2> QED
    BY <2>1, <2>2 DEF Missed
<1> QED
  BY <1>2, <1>3, <1>4 DEF Within

\* A flight begins with a snapshot that may still be used, or none.
LEMMA FlightFits ==
    ASSUME IInv, NEW l \in Layers
    PROVE Flight(l) \in Load /\ Flying(l, Flight(l))
<1>1. /\ TypeOK /\ Snaps /\ snap[l] \in Snapshot /\ clock \in Nat /\ LoadTime \in Nat
  BY Facts, Constants DEF IInv, TypeOK
<1>2. PICK s \in Snapshot : s = IF snap[l].there /\ snap[l].current /\ clock < snap[l].staleUntil
                                THEN snap[l] ELSE None
  BY <1>1, Records
<1>3. Flight(l) = [stage |-> "loading", check |-> clock, current |-> TRUE, value |-> Blank, old |-> s]
  <2>1. Flight(l) = [NoLoad EXCEPT !.stage = "loading", !.check = clock, !.current = TRUE, !.old = s]
    BY <1>2 DEF Flight
  <2> QED
    BY <2>1 DEF NoLoad
<1>4. Flight(l) \in Load
  BY <1>1, <1>2, <1>3, Records DEF Load
<1>5. Kept(l, s) /\ (s.there => clock < s.staleUntil /\ UpToDate(l, s.value))
  BY <1>1, <1>2 DEF Snaps, InPlace, Kept, None
<1> QED
  BY <1>1, <1>3, <1>4, <1>5 DEF Flying

\* A new flight, or an end of one, in the place of the layer's.
LEMMA LoadMoves ==
    ASSUME IInv, NEW l \in Layers, NEW f \in Load, Flying(l, f), load' = [load EXCEPT ![l] = f]
    PROVE load' \in [Layers -> Load] /\ \A m \in Layers : \A g \in {load'[m]} : Flying(m, g)
<1>1. load' \in [Layers -> Load] /\ \A m \in Layers : load'[m] = (IF m = l THEN f ELSE load[m])
  BY Unmoved
<1> QED
  BY <1>1, Unmoved

LEMMA SnapMoves ==
    ASSUME IInv, NEW l \in Layers, NEW s \in Snapshot, InPlace(l, s), snap' = [snap EXCEPT ![l] = s]
    PROVE snap' \in [Layers -> Snapshot] /\ \A m \in Layers : \A g \in {snap'[m]} : InPlace(m, g)
<1>1. snap' \in [Layers -> Snapshot] /\ \A m \in Layers : snap'[m] = (IF m = l THEN s ELSE snap[m])
  BY Unmoved
<1> QED
  BY <1>1, Unmoved

LEMMA NoneFits == \A l \in Layers : Flying(l, NoLoad)
  BY DEF Flying, NoLoad

LEMMA StartInv ==
    ASSUME IInv, NEW l \in Layers, Start(l), UNCHANGED bound
    PROVE IInv'
<1>1. Aside /\ UNCHANGED <<snap, assembled, route>>
  BY DEF Start, Aside
<1>2. PICK f \in Load : f = Flight(l) /\ Flying(l, f)
  BY FlightFits
<1>3. load' = [load EXCEPT ![l] = f]
  BY <1>2 DEF Start
<1> QED
  BY <1>1, <1>2, <1>3, LoadMoves, Unmoved, Moves

LEMMA ReadInv ==
    ASSUME IInv, NEW l \in Layers, Read(l), UNCHANGED bound
    PROVE IInv'
<1>1. Aside /\ UNCHANGED <<snap, assembled, route>>
  BY DEF Read, Aside
<1>2. PICK v \in Value : v = Reading(l) /\ UpToDate(l, v) /\ \A x, d \in Nat : Within(l, v, x, d)
  BY ReadingShows
<1>3. load[l] \in Load /\ load[l].stage = "loading" /\ Flying(l, load[l])
  BY Unmoved DEF Read
<1>4. PICK f \in Load : f = [load[l] EXCEPT !.stage = "loaded", !.value = v]
  BY <1>2, <1>3 DEF Load
<1>5. /\ f.stage = "loaded" /\ f.value = v /\ f.check = load[l].check /\ f.current = load[l].current
      /\ f.old = load[l].old /\ f.check \in Nat
  BY <1>3, <1>4 DEF Load
<1>6. Within(l, v, f.check, 0)
  BY <1>2, <1>5
<1>7. Flying(l, f)
  BY <1>2, <1>3, <1>5, <1>6 DEF Flying
<1>8. load' = [load EXCEPT ![l] = f]
  BY <1>2, <1>4 DEF Read
<1> QED
  BY <1>1, <1>7, <1>8, LoadMoves, Unmoved, Moves

\* A layer the route does not have misses nothing.
LEMMA NotWritten ==
    ASSUME IInv, NEW l \in Layers, l \notin bound.layers, NEW v \in Value
    PROVE UpToDate(l, v) /\ \A x, d \in Nat : Within(l, v, x, d)
<1>1. l # "base" /\ stored[l] = 0 /\ applied[l] = 0 /\ v.writes \in Nat
  BY Facts DEF Changes, TypeOK, Value
<1> QED
  BY <1>1 DEF UpToDate, Within, Missed

\* The route takes the value of a layer and goes on to the next.
LEMMA RouteTakes ==
    ASSUME IInv, NEW l \in bound.layers, NEW v \in Value, NEW c \in BOOLEAN, NEW r \in Route,
           route.stage = l, r.stage = NextStage(l), r.check = route.check, r.since = route.since,
           r.got = [route.got EXCEPT ![l] = v], r.current = [route.current EXCEPT ![l] = c],
           c => UpToDate(l, v), Within(l, v, route.check + 1, Age + LoadTime)
    PROVE \A m \in Layers : Routed(m, r)
<1>1. /\ l \in Layers /\ route \in Route /\ \A m \in Layers : Routed(m, route)
      /\ Age \in Nat /\ LoadTime \in Nat /\ route.check \in Nat
  BY Facts, Unmoved, Constants DEF Route
<1> SUFFICES ASSUME NEW m \in Layers
             PROVE Routed(m, r)
  OBVIOUS
<1>2. /\ r.got[m] = (IF m = l THEN v ELSE route.got[m]) /\ r.got[m] \in Value
      /\ r.current[m] = (IF m = l THEN c ELSE route.current[m])
  BY <1>1 DEF Route
<1>3. r.stage # "done"
  BY DEF NextStage
<1>4. Passed(m, r) => Within(m, r.got[m], r.check + 1, Age + LoadTime)
  <2>1. CASE m = l
    BY <1>2, <2>1
  <2>2. CASE m \notin bound.layers
    BY <1>1, <1>2, <2>2, NotWritten
  <2>3. CASE m # l /\ m \in bound.layers
    <3>1. Passed(m, r) => Passed(m, route)
      BY <1>1, <2>3 DEF Passed, NextStage, Layers
    <3> QED
      BY <1>1, <1>2, <2>3, <3>1 DEF Routed
  <2> QED
    BY <2>1, <2>2, <2>3
<1>5. r.current[m] => UpToDate(m, r.got[m])
  BY <1>1, <1>2 DEF Routed
<1> QED
  BY <1>1, <1>3, <1>4, <1>5 DEF Routed

LEMMA AnswerFits ==
    ASSUME IInv, NEW l \in bound.layers, NEW v \in Value, Answer(l, v),
           load[l].current => UpToDate(l, v), Within(l, v, route.check + 1, Age + LoadTime)
    PROVE route' \in Route /\ \A m \in Layers : \A r \in {route'} : Routed(m, r)
<1>1. l \in Layers /\ route \in Route /\ load[l] \in Load /\ load[l].current \in BOOLEAN
  BY Facts, Unmoved DEF Load
<1>2. CASE ~ (route.stage = l /\ route.joined)
  BY <1>2, Unmoved DEF Answer
<1>3. CASE route.stage = l /\ route.joined
  <2>1. NextStage(l) \in {"idle", "settling", "fallback", "done"} \cup Layers
    BY DEF NextStage, Layers
  <2>2. PICK g \in [Layers -> Value] : g = [route.got EXCEPT ![l] = v]
    BY <1>1 DEF Route
  <2>3. PICK c \in [Layers -> BOOLEAN] : c = [route.current EXCEPT ![l] = load[l].current]
    BY <1>1 DEF Route
  <2>4. PICK r \in Route : r = [route EXCEPT !.stage = NextStage(l), !.joined = FALSE, !.got = g, !.current = c]
    BY <1>1, <2>1 DEF Route
  <2>5. r.stage = NextStage(l) /\ r.check = route.check /\ r.since = route.since /\ r.got = g /\ r.current = c
    BY <1>1, <2>4 DEF Route
  <2>6. route' = r
    BY <1>3, <2>2, <2>3, <2>4 DEF Answer
  <2> QED
    BY <1>1, <1>3, <2>2, <2>3, <2>5, <2>6, RouteTakes
<1> QED
  BY <1>2, <1>3

\* A query ends in time for a route that waited for it.
LEMMA Waited ==
    ASSUME IInv, NEW l \in Layers, load[l].stage # "idle"
    PROVE /\ route.check \in Nat /\ load[l].check \in Nat /\ LoadTime \in Nat /\ Age \in Nat
          /\ load[l].check <= clock
          /\ route.check <= load[l].check + LoadTime
<1>1. /\ route.check \in Nat /\ load[l].check \in Nat /\ clock \in Nat /\ LoadTime \in Nat
      /\ Routed(l, route) /\ Flying(l, load[l]) /\ Age \in Nat
  BY Unmoved, Facts, Constants DEF Route, Load
<1> QED
  BY <1>1 DEF Routed, Flying

LEMMA LoadedInv ==
    ASSUME IInv, NEW l \in bound.layers, Loaded(l), UNCHANGED bound
    PROVE IInv'
<1>1. /\ Aside /\ UNCHANGED assembled /\ l \in Layers /\ clock \in Nat
      /\ TTL \in Nat /\ StaleTTL \in Nat /\ 1 <= Age + LoadTime
  BY Facts, Constants DEF Loaded, Aside
<1>2. PICK f \in Load : f = load[l] /\ f.stage = "loaded" /\ Flying(l, f)
  BY <1>1, Unmoved DEF Loaded
<1>3. /\ f.check \in Nat /\ f.value \in Value /\ Within(l, f.value, f.check, 0)
      /\ f.check <= clock /\ (f.current => UpToDate(l, f.value))
  BY <1>2 DEF Flying, Load
<1>4. snap' \in [Layers -> Snapshot] /\ \A m \in Layers : \A g \in {snap'[m]} : InPlace(m, g)
  <2>1. CASE ~ f.current
    BY <1>2, <2>1, Unmoved DEF Loaded
  <2>2. CASE f.current
    <3>1. f.check + TTL \in Nat /\ f.check + TTL + StaleTTL \in Nat
      BY <1>1, <1>3
    <3>2. PICK s \in Snapshot : s = [there |-> TRUE, value |-> f.value, current |-> TRUE,
                                     expiresAt |-> f.check + TTL, staleUntil |-> f.check + TTL + StaleTTL]
      BY <1>3, <3>1 DEF Snapshot
    <3>3. Within(l, f.value, f.check + TTL + StaleTTL, Age)
      BY <1>1, <1>3 DEF Within, Age
    <3>4. /\ f.check + TTL <= f.check + TTL + StaleTTL
          /\ f.check + TTL + StaleTTL <= clock + Age
      BY <1>1, <1>3 DEF Age
    <3>7. /\ s.value = f.value /\ s.expiresAt = f.check + TTL
          /\ s.staleUntil = f.check + TTL + StaleTTL
      BY <3>2
    <3>5. InPlace(l, s)
      BY <1>3, <2>2, <3>3, <3>4, <3>7 DEF InPlace, Kept
    <3>6. snap' = [snap EXCEPT ![l] = s]
      BY <1>2, <2>2, <3>2 DEF Loaded
    <3> QED
      BY <1>1, <3>5, <3>6, SnapMoves
  <2> QED
    BY <2>1, <2>2
<1>5. Within(l, f.value, route.check + 1, Age + LoadTime)
  <2>1. route.check \in Nat /\ LoadTime \in Nat /\ Age \in Nat /\ route.check <= f.check + LoadTime /\ 1 <= Age
    BY <1>1, <1>2, Waited, Constants, Facts DEF Age
  <2> QED
    BY <1>3, <2>1 DEF Within
<1>6. route' \in Route /\ \A m \in Layers : \A r \in {route'} : Routed(m, r)
  BY <1>2, <1>3, <1>5, AnswerFits DEF Loaded
<1>7. load' = [load EXCEPT ![l] = NoLoad] /\ NoLoad \in Load
  BY Records DEF Loaded
<1> QED
  BY <1>1, <1>4, <1>6, <1>7, LoadMoves, NoneFits, Unmoved, Moves

LEMMA FallBackInv ==
    ASSUME IInv, NEW l \in bound.layers, FallBack(l), UNCHANGED bound
    PROVE IInv'
<1>1. Aside /\ UNCHANGED assembled /\ l \in Layers /\ clock \in Nat /\ RetryTTL \in Nat
  BY Facts, Constants DEF FallBack, Aside
<1>2. PICK f \in Load : f = load[l] /\ f.stage = "loading" /\ f.old.there /\ Flying(l, f)
  BY <1>1, Unmoved DEF FallBack
<1>3. PICK o \in Snapshot : o = f.old
  BY <1>2 DEF Load
<1>4. /\ f.check \in Nat /\ o.value \in Value /\ o.staleUntil \in Nat /\ o.there
      /\ f.current \in BOOLEAN /\ (f.current => UpToDate(l, o.value))
      /\ f.check < o.staleUntil /\ Kept(l, o)
  BY <1>2, <1>3 DEF Flying, Load, Snapshot
<1>5. snap' \in [Layers -> Snapshot] /\ \A m \in Layers : \A g \in {snap'[m]} : InPlace(m, g)
  <2>1. PICK e \in Nat : e = Least(f.check + RetryTTL, o.staleUntil) /\ e <= o.staleUntil
    BY <1>1, <1>4 DEF Least
  <2>2. PICK s \in Snapshot : s = [o EXCEPT !.current = f.current, !.expiresAt = e]
    BY <1>4, <2>1 DEF Snapshot
  <2>3. s.there /\ s.current = f.current /\ s.value = o.value /\ s.expiresAt = e /\ s.staleUntil = o.staleUntil
    BY <1>4, <2>2 DEF Snapshot
  <2>4. InPlace(l, s)
    BY <1>4, <2>1, <2>3 DEF InPlace, Kept
  <2>5. snap' = [snap EXCEPT ![l] = s]
    BY <1>2, <1>3, <2>1, <2>2 DEF FallBack, Stale
  <2> QED
    BY <1>1, <2>4, <2>5, SnapMoves
<1>6. Within(l, o.value, route.check + 1, Age + LoadTime)
  <2>1. route.check \in Nat /\ LoadTime \in Nat /\ Age \in Nat /\ route.check <= f.check + LoadTime
    BY <1>1, <1>2, Waited
  <2>2. Within(l, o.value, o.staleUntil, Age)
    BY <1>4 DEF Kept
  <2> QED
    BY <1>4, <2>1, <2>2 DEF Within
<1>7. route' \in Route /\ \A m \in Layers : \A r \in {route'} : Routed(m, r)
  BY <1>2, <1>3, <1>4, <1>6, AnswerFits DEF FallBack
<1>8. load' = [load EXCEPT ![l] = NoLoad] /\ NoLoad \in Load
  BY Records DEF FallBack
<1> QED
  BY <1>1, <1>5, <1>7, <1>8, LoadMoves, NoneFits, Unmoved, Moves

LEMMA NoRouteFits ==
    ASSUME IInv
    PROVE \A l \in Layers : Routed(l, NoRoute)
  BY Facts DEF Routed, NoRoute, Passed, TypeOK

LEMMA LoadFailsInv ==
    ASSUME IInv, NEW l \in bound.layers, LoadFails(l), UNCHANGED bound
    PROVE IInv'
<1>1. Aside /\ UNCHANGED <<snap, assembled>> /\ l \in Layers
  BY Facts DEF LoadFails, Aside
<1>2. route' \in Route /\ \A m \in Layers : \A r \in {route'} : Routed(m, r)
  BY Unmoved, NoRouteFits, Records DEF LoadFails
<1>3. load' = [load EXCEPT ![l] = NoLoad] /\ NoLoad \in Load
  BY Records DEF LoadFails
<1> QED
  BY <1>1, <1>2, <1>3, LoadMoves, NoneFits, Unmoved, Moves

-----------------------------------------------------------------------------
(* The flight of the route.                                                *)

LEMMA BeginInv ==
    ASSUME IInv, Begin, UNCHANGED bound
    PROVE IInv'
<1>1. Aside /\ UNCHANGED <<snap, assembled, load>> /\ clock \in Nat /\ applied \in [Layers -> Nat]
  BY Facts DEF Begin, Aside, TypeOK
<1>2. PICK r \in Route : r = [NoRoute EXCEPT !.stage = "base", !.check = clock, !.since = applied]
  BY <1>1, Records DEF Route, Layers
<1>3. /\ r.stage = "base" /\ r.check = clock /\ r.since = applied
      /\ \A l \in Layers : ~ r.current[l]
  BY <1>2 DEF NoRoute
<1>4. \A l \in Layers : Routed(l, r)
  BY <1>1, <1>3 DEF Routed, Passed
<1>5. route' = r
  BY <1>2 DEF Begin
<1> QED
  BY <1>1, <1>4, <1>5, Unmoved, Moves

LEMMA HitInv ==
    ASSUME IInv, NEW l \in bound.layers, Hit(l), UNCHANGED bound
    PROVE IInv'
<1>1. /\ Aside /\ UNCHANGED <<snap, assembled, load>> /\ l \in Layers /\ route \in Route /\ route.check \in Nat
      /\ Age \in Nat /\ LoadTime \in Nat
  BY Facts, Unmoved, Constants DEF Hit, Aside, Route
<1>2. PICK s \in Snapshot : s = snap[l] /\ InPlace(l, s)
  BY <1>1, Unmoved
<1>3. /\ s.there /\ s.current /\ route.check < s.expiresAt /\ s.expiresAt \in Nat /\ s.staleUntil \in Nat
      /\ s.value \in Value
  BY <1>2 DEF Hit, Usable, Snapshot
<1>4. s.expiresAt <= s.staleUntil /\ Within(l, s.value, s.staleUntil, Age) /\ UpToDate(l, s.value)
  BY <1>2, <1>3 DEF InPlace, Kept
<1>5. Within(l, s.value, route.check + 1, Age + LoadTime)
  BY <1>1, <1>3, <1>4 DEF Within
<1>6. NextStage(l) \in {"idle", "settling", "fallback", "done"} \cup Layers
  BY DEF NextStage, Layers
<1>7. PICK g \in [Layers -> Value] : g = [route.got EXCEPT ![l] = s.value]
  BY <1>1, <1>3 DEF Route
<1>8. PICK c \in [Layers -> BOOLEAN] : c = [route.current EXCEPT ![l] = TRUE]
  BY <1>1 DEF Route
<1>9. PICK r \in Route : r = [route EXCEPT !.stage = NextStage(l), !.got = g, !.current = c]
  BY <1>1, <1>6 DEF Route
<1>10. r.stage = NextStage(l) /\ r.check = route.check /\ r.since = route.since /\ r.got = g /\ r.current = c
  BY <1>1, <1>9 DEF Route
<1>11. \A m \in Layers : Routed(m, r)
  BY <1>3, <1>4, <1>5, <1>7, <1>8, <1>10, RouteTakes DEF Hit
<1>12. route' = r
  BY <1>2, <1>7, <1>8, <1>9 DEF Hit
<1> QED
  BY <1>1, <1>11, <1>12, Unmoved, Moves

LEMMA JoinInv ==
    ASSUME IInv, NEW l \in Layers, Join(l), UNCHANGED bound
    PROVE IInv'
<1>1. Aside /\ UNCHANGED <<snap, assembled>> /\ route \in Route
  BY Unmoved DEF Join, Aside
<1>2. PICK r \in Route : r = [route EXCEPT !.joined = TRUE]
  BY <1>1 DEF Route
<1>3. /\ r.stage = route.stage /\ r.check = route.check /\ r.since = route.since /\ r.got = route.got
      /\ r.current = route.current /\ route' = r
  BY <1>1, <1>2 DEF Route, Join
<1>4. \A m \in Layers : Routed(m, r)
  BY <1>3, Unmoved DEF Routed, Passed
<1>5. PICK f \in Load : f = Flight(l) /\ Flying(l, f)
  BY FlightFits
<1>6. load' \in [Layers -> Load] /\ \A m \in Layers : \A g \in {load'[m]} : Flying(m, g)
  BY <1>5, LoadMoves, Unmoved DEF Join
<1> QED
  BY <1>1, <1>3, <1>4, <1>6, Unmoved, Moves

LEMMA AssembleInv ==
    ASSUME IInv, Assemble, UNCHANGED bound
    PROVE IInv'
<1>1. /\ Aside /\ UNCHANGED <<snap, load>> /\ route \in Route /\ route.check \in Nat /\ clock \in Nat
      /\ TTL \in Nat /\ Age \in Nat /\ LoadTime \in Nat /\ Longest = Age + LoadTime + TTL
  BY Unmoved, Facts, Constants DEF Assemble, Aside, Route, Longest, Age
<1>2. PICK r \in Route : r = [route EXCEPT !.stage = "done"]
  BY <1>1 DEF Route
<1>3. /\ r.stage = "done" /\ r.check = route.check /\ r.since = route.since /\ r.got = route.got
      /\ r.current = route.current /\ route' = r
  BY <1>1, <1>2 DEF Route, Assemble
<1>7. route.got \in [Layers -> Value] /\ route.check + TTL \in Nat
  BY <1>1 DEF Route
<1>4. PICK a \in Assembly : a = [there |-> TRUE, got |-> route.got, expiresAt |-> route.check + TTL]
  BY <1>7 DEF Assembly
<1>5. a.got = route.got /\ a.expiresAt = route.check + TTL /\ assembled' = a
  BY <1>4 DEF Assemble
<1>6. ASSUME NEW m \in Layers
      PROVE Routed(m, r) /\ Candidates(m, a)
  <2>1. /\ Routed(m, route) /\ Passed(m, route) /\ ~ Passed(m, r) /\ route.got[m] \in Value
        /\ route.since[m] \in Nat /\ applied[m] \in Nat
    BY <1>1, <1>3, Unmoved, Facts DEF Assemble, Passed, Route, TypeOK
  <2>2. UpToDate(m, route.got[m])
    <3>1. CASE m \in bound.layers
      BY <2>1, <3>1 DEF Assemble, Stable, Routed
    <3>2. CASE m \notin bound.layers
      BY <2>1, <3>2, NotWritten
    <3> QED
      BY <3>1, <3>2
  <2>3. Routed(m, r)
    BY <1>3, <2>1, <2>2 DEF Routed, UpToDate, Value
  <2>4. Within(m, route.got[m], route.check + TTL + 1, Longest)
    BY <1>1, <2>1 DEF Routed, Within
  <2> QED
    BY <1>1, <1>5, <2>1, <2>2, <2>3, <2>4 DEF Candidates, Routed
<1> QED
  BY <1>1, <1>3, <1>5, <1>6, Unmoved, Moves

LEMMA RetryInv ==
    ASSUME IInv, Retry, UNCHANGED bound
    PROVE IInv'
<1>1. Aside /\ UNCHANGED <<snap, load, assembled>> /\ route \in Route /\ clock \in Nat
  BY Unmoved, Facts DEF Retry, Aside
<1>2. route.attempt \in Nat /\ route.attempt + 1 \in Nat
  BY <1>1 DEF Route
<1>3. PICK t \in {"base", "fallback"} : t = IF route.attempt + 1 < Attempts THEN "base" ELSE "fallback"
  OBVIOUS
<1>4. PICK r \in Route : r = [route EXCEPT !.attempt = route.attempt + 1, !.check = clock, !.stage = t]
  BY <1>1, <1>2 DEF Route, Layers
<1>5. /\ r.stage = t /\ r.check = clock /\ r.since = route.since /\ r.got = route.got
      /\ r.current = route.current
  BY <1>1, <1>4 DEF Route
<1>6. route' = r
  BY <1>3, <1>4 DEF Retry
<1>7. \A m \in Layers : Routed(m, r)
  BY <1>1, <1>5, Unmoved DEF Routed, Passed
<1> QED
  BY <1>1, <1>6, <1>7, Unmoved, Moves

LEMMA CombinedInv ==
    ASSUME IInv, Combined, UNCHANGED bound
    PROVE IInv'
<1>1. Aside /\ UNCHANGED <<snap, load, assembled>> /\ route \in Route
  BY Unmoved DEF Combined, Aside
<1>2. PICK g \in [Layers -> Value] : g = [l \in Layers |-> Reading(l)]
  BY ReadingShows
<1>3. PICK r \in Route : r = [route EXCEPT !.stage = "done", !.got = g]
  BY <1>1, <1>2 DEF Route
<1>4. /\ r.stage = "done" /\ r.check = route.check /\ r.since = route.since /\ r.got = g
      /\ r.current = route.current
  BY <1>1, <1>3 DEF Route
<1>5. route' = r
  BY <1>2, <1>3 DEF Combined
<1>6. ASSUME NEW m \in Layers
      PROVE Routed(m, r)
  <2>1. /\ Routed(m, route) /\ ~ Passed(m, r) /\ g[m] \in Value /\ UpToDate(m, g[m])
        /\ route.since[m] \in Nat /\ applied[m] \in Nat
    BY <1>1, <1>2, <1>4, Unmoved, Facts, ReadingShows DEF Passed, Route, TypeOK
  <2> QED
    BY <1>4, <2>1 DEF Routed, UpToDate, Value
<1> QED
  BY <1>1, <1>5, <1>6, Unmoved, Moves

LEMMA EndInv ==
    ASSUME IInv, CombinedFails \/ Return, UNCHANGED bound
    PROVE IInv'
<1>1. Aside /\ UNCHANGED <<snap, load, assembled>> /\ route' = NoRoute
  BY DEF CombinedFails, Return, Aside
<1> QED
  BY <1>1, NoRouteFits, Records, Unmoved, Moves

-----------------------------------------------------------------------------
(* The invariant, and what follows from it.                                *)

LEMMA InitInv == Init => IInv
<1> SUFFICES ASSUME Init
             PROVE IInv
  OBVIOUS
<1>1. bound \in Bounds /\ MaxWrites \in Nat /\ MaxTime \in Nat /\ NotYet \in 0 .. NotYet
  BY Constants DEF Init, NotYet
<1>2. TypeOK
  <2>1. written \in [Layers -> [1 .. MaxWrites -> Nat]] /\ stored \in [Layers -> Nat] /\ applied \in [Layers -> Nat]
    BY DEF Init
  <2>2. clock \in 0 .. MaxTime /\ failedAt \in 0 .. NotYet
    BY <1>1 DEF Init
  <2>3. snap \in [Layers -> Snapshot] /\ load \in [Layers -> Load] /\ route \in Route /\ assembled \in Assembly
    BY Records DEF Init
  <2>4. override \in Nat /\ known \in BOOLEAN /\ bared \in BOOLEAN /\ events = {} /\ arriving = {} /\ bound \in Bounds
    BY DEF Init
  <2> QED
    BY <2>1, <2>2, <2>3, <2>4 DEF TypeOK
<1>3. Changes /\ Overrides
  BY <1>1, Constants DEF Init, Changes, Overrides
<1>4. Snaps /\ Loads
  BY DEF Init, Snaps, InPlace, Kept, None, Loads, Flying, NoLoad
<1>5. Routes /\ Assemblies
  BY DEF Init, Routes, Routed, Passed, NoRoute, Assemblies, Candidates, NoAssembly
<1> QED
  BY <1>2, <1>3, <1>4, <1>5 DEF IInv

LEMMA NextInv == IInv /\ [Next /\ UNCHANGED bound]_<<bound, vars>> => IInv'
<1> SUFFICES ASSUME IInv, [Next /\ UNCHANGED bound]_<<bound, vars>>
             PROVE IInv'
  OBVIOUS
<1>1. CASE UNCHANGED <<bound, vars>>
  <2>1. Aside /\ UNCHANGED <<snap, load, route, assembled>>
    BY <1>1 DEF vars, Aside
  <2> QED
    BY <2>1, Unmoved, Moves
<1>2. ASSUME NEW l \in bound.layers, LayerStep(l), UNCHANGED bound
      PROVE IInv'
  <2>1. l \in Layers
    BY Facts
  <2> QED
    BY <1>2, <2>1, WriteInv, ClearInv, DropInv, StartInv, ReadInv, LoadedInv, FallBackInv, LoadFailsInv, HitInv,
       JoinInv DEF LayerStep
<1>3. ASSUME RouteStep, UNCHANGED bound
      PROVE IInv'
  BY <1>3, BeginInv, AssembleInv, RetryInv, CombinedInv, EndInv DEF RouteStep
<1> QED
  BY <1>1, <1>2, <1>3, CoolInv, HealthInv, ClearInv, LoseInv, TickInv DEF Next

\* The inductive invariant holds in every state.
THEOREM Invariant == Spec => []IInv
  BY InitInv, NextInv, PTL DEF Spec

(* The snapshots, the flights, the overrides and the events are well typed. *)
THEOREM TypeCorrect == Spec => []TypeOK
<1>1. IInv => TypeOK
  BY DEF IInv
<1> QED
  BY <1>1, Invariant, PTL

(* What was read before an invalidation arrived is neither kept nor given  *)
(* to the requests of a later flight, for any number of writes.            *)
THEOREM InvalidatedGone == Spec => []InvalidatedNotServed
<1>1. IInv => InvalidatedNotServed
  BY DEF IInv, Routes, Routed, Assemblies, Candidates, UpToDate, InvalidatedNotServed
<1> QED
  BY <1>1, Invariant, PTL

(* Candidates miss a change for less than Longest, whatever is lost and    *)
(* however long the database stays out of reach.                           *)
THEOREM StaleNoLonger == Spec => []StalenessBounded
<1>1. ASSUME IInv
      PROVE StalenessBounded
  <2> SUFFICES ASSUME Served, NEW l \in Layers, assembled.got[l].writes < stored[l]
               PROVE clock - written[l][assembled.got[l].writes + 1] < Longest
    BY DEF StalenessBounded
  <2>1. /\ assembled \in Assembly /\ Candidates(l, assembled) /\ stored[l] \in Nat /\ MaxWrites \in Nat
        /\ stored[l] <= bound.writes[l] /\ bound.writes[l] \in Nat /\ bound.writes[l] <= MaxWrites
        /\ clock \in Nat /\ written[l] \in [1 .. MaxWrites -> Nat]
    BY <1>1, Unmoved, Facts DEF TypeOK, Changes
  <2>2. assembled.got[l].writes \in Nat /\ assembled.expiresAt \in Nat /\ Longest \in Nat
    BY <1>1, <2>1, Facts, Constants DEF Assembly, Value
  <2>3. assembled.got[l].writes + 1 \in 1 .. MaxWrites
    BY <2>1, <2>2
  <2>4. written[l][assembled.got[l].writes + 1] \in Nat
    BY <2>1, <2>3
  <2>5. assembled.expiresAt + 1 <= written[l][assembled.got[l].writes + 1] + Longest
    BY <2>1, <2>4 DEF Candidates, Within, Missed, Served
  <2>6. clock < assembled.expiresAt
    BY DEF Served
  <2>7. ASSUME NEW t \in Nat, assembled.expiresAt + 1 <= t + Longest
        PROVE clock - t < Longest
    BY <2>1, <2>2, <2>6, <2>7
  <2> QED
    BY <2>4, <2>5, <2>7
<1> QED
  BY <1>1, Invariant, PTL

(* A failure the process knows of keeps the account out, through snapshots *)
(* and loads of any age, with the exceptions CooledStaysOut names.         *)
THEOREM CooledOut == Spec => []CooledStaysOut
<1>1. ASSUME IInv
      PROVE CooledStaysOut
  <2> SUFFICES ASSUME Served, known, ~ bared, ~ assembled.got["base"].cooled, ~ (override > 0)
               PROVE clock - failedAt \in TTL + StaleTTL .. Longest - 1
    BY DEF CooledStaysOut
  <2>1. /\ "base" \in Layers /\ assembled \in Assembly /\ Candidates("base", assembled)
        /\ Overrides /\ clock \in Nat /\ MaxTime \in Nat /\ TypeOK
    BY <1>1, Unmoved, Facts DEF Layers
  <2>2. /\ failedAt \in Nat /\ override = 0 /\ assembled.expiresAt \in Nat /\ Longest \in Nat
        /\ TTL \in Nat /\ StaleTTL \in Nat /\ OverrideLife = TTL + StaleTTL
    BY <2>1, Constants DEF TypeOK, NotYet, Assembly, OverrideLife
  <2>3. ~ (clock < failedAt + OverrideLife)
    BY <2>1, <2>2 DEF Candidates, UpToDate, Spared, Served
  <2>4. assembled.expiresAt + 1 <= failedAt + Longest
    BY <2>1, <2>2 DEF Candidates, Within, Missed, Served, Overrides
  <2>5. clock < assembled.expiresAt
    BY DEF Served
  <2> QED
    BY <2>1, <2>2, <2>3, <2>4, <2>5
<1> QED
  BY <1>1, Invariant, PTL

=============================================================================
