-------------------------- MODULE BillingLedgerProofs --------------------------
(***************************************************************************)
(* Proofs about BillingLedger, for every number of requests and processes, *)
(* every limit and every amount. The sums are kept by the transactions     *)
(* because a settlement skips the records the audit has already and a      *)
(* removal takes only rows that are there; the charge of a request that    *)
(* reserves finds its reservation, because the record of a charged request *)
(* is never under cancellation.                                            *)
(***************************************************************************)
EXTENDS BillingLedger, FiniteSetTheorems, TLAPS

\* A request that has not begun has no reservation, a record that is not handed
\* over is nowhere, and who may be charged has not lost its reservation to
\* anything but time and its own settlement.
Owned ==
    \A e \in Requests :
        /\ stage[e] \in {"idle", "admitted"} => e \notin held
        /\ stage[e] \in {"idle", "admitted", "running", "posting"} => e \notin audited \cup queue \cup batch
        /\ stage[e] \in {"idle", "admitted", "running", "cancelling"} => ~ record[e].charged
        /\ record[e].cancels => ~ record[e].charged
        /\ e \in Reserving /\ (stage[e] = "running" \/ record[e].charged) => e \in held \cup lapsed \cup audited

Marks == expired \subseteq lapsed /\ late \subseteq audited

Sums == ReservedIsSum /\ BilledOnce /\ WithinLimit

IInv == TypeOK /\ Owned /\ Marks /\ Sums /\ ChargeFindsReservation

----------------------------------------------------------------------------
(* Arithmetic and cardinalities.                                           *)

LEMMA Times ==
    ASSUME NEW x \in Nat, NEW y \in Nat, NEW z \in Nat
    PROVE  /\ x * y \in Nat
           /\ x * (y + z) = x * y + x * z
           /\ (x + y) * z = x * z + y * z
           /\ y <= z => x * y <= x * z
  OBVIOUS

LEMMA Count ==
    ASSUME NEW S \in SUBSET Requests
    PROVE  IsFiniteSet(S) /\ Cardinality(S) \in Nat
  BY BillingAssumption, FS_Subset, FS_CardinalityType

\* A set and a part of it.
LEMMA CountPart ==
    ASSUME NEW S \in SUBSET Requests, NEW T \in SUBSET S
    PROVE  /\ Cardinality(T) <= Cardinality(S)
           /\ Cardinality(S \ T) = Cardinality(S) - Cardinality(T)
<1>1. IsFiniteSet(S)
  BY Count
<1>2. Cardinality(T) <= Cardinality(S)
  BY <1>1, FS_Subset
<1>3. Cardinality(S \ T) = Cardinality(S) - Cardinality(S \cap T)
  BY <1>1, FS_Difference
<1>4. S \cap T = T
  OBVIOUS
<1> QED
  BY <1>2, <1>3, <1>4

\* Two sets without a common element.
LEMMA CountBoth ==
    ASSUME NEW S \in SUBSET Requests, NEW T \in SUBSET Requests, S \cap T = {}
    PROVE  Cardinality(S \cup T) = Cardinality(S) + Cardinality(T)
<1>1. IsFiniteSet(S) /\ IsFiniteSet(T) /\ Cardinality(S) \in Nat /\ Cardinality(T) \in Nat
  BY Count
<1>2. Cardinality(S \cap T) = 0
  BY FS_EmptySet
<1>3. Cardinality(S \cup T) = Cardinality(S) + Cardinality(T) - Cardinality(S \cap T)
  BY <1>1, FS_Union
<1> QED
  BY <1>1, <1>2, <1>3

LEMMA SetupType == TypeOK => Limit \in Nat /\ Overrun \in Nat /\ Amount \in Nat \ {0} /\ Cost \in Nat /\ Cost <= Amount + Overrun
  BY BillingAssumption DEF TypeOK, Limit, Overrun, Minus

----------------------------------------------------------------------------
(* The transactions.                                                       *)

\* The rows of S, all of them there, are removed with their amounts.
LEMMA RemoveRows ==
    ASSUME TypeOK, ReservedIsSum, NEW S \in SUBSET held
    PROVE  /\ Minus(reserved, Amount * Cardinality(S)) = Amount * Cardinality(held \ S)
           /\ Minus(reserved, Amount * Cardinality(S)) = reserved - Amount * Cardinality(S)
           /\ Amount * Cardinality(held \ S) \in Nat
<1> DEFINE h == Cardinality(held)
           s == Cardinality(S)
           r == Cardinality(held \ S)
<1>1. held \in SUBSET Requests /\ S \in SUBSET Requests /\ held \ S \in SUBSET Requests
  BY DEF TypeOK
<1>2. h \in Nat /\ s \in Nat /\ r \in Nat
  BY <1>1, Count
<1>3. h = r + s
  BY <1>1, <1>2, CountPart
<1>4. Amount * h = Amount * r + Amount * s /\ Amount * r \in Nat /\ Amount * s \in Nat
  BY <1>2, <1>3, Times, SetupType
<1>5. reserved = Amount * h
  BY DEF ReservedIsSum
<1> HIDE DEF h, s, r
<1>6. Minus(reserved, Amount * s) = Amount * r /\ Amount * r = reserved - Amount * s
  BY <1>4, <1>5 DEF Minus
<1> QED
  BY <1>4, <1>6 DEF s, r

LEMMA AddRow ==
    ASSUME TypeOK, NEW e \in Requests, NEW S \in SUBSET Requests, e \notin S
    PROVE  Amount * Cardinality(S \cup {e}) = Amount * Cardinality(S) + Amount
<1>1. IsFiniteSet(S) /\ Cardinality(S) \in Nat
  BY Count
<1>2. Cardinality(S \cup {e}) = Cardinality(S) + 1
  BY <1>1, FS_AddElement
<1>3. Amount * (Cardinality(S) + 1) = Amount * Cardinality(S) + Amount * 1 /\ Amount * 1 = Amount
  BY <1>1, Times, SetupType
<1> QED
  BY <1>2, <1>3

\* What the sums allow for is never negative.
LEMMA Allowance ==
    ASSUME TypeOK
    PROVE  Overrun * Cardinality(audited) + Cost * Cardinality(late) \in Nat
<1>1. Cardinality(audited) \in Nat /\ Cardinality(late) \in Nat
  BY Count DEF TypeOK
<1> QED
  BY <1>1, Times, SetupType

LEMMA Booking ==
    ASSUME IInv, NEW e \in Requests, stage[e] = "admitted", Book(e), UNCHANGED setup
    PROVE  /\ reserved' \in Nat /\ held' \in SUBSET Requests /\ expired' \in SUBSET held' 
           /\ ReservedIsSum' /\ WithinLimit'
           /\ UNCHANGED <<billed, audited, late>>
           /\ held \ expired \subseteq held' /\ held' \subseteq held \cup {e} /\ e \in held'
           /\ expired' \subseteq expired
<1> DEFINE f == Minus(reserved, Amount * Cardinality(expired))
<1>0. TypeOK /\ ReservedIsSum /\ e \notin held /\ held \in SUBSET Requests /\ expired \in SUBSET held
      /\ reserved \in Nat /\ billed \in Nat
  BY DEF IInv, Owned, Sums, TypeOK
<1>1. UNCHANGED <<billed, audited, late>>
  BY DEF Book
<1>2. f = Amount * Cardinality(held \ expired) /\ f \in Nat
  BY <1>0, RemoveRows
<1>3. ASSUME NEW r \in Nat, Fits(r), reserved' = r + Amount
      PROVE  WithinLimit'
  <2>1. billed + r + Amount <= Limit
    BY <1>0, <1>3, SetupType DEF Fits, Minus
  <2>2. Overrun * Cardinality(audited) + Cost * Cardinality(late) \in Nat
    BY <1>0, Allowance
  <2>3. Limit' = Limit /\ Overrun' = Overrun
    BY DEF Limit, Overrun, Minus
  <2>4. billed' + reserved' <= Limit
    BY <1>0, <1>1, <1>3, <2>1, SetupType
  <2>5. billed' + reserved' \in Nat /\ Limit \in Nat
    BY <1>0, <1>1, <1>3, SetupType
  <2>6. ASSUME NEW n \in Nat PROVE billed' + reserved' <= Limit + n
    BY <2>4, <2>5
  <2>8. Cardinality(audited) \in Nat /\ Cardinality(late) \in Nat
    BY <1>0, Count DEF TypeOK
  <2>9. Overrun * Cardinality(audited) \in Nat /\ Cost * Cardinality(late) \in Nat
    BY <1>0, <2>8, Times, SetupType
  <2>7. billed' + reserved' <= Limit + Overrun * Cardinality(audited) + Cost * Cardinality(late)
    BY <2>4, <2>5, <2>9
  <2> QED
    BY <1>1, <2>3, <2>7 DEF WithinLimit
<1>4. CASE /\ Fits(reserved) /\ reserved' = reserved + Amount
           /\ held' = held \cup {e} /\ UNCHANGED expired
  <2>1. Amount * Cardinality(held \cup {e}) = reserved + Amount
    BY <1>0, AddRow DEF ReservedIsSum
  <2>2. ReservedIsSum' /\ WithinLimit' /\ reserved' \in Nat
    BY <1>0, <1>3, <1>4, <2>1, SetupType DEF ReservedIsSum
  <2> QED
    BY <1>0, <1>1, <1>4, <2>2
<1>5. CASE /\ Fits(f) /\ reserved' = f + Amount
           /\ held' = (held \ expired) \cup {e} /\ expired' = {}
  <2>1. Amount * Cardinality((held \ expired) \cup {e}) = f + Amount
    <3>1. held \ expired \in SUBSET Requests /\ e \notin held \ expired
      BY <1>0
    <3> QED
      BY <1>0, <1>2, <3>1, AddRow
  <2>2. ReservedIsSum' /\ WithinLimit' /\ reserved' \in Nat
    BY <1>0, <1>2, <1>3, <1>5, <2>1, SetupType DEF ReservedIsSum
  <2> QED
    BY <1>0, <1>1, <1>5, <2>2
<1> QED
  BY <1>4, <1>5 DEF Book

LEMMA Unbooking ==
    ASSUME IInv, NEW S \in SUBSET held, Unbook(S), UNCHANGED setup
    PROVE  /\ reserved' \in Nat /\ held' \in SUBSET Requests /\ expired' \in SUBSET held'
           /\ ReservedIsSum' /\ WithinLimit'
           /\ UNCHANGED <<billed, audited, late>>
           /\ held' = held \ S /\ expired' = expired \ S
<1>0. TypeOK /\ ReservedIsSum /\ WithinLimit /\ held \in SUBSET Requests /\ expired \in SUBSET held
      /\ reserved \in Nat /\ billed \in Nat
  BY DEF IInv, Sums, TypeOK
<1>1. UNCHANGED <<billed, audited, late>> /\ held' = held \ S /\ expired' = expired \ S
  BY DEF Unbook
<1>2. reserved' = Amount * Cardinality(held \ S) /\ reserved' \in Nat
      /\ reserved' = reserved - Amount * Cardinality(S)
  BY <1>0, RemoveRows DEF Unbook
<1>3. Amount * Cardinality(S) \in Nat
  <2>1. S \in SUBSET Requests
    BY <1>0
  <2>2. Cardinality(S) \in Nat
    BY <2>1, Count
  <2> QED
    BY <1>0, <2>2, Times, SetupType
<1>4. reserved' <= reserved
  BY <1>0, <1>2, <1>3
<1>5. WithinLimit'
  <2>1. Limit' = Limit /\ Overrun' = Overrun /\ Limit \in Nat
    BY <1>0, SetupType DEF Limit, Overrun, Minus
  <2>2. Overrun * Cardinality(audited) + Cost * Cardinality(late) \in Nat
    BY <1>0, Allowance
  <2>8. Cardinality(audited) \in Nat /\ Cardinality(late) \in Nat
    BY <1>0, Count DEF TypeOK
  <2>9. Overrun * Cardinality(audited) \in Nat /\ Cost * Cardinality(late) \in Nat
    BY <1>0, <2>8, Times, SetupType
  <2>3. billed + reserved' <= Limit + Overrun * Cardinality(audited) + Cost * Cardinality(late)
    BY <1>0, <1>2, <1>4, <2>1, <2>9 DEF WithinLimit
  <2> QED
    BY <1>1, <2>1, <2>3 DEF WithinLimit
<1>6. ReservedIsSum'
  BY <1>1, <1>2 DEF ReservedIsSum
<1> QED
  BY <1>0, <1>1, <1>2, <1>5, <1>6

\* What the settlement of a batch charges fits into what it gives back, its
\* overruns and its late charges.
LEMMA Balance ==
    ASSUME TypeOK, NEW i \in Nat, NEW m \in Nat, NEW a \in Nat, NEW b \in Nat, a <= m, a <= i
    PROVE  Cost * (a + b) <= Amount * m + Overrun * i + Cost * b
<1>1. Cost \in Nat /\ Amount \in Nat /\ Overrun \in Nat /\ Cost <= Amount + Overrun
  BY SetupType
<1>2. a * Cost <= a * (Amount + Overrun)
  BY <1>1, Times
<1>3. a * (Amount + Overrun) = a * Amount + a * Overrun
  BY <1>1, Times
<1>4. Amount * a <= Amount * m /\ Overrun * a <= Overrun * i
  BY <1>1, Times
<1>5. a * Cost = Cost * a /\ a * Amount = Amount * a /\ a * Overrun = Overrun * a
  BY <1>1
<1>6. Cost * (a + b) = Cost * a + Cost * b
  BY <1>1, Times
<1>7. /\ Cost * a \in Nat /\ Cost * b \in Nat /\ Amount * a \in Nat /\ Overrun * a \in Nat
      /\ Amount * m \in Nat /\ Overrun * i \in Nat
  BY <1>1, Times
<1> QED
  BY <1>2, <1>3, <1>4, <1>5, <1>6, <1>7

LEMMA Settling ==
    ASSUME IInv, NEW S \in SUBSET Requests, Settle(S), UNCHANGED <<setup, record>>
    PROVE  /\ reserved' \in Nat /\ billed' \in Nat
           /\ held' \in SUBSET Requests /\ expired' \in SUBSET held'
           /\ audited' \in SUBSET Requests /\ late' \in SUBSET Requests
           /\ Sums'
           /\ audited' = audited \cup S /\ held \ audited' \subseteq held' /\ held' \subseteq held
           /\ expired' \subseteq expired
           /\ late' = late \cup Charged((S \ audited) \ held)
<1> DEFINE inserted == S \ audited
           settled == inserted \cap held
           kept == Charged(settled)
           lost == Charged(inserted \ held)
           i == Cardinality(inserted)
           m == Cardinality(settled)
           a == Cardinality(kept)
           b == Cardinality(lost)
<1>0. /\ TypeOK /\ Sums /\ Marks /\ reserved \in Nat /\ billed \in Nat
      /\ held \in SUBSET Requests /\ expired \in SUBSET held
      /\ audited \in SUBSET Requests /\ late \in SUBSET audited /\ late \in SUBSET Requests
  BY DEF IInv, Marks, TypeOK
<1>1. /\ inserted \in SUBSET Requests /\ settled \in SUBSET held /\ settled \in SUBSET inserted
      /\ kept \in SUBSET settled /\ lost \in SUBSET inserted
  BY <1>0 DEF Charged
<1>2. /\ Charged(inserted) = kept \cup lost /\ kept \cap lost = {}
      /\ late \cap lost = {} /\ audited \cap inserted = {}
  BY <1>0 DEF Charged
<1>3. /\ audited' = audited \cup inserted /\ held' = held \ settled /\ expired' = expired \ settled
      /\ late' = late \cup lost
      /\ billed' = billed + Cost * Cardinality(Charged(inserted))
      /\ reserved' = Minus(reserved, Amount * m)
  BY DEF Settle
<1>4. i \in Nat /\ m \in Nat /\ a \in Nat /\ b \in Nat /\ a <= m /\ a <= i
  <2>1. /\ settled \in SUBSET Requests /\ kept \in SUBSET Requests /\ lost \in SUBSET Requests
        /\ kept \in SUBSET inserted
    BY <1>0, <1>1
  <2>2. i \in Nat /\ m \in Nat /\ a \in Nat /\ b \in Nat
    BY <1>1, <2>1, Count
  <2> QED
    BY <1>1, <2>1, <2>2, CountPart
<1>5. Cardinality(Charged(inserted)) = a + b
  <2>1. kept \in SUBSET Requests /\ lost \in SUBSET Requests
    BY <1>0, <1>1
  <2> QED
    BY <1>2, <2>1, CountBoth
<1>6. reserved' = Amount * Cardinality(held') /\ reserved' = reserved - Amount * m /\ reserved' \in Nat
  BY <1>0, <1>1, <1>3, RemoveRows DEF Sums
<1>7. BilledOnce' /\ billed' \in Nat
  <2>1. Charged(audited') = Charged(audited) \cup Charged(inserted) /\ Charged(audited) \cap Charged(inserted) = {}
    BY <1>3, <1>2 DEF Charged
  <2>2. Charged(audited) \in SUBSET Requests /\ Charged(inserted) \in SUBSET Requests
    BY <1>0, <1>1 DEF Charged
  <2>3. Cardinality(Charged(audited')) = Cardinality(Charged(audited)) + (a + b)
    BY <1>5, <2>1, <2>2, CountBoth
  <2>4. Cardinality(Charged(audited)) \in Nat
    BY <2>2, Count
  <2>5. Cost * Cardinality(Charged(audited')) = Cost * Cardinality(Charged(audited)) + Cost * (a + b)
    BY <1>0, <1>4, <2>3, <2>4, Times, SetupType
  <2>6. Cost * (a + b) \in Nat
    BY <1>0, <1>4, Times, SetupType
  <2>7. billed' = Cost * Cardinality(Charged(audited')) /\ billed' \in Nat
    BY <1>0, <1>3, <1>5, <2>5, <2>6 DEF Sums, BilledOnce
  <2>8. Charged(audited)' = Charged(audited')
    BY DEF Charged
  <2> QED
    BY <2>7, <2>8 DEF BilledOnce
<1>8. WithinLimit'
  <2> DEFINE n == Cardinality(audited)
             l == Cardinality(late)
  <2>1. Cardinality(audited') = n + i /\ Cardinality(late') = l + b /\ n \in Nat /\ l \in Nat
    <3>1. lost \in SUBSET Requests
      BY <1>0, <1>1
    <3> QED
      BY <1>0, <1>1, <1>2, <1>3, <3>1, Count, CountBoth
  <2>2. Cost * (a + b) <= Amount * m + Overrun * i + Cost * b
    BY <1>0, <1>4, Balance
  <2>3. Overrun * (n + i) = Overrun * n + Overrun * i /\ Cost * (l + b) = Cost * l + Cost * b
    BY <1>0, <1>4, <2>1, Times, SetupType
  <2>4. /\ Overrun * n \in Nat /\ Overrun * i \in Nat /\ Cost * l \in Nat /\ Cost * b \in Nat
        /\ Amount * m \in Nat /\ Cost * (a + b) \in Nat
    BY <1>0, <1>4, <2>1, Times, SetupType
  <2>5. billed + reserved <= Limit + Overrun * n + Cost * l
    BY <1>0 DEF Sums, WithinLimit
  <2>6. billed' = billed + Cost * (a + b)
    BY <1>3, <1>5
  <2>7. Limit \in Nat /\ Limit' = Limit /\ Overrun' = Overrun
    BY <1>0, SetupType DEF Limit, Overrun, Minus
  <2> HIDE DEF i, m, a, b, n, l
  <2>8. billed' + reserved' <= Limit + (Overrun * n + Overrun * i) + (Cost * l + Cost * b)
    BY <1>0, <1>6, <2>2, <2>4, <2>5, <2>6, <2>7
  <2> QED
    BY <2>1, <2>3, <2>7, <2>8 DEF WithinLimit
<1>9. Sums'
  BY <1>6, <1>7, <1>8 DEF Sums, ReservedIsSum
<1>10. /\ held' \in SUBSET Requests /\ expired' \in SUBSET held'
       /\ audited' \in SUBSET Requests /\ late' \in SUBSET Requests
  BY <1>0, <1>1, <1>3
<1>11. /\ audited' = audited \cup S /\ held \ audited' \subseteq held' /\ held' \subseteq held
       /\ expired' \subseteq expired
  BY <1>3
<1> QED
  BY <1>3, <1>6, <1>7, <1>9, <1>10, <1>11

----------------------------------------------------------------------------
(* The invariant.                                                          *)

LEMMA InitInv == Init => IInv
<1> SUFFICES ASSUME Init PROVE IInv
  OBVIOUS
<1>1. TypeOK
  BY BillingAssumption DEF Init, TypeOK, Stages, Record
<1>2. Owned /\ Marks /\ ChargeFindsReservation
  BY BillingAssumption DEF Init, Reserving, Owned, Marks, ChargeFindsReservation
<1>3. Cardinality({}) = 0
  BY FS_EmptySet
<1>4. Charged({}) = {} /\ held = {} /\ audited = {} /\ late = {} /\ reserved = 0 /\ billed = 0
  BY DEF Charged, Init
<1>5. Amount * 0 = 0 /\ Cost * 0 = 0 /\ Overrun * 0 = 0 /\ Limit \in Nat
  BY <1>1, SetupType
<1>6. Cardinality(Charged(audited)) = 0 /\ Cardinality(held) = 0 /\ Cardinality(audited) = 0 /\ Cardinality(late) = 0
  BY <1>3, <1>4
<1>7. Sums
  BY <1>4, <1>5, <1>6 DEF Sums, ReservedIsSum, BilledOnce, WithinLimit
<1> QED
  BY <1>1, <1>2, <1>7 DEF IInv

\* A step that leaves the database and the records alone keeps the sums.
LEMMA SumsKept ==
    ASSUME Sums, UNCHANGED <<database, record, setup>>
    PROVE  Sums'
  BY DEF Sums, ReservedIsSum, BilledOnce, WithinLimit, database, Charged, Limit, Overrun

\* Nor does a new record of a request that has not been audited change them.
LEMMA SumsRecorded ==
    ASSUME TypeOK, Sums, NEW e \in Requests, e \notin audited, NEW v, record' = [record EXCEPT ![e] = v],
           UNCHANGED <<database, setup>>
    PROVE  Sums'
<1>1. Charged(audited)' = Charged(audited)
  BY DEF Charged, TypeOK, database
<1> QED
  BY <1>1 DEF Sums, ReservedIsSum, BilledOnce, WithinLimit, database, Limit, Overrun

\* A request moves on to s.
LEMMA Moves ==
    ASSUME TypeOK, NEW e \in Requests, NEW s \in Stages, Goto(e, s)
    PROVE  /\ stage' \in [Requests -> Stages] /\ stage'[e] = s
           /\ \A f \in Requests : f # e => stage'[f] = stage[f]
  BY DEF TypeOK, Goto

LEMMA RequestKeeps ==
    ASSUME IInv, NEW e \in Requests, RequestStep(e), UNCHANGED setup
    PROVE  IInv'
<1>0. TypeOK /\ Owned /\ Marks /\ Sums /\ ChargeFindsReservation
  BY DEF IInv
<1> USE DEF database, writer, Reserving
<1>f. ASSUME Fault PROVE faults' \in 0 .. setup.faults
  BY <1>0, <1>f, BillingAssumption DEF Fault, TypeOK
<1>g. ASSUME NEW v, FaultUnless(v) PROVE faults' \in 0 .. setup.faults
  BY <1>0, <1>f, <1>g DEF FaultUnless, TypeOK
<1>1. CASE Admit(e)
  <2>1. PICK s \in {"admitted", "done"} : Goto(e, s)
    BY <1>1 DEF Admit
  <2>2. s \in Stages
    BY DEF Stages
  <2>3. Sums'
    BY <1>0, <1>1, SumsKept DEF Admit
  <2> QED
    BY <1>0, <1>1, <2>1, <2>2, <2>3, Moves DEF Admit, IInv, TypeOK, Owned, Marks, ChargeFindsReservation
<1>2. CASE Reserve(e)
  <2>1. Goto(e, "running") /\ "running" \in Stages /\ stage[e] = "admitted" /\ Book(e)
    BY <1>2 DEF Reserve, Stages
  <2>2. UNCHANGED <<record, queue, batch, writing, dropped, lapsed, faults>> /\ active' = active \cup {e}
    BY <1>2 DEF Reserve
  <2>3. Sums'
    BY <1>0, <2>1, <2>2, Booking DEF Sums, BilledOnce, Charged
  <2>4. Owned'
    BY <1>0, <2>1, <2>2, Booking, Moves DEF Owned, Marks
  <2> QED
    BY <1>0, <2>1, <2>2, <2>3, <2>4, Booking, Moves DEF IInv, TypeOK, Marks, ChargeFindsReservation
<1>3. CASE ReserveLost(e)
  <2>1. Goto(e, "done") /\ "done" \in Stages /\ stage[e] = "admitted" /\ Book(e) /\ Fault
    BY <1>3 DEF ReserveLost, Stages
  <2>2. UNCHANGED <<record, active, queue, batch, writing, dropped, lapsed>>
    BY <1>3 DEF ReserveLost
  <2>3. Sums'
    BY <1>0, <2>1, <2>2, Booking DEF Sums, BilledOnce, Charged
  <2>4. Owned'
    BY <1>0, <2>1, <2>2, Booking, Moves DEF Owned, Marks
  <2> QED
    BY <1>0, <1>f, <2>1, <2>2, <2>3, <2>4, Booking, Moves DEF IInv, TypeOK, Marks, ChargeFindsReservation
<1>4. CASE TurnAway(e)
  <2>1. Goto(e, "done") /\ "done" \in Stages
    BY <1>4 DEF TurnAway, Stages
  <2>2. Sums'
    BY <1>0, <1>4, SumsKept DEF TurnAway
  <2> QED
    BY <1>0, <1>4, <2>1, <2>2, Moves DEF TurnAway, IInv, TypeOK, Owned, Marks, ChargeFindsReservation
<1>20. CASE ServeUnreserved(e)
  <2>1. Goto(e, "running") /\ "running" \in Stages /\ stage[e] = "admitted" /\ e \notin Reserving
    BY <1>20 DEF ServeUnreserved, Stages
  <2>2. UNCHANGED <<setup, record, reserved, billed, held, expired, audited, late, active, queue, batch,
                    writing, dropped, lapsed, faults>> /\ Reserving' = Reserving
    BY <1>20 DEF ServeUnreserved
  <2>3. Sums'
    BY <1>0, <2>2, SumsKept
  <2>4. Owned'
    BY <1>0, <2>1, <2>2, Moves DEF Owned
  <2> QED
    BY <1>0, <2>1, <2>2, <2>3, <2>4, Moves DEF IInv, TypeOK, Marks, ChargeFindsReservation
<1>5. ASSUME NEW c \in BOOLEAN, NEW v \in BOOLEAN, NEW x \in BOOLEAN, x => ~ c, stage[e] = "running",
             record' = [record EXCEPT ![e] = [charged |-> c, valid |-> v, cancels |-> x]],
             FaultUnless(v), Goto(e, "posting"), UNCHANGED <<database, active, writer, lapsed>>
      PROVE  IInv'
  <2>1. e \notin audited /\ "posting" \in Stages
    BY <1>0, <1>5 DEF Owned, Stages
  <2>2. Sums'
    BY <1>0, <1>5, <2>1, SumsRecorded
  <2>3. record' \in [Requests -> Record] /\ record'[e] = [charged |-> c, valid |-> v, cancels |-> x]
        /\ \A f \in Requests : f # e => record'[f] = record[f]
    BY <1>0, <1>5 DEF TypeOK, Record
  <2>4. Owned'
    BY <1>0, <1>5, <2>1, <2>3, Moves DEF Owned
  <2> QED
    BY <1>0, <1>5, <1>g, <2>1, <2>2, <2>3, <2>4, Moves DEF IInv, TypeOK, Marks, ChargeFindsReservation
<1>6. CASE Finish(e)
  BY <1>5, <1>6 DEF Finish
<1>7. CASE Fail(e)
  BY <1>5, <1>7 DEF Fail
<1>8. CASE Abandon(e)
  <2>1. Goto(e, "cancelling") /\ "cancelling" \in Stages
    BY <1>8 DEF Abandon, Stages
  <2>2. Sums'
    BY <1>0, <1>8, SumsKept DEF Abandon
  <2> QED
    BY <1>0, <1>8, <2>1, <2>2, Moves DEF Abandon, IInv, TypeOK, Owned, Marks, ChargeFindsReservation
<1>9. CASE Enqueue(e)
  <2>1. Goto(e, "waiting") /\ "waiting" \in Stages
    BY <1>9 DEF Enqueue, Stages
  <2>2. Sums'
    BY <1>0, <1>9, SumsKept DEF Enqueue
  <2>3. e \notin batch
    BY <1>0, <1>9 DEF Enqueue, Owned
  <2> QED
    BY <1>0, <1>9, <2>1, <2>2, <2>3, Moves DEF Enqueue, IInv, TypeOK, Owned, Marks, ChargeFindsReservation
<1>10. PICK s : s = After(e)
  OBVIOUS
<1>11. s \in Stages /\ s \in {"cancelling", "done"} /\ (s = "cancelling" => ~ record[e].charged)
  BY <1>0, <1>10 DEF After, Stages, Owned
<1>12. CASE Drop(e)
  <2>1. Goto(e, s)
    BY <1>10, <1>12 DEF Drop
  <2>2. Sums'
    BY <1>0, <1>12, SumsKept DEF Drop
  <2>3. Owned'
    BY <1>0, <1>11, <1>12, <2>1, Moves DEF Drop, Owned
  <2> QED
    BY <1>0, <1>11, <1>12, <2>1, <2>2, <2>3, Moves DEF Drop, IInv, TypeOK, Marks, ChargeFindsReservation
<1>13. CASE Leave(e)
  <2>1. Goto(e, s)
    BY <1>10, <1>13 DEF Leave
  <2>2. Sums'
    BY <1>0, <1>13, SumsKept DEF Leave
  <2>3. Owned'
    BY <1>0, <1>11, <1>13, <2>1, Moves DEF Leave, Owned
  <2> QED
    BY <1>0, <1>11, <1>13, <2>1, <2>2, <2>3, Moves DEF Leave, IInv, TypeOK, Marks, ChargeFindsReservation
<1>14. ASSUME stage[e] = "cancelling", Unbook(held \cap {e}), active' \subseteq active, Goto(e, "done"),
              faults' \in 0 .. setup.faults, UNCHANGED <<record, writer, lapsed>>
       PROVE  IInv'
  <2> DEFINE S == held \cap {e}
  <2>1. S \in SUBSET held /\ "done" \in Stages /\ Unbook(S)
    BY <1>14 DEF Stages
  <2>2. ~ record[e].charged
    BY <1>0, <1>14 DEF Owned
  <2> HIDE DEF S
  <2>3. /\ reserved' \in Nat /\ held' \in SUBSET Requests /\ expired' \in SUBSET held'
        /\ ReservedIsSum' /\ WithinLimit'
        /\ UNCHANGED <<billed, audited, late>> /\ held' = held \ S /\ expired' = expired \ S
    BY <2>1, Unbooking
  <2>4. Sums'
    BY <1>0, <1>14, <2>3 DEF Sums, BilledOnce, Charged
  <2>5. Owned'
    BY <1>0, <1>14, <2>1, <2>2, <2>3, Moves DEF Owned, S
  <2> QED
    BY <1>0, <1>14, <2>1, <2>3, <2>4, <2>5, Moves DEF IInv, TypeOK, Marks, ChargeFindsReservation
<1>15. CASE Cancel(e)
  BY <1>0, <1>14, <1>15 DEF Cancel, TypeOK
<1>16. CASE CancelFails(e)
  <2>1. CASE Unbook(held \cap {e})
    BY <1>14, <1>16, <1>f, <2>1 DEF CancelFails
  <2>2. CASE UNCHANGED database
    <3>1. Goto(e, "done") /\ "done" \in Stages
      BY <1>16 DEF CancelFails, Stages
    <3>2. Sums'
      BY <1>0, <1>16, <2>2, SumsKept DEF CancelFails
    <3> QED
      BY <1>0, <1>16, <1>f, <2>2, <3>1, <3>2, Moves DEF CancelFails, IInv, TypeOK, Owned, Marks, ChargeFindsReservation
  <2> QED
    BY <1>16, <2>1, <2>2 DEF CancelFails
<1>17. CASE Take(e)
  <2>1. Sums'
    BY <1>0, <1>17, SumsKept DEF Take
  <2> QED
    BY <1>0, <1>17, <2>1 DEF Take, IInv, TypeOK, Owned, Marks, ChargeFindsReservation
<1>18. CASE Reject(e)
  <2>1. Sums'
    BY <1>0, <1>18, SumsKept DEF Reject
  <2> QED
    BY <1>0, <1>18, <2>1 DEF Reject, IInv, TypeOK, Owned, Marks, ChargeFindsReservation
<1>19. CASE Expire(e)
  <2>1. UNCHANGED <<record, reserved, billed, held, audited, late>>
    BY <1>19 DEF Expire
  <2>2. Sums'
    BY <1>0, <2>1 DEF Sums, ReservedIsSum, BilledOnce, WithinLimit, Charged, Limit, Overrun
  <2> QED
    BY <1>0, <1>19, <2>2 DEF Expire, IInv, TypeOK, Owned, Marks, ChargeFindsReservation
<1> QED
  BY <1>1, <1>2, <1>3, <1>4, <1>6, <1>7, <1>8, <1>9, <1>12, <1>13, <1>15, <1>16, <1>17, <1>18, <1>19,
     <1>20 DEF RequestStep

LEMMA InstanceKeeps ==
    ASSUME IInv, NEW i \in Instances, InstanceStep(i), UNCHANGED setup
    PROVE  IInv'
<1>0. TypeOK /\ Owned /\ Marks /\ Sums /\ ChargeFindsReservation
  BY DEF IInv
<1> USE DEF database, writer, Reserving
<1>f. ASSUME Fault PROVE faults' \in 0 .. setup.faults
  BY <1>0, <1>f, BillingAssumption DEF Fault, TypeOK
<1>1. CASE Flush(i)
  <2>1. Sums'
    BY <1>0, <1>1, SumsKept DEF Flush
  <2> QED
    BY <1>0, <1>1, <2>1 DEF Flush, IInv, TypeOK, Owned, Marks, ChargeFindsReservation
<1>2. ASSUME NEW S, S = Batch(i), Settle(S), active' \subseteq active, queue' = queue, batch' \subseteq batch,
             writing' \subseteq writing, faults' \in 0 .. setup.faults, UNCHANGED <<stage, record, dropped, lapsed>>
      PROVE  IInv'
  <2>1. S \in SUBSET Requests /\ S \subseteq batch
    BY <1>0, <1>2 DEF Batch, At, TypeOK
  <2>2. /\ reserved' \in Nat /\ billed' \in Nat
        /\ held' \in SUBSET Requests /\ expired' \in SUBSET held'
        /\ audited' \in SUBSET Requests /\ late' \in SUBSET Requests
        /\ Sums'
        /\ audited' = audited \cup S /\ held \ audited' \subseteq held' /\ held' \subseteq held
        /\ expired' \subseteq expired
        /\ late' = late \cup Charged((S \ audited) \ held)
    BY <1>2, <2>1, Settling
  <2>3. Owned'
    BY <1>0, <1>2, <2>1, <2>2 DEF Owned
  <2>4. Charged((S \ audited) \ held) \cap Reserving \subseteq lapsed
    BY <1>0, <2>1 DEF Charged, Owned
  <2>5. Charged((S \ audited) \ held) \subseteq S
    BY DEF Charged
  <2>6. Marks' /\ ChargeFindsReservation'
    BY <1>0, <1>2, <2>2, <2>4, <2>5 DEF Marks, ChargeFindsReservation
  <2>7. TypeOK'
    BY <1>0, <1>2, <2>2 DEF TypeOK
  <2> QED
    BY <2>2, <2>3, <2>6, <2>7 DEF IInv
<1>3. CASE Commit(i)
  BY <1>0, <1>2, <1>3 DEF Commit, TypeOK
<1>4. CASE CommitLost(i)
  BY <1>0, <1>2, <1>4, <1>f DEF CommitLost, TypeOK
<1>5. CASE Cleanup(i)
  <2> DEFINE S == expired \ (active \cap At(i))
  <2>1. S \in SUBSET held /\ S \subseteq lapsed /\ Unbook(S)
    BY <1>0, <1>5 DEF Cleanup, TypeOK, Marks
  <2>2. UNCHANGED <<stage, record, active, queue, batch, writing, dropped, lapsed, faults>>
    BY <1>5 DEF Cleanup
  <2> HIDE DEF S
  <2>3. /\ reserved' \in Nat /\ held' \in SUBSET Requests /\ expired' \in SUBSET held'
        /\ ReservedIsSum' /\ WithinLimit'
        /\ UNCHANGED <<billed, audited, late>> /\ held' = held \ S /\ expired' = expired \ S
    BY <2>1, Unbooking
  <2>4. Sums'
    BY <1>0, <2>2, <2>3 DEF Sums, BilledOnce, Charged
  <2>5. Owned'
    BY <1>0, <2>1, <2>2, <2>3 DEF Owned
  <2> QED
    BY <1>0, <2>2, <2>3, <2>4, <2>5 DEF IInv, TypeOK, Marks, ChargeFindsReservation
<1>6. CASE Crash(i)
  <2>1. Sums'
    BY <1>0, <1>6, SumsKept DEF Crash
  <2>2. stage' \in [Requests -> Stages]
        /\ \A e \in Requests : stage'[e] = stage[e] \/ stage'[e] = "done"
    BY <1>0, <1>6 DEF Crash, TypeOK, Stages
  <2>3. Owned'
    BY <1>0, <1>6, <2>2 DEF Crash, Owned
  <2> QED
    BY <1>0, <1>6, <1>f, <2>1, <2>2, <2>3 DEF Crash, IInv, TypeOK, Marks, ChargeFindsReservation
<1> QED
  BY <1>1, <1>3, <1>4, <1>5, <1>6 DEF InstanceStep

\* Every state of every key satisfies the invariant: the types, the sums, and
\* what a request in flight still owns.
THEOREM Invariant == Spec => []IInv
<1>1. IInv /\ UNCHANGED <<setup, vars>> => IInv'
  <2> SUFFICES ASSUME IInv, UNCHANGED <<setup, vars>> PROVE IInv'
    OBVIOUS
  <2>0. TypeOK /\ Owned /\ Marks /\ Sums /\ ChargeFindsReservation
    BY DEF IInv
  <2>1. Sums'
    BY <2>0, SumsKept DEF vars, database
  <2>2. TypeOK'
    BY <2>0 DEF vars, database, writer, TypeOK
  <2>3. Owned' /\ Marks' /\ ChargeFindsReservation'
    BY <2>0 DEF vars, database, writer, Reserving, Owned, Marks, ChargeFindsReservation
  <2> QED
    BY <2>1, <2>2, <2>3 DEF IInv
<1>2. IInv /\ [Next /\ UNCHANGED setup]_<<setup, vars>> => IInv'
  BY <1>1, RequestKeeps, InstanceKeeps DEF Next
<1> QED
  BY InitInv, <1>2, PTL DEF Spec

\* The variables keep their types.
THEOREM TypeCorrect == Spec => []TypeOK
<1>1. IInv => TypeOK
  BY DEF IInv
<1> QED
  BY Invariant, <1>1, PTL

\* The columns of the key are the sums of its reservations and of its charges: no
\* reservation is given back twice and no event is charged twice.
THEOREM ColumnsHold == Spec => []ColumnsAreSums
<1>1. IInv => ColumnsAreSums
  BY DEF IInv, Sums, ColumnsAreSums
<1> QED
  BY <1>1, Invariant, PTL

\* The limit holds up to overruns and the charges without a reservation.
THEOREM LimitHolds == Spec => []WithinLimit
<1>1. IInv => WithinLimit
  BY DEF IInv, Sums
<1> QED
  BY Invariant, <1>1, PTL

\* Of the requests that reserve, only one whose reservation expired can be charged
\* without it, however the records, cancellations and cleanups of all interleave.
THEOREM LateOnlyAfterExpiry == Spec => []ChargeFindsReservation
<1>1. IInv => ChargeFindsReservation
  BY DEF IInv
<1> QED
  BY Invariant, <1>1, PTL

----------------------------------------------------------------------------
(* The refinement: the columns decide as the rows would.                   *)

LEMMA SameCardinality == \A S : Account!Cardinality(S) = Cardinality(S)
BY Zenon DEF Account!Cardinality, Cardinality

\* There is room by the columns if and only if there is room by the rows.
LEMMA FitsIsRoom ==
    ASSUME TypeOK, BilledOnce, NEW S \in SUBSET Requests
    PROVE  Fits(Amount * Cardinality(S)) <=> Account!Room(S)
<1> DEFINE r == Amount * Cardinality(S)
<1>1. Cardinality(S) \in Nat
  BY Count
<1>2. Limit \in Nat /\ Amount \in Nat \ {0} /\ billed \in Nat /\ r \in Nat
  BY <1>1, SetupType, Times DEF TypeOK
<1>3. Account!Room(S) <=> billed + r + Amount <= Limit
  <2>1. Account!Room(S) <=> Cost * Cardinality(Charged(audited)) + r + Amount <= Limit
    BY SameCardinality DEF Account!Room
  <2> QED
    BY <2>1 DEF BilledOnce
<1> HIDE DEF r
<1>4. Fits(r) <=> billed + r + Amount <= Limit
  BY <1>2 DEF Fits, Minus
<1> QED
  BY <1>3, <1>4 DEF r

\* The key is charged for the same events as long as no record of one of them changes.
LEMMA AccountStutters ==
    ASSUME UNCHANGED <<setup, held, audited>>, \A e \in audited : record'[e] = record[e]
    PROVE  UNCHANGED Account!vars
<1>1. Charged(audited)' = Charged(audited)
  BY DEF Charged
<1> QED
  BY <1>1 DEF Account!vars, Limit

LEMMA BookRefines ==
    ASSUME IInv, NEW e \in Requests, stage[e] = "admitted", Book(e), UNCHANGED <<setup, record>>
    PROVE  Account!Book(e)
<1>0. /\ TypeOK /\ ReservedIsSum /\ BilledOnce /\ e \notin held \cup audited
      /\ held \in SUBSET Requests /\ expired \in SUBSET held /\ held \ expired \in SUBSET Requests
  BY DEF IInv, Owned, Sums, TypeOK
<1>1. UNCHANGED <<audited, Limit, Charged(audited)>>
  BY DEF Book, Charged, Limit
<1>2. Fits(reserved) <=> Account!Room(held)
  BY <1>0, FitsIsRoom DEF ReservedIsSum
<1>3. Fits(Minus(reserved, Amount * Cardinality(expired))) <=> Account!Room(held \ expired)
  BY <1>0, FitsIsRoom, RemoveRows
<1>4. \E gone \in SUBSET held :
         /\ gone # {} => ~ Account!Room(held)
         /\ Account!Room(held \ gone)
         /\ held' = (held \ gone) \cup {e}
  <2>1. CASE Fits(reserved) /\ held' = held \cup {e}
    <3>1. {} \in SUBSET held /\ held \ {} = held
      OBVIOUS
    <3> QED
      BY <1>2, <2>1, <3>1
  <2>2. CASE /\ ~ Fits(reserved) /\ Fits(Minus(reserved, Amount * Cardinality(expired)))
             /\ held' = (held \ expired) \cup {e}
    BY <1>0, <1>2, <1>3, <2>2
  <2> QED
    BY <2>1, <2>2 DEF Book
<1> QED
  BY <1>0, <1>1, <1>4 DEF Account!Book

LEMMA UnbookRefines ==
    ASSUME NEW S \in SUBSET held, Unbook(S), UNCHANGED <<setup, record>>
    PROVE  Account!Next
<1>1. UNCHANGED <<audited, Limit, Charged(audited)>> /\ held' = held \ S
  BY DEF Unbook, Charged, Limit
<1> QED
  BY <1>1 DEF Account!Next, Account!GiveBack

\* A repeated batch records nothing again; what is new is recorded once.
LEMMA SettleRefines ==
    ASSUME TypeOK, NEW S \in SUBSET Requests, Settle(S), UNCHANGED <<setup, record>>
    PROVE  Account!Next
<1> DEFINE T == S \ audited
<1>1. T \in SUBSET Requests /\ Charged(T) \in SUBSET T /\ T \cap audited = {}
  BY DEF Charged
<1>2. audited' = audited \cup T /\ held' = held \ T
  BY DEF Settle
<1>3. Charged(audited)' = Charged(audited) \cup Charged(T)
  BY <1>2 DEF Charged
<1>4. Limit' = Limit
  BY DEF Limit
<1>5. Account!Record(T, Charged(T))
  BY <1>1, <1>2, <1>3, <1>4 DEF Account!Record
<1> QED
  BY <1>1, <1>5 DEF Account!Next

LEMMA RequestRefines ==
    ASSUME IInv, NEW e \in Requests, RequestStep(e), UNCHANGED setup
    PROVE  Account!Next \/ UNCHANGED Account!vars
<1>0. TypeOK /\ Owned
  BY DEF IInv
<1> USE DEF database, writer
<1>1. CASE Reserve(e) \/ ReserveLost(e)
  <2>1. stage[e] = "admitted" /\ Book(e) /\ UNCHANGED record
    BY <1>1 DEF Reserve, ReserveLost
  <2> QED
    BY <2>1, BookRefines DEF Account!Next
<1>2. CASE Finish(e) \/ Fail(e)
  <2>1. stage[e] = "running" /\ UNCHANGED <<held, audited>> /\ \E v : record' = [record EXCEPT ![e] = v]
    BY <1>2 DEF Finish, Fail
  <2>2. e \notin audited
    BY <1>0, <2>1 DEF Owned
  <2>3. \A f \in audited : record'[f] = record[f]
    BY <1>0, <2>1, <2>2 DEF TypeOK
  <2> QED
    BY <2>1, <2>3, AccountStutters
<1>3. CASE Cancel(e) \/ CancelFails(e)
  <2>1. UNCHANGED record /\ (Unbook(held \cap {e}) \/ UNCHANGED <<held, audited>>)
    BY <1>3 DEF Cancel, CancelFails
  <2>2. CASE Unbook(held \cap {e})
    BY <2>1, <2>2, UnbookRefines
  <2> QED
    BY <2>1, <2>2, AccountStutters
<1>4. CASE \/ Admit(e) \/ ServeUnreserved(e) \/ TurnAway(e) \/ Abandon(e) \/ Enqueue(e) \/ Drop(e)
           \/ Leave(e) \/ Take(e) \/ Reject(e) \/ Expire(e)
  <2>1. UNCHANGED <<record, held, audited>>
    BY <1>4 DEF Admit, ServeUnreserved, TurnAway, Abandon, Enqueue, Drop, Leave, Take, Reject, Expire
  <2> QED
    BY <2>1, AccountStutters
<1> QED
  BY <1>1, <1>2, <1>3, <1>4 DEF RequestStep

LEMMA InstanceRefines ==
    ASSUME IInv, NEW i \in Instances, InstanceStep(i), UNCHANGED setup
    PROVE  Account!Next \/ UNCHANGED Account!vars
<1>0. TypeOK
  BY DEF IInv
<1> USE DEF database, writer
<1>1. CASE Commit(i) \/ CommitLost(i)
  <2>1. Settle(Batch(i)) /\ UNCHANGED record
    BY <1>1 DEF Commit, CommitLost
  <2>2. Batch(i) \in SUBSET Requests
    BY <1>0 DEF Batch, TypeOK
  <2> QED
    BY <1>0, <2>1, <2>2, SettleRefines
<1>2. CASE Cleanup(i)
  <2>1. Unbook(expired \ (active \cap At(i))) /\ UNCHANGED record
    BY <1>2 DEF Cleanup
  <2>2. expired \ (active \cap At(i)) \in SUBSET held
    BY <1>0 DEF TypeOK
  <2> QED
    BY <2>1, <2>2, UnbookRefines
<1>3. CASE Flush(i) \/ Crash(i)
  <2>1. UNCHANGED <<record, held, audited>>
    BY <1>3 DEF Flush, Crash
  <2> QED
    BY <2>1, AccountStutters
<1> QED
  BY <1>1, <1>2, <1>3 DEF InstanceStep

\* The ledger, with its columns, queues, repeated batches, cleanups and crashes,
\* implements the account: every transaction grants, gives back or records what
\* the rows allow, and nothing else touches the account.
THEOREM AccountImplemented == Spec => ImplementsAccount
<1>1. Init => Account!Init
  <2> SUFFICES ASSUME Init PROVE Account!Init
    OBVIOUS
  <2>1. held = {} /\ audited = {} /\ Charged(audited) = {} /\ setup \in Setups
    BY DEF Init, Charged
  <2>2. Limit \in Nat
    BY <2>1, BillingAssumption DEF Limit
  <2> QED
    BY <2>1, <2>2 DEF Account!Init
<1>2. IInv /\ [Next /\ UNCHANGED setup]_<<setup, vars>> => [Account!Next]_(Account!vars)
  <2>1. ASSUME IInv, UNCHANGED <<setup, vars>> PROVE UNCHANGED Account!vars
    BY <2>1, AccountStutters DEF vars, database
  <2>2. ASSUME IInv, Next, UNCHANGED setup PROVE Account!Next \/ UNCHANGED Account!vars
    BY <2>2, RequestRefines, InstanceRefines DEF Next
  <2> QED
    BY <2>1, <2>2
<1> QED
  BY Invariant, <1>1, <1>2, PTL DEF Spec, ImplementsAccount, Account!Spec

\* What the account promises holds of the ledger: an event that is recorded holds
\* nothing of the limit, and never will again, although a batch may be repeated and
\* a reservation removed from four places.
THEOREM RecordedHoldsNothing == Spec => [](held \cap audited = {})
<1>1. Account!Init => held \cap audited = {}
  BY DEF Account!Init
<1>2. held \cap audited = {} /\ [Account!Next]_(Account!vars) => (held \cap audited = {})'
  BY DEF Account!Next, Account!vars, Account!Book, Account!GiveBack, Account!Record
<1> QED
  BY AccountImplemented, <1>1, <1>2, PTL DEF ImplementsAccount, Account!Spec

=============================================================================
