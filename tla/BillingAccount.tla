---------------------------- MODULE BillingAccount ----------------------------
(***************************************************************************)
(* What the ledger of a client key promises, without columns, queues and   *)
(* processes: an event may hold a part of the limit, gives it back or is   *)
(* recorded, and is recorded once. Every decision is made on the events    *)
(* themselves. BillingLedger implements it.                                *)
(***************************************************************************)
EXTENDS Integers, FiniteSets

CONSTANTS
    Events,   \* the events that may be booked
    Amount,   \* what an event holds
    Cost      \* what a charged event costs

VARIABLES
    limit,      \* what the key may spend
    held,       \* the events that hold a part of it
    recorded,   \* the events whose record is written
    charged     \* those of them that cost something

vars == <<limit, held, recorded, charged>>

Init ==
    /\ limit \in Nat
    /\ held = {} /\ recorded = {} /\ charged = {}

\* There is room for one more event beside those of S and all that was charged.
Room(S) == Cost * Cardinality(charged) + Amount * Cardinality(S) + Amount <= limit

\* Others lose what they hold only when there is no room beside them.
Book(e) ==
    /\ e \notin held \cup recorded
    /\ \E gone \in SUBSET held :
          /\ gone # {} => ~ Room(held)
          /\ Room(held \ gone)
          /\ held' = (held \ gone) \cup {e}
    /\ UNCHANGED <<limit, recorded, charged>>

GiveBack(S) ==
    /\ held' = held \ S
    /\ UNCHANGED <<limit, recorded, charged>>

\* The events of S are recorded for the first and only time, those of C at a cost.
Record(S, C) ==
    /\ S \cap recorded = {} /\ C \subseteq S
    /\ recorded' = recorded \cup S /\ charged' = charged \cup C
    /\ held' = held \ S
    /\ UNCHANGED limit

Next ==
    \/ \E e \in Events : Book(e)
    \/ \E S \in SUBSET held : GiveBack(S)
    \/ \E S \in SUBSET Events : \E C \in SUBSET S : Record(S, C)

Spec == Init /\ [][Next]_vars

=============================================================================
