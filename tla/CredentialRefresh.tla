--------------------------- MODULE CredentialRefresh ---------------------------
(***************************************************************************)
(* The refresh of one account's OAuth credential:                          *)
(* application/account/service.go (EnsureCredential, the recording of      *)
(* failures, MarkReauthRequired, Update) and credential_scheduler.go, over *)
(* the account row of infra/persistence/relational and the lock of         *)
(* infra/runtime.                                                          *)
(*                                                                         *)
(* The upstream takes a refresh token once and answers with the next one,  *)
(* so tokens are numbered in the order in which they are issued and the    *)
(* one to present is the last. Concurrent callers of an instance share a   *)
(* flight, and the flights of all instances take turns under a lock.       *)
(***************************************************************************)
EXTENDS Integers, FiniteSets

CONSTANTS
    Instances,   \* the processes that share the account row
    Callers,     \* the goroutines that use or edit the account
    Casts,       \* what the callers may be, of which one is chosen: a home and a kind each
    None,        \* nobody holds the lock
    Orphan,      \* a caller that crashed does
    Shared,      \* the lock is in Redis, with a lifetime; else it is in the process
    RejectLimit, \* the unclassified rejections after which the account is given up
    MaxTokens,   \* bound: tokens the upstream issues
    MaxFaults    \* bound: restarts and failed calls of the upstream, the database and the lock

\* request: EnsureCredential as a request starts; forced: after a 401; scheduled:
\* the scheduler; startup: the recovery at the start; manual: an administrator's
\* RefreshToken; edit: an administrator's Update.
Kinds == {"request", "forced", "scheduled", "startup", "manual", "edit"}

ASSUME CredentialAssumption ==
    /\ None \notin Callers /\ Orphan \notin Callers /\ None # Orphan
    /\ Casts \subseteq [Callers -> [home : Instances, kind : Kinds]]
    /\ Shared \in BOOLEAN
    /\ RejectLimit \in Nat \ {0} /\ MaxTokens \in Nat \ {0}
    /\ MaxFaults \in Nat

VARIABLES
    cast,        \* the home and the kind of each caller
    row,         \* the account as the database has it
    age,         \* how old the access token of each number is
    issued,      \* the last token the upstream issued
    lock,        \* the caller that holds the lock of the account, or None, or Orphan
    call,        \* per caller, where it is and the rows it has read
    lost,        \* the tokens whose successor never reached the row
    overwritten, \* the tokens a save of a whole row brought back
    faults       \* restarts and failed calls so far

vars == <<row, age, issued, lock, call, lost, overwritten, faults>>

Tokens == 1 .. MaxTokens

Row == [token : Tokens, active : BOOLEAN, permanent : BOOLEAN, due : BOOLEAN,
        recent : BOOLEAN, rejects : 0 .. RejectLimit]

Stages == {"idle", "called", "joined", "read", "lock", "recheck", "exchange", "store", "fail",
           "mark", "save", "release", "finish", "answered", "done"}

Errors == {"transient", "rejected", "invalid"}

\* value: what counts of the row the caller was given; seen: the row its flight or edit has read;
\* back: where a mark returns to.
Call == [at : Stages, value : [token : Tokens, permanent : BOOLEAN], seen : Row, error : Errors, back : {"release", "done"}]

TypeOK ==
    /\ cast \in Casts
    /\ row \in Row
    /\ age \in [Tokens -> {"fresh", "near", "expired"}]
    /\ issued \in Tokens
    /\ lock \in Callers \cup {None, Orphan}
    /\ call \in [Callers -> Call]
    /\ lost \subseteq Tokens /\ overwritten \subseteq Tokens
    /\ faults \in 0 .. MaxFaults

NewRow == [token |-> 1, active |-> TRUE, permanent |-> FALSE, due |-> FALSE, recent |-> FALSE,
           rejects |-> 0]

\* A call that is over has no rows any more.
Over == [at |-> "done", value |-> [token |-> 1, permanent |-> FALSE], seen |-> NewRow,
         error |-> "transient", back |-> "done"]

Init ==
    /\ cast \in Casts
    /\ row = NewRow
    /\ age = [t \in Tokens |-> "fresh"]
    /\ issued = 1
    /\ lock = None
    /\ call = [c \in Callers |-> [Over EXCEPT !.at = "idle"]]
    /\ lost = {} /\ overwritten = {}
    /\ faults = 0

Home(c) == cast[c].home

Kind(c) == cast[c].kind

Alive(r) == age[r.token] # "expired"

Forced(c) == Kind(c) \in {"forced", "scheduled", "startup", "manual"}

Bypass(c) == Kind(c) \in {"startup", "manual"}


\* The flights of an instance are told apart by these.
FlightKey(c) == <<Home(c), Kind(c) \in {"scheduled", "manual"}, Kind(c) = "manual">>

Flying == {"read", "lock", "recheck", "exchange", "store", "fail", "mark", "save", "release", "finish"}

Leads(c) ==
    /\ call[c].at \in Flying
    /\ call[c].at \in {"mark", "save"} => call[c].back = "release"

\* The scheduler comes back.
Ended(c) == IF Kind(c) = "scheduled" THEN [Over EXCEPT !.at = "idle"] ELSE Over

Goto(c, stage) ==
    call' = [call EXCEPT ![c] =
                CASE stage = "done" -> Ended(c)
                  [] stage \in {"release", "finish", "answered"} -> [Over EXCEPT !.at = stage]
                  [] OTHER -> [@ EXCEPT !.at = stage]]

\* MarkReauthRequired, and then on to the given stage.
Mark(c, stage) == call' = [call EXCEPT ![c] = [Over EXCEPT !.at = "mark", !.back = stage]]

Fault == faults < MaxFaults /\ faults' = faults + 1

----------------------------------------------------------------------------
(* Callers.                                                                *)

\* A caller comes with the row it has: the scheduler with one that is due, the
\* recovery with one near its end, everybody else with any.
Begin(c) ==
    /\ call[c].at = "idle"
    /\ Kind(c) = "scheduled" => row.active /\ row.due
    /\ Kind(c) = "startup" => row.active /\ age[row.token] # "fresh"
    /\ call' = [call EXCEPT ![c].at = IF Kind(c) = "edit" THEN "save" ELSE "called",
                            ![c].value = [token |-> row.token, permanent |-> row.permanent],
                            ![c].seen = IF Kind(c) = "edit" THEN row ELSE @]
    /\ UNCHANGED <<row, age, issued, lock, lost, overwritten, faults>>

\* resolvePermanentRefreshFailure does not let the caller pass.
Blocked(c, r) == r.permanent /\ Kind(c) # "manual"

\* Before a flight: a dead credential is given up, a good one is used, and
\* otherwise the caller opens a flight or joins the one that is open.
Decide(c) ==
    /\ call[c].at = "called"
    /\ LET v == call[c].value IN
       \/ Blocked(c, v) /\ ~ Alive(v) /\ Mark(c, "done")
       \/ Blocked(c, v) /\ Alive(v) /\ Goto(c, "answered")
       \/ ~ Blocked(c, v) /\ ~ Forced(c) /\ age[v.token] = "fresh" /\ Goto(c, "answered")
       \/ /\ ~ Blocked(c, v)
          /\ Forced(c) \/ age[v.token] # "fresh"
          /\ Goto(c, IF \E d \in Callers : Leads(d) /\ FlightKey(d) = FlightKey(c)
                     THEN "joined" ELSE "read")
    /\ UNCHANGED <<row, age, issued, lock, lost, overwritten, faults>>

\* The row a flight has read needs no refresh of it.
Settled(c, r) ==
    \/ Kind(c) = "scheduled" /\ ~ r.due
    \/ ~ Forced(c) /\ age[r.token] = "fresh"
    \/ Forced(c) /\ ~ Bypass(c) /\ r.recent

\* The flight reads the row r, which settles the call or lets the flight go on.
Judge(c, r, settled, stage) ==
    \/ Blocked(c, r) /\ ~ Alive(r) /\ Mark(c, "release")
    \/ (IF Blocked(c, r) THEN Alive(r) ELSE settled) /\ Goto(c, "release")
    \/ /\ ~ Blocked(c, r) /\ ~ settled
       /\ call' = [call EXCEPT ![c].at = stage, ![c].seen = IF stage = "exchange" THEN r ELSE @]

Read(c) ==
    /\ call[c].at = "read"
    /\ Judge(c, row, Settled(c, row) \/ (Forced(c) /\ row.token # call[c].value.token), "lock")
    /\ UNCHANGED <<row, age, issued, lock, lost, overwritten, faults>>

\* acquireRefreshLock asks every 200 milliseconds.
Acquire(c) ==
    /\ call[c].at = "lock"
    /\ lock = None
    /\ lock' = c
    /\ Goto(c, "recheck")
    /\ UNCHANGED <<row, age, issued, lost, overwritten, faults>>

\* The context of the caller ends while another flight holds the lock.
GiveUp(c) ==
    /\ call[c].at = "lock"
    /\ lock # None
    /\ Goto(c, "release")
    /\ UNCHANGED <<row, age, issued, lock, lost, overwritten, faults>>

\* Wrong: under the lock the row that was read before it is used.
RecheckStale(c) ==
    /\ call[c].at = "recheck"
    /\ Goto(c, "exchange")
    /\ UNCHANGED <<row, age, issued, lock, lost, overwritten, faults>>

\* Under the lock everything is looked at again: another flight may have refreshed.
Recheck(c) ==
    /\ call[c].at = "recheck"
    /\ Judge(c, row, Settled(c, row) \/ row.token # call[c].value.token, "exchange")
    /\ UNCHANGED <<row, age, issued, lock, lost, overwritten, faults>>

\* The upstream takes the token and issues the next one.
Exchange(c) ==
    /\ call[c].at = "exchange"
    /\ call[c].seen.token = issued
    /\ issued < MaxTokens
    /\ issued' = issued + 1
    /\ Goto(c, "store")
    /\ UNCHANGED <<row, age, lock, lost, overwritten, faults>>

\* A token that was presented before is refused for good: invalid_grant.
Refuse(c) ==
    /\ call[c].at = "exchange"
    /\ call[c].seen.token # issued
    /\ call' = [call EXCEPT ![c].at = "fail", ![c].error = "invalid"]
    /\ UNCHANGED <<row, age, issued, lock, lost, overwritten, faults>>

\* The upstream is not reached or does not serve; at the bound of tokens it never does.
Outage(c) ==
    /\ call[c].at = "exchange"
    /\ \/ Fault
       \/ issued = MaxTokens /\ call[c].seen.token = issued /\ UNCHANGED faults
    /\ \E e \in {"transient", "rejected"} :
          call' = [call EXCEPT ![c].at = "fail", ![c].error = e]
    /\ UNCHANGED <<row, age, issued, lock, lost, overwritten>>

\* The answer does not arrive, or the caller is gone: a failure of a cancelled
\* context is not recorded.
AnswerLost(c) ==
    /\ call[c].at = "exchange"
    /\ call[c].seen.token = issued
    /\ issued < MaxTokens
    /\ Fault
    /\ issued' = issued + 1
    /\ lost' = lost \cup {call[c].seen.token}
    /\ \/ Goto(c, "release")
       \/ call' = [call EXCEPT ![c].at = "fail", ![c].error = "transient"]
    /\ UNCHANGED <<row, age, lock, overwritten>>

----------------------------------------------------------------------------
(* What a flight writes.                                                   *)

\* Wrong: a caller that went away takes the new token with it.
StoreCancelled(c) ==
    /\ call[c].at = "store"
    /\ Goto(c, "release")
    /\ UNCHANGED <<row, age, issued, lock, lost, overwritten, faults>>

\* UpdateTokens, in a context of its own: the failures are forgotten with it.
Store(c) ==
    /\ call[c].at = "store"
    /\ row' = [NewRow EXCEPT !.token = call[c].seen.token + 1, !.recent = TRUE]
    /\ Goto(c, "release")
    /\ UNCHANGED <<age, issued, lock, lost, overwritten, faults>>

StoreFails(c) ==
    /\ call[c].at = "store"
    /\ Fault
    /\ lost' = lost \cup {call[c].seen.token}
    /\ Goto(c, "release")
    /\ UNCHANGED <<row, age, issued, lock, overwritten>>

\* recordCredentialRefreshFailure counts from the row the flight has read.
Rejects(c) ==
    LET r == call[c].seen IN
    CASE call[c].error # "rejected" -> 0
      [] r.rejects < RejectLimit    -> r.rejects + 1
      [] OTHER                      -> r.rejects

\* The account is given up: the token is spent, or was refused too often, and the
\* access token does not serve any more.
GivenUp(c) ==
    /\ ~ Alive(call[c].seen)
    /\ call[c].error = "invalid" \/ (call[c].error = "rejected" /\ Rejects(c) >= RejectLimit)

\* Wrong: a failure leaves the row as due as it was, and the scheduler retries at once.
RecordKeepsDue(c) ==
    /\ call[c].at = "fail"
    /\ row' = [row EXCEPT !.permanent = (call[c].error = "invalid"), !.rejects = Rejects(c)]
    /\ UNCHANGED faults
    /\ IF GivenUp(c) THEN Mark(c, "release") ELSE Goto(c, "release")
    /\ UNCHANGED <<age, issued, lock, lost, overwritten>>

\* UpdateCredentialRefreshFailure writes its columns over whatever the row has. It
\* is due again after a pause, or when a spent token's access token has expired.
Record(c) ==
    /\ call[c].at = "fail"
    /\ \/ /\ row' = [row EXCEPT !.permanent = (call[c].error = "invalid"),
                                !.due = (call[c].error = "invalid" /\ ~ Alive(call[c].seen)),
                                !.rejects = Rejects(c)]
          /\ UNCHANGED faults
       \/ Fault /\ UNCHANGED row
    /\ IF GivenUp(c) THEN Mark(c, "release") ELSE Goto(c, "release")
    /\ UNCHANGED <<age, issued, lock, lost, overwritten>>

\* MarkReauthRequired reads the whole row,
MarkReads(c) ==
    /\ call[c].at = "mark"
    /\ call' = [call EXCEPT ![c].at = "save", ![c].seen = row]
    /\ UNCHANGED <<row, age, issued, lock, lost, overwritten, faults>>

\* and saves the whole row; so does an administrator's edit, which keeps the status.
Save(c) ==
    /\ call[c].at = "save"
    /\ LET r == call[c].seen IN
       /\ row' = IF Kind(c) = "edit" THEN r ELSE [r EXCEPT !.active = FALSE]
       /\ overwritten' = IF r.token = row.token THEN overwritten ELSE overwritten \cup {r.token}
    /\ Goto(c, call[c].back)
    /\ UNCHANGED <<age, issued, lock, lost, faults>>

\* A read, a save or a call of the lock fails, and the call ends with the error.
CallFails(c) ==
    /\ call[c].at \in {"read", "lock", "recheck", "mark", "save"}
    /\ Fault
    /\ Goto(c, IF call[c].at \in {"mark", "save"} THEN call[c].back ELSE "release")
    /\ UNCHANGED <<row, age, issued, lock, lost, overwritten>>

\* Wrong: a flight that did not refresh keeps the lock.
ReleaseForgets(c) ==
    /\ call[c].at = "release"
    /\ Goto(c, "finish")
    /\ UNCHANGED <<row, age, issued, lock, lost, overwritten, faults>>

Release(c) ==
    /\ call[c].at = "release"
    /\ lock' = IF lock = c THEN None ELSE lock
    /\ Goto(c, "finish")
    /\ UNCHANGED <<row, age, issued, lost, overwritten, faults>>

\* The flight is over, for its leader and for those who joined it.
Finish(c) ==
    /\ call[c].at = "finish"
    /\ call' = [d \in Callers |->
                   IF d = c \/ (call[d].at = "joined" /\ FlightKey(d) = FlightKey(c))
                   THEN [Over EXCEPT !.at = "answered"] ELSE call[d]]
    /\ UNCHANGED <<row, age, issued, lock, lost, overwritten, faults>>

\* A request whose refreshed token is refused too gives the account up; everybody
\* else goes on, and the scheduler comes back.
Leave(c) ==
    /\ call[c].at = "answered"
    /\ \/ Goto(c, "done")
       \/ Kind(c) = "forced" /\ Mark(c, "done")
    /\ UNCHANGED <<row, age, issued, lock, lost, overwritten, faults>>

----------------------------------------------------------------------------
(* Time and crashes.                                                       *)

\* An access token comes near its end, after those issued before it, and to it.
Age(t) ==
    /\ age[t] # "expired" /\ t <= issued
    /\ \A s \in Tokens : s < t => age[s] = "expired" \/ (age[s] = "near" /\ age[t] = "fresh")
    /\ age' = [age EXCEPT ![t] = IF @ = "fresh" THEN "near" ELSE "expired"]
    /\ UNCHANGED <<row, issued, lock, call, lost, overwritten, faults>>

\* The time of the next refresh comes: with a spent token, when its access token
\* has expired.
ComesDue ==
    /\ ~ row.due
    /\ row.permanent => ~ Alive(row)
    /\ row' = [row EXCEPT !.due = TRUE]
    /\ UNCHANGED <<age, issued, lock, call, lost, overwritten, faults>>

\* Thirty seconds have passed since the last refresh.
CoolsDown ==
    /\ row.recent
    /\ row' = [row EXCEPT !.recent = FALSE]
    /\ UNCHANGED <<age, issued, lock, call, lost, overwritten, faults>>

\* The calls of an instance end where they are. A lock in Redis stays behind.
Crash(i) ==
    /\ Fault
    /\ call' = [c \in Callers |->
                   IF Home(c) = i /\ call[c].at \notin {"idle", "done"} THEN Ended(c) ELSE call[c]]
    /\ lost' = lost \cup {t \in Tokens : \E c \in Callers :
                   Home(c) = i /\ call[c].at = "store" /\ call[c].seen.token = t}
    /\ lock' = IF lock \in Callers /\ Home(lock) = i
               THEN IF Shared THEN Orphan ELSE None ELSE lock
    /\ UNCHANGED <<row, age, issued, overwritten>>

\* The lifetime of a lock whose holder crashed ends, two minutes later. Every
\* holder that runs is done by then: it has 30 seconds for the upstream and 5 for
\* each write.
LockExpires ==
    /\ lock = Orphan
    /\ lock' = None
    /\ UNCHANGED <<row, age, issued, call, lost, overwritten, faults>>

----------------------------------------------------------------------------
Step(c) ==
    \/ Decide(c) \/ Read(c) \/ Acquire(c) \/ Recheck(c) \/ Exchange(c) \/ Refuse(c)
    \/ Outage(c) \/ Store(c) \/ Record(c) \/ MarkReads(c) \/ Save(c) \/ Release(c)
    \/ Finish(c) \/ Leave(c)

Next ==
    \/ \E c \in Callers :
          \/ Begin(c) \/ Step(c) \/ GiveUp(c) \/ AnswerLost(c) \/ StoreFails(c) \/ CallFails(c)
    \/ \E t \in Tokens : Age(t)
    \/ ComesDue \/ CoolsDown \/ LockExpires
    \/ \E i \in Instances : Crash(i)

\* Callers stay what they are.
Spec == Init /\ [][Next /\ UNCHANGED cast]_<<cast, vars>>

(* Goroutines are scheduled, the scheduler looks at the database at least  *)
(* once in its polling interval, and time passes. Who asks for the lock    *)
(* every 200 milliseconds gets it: between two runs of the scheduler that  *)
(* fail are 30 seconds, and other callers do not come back.                *)
Fairness ==
    /\ \A c \in Callers : WF_vars(Step(c)) /\ SF_vars(Acquire(c))
    /\ \A c \in Callers : WF_vars(Kind(c) = "scheduled" /\ Begin(c))
    /\ \A t \in Tokens : WF_vars(Age(t))
    /\ WF_vars(CoolsDown) /\ WF_vars(LockExpires)

FairSpec == Spec /\ Fairness

----------------------------------------------------------------------------
(* A refresh token that was spent is presented again only when its         *)
(* successor was lost on the way, or a save of a whole row brought the     *)
(* token back: flights of all instances, with rows read at any time, never *)
(* spend one token twice.                                                  *)
SpentNeverPresented ==
    \A c \in Callers : call[c].at = "exchange" =>
        \/ call[c].seen.token = issued
        \/ call[c].seen.token \in lost \cup overwritten

(* The token to present next is in the row, or on its way there with one   *)
(* flight, unless it was lost or overwritten: no end of a flight drops it. *)
SuccessorKept ==
    \/ row.token = issued
    \/ row.token \in lost \cup overwritten
    \/ \E c \in Callers : call[c].at = "store" /\ call[c].seen.token = row.token

(* Every call comes to its end, whoever crashes with the lock.             *)
CallsEnd ==
    \A c \in Callers : call[c].at = "called" ~> call[c].at \in {"done", "idle"}

\* A scheduler takes part.
Scheduling == \E c \in Callers : Kind(c) = "scheduled"

(* A refresh that is due happens or is put off by its failure, or the      *)
(* account is given up: it is never left due behind a flight.              *)
DueIsServed ==
    (Scheduling /\ row.due /\ row.active) ~> (~ row.due \/ ~ row.active)
=============================================================================
