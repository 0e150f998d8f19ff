------------------------ MODULE CredentialRefreshProofs ------------------------
(***************************************************************************)
(* Proofs about CredentialRefresh, for every number of instances, callers  *)
(* and tokens. The invariant rests on the lock: between the second look at *)
(* the row and the end of the exchange's write a flight holds it, so what  *)
(* the flight saw of the row stays true of the upstream.                   *)
(***************************************************************************)
EXTENDS CredentialRefresh, TLAPS

\* The stages in which a flight holds the lock, whatever happened before.
Locked == {"recheck", "exchange", "store", "fail"}

LockHeld == \A c \in Callers : call[c].at \in Locked => lock = c

\* What is to be stored is the last token issued.
StoreIsLast == \A c \in Callers : call[c].at = "store" => call[c].seen.token + 1 = issued

IInv == TypeOK /\ LockHeld /\ StoreIsLast /\ SpentNeverPresented /\ SuccessorKept

----------------------------------------------------------------------------
\* The records a call begins and ends with.
LEMMA OverType ==
    /\ NewRow \in Row
    /\ Over \in Call
    /\ \A stage \in Stages : [Over EXCEPT !.at = stage] \in Call
    /\ \A c \in Callers : Ended(c) \in Call /\ Ended(c).at \in {"idle", "done"}
<1> 1 \in Tokens /\ 0 \in 0 .. RejectLimit
  BY CredentialAssumption DEF Tokens
<1>1. NewRow \in Row
  BY DEF NewRow, Row
<1>2. Over \in Call /\ Over.at = "done"
  BY <1>1 DEF Over, Call, Stages, Errors
<1>3. \A stage \in Stages : [Over EXCEPT !.at = stage] \in Call /\ [Over EXCEPT !.at = stage].at = stage
  BY <1>2 DEF Call
<1>4. \A c \in Callers : Ended(c) \in Call /\ Ended(c).at \in {"idle", "done"}
  BY <1>2, <1>3, "idle" \in Stages DEF Ended, Stages
<1> QED
  BY <1>1, <1>2, <1>3, <1>4

\* The initial states satisfy the invariant.
LEMMA InitInv == Init => IInv
<1> SUFFICES ASSUME Init PROVE IInv
  OBVIOUS
<1>1. TypeOK
  BY OverType, CredentialAssumption DEF Init, TypeOK, Tokens, Stages
<1>2. LockHeld /\ StoreIsLast /\ SpentNeverPresented
  BY DEF Init, LockHeld, Locked, StoreIsLast, SpentNeverPresented, Over
<1>3. SuccessorKept
  BY DEF Init, SuccessorKept, NewRow
<1> QED
  BY <1>1, <1>2, <1>3 DEF IInv

----------------------------------------------------------------------------
(* How a call moves on.                                                    *)

\* Goto moves one call, which keeps what it saw until it releases the lock.
LEMMA GotoMoves ==
    ASSUME TypeOK, NEW c \in Callers, NEW stage \in Stages, Goto(c, stage)
    PROVE  /\ call' \in [Callers -> Call]
           /\ \A d \in Callers : d # c => call'[d] = call[d]
           /\ stage # "done" => call'[c].at = stage
           /\ stage = "done" => call'[c].at \in {"idle", "done"}
           /\ stage \in {"lock", "recheck", "exchange", "store", "fail"} => call'[c].seen = call[c].seen
<1>1. CASE stage = "done"
  BY <1>1, OverType DEF Goto, TypeOK
<1>2. CASE stage \in {"release", "finish", "answered"}
  BY <1>2, OverType, [Over EXCEPT !.at = stage].at = stage DEF Goto, TypeOK, Over
<1>3. CASE stage \notin {"done", "release", "finish", "answered"}
  <2>1. call[c] \in Call /\ call' = [call EXCEPT ![c] = [call[c] EXCEPT !.at = stage]]
    BY <1>3 DEF Goto, TypeOK
  <2>2. [call[c] EXCEPT !.at = stage] \in Call
    BY <2>1 DEF Call
  <2>3. call'[c] = [call[c] EXCEPT !.at = stage]
    BY <2>1 DEF TypeOK
  <2>4. call'[c].at = stage /\ call'[c].seen = call[c].seen
    BY <2>1, <2>3 DEF Call
  <2>5. call' \in [Callers -> Call] /\ \A d \in Callers : d # c => call'[d] = call[d]
    BY <2>1, <2>2 DEF TypeOK
  <2> QED
    BY <1>3, <2>4, <2>5
<1> QED
  BY <1>1, <1>2, <1>3

LEMMA MarkMoves ==
    ASSUME TypeOK, NEW c \in Callers, NEW stage \in {"release", "done"}, Mark(c, stage)
    PROVE  /\ call' \in [Callers -> Call]
           /\ \A d \in Callers : d # c => call'[d] = call[d]
           /\ call'[c].at = "mark"
<1>1. ASSUME NEW x \in Call
      PROVE  /\ [x EXCEPT !.at = "mark", !.back = stage] \in Call
             /\ [x EXCEPT !.at = "mark", !.back = stage].at = "mark"
  BY DEF Call, Stages
<1>2. Over \in Call
  BY OverType
<1> QED
  BY <1>1, <1>2 DEF Mark, TypeOK

\* A call that moves on without the lock, or gives it back, disturbs nobody.
LEMMA QuietMove ==
    ASSUME IInv, NEW c \in Callers,
           call' \in [Callers -> Call],
           \A d \in Callers : d # c => call'[d] = call[d],
           call'[c].at \notin Locked,
           call[c].at # "store",
           row.token' = row.token, issued' = issued,
           lost \subseteq lost', overwritten \subseteq overwritten',
           lock' = lock \/ lock = c
    PROVE  LockHeld' /\ StoreIsLast' /\ SpentNeverPresented' /\ SuccessorKept'
<1> USE DEF IInv
<1>1. LockHeld'
  BY DEF LockHeld
<1>2. StoreIsLast'
  BY DEF StoreIsLast, Locked
<1>3. SpentNeverPresented'
  BY DEF SpentNeverPresented, Locked
<1>4. SuccessorKept'
  BY DEF SuccessorKept
<1> QED
  BY <1>1, <1>2, <1>3, <1>4

----------------------------------------------------------------------------
(* The steps of a call.                                                    *)

\* What a flight reads decides where it goes.
LEMMA JudgeMoves ==
    ASSUME TypeOK, NEW c \in Callers, NEW settled, NEW stage \in {"lock", "exchange"},
           Judge(c, row, settled, stage)
    PROVE  /\ call' \in [Callers -> Call]
           /\ \A d \in Callers : d # c => call'[d] = call[d]
           /\ call'[c].at \in {"mark", "release", stage}
           /\ call'[c].at = "exchange" => call'[c].seen = row
<1>1. CASE Mark(c, "release")
  BY <1>1, MarkMoves
<1>2. CASE Goto(c, "release")
  BY <1>2, GotoMoves, "release" \in Stages DEF Stages
<1>3. CASE call' = [call EXCEPT ![c].at = stage, ![c].seen = IF stage = "exchange" THEN row ELSE @]
  <2>1. ASSUME NEW x \in Call, NEW r \in Row
        PROVE  /\ [x EXCEPT !.at = stage, !.seen = r] \in Call
               /\ [x EXCEPT !.at = stage, !.seen = r].at = stage
               /\ [x EXCEPT !.at = stage, !.seen = r].seen = r
    BY DEF Call, Stages
  <2> DEFINE r == IF stage = "exchange" THEN row ELSE call[c].seen
  <2>2. r \in Row /\ call[c] \in Call
    BY DEF TypeOK, Call
  <2>3. call' = [call EXCEPT ![c] = [call[c] EXCEPT !.at = stage, !.seen = r]]
    BY <1>3
  <2>4. call'[c] = [call[c] EXCEPT !.at = stage, !.seen = r]
    BY <2>3 DEF TypeOK
  <2>5. call' \in [Callers -> Call] /\ \A d \in Callers : d # c => call'[d] = call[d]
    BY <2>1, <2>2, <2>3 DEF TypeOK
  <2> HIDE DEF r
  <2>6. call'[c].at = stage /\ call'[c].seen = r
    BY <2>1, <2>2, <2>4 DEF Call
  <2> QED
    BY <2>5, <2>6 DEF r
<1> QED
  BY <1>1, <1>2, <1>3 DEF Judge

\* Steps that move one call without the lock, or up to its release, and leave the
\* tokens alone.
LEMMA PlainStepInv ==
    ASSUME IInv, UNCHANGED cast, NEW c \in Callers,
           \/ Begin(c) \/ Decide(c) \/ Read(c) \/ GiveUp(c) \/ MarkReads(c) \/ CallFails(c)
           \/ Release(c) \/ Leave(c)
    PROVE  IInv'
<1> USE DEF IInv
<1>1. ASSUME Begin(c) PROVE IInv'
  <2>1. call[c] \in Call /\ row \in Row
    BY DEF TypeOK
  <2>2. ASSUME NEW x \in Call, NEW stage \in {"save", "called"}, NEW r \in Row
        PROVE  /\ [x EXCEPT !.at = stage, !.value = [token |-> row.token, permanent |-> row.permanent],
                            !.seen = r] \in Call
               /\ [x EXCEPT !.at = stage, !.value = [token |-> row.token, permanent |-> row.permanent],
                            !.seen = r].at = stage
    BY <2>1 DEF Call, Stages, Row
  <2>3. PICK stage \in {"save", "called"}, r \in Row :
           call' = [call EXCEPT ![c] = [call[c] EXCEPT !.at = stage,
                       !.value = [token |-> row.token, permanent |-> row.permanent], !.seen = r]]
    <3>1. call[c].seen \in Row
      BY <2>1 DEF Call
    <3> QED
      BY <1>1, <2>1, <3>1 DEF Begin
  <2>4. call' \in [Callers -> Call] /\ \A d \in Callers : d # c => call'[d] = call[d]
    BY <2>1, <2>2, <2>3 DEF TypeOK
  <2>5. call'[c] = [call[c] EXCEPT !.at = stage,
                       !.value = [token |-> row.token, permanent |-> row.permanent], !.seen = r]
    BY <2>3 DEF TypeOK
  <2>6. call'[c].at \in {"save", "called"}
    BY <2>1, <2>5 DEF Call
  <2> QED
    BY <1>1, <2>4, <2>6, QuietMove DEF Begin, TypeOK, Locked
<1>2. ASSUME Decide(c) PROVE IInv'
  <2>1. \/ Mark(c, "done") \/ \E stage \in {"answered", "joined", "read"} : Goto(c, stage)
    BY <1>2 DEF Decide
  <2>2. /\ call' \in [Callers -> Call]
        /\ \A d \in Callers : d # c => call'[d] = call[d]
        /\ call'[c].at \in {"mark", "answered", "joined", "read"}
    BY <2>1, MarkMoves, GotoMoves DEF Stages
  <2> QED
    BY <1>2, <2>2, QuietMove DEF Decide, TypeOK, Locked
<1>3. ASSUME Read(c) PROVE IInv'
  <2>1. /\ call' \in [Callers -> Call]
        /\ \A d \in Callers : d # c => call'[d] = call[d]
        /\ call'[c].at \in {"mark", "release", "lock"}
    BY <1>3, JudgeMoves DEF Read
  <2> QED
    BY <1>3, <2>1, QuietMove DEF Read, TypeOK, Locked
<1>4. ASSUME GiveUp(c) PROVE IInv'
  <2>1. /\ call' \in [Callers -> Call]
        /\ \A d \in Callers : d # c => call'[d] = call[d]
        /\ call'[c].at = "release"
    BY <1>4, GotoMoves, "release" \in Stages DEF GiveUp, Stages
  <2> QED
    BY <1>4, <2>1, QuietMove DEF GiveUp, TypeOK, Locked
<1>5. ASSUME MarkReads(c) PROVE IInv'
  <2>1. call[c] \in Call /\ row \in Row
    BY DEF TypeOK
  <2>2. ASSUME NEW x \in Call
        PROVE  [x EXCEPT !.at = "save", !.seen = row] \in Call
    BY <2>1 DEF Call, Stages
  <2>3. call' = [call EXCEPT ![c] = [call[c] EXCEPT !.at = "save", !.seen = row]]
    BY <1>5 DEF MarkReads
  <2>4. call' \in [Callers -> Call] /\ \A d \in Callers : d # c => call'[d] = call[d]
    BY <2>1, <2>2, <2>3 DEF TypeOK
  <2>5. call'[c].at = "save"
    BY <2>1, <2>3 DEF TypeOK, Call
  <2> QED
    BY <1>5, <2>4, <2>5, QuietMove DEF MarkReads, TypeOK, Locked
<1>6. ASSUME CallFails(c) PROVE IInv'
  <2>1. call[c] \in Call
    BY DEF TypeOK
  <2>2. \E stage \in {"done", "release"} : Goto(c, stage)
    BY <1>6, <2>1 DEF CallFails, Call
  <2>3. /\ call' \in [Callers -> Call]
        /\ \A d \in Callers : d # c => call'[d] = call[d]
        /\ call'[c].at \in {"idle", "done", "release"}
    BY <2>2, GotoMoves DEF Stages
  <2>4. faults' \in 0 .. MaxFaults
    BY <1>6, CredentialAssumption DEF CallFails, Fault, TypeOK
  <2> QED
    BY <1>6, <2>3, <2>4, QuietMove DEF CallFails, TypeOK, Locked
<1>7. ASSUME Release(c) PROVE IInv'
  <2>1. /\ call' \in [Callers -> Call]
        /\ \A d \in Callers : d # c => call'[d] = call[d]
        /\ call'[c].at = "finish"
    BY <1>7, GotoMoves, "finish" \in Stages DEF Release, Stages
  <2>2. lock' \in Callers \cup {None, Orphan}
    BY <1>7 DEF Release, TypeOK
  <2> QED
    BY <1>7, <2>1, <2>2, QuietMove DEF Release, TypeOK, Locked
<1>8. ASSUME Leave(c) PROVE IInv'
  <2>1. /\ call' \in [Callers -> Call]
        /\ \A d \in Callers : d # c => call'[d] = call[d]
        /\ call'[c].at \in {"idle", "done", "mark"}
    BY <1>8, MarkMoves, GotoMoves, "done" \in Stages DEF Leave, Stages
  <2> QED
    BY <1>8, <2>1, QuietMove DEF Leave, TypeOK, Locked
<1> QED
  BY <1>1, <1>2, <1>3, <1>4, <1>5, <1>6, <1>7, <1>8

\* Steps under the lock, and those that change the tokens.
LEMMA LockedStepInv ==
    ASSUME IInv, UNCHANGED cast, NEW c \in Callers,
           \/ Acquire(c) \/ Recheck(c) \/ Exchange(c) \/ Refuse(c) \/ Outage(c) \/ AnswerLost(c)
    PROVE  IInv'
<1> USE DEF IInv
<1>1. ASSUME Acquire(c) PROVE IInv'
  <2>1. /\ call' \in [Callers -> Call]
        /\ \A d \in Callers : d # c => call'[d] = call[d]
        /\ call'[c].at = "recheck"
    BY <1>1, GotoMoves, "recheck" \in Stages DEF Acquire, Stages
  <2>2. TypeOK'
    BY <1>1, <2>1 DEF Acquire, TypeOK
  <2>3. LockHeld'
    BY <1>1, <2>1, CredentialAssumption DEF Acquire, LockHeld
  <2>4. StoreIsLast' /\ SpentNeverPresented' /\ SuccessorKept'
    BY <1>1, <2>1 DEF Acquire, StoreIsLast, SpentNeverPresented, SuccessorKept
  <2> QED
    BY <2>2, <2>3, <2>4
<1>2. ASSUME Recheck(c) PROVE IInv'
  <2>1. /\ call' \in [Callers -> Call]
        /\ \A d \in Callers : d # c => call'[d] = call[d]
        /\ call'[c].at \in {"mark", "release", "exchange"}
        /\ call'[c].at = "exchange" => call'[c].seen = row
    BY <1>2, JudgeMoves DEF Recheck
  <2>2. TypeOK'
    BY <1>2, <2>1 DEF Recheck, TypeOK
  <2>3. lock = c /\ \A d \in Callers : d # c => call[d].at \notin Locked
    BY <1>2 DEF Recheck, LockHeld, Locked
  <2>4. LockHeld' /\ StoreIsLast'
    BY <1>2, <2>1, <2>3 DEF Recheck, LockHeld, StoreIsLast, Locked
  <2>5. row.token = issued \/ row.token \in lost \cup overwritten
    BY <1>2, <2>3 DEF Recheck, SuccessorKept, Locked
  <2>6. SpentNeverPresented' /\ SuccessorKept'
    BY <1>2, <2>1, <2>3, <2>5 DEF Recheck, SpentNeverPresented, SuccessorKept, Locked
  <2> QED
    BY <2>2, <2>4, <2>6
<1>3. ASSUME Exchange(c) PROVE IInv'
  <2>1. /\ call' \in [Callers -> Call]
        /\ \A d \in Callers : d # c => call'[d] = call[d]
        /\ call'[c].at = "store" /\ call'[c].seen = call[c].seen
    BY <1>3, GotoMoves, "store" \in Stages DEF Exchange, Stages
  <2>2. TypeOK'
    BY <1>3, <2>1, CredentialAssumption DEF Exchange, TypeOK, Tokens
  <2>3. lock = c /\ \A d \in Callers : d # c => call[d].at \notin Locked
    BY <1>3 DEF Exchange, LockHeld, Locked
  <2>4. LockHeld' /\ StoreIsLast'
    BY <1>3, <2>1, <2>3 DEF Exchange, LockHeld, StoreIsLast, Locked
  <2>5. SpentNeverPresented' /\ SuccessorKept'
    BY <1>3, <2>1, <2>3 DEF Exchange, SpentNeverPresented, SuccessorKept, Locked
  <2> QED
    BY <2>2, <2>4, <2>5
<1>4. ASSUME Refuse(c) \/ Outage(c) PROVE IInv'
  <2>1. PICK e \in Errors : call' = [call EXCEPT ![c].at = "fail", ![c].error = e]
    BY <1>4 DEF Refuse, Outage, Errors
  <2>2. ASSUME NEW x \in Call
        PROVE  [x EXCEPT !.at = "fail", !.error = e] \in Call
    BY DEF Call, Stages
  <2>3. call[c] \in Call /\ call' = [call EXCEPT ![c] = [call[c] EXCEPT !.at = "fail", !.error = e]]
    BY <2>1 DEF TypeOK
  <2>4. call' \in [Callers -> Call] /\ \A d \in Callers : d # c => call'[d] = call[d]
    BY <2>2, <2>3 DEF TypeOK
  <2>5. call'[c] = [call[c] EXCEPT !.at = "fail", !.error = e]
    BY <2>3 DEF TypeOK
  <2>6. call'[c].at = "fail" /\ call'[c].seen = call[c].seen
    BY <2>3, <2>5 DEF Call
  <2>7. call[c].at = "exchange" /\ faults' \in 0 .. MaxFaults
    BY <1>4, CredentialAssumption DEF Refuse, Outage, Fault, TypeOK
  <2>8. UNCHANGED <<row, age, issued, lock, lost, overwritten>>
    BY <1>4 DEF Refuse, Outage
  <2>9. TypeOK'
    BY <2>4, <2>7, <2>8 DEF TypeOK
  <2>10. LockHeld' /\ StoreIsLast' /\ SpentNeverPresented' /\ SuccessorKept'
    BY <2>4, <2>6, <2>7, <2>8 DEF LockHeld, StoreIsLast, SpentNeverPresented, SuccessorKept, Locked
  <2> QED
    BY <2>9, <2>10
<1>5. ASSUME AnswerLost(c) PROVE IInv'
  <2>1. /\ call' \in [Callers -> Call]
        /\ \A d \in Callers : d # c => call'[d] = call[d]
        /\ call'[c].at \in {"release", "fail"}
    <3>1. CASE Goto(c, "release")
      BY <3>1, GotoMoves, "release" \in Stages DEF Stages
    <3>2. CASE call' = [call EXCEPT ![c].at = "fail", ![c].error = "transient"]
      <4>1. ASSUME NEW x \in Call
            PROVE  [x EXCEPT !.at = "fail", !.error = "transient"] \in Call
        BY DEF Call, Stages, Errors
      <4>2. /\ call[c] \in Call
            /\ call' = [call EXCEPT ![c] = [call[c] EXCEPT !.at = "fail", !.error = "transient"]]
        BY <3>2 DEF TypeOK
      <4>3. call' \in [Callers -> Call] /\ \A d \in Callers : d # c => call'[d] = call[d]
        BY <4>1, <4>2 DEF TypeOK
      <4>4. call'[c].at = "fail"
        BY <4>2 DEF TypeOK, Call
      <4> QED
        BY <4>3, <4>4
    <3> QED
      BY <1>5, <3>1, <3>2 DEF AnswerLost
  <2>2. faults' \in 0 .. MaxFaults /\ issued' \in Tokens /\ call[c].seen.token \in Tokens
    BY <1>5, CredentialAssumption DEF AnswerLost, Fault, TypeOK, Tokens
  <2>3. TypeOK'
    BY <1>5, <2>1, <2>2 DEF AnswerLost, TypeOK
  <2>4. lock = c /\ \A d \in Callers : d # c => call[d].at \notin Locked
    BY <1>5 DEF AnswerLost, LockHeld, Locked
  <2>5. LockHeld' /\ StoreIsLast' /\ SpentNeverPresented'
    BY <1>5, <2>1, <2>4 DEF AnswerLost, LockHeld, StoreIsLast, SpentNeverPresented, Locked
  <2>6. SuccessorKept'
    BY <1>5, <2>1, <2>4 DEF AnswerLost, SuccessorKept, Locked
  <2> QED
    BY <2>3, <2>5, <2>6
<1> QED
  BY <1>1, <1>2, <1>3, <1>4, <1>5

\* Steps that write the row.
LEMMA WriteInv ==
    ASSUME IInv, UNCHANGED cast, NEW c \in Callers,
           \/ Store(c) \/ StoreFails(c) \/ Record(c) \/ Save(c)
    PROVE  IInv'
<1> USE DEF IInv
<1>1. ASSUME Store(c) \/ StoreFails(c) PROVE IInv'
  <2>1. call[c].at = "store" /\ Goto(c, "release")
    BY <1>1 DEF Store, StoreFails
  <2>2. /\ call' \in [Callers -> Call]
        /\ \A d \in Callers : d # c => call'[d] = call[d]
        /\ call'[c].at = "release"
    BY <2>1, GotoMoves, "release" \in Stages DEF Stages
  <2>3. lock = c /\ \A d \in Callers : d # c => call[d].at \notin Locked
    BY <2>1 DEF LockHeld, Locked
  <2>4. call[c] \in Call /\ call[c].seen.token \in Tokens /\ call[c].seen.token + 1 = issued
    BY <2>1 DEF TypeOK, Call, Row, StoreIsLast
  <2>5. LockHeld' /\ StoreIsLast' /\ SpentNeverPresented'
    BY <2>2, <2>3 DEF LockHeld, StoreIsLast, SpentNeverPresented, Locked
  <2>6. CASE Store(c)
    <3>1. row' = [token |-> issued, active |-> TRUE, permanent |-> FALSE, due |-> FALSE,
                  recent |-> TRUE, rejects |-> 0]
      BY <2>4, <2>6 DEF Store, NewRow
    <3>2. row' \in Row
      BY <3>1, CredentialAssumption DEF Row, TypeOK
    <3>3. TypeOK'
      BY <2>2, <2>6, <3>2 DEF Store, TypeOK
    <3>4. row'.token = issued'
      <4>1. row'.token = issued
        BY <3>1
      <4>2. issued' = issued
        BY <2>6 DEF Store
      <4> QED
        BY <4>1, <4>2
    <3>5. SuccessorKept'
      BY <3>4 DEF SuccessorKept
    <3> QED
      BY <2>5, <3>3, <3>5
  <2>7. CASE StoreFails(c)
    <3>1. faults' \in 0 .. MaxFaults
      BY <2>7, CredentialAssumption DEF StoreFails, Fault, TypeOK
    <3>2. TypeOK'
      BY <2>2, <2>4, <2>7, <3>1 DEF StoreFails, TypeOK
    <3>3. SuccessorKept'
      BY <2>2, <2>3, <2>7 DEF StoreFails, SuccessorKept, Locked
    <3> QED
      BY <2>5, <3>2, <3>3
  <2> QED
    BY <1>1, <2>6, <2>7
<1>2. ASSUME Record(c) PROVE IInv'
  <2>1. Mark(c, "release") \/ Goto(c, "release")
    BY <1>2 DEF Record
  <2>2. /\ call' \in [Callers -> Call]
        /\ \A d \in Callers : d # c => call'[d] = call[d]
        /\ call'[c].at \in {"mark", "release"}
    BY <2>1, MarkMoves, GotoMoves, "release" \in Stages DEF Stages
  <2>3. call[c].seen.rejects \in 0 .. RejectLimit /\ Rejects(c) \in 0 .. RejectLimit
    BY CredentialAssumption DEF TypeOK, Call, Row, Rejects
  <2>4. row' \in Row /\ row'.token = row.token
    BY <1>2, <2>3 DEF Record, TypeOK, Row
  <2>5. faults' \in 0 .. MaxFaults
    BY <1>2, CredentialAssumption DEF Record, Fault, TypeOK
  <2>6. TypeOK'
    BY <1>2, <2>2, <2>4, <2>5 DEF Record, TypeOK
  <2> QED
    BY <1>2, <2>2, <2>4, <2>6, QuietMove DEF Record, Locked
<1>3. ASSUME Save(c) PROVE IInv'
  <2>1. call[c] \in Call /\ call[c].seen \in Row /\ call[c].back \in {"release", "done"}
    BY DEF TypeOK, Call
  <2>2. /\ call' \in [Callers -> Call]
        /\ \A d \in Callers : d # c => call'[d] = call[d]
        /\ call'[c].at \in {"idle", "done", "release"}
    BY <1>3, <2>1, GotoMoves DEF Save, Stages
  <2>3. row' \in Row /\ row'.token = call[c].seen.token /\ call[c].seen.token \in Tokens
    BY <1>3, <2>1 DEF Save, Row
  <2>4. TypeOK'
    BY <1>3, <2>2, <2>3 DEF Save, TypeOK
  <2>5. LockHeld' /\ StoreIsLast' /\ SpentNeverPresented'
    BY <1>3, <2>2 DEF Save, LockHeld, StoreIsLast, SpentNeverPresented, Locked
  <2>6. SuccessorKept'
    BY <1>3, <2>2, <2>3 DEF Save, SuccessorKept
  <2> QED
    BY <2>4, <2>5, <2>6
<1> QED
  BY <1>1, <1>2, <1>3

\* Steps of nobody in particular, of several callers or of a whole instance.
LEMMA SharedStepInv ==
    ASSUME IInv, UNCHANGED cast,
           \/ \E c \in Callers : Finish(c)
           \/ \E t \in Tokens : Age(t)
           \/ ComesDue \/ CoolsDown \/ LockExpires
           \/ \E i \in Instances : Crash(i)
    PROVE  IInv'
<1> USE DEF IInv
<1>1. ASSUME NEW c \in Callers, Finish(c) PROVE IInv'
  <2>1. [Over EXCEPT !.at = "answered"] \in Call
    BY OverType, "answered" \in Stages DEF Stages
  <2>2. [Over EXCEPT !.at = "answered"].at = "answered"
    BY DEF Over
  <2>3. call' \in [Callers -> Call]
    BY <1>1, <2>1 DEF Finish, TypeOK
  <2>4. ASSUME NEW d \in Callers
        PROVE  \/ call'[d] = call[d]
               \/ call[d].at \in {"finish", "joined"} /\ call'[d].at = "answered"
    <3>1. CASE d = c \/ (call[d].at = "joined" /\ FlightKey(d) = FlightKey(c))
      BY <1>1, <2>2, <3>1, call'[d] = [Over EXCEPT !.at = "answered"] DEF Finish
    <3>2. CASE ~ (d = c \/ (call[d].at = "joined" /\ FlightKey(d) = FlightKey(c)))
      BY <1>1, <3>2 DEF Finish
    <3> QED
      BY <3>1, <3>2
  <2>5. TypeOK'
    BY <1>1, <2>3 DEF Finish, TypeOK
  <2>6. LockHeld' /\ StoreIsLast' /\ SpentNeverPresented' /\ SuccessorKept'
    BY <1>1, <2>4 DEF Finish, LockHeld, StoreIsLast, SpentNeverPresented, SuccessorKept, Locked
  <2> QED
    BY <2>5, <2>6
<1>2. ASSUME NEW t \in Tokens, Age(t) PROVE IInv'
  BY <1>2 DEF Age, TypeOK, LockHeld, StoreIsLast, SpentNeverPresented, SuccessorKept
<1>3. ASSUME ComesDue \/ CoolsDown PROVE IInv'
  <2>1. row' \in Row /\ row'.token = row.token
    BY <1>3 DEF ComesDue, CoolsDown, TypeOK, Row
  <2>2. UNCHANGED <<age, issued, lock, call, lost, overwritten, faults>>
    BY <1>3 DEF ComesDue, CoolsDown
  <2>3. TypeOK'
    BY <2>1, <2>2 DEF TypeOK
  <2>4. LockHeld' /\ StoreIsLast' /\ SpentNeverPresented' /\ SuccessorKept'
    BY <2>1, <2>2 DEF LockHeld, StoreIsLast, SpentNeverPresented, SuccessorKept
  <2> QED
    BY <2>3, <2>4
<1>4. ASSUME LockExpires PROVE IInv'
  BY <1>4, CredentialAssumption
  DEF LockExpires, TypeOK, LockHeld, StoreIsLast, SpentNeverPresented, SuccessorKept
<1>5. ASSUME NEW i \in Instances, Crash(i) PROVE IInv'
  <2>1. \A d \in Callers :
          \/ call'[d] = call[d] /\ (Home(d) # i \/ call[d].at \in {"idle", "done"})
          \/ Home(d) = i /\ call'[d] = Ended(d)
    BY <1>5 DEF Crash
  <2>2. call' \in [Callers -> Call]
    BY <1>5, OverType DEF Crash, TypeOK
  <2>3. faults' \in 0 .. MaxFaults /\ lost' \subseteq Tokens /\ lost \subseteq lost'
    BY <1>5, CredentialAssumption DEF Crash, Fault, TypeOK
  <2>4. lock' \in Callers \cup {None, Orphan}
    BY <1>5 DEF Crash, TypeOK
  <2>5. TypeOK'
    BY <1>5, <2>2, <2>3, <2>4 DEF Crash, TypeOK
  <2>6. \A d \in Callers : call'[d].at \notin {"idle", "done"} => call'[d] = call[d] /\ Home(d) # i
    BY <2>1, OverType
  <2>7. LockHeld'
    BY <1>5, <2>6 DEF Crash, LockHeld, Locked
  <2>8. StoreIsLast' /\ SpentNeverPresented'
    BY <1>5, <2>3, <2>6 DEF Crash, StoreIsLast, SpentNeverPresented
  <2>9. SuccessorKept'
    <3>1. ASSUME NEW d \in Callers, call[d].at = "store", call[d].seen.token = row.token
          PROVE  SuccessorKept'
      <4>1. CASE Home(d) = i
        BY <1>5, <3>1, <4>1 DEF Crash, SuccessorKept, TypeOK, Row
      <4>2. CASE Home(d) # i
        BY <1>5, <2>1, <3>1, <4>2 DEF Crash, SuccessorKept
      <4> QED
        BY <4>1, <4>2
    <3> QED
      BY <1>5, <2>3, <3>1 DEF Crash, SuccessorKept
  <2> QED
    BY <2>5, <2>7, <2>8, <2>9
<1> QED
  BY <1>1, <1>2, <1>3, <1>4, <1>5

\* No step breaks the invariant.
LEMMA NextInv == IInv /\ [Next /\ UNCHANGED cast]_<<cast, vars>> => IInv'
<1> SUFFICES ASSUME IInv, [Next /\ UNCHANGED cast]_<<cast, vars>> PROVE IInv'
  OBVIOUS
<1>1. CASE UNCHANGED <<cast, vars>>
  BY <1>1 DEF IInv, vars, TypeOK, LockHeld, StoreIsLast, SpentNeverPresented, SuccessorKept
<1>2. CASE Next /\ UNCHANGED cast
  BY <1>2, PlainStepInv, LockedStepInv, WriteInv, SharedStepInv DEF Next, Step
<1> QED
  BY <1>1, <1>2

----------------------------------------------------------------------------
\* The invariant holds in every state of every behaviour.
THEOREM Invariant == Spec => []IInv
<1>1. Init => IInv
  BY InitInv
<1>2. IInv /\ [Next /\ UNCHANGED cast]_<<cast, vars>> => IInv'
  BY NextInv
<1> QED
  BY <1>1, <1>2, PTL DEF Spec

\* Every state is one the declarations of the row and of the calls allow.
THEOREM TypeCorrect == Spec => []TypeOK
<1>1. IInv => TypeOK
  BY DEF IInv
<1> QED
  BY <1>1, Invariant, PTL

\* Whatever the instances and callers do, a flight presents the last token issued,
\* unless its successor was lost or a whole row was saved over it.
THEOREM NoTokenTwice == Spec => []SpentNeverPresented
<1>1. IInv => SpentNeverPresented
  BY DEF IInv
<1> QED
  BY <1>1, Invariant, PTL

\* The token to present next is in the row or about to be, unless it was lost or
\* overwritten.
THEOREM SuccessorStays == Spec => []SuccessorKept
<1>1. IInv => SuccessorKept
  BY DEF IInv
<1> QED
  BY <1>1, Invariant, PTL
=============================================================================
