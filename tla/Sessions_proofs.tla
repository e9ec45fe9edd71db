--------------------------- MODULE Sessions_proofs ---------------------------
(***************************************************************************)
(* Theorems about Sessions, for every number of calls, every limit and any *)
(* number of faults.  TLC checks the same invariants on three calls.       *)
(***************************************************************************)
EXTENDS Sessions, FiniteSetTheorems, TLAPS

(* where an answered call is *)
Over == {"done", "stopped"}

(* A call under way has a record. *)
TypeInv == TypeOK /\ \A c \in Calls : pc[c] # "idle" => call[c] \in Call

LEMMA InitType == Init => TypeInv
<1> SUFFICES ASSUME Init PROVE TypeInv
  OBVIOUS
<1>1. RateTypeOK
  BY DEF Init, RateInit, RateTypeOK
<1>2. user \in Account /\ faults \in 0..MaxFaults
  BY AccountAssumption, SessionsAssumption DEF Init
<1>3. pc \in [Calls -> Steps] /\ answer \in [Calls -> Answers]
  BY DEF Init, Steps, Answers
<1> QED
  BY <1>1, <1>2, <1>3 DEF Init, TypeInv, TypeOK

(* What a call reads of the account makes a record of the call. *)
LEMMA MadeType ==
  ASSUME NEW op \in Operation, NEW c \in Calls, user \in Account
  PROVE  Made(op, c) \in Call /\ Made(op, c).op = op
  BY DEF Made, Call, Account

LEMMA CallFields ==
  ASSUME NEW k \in Call
  PROVE  /\ k.op \in Operation /\ k.token \in Calls /\ k.role \in Roles
         /\ k.then \in {"ok", "locked", "error"}
  BY DEF Call

LEMMA CallWithToken ==
  ASSUME NEW k \in Call, NEW t \in Calls PROVE [k EXCEPT !.token = t] \in Call
  BY DEF Call

LEMMA CallWithRole ==
  ASSUME NEW k \in Call, NEW r \in Roles PROVE [k EXCEPT !.role = r] \in Call
  BY DEF Call

LEMMA CallWithAnswer ==
  ASSUME NEW k \in Call, NEW a \in {"ok", "locked", "error"} PROVE [k EXCEPT !.then = a] \in Call
  BY DEF Call

LEMMA AccountCounts ==
  ASSUME user \in Account, NEW f \in Nat, NEW l \in BOOLEAN
  PROVE  [user EXCEPT !.failures = f, !.locked = l] \in Account
  BY DEF Account

LEMMA AccountReplaced ==
  ASSUME user \in Account
  PROVE  [user EXCEPT !.password = @ + 1, !.failures = 0, !.locked = FALSE] \in Account
<1> DEFINE Renewed(n) == [user EXCEPT !.password = n, !.failures = 0, !.locked = FALSE]
<1>1. \A n \in Nat : Renewed(n) \in Account
  BY DEF Account
<1>2. user.password + 1 \in Nat
  BY DEF Account
<1> QED
  BY <1>1, <1>2

LEMMA AccountCommitted ==
  ASSUME user \in Account, NEW r \in Roles
  PROVE  [user EXCEPT !.role = r] \in Account /\ [user EXCEPT !.active = FALSE] \in Account
  BY DEF Account

LEMMA TypeStep ==
  ASSUME TypeInv, [Next]_vars
  PROVE  TypeInv'
<1>1. ASSUME NEW c \in Calls, Arrive(c) PROVE TypeInv'
  <2>1. call' \in [Calls -> Call \cup {NoCall}] /\ call'[c] \in Call
    BY <1>1, MadeType DEF Arrive, Operation, TypeInv, TypeOK
  <2> QED
    BY <1>1, <2>1 DEF Arrive, Incr, Goes, Ends, counter, TypeInv, TypeOK, RateTypeOK, Steps, Answers
<1>2. ASSUME NEW c \in Calls, Change(c) PROVE TypeInv'
  <2>1. call' \in [Calls -> Call \cup {NoCall}] /\ call'[c] \in Call
    BY <1>2, MadeType DEF Change, Operation, TypeInv, TypeOK
  <2> QED
    BY <1>2, <2>1 DEF Change, Goes, counter, TypeInv, TypeOK, RateTypeOK, Steps, Answers
<1>3. ASSUME NEW c \in Calls, Logout(c) PROVE TypeInv'
  <2>1. call' \in [Calls -> Call \cup {NoCall}] /\ call'[c] \in Call
    BY <1>3, MadeType, CallWithToken, CallFields DEF Logout, Operation, TypeInv, TypeOK
  <2> QED
    BY <1>3, <2>1 DEF Logout, Goes, counter, TypeInv, TypeOK, RateTypeOK, Steps, Answers
<1>4. ASSUME NEW c \in Calls, HRReset(c) PROVE TypeInv'
  <2>1. user' \in Account
    BY <1>4, AccountReplaced DEF HRReset, TypeInv, TypeOK
  <2>2. call' \in [Calls -> Call \cup {NoCall}] /\ call'[c] \in Call
    BY <1>4, MadeType DEF HRReset, Operation, TypeInv, TypeOK
  <2> QED
    BY <1>4, <2>1, <2>2 DEF HRReset, Revokes, counter, TypeInv, TypeOK, RateTypeOK, Steps, Answers
<1>5. ASSUME NEW c \in Calls, Update(c) PROVE TypeInv'
  <2>1. call' \in [Calls -> Call \cup {NoCall}] /\ call'[c] \in Call
    BY <1>5, MadeType, CallWithRole, CallFields DEF Update, Operation, TypeInv, TypeOK
  <2> QED
    BY <1>5, <2>1 DEF Update, Revokes, counter, TypeInv, TypeOK, RateTypeOK, Steps, Answers
<1>6. ASSUME NEW c \in Calls, Deactivate(c) PROVE TypeInv'
  <2>1. call' \in [Calls -> Call \cup {NoCall}] /\ call'[c] \in Call
    BY <1>6, MadeType DEF Deactivate, Operation, TypeInv, TypeOK
  <2> QED
    BY <1>6, <2>1 DEF Deactivate, Revokes, counter, TypeInv, TypeOK, RateTypeOK, Steps, Answers
<1>7. ASSUME NEW c \in Calls, StartWindow(c) PROVE TypeInv'
  BY <1>7 DEF StartWindow, SetExpiry, Goes, counter, TypeInv, TypeOK, RateTypeOK, Steps, Answers
<1>8. ASSUME NEW c \in Calls, Verify(c) PROVE TypeInv'
  <2>1. call[c] \in Call
    BY <1>8 DEF Verify, TypeInv
  <2>2. call' \in [Calls -> Call \cup {NoCall}] /\ call'[c] \in Call
    BY <1>8, <2>1, CallFields, MadeType DEF Verify, TypeInv, TypeOK
  <2> QED
    BY <1>8, <2>2 DEF Verify, Goes, Ends, counter, TypeInv, TypeOK, RateTypeOK, Steps, Answers
<1>9. ASSUME NEW c \in Calls, RecordFailure(c) PROVE TypeInv'
  <2>1. call[c] \in Call
    BY <1>9 DEF RecordFailure, TypeInv
  <2>2. call' \in [Calls -> Call \cup {NoCall}] /\ call'[c] \in Call
    BY <1>9, <2>1, CallFields, CallWithAnswer DEF RecordFailure, TypeInv, TypeOK
  <2>3. user.failures + 1 \in Nat /\ (user.failures + 1 >= FailureLimit) \in BOOLEAN
    BY DEF TypeInv, TypeOK, Account
  <2>4. user' \in Account
    BY <1>9, <2>3, AccountCounts DEF RecordFailure, Counts, TypeInv, TypeOK
  <2> QED
    BY <1>9, <2>2, <2>4 DEF RecordFailure, Revokes, Ends, counter, TypeInv, TypeOK, RateTypeOK, Steps, Answers
<1>10. ASSUME NEW c \in Calls, RecordSuccess(c) PROVE TypeInv'
  <2>1. user' \in Account
    BY <1>10, AccountCounts DEF RecordSuccess, TypeInv, TypeOK
  <2> QED
    BY <1>10, <2>1 DEF RecordSuccess, Goes, counter, TypeInv, TypeOK, RateTypeOK, Steps, Answers
<1>11. ASSUME NEW c \in Calls, Save(c) PROVE TypeInv'
  BY <1>11 DEF Save, Goes, counter, TypeInv, TypeOK, RateTypeOK, Steps, Answers
<1>12. ASSUME NEW c \in Calls, Welcome(c) PROVE TypeInv'
  BY <1>12 DEF Welcome, Ends, counter, TypeInv, TypeOK, RateTypeOK, Steps, Answers
<1>13. ASSUME NEW c \in Calls, Replace(c) PROVE TypeInv'
  <2>1. user' \in Account
    BY <1>13, AccountReplaced DEF Replace, TypeInv, TypeOK
  <2> QED
    BY <1>13, <2>1 DEF Replace, Revokes, counter, TypeInv, TypeOK, RateTypeOK, Steps, Answers
<1>14. ASSUME NEW c \in Calls, Leave(c) PROVE TypeInv'
  <2>1. call[c].token \in Calls
    BY <1>14, CallFields DEF Leave, TypeInv
  <2> QED
    BY <1>14, <2>1 DEF Leave, Ends, counter, TypeInv, TypeOK, RateTypeOK, Steps, Answers
<1>15. ASSUME NEW c \in Calls, Commit(c) PROVE TypeInv'
  <2>1. call[c].role \in Roles
    BY <1>15, CallFields DEF Commit, TypeInv
  <2>2. user' \in Account
    BY <1>15, <2>1, AccountCommitted DEF Commit, Committed, TypeInv, TypeOK
  <2> QED
    BY <1>15, <2>2 DEF Commit, Ends, counter, TypeInv, TypeOK, RateTypeOK, Steps, Answers
<1>16. ASSUME NEW c \in Calls, RevokePage(c) PROVE TypeInv'
  BY <1>16 DEF RevokePage, counter, TypeInv, TypeOK, RateTypeOK, Steps, Answers
<1>17. ASSUME NEW c \in Calls, RevokeDone(c) PROVE TypeInv'
  <2>1. call[c].then \in Answers
    BY <1>17, CallFields DEF RevokeDone, TypeInv, Answers
  <2> QED
    BY <1>17, <2>1 DEF RevokeDone, Goes, Ends, counter, TypeInv, TypeOK, RateTypeOK, Steps
<1>18. ASSUME NEW c \in Calls, LoginNotAudited(c) PROVE TypeInv'
  <2>1. call' \in [Calls -> Call \cup {NoCall}] /\ call'[c] \in Call
    BY <1>18, CallWithAnswer, CallFields DEF LoginNotAudited, TypeInv, TypeOK
  <2>2. faults' \in 0..MaxFaults
    BY <1>18, SessionsAssumption DEF LoginNotAudited, TypeInv, TypeOK
  <2> QED
    BY <1>18, <2>1, <2>2 DEF LoginNotAudited, Revokes, counter, TypeInv, TypeOK, RateTypeOK, Steps, Answers
<1>19. ASSUME NEW c \in Calls, Fail(c) PROVE TypeInv'
  <2>1. call[c] \in Call
    BY <1>19 DEF Fail, TypeInv
  <2>2. user' \in Account
    BY <1>19, <2>1, CallFields, AccountCommitted DEF Fail, Committed, TypeInv, TypeOK
  <2>3. faults' \in 0..MaxFaults
    BY <1>19, SessionsAssumption DEF Fail, TypeInv, TypeOK
  <2> QED
    BY <1>19, <2>2, <2>3 DEF Fail, AnswerOfFailure, SetExpiry, counter, TypeInv, TypeOK, RateTypeOK, Steps, Answers
<1>20. ASSUME NEW c \in Calls, Expire(c) PROVE TypeInv'
  BY <1>20 DEF Expire, counter, TypeInv, TypeOK, RateTypeOK, Steps, Answers
<1>21. CASE EndWindow
  BY <1>21 DEF EndWindow, WindowEnds, TypeInv, TypeOK, RateTypeOK, Steps, Answers
<1>22. CASE UNCHANGED vars
  BY <1>22 DEF vars, counter, TypeInv, TypeOK, RateTypeOK, Steps, Answers
<1> QED
  BY <1>1, <1>2, <1>3, <1>4, <1>5, <1>6, <1>7, <1>8, <1>9, <1>10, <1>11, <1>12,
     <1>13, <1>14, <1>15, <1>16, <1>17, <1>18, <1>19, <1>20, <1>21, <1>22 DEF Next, Step

(* Every row, key and record has its type, and a call under way has its record. *)
THEOREM TypesHold == Spec => []TypeOK
<1>1. Init => TypeInv
  BY InitType
<1>2. TypeInv /\ [Next]_vars => TypeInv'
  BY TypeStep
<1>3. TypeInv => TypeOK
  BY DEF TypeInv
<1> QED
  BY <1>1, <1>2, <1>3, PTL DEF Spec
-----------------------------------------------------------------------------
(* The row counts the checks that failed since the last good one; a check    *)
(* that failed has gone on to its answer or to the revocation.               *)
CountInv ==
  /\ IsFiniteSet(streak)
  /\ \A c \in streak : pc[c] \in {"revoking", "revoked", "done"}
  /\ FailuresAreCounted

LEMMA InitCount == Init => CountInv
  BY FS_EmptySet, AccountAssumption, SessionsAssumption DEF Init, CountInv, FailuresAreCounted

LEMMA CountStep ==
  ASSUME TypeInv, CountInv, [Next]_vars
  PROVE  CountInv'
<1>1. ASSUME NEW c \in Calls, Arrive(c) PROVE CountInv'
  BY <1>1 DEF Arrive, Incr, Goes, Ends, counter, CountInv, FailuresAreCounted, TypeInv, TypeOK, Steps, Account
<1>2. ASSUME NEW c \in Calls, Change(c) PROVE CountInv'
  BY <1>2 DEF Change, Goes, counter, CountInv, FailuresAreCounted, TypeInv, TypeOK, Steps, Account
<1>3. ASSUME NEW c \in Calls, Logout(c) PROVE CountInv'
  BY <1>3 DEF Logout, Goes, counter, CountInv, FailuresAreCounted, TypeInv, TypeOK, Steps, Account
<1>4. ASSUME NEW c \in Calls, HRReset(c) PROVE CountInv'
  <2>1. streak' = {} /\ user'.failures = 0 /\ user'.locked = FALSE
    BY <1>4 DEF HRReset, TypeInv, TypeOK, Account
  <2>2. ~ (0 >= FailureLimit)
    BY SessionsAssumption
  <2> QED
    BY <2>1, <2>2, FS_EmptySet DEF CountInv, FailuresAreCounted
<1>5. ASSUME NEW c \in Calls, Update(c) PROVE CountInv'
  BY <1>5 DEF Update, Revokes, counter, CountInv, FailuresAreCounted, TypeInv, TypeOK, Steps, Account
<1>6. ASSUME NEW c \in Calls, Deactivate(c) PROVE CountInv'
  BY <1>6 DEF Deactivate, Revokes, counter, CountInv, FailuresAreCounted, TypeInv, TypeOK, Steps, Account
<1>7. ASSUME NEW c \in Calls, StartWindow(c) PROVE CountInv'
  BY <1>7 DEF StartWindow, SetExpiry, Goes, counter, CountInv, FailuresAreCounted, TypeInv, TypeOK, Steps, Account
<1>8. ASSUME NEW c \in Calls, Verify(c) PROVE CountInv'
  BY <1>8 DEF Verify, Goes, Ends, counter, CountInv, FailuresAreCounted, TypeInv, TypeOK, Steps, Account
<1>9. ASSUME NEW c \in Calls, RecordFailure(c) PROVE CountInv'
  <2>1. c \notin streak
    BY <1>9 DEF RecordFailure, CountInv
  <2>2. IsFiniteSet(streak') /\ Cardinality(streak') = Cardinality(streak) + 1
    BY <1>9, <2>1, FS_AddElement DEF RecordFailure, CountInv
  <2>3. /\ user'.failures = user.failures + 1
        /\ user'.locked <=> user.failures + 1 >= FailureLimit
    BY <1>9 DEF RecordFailure, Counts, TypeInv, TypeOK, Account
  <2>4. \A d \in streak' : pc'[d] \in {"revoking", "revoked", "done"}
    BY <1>9 DEF RecordFailure, Revokes, Ends, CountInv, TypeInv, TypeOK
  <2> QED
    BY <2>2, <2>3, <2>4 DEF CountInv, FailuresAreCounted
<1>10. ASSUME NEW c \in Calls, RecordSuccess(c) PROVE CountInv'
  <2>1. streak' = {} /\ user'.failures = 0 /\ user'.locked = FALSE
    BY <1>10 DEF RecordSuccess, TypeInv, TypeOK, Account
  <2>2. ~ (0 >= FailureLimit)
    BY SessionsAssumption
  <2> QED
    BY <2>1, <2>2, FS_EmptySet DEF CountInv, FailuresAreCounted
<1>11. ASSUME NEW c \in Calls, Save(c) PROVE CountInv'
  BY <1>11 DEF Save, Goes, counter, CountInv, FailuresAreCounted, TypeInv, TypeOK, Steps, Account
<1>12. ASSUME NEW c \in Calls, Welcome(c) PROVE CountInv'
  BY <1>12 DEF Welcome, Ends, counter, CountInv, FailuresAreCounted, TypeInv, TypeOK, Steps, Account
<1>13. ASSUME NEW c \in Calls, Replace(c) PROVE CountInv'
  <2>1. streak' = {} /\ user'.failures = 0 /\ user'.locked = FALSE
    BY <1>13 DEF Replace, TypeInv, TypeOK, Account
  <2>2. ~ (0 >= FailureLimit)
    BY SessionsAssumption
  <2> QED
    BY <2>1, <2>2, FS_EmptySet DEF CountInv, FailuresAreCounted
<1>14. ASSUME NEW c \in Calls, Leave(c) PROVE CountInv'
  BY <1>14 DEF Leave, Ends, counter, CountInv, FailuresAreCounted, TypeInv, TypeOK, Steps, Account
<1>15. ASSUME NEW c \in Calls, Commit(c) PROVE CountInv'
  BY <1>15 DEF Commit, Ends, Committed, counter, CountInv, FailuresAreCounted, TypeInv, TypeOK, Steps, Account
<1>16. ASSUME NEW c \in Calls, RevokePage(c) PROVE CountInv'
  BY <1>16 DEF RevokePage, counter, CountInv, FailuresAreCounted, TypeInv, TypeOK, Steps, Account
<1>17. ASSUME NEW c \in Calls, RevokeDone(c) PROVE CountInv'
  BY <1>17 DEF RevokeDone, Goes, Ends, InTransaction, counter, CountInv, FailuresAreCounted, TypeInv, TypeOK, Steps, Account
<1>18. ASSUME NEW c \in Calls, LoginNotAudited(c) PROVE CountInv'
  BY <1>18 DEF LoginNotAudited, Revokes, counter, CountInv, FailuresAreCounted, TypeInv, TypeOK, Steps, Account
<1>19. ASSUME NEW c \in Calls, Fail(c) PROVE CountInv'
  BY <1>19 DEF Fail, Ends, AnswerOfFailure, Committed, counter, CountInv, FailuresAreCounted, TypeInv, TypeOK, Steps, Account
<1>20. ASSUME NEW c \in Calls, Expire(c) PROVE CountInv'
  BY <1>20 DEF Expire, counter, CountInv, FailuresAreCounted, TypeInv, TypeOK, Steps, Account
<1>21. CASE EndWindow
  BY <1>21 DEF EndWindow, WindowEnds, CountInv, FailuresAreCounted, TypeInv, TypeOK, Steps, Account
<1>22. CASE UNCHANGED vars
  BY <1>22 DEF vars, counter, CountInv, FailuresAreCounted, TypeInv, TypeOK, Steps, Account
<1> QED
  BY <1>1, <1>2, <1>3, <1>4, <1>5, <1>6, <1>7, <1>8, <1>9, <1>10, <1>11, <1>12,
     <1>13, <1>14, <1>15, <1>16, <1>17, <1>18, <1>19, <1>20, <1>21, <1>22 DEF Next, Step

(* No failed check is lost, however many run at once, and the lock comes at  *)
(* the limit.                                                                *)
THEOREM FailuresCount == Spec => []FailuresAreCounted
<1>1. Init => TypeInv /\ CountInv
  BY InitType, InitCount
<1>2. TypeInv /\ CountInv /\ [Next]_vars => (TypeInv /\ CountInv)'
  BY TypeStep, CountStep
<1>3. CountInv => FailuresAreCounted
  BY DEF CountInv
<1> QED
  BY <1>1, <1>2, <1>3, PTL DEF Spec
-----------------------------------------------------------------------------
(* The first INCR makes the counter and its call the opener, and nothing but *)
(* that call's EXPIRE gives it a time to live; a key that is gone has none.  *)
CounterInv ==
  /\ CountersEnd
  /\ counted = 0 => ~ expires

LEMMA InitCounter == Init => CounterInv
  BY DEF Init, RateInit, CounterInv, CountersEnd, Openers

(* While there is an opener it is alone, and the counter has no end. *)
LEMMA OnlyOpener ==
  ASSUME CounterInv, NEW c \in Calls, pc[c] \in {"counted", "stopped"}
  PROVE  Openers = {c} /\ counted # 0 /\ ~ expires
<1>1. c \in Openers
  BY DEF Openers
<1> QED
  BY <1>1 DEF CounterInv, CountersEnd

(* A step that leaves the counter alone, of a call that is no opener. *)
LEMMA CounterFrame ==
  ASSUME CounterInv, NEW c \in Calls, counted' = counted, expires' = expires,
         pc[c] \notin {"counted", "stopped"}, pc'[c] \notin {"counted", "stopped"},
         \A d \in Calls \ {c} : pc'[d] = pc[d]
  PROVE  CounterInv'
<1>1. Openers' = Openers
  BY DEF Openers
<1> QED
  BY <1>1 DEF CounterInv, CountersEnd

LEMMA CounterStep ==
  ASSUME TypeInv, CounterInv, [Next]_vars
  PROVE  CounterInv'
<1>1. ASSUME NEW c \in Calls, Arrive(c) PROVE CounterInv'
  <2>1. /\ pc[c] = "idle" /\ \A d \in Calls \ {c} : pc'[d] = pc[d]
        /\ counted' = counted + 1 /\ expires' = expires /\ counted \in Nat
    BY <1>1 DEF Arrive, Incr, Goes, Ends, TypeInv, TypeOK, RateTypeOK
  <2>2. CASE counted = 0
    <3>1. pc'[c] = "counted"
      <4>1. Allows(1)
        BY SessionsAssumption DEF Allows
      <4> QED
        BY <1>1, <2>1, <2>2, <4>1 DEF Arrive, Goes, TypeInv, TypeOK
    <3>2. ~ expires
      BY <2>2 DEF CounterInv
    <3>3. Openers = {}
      BY <2>2 DEF CounterInv, CountersEnd
    <3>4. Openers' = {c}
      BY <2>1, <3>1, <3>3 DEF Openers
    <3> QED
      BY <2>1, <2>2, <3>2, <3>4 DEF CounterInv, CountersEnd
  <2>3. CASE counted # 0
    <3>1. pc'[c] \notin {"counted", "stopped"}
      BY <1>1, <2>1, <2>3 DEF Arrive, Goes, Ends, TypeInv, TypeOK
    <3>2. Openers' = Openers
      BY <2>1, <3>1 DEF Openers
    <3> QED
      BY <2>1, <2>3, <3>2 DEF CounterInv, CountersEnd
  <2> QED
    BY <2>2, <2>3
<1>2. ASSUME NEW c \in Calls, Change(c) PROVE CounterInv'
  <2>1. counted' = counted /\ expires' = expires
    BY <1>2 DEF Change, counter
  <2>2. /\ pc[c] \notin {"counted", "stopped"} /\ pc'[c] \notin {"counted", "stopped"}
        /\ \A d \in Calls \ {c} : pc'[d] = pc[d]
    BY <1>2 DEF Change, Goes, TypeInv, TypeOK
  <2> QED
    BY <2>1, <2>2, CounterFrame
<1>3. ASSUME NEW c \in Calls, Logout(c) PROVE CounterInv'
  <2>1. counted' = counted /\ expires' = expires
    BY <1>3 DEF Logout, counter
  <2>2. /\ pc[c] \notin {"counted", "stopped"} /\ pc'[c] \notin {"counted", "stopped"}
        /\ \A d \in Calls \ {c} : pc'[d] = pc[d]
    BY <1>3 DEF Logout, Goes, TypeInv, TypeOK
  <2> QED
    BY <2>1, <2>2, CounterFrame
<1>4. ASSUME NEW c \in Calls, HRReset(c) PROVE CounterInv'
  <2>1. counted' = counted /\ expires' = expires
    BY <1>4 DEF HRReset, counter
  <2>2. /\ pc[c] \notin {"counted", "stopped"} /\ pc'[c] \notin {"counted", "stopped"}
        /\ \A d \in Calls \ {c} : pc'[d] = pc[d]
    BY <1>4 DEF HRReset, Revokes, TypeInv, TypeOK
  <2> QED
    BY <2>1, <2>2, CounterFrame
<1>5. ASSUME NEW c \in Calls, Update(c) PROVE CounterInv'
  <2>1. counted' = counted /\ expires' = expires
    BY <1>5 DEF Update, counter
  <2>2. /\ pc[c] \notin {"counted", "stopped"} /\ pc'[c] \notin {"counted", "stopped"}
        /\ \A d \in Calls \ {c} : pc'[d] = pc[d]
    BY <1>5 DEF Update, Revokes, TypeInv, TypeOK
  <2> QED
    BY <2>1, <2>2, CounterFrame
<1>6. ASSUME NEW c \in Calls, Deactivate(c) PROVE CounterInv'
  <2>1. counted' = counted /\ expires' = expires
    BY <1>6 DEF Deactivate, counter
  <2>2. /\ pc[c] \notin {"counted", "stopped"} /\ pc'[c] \notin {"counted", "stopped"}
        /\ \A d \in Calls \ {c} : pc'[d] = pc[d]
    BY <1>6 DEF Deactivate, Revokes, TypeInv, TypeOK
  <2> QED
    BY <2>1, <2>2, CounterFrame
<1>7. ASSUME NEW c \in Calls, StartWindow(c) PROVE CounterInv'
  <2>1. Openers = {c} /\ counted # 0
    BY <1>7, OnlyOpener DEF StartWindow, Goes
  <2>2. expires' /\ counted' # 0 /\ Openers' = {}
    BY <1>7, <2>1, OnlyOpener DEF StartWindow, SetExpiry, Goes, Openers, TypeInv, TypeOK
  <2> QED
    BY <2>2 DEF CounterInv, CountersEnd
<1>8. ASSUME NEW c \in Calls, Verify(c) PROVE CounterInv'
  <2>1. counted' = counted /\ expires' = expires
    BY <1>8 DEF Verify, counter
  <2>2. /\ pc[c] \notin {"counted", "stopped"} /\ pc'[c] \notin {"counted", "stopped"}
        /\ \A d \in Calls \ {c} : pc'[d] = pc[d]
    BY <1>8 DEF Verify, Goes, Ends, TypeInv, TypeOK
  <2> QED
    BY <2>1, <2>2, CounterFrame
<1>9. ASSUME NEW c \in Calls, RecordFailure(c) PROVE CounterInv'
  <2>1. counted' = counted /\ expires' = expires
    BY <1>9 DEF RecordFailure, counter
  <2>2. /\ pc[c] \notin {"counted", "stopped"} /\ pc'[c] \notin {"counted", "stopped"}
        /\ \A d \in Calls \ {c} : pc'[d] = pc[d]
    BY <1>9 DEF RecordFailure, Revokes, Ends, TypeInv, TypeOK
  <2> QED
    BY <2>1, <2>2, CounterFrame
<1>10. ASSUME NEW c \in Calls, RecordSuccess(c) PROVE CounterInv'
  <2>1. counted' = counted /\ expires' = expires
    BY <1>10 DEF RecordSuccess, counter
  <2>2. /\ pc[c] \notin {"counted", "stopped"} /\ pc'[c] \notin {"counted", "stopped"}
        /\ \A d \in Calls \ {c} : pc'[d] = pc[d]
    BY <1>10 DEF RecordSuccess, Goes, TypeInv, TypeOK
  <2> QED
    BY <2>1, <2>2, CounterFrame
<1>11. ASSUME NEW c \in Calls, Save(c) PROVE CounterInv'
  <2>1. counted' = counted /\ expires' = expires
    BY <1>11 DEF Save, counter
  <2>2. /\ pc[c] \notin {"counted", "stopped"} /\ pc'[c] \notin {"counted", "stopped"}
        /\ \A d \in Calls \ {c} : pc'[d] = pc[d]
    BY <1>11 DEF Save, Goes, TypeInv, TypeOK
  <2> QED
    BY <2>1, <2>2, CounterFrame
<1>12. ASSUME NEW c \in Calls, Welcome(c) PROVE CounterInv'
  <2>1. counted' = counted /\ expires' = expires
    BY <1>12 DEF Welcome, counter
  <2>2. /\ pc[c] \notin {"counted", "stopped"} /\ pc'[c] \notin {"counted", "stopped"}
        /\ \A d \in Calls \ {c} : pc'[d] = pc[d]
    BY <1>12 DEF Welcome, Ends, TypeInv, TypeOK
  <2> QED
    BY <2>1, <2>2, CounterFrame
<1>13. ASSUME NEW c \in Calls, Replace(c) PROVE CounterInv'
  <2>1. counted' = counted /\ expires' = expires
    BY <1>13 DEF Replace, counter
  <2>2. /\ pc[c] \notin {"counted", "stopped"} /\ pc'[c] \notin {"counted", "stopped"}
        /\ \A d \in Calls \ {c} : pc'[d] = pc[d]
    BY <1>13 DEF Replace, Revokes, TypeInv, TypeOK
  <2> QED
    BY <2>1, <2>2, CounterFrame
<1>14. ASSUME NEW c \in Calls, Leave(c) PROVE CounterInv'
  <2>1. counted' = counted /\ expires' = expires
    BY <1>14 DEF Leave, counter
  <2>2. /\ pc[c] \notin {"counted", "stopped"} /\ pc'[c] \notin {"counted", "stopped"}
        /\ \A d \in Calls \ {c} : pc'[d] = pc[d]
    BY <1>14 DEF Leave, Ends, TypeInv, TypeOK
  <2> QED
    BY <2>1, <2>2, CounterFrame
<1>15. ASSUME NEW c \in Calls, Commit(c) PROVE CounterInv'
  <2>1. counted' = counted /\ expires' = expires
    BY <1>15 DEF Commit, counter
  <2>2. /\ pc[c] \notin {"counted", "stopped"} /\ pc'[c] \notin {"counted", "stopped"}
        /\ \A d \in Calls \ {c} : pc'[d] = pc[d]
    BY <1>15 DEF Commit, Ends, TypeInv, TypeOK
  <2> QED
    BY <2>1, <2>2, CounterFrame
<1>16. ASSUME NEW c \in Calls, RevokePage(c) PROVE CounterInv'
  BY <1>16 DEF RevokePage, counter, CounterInv, CountersEnd, Openers
<1>17. ASSUME NEW c \in Calls, RevokeDone(c) PROVE CounterInv'
  <2>1. counted' = counted /\ expires' = expires
    BY <1>17 DEF RevokeDone, counter
  <2>2. /\ pc[c] \notin {"counted", "stopped"} /\ pc'[c] \notin {"counted", "stopped"}
        /\ \A d \in Calls \ {c} : pc'[d] = pc[d]
    BY <1>17 DEF RevokeDone, Goes, Ends, TypeInv, TypeOK
  <2> QED
    BY <2>1, <2>2, CounterFrame
<1>18. ASSUME NEW c \in Calls, LoginNotAudited(c) PROVE CounterInv'
  <2>1. counted' = counted /\ expires' = expires
    BY <1>18 DEF LoginNotAudited, counter
  <2>2. /\ pc[c] \notin {"counted", "stopped"} /\ pc'[c] \notin {"counted", "stopped"}
        /\ \A d \in Calls \ {c} : pc'[d] = pc[d]
    BY <1>18 DEF LoginNotAudited, Revokes, TypeInv, TypeOK
  <2> QED
    BY <2>1, <2>2, CounterFrame
<1>19. ASSUME NEW c \in Calls, Fail(c) PROVE CounterInv'
  <2>1. /\ \A d \in Calls \ {c} : pc'[d] = pc[d]
        /\ pc[c] # "stopped" /\ pc'[c] = IF pc[c] = "counted" /\ ~ expires' THEN "stopped" ELSE "done"
    BY <1>19 DEF Fail, TypeInv, TypeOK
  <2>2. CASE pc[c] = "counted"
    <3>1. Openers = {c} /\ counted # 0 /\ ~ expires
      BY <2>2, OnlyOpener
    <3>2. counted' = counted
      BY <1>19 DEF Fail, SetExpiry, counter
    <3>3. IF expires' THEN Openers' = {} ELSE Openers' = {c}
      BY <2>1, <2>2, <3>1 DEF Openers
    <3> QED
      BY <3>1, <3>2, <3>3 DEF CounterInv, CountersEnd
  <2>3. CASE pc[c] # "counted"
    <3>1. counted' = counted /\ expires' = expires
      BY <1>19, <2>3 DEF Fail, counter
    <3> QED
      BY <2>1, <2>3, <3>1, CounterFrame
  <2> QED
    BY <2>2, <2>3
<1>20. ASSUME NEW c \in Calls, Expire(c) PROVE CounterInv'
  BY <1>20 DEF Expire, counter, CounterInv, CountersEnd, Openers
<1>21. CASE EndWindow
  <2>1. expires /\ counted' = 0 /\ ~ expires' /\ Openers' = Openers
    BY <1>21 DEF EndWindow, WindowEnds, Openers
  <2> QED
    BY <2>1 DEF CounterInv, CountersEnd
<1>22. CASE UNCHANGED vars
  BY <1>22 DEF vars, counter, CounterInv, CountersEnd, Openers
<1> QED
  BY <1>1, <1>2, <1>3, <1>4, <1>5, <1>6, <1>7, <1>8, <1>9, <1>10, <1>11, <1>12,
     <1>13, <1>14, <1>15, <1>16, <1>17, <1>18, <1>19, <1>20, <1>21, <1>22 DEF Next, Step

(* A counter without a time to live has exactly one cause: the call that     *)
(* made it, and is between INCR and EXPIRE or stopped there.  A call that    *)
(* stops anywhere else leaves none behind.                                   *)
THEOREM CountersExpire == Spec => []CountersEnd
<1>1. Init => TypeInv /\ CounterInv
  BY InitType, InitCounter
<1>2. TypeInv /\ CounterInv /\ [Next]_vars => (TypeInv /\ CounterInv)'
  BY TypeStep, CounterStep
<1>3. CounterInv => CountersEnd
  BY DEF CounterInv
<1> QED
  BY <1>1, <1>2, <1>3, PTL DEF Spec
-----------------------------------------------------------------------------
(* A session is that of a login which has saved it; what a call has to end   *)
(* was there when it changed the account, so no login can save it again; and *)
(* the revocation has yet to come across all of it that is left.             *)
Past == {"saved", "revoking", "revoked", "done"}

SessionInv ==
  /\ \A d \in sessions : pc[d] \in Past
  /\ \A c \in Calls :
       /\ \A d \in doomed[c] : pc[d] \in Past
       /\ pc[c] = "leaving" => pc[call[c].token] \in Past
       /\ doomed[c] # {} => pc[c] \in {"revoking", "revoked", "done"}
       /\ pc[c] = "revoking" => doomed[c] \cap sessions \subseteq scan[c]
       /\ pc[c] = "revoked" => doomed[c] \cap sessions = {}
       /\ answer[c] # "none" => pc[c] \in Over
  /\ AnsweredChangesHold

(* A step that ends no session, of a call that has not saved or ended any. *)
LEMMA SessionFrame ==
  ASSUME SessionInv, NEW c \in Calls, pc[c] \notin Past, sessions' = sessions,
         doomed' = doomed, scan' = scan, pc'[c] \notin {"leaving", "revoking", "revoked"},
         answer'[c] # "none" => pc'[c] \in Over,
         \A d \in Calls \ {c} : pc'[d] = pc[d] /\ call'[d] = call[d] /\ answer'[d] = answer[d],
         TypeInv
  PROVE  SessionInv'
<1>1. doomed[c] = {}
  BY DEF Over, SessionInv, Past
<1>2. \A d \in sessions : d \in Calls /\ d # c /\ pc'[d] \in Past
  BY DEF Over, SessionInv, TypeInv, TypeOK
<1>3. \A d \in Calls : \A e \in doomed[d] : e \in Calls /\ e # c /\ pc'[e] \in Past
  BY DEF Over, SessionInv, TypeInv, TypeOK
<1>4. ASSUME NEW d \in Calls, pc'[d] = "leaving"
      PROVE  pc'[call'[d].token] \in Past
  <2>1. d # c /\ pc[d] = "leaving" /\ call'[d] = call[d]
    BY <1>4
  <2>2. call[d].token \in Calls
    BY <2>1, CallFields DEF TypeInv
  <2> QED
    BY <2>1, <2>2 DEF Over, SessionInv
<1>5. AnsweredChangesHold'
  BY <1>1 DEF Over, SessionInv, AnsweredChangesHold
<1> QED
  BY <1>1, <1>2, <1>3, <1>4, <1>5 DEF Over, SessionInv

LEMMA InitSession == Init => SessionInv
  BY DEF Init, SessionInv, Over, AnsweredChangesHold

LEMMA SessionStep ==
  ASSUME TypeInv, SessionInv, [Next]_vars
  PROVE  SessionInv'
<1>1. ASSUME NEW c \in Calls, Arrive(c) PROVE SessionInv'
  <2>1. /\ sessions' = sessions /\ doomed' = doomed /\ scan' = scan
        /\ pc[c] \notin Past
    BY <1>1 DEF Arrive, Goes, Ends, Past
  <2>2. /\ pc'[c] \notin {"leaving", "revoking", "revoked"}
        /\ answer'[c] # "none" => pc'[c] \in Over
    BY <1>1, <2>1 DEF Arrive, Goes, Ends, SessionInv, Over, Past, TypeInv, TypeOK
  <2>3. \A d \in Calls \ {c} : pc'[d] = pc[d] /\ call'[d] = call[d] /\ answer'[d] = answer[d]
    BY <1>1 DEF Arrive, Goes, Ends, TypeInv, TypeOK
  <2> QED
    BY <2>1, <2>2, <2>3, SessionFrame
<1>2. ASSUME NEW c \in Calls, Change(c) PROVE SessionInv'
  <2>1. /\ sessions' = sessions /\ doomed' = doomed /\ scan' = scan
        /\ pc[c] \notin Past
    BY <1>2 DEF Change, Goes, Past
  <2>2. /\ pc'[c] \notin {"leaving", "revoking", "revoked"}
        /\ answer'[c] # "none" => pc'[c] \in Over
    BY <1>2, <2>1 DEF Change, Goes, SessionInv, Over, Past, TypeInv, TypeOK
  <2>3. \A d \in Calls \ {c} : pc'[d] = pc[d] /\ call'[d] = call[d] /\ answer'[d] = answer[d]
    BY <1>2 DEF Change, Goes, TypeInv, TypeOK
  <2> QED
    BY <2>1, <2>2, <2>3, SessionFrame
<1>3. ASSUME NEW c \in Calls, Logout(c) PROVE SessionInv'
  <2>1. PICK t \in Calls : t \in sessions /\ call' = [call EXCEPT ![c] = [Made("logout", c) EXCEPT !.token = t]]
    BY <1>3 DEF Logout, Authenticated
  <2>2. call'[c].token = t
    BY <2>1 DEF Made, TypeInv, TypeOK
  <2> QED
    BY <1>3, <2>1, <2>2 DEF Logout, Goes, SessionInv, Over, AnsweredChangesHold, Past, TypeInv, TypeOK
<1>4. ASSUME NEW c \in Calls, HRReset(c) PROVE SessionInv'
  BY <1>4 DEF HRReset, Revokes, counter, SessionInv, Over, AnsweredChangesHold, Past, TypeInv, TypeOK, Steps, Answers
<1>5. ASSUME NEW c \in Calls, Update(c) PROVE SessionInv'
  BY <1>5 DEF Update, Revokes, counter, SessionInv, Over, AnsweredChangesHold, Past, TypeInv, TypeOK, Steps, Answers
<1>6. ASSUME NEW c \in Calls, Deactivate(c) PROVE SessionInv'
  BY <1>6 DEF Deactivate, Revokes, counter, SessionInv, Over, AnsweredChangesHold, Past, TypeInv, TypeOK, Steps, Answers
<1>7. ASSUME NEW c \in Calls, StartWindow(c) PROVE SessionInv'
  <2>1. /\ sessions' = sessions /\ doomed' = doomed /\ scan' = scan
        /\ pc[c] \notin Past
    BY <1>7 DEF StartWindow, Goes, Past
  <2>2. /\ pc'[c] \notin {"leaving", "revoking", "revoked"}
        /\ answer'[c] # "none" => pc'[c] \in Over
    BY <1>7, <2>1 DEF StartWindow, Goes, SessionInv, Over, Past, TypeInv, TypeOK
  <2>3. \A d \in Calls \ {c} : pc'[d] = pc[d] /\ call'[d] = call[d] /\ answer'[d] = answer[d]
    BY <1>7 DEF StartWindow, Goes, TypeInv, TypeOK
  <2> QED
    BY <2>1, <2>2, <2>3, SessionFrame
<1>8. ASSUME NEW c \in Calls, Verify(c) PROVE SessionInv'
  <2>1. /\ sessions' = sessions /\ doomed' = doomed /\ scan' = scan
        /\ pc[c] \notin Past
    BY <1>8 DEF Verify, Goes, Ends, Past
  <2>2. /\ pc'[c] \notin {"leaving", "revoking", "revoked"}
        /\ answer'[c] # "none" => pc'[c] \in Over
    BY <1>8, <2>1 DEF Verify, Goes, Ends, SessionInv, Over, Past, TypeInv, TypeOK
  <2>3. \A d \in Calls \ {c} : pc'[d] = pc[d] /\ call'[d] = call[d] /\ answer'[d] = answer[d]
    BY <1>8 DEF Verify, Goes, Ends, TypeInv, TypeOK
  <2> QED
    BY <2>1, <2>2, <2>3, SessionFrame
<1>9. ASSUME NEW c \in Calls, RecordFailure(c) PROVE SessionInv'
  <2>1. CASE Counts(user.failures) >= FailureLimit
    <3>1. /\ doomed' = [doomed EXCEPT ![c] = sessions] /\ scan' = [scan EXCEPT ![c] = sessions]
          /\ pc' = [pc EXCEPT ![c] = "revoking"] /\ sessions' = sessions /\ answer' = answer
          /\ pc[c] = "mismatched"
      BY <1>9, <2>1 DEF RecordFailure, Revokes
    <3>2. \A d \in Calls \ {c} : call'[d] = call[d]
      BY <1>9, <2>1 DEF RecordFailure, TypeInv, TypeOK
    <3> QED
      BY <3>1, <3>2 DEF Over, SessionInv, AnsweredChangesHold, Past, TypeInv, TypeOK
  <2>2. CASE ~ (Counts(user.failures) >= FailureLimit)
    <3>1. /\ sessions' = sessions /\ doomed' = doomed /\ scan' = scan
          /\ pc[c] \notin Past
      BY <1>9, <2>2 DEF RecordFailure, Ends, Past
    <3>2. /\ pc'[c] \notin {"leaving", "revoking", "revoked"}
          /\ answer'[c] # "none" => pc'[c] \in Over
      BY <1>9, <2>2, <3>1 DEF RecordFailure, Ends, SessionInv, Over, Past, TypeInv, TypeOK
    <3>3. \A d \in Calls \ {c} : pc'[d] = pc[d] /\ call'[d] = call[d] /\ answer'[d] = answer[d]
      BY <1>9, <2>2 DEF RecordFailure, Ends, TypeInv, TypeOK
    <3> QED
      BY <3>1, <3>2, <3>3, SessionFrame
  <2> QED BY <2>1, <2>2
<1>10. ASSUME NEW c \in Calls, RecordSuccess(c) PROVE SessionInv'
  BY <1>10 DEF RecordSuccess, Goes, counter, SessionInv, Over, AnsweredChangesHold, Past, TypeInv, TypeOK, Steps, Answers
<1>11. ASSUME NEW c \in Calls, Save(c) PROVE SessionInv'
  BY <1>11 DEF Save, Goes, counter, SessionInv, Over, AnsweredChangesHold, Past, TypeInv, TypeOK, Steps, Answers
<1>12. ASSUME NEW c \in Calls, Welcome(c) PROVE SessionInv'
  BY <1>12 DEF Welcome, Ends, counter, SessionInv, Over, AnsweredChangesHold, Past, TypeInv, TypeOK, Steps, Answers
<1>13. ASSUME NEW c \in Calls, Replace(c) PROVE SessionInv'
  BY <1>13 DEF Replace, Revokes, counter, SessionInv, Over, AnsweredChangesHold, Past, TypeInv, TypeOK, Steps, Answers
<1>14. ASSUME NEW c \in Calls, Leave(c) PROVE SessionInv'
  BY <1>14 DEF Leave, Ends, counter, SessionInv, Over, AnsweredChangesHold, Past, TypeInv, TypeOK, Steps, Answers
<1>15. ASSUME NEW c \in Calls, Commit(c) PROVE SessionInv'
  BY <1>15 DEF Commit, Ends, Committed, counter, SessionInv, Over, AnsweredChangesHold, Past, TypeInv, TypeOK, Steps, Answers
<1>16. ASSUME NEW c \in Calls, RevokePage(c) PROVE SessionInv'
  BY <1>16 DEF RevokePage, counter, SessionInv, Over, AnsweredChangesHold, Past, TypeInv, TypeOK, Steps, Answers
<1>17. ASSUME NEW c \in Calls, RevokeDone(c) PROVE SessionInv'
  <2>1. doomed[c] \cap sessions = {}
    BY <1>17 DEF RevokeDone, SessionInv, Over
  <2>2. CASE InTransaction(c)
    <3>1. /\ pc' = [pc EXCEPT ![c] = "revoked"] /\ pc[c] = "revoking"
          /\ scan' = [scan EXCEPT ![c] = {}]
          /\ UNCHANGED <<sessions, doomed, call, answer>>
      BY <1>17, <2>2 DEF RevokeDone, Goes
    <3> QED
      BY <2>1, <3>1 DEF Over, SessionInv, AnsweredChangesHold, Past, TypeInv, TypeOK
  <2>3. CASE ~ InTransaction(c)
    <3>1. /\ pc' = [pc EXCEPT ![c] = "done"] /\ pc[c] = "revoking"
          /\ scan' = [scan EXCEPT ![c] = {}]
          /\ UNCHANGED <<sessions, doomed, call>>
          /\ \A d \in Calls \ {c} : answer'[d] = answer[d]
      BY <1>17, <2>3 DEF RevokeDone, Ends, TypeInv, TypeOK
    <3> QED
      BY <2>1, <3>1 DEF Over, SessionInv, AnsweredChangesHold, Past, TypeInv, TypeOK
  <2> QED BY <2>2, <2>3
<1>18. ASSUME NEW c \in Calls, LoginNotAudited(c) PROVE SessionInv'
  BY <1>18 DEF LoginNotAudited, Revokes, counter, SessionInv, Over, AnsweredChangesHold, Past, TypeInv, TypeOK, Steps, Answers
<1>19. ASSUME NEW c \in Calls, Fail(c) PROVE SessionInv'
  BY <1>19 DEF Fail, Ends, AnswerOfFailure, Committed, counter, SessionInv, Over, AnsweredChangesHold, Past, TypeInv, TypeOK, Steps, Answers
<1>20. ASSUME NEW c \in Calls, Expire(c) PROVE SessionInv'
  BY <1>20 DEF Expire, counter, SessionInv, Over, AnsweredChangesHold, Past, TypeInv, TypeOK, Steps, Answers
<1>21. CASE EndWindow
  BY <1>21 DEF EndWindow, WindowEnds, SessionInv, Over, AnsweredChangesHold, Past, TypeInv, TypeOK, Steps, Answers
<1>22. CASE UNCHANGED vars
  BY <1>22 DEF vars, counter, SessionInv, Over, AnsweredChangesHold, Past, TypeInv, TypeOK, Steps, Answers
<1> QED
  BY <1>1, <1>2, <1>3, <1>4, <1>5, <1>6, <1>7, <1>8, <1>9, <1>10, <1>11, <1>12,
     <1>13, <1>14, <1>15, <1>16, <1>17, <1>18, <1>19, <1>20, <1>21, <1>22 DEF Next, Step

(* Once a call that ends sessions has been answered without an error, none   *)
(* of the sessions it had to end is left, whatever ran beside it.            *)
THEOREM ChangesHold == Spec => []AnsweredChangesHold
<1>1. Init => TypeInv /\ SessionInv
  BY InitType, InitSession
<1>2. TypeInv /\ SessionInv /\ [Next]_vars => (TypeInv /\ SessionInv)'
  BY TypeStep, SessionStep
<1>3. SessionInv => AnsweredChangesHold
  BY DEF Over, SessionInv
<1> QED
  BY <1>1, <1>2, <1>3, PTL DEF Spec
=============================================================================
