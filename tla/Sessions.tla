------------------------------ MODULE Sessions ------------------------------
(***************************************************************************)
(* One account and its sessions: AuthService (login, logout, change and    *)
(* reset of the password) and the operations of EmployeeService that end   *)
(* sessions (reset by HR, update, deactivation).  The account is a row of  *)
(* PostgreSQL, the sessions are keys of Redis, one per token, and no       *)
(* transaction spans the two: every statement and command is a step, and   *)
(* what a call read before may be stale when it is used.                   *)
(***************************************************************************)
EXTENDS RateLimiter, FiniteSets

CONSTANTS
  Calls,         \* HTTP calls, each made once; a login's token is its call
  Roles,         \* roles the account may have
  FailureLimit,  \* config.Auth.LoginFailureLimit
  InitUser,      \* the account at the start
  NoCall,        \* the record of a call not made yet
  MaxFaults      \* errors of PostgreSQL or Redis, or clients that go away

VARIABLES
  user,      \* the users row and the employee's status
  sessions,  \* the keys session:<user>:<token> of Redis
  pc,        \* pc[c]: how far call c is
  call,      \* call[c]: its operation, what it read, what it writes, its answer
  scan,      \* scan[c]: the keys Revoke must still come across
  answer,    \* answer[c]: what the client was told
  doomed,    \* history: the sessions there were when c changed the account
  streak,    \* history: password checks failed since the last good one
  faults

vars == <<counter, user, sessions, pc, call, scan, answer, doomed, streak, faults>>

Operation == {"login", "change", "reset", "logout", "hr_reset", "update", "deactivate"}
Steps     == {"idle", "counted", "admitted", "matched", "mismatched", "welcome",
              "saved", "replacing", "leaving", "revoking", "revoked", "done",
              "stopped"}   \* ended between INCR and EXPIRE
Answers   == {"none", "ok", "refused", "locked", "error"}
Account   == [password : Nat, failures : Nat, locked : BOOLEAN,
              role : Roles, active : BOOLEAN]
Call      == [op : Operation, password : Nat, role : Roles,
              token : Calls, then : {"ok", "locked", "error"}]

ASSUME AccountAssumption ==
  /\ InitUser \in Account /\ InitUser.active
  /\ InitUser.failures = 0   \* locked or not: a new employee's account is locked
ASSUME SessionsAssumption ==
  /\ FailureLimit \in Nat \ {0} /\ LoginRateLimit \in Nat \ {0}
  /\ MaxFaults \in Nat /\ NoCall \notin Call

Init ==
  /\ RateInit
  /\ user = InitUser /\ sessions = {}
  /\ pc = [c \in Calls |-> "idle"] /\ call = [c \in Calls |-> NoCall]
  /\ scan = [c \in Calls |-> {}]
  /\ answer = [c \in Calls |-> "none"] /\ doomed = [c \in Calls |-> {}]
  /\ streak = {} /\ faults = 0
-----------------------------------------------------------------------------
(* Steps of a call, its answer, and the rows an open transaction holds: an  *)
(* update locks the employee and the users row, a deactivation the employee. *)

Goes(c, from, to) == pc[c] = from /\ pc' = [pc EXCEPT ![c] = to]

Ends(c, a) ==
  /\ pc' = [pc EXCEPT ![c] = "done"]
  /\ answer' = [answer EXCEPT ![c] = a]

InTransaction(c) == pc[c] \in {"revoking", "revoked"} /\ call[c].op \in {"update", "deactivate"}
UserRowFree      == \A c \in Calls : ~(InTransaction(c) /\ call[c].op = "update")
EmployeeRowFree  == \A c \in Calls : ~InTransaction(c)

Made(op, c) == [op |-> op, password |-> user.password, role |-> user.role,
                token |-> c, then |-> "ok"]

(* Authenticate: the token is signed and its key exists. *)
Authenticated(t) == t \in sessions

(* The account is changed and SessionStore.Revoke begins: the SCAN will come *)
(* across every key that is there now and stays; of a key that is saved      *)
(* meanwhile nothing is promised.                                            *)
Revokes(c) ==
  /\ pc' = [pc EXCEPT ![c] = "revoking"]
  /\ doomed' = [doomed EXCEPT ![c] = sessions]
  /\ scan' = [scan EXCEPT ![c] = sessions]
-----------------------------------------------------------------------------
(* The public rate limit, of login and of self-service reset *)

Arrive(c) ==
  /\ pc[c] = "idle"
  /\ \E op \in {"login", "reset"} : call' = [call EXCEPT ![c] = Made(op, c)]
  /\ Incr
  /\ \/ counted' = 1 /\ Goes(c, "idle", "counted") /\ UNCHANGED answer
     \/ counted' # 1 /\ Allows(counted') /\ Goes(c, "idle", "admitted") /\ UNCHANGED answer
     \/ ~ Allows(counted') /\ Ends(c, "refused")
  /\ UNCHANGED <<user, sessions, scan, doomed, streak, faults>>

StartWindow(c) ==
  /\ Goes(c, "counted", "admitted")
  /\ SetExpiry
  /\ UNCHANGED <<user, sessions, call, scan, answer, doomed, streak, faults>>

EndWindow ==
  /\ WindowEnds
  /\ UNCHANGED <<user, sessions, pc, call, scan, answer, doomed, streak, faults>>
-----------------------------------------------------------------------------
(* Reading the account and verifying the password that was typed; whether it *)
(* matches is the client's choice, and is settled against what was read.     *)

(* Login refuses a locked or an inactive account, a reset an inactive one. *)
Admits(op) == user.active /\ (op = "login" => ~user.locked)

Verify(c) ==
  LET op == call[c].op
  IN /\ pc[c] = "admitted"
     /\ call' = [call EXCEPT ![c] = Made(op, c)]
     /\ \/ /\ Admits(op)
           /\ \/ Goes(c, "admitted", IF op = "login" THEN "matched" ELSE "replacing")
              \/ Goes(c, "admitted", "mismatched")
           /\ UNCHANGED answer
        \/ Ends(c, "refused")   \* also: unknown e-mail, new password unchanged
     /\ UNCHANGED <<counter, user, sessions, scan, doomed, streak, faults>>

(* ChangePassword, by a session; neither lock nor status is looked at *)
Change(c) ==
  /\ \E t \in Calls : Authenticated(t)
  /\ call' = [call EXCEPT ![c] = Made("change", c)]
  /\ Goes(c, "idle", "replacing") \/ Goes(c, "idle", "mismatched")
  /\ UNCHANGED <<counter, user, sessions, scan, answer, doomed, streak, faults>>

(* A wrong count: written from what was read before the check. *)
CountsFromRead(failures) == 1

(* A wrong count: of the attempts that remain. *)
CountsDown(failures) == failures - 1

(* The statement adds to the row as it finds it. *)
Counts(failures) == failures + 1

(* RecordFailedLogin; the failure that reaches the limit ends the sessions. *)
RecordFailure(c) ==
  LET failures == Counts(user.failures)
      locks    == failures >= FailureLimit
  IN /\ pc[c] = "mismatched" /\ UserRowFree
     /\ user' = [user EXCEPT !.failures = failures, !.locked = locks]
     /\ streak' = streak \cup {c}
     /\ IF locks
        THEN /\ Revokes(c)
             /\ call' = [call EXCEPT ![c].then = "locked"]
             /\ UNCHANGED answer
        ELSE Ends(c, "refused") /\ UNCHANGED <<call, scan, doomed>>
     /\ UNCHANGED <<counter, sessions, faults>>

(* RecordSuccessfulLogin: without a condition, whatever happened meanwhile *)
RecordSuccess(c) ==
  /\ Goes(c, "matched", "welcome") /\ UserRowFree
  /\ user' = [user EXCEPT !.failures = 0, !.locked = FALSE]
  /\ streak' = {}
  /\ UNCHANGED <<counter, sessions, call, scan, answer, doomed, faults>>

(* Issue a token for the role that was read, and save its session. *)
Save(c) ==
  /\ Goes(c, "welcome", "saved")
  /\ sessions' = sessions \cup {c}
  /\ UNCHANGED <<counter, user, call, scan, answer, doomed, streak, faults>>

Welcome(c) ==
  /\ pc[c] = "saved" /\ Ends(c, "ok")
  /\ UNCHANGED <<counter, user, sessions, call, scan, doomed, streak, faults>>

(* The audit entry of a login fails: every session of the account is revoked. *)
LoginNotAudited(c) ==
  /\ pc[c] = "saved" /\ faults < MaxFaults
  /\ faults' = faults + 1
  /\ Revokes(c)
  /\ call' = [call EXCEPT ![c].then = "error"]
  /\ UNCHANGED <<counter, user, sessions, answer, streak>>

(* UpdatePassword, after the current one was verified *)
Replace(c) ==
  /\ pc[c] = "replacing" /\ UserRowFree
  /\ user' = [user EXCEPT !.password = @ + 1, !.failures = 0, !.locked = FALSE]
  /\ streak' = {}
  /\ Revokes(c)
  /\ UNCHANGED <<counter, sessions, call, answer, faults>>
-----------------------------------------------------------------------------
Logout(c) ==
  /\ \E t \in Calls :
       /\ Authenticated(t)
       /\ call' = [call EXCEPT ![c] = [Made("logout", c) EXCEPT !.token = t]]
  /\ Goes(c, "idle", "leaving")
  /\ UNCHANGED <<counter, user, sessions, scan, answer, doomed, streak, faults>>

(* RevokeToken: the key of this token and no other *)
Leave(c) ==
  /\ pc[c] = "leaving" /\ Ends(c, "ok")
  /\ sessions' = sessions \ {call[c].token}
  /\ doomed' = [doomed EXCEPT ![c] = {call[c].token}]
  /\ UNCHANGED <<counter, user, call, scan, streak, faults>>
-----------------------------------------------------------------------------
(* EmployeeService: HR resets the password, in a transaction that ends       *)
(* before the revocation; an update of the e-mail or the role and a          *)
(* deactivation revoke inside theirs, before it commits.                     *)

HRReset(c) ==
  /\ pc[c] = "idle" /\ user.active /\ UserRowFree
  /\ user' = [user EXCEPT !.password = @ + 1, !.failures = 0, !.locked = FALSE]
  /\ streak' = {}
  /\ Revokes(c)
  /\ call' = [call EXCEPT ![c] = Made("hr_reset", c)]
  /\ UNCHANGED <<counter, sessions, answer, faults>>

(* the same role: the e-mail changes *)
Update(c) ==
  /\ pc[c] = "idle" /\ user.active /\ EmployeeRowFree
  /\ \E r \in Roles : call' = [call EXCEPT ![c] = [Made("update", c) EXCEPT !.role = r]]
  /\ Revokes(c)
  /\ UNCHANGED <<counter, user, sessions, answer, streak, faults>>

(* also: an update of the status to nonaktif *)
Deactivate(c) ==
  /\ pc[c] = "idle" /\ user.active /\ EmployeeRowFree
  /\ call' = [call EXCEPT ![c] = Made("deactivate", c)]
  /\ Revokes(c)
  /\ UNCHANGED <<counter, user, sessions, answer, streak, faults>>

Committed(c) == IF call[c].op = "update" THEN [user EXCEPT !.role = call[c].role]
                ELSE [user EXCEPT !.active = FALSE]

Commit(c) ==
  /\ pc[c] = "revoked" /\ Ends(c, "ok")
  /\ user' = Committed(c)
  /\ UNCHANGED <<counter, sessions, call, scan, doomed, streak, faults>>
-----------------------------------------------------------------------------
(* SessionStore.Revoke: SCAN and UNLINK, page by page *)

RevokePage(c) ==
  /\ pc[c] = "revoking"
  /\ \E page \in SUBSET sessions :
       /\ page # {}
       /\ sessions' = sessions \ page
  /\ UNCHANGED <<counter, user, pc, call, scan, answer, doomed, streak, faults>>

RevokeDone(c) ==
  /\ pc[c] = "revoking" /\ scan[c] \cap sessions = {}
  /\ scan' = [scan EXCEPT ![c] = {}]
  /\ IF InTransaction(c)
     THEN Goes(c, "revoking", "revoked") /\ UNCHANGED answer
     ELSE Ends(c, call[c].then)
  /\ UNCHANGED <<counter, user, sessions, call, doomed, streak, faults>>

(* A wrong answer: an error of the revocation is logged and nothing else. *)
AnswersAnyway(c) == IF pc[c] = "revoking" THEN call[c].then ELSE "error"

(* An error of the database or of Redis, or a client that goes away, ends the *)
(* call where it is; what its transaction wrote is rolled back.  The last     *)
(* command, an EXPIRE, a logout or a commit, may have taken effect unheard.   *)
AnswerOfFailure(c) == "error"

Fail(c) ==
  /\ pc[c] \notin {"idle", "done", "stopped"} /\ faults < MaxFaults
  /\ faults' = faults + 1
  /\ \/ UNCHANGED <<counter, user, sessions>>
     \/ pc[c] = "counted" /\ SetExpiry /\ UNCHANGED <<user, sessions>>
     \/ /\ pc[c] = "leaving" /\ sessions' = sessions \ {call[c].token}
        /\ UNCHANGED <<counter, user>>
     \/ pc[c] = "revoked" /\ user' = Committed(c) /\ UNCHANGED <<counter, sessions>>
  /\ pc' = [pc EXCEPT ![c] = IF @ = "counted" /\ ~ expires' THEN "stopped" ELSE "done"]
  /\ answer' = [answer EXCEPT ![c] = AnswerOfFailure(c)]
  /\ scan' = [scan EXCEPT ![c] = {}]
  /\ UNCHANGED <<call, doomed, streak>>

(* Redis drops a key when the time to live of its token is over. *)
Expire(t) ==
  /\ t \in sessions
  /\ sessions' = sessions \ {t}
  /\ UNCHANGED <<counter, user, pc, call, scan, answer, doomed, streak, faults>>

Step(c) ==
  \/ StartWindow(c) \/ Verify(c) \/ RecordFailure(c) \/ RecordSuccess(c)
  \/ Save(c) \/ Welcome(c) \/ Replace(c) \/ Leave(c) \/ Commit(c)
  \/ RevokePage(c) \/ RevokeDone(c)

Next ==
  \/ \E c \in Calls :
       \/ Arrive(c) \/ Change(c) \/ Logout(c)
       \/ HRReset(c) \/ Update(c) \/ Deactivate(c)
       \/ Step(c) \/ LoginNotAudited(c) \/ Fail(c)
       \/ Expire(c)
  \/ EndWindow

Spec == Init /\ [][Next]_vars

-----------------------------------------------------------------------------
(* Types; a counter of failures is never above the number of calls. *)
TypeOK ==
  /\ RateTypeOK
  /\ user \in Account /\ sessions \subseteq Calls
  /\ pc \in [Calls -> Steps] /\ call \in [Calls -> Call \cup {NoCall}]
  /\ scan \in [Calls -> SUBSET Calls] /\ answer \in [Calls -> Answers]
  /\ doomed \in [Calls -> SUBSET Calls] /\ streak \subseteq Calls
  /\ faults \in 0..MaxFaults

(* Once a call that ends sessions has been answered without an error (a new  *)
(* password, an update, a deactivation, the lock, a logout), none of the     *)
(* sessions it had to end is left: those that were there when it changed the *)
(* account.  A login that verified the password before may still save its    *)
(* session afterwards (SessionStore.Revoke promises nothing of it).          *)
AnsweredChangesHold ==
  \A c \in Calls : answer[c] \in {"ok", "locked"} => doomed[c] \cap sessions = {}

(* No failed password check is lost or counted twice however many run at     *)
(* once, and the account is locked when, and except for a new employee's     *)
(* only when, the limit is reached.                                          *)
FailuresAreCounted ==
  /\ user.failures = Cardinality(streak)
  /\ Cardinality(streak) >= FailureLimit => user.locked
  /\ user.locked /\ streak # {} => Cardinality(streak) >= FailureLimit

(* The calls whose INCR made a counter and whose EXPIRE did not reach it *)
Openers == {c \in Calls : pc[c] \in {"counted", "stopped"}}

(* A counter has a time to live, or exactly one call is the reason that it    *)
(* has none: the one that made it, and is between INCR and EXPIRE or stopped  *)
(* there.  No call that stops elsewhere, and none that found the counter      *)
(* there, leaves one that refuses for good; and no call gives a time to live  *)
(* to a counter that has one, or that another call made (RateLimiter.Allow).  *)
CountersEnd ==
  IF counted # 0 /\ ~ expires THEN \E c \in Calls : Openers = {c} ELSE Openers = {}
=============================================================================
