-------------------------- MODULE ApprovalWorkflow --------------------------
(***************************************************************************)
(* Leave and overtime requests from submission to their final decision:    *)
(* LeaveService and OvertimeService (calls of HTTP handlers, any number at *)
(* a time), the escalation worker, the notifications they publish, and the *)
(* employee and leave type edits that happen meanwhile.                    *)
(*                                                                         *)
(* PostgreSQL runs every transaction at READ COMMITTED.  What a            *)
(* transaction has written and not committed is visible to nobody else, so *)
(* it is kept in the record of the call and applied by the commit action;  *)
(* the row locks it holds meanwhile are derived from those records.  What  *)
(* a call read before it held a lock is kept in its record too, and may be *)
(* stale when it is used.                                                  *)
(***************************************************************************)
EXTENDS ApprovalRules, NotificationPublisher, Integers, Sequences, FiniteSets

CONSTANTS
  Requests,    \* the requests that may be submitted
  Owner,       \* Owner[r]: the user who submits r
  Kind,        \* Kind[r]: "leave" or "overtime"
  LeaveTypes,  \* jenis izin
  TypeOf,      \* TypeOf[r]: the leave type of a leave request
  Days,        \* Days[r]: its working days
  Accounts,    \* leave_balances rows: user, type and year
  Account,     \* Account[r]: the row r is charged to, or NoRow
  NoRow,       \* there is no balance row for this user, type and year
  Opening,     \* Opening[a]: saldo_awal
  Calls,       \* HTTP calls that can be in progress at the same time
  NoCall,      \* the record of an idle call
  Jobs,        \* escalation jobs that can run at the same time
  JobKind,     \* JobKind[j]: the request table a job works on
  Batch,       \* EscalationJob.batchSize
  InitStaff,   \* the employee directory at the start
  InitTypes,   \* the leave types at the start
  Quotas,      \* kuota_tahunan values an edit may set
  Limits,      \* maksimal_hari values an edit may set; 0 is NULL
  MaxStaffEdits, MaxTypeEdits, MaxFaults  \* bounds on the environment

VARIABLES
  staff,      \* staff[u]: role, atasan_id, and whether not soft-deleted
  leaveType,  \* leaveType[t]: the leave_types row
  status,     \* status[r]: leave_requests.status, overtime_requests.status
  overdue,    \* requests created more than EscalationThreshold ago
  history,    \* history[r]: leave_approvals, overtime_approvals
  used,       \* used[a]: leave_balances.saldo_terpakai
  inbox,      \* the notifications table
  pc,         \* pc[c]: how far call c is
  call,       \* call[c]: what call c knows, read and wrote so far
  claim,      \* claim[j]: requests locked by the open transaction of job j
  staffEdits, typeEdits, faults  \* how often the environment has acted

directory == <<staff, leaveType, staffEdits, typeEdits>>
tables    == <<status, history, used, inbox>>
vars      == <<directory, tables, overdue, pc, call, claim, faults>>

Staff     == [role : Roles, boss : Users \cup {NoUser}, active : BOOLEAN]
LeaveType == [quota : Nat, category : {"cuti", "izin"}, limit : Nat, active : BOOLEAN]
Operation == {"submit", "approve", "reject", "delegate"}
Call      == [op : Operation, actor : Users, as : Roles, req : Requests,
              boss : Users \cup {NoUser}, charge : BOOLEAN, at : Statuses]
Steps     == {"idle", "routed", "called", "waiting", "locked", "charged"}
Entry     == [stage : Stages, by : Users \cup {NoUser}, decision : Decisions]

(* leave_types_limit_check: only izin has a limit per request *)
LimitCheck(t) == (t.category = "izin") <=> (t.limit > 0)

ASSUME NullsAssumption  == NoUser \notin Users /\ NoRow \notin Accounts /\ NoCall \notin Call
ASSUME RequestAssumption ==
  /\ Owner \in [Requests -> Users]
  /\ Kind \in [Requests -> {"leave", "overtime"}]
  /\ TypeOf \in [Requests -> LeaveTypes]
  /\ Days \in [Requests -> Nat \ {0}]
  /\ Account \in [Requests -> Accounts \cup {NoRow}]
  /\ Opening \in [Accounts -> Nat]
ASSUME JobAssumption    == JobKind \in [Jobs -> {"leave", "overtime"}] /\ Batch \in Nat \ {0}
ASSUME StaffAssumption  ==
  /\ InitStaff \in [Users -> Staff]
  /\ \A u \in Users : InitStaff[u].boss # u
ASSUME TypesAssumption  ==
  /\ InitTypes \in [LeaveTypes -> LeaveType]
  /\ \A t \in LeaveTypes : LimitCheck(InitTypes[t])
  /\ Quotas \subseteq Nat /\ Limits \subseteq Nat
ASSUME BoundsAssumption ==
  MaxStaffEdits \in Nat /\ MaxTypeEdits \in Nat /\ MaxFaults \in Nat

Init ==
  /\ staff = InitStaff /\ leaveType = InitTypes
  /\ status = [r \in Requests |-> "belum_ada"]
  /\ history = [r \in Requests |-> <<>>]
  /\ used = [a \in Accounts |-> 0]
  /\ inbox = {} /\ overdue = {}
  /\ pc = [c \in Calls |-> "idle"] /\ call = [c \in Calls |-> NoCall]
  /\ claim = [j \in Jobs |-> {}]
  /\ staffEdits = 0 /\ typeEdits = 0 /\ faults = 0
-----------------------------------------------------------------------------
(* Row locks: a decision holds its request from LockRequestForDecision, and *)
(* its balance row from the deduction, to the end of its transaction; a job *)
(* holds what it claimed.                                                   *)

Holds(c, r) == pc[c] \in {"locked", "charged"} /\ call[c].req = r

(* Two wrong locks: the worker selects without FOR UPDATE; the handlers do. *)
RowLockedByCalls(r) == \E c \in Calls : Holds(c, r)
RowLockedByJobs(r)  == \E j \in Jobs : r \in claim[j]

RowLocked(r) ==
  (\E c \in Calls : Holds(c, r)) \/ (\E j \in Jobs : r \in claim[j])

(* A wrong deduction: saldo_sisa read and written without a row lock. *)
BalanceNeverLocked(a) == FALSE

BalanceLocked(a) ==
  \E c \in Calls : pc[c] = "charged" /\ Account[call[c].req] = a

Enters(c, from, to) == pc[c] = from /\ pc' = [pc EXCEPT ![c] = to]

(* A wrong end: the record of the call outlives it. *)
EndsKeepingRecord(c) == pc' = [pc EXCEPT ![c] = "idle"] /\ UNCHANGED call

Ends(c) ==
  /\ pc' = [pc EXCEPT ![c] = "idle"]
  /\ call' = [call EXCEPT ![c] = NoCall]
-----------------------------------------------------------------------------
(* Create.  The role, the supervisor and the leave type are read, and the  *)
(* request is routed, before the transaction that inserts it.              *)

Route(c, r) ==
  LET u == Owner[r] IN
  /\ staff[u].active
  /\ status[r] = "belum_ada"
  /\ \A d \in Calls : pc[d] = "routed" => call[d].req # r
  /\ Enters(c, "idle", "routed")
  /\ \E s \in InitialStatusForRole(staff[u].role, staff[u].boss # NoUser) :
       call' = [call EXCEPT ![c] =
                  [op |-> "submit", actor |-> u, as |-> staff[u].role, req |-> r,
                   boss |-> staff[u].boss, charge |-> FALSE, at |-> s]]
  /\ UNCHANGED <<directory, tables, overdue, claim, faults>>

(* the quota bounds one request; the balance is not looked at yet *)
RouteLeave(c, r) ==
  LET t == leaveType[TypeOf[r]] IN
  /\ Kind[r] = "leave"
  /\ t.active
  /\ t.category = "izin" /\ t.limit > 0 => Days[r] <= t.limit
  /\ t.quota > 0 => Days[r] <= t.quota
  /\ Route(c, r)

RouteOvertime(c, r) == Kind[r] = "overtime" /\ Route(c, r)

(* the transaction of Create: the row, and the approvers it waits for *)
CommitSubmission(c) ==
  LET r == call[c].req
      u == call[c].actor IN
  /\ pc[c] = "routed"
  /\ status' = [status EXCEPT ![r] = call[c].at]
  /\ inbox' = Insert(inbox, ApproverDrafts(staff, Kind[r], r, u, u,
                                           StageForStatus(call[c].at)))
  /\ Ends(c)
  /\ UNCHANGED <<directory, history, used, overdue, claim, faults>>
-----------------------------------------------------------------------------
(* Decide and Delegate.  The role comes with the session; the supervisor,  *)
(* the quota and the category come from the snapshot of the statement that *)
(* locks the request; only the status is as fresh as the lock (FOR UPDATE  *)
(* OF lr re-reads the locked row alone).                                   *)

(* A karyawan is refused by CanDecide at every status, without an effect. *)
Begin(c, u, r, op) ==
  /\ staff[u].active /\ staff[u].role # "karyawan"
  /\ status[r] # "belum_ada"
  /\ Enters(c, "idle", "called")
  /\ call' = [call EXCEPT ![c] =
                [op |-> op, actor |-> u, as |-> staff[u].role, req |-> r,
                 boss |-> NoUser, charge |-> FALSE, at |-> "belum_ada"]]
  /\ UNCHANGED <<directory, tables, overdue, claim, faults>>

BeginDecide(c, u, r) == \E op \in {"approve", "reject"} : Begin(c, u, r, op)

(* only leave can be delegated, and only by the role atasan *)
BeginDelegate(c, u, r) ==
  Kind[r] = "leave" /\ staff[u].role = "atasan" /\ Begin(c, u, r, "delegate")

Chargeable(t) == t.category # "izin" /\ t.quota > 0

(* the locking statement starts: its snapshot of the joined rows *)
ReadForDecision(c, charge) ==
  /\ Enters(c, "called", "waiting")
  /\ call' = [call EXCEPT ![c].boss = staff[Owner[call[c].req]].boss,
                          ![c].charge = charge]
  /\ UNCHANGED <<directory, tables, overdue, claim, faults>>

ReadLeaveForDecision(c) ==
  /\ pc[c] = "called" /\ Kind[call[c].req] = "leave"
  /\ ReadForDecision(c, Chargeable(leaveType[TypeOf[call[c].req]]))

ReadOvertimeForDecision(c) ==
  /\ pc[c] = "called" /\ Kind[call[c].req] = "overtime"
  /\ ReadForDecision(c, FALSE)

MayDecide(c) ==
  /\ call[c].op \in {"approve", "reject"}
  /\ status[call[c].req] \in Pending
  /\ CanDecide(call[c].as, status[call[c].req])
  /\ call[c].as = "atasan" => call[c].boss = call[c].actor

MayDelegate(c) ==
  /\ call[c].op = "delegate"
  /\ status[call[c].req] = "menunggu_atasan"
  /\ call[c].boss = call[c].actor

(* LockRequestForDecision returns, and the checks under the lock pass *)
LockRequest(c) ==
  /\ Enters(c, "waiting", "locked")
  /\ ~RowLocked(call[c].req)
  /\ MayDecide(c) \/ MayDelegate(c)
  /\ call' = [call EXCEPT ![c].at = status[call[c].req]]
  /\ UNCHANGED <<directory, tables, overdue, claim, faults>>

(* ErrAlreadyDecided or ErrForbidden: the lock is released at once *)
Refuse(c) ==
  /\ pc[c] = "waiting"
  /\ ~RowLocked(call[c].req)
  /\ ~(MayDecide(c) \/ MayDelegate(c))
  /\ Ends(c)
  /\ UNCHANGED <<directory, tables, overdue, claim, faults>>

NextStatus(c) ==
  CASE call[c].op = "approve"  -> NextStatusAfterApprove(call[c].at)
    [] call[c].op = "reject"   -> "ditolak"
    [] call[c].op = "delegate" -> "menunggu_hr"
    [] OTHER                   -> call[c].at

(* Two wrong rules: every stage's approval is charged; every final decision. *)
MustChargeEveryStage(c) == call[c].op = "approve" /\ call[c].charge
MustChargeSettled(c)    == NextStatus(c) \in Settled /\ call[c].charge

(* the final approval of a chargeable leave *)
MustCharge(c) == NextStatus(c) = "disetujui" /\ call[c].charge

(* DeductLeaveTypeBalance finds the row, and saldo_sisa >= days *)
Affordable(r) ==
  /\ Account[r] \in Accounts
  /\ used[Account[r]] + Days[r] <= Opening[Account[r]]

(* A wrong deduction: it adds up the requests charged to the row, FOR UPDATE. *)
DeductFromRequests(c) ==
  LET r == call[c].req IN
  /\ Enters(c, "locked", "charged")
  /\ MustCharge(c)
  /\ Affordable(r)
  /\ \A s \in Requests \ {r} : Account[s] = Account[r] => ~RowLocked(s)
  /\ UNCHANGED <<directory, tables, overdue, call, claim, faults>>

(* the UPDATE waits for the row lock and then sees the committed balance *)
Deduct(c) ==
  LET r == call[c].req IN
  /\ Enters(c, "locked", "charged")
  /\ MustCharge(c)
  /\ ~BalanceLocked(Account[r])
  /\ Affordable(r)
  /\ UNCHANGED <<directory, tables, overdue, call, claim, faults>>

(* RowsAffected = 0: ErrInsufficientLeaveBalance rolls everything back *)
InsufficientBalance(c) ==
  LET r == call[c].req IN
  /\ pc[c] = "locked"
  /\ MustCharge(c)
  /\ ~BalanceLocked(Account[r])
  /\ ~Affordable(r)
  /\ Ends(c)
  /\ UNCHANGED <<directory, tables, overdue, claim, faults>>

(* what every deciding transaction writes: the conditional status update   *)
(* (WHERE status = at), one history entry, and notifications               *)
Settle(c, drafts) ==
  LET r == call[c].req IN
  /\ status[r] = call[c].at
  /\ status' = [status EXCEPT ![r] = NextStatus(c)]
  /\ history' = [history EXCEPT ![r] =
                   Append(@, [stage    |-> StageForStatus(call[c].at),
                              by       |-> call[c].actor,
                              decision |-> call[c].op])]
  /\ inbox' = Insert(inbox, drafts)
  /\ Ends(c)
  /\ UNCHANGED <<directory, overdue, claim, faults>>

DecisionEvent(c) ==
  LET r == call[c].req IN
  DecisionDrafts(staff, Kind[r], r, Owner[r], call[c].actor,
                 StageForStatus(call[c].at), NextStatus(c))

IsDecision(c) == call[c].op \in {"approve", "reject"}

(* Decide commits: the deduction, if any, with the rest *)
CommitLeaveDecision(c) ==
  LET r == call[c].req IN
  /\ pc[c] \in {"locked", "charged"}
  /\ IsDecision(c) /\ Kind[r] = "leave"
  /\ Settle(c, DecisionEvent(c))
  /\ \/ /\ pc[c] = "locked" /\ ~MustCharge(c)
        /\ UNCHANGED used
     \/ /\ pc[c] = "charged"
        /\ used' = [used EXCEPT ![Account[r]] = @ + Days[r]]

CommitOvertimeDecision(c) ==
  /\ pc[c] = "locked"
  /\ IsDecision(c) /\ Kind[call[c].req] = "overtime"
  /\ Settle(c, DecisionEvent(c))
  /\ UNCHANGED used

CommitDelegation(c) ==
  LET r == call[c].req IN
  /\ pc[c] = "locked"
  /\ call[c].op = "delegate"
  /\ Settle(c, HandoffDrafts(staff, "delegated", r, Owner[r], call[c].actor))
  /\ UNCHANGED used

(* Within rolls back: an error of any statement, of the publication or of  *)
(* the commit, or the end of the process or the connection                 *)
Rollback(c) ==
  /\ pc[c] \in {"routed", "locked", "charged"}
  /\ faults < MaxFaults /\ faults' = faults + 1
  /\ Ends(c)
  /\ UNCHANGED <<directory, tables, overdue, claim>>
-----------------------------------------------------------------------------
(* The escalation worker: one transaction claims a batch of overdue        *)
(* requests that nobody has locked, and hands all of them to HR.           *)

(* 2 x 24 hours have passed since r was created *)
SlaExpires(r) ==
  /\ status[r] = "menunggu_atasan" /\ r \notin overdue
  /\ overdue' = overdue \cup {r}
  /\ UNCHANGED <<directory, tables, pc, call, claim, faults>>

(* A wrong query: joined with the active supervisor. *)
EscalatableOfActive(j) ==
  {r \in overdue : /\ Kind[r] = JobKind[j]
                   /\ status[r] = "menunggu_atasan"
                   /\ ApproverUserIDs(staff, "atasan", Owner[r]) # {}
                   /\ ~RowLocked(r)}

Escalatable(j) ==
  {r \in overdue : /\ Kind[r] = JobKind[j]
                   /\ status[r] = "menunggu_atasan"
                   /\ ~RowLocked(r)}

(* ClaimEscalatableRequests: LIMIT batch FOR UPDATE SKIP LOCKED; which of  *)
(* the overdue ones are older is not modelled                              *)
ClaimEscalatableRequests(j) ==
  /\ claim[j] = {}
  /\ \E S \in SUBSET Escalatable(j) :
       /\ Cardinality(S) = IF Cardinality(Escalatable(j)) < Batch
                           THEN Cardinality(Escalatable(j)) ELSE Batch
       /\ S # {}
       /\ claim' = [claim EXCEPT ![j] = S]
  /\ UNCHANGED <<directory, tables, overdue, pc, call, faults>>

(* escalate, for each candidate, and the commit *)
CommitEscalation(j) ==
  /\ claim[j] # {}
  /\ \A r \in claim[j] : status[r] = "menunggu_atasan"
  /\ status' = [r \in Requests |-> IF r \in claim[j] THEN "menunggu_hr" ELSE status[r]]
  /\ history' = [r \in Requests |->
       IF r \in claim[j]
       THEN Append(history[r], [stage |-> "atasan", by |-> NoUser,
                                decision |-> "auto_escalate"])
       ELSE history[r]]
  /\ inbox' = Insert(inbox, UNION {HandoffDrafts(staff, "auto_escalated", r,
                                                 Owner[r], NoUser) : r \in claim[j]})
  /\ claim' = [claim EXCEPT ![j] = {}]
  /\ UNCHANGED <<directory, used, overdue, pc, call, faults>>

(* one failing candidate, or the end of the process, loses the whole batch *)
RollbackEscalation(j) ==
  /\ claim[j] # {}
  /\ faults < MaxFaults /\ faults' = faults + 1
  /\ claim' = [claim EXCEPT ![j] = {}]
  /\ UNCHANGED <<directory, tables, overdue, pc, call>>
-----------------------------------------------------------------------------
(* Edits by HR, each one transaction. *)

HRIsActing == \E h \in Users : staff[h].active /\ staff[h].role = "hr"

EditStaff(u, new) ==
  /\ HRIsActing
  /\ staff[u].active                    \* deleted_at IS NULL
  /\ staff[u] # new
  /\ staffEdits < MaxStaffEdits /\ staffEdits' = staffEdits + 1
  /\ staff' = [staff EXCEPT ![u] = new]
  /\ UNCHANGED <<leaveType, typeEdits, tables, overdue, pc, call, claim, faults>>

(* EmployeeService.Update: atasan_id (somebody else, and active), the role *)
(* (enforce_single_top_management), or the status nonaktif, which deletes  *)
UpdateEmployee(u) ==
  \E role \in Roles, boss \in Users \cup {NoUser}, active \in BOOLEAN :
    /\ boss # u
    /\ boss \in {staff[u].boss, NoUser} \cup {v \in Users : staff[v].active}
    /\ role = "top_management" /\ role # staff[u].role =>
         \A v \in Users : staff[v].role # "top_management"
    /\ EditStaff(u, [role |-> role, boss |-> boss, active |-> active])

(* EmployeeService.Deactivate: subordinates keep their atasan_id *)
Deactivate(u) == EditStaff(u, [staff[u] EXCEPT !.active = FALSE])

(* LeaveService.UpdateLeaveType: any field, the category included; only   *)
(* maksimal_hari, once set, cannot be set to NULL again (the handler takes *)
(* null for "unchanged")                                                   *)
UpdateLeaveType(t) ==
  \E new \in [quota : Quotas, category : {"cuti", "izin"},
              limit : Limits, active : BOOLEAN] :
    /\ HRIsActing
    /\ LimitCheck(new)
    /\ new.limit = 0 => leaveType[t].limit = 0
    /\ new # leaveType[t]
    /\ typeEdits < MaxTypeEdits /\ typeEdits' = typeEdits + 1
    /\ leaveType' = [leaveType EXCEPT ![t] = new]
    /\ UNCHANGED <<staff, staffEdits, tables, overdue, pc, call, claim, faults>>
-----------------------------------------------------------------------------
Submission(c) ==
  \/ \E r \in Requests : RouteLeave(c, r) \/ RouteOvertime(c, r)
  \/ CommitSubmission(c)

Request(c) == \E u \in Users, r \in Requests : BeginDecide(c, u, r) \/ BeginDelegate(c, u, r)

Decision(c) ==
  \/ ReadLeaveForDecision(c) \/ ReadOvertimeForDecision(c)
  \/ LockRequest(c) \/ Refuse(c)
  \/ Deduct(c) \/ InsufficientBalance(c)
  \/ CommitLeaveDecision(c) \/ CommitOvertimeDecision(c) \/ CommitDelegation(c)

Escalation(j) ==
  ClaimEscalatableRequests(j) \/ CommitEscalation(j) \/ RollbackEscalation(j)

Edit ==
  \/ \E u \in Users : UpdateEmployee(u) \/ Deactivate(u)
  \/ \E t \in LeaveTypes : UpdateLeaveType(t)

Next ==
  \/ \E c \in Calls : Submission(c) \/ Request(c) \/ Decision(c) \/ Rollback(c)
  \/ \E j \in Jobs : Escalation(j)
  \/ \E r \in Requests : SlaExpires(r)
  \/ Edit

Spec == Init /\ [][Next]_vars

(***************************************************************************)
(* Fairness.  The server runs every handler it has accepted to its end     *)
(* (CallStep); PostgreSQL queues the waiters of a row lock, so a lock that *)
(* is free again and again is got in the end (the strong conditions); the  *)
(* worker's ticker starts the escalation job again and again, and each run *)
(* comes to its commit unless it is rolled back; time passes.  Nothing     *)
(* obliges a user to submit, decide or edit, nor a fault to happen.        *)
(***************************************************************************)
LockStep(c) == LockRequest(c) \/ Refuse(c) \/ Deduct(c) \/ InsufficientBalance(c)

CallStep(c) ==
  \/ CommitSubmission(c)
  \/ ReadLeaveForDecision(c) \/ ReadOvertimeForDecision(c)
  \/ CommitLeaveDecision(c) \/ CommitOvertimeDecision(c) \/ CommitDelegation(c)

Fairness ==
  /\ \A c \in Calls : WF_vars(CallStep(c)) /\ SF_vars(LockStep(c))
  /\ \A j \in Jobs : /\ WF_vars(ClaimEscalatableRequests(j))
                     /\ WF_vars(CommitEscalation(j))
  /\ \A r \in Requests : WF_vars(SlaExpires(r))

FairSpec == Spec /\ Fairness
-----------------------------------------------------------------------------
(* Type correctness: every table row, call record and claim has the columns *)
(* the code gives it, and a call has a record exactly while it runs.        *)
TypeOK ==
  /\ staff \in [Users -> Staff]
  /\ leaveType \in [LeaveTypes -> LeaveType]
  /\ status \in [Requests -> Statuses]
  /\ overdue \in SUBSET Requests
  /\ history \in [Requests -> Seq(Entry)]
  /\ used \in [Accounts -> Nat]
  /\ inbox \subseteq [type : Notifications, ref : Requests, stage : Stages, to : Users]
  /\ pc \in [Calls -> Steps]
  /\ call \in [Calls -> Call \cup {NoCall}]
  /\ \A c \in Calls : pc[c] = "idle" <=> call[c] = NoCall
  /\ claim \in [Jobs -> SUBSET Requests]
  /\ staffEdits \in Nat /\ typeEdits \in Nat /\ faults \in Nat

(* Mutual exclusion: of all decisions, delegations and escalations in       *)
(* progress, at most one has got as far as changing a given request; the    *)
(* FOR UPDATE of the handlers and the FOR UPDATE SKIP LOCKED of the worker  *)
(* exclude each other, on the promise of LeaveService.Decide that of two    *)
(* competing decisions only one wins.                                       *)
OneWriterPerRequest ==
  \A r \in Requests :
    /\ \A c, d \in Calls : Holds(c, r) /\ Holds(d, r) => c = d
    /\ \A i, j \in Jobs : r \in claim[i] /\ r \in claim[j] => i = j
    /\ \A c \in Calls, j \in Jobs : ~(Holds(c, r) /\ r \in claim[j])

(* The checks made under the lock still hold when the transaction commits:  *)
(* the status a decision was validated against, or a job claimed, is the    *)
(* status it replaces, so the conditional update never loses.               *)
DecidesWhatItRead ==
  /\ \A c \in Calls : pc[c] \in {"locked", "charged"} =>
       /\ status[call[c].req] = call[c].at
       /\ CanDecide(call[c].as, call[c].at)
  /\ \A j \in Jobs : \A r \in claim[j] : status[r] = "menunggu_atasan"

(* what an entry of the history leaves the request at *)
Outcome(e) ==
  IF e.decision = "reject" THEN "ditolak"
  ELSE IF e.stage = "atasan" THEN "menunggu_hr" ELSE "disetujui"

(* status s is what history h led to: without entries it is undecided, the  *)
(* last entry led to it, every earlier one is a handover by the supervisor  *)
(* or the worker, and only HR follows it                                    *)
Explains(h, s) ==
  /\ h = <<>> => s \notin Settled
  /\ h # <<>> => s = Outcome(h[Len(h)])
  /\ \A i \in 1..Len(h) :
       /\ i < Len(h) => h[i].stage = "atasan" /\ Outcome(h[i]) = "menunggu_hr"
       /\ i > 1 => h[i].stage = "hr"
       /\ h[i].decision \in {"delegate", "auto_escalate"} => h[i].stage = "atasan"
       /\ h[i].by = NoUser <=> h[i].decision = "auto_escalate"

(* The history explains the status: no interleaving of decisions,           *)
(* delegation, escalation, rollback and retry records a stage twice, leaves *)
(* a decision without its entry or an entry without its effect, or writes   *)
(* after a final decision.                                                  *)
HistoryExplainsStatus == \A r \in Requests : Explains(history[r], status[r])

(* D-033, notifications are written with the change they describe: about    *)
(* his own request, the requester has one notification per entry of its     *)
(* history, and no other.  None describes a decision that was rolled back,  *)
(* none is lost, and deduplication by event key swallows none of a later    *)
(* stage, over any number of faults and retries.                            *)
ToldAs(e) == CASE e.decision = "approve" -> "approved"
               [] e.decision = "reject"  -> "rejected"
               [] e.decision = "delegate" -> "delegated"
               [] OTHER -> "auto_escalated"

InboxTellsHistory ==
  \A r \in Requests :
    {n \in inbox : n.ref = r /\ n.to = Owner[r]} =
    {Draft(ToldAs(history[r][i]), r, history[r][i].stage, Owner[r]) : i \in DOMAIN history[r]}

(* While a request waits, everybody who can decide it, other than its       *)
(* requester, has been told that it waits at this stage: by a submission    *)
(* notification, or by the delegation or escalation that brought it there.  *)
(* (Of a directory that does not change: a new supervisor is not told.)     *)
ApproversTold ==
  \A r \in Requests : status[r] \in Pending =>
    LET stage == StageForStatus(status[r]) IN
    \A u \in ApproverUserIDs(staff, stage, Owner[r]) \ {Owner[r]} :
      \E n \in inbox :
        /\ n.ref = r /\ n.to = u
        /\ \/ n.type = Kind[r] /\ n.stage = stage
           \/ n.type \in {"delegated", "auto_escalated"} /\ stage = "hr"

(* Only those entitled decide, by a directory that does not change: a       *)
(* supervisor's entry is by the supervisor of the requester, every other    *)
(* one by the role of its stage; HR's own requests go to Top Management and *)
(* nobody else's do; and nobody decides his own request.  No check compares *)
(* the actor with the requester: it follows from the routing.               *)
OnlyTheEntitledDecide ==
  \A r \in Requests : \A i \in DOMAIN history[r] :
    LET e == history[r][i] IN e.by # NoUser =>
      /\ e.by # Owner[r]
      /\ CASE e.stage = "atasan"         -> staff[Owner[r]].boss = e.by
           [] e.stage = "hr"             -> staff[e.by].role = "hr"
           [] e.stage = "top_management" -> staff[e.by].role = "top_management"
      /\ e.stage = "top_management" <=> staff[Owner[r]].role = "hr"

(* The leave ledger equals the approvals: the used days of a balance row    *)
(* are the days of the approved requests that were charged to it when their *)
(* leave type was as at the start.  Concurrent approvals of one user's      *)
(* requests lose no deduction, no request is charged twice or before its    *)
(* final approval, and an approval that cannot be paid is not recorded.     *)
Charged(a) ==
  {r \in Requests : /\ Kind[r] = "leave" /\ Account[r] = a /\ status[r] = "disetujui"
                    /\ Chargeable(InitTypes[TypeOf[r]])}

ApprovedLeaveIsCharged ==
  \A a \in Accounts : used[a] = Cardinality(UNION {{r} \X (1..Days[r]) : r \in Charged(a)})

(* A final approval never makes the balance negative, however many          *)
(* approvals of the same account run at a time and whatever HR edits.       *)
NoOverdraft == \A a \in Accounts : used[a] <= Opening[a]

(* No cycle of waits: a decision locks its request and then the balance, and *)
(* two of them that meet on one balance, each with its own request, never    *)
(* wait for each other.  Whenever calls are under way and no job holds their *)
(* requests, one of them goes on, without PostgreSQL having to abort one.    *)
Running    == {c \in Calls : pc[c] # "idle"}
CanGoOn(c) == ENABLED (CallStep(c) \/ LockStep(c))
SomeoneGoesOn ==
  Running # {} /\ (\A j \in Jobs : claim[j] = {}) => \E c \in Running : CanGoOn(c)

(* The workflow implements the abstract lifecycle of requests and balances. *)
Lifecycle == INSTANCE RequestLifecycle
               WITH Requests <- Requests, Accounts <- Accounts, Account <- Account,
                    Days <- Days, Opening <- Opening, status <- status, used <- used
Implements == Lifecycle!Spec

(* SLA: a request does not stay with the supervisor for ever, whether he    *)
(* decides, never acts, is deactivated or has lost his role: the worker     *)
(* hands it on, in spite of rolled back batches and of calls that hold the  *)
(* row whenever a batch is claimed.                                         *)
SupervisorStageEnds ==
  \A r \in Requests : status[r] = "menunggu_atasan" ~> status[r] # "menunggu_atasan"
=============================================================================
