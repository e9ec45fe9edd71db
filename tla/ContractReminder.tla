-------------------------- MODULE ContractReminder --------------------------
(***************************************************************************)
(* The daily job that reminds of contracts about to end                    *)
(* (ContractExpiryJob), in any number of replicas and restarts, and the    *)
(* inbox its notifications reach (NotificationService.MarkRead, Dismiss).  *)
(*                                                                         *)
(* The staff directory is chosen in Init and stays; a contract is never    *)
(* edited after it is created.  A day is a number.                         *)
(***************************************************************************)
EXTENDS Naturals, FiniteSets

CONSTANTS
  Users, NoUser,
  Role, Boss,          \* of a user
  Contracts,           \* active contracts, numbered in the order of their ids
  Subject, Ends,       \* the user and the last day of a contract
  Workers,             \* runs at the same time
  ContractLeadDays, BatchSize,
  NoRow, NoRun, NoDay,
  Readers,             \* bound: the users who open their inbox
  MaxDay               \* bound: the day the model ends

VARIABLES
  active,     \* employees.status and deleted_at, of the users
  day,        \* today in Asia/Jakarta
  notif,      \* notifications: the row of a contract and a recipient
  run,        \* runs in progress
  completed   \* target dates of the runs that ended with nothing failed

vars == <<active, day, notif, run, completed>>

Days == 0..MaxDay
Targets == {d + ContractLeadDays : d \in Days}
Row == [read : Days \cup {NoDay}, dismissed : Days \cup {NoDay}]
Run == [target : Targets, todo : SUBSET Contracts, ok : BOOLEAN]

ASSUME ReminderAssumption ==
  /\ NoUser \notin Users /\ Boss \in [Users -> Users \cup {NoUser}]
  /\ Contracts \subseteq Nat /\ Subject \in [Contracts -> Users] /\ Ends \in [Contracts -> Nat]
  /\ ContractLeadDays \in Nat /\ BatchSize \in Nat \ {0} /\ MaxDay \in Nat
  /\ Readers \subseteq Users
  /\ NoDay \notin Nat /\ NoRow \notin Row /\ NoRun \notin Run

Init ==
  /\ active \in [Users -> BOOLEAN]
  /\ day = 0
  /\ notif = [c \in Contracts |-> [u \in Users |-> NoRow]]
  /\ run = [w \in Workers |-> NoRun]
  /\ completed = {}

NextDay ==
  /\ day < MaxDay
  /\ day' = day + 1
  /\ UNCHANGED <<active, notif, run, completed>>
-----------------------------------------------------------------------------
(* The job. *)

Due(target) == {c \in Contracts : Ends[c] = target /\ active[Subject[c]]}

(* ORDER BY id LIMIT n *)
FirstOf(S, n) == {c \in S : Cardinality({d \in S : d < c}) < n}

ActiveUserIDsByRole(role) == {u \in Users : Role[u] = role /\ active[u]}
SupervisorUserID(u) == {b \in Users : Boss[u] = b /\ active[b]}

(* A wrong fallback: the subject counts as an HR user. *)
RecipientsSubjectCounts(c) ==
  LET hr == ActiveUserIDsByRole("hr")
  IN (SupervisorUserID(Subject[c]) \cup hr
        \cup IF hr = {} THEN ActiveUserIDsByRole("top_management") ELSE {}) \ {Subject[c]}

(* recipients *)
Recipients(c) ==
  LET hr == ActiveUserIDsByRole("hr") \ {Subject[c]}
  IN (SupervisorUserID(Subject[c]) \cup hr
        \cup IF hr = {} THEN ActiveUserIDsByRole("top_management") ELSE {}) \ {Subject[c]}

NewRow == [read |-> NoDay, dismissed |-> NoDay]

(* A wrong insert: DO UPDATE. *)
InsertOrReset(c, rows) == [u \in Users |-> IF u \in Recipients(c) THEN NewRow ELSE rows[u]]

(* Insert: ON CONFLICT DO NOTHING, one key for contract, end and recipient *)
Insert(c, rows) ==
  [u \in Users |-> IF u \in Recipients(c) /\ rows[u] = NoRow THEN NewRow ELSE rows[u]]

(* Wrong claims: the contracts that end today; and yesterday's batch. *)
ClaimToday(w) ==
  /\ run[w] = NoRun
  /\ run' = [run EXCEPT ![w] =
       [target |-> day, ok |-> TRUE, todo |-> FirstOf(Due(day), BatchSize)]]
  /\ UNCHANGED <<active, day, notif, completed>>

ClaimADayLate(w) ==
  /\ run[w] = NoRun
  /\ run' = [run EXCEPT ![w] =
       [target |-> day + ContractLeadDays, ok |-> TRUE,
        todo |-> FirstOf(Due(day + ContractLeadDays - 1), BatchSize)]]
  /\ UNCHANGED <<active, day, notif, completed>>

(* the job runs when the worker starts and every 24 hours *)
ClaimExpiringContracts(w) ==
  /\ run[w] = NoRun
  /\ run' = [run EXCEPT ![w] =
       [target |-> day + ContractLeadDays, ok |-> TRUE,
        todo |-> FirstOf(Due(day + ContractLeadDays), BatchSize)]]
  /\ UNCHANGED <<active, day, notif, completed>>

(* the next contract of the batch *)
Turn(w, c) == run[w] # NoRun /\ c \in FirstOf(run[w].todo, 1)

Notify(w, c) ==
  /\ Turn(w, c)
  /\ Recipients(c) # {}
  /\ notif' = [notif EXCEPT ![c] = Insert(c, @)]
  /\ run' = [run EXCEPT ![w].todo = @ \ {c}]
  /\ UNCHANGED <<active, day, completed>>

(* No recipient, or an error of a statement or of the commit, which may have *)
(* been carried out all the same.  The rest of the batch goes on.            *)
FailContract(w, c) ==
  /\ Turn(w, c)
  /\ \/ UNCHANGED notif
     \/ Recipients(c) # {} /\ notif' = [notif EXCEPT ![c] = Insert(c, @)]
  /\ run' = [run EXCEPT ![w].todo = @ \ {c}, ![w].ok = FALSE]
  /\ UNCHANGED <<active, day, completed>>

FinishRun(w) ==
  /\ run[w] # NoRun /\ run[w].todo = {}
  /\ run' = [run EXCEPT ![w] = NoRun]
  /\ completed' = completed \cup IF run[w].ok THEN {run[w].target} ELSE {}
  /\ UNCHANGED <<active, day, notif>>

(* the worker stops, or dies *)
StopRun(w) ==
  /\ run[w] # NoRun
  /\ run' = [run EXCEPT ![w] = NoRun]
  /\ UNCHANGED <<active, day, notif, completed>>
-----------------------------------------------------------------------------
(* The inbox.  Both are found by id and recipient; the id is of a row.     *)

(* read_at is set once, and not after a dismissal *)
MarkRead(c, u) ==
  /\ notif[c][u] # NoRow
  /\ notif[c][u].dismissed = NoDay
  /\ notif' = [notif EXCEPT ![c][u].read = IF @ = NoDay THEN day ELSE @]
  /\ UNCHANGED <<active, day, run, completed>>

Dismiss(c, u) ==
  /\ notif[c][u] # NoRow
  /\ notif' = [notif EXCEPT ![c][u].dismissed = IF @ = NoDay THEN day ELSE @]
  /\ UNCHANGED <<active, day, run, completed>>

Next ==
  \/ NextDay
  \/ \E w \in Workers :
       \/ ClaimExpiringContracts(w) \/ FinishRun(w) \/ StopRun(w)
       \/ \E c \in Contracts : Notify(w, c) \/ FailContract(w, c)
  \/ \E c \in Contracts, u \in Readers : MarkRead(c, u) \/ Dismiss(c, u)

Spec == Init /\ [][Next]_vars
-----------------------------------------------------------------------------
TypeOK ==
  /\ active \in [Users -> BOOLEAN]
  /\ day \in Days
  /\ notif \in [Contracts -> [Users -> Row \cup {NoRow}]]
  /\ run \in [Workers -> Run \cup {NoRun}]
  /\ completed \subseteq Targets

Told(c) == {u \in Users : notif[c][u] # NoRow}

(* The recipients of decision D-014, in its words: the active supervisor,  *)
(* every active HR user but the subject, and the active Top Management if  *)
(* there is no such HR user; the subject never.                            *)
Entitled(c) ==
  {u \in Users \ {Subject[c]} :
     /\ active[u]
     /\ \/ u = Boss[Subject[c]]
        \/ Role[u] = "hr"
        \/ /\ Role[u] = "top_management"
           /\ \A h \in Users \ {Subject[c]} : Role[h] = "hr" => ~ active[h]}

(* A contract is announced to everyone entitled or to nobody: notify sends  *)
(* the notifications of a contract in one transaction, whatever fails and   *)
(* however often the job runs.                                              *)
EveryoneEntitledOrNobody == \A c \in Contracts : Told(c) \in {{}, Entitled(c)}

(* When a run ends with nothing failed, everyone entitled knows of every    *)
(* contract that ends exactly ContractLeadDays later, up to the batch size. *)
CompletedRunsRemind ==
  \A d \in completed : \A c \in FirstOf(Due(d), BatchSize) : Told(c) = Entitled(c)

(* A notification never disappears, is read once, and when dismissed stays *)
(* so: no later run of the job brings it back (Insert, Dismiss).           *)
InboxOnlyAdvances ==
  [][\A c \in Contracts, u \in Users : notif[c][u] # NoRow =>
       /\ notif'[c][u] # NoRow
       /\ notif[c][u].read # NoDay => notif'[c][u].read = notif[c][u].read
       /\ notif[c][u].dismissed # NoDay => notif'[c][u] = notif[c][u]]_vars
=============================================================================
