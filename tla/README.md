# TLA+ models and proofs for GSNpeeps

GSNpeeps is an HR system: a Go API and worker over PostgreSQL, Redis and an
object storage (MinIO or Nextcloud/WebDAV), and a React frontend. What is hard
in it is in the backend, where HTTP handlers run concurrently with each other
and with the jobs of one or more worker processes, and where a transaction in
PostgreSQL is accompanied by effects outside of it: files, a cache, later
readers. This directory models those parts in TLA+, checks them with TLC on
small instances and proves the most important results with TLAPS for all
instances.

Paths below are relative to `src/backend/internal/` unless they begin with `src/`.

## 1. Inventory

| component | state | operations | what is hard | correct when |
|---|---|---|---|---|
| Approval workflow (`service/leave_service.go`, `service/overtime_service.go`, `domain/approval.go`, repositories) | requests, approval history, leave balances | Create, Decide, Delegate, edit of a leave type | handlers, worker and edits of HR interleave; row locks; snapshots older than the lock; rollback | one decision per stage, in order, by whoever is entitled; history, status, balance and notifications agree; no balance below zero; no request stays with its supervisor for ever |
| Escalation worker (`worker/escalation.go`) | none of its own | a run per request table: claim, hand to HR | replicas, `SKIP LOCKED`, a batch in one transaction | every overdue request gets to HR once |
| Notification publisher (`service/notification_publisher.go`, `domain/notification.go`) | `notifications` | Publish inside the caller's transaction | recipients from a directory that changes, deduplication by event key | exactly the notifications the history explains |
| Permission matrix and cache (`service/permission_checker.go`, `service/access_service.go`, `platform/redis/permission_cache.go`) | matrix, a copy per role in Redis, audit log | HasPermission, UpdatePermission | cache outside of the transaction, stale stores | a copy is a matrix that was in force and is lawful; copies catch up |
| Attendance (`service/attendance_service.go`) | rows per user, day and type; photos | Record | check, upload, insert and compensation are separate steps | check-out after check-in; photos kept |
| Attendance corrections (`handler/uat_handler.go`) | corrections and their decisions | CreateCorrection, DecideCorrection | writes the rows that Record writes | staged decisions; approved corrections prevail |
| Photo retention (`worker/photo_retention.go`) | none of its own | a daily run | deletions that a rollback does not undo, head of the batch | expired photos go, others stay |
| Object storage (`platform/minio`, `platform/webdav`) | objects | Upload, Delete, Download | a path and a locator are different names on WebDAV | what was uploaded can be deleted |
| Company feed (`handler/feed_attachment_handler.go`, `handler/uat_handler.go`) | feeds, attachment rows, files | create, delete, upload, remove | rows and files, count under a lock | limit overrun by simultaneous requests only; rows have files; deleted feeds leave none |
| Contract reminder (`worker/contract_expiry.go`) and inbox (`service/notification_service.go`) | `notifications` | a daily run; MarkRead, Dismiss | failures, restarts, replicas, repeats | everyone entitled or nobody; what was read stays read |
| Sessions and rate limits (`service/auth_service.go`, `service/employee_service.go`, `platform/redis`) | account, one Redis key per session, counter of a window | Login, Logout, ChangePassword, ResetPassword, reset by HR, Allow | no transaction spans PostgreSQL and Redis; a password is verified against a row read before; SCAN and UNLINK page by page | an answered change leaves none of the sessions it had to end; no failed login is lost; a counter ends |
| Employee directory (`service/employee_service.go`, `repository/employee_repository.go`) | employees, users, contacts | Create, BulkCreate, Update, Deactivate | READ COMMITTED statements, a lock taken after the validation, a free e-mail looked for before the insert | lists of one request; organisation consistent; nobody shares an address |
| Supporting documents (`service/employee_service.go`, `service/leave_service.go`, `service/overtime_service.go`) | columns with a locator, objects | UploadDocument, UpdatePhoto, the document of a request | file before row, replacement after the commit, compensation, dead server | a row has its file; stray files have a reason |
| Leave types and balances (`service/leave_service.go`, `repository/leave_repository.go`) | types, balances | create, edit, opening for a type and for an employee, deduction | a quota or category that changes under open requests; two openings that miss each other | everyone active has the balances of the year |
| Offices, holidays, document types | single rows | create, edit, delete | none over several steps | only whether a document type is offered is modelled |
| Profile, dashboards, reports, exports | reads | | no behaviour over several steps | not modelled |
| Router, middleware, configuration, validation | none | | no state | not modelled |
| Frontend (`src/frontend`) | query caches, forms | | reads and one call per action | not modelled |

How they interact: handlers call services, services call repositories inside
`repository.Transactor.Within` (one PostgreSQL transaction, READ COMMITTED).
The workflow and the corrections share the rules of `domain/approval.go`. The
publisher runs inside the transactions of the workflow and of the escalation
job; the reminder writes the same table; the inbox reads and marks it. The
operations on an employee are seen from four sides: what they do to the rows of
the directory, to files, to the sessions of the account, and to the requests
that wait for a supervisor; each side has its module. The worker process
(`src/backend/cmd/worker/main.go`) runs its jobs once at the start and then on
tickers; nothing prevents a second replica. Attendance, feed and documents
store a file first and write its row second, so each has its own compensation.

`PROJECT.json` lists every component with its status, and under `hazards` each
place where a test would hardly reach, with the properties aimed at it or the
reason there is none.

## 2. Modules

    ApprovalRules                     pure: stages, routing, who may decide
      NotificationPublisher           pure: recipients, drafts, event keys, insert
        ApprovalWorkflow              transactions of requests, worker and HR edits
          implements RequestLifecycle (abstract specification)
          ApprovalWorkflow_proofs, MCApprovalWorkflow
      PermissionCache                 matrix, Redis copies, audit log
          PermissionCache_proofs, MCPermissionCache
      Attendance (with ObjectStorage) recording, corrections, retention
          Attendance_proofs, MCAttendance
    ObjectStorage                     pure: the two storage adapters
      CompanyFeed                     feeds and attachments
          CompanyFeed_proofs, MCCompanyFeed
      EmployeeDocuments               files that rows of employees and requests name
          EmployeeDocuments_proofs
        EmployeeDirectory             the staff, leave types and balances
          implements DocumentsSpec of EmployeeDocuments
          EmployeeDirectory_proofs, MCEmployeeDirectory
    RateLimiter                       a counter with a window
      Sessions                        one account, its sessions and its limiter
          Sessions_proofs, MCSessions
    ContractReminder                  the reminder job and the inbox
          ContractReminder_proofs, MCContractReminder

Conventions. A transaction appears as several actions whenever something else
can happen in between that it would notice; what it has written but not
committed is held in the record of its call and reaches the tables in the
commit action. A rollback, an error or a dead process is then the action that
drops the record. Row locks are not variables: they are derived from the
records (`RowLocked`, `BalanceLocked`, `Claimed`, `Locked`, `RowFree`, `RowHeld`,
`UserRowFree`). Definitions
headed "A wrong ..." are plausible mistakes; no specification uses them, and
each is there to see a property fail (`mutants` in `PROJECT.json`).

### ApprovalWorkflow

| code | model |
|---|---|
| `users`, `employees` | `staff[u]`: role, supervisor, active |
| `leave_types` | `leaveType[t]`, with `leave_types_limit_check` as `LimitCheck` |
| `leave_requests.status`, `overtime_requests.status` | `status[r]`, `"belum_ada"` before the insert |
| `leave_approvals`, `overtime_approvals` | `history[r]` |
| `leave_balances.saldo_terpakai` | `used[a]` |
| `notifications` | `inbox` |
| a handler's local variables and uncommitted writes | `call[c]`, with `pc[c]` |
| the escalation job's open transaction | `claim[j]` |
| Create | `RouteLeave`/`RouteOvertime` (what is read outside the transaction), `CommitSubmission` |
| Decide, Delegate | `Begin...`, `Read...ForDecision` (snapshot of the locking statement), `LockRequest`/`Refuse`, `Deduct`/`InsufficientBalance`, `Commit...`, `Rollback` |
| EscalationJob.Run | `ClaimEscalatableRequests`, `CommitEscalation`, `RollbackEscalation` |
| Update, Deactivate of employees; UpdateLeaveType | `UpdateEmployee`, `Deactivate`, `UpdateLeaveType` |

Decisions taken in the translation:

- `FOR UPDATE OF lr` re-reads only the locked row after a wait. The supervisor,
  the quota and the category in the same result are of the snapshot taken when
  the statement began. Hence `called` -> `waiting` (snapshot) -> `locked`.
- The role of an actor comes from the session. `Begin` takes it from the
  directory at that moment and keeps it to the end of the call.
- Recipients are read in the commit step. The reads of Create outside its
  transaction are one step. A refused call holds its lock for no step.
- The conditional `UPDATE ... WHERE status = ` is a guard of `Settle`;
  `DecidesWhatItRead` shows that it never fails.
- `nonaktif` sets `deleted_at` as well, so a deactivated employee never
  returns; subordinates keep their `atasan_id`. The trigger for a single Top
  Management counts inactive users.
- The number of working days is fixed with a request; its document is left out.
- The order by `created_at` inside a batch is not modelled (any batch of the
  right size may be claimed). No job moves requests on from HR.

### PermissionCache

`matrix[r]` and `cache[r]` are the committed rows and the Redis entry of a
role; `check[k]` is a `HasPermission` call that missed, `update[u]` an
`UpdatePermission` call with what it read and wrote. A hit changes nothing, so
it is no action. `Invalidate` happens inside the transaction, before
`CommitUpdate`, as in the code.

### Attendance

`row[k]` is the row of a user, day and type (the unique key). `record[r]` is a
`Record` call between its check, its upload and its insert; `CreateFails`
includes a commit that is reported as failed and took effect. `DecideCorrection`
locks correction, user and employee in its first statement (`FOR UPDATE`
without `OF`); an insert of attendance waits for it through its foreign key, so
the whole transaction is one step. `job[w]` is a retention run: what is left to
try, what it deleted, what it has locked. Location, distance and working mode
decide only whether a call is accepted and are left out; a day has `DayLength`
hours. The cutoff of the retention, three months to the second, is a number of
days.

### ObjectStorage

Pure operators over the set of objects. Both adapters return a locator from
`Upload`, which goes to a row. On MinIO the locator is the path. On WebDAV it has the
root folder in front, and `Delete` puts the root folder in front of whatever it
gets; what `Delete` finds then depends on which of the two names a caller uses.

### CompanyFeed

`call[k]` is an upload (`counted`, `locked`, `stored`, `withdrawing`), a
removal (`found`, `emptied`) or a deletion of a feed (`listed`, `cleaning`).
The count of an upload is a subquery of the statement that locks the feed, and
so of a snapshot older than the lock: `CountAttachments` before `LockFeed`.
Every request may fail or be abandoned at every step; `failed` is a history
variable that names the attachments this happened to, of which a file or a row
may be left over.

### RateLimiter and Sessions

`counted` and `expires` are one Redis counter and whether it has a time to live.
`user` is the account with the columns the calls look at; a password is a number,
and whether the one typed matches is the client's choice. `sessions` is the set
of tokens with a key, each named by the login that saved it. `pc[c]` and
`call[c]` say how far a call is and what it read.

- `Verify` reads the account; `RecordFailure`, `RecordSuccess`, `Save` come
  later, on an account that may have changed. The failure count is written by a
  statement that adds to the row as it finds it.
- `SessionStore.Revoke` is a SCAN in pages: `scan[c]` holds the keys it will
  come across, those that were there when it began and stayed; of a key saved
  meanwhile nothing is promised, so `RevokePage` may or may not take it.
- ChangePassword, a self-service reset and the reset by HR commit before they
  revoke; an update of e-mail or role and a deactivation revoke inside their
  transaction, before `Commit`. Both orders are in the model.
- `Fail` ends a call anywhere, also after a commit, a logout or an EXPIRE that took
  effect and was not heard. A login or a reset that ends between INCR and EXPIRE is
  `"stopped"` rather than `"done"`: it is the reason for a counter without an end.
- `doomed` and `streak` are history variables: the sessions there were when a
  call changed the account, and the password checks failed since the last good
  one. Hashing, token bytes and their fingerprints are left out.

### EmployeeDocuments and EmployeeDirectory

`file[s]` is the locator in a slot: the document or the photo of an employee,
or the document of a request. `upload[c]` runs through `checked`, `stored`,
`writing`, `written` to `replaced` or `done`, and through `undoing` when its
transaction failed. `BeginWrite` is the moment of the statement's snapshot, in
which the CTE `previous` finds the locator it will replace; `Write` is the moment the
row is free. `FailUpload` (an error, a client that goes away, a commit not
heard) and `StopUpload` (the server dies) hit it at any step. In
`DocumentsSpec` the staff changes in any way (`StaffChanges`), so that
what is proved of files holds beside whatever the directory does.

`EmployeeDirectory` replaces that by the operations: `task[c]` is a creation, a
bulk creation (row by row), a leave type, an update or a deactivation, with what
its statements have read and not committed. Each statement has its own snapshot.
`Name` and `Insert` are the search for a free address and the unique key that two
rows may collide on; `OpenBalances` and `OpenForStaff` are the two `INSERT ...
SELECT` that open balances; `Matches` is checked against the row before
`FOR UPDATE OF e` locks it; `DeleteContacts` removes the rows its statement sees
and `CommitUpdate` adds the new list. One list stands for all lists of an
employee, one pair of fields (department and position) for those checked
together. An address is given by the creation: that an update may give another one is
left to `Sessions`, where it ends the sessions of the account. The year is fixed.

### ContractReminder

`notif[c][u]` is the row of a contract and a recipient (the event key), `run[w]`
a run of the job: its target date, the rest of its batch, whether it failed.
`Notify` is the one transaction of a contract. `completed` is a history variable
for the properties.

## 3. Runs

Every property of a passing run has a mutant of a mapped definition that
breaks it under the same configuration.

| run | instance | question |
|---|---|---|
| `routes` | 4 users, an overtime request of a karyawan and two leave requests of an HR user on one balance that pays one, 2 calls, the overtime job, 1 fault | both kinds and all routes: exclusion, history, notifications, entitlement, the ledger, no overdraft, no cycle of waits |
| `edits` | 3 users, 1 leave request, 1 call at a time, 1 job, 1 edit of any employee, 1 of the leave type, 1 fault, fairness | decisions on a directory and a type that change; the refinement; no request stays with its supervisor |
| `accounts` | 3 calls of any kind on one account, a lock after 2 failures, 2 logins per window, 1 fault | which sessions survive an answered change; how failures are counted; which call is the reason for a counter without an end |
| `records` | 3 calls of any kind, 1 employee at the start, 2 rows in a bulk upload, 2 addresses, 2 departments, the WebDAV adapter, 1 fault | which files stay without a row or a row without its file; who misses a balance; whether two share an address; what two updates leave |
| `permission_cache` | 2 roles, 2 capabilities, 1 check and 2 changes at a time, 2 changes in all, fairness | copies that were in force, audit; copies catch up |
| `attendance_day` | 3 users (karyawan, atasan, HR), 2 recording calls, 1 correction, a day of two hours | check-out after check-in, approved corrections prevail and passed their stages |
| `photo_retention` | 1 user, 2 recording calls, 2 workers, batches of two, one object that never goes, 2 days, fairness | photos are kept until they expire; expired photos go |
| `feed_together` | 2 feeds, 4 attachments, 2 requests at a time, limit 2, any failures | the overrun is bounded; rows keep their files |
| `reminder_run` | 4 users in every combination of active and not, 4 contracts, 3 of them ending on one day, a batch of two, 2 runs at a time, 2 days, 1 reader | who is told; the inbox only advances |
| `category_changed` (violation) | 1 request, 1 call, 1 edit of the type | finding 1 |
| `feed_nextcloud` (violation) | 2 feeds, 2 attachments, 1 request at a time on the WebDAV adapter | finding 2 |
| `feed_limit` (violation) | 1 feed, limit 1, 2 requests on MinIO | finding 3 |

Why the bounds are enough. Two calls on one request, or on one balance row,
show every conflict of two lock holders; a third would wait for the same lock.
A balance of three days and requests of two makes the second approval the one
that must fail; two decisions on one balance, each holding its own request, are also
the smallest cycle of waiting that locks in another order would close
(`SomeoneGoesOn`). The batch of the escalation job holds every request: one that does not
fit is left out of a run like one that is locked, and that case is there. One edit
suffices for a snapshot to be stale, since the snapshot is taken once per call, and one
call beside the job is enough to hold it (the theorems cover calls beside each other under any edits); one fault
suffices because a rolled back call leaves no trace (`Rollback` changes only the
call) and the run can try again afterwards.
Three calls on an account are a login, the call that changes the account
beside it, and a third that failed or revoked before; a limit of two failures is the
smallest at which a failure that does not lock exists, two logins per window
the smallest at which one is admitted that did not create the counter. Three
calls on the staff are two uploads to one slot and what changes the staff, or
two creations or updates that overlap and one that came before. Two rows of a bulk upload
and two addresses let an import collide with itself and with another one. The
WebDAV adapter is the one on which path and locator differ; the theorems cover both.
A limit of two attachments is the smallest at which "the last place" and "a
place" differ; two calls can overrun it by one, so that four attachments leave
room for the overrun and for one more, and the theorem covers any number. In the
feed, which requests fail is not bounded. Two days are what a photo needs to
expire and a reminder to miss its day; with three contracts
of one day and a batch of two some fit and some do not. The matrix has one capability
that HR must keep and Top Management may not hold, and one that both may hold: of the
two kinds of rule each has a case that is refused and one that is not.
Symmetry is used for calls, for the two leave requests that differ in nothing
(`routes`), for departments, attachments, feeds and photos, in runs without fairness only.

`CHECK_DEADLOCK FALSE` stands where the modelled system may stop: requests,
attachments, corrections or calls are bounded and used up, or the directory or the
leave type ends in a state in which nobody may submit.

### Fairness

- Calls: an accepted handler runs on (`WF` of `CallStep`), and PostgreSQL queues
  the waiters of a row lock, so a lock that is free again and again is got (`SF`
  of `LockStep`). No user is obliged to submit, decide, edit or read.
- Worker: `main.go` runs each job at the start and on a ticker, so a job begins
  again and again (`WF` of the claims) and a run that is not rolled back commits.
- Cache: entries have a time to live (`WF` of `Expire`), and an accepted check ends.
- Retention: a deletion tried again and again succeeds some time, except of
  the objects in `Stuck`; from some time on no run that has deleted an object is
  rolled back. The second is needed on purpose: without it a failing commit
  could undo every run.

`routes`, `attendance_day`, `accounts`, `records`, `feed_together` and `reminder_run`, and
the violation runs, are about safety and assume no fairness.

### Findings

Places where a comment or a doc says otherwise than the code; the
counterexamples are the violation runs.

1. `category_changed`: a leave submitted as `cuti` and approved after HR changed
   the type to `izin` is charged to no balance, although the category is said to
   be locked.
2. `feed_nextcloud`: `DeleteFeed` and `DeleteFeedAttachment` give the locator to
   `Delete`, which on WebDAV names nothing; the files stay, although the storage
   is said to be cleaned up.
3. `feed_limit`: two uploads that began before the last place was taken both get it
   (`handler/feed_attachment_handler.go:78`), although a feed is said to have at most
   five files. `OverrunBound`, checked and proved, is what holds.

### Observations

Noticed while the models were written; they follow from single actions or short
orders of them, and no run of their own is spent on them.

- `service/access_service.go:103`: the comment promises that no window is left in which
  database and cache differ. A check that read before the commit and stores after the
  invalidation leaves the old matrix until the time to live ends (`CacheCatchesUp`).
- `worker/photo_retention.go:70` deletes by locator, like finding 2: with the WebDAV
  adapter no photo ever expires, and the row keeps its URL.
- `handler/uat_handler.go:445`: a file uploaded between the reading of the paths
  and the `DELETE` of its feed stays without a row, on either adapter.
- `worker/contract_expiry.go:77`: a contract whose reminder failed is not tried by
  the next daily run, which asks for another end date, unlike the comment at
  line 89 says.
- `repository/employee_repository.go:1028`: the comment says that no check-then-act
  race is left when uploads overlap. The CTE reads the snapshot, and the statement then
  waits for the row: two overlapping uploads of one document both find the same
  previous locator, and the file of the first to commit stays without a row
  (the exception in `StrayFilesExplained`). No row loses its file.
- `service/attendance_service.go:217`: the compensation uses the context whose
  end made the transaction fail; the photo of a client that goes away stays
  without a row.
- `repository/permission_repository.go:152`: the value before is read without a
  lock, so two changes of a cell may log the same value before.
- `platform/redis/rate_limiter.go:26`: a stop between INCR and EXPIRE leaves a counter
  without an end, which refuses the account's logins from the limit on;
  `CountersEnd` says that nothing else does.
- `service/auth_service.go:159`: a login whose audit entry fails revokes every
  session of the account, those of other devices too, while
  `src/docs/openapi-decisions.md:551` lists the events that do
  (`LoginNotAudited`).
- `service/auth_service.go:152`: the token of a login has the role that was read
  before the password was verified. An update of the role that commits in
  between has ended the sessions already, so that this one keeps the old role
  until its token ends; a login that verified before a new password slips in the
  same way (`AnsweredChangesHold` says of which sessions the promise holds).
- `service/employee_service.go` UpdatePhoto: the photo that a new one replaces stays
  in the storage; only documents are cleaned up.
- `repository/employee_repository.go:376`: department and position are validated before
  the lock, so two updates, one of each, may leave a position of another
  department (the exception in `OrganisationHolds`).
- `repository/employee_repository.go:177` and `repository/leave_repository.go:88`: an
  employee and a leave type that are created at the same time do not see each
  other, and the employee has no balance of the type (the exception in `BalancesOpened`).
- `repository/leave_repository.go:97`: balances are opened for the year in which an
  employee or a type is created, and by a seed; nothing opens those of a new
  year, and a leave of it is refused as if the balance were too low.
- `service/leave_service.go:478`: nothing compares the actor with the requester;
  a requester who gets the role `hr` while the request waits for HR can decide it.
  Of a directory that does not change, `OnlyTheEntitledDecide` excludes it.

## 4. Theorems

All proofs hold for every value of the constants that satisfies the named
`ASSUME`s, which TLC evaluates in every run.

**ApprovalWorkflow_proofs.** `TypeCorrect`, `MutualExclusion`,
`DecisionsAreCurrent`, `BalanceSafety`, `HistoryIsFaithful`, `RequestersAreTold`,
`OthersDecide`, `EveryApproverKnows`, `LedgerEqualsApprovals` and `Implementation`,
for any company, any number of requests, calls and jobs, any edits and faults. None
of the properties is inductive alone. `IInv` adds to the type invariant, the
exclusion of writers and the currency of what they read: what a call has
established at each step (`CallsInOrder`), that a request is inserted by one
call (`RoutedOnce`), and that a balance row is charged by one transaction at a
time, which found it affordable (`ChargesReserved`). The last is why a deduction that
was affordable when the row was locked is so at the commit, and hence gives `BalanceSafety`.
`HInv` adds `HistoryExplainsStatus`: appending an entry to a history that
explains the old status gives one that explains the new (`AppendExplains`).
On top of it, `RequestersAreTold`: an explained history has each stage once, so the
event key of a new entry is in the inbox of the requester for no earlier one, and
no message to others is about his own request under his name.
Three results are about data that HR may edit, and say so in their hypothesis.
`OthersDecide` and `EveryApproverKnows` hold while the directory stays as it is
(`[](staff = InitStaff)`): `EntitledInv` carries that a request waits at a stage that
fits its owner's role (`RequestsFit`) and that what a call read of the actor and of the
supervisor is still so (`CallsFit`). `LedgerEqualsApprovals` holds while the leave
types stay as they are (`[](leaveType = InitTypes)`); without that the run
`category_changed` refutes it. `ChargesFit` says that a call charges exactly what its
leave type asks for, and `LedgerInv` counts the days of a balance row: the charged days
are a set of pairs of a request and one of its days, so that one more approval adds
its days to the cardinality (`DaysOfOneMore`). `DirectoryStays` and `TypesStay` derive these
hypotheses from `MaxStaffEdits = 0` and `MaxTypeEdits = 0`, the bounds of the run `routes`.
`Implementation` maps each commit to the action of `RequestLifecycle` of the same
name, a committed batch to `HandToHR`, and every other step to a stutter.

**Sessions_proofs.** `TypesHold`, `FailuresCount`, `CountersExpire` and `ChangesHold`,
for any number of calls, any limits and any number of faults. `CountInv` adds to
`FailuresAreCounted` that a failed check has gone on to its answer or its
revocation, so that no call counts twice. `CountersExpire`: a counter without a time to
live is the work of exactly one call. `CounterInv` adds that a counter that is gone
has no time to live; then the first INCR makes its call the only one (`OnlyOpener`),
only the EXPIRE of that call gives one, and no other step touches either
(`CounterFrame`). `SessionInv` is the argument of
`AnsweredChangesHold`: a session is of a login that has saved it, so what a call
has to end cannot be saved again; and while a revocation runs, what is left of it
is among the keys the SCAN has yet to come across.

**EmployeeDocuments_proofs** and **EmployeeDirectory_proofs.** `DocumentsKept`: under
`DocumentsSpec`, for any staff and any change of it, no clean-up takes a file that a
row names; and `StrayDocumentsExplained`: none is left without a row but by an error or
an overlap. The invariant `FilesInv` consists of `RowsInv` (a row's locator is of
an upload to that slot that came to its commit, and its file is there unless this
upload met an error), `PreviousInv` (what an upload found in its row was recorded
before, and is in no row once the upload has replaced it), `ObjectInv` (the object
is there until the row is written) and `ReplacedInv` (only who found a locator has
one to remove). For the strays, `LeftInv`: who was done when an upload began is done
(`EarlierInv`), a request has one upload (`RequestInv`), what an upload is about to write over
is what its statement read or the work of an upload that overlapped (`SeenInv`), and a
file out of its row is explained or about to be removed (`StrayInv`). `ImplementsDocuments`: `EmployeeDirectory`
implements `DocumentsSpec`, its hires and deactivations being `StaffChanges`; so
`DocumentsStayKept` and `StrayFilesStayExplained` hold of it too. `TypesHold` and `ContactsKeptWhole` rest on
`DirectoryInv`: the row lock has one holder (`HolderInv`), what the holder deleted
is still the whole list (`ListInv`), and nobody has a list before his creation
commits (`UnbornInv`). `OrganisationKept` and `BalancesAreOpened` are about what two calls
did not see of each other. `PastInv` says that the calls a call notes as done when it
begins are done, so of two calls under way at once neither notes the other. `OrganisationInv`
adds that a validated change fits the place it was validated against as long as no
other update of the employee overlaps it; `BalancesInv` that an employee or a leave type is
in the balances from its commit on, except for those that were under way.
`AddressesStayDistinct`, by `AddressInv`: an address that a transaction has inserted is in
no row yet (`HeldFree`) and no other transaction has inserted it (`HeldOnce`), because the unique
key makes the second wait for the first.

**Attendance_proofs.** `TypesHold`, `CheckOutsFollow`, `LastCorrectionHolds`,
`CorrectionsPassStages` and the action property `PhotosStayKept`. `DayInv`
says what a call and a retention run know: a checked check-out has found its
check-in, and no row ever goes (`RowsGrow`), so it is still there at the insert.
`PrevailInv`: an approved correction writes the row in the step that records the
decision, and an insert meets an absent row only. `CorrectionsPassStages` is inductive
with it: a new decision takes the place after those of its correction
(`OneMoreDecision`), and where an approval leads is the next stage of the route
(`RouteGoesOn`). `PhotosStayKept` needs `OwnInv` (a photo belongs to one call and then to one
row, which only a call that failed unheard shares), and that the rows a run has claimed
are of no other run (`ClaimsApart`) and expired, and stay so as time goes on
(`ClaimsExpired`). It assumes that no photo's path is a locator on the WebDAV adapter
(`FolderAssumption`: a path begins with `attendance-photos`, a locator with the root folder).

**PermissionCache_proofs.** `MatrixTypeCorrect` and `CacheNeverWidens`: the
invariant adds that every change in progress was validated
(`ChangesAreValid`), so that matrix, copies and copies about to be stored stay
lawful whatever their order. `CopiesAreLawful` is proved and in no run, as each change
is validated alone. `LogIsComplete` and `AnswersWereTrueOnce`: an entry
appended to the log leaves `MatrixAfter` of every earlier length as it was
(`EarlierLogsStay`) and changes one cell of the last (`EntryAddsItsChange`); the
commit that appends it writes that cell, and nothing else writes the matrix.

**ContractReminder_proofs.** `RemindersWellTyped`, `AllOrNobody`, `CompletedRunsHaveReminded` and the
action property `InboxAdvances`. The lemma `RecipientsAreEntitled` equates the
code's list with the words of decision D-014; `PassedIsAnnounced` (what a run
without failure has passed over is announced) carries a run to its end.

**CompanyFeed_proofs.** `TypeCorrect` and `OverrunIsBounded`. The invariant
`RoomForAdmitted` counts rows together with the uploads that may still add one:
an upload admitted below the limit meets at most the other requests in flight.
`FilesStayWithRows`, by `FilesInv`: rows are of feeds that are published (`RowsInv`); an
upload holds the lock of a published feed, and a clean-up belongs to a feed that is
gone (`CallsInv`); the file of an upload is stored before its row, under an id that
no other request knows (`FreshInv`). It assumes that the root folder is not the id
of a feed (`FolderAssumption`), without which two paths of the WebDAV adapter
could coincide.

Model-checked only: liveness (`SupervisorStageEnds`, `CacheCatchesUp`, `PhotosExpire`),
which needs fairness, and `SomeoneGoesOn`, which needs ENABLED. Every other safety
invariant and every action property of a passing run has a theorem. Sums and
selections over sequences are stated as cardinalities (`ApprovedLeaveIsCharged`,
`DecidedInStages`), because a recursion over data could not be reasoned about.

## 5. Not modelled

- Reads: lists, details, recaps, dashboards, reports, exports, the audit list.
- Texts, titles, layouts, validation of single requests, routing of HTTP.
- Bytes and signatures of files; size limits.
- Number of contracts of one end date above 200, the limit of a run.
- `UpdateFeed` and the notification of a new feed; offices, holidays, the names of
  document types and the profile: single-row edits with an audit entry.
- The details of an employee other than e-mail, place and one list: BPJS, NPWP,
  salary, contracts, education; they are written in the same transactions.
- The rate limit of an authenticated user, the same limiter under another key;
  tokens, hashes and their comparison.
- The bytes of a bulk import and the parsing of its rows; a row that does not
  parse is a row that is not created.
- The change of the year, which no code reacts to.
- Priorities and times of PostgreSQL: a deadlock of two transactions that lock
  each other's users in `DecideCorrection` is broken by PostgreSQL with an error.
- The frontend, which has one call per action and caches that are reloaded.

## 6. Plan

Done, in this order: the approval workflow with its abstract specification and
proofs; the permission cache; attendance with corrections and retention; the
feed; the reminder; sessions and rate limits; documents of employees and requests
with an abstract staff; the directory over them, with leave types and balances;
the proofs of these, of attendance and of the audit log, and of the files of the feed.

Proved since: the inbox, the entitlement and the ledger of the workflow; stages and
photos of corrections and attendance; strays, balances, places and addresses
of the directory.

To extend: a directory that changes between the three reads of the contract
reminder (`worker/contract_expiry.go:116`), and the notification of a new feed.
