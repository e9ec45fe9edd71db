--------------------------- MODULE PermissionCache ---------------------------
(***************************************************************************)
(* The permission matrix of the four roles in PostgreSQL, its copy per     *)
(* role in Redis, the checks that read through the copy on every request   *)
(* (CachedPermissionChecker) and the changes HR makes to the matrix        *)
(* (AccessService.UpdatePermission), with the audit log they write.        *)
(*                                                                         *)
(* A change is one transaction at READ COMMITTED: what it has written is   *)
(* kept in its record and appears in the matrix when it commits.  Redis is *)
(* not part of the transaction.                                            *)
(***************************************************************************)
EXTENDS ApprovalRules, Integers, Sequences

CONSTANTS
  MatrixRoles,  \* the roles looked at
  Catalog,      \* permissionCatalog: capabilities [module, action]
  InitMatrix,   \* the seeded matrix: the capabilities of each role
  Checks,       \* HasPermission calls that can be in progress at a time
  Updates,      \* UpdatePermission calls that can be in progress at a time
  NoEntry, NoCheck, NoUpdate,
  MaxChanges    \* bound: changes committed

VARIABLES
  matrix,  \* matrix[r]: the capabilities allowed to r, as committed
  cache,   \* cache[r]: the Redis entry of r
  check,   \* check[k]: what HasPermission call k knows
  update,  \* update[u]: what UpdatePermission call u read and wrote
  audit    \* PERMISSION_UPDATE entries, in commit order

vars == <<matrix, cache, check, update, audit>>

Copy   == [caps : SUBSET Catalog]
Check  == [step : {"missed", "read"}, role : MatrixRoles, caps : SUBSET Catalog]
Change == [role : MatrixRoles, cap : Catalog, before : BOOLEAN, after : BOOLEAN]
Update == [step : {"read", "written", "invalidated"}, change : Change]

(* topManagementMayHold, and the modules karyawan and atasan never hold *)
MayHold(role) ==
  {c \in Catalog :
     CASE role = "top_management"          -> \/ c.module = "notifikasi"
                                              \/ c.action \in {"read", "approve"}
       [] role \in {"karyawan", "atasan"}  -> c.module \notin {"akses", "audit"}
       [] OTHER                            -> TRUE}

(* what HR cannot take from itself: it alone can restore the matrix *)
MustKeep(role) == {c \in Catalog : role = "hr" /\ c.module = "akses"}

ValidatePermissionChange(role, cap, allowed) ==
  IF allowed THEN cap \in MayHold(role) ELSE cap \notin MustKeep(role)

ASSUME MatrixAssumption ==
  /\ MatrixRoles \subseteq Roles
  /\ \A c \in Catalog : c.module \in STRING /\ c.action \in STRING
  /\ InitMatrix \in [MatrixRoles -> SUBSET Catalog]
  /\ \A r \in MatrixRoles : InitMatrix[r] \subseteq MayHold(r)
                            /\ MustKeep(r) \subseteq InitMatrix[r]
ASSUME AbsenceAssumption ==
  NoEntry \notin Copy /\ NoCheck \notin Check /\ NoUpdate \notin Update
ASSUME ChangesAssumption == MaxChanges \in Nat

Init ==
  /\ matrix = InitMatrix
  /\ cache = [r \in MatrixRoles |-> NoEntry]
  /\ check = [k \in Checks |-> NoCheck]
  /\ update = [u \in Updates |-> NoUpdate]
  /\ audit = <<>>
-----------------------------------------------------------------------------
(* HasPermission.  A hit answers at once and changes nothing.              *)

(* a miss, or Redis does not answer although there may be an entry *)
Load(k, r) ==
  /\ check[k] = NoCheck
  /\ check' = [check EXCEPT ![k] = [step |-> "missed", role |-> r, caps |-> {}]]
  /\ UNCHANGED <<matrix, cache, update, audit>>

CheckAt(k, step) == check[k] # NoCheck /\ check[k].step = step

(* A wrong read: changes that are not committed are seen. *)
RolePermissionsUncommitted(k) ==
  LET r == check[k].role
      open == {u \in Updates : /\ update[u] # NoUpdate
                               /\ update[u].step # "read"
                               /\ update[u].change.role = r} IN
  /\ CheckAt(k, "missed")
  /\ check' = [check EXCEPT ![k].step = "read",
       ![k].caps = (matrix[r] \ {update[u].change.cap : u \in open})
                     \cup {update[u].change.cap : u \in {v \in open : update[v].change.after}}]
  /\ UNCHANGED <<matrix, cache, update, audit>>

(* one statement of its own connection: the committed rows of the role *)
RolePermissions(k) ==
  /\ CheckAt(k, "missed")
  /\ check' = [check EXCEPT ![k].step = "read", ![k].caps = matrix[check[k].role]]
  /\ UNCHANGED <<matrix, cache, update, audit>>

(* A wrong Store: more is cached than the capabilities. *)
StoreWholeCheck(k) ==
  /\ CheckAt(k, "read")
  /\ cache' = [cache EXCEPT ![check[k].role] = check[k]]
  /\ check' = [check EXCEPT ![k] = NoCheck]
  /\ UNCHANGED <<matrix, update, audit>>

(* the whole role is cached, and the capability asked for is answered *)
Store(k) ==
  /\ CheckAt(k, "read")
  /\ cache' = [cache EXCEPT ![check[k].role] = [caps |-> check[k].caps]]
  /\ check' = [check EXCEPT ![k] = NoCheck]
  /\ UNCHANGED <<matrix, update, audit>>

(* an answer without Store (Redis fails, a warning), or no answer at all   *)
(* (the query fails, the client goes away)                                 *)
LeaveUncached(k) ==
  /\ check[k] # NoCheck
  /\ check' = [check EXCEPT ![k] = NoCheck]
  /\ UNCHANGED <<matrix, cache, update, audit>>

(* A wrong Store: without a time to live. *)
NeverExpires(r) == FALSE /\ UNCHANGED vars

(* permissionCacheTTL, or Redis loses the entry *)
Expire(r) ==
  /\ cache[r] # NoEntry
  /\ cache' = [cache EXCEPT ![r] = NoEntry]
  /\ UNCHANGED <<matrix, check, update, audit>>
-----------------------------------------------------------------------------
(* UpdatePermission. *)

UpdateAt(u, step) == update[u] # NoUpdate /\ update[u].step = step

(* FindRoleName, ValidatePermissionChange, and CurrentPermission, which     *)
(* reads the cell without a lock                                           *)
BeginUpdate(u, r, cap, allowed) ==
  /\ update[u] = NoUpdate
  /\ ValidatePermissionChange(r, cap, allowed)
  /\ update' = [update EXCEPT ![u] =
       [step |-> "read",
        change |-> [role |-> r, cap |-> cap, before |-> cap \in matrix[r],
                    after |-> allowed]]]
  /\ UNCHANGED <<matrix, cache, check, audit>>

SameCell(c, d) == c.role = d.role /\ c.cap = d.cap

(* the upsert waits for a transaction that has written the same cell; the  *)
(* audit entry follows it and waits for nobody                             *)
UpsertPermission(u) ==
  /\ UpdateAt(u, "read")
  /\ \A v \in Updates :
       update[v] # NoUpdate /\ update[v].step # "read"
         => ~SameCell(update[u].change, update[v].change)
  /\ update' = [update EXCEPT ![u].step = "written"]
  /\ UNCHANGED <<matrix, cache, check, audit>>

Invalidate(u) ==
  /\ UpdateAt(u, "written")
  /\ cache' = [cache EXCEPT ![update[u].change.role] = NoEntry]
  /\ update' = [update EXCEPT ![u].step = "invalidated"]
  /\ UNCHANGED <<matrix, check, audit>>

CommitUpdate(u) ==
  LET new == update[u].change IN
  /\ UpdateAt(u, "invalidated")
  /\ Len(audit) < MaxChanges
  /\ matrix' = [matrix EXCEPT ![new.role] =
                  IF new.after THEN @ \cup {new.cap} ELSE @ \ {new.cap}]
  /\ audit' = Append(audit, new)
  /\ update' = [update EXCEPT ![u] = NoUpdate]
  /\ UNCHANGED <<cache, check>>

(* A wrong upsert: outside of the transaction, so that it stays. *)
RollbackKeepsUpsert(u) ==
  LET new == update[u].change IN
  /\ update[u] # NoUpdate
  /\ update' = [update EXCEPT ![u] = NoUpdate]
  /\ IF update[u].step = "read" THEN UNCHANGED matrix
     ELSE matrix' = [matrix EXCEPT ![new.role] =
                       IF new.after THEN @ \cup {new.cap} ELSE @ \ {new.cap}]
  /\ UNCHANGED <<cache, check, audit>>

(* any statement, Invalidate or the commit fails *)
RollbackUpdate(u) ==
  /\ update[u] # NoUpdate
  /\ update' = [update EXCEPT ![u] = NoUpdate]
  /\ UNCHANGED <<matrix, cache, check, audit>>
-----------------------------------------------------------------------------
HasPermission(k) ==
  \/ \E r \in MatrixRoles : Load(k, r)
  \/ RolePermissions(k) \/ Store(k) \/ LeaveUncached(k)

UpdatePermission(u) ==
  \/ \E r \in MatrixRoles, cap \in Catalog, allowed \in BOOLEAN :
       BeginUpdate(u, r, cap, allowed)
  \/ UpsertPermission(u) \/ Invalidate(u) \/ CommitUpdate(u) \/ RollbackUpdate(u)

Next ==
  \/ \E k \in Checks : HasPermission(k)
  \/ \E u \in Updates : UpdatePermission(u)
  \/ \E r \in MatrixRoles : Expire(r)

Spec == Init /\ [][Next]_vars

(***************************************************************************)
(* Fairness: an accepted check runs to its end, and an entry lives for its *)
(* time to live at most.  No change is obliged to begin or to commit.      *)
(***************************************************************************)
Fairness ==
  /\ \A k \in Checks : WF_vars(RolePermissions(k) \/ Store(k) \/ LeaveUncached(k))
  /\ \A r \in MatrixRoles : WF_vars(Expire(r))

FairSpec == Spec /\ Fairness
-----------------------------------------------------------------------------
(* Type correctness, of the matrix, its copies and the calls in progress. *)
TypeOK ==
  /\ matrix \in [MatrixRoles -> SUBSET Catalog]
  /\ cache \in [MatrixRoles -> Copy \cup {NoEntry}]
  /\ check \in [Checks -> Check \cup {NoCheck}]
  /\ update \in [Updates -> Update \cup {NoUpdate}]
  /\ audit \in Seq(Change)

Lawful(role, caps) == caps \subseteq MayHold(role) /\ MustKeep(role) \subseteq caps

(* No role holds, in the matrix or in a copy that a check may answer from,  *)
(* what the product forbids it (Top Management stays read-only, karyawan    *)
(* and atasan stay out of access and audit), and HR is never without its    *)
(* access module, whichever changes run at the same time and however stale  *)
(* a copy is ("Cache tidak pernah dapat memperluas kewenangan").            *)
CopiesAreLawful ==
  /\ \A r \in MatrixRoles : /\ Lawful(r, matrix[r])
                            /\ cache[r] # NoEntry => Lawful(r, cache[r].caps)
  /\ \A k \in Checks : CheckAt(k, "read") => Lawful(check[k].role, check[k].caps)

(* the matrix of r after the first n committed changes *)
Allowed(r, cap, n) ==
  \/ \E i \in 1..n : /\ audit[i].role = r /\ audit[i].cap = cap /\ audit[i].after
                     /\ \A j \in i + 1..n : ~(audit[j].role = r /\ audit[j].cap = cap)
  \/ /\ cap \in InitMatrix[r]
     /\ \A j \in 1..n : ~(audit[j].role = r /\ audit[j].cap = cap)

MatrixAfter(r, n) == {cap \in Catalog : Allowed(r, cap, n)}

(* The audit log explains the matrix: it is what the logged changes lead    *)
(* to, so that no change is in force without its entry and no entry stands  *)
(* for a change that was rolled back.                                       *)
AuditExplainsMatrix == \A r \in MatrixRoles : matrix[r] = MatrixAfter(r, Len(audit))

(* A check answers from a matrix that was in force at some time: neither a  *)
(* cached copy nor one being cached has a change that was rolled back, or   *)
(* one change without an earlier one of the same role.                      *)
CopiesWereInForce ==
  /\ \A r \in MatrixRoles : cache[r] # NoEntry =>
       \E n \in 0..Len(audit) : cache[r].caps = MatrixAfter(r, n)
  /\ \A k \in Checks : CheckAt(k, "read") =>
       \E n \in 0..Len(audit) : check[k].caps = MatrixAfter(check[k].role, n)

Agrees(r) == cache[r] # NoEntry => cache[r].caps = matrix[r]

(* The time to live repairs what a change and a check leave behind: when HR *)
(* changes the matrix no more, the copies agree with it from some time on,  *)
(* though checks that read the old matrix may still store it.               *)
CacheCatchesUp == <>[](\A r \in MatrixRoles : Agrees(r))
=============================================================================
