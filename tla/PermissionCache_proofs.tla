------------------------ MODULE PermissionCache_proofs ------------------------
(***************************************************************************)
(* Theorems about PermissionCache, for every set of roles, capabilities,   *)
(* checks and changes.  TLC checks the same invariants on an instance.     *)
(***************************************************************************)
EXTENDS PermissionCache, TLAPS

(* A change in progress has passed ValidatePermissionChange, which looks at *)
(* nothing but the role, the capability and the direction: it stays valid   *)
(* whatever is committed meanwhile.                                         *)
ChangesAreValid ==
  \A u \in Updates : update[u] # NoUpdate =>
    ValidatePermissionChange(update[u].change.role, update[u].change.cap,
                             update[u].change.after)

IInv == TypeOK /\ ChangesAreValid /\ CopiesAreLawful

LEMMA InitInv == Init => IInv
  BY MatrixAssumption, AbsenceAssumption
     DEF Init, IInv, TypeOK, ChangesAreValid, CopiesAreLawful, Lawful, CheckAt

(* A valid change keeps the matrix of a role lawful. *)
LEMMA ValidChangeIsLawful ==
  ASSUME NEW role, NEW cap \in Catalog, NEW allowed \in BOOLEAN,
         ValidatePermissionChange(role, cap, allowed),
         NEW caps \in SUBSET Catalog, Lawful(role, caps)
  PROVE  Lawful(role, IF allowed THEN caps \cup {cap} ELSE caps \ {cap})
  BY DEF ValidatePermissionChange, Lawful

LEMMA CheckStep ==
  ASSUME IInv, NEW k \in Checks, HasPermission(k)
  PROVE  IInv'
<1>1. ASSUME NEW r \in MatrixRoles, Load(k, r) PROVE IInv'
  <2>1. [step |-> "missed", role |-> r, caps |-> {}] \in Check
    BY DEF Check
  <2>2. TypeOK'
    BY <1>1, <2>1 DEF Load, IInv, TypeOK
  <2>3. ChangesAreValid'
    BY <1>1 DEF Load, IInv, ChangesAreValid
  <2>4. \A l \in Checks : CheckAt(l, "read")' => l # k /\ check'[l] = check[l] /\ CheckAt(l, "read")
    BY <1>1 DEF Load, IInv, TypeOK, CheckAt
  <2>5. CopiesAreLawful'
    BY <1>1, <2>4 DEF Load, IInv, CopiesAreLawful
  <2> QED BY <2>2, <2>3, <2>5 DEF IInv
<1>2. CASE RolePermissions(k)
  <2>1. check[k] \in Check /\ check[k].role \in MatrixRoles /\ check[k].caps \in SUBSET Catalog
    BY <1>2 DEF RolePermissions, CheckAt, IInv, TypeOK, Check
  <2>2. /\ check'[k] \in Check
        /\ check'[k].role = check[k].role /\ check'[k].caps = matrix[check[k].role]
    BY <1>2, <2>1 DEF RolePermissions, IInv, TypeOK, Check
  <2>3. \A l \in Checks \ {k} : check'[l] = check[l]
    BY <1>2 DEF RolePermissions, IInv, TypeOK
  <2>4. TypeOK'
    BY <1>2, <2>2, <2>3 DEF RolePermissions, IInv, TypeOK
  <2>5. ChangesAreValid'
    BY <1>2 DEF RolePermissions, IInv, ChangesAreValid
  <2>6. CopiesAreLawful'
    BY <1>2, <2>1, <2>2, <2>3 DEF RolePermissions, IInv, CopiesAreLawful, CheckAt
  <2> QED BY <2>4, <2>5, <2>6 DEF IInv
<1>3. CASE Store(k)
  <2>1. check[k] \in Check /\ check[k].role \in MatrixRoles /\ check[k].caps \in SUBSET Catalog
        /\ Lawful(check[k].role, check[k].caps)
    BY <1>3 DEF Store, CheckAt, IInv, TypeOK, Check, CopiesAreLawful
  <2>2. TypeOK'
    BY <1>3, <2>1 DEF Store, IInv, TypeOK, Copy
  <2>3. ChangesAreValid'
    BY <1>3 DEF Store, IInv, ChangesAreValid
  <2>4. \A l \in Checks : CheckAt(l, "read")' => check'[l] = check[l] /\ CheckAt(l, "read")
    BY <1>3 DEF Store, IInv, TypeOK, CheckAt
  <2>5. \A r \in MatrixRoles : cache'[r] = cache[r] \/ (r = check[k].role /\ cache'[r] = [caps |-> check[k].caps])
    BY <1>3 DEF Store, IInv, TypeOK
  <2>6. CopiesAreLawful'
    BY <1>3, <2>1, <2>4, <2>5 DEF Store, IInv, CopiesAreLawful
  <2> QED BY <2>2, <2>3, <2>6 DEF IInv
<1>4. CASE LeaveUncached(k)
  <2>1. TypeOK' /\ ChangesAreValid'
    BY <1>4 DEF LeaveUncached, IInv, TypeOK, ChangesAreValid
  <2>2. \A l \in Checks : CheckAt(l, "read")' => check'[l] = check[l] /\ CheckAt(l, "read")
    BY <1>4 DEF LeaveUncached, IInv, TypeOK, CheckAt
  <2>3. CopiesAreLawful'
    BY <1>4, <2>2 DEF LeaveUncached, IInv, CopiesAreLawful
  <2> QED BY <2>1, <2>3 DEF IInv
<1> QED BY <1>1, <1>2, <1>3, <1>4 DEF HasPermission

(* A change in progress is of the matrix, and valid. *)
LEMMA ChangeFacts ==
  ASSUME IInv, NEW u \in Updates, update[u] # NoUpdate
  PROVE  /\ update[u] \in Update /\ update[u].change \in Change
         /\ update[u].change.role \in MatrixRoles /\ update[u].change.cap \in Catalog
         /\ update[u].change.after \in BOOLEAN
         /\ ValidatePermissionChange(update[u].change.role, update[u].change.cap,
                                     update[u].change.after)
  BY DEF IInv, TypeOK, ChangesAreValid, Update, Change

LEMMA UpdateStep ==
  ASSUME IInv, NEW u \in Updates, UpdatePermission(u)
  PROVE  IInv'
<1>1. ASSUME NEW r \in MatrixRoles, NEW cap \in Catalog, NEW allowed \in BOOLEAN,
             BeginUpdate(u, r, cap, allowed)
      PROVE  IInv'
  <2> DEFINE c == [role |-> r, cap |-> cap, before |-> cap \in matrix[r], after |-> allowed]
             n == [step |-> "read", change |-> c]
  <2>1. n \in Update
    BY DEF Update, Change
  <2>2. update' = [update EXCEPT ![u] = n] /\ ValidatePermissionChange(r, cap, allowed)
    BY <1>1 DEF BeginUpdate
  <2>3. TypeOK'
    BY <1>1, <2>1, <2>2 DEF BeginUpdate, IInv, TypeOK
  <2>4. \A v \in Updates : update'[v] = update[v] \/ (v = u /\ update'[v] = n)
    BY <2>2 DEF IInv, TypeOK
  <2>5. ChangesAreValid'
    BY <2>2, <2>4 DEF IInv, ChangesAreValid
  <2>6. CopiesAreLawful'
    BY <1>1 DEF BeginUpdate, IInv, CopiesAreLawful, CheckAt
  <2> QED BY <2>3, <2>5, <2>6 DEF IInv
<1>2. CASE UpsertPermission(u) \/ Invalidate(u)
  <2>1. update[u] # NoUpdate
    BY <1>2 DEF UpsertPermission, Invalidate, UpdateAt
  <2>2. \E s \in {"written", "invalidated"} : update' = [update EXCEPT ![u].step = s]
    BY <1>2 DEF UpsertPermission, Invalidate
  <2>3. update'[u] \in Update /\ update'[u].change = update[u].change
    BY <2>1, <2>2, ChangeFacts DEF Update, IInv, TypeOK
  <2>4. \A v \in Updates \ {u} : update'[v] = update[v]
    BY <2>2 DEF IInv, TypeOK
  <2>5. \A r \in MatrixRoles : cache'[r] = cache[r] \/ cache'[r] = NoEntry
    BY <1>2 DEF UpsertPermission, Invalidate, IInv, TypeOK
  <2>6. TypeOK'
    BY <1>2, <2>2, <2>3, <2>4 DEF UpsertPermission, Invalidate, IInv, TypeOK
  <2>7. ChangesAreValid'
    BY <2>1, <2>3, <2>4 DEF IInv, ChangesAreValid
  <2>8. CopiesAreLawful'
    BY <1>2, <2>5 DEF UpsertPermission, Invalidate, IInv, CopiesAreLawful, CheckAt
  <2> QED BY <2>6, <2>7, <2>8 DEF IInv
<1>3. CASE CommitUpdate(u)
  <2> DEFINE new == update[u].change
             caps == IF new.after THEN matrix[new.role] \cup {new.cap}
                                  ELSE matrix[new.role] \ {new.cap}
  <2>1. update[u] # NoUpdate
    BY <1>3 DEF CommitUpdate, UpdateAt
  <2>2. new \in Change /\ new.role \in MatrixRoles /\ new.cap \in Catalog /\ new.after \in BOOLEAN
        /\ ValidatePermissionChange(new.role, new.cap, new.after)
    BY <2>1, ChangeFacts
  <2>3. matrix[new.role] \in SUBSET Catalog /\ Lawful(new.role, matrix[new.role])
    BY <2>2 DEF IInv, TypeOK, CopiesAreLawful
  <2>4. caps \in SUBSET Catalog /\ Lawful(new.role, caps)
    BY <2>2, <2>3, ValidChangeIsLawful
  <2>5. matrix' = [matrix EXCEPT ![new.role] = caps]
    BY <1>3 DEF CommitUpdate
  <2>6. TypeOK'
    BY <1>3, <2>2, <2>4, <2>5 DEF CommitUpdate, IInv, TypeOK
  <2>7. ChangesAreValid'
    BY <1>3 DEF CommitUpdate, IInv, TypeOK, ChangesAreValid
  <2>8. \A r \in MatrixRoles : Lawful(r, matrix'[r])
    BY <2>4, <2>5 DEF IInv, TypeOK, CopiesAreLawful
  <2>9. CopiesAreLawful'
    BY <1>3, <2>8 DEF CommitUpdate, IInv, CopiesAreLawful, CheckAt
  <2> QED BY <2>6, <2>7, <2>9 DEF IInv
<1>4. CASE RollbackUpdate(u)
  <2>1. TypeOK' /\ ChangesAreValid'
    BY <1>4 DEF RollbackUpdate, IInv, TypeOK, ChangesAreValid
  <2>2. CopiesAreLawful'
    BY <1>4 DEF RollbackUpdate, IInv, CopiesAreLawful, CheckAt
  <2> QED BY <2>1, <2>2 DEF IInv
<1> QED BY <1>1, <1>2, <1>3, <1>4 DEF UpdatePermission

LEMMA ExpireStep ==
  ASSUME IInv, NEW r \in MatrixRoles, Expire(r)
  PROVE  IInv'
<1>1. TypeOK' /\ ChangesAreValid'
  BY DEF Expire, IInv, TypeOK, ChangesAreValid
<1>2. \A q \in MatrixRoles : cache'[q] = cache[q] \/ cache'[q] = NoEntry
  BY DEF Expire, IInv, TypeOK
<1>3. CopiesAreLawful'
  BY <1>2 DEF Expire, IInv, CopiesAreLawful, CheckAt
<1> QED BY <1>1, <1>3 DEF IInv

LEMMA StutterStep == IInv /\ UNCHANGED vars => IInv'
  BY DEF vars, IInv, TypeOK, ChangesAreValid, CopiesAreLawful, CheckAt

LEMMA Invariance == Spec => []IInv
<1>1. IInv /\ [Next]_vars => IInv'
  BY CheckStep, UpdateStep, ExpireStep, StutterStep DEF Next
<1> QED BY InitInv, <1>1, PTL DEF Spec

(* Matrix, copies and calls keep their types. *)
THEOREM MatrixTypeCorrect == Spec => []TypeOK
  BY Invariance, PTL DEF IInv

(* No copy of the matrix, however stale, gives a role what the product      *)
(* forbids it or takes from HR the module that restores the matrix.         *)
THEOREM CacheNeverWidens == Spec => []CopiesAreLawful
  BY Invariance, PTL DEF IInv
-----------------------------------------------------------------------------
(* The log and what it explains.  An entry appended to the log changes what *)
(* no earlier length leads to, and adds one change to what the whole of it  *)
(* led to.                                                                  *)
LEMMA LogGrows ==
  ASSUME audit \in Seq(Change), NEW new \in Change, audit' = Append(audit, new)
  PROVE  /\ Len(audit) \in Nat /\ Len(audit)' = Len(audit) + 1
         /\ audit'[Len(audit) + 1] = new
         /\ \A i \in 1..Len(audit) : audit'[i] = audit[i]
  OBVIOUS

LEMMA EarlierLogsStay ==
  ASSUME audit \in Seq(Change), NEW new \in Change, audit' = Append(audit, new),
         NEW r, NEW n \in 0..Len(audit)
  PROVE  MatrixAfter(r, n)' = MatrixAfter(r, n)
<1>1. Len(audit) \in Nat /\ \A i \in 1..n : audit'[i] = audit[i]
  BY LogGrows
<1>2. ASSUME NEW cap \in Catalog PROVE Allowed(r, cap, n)' <=> Allowed(r, cap, n)
  BY <1>1 DEF Allowed
<1> QED BY <1>2 DEF MatrixAfter

LEMMA EntryAddsItsChange ==
  ASSUME audit \in Seq(Change), NEW CONSTANT new \in Change, audit' = Append(audit, new),
         NEW r, NEW CONSTANT n, n = Len(audit)
  PROVE  MatrixAfter(r, n + 1)' =
           IF new.role # r THEN MatrixAfter(r, n)
           ELSE IF new.after THEN MatrixAfter(r, n) \cup {new.cap}
           ELSE MatrixAfter(r, n) \ {new.cap}
<1> DEFINE Of(i, cap) == audit'[i].role = r /\ audit'[i].cap = cap
<1>1. /\ n \in Nat /\ audit'[n + 1] = new
      /\ \A i \in 1..n : audit'[i] = audit[i]
  BY LogGrows
<1>2. new.cap \in Catalog /\ new.after \in BOOLEAN
  BY DEF Change
<1>3. ASSUME NEW cap \in Catalog, new.role = r, new.cap = cap
      PROVE  Allowed(r, cap, n + 1)' <=> new.after
  <2>1. Of(n + 1, cap) /\ n + 1 \in 1..n + 1
    BY <1>1, <1>3
  <2>2. ~ (\A j \in 1..n + 1 : ~ Of(j, cap))
    BY <2>1
  <2>3. ASSUME NEW i \in 1..n + 1, \A j \in i + 1..n + 1 : ~ Of(j, cap)
        PROVE  i = n + 1
    BY <1>1, <2>1, <2>3
  <2>4. \A j \in (n + 1) + 1..n + 1 : ~ Of(j, cap)
    BY <1>1
  <2>5. Allowed(r, cap, n + 1)' <=>
          \/ \E i \in 1..n + 1 : /\ Of(i, cap) /\ audit'[i].after
                                 /\ \A j \in i + 1..n + 1 : ~ Of(j, cap)
          \/ cap \in InitMatrix[r] /\ \A j \in 1..n + 1 : ~ Of(j, cap)
    BY DEF Allowed
  <2> QED BY <1>1, <2>1, <2>2, <2>3, <2>4, <2>5
<1>4. ASSUME NEW cap \in Catalog, new.role # r \/ new.cap # cap
      PROVE  Allowed(r, cap, n + 1)' <=> Allowed(r, cap, n)
  <2>1. ~ Of(n + 1, cap)
    BY <1>1, <1>4
  <2>2. \A i \in 1..n : Of(i, cap) <=> audit[i].role = r /\ audit[i].cap = cap
    BY <1>1
  <2>3. Allowed(r, cap, n + 1)' <=>
          \/ \E i \in 1..n : /\ Of(i, cap) /\ audit'[i].after
                             /\ \A j \in i + 1..n : ~ Of(j, cap)
          \/ cap \in InitMatrix[r] /\ \A j \in 1..n : ~ Of(j, cap)
    <3>1. \A i \in 1..n + 1 : i \in 1..n \/ i = n + 1
      BY <1>1
    <3>2. \A i \in 1..n : /\ i \in 1..n + 1 /\ i \in Int
                          /\ \A j \in i + 1..n + 1 : j \in i + 1..n \/ j = n + 1
                          /\ \A j \in i + 1..n : j \in i + 1..n + 1
      BY <1>1
    <3>3. (\A j \in 1..n + 1 : ~ Of(j, cap)) <=> (\A j \in 1..n : ~ Of(j, cap))
      BY <2>1, <3>1, <3>2
    <3>4. ASSUME NEW i \in 1..n
          PROVE  (\A j \in i + 1..n + 1 : ~ Of(j, cap)) <=> (\A j \in i + 1..n : ~ Of(j, cap))
      BY <2>1, <3>2
    <3> HIDE DEF Of
    <3>5. (\E i \in 1..n + 1 : /\ Of(i, cap) /\ audit'[i].after
                               /\ \A j \in i + 1..n + 1 : ~ Of(j, cap))
          <=> (\E i \in 1..n : /\ Of(i, cap) /\ audit'[i].after
                               /\ \A j \in i + 1..n : ~ Of(j, cap))
      BY <2>1, <3>1, <3>2, <3>4
    <3> QED BY <3>3, <3>5 DEF Allowed, Of
  <2>4. \A i \in 1..n : (\A j \in i + 1..n : ~ Of(j, cap)) <=>
          (\A j \in i + 1..n : ~ (audit[j].role = r /\ audit[j].cap = cap))
    <3>1. \A i \in 1..n : \A j \in i + 1..n : j \in 1..n
      BY <1>1
    <3> QED BY <2>2, <3>1
  <2> QED BY <1>1, <2>2, <2>3, <2>4 DEF Allowed
<1> QED BY <1>2, <1>3, <1>4 DEF MatrixAfter

LEMMA SameLog ==
  ASSUME UNCHANGED audit, NEW r, NEW n PROVE MatrixAfter(r, n)' = MatrixAfter(r, n)
  BY DEF MatrixAfter, Allowed

(* caps was the matrix of r after some number of changes. *)
InForce(r, caps) == \E n \in 0..Len(audit) : caps = MatrixAfter(r, n)

LogInv == AuditExplainsMatrix /\ CopiesWereInForce

LEMMA InitLog == Init => LogInv
<1> SUFFICES ASSUME Init PROVE LogInv
  OBVIOUS
<1>1. Len(audit) = 0 /\ matrix = InitMatrix
  BY DEF Init
<1>2. ASSUME NEW r \in MatrixRoles PROVE MatrixAfter(r, 0) = InitMatrix[r]
  BY MatrixAssumption DEF MatrixAfter, Allowed
<1>3. AuditExplainsMatrix
  BY <1>1, <1>2 DEF AuditExplainsMatrix
<1>4. CopiesWereInForce
  BY AbsenceAssumption DEF Init, CopiesWereInForce, CheckAt
<1> QED BY <1>3, <1>4 DEF LogInv

LEMMA CopiesInForce ==
  CopiesWereInForce <=>
    /\ \A r \in MatrixRoles : cache[r] # NoEntry => InForce(r, cache[r].caps)
    /\ \A k \in Checks : CheckAt(k, "read") => InForce(check[k].role, check[k].caps)
  BY DEF CopiesWereInForce, InForce

(* What was in force once was so at any later time. *)
LEMMA StillInForce ==
  ASSUME TypeOK, NEW r, NEW caps, InForce(r, caps),
         UNCHANGED audit \/ \E new \in Change : audit' = Append(audit, new)
  PROVE  InForce(r, caps)'
<1>1. PICK n \in 0..Len(audit) : caps = MatrixAfter(r, n)
  BY DEF InForce
<1>2. CASE UNCHANGED audit
  BY <1>1, <1>2, SameLog DEF InForce
<1>3. ASSUME NEW new \in Change, audit' = Append(audit, new) PROVE InForce(r, caps)'
  <2>1. MatrixAfter(r, n)' = MatrixAfter(r, n)
    BY <1>3, EarlierLogsStay DEF TypeOK
  <2>2. n \in 0..Len(audit')
    BY <1>3, LogGrows DEF TypeOK
  <2> QED BY <1>1, <2>1, <2>2 DEF InForce
<1> QED BY <1>2, <1>3

(* A step that commits nothing: the copies are those there were, or are made *)
(* of the matrix or of what a check has read of it.                          *)
LEMMA QuietStep ==
  ASSUME IInv, LogInv, UNCHANGED <<matrix, audit>>,
         \A r \in MatrixRoles : cache'[r] \in {cache[r], NoEntry}
           \/ InForce(r, cache'[r].caps),
         \A k \in Checks : CheckAt(k, "read")' =>
           \/ check'[k] = check[k] /\ CheckAt(k, "read")
           \/ InForce(check'[k].role, check'[k].caps)
  PROVE  LogInv'
<1>1. \A r \in MatrixRoles, n \in Nat : MatrixAfter(r, n)' = MatrixAfter(r, n)
  BY SameLog
<1>2. Len(audit) \in Nat /\ TypeOK
  BY DEF IInv, TypeOK
<1>3. AuditExplainsMatrix'
  <2>1. \A r \in MatrixRoles : matrix[r] = MatrixAfter(r, Len(audit))
    BY DEF LogInv, AuditExplainsMatrix
  <2>2. PICK n \in Nat : n = Len(audit)
    BY <1>2
  <2>3. \A r \in MatrixRoles : matrix'[r] = MatrixAfter(r, n)'
    BY <1>1, <2>1, <2>2
  <2> QED BY <2>2, <2>3 DEF AuditExplainsMatrix
<1>4. ASSUME NEW r \in MatrixRoles, cache'[r] # NoEntry PROVE InForce(r, cache[r].caps)'
  <2>1. InForce(r, cache'[r].caps)
    BY <1>4, CopiesInForce DEF LogInv
  <2> QED BY <1>1, <2>1 DEF InForce
<1>5. ASSUME NEW k \in Checks, CheckAt(k, "read")' PROVE InForce(check[k].role, check[k].caps)'
  <2>1. InForce(check'[k].role, check'[k].caps)
    BY <1>5, CopiesInForce DEF LogInv
  <2> QED BY <2>1, SameLog DEF InForce
<1>6. CopiesWereInForce'
  BY <1>4, <1>5 DEF CopiesWereInForce, InForce
<1> QED BY <1>3, <1>6 DEF LogInv

LEMMA CommitKeepsLog ==
  ASSUME IInv, LogInv, NEW u \in Updates, CommitUpdate(u)
  PROVE  LogInv'
<1>0. TypeOK /\ audit \in Seq(Change)
  BY DEF IInv, TypeOK
<1>1. PICK new \in Change : new = update[u].change
  BY ChangeFacts DEF CommitUpdate, UpdateAt
<1>2. audit' = Append(audit, new) /\ UNCHANGED <<cache, check>>
      /\ matrix' = [matrix EXCEPT ![new.role] =
                       IF new.after THEN @ \cup {new.cap} ELSE @ \ {new.cap}]
  BY <1>1 DEF CommitUpdate
<1>3. PICK n \in Nat : n = Len(audit)
  BY <1>0
<1>4. Len(audit') = n + 1
  BY <1>0, <1>2, <1>3, LogGrows
<1>5. AuditExplainsMatrix'
  <2> SUFFICES ASSUME NEW r \in MatrixRoles PROVE matrix'[r] = MatrixAfter(r, n + 1)'
    BY <1>4 DEF AuditExplainsMatrix
  <2>1. matrix[r] = MatrixAfter(r, n)
    BY <1>3 DEF LogInv, AuditExplainsMatrix
  <2>2. matrix'[r] = IF new.role # r THEN matrix[r]
                     ELSE IF new.after THEN matrix[r] \cup {new.cap} ELSE matrix[r] \ {new.cap}
    BY <1>0, <1>2 DEF TypeOK
  <2>3. MatrixAfter(r, n + 1)' =
          IF new.role # r THEN MatrixAfter(r, n)
          ELSE IF new.after THEN MatrixAfter(r, n) \cup {new.cap}
          ELSE MatrixAfter(r, n) \ {new.cap}
    BY <1>0, <1>2, <1>3, EntryAddsItsChange
  <2> QED BY <2>1, <2>2, <2>3
<1>6. CopiesWereInForce'
  <2>1. ASSUME NEW r \in MatrixRoles, cache[r] # NoEntry, NEW caps, caps = cache[r].caps
        PROVE  InForce(r, caps)'
    BY <1>0, <1>2, <2>1, CopiesInForce, StillInForce DEF LogInv
  <2>2. ASSUME NEW k \in Checks, CheckAt(k, "read"),
               NEW r, r = check[k].role, NEW caps, caps = check[k].caps
        PROVE  InForce(r, caps)'
    <3>1. InForce(r, caps)
      BY <2>2, CopiesInForce DEF LogInv
    <3> QED BY <1>0, <1>2, <3>1, StillInForce
  <2>3. \A k \in Checks : CheckAt(k, "read")' => CheckAt(k, "read")
    BY <1>2 DEF CheckAt
  <2> QED BY <1>2, <2>1, <2>2, <2>3 DEF CopiesWereInForce, InForce
<1> QED BY <1>5, <1>6 DEF LogInv

LEMMA LogStep == IInv /\ LogInv /\ [Next]_vars => LogInv'
<1> SUFFICES ASSUME IInv, LogInv, [Next]_vars PROVE LogInv'
  OBVIOUS
<1>0. TypeOK
  BY DEF IInv
<1>1. ASSUME NEW k \in Checks, HasPermission(k) PROVE LogInv'
  <2>1. ASSUME NEW r \in MatrixRoles, Load(k, r) PROVE LogInv'
    <3>1. \A l \in Checks : CheckAt(l, "read")' => check'[l] = check[l] /\ CheckAt(l, "read")
      BY <1>0, <2>1 DEF Load, TypeOK, CheckAt
    <3> QED BY <2>1, <3>1, QuietStep DEF Load
  <2>2. CASE RolePermissions(k)
    <3>1. check[k] \in Check
      BY <1>0, <2>2 DEF RolePermissions, CheckAt, TypeOK
    <3>2. /\ check'[k].role = check[k].role /\ check'[k].caps = matrix[check[k].role]
          /\ check[k].role \in MatrixRoles
          /\ \A l \in Checks \ {k} : check'[l] = check[l]
      BY <1>0, <2>2, <3>1 DEF RolePermissions, TypeOK, Check
    <3>3. InForce(check'[k].role, check'[k].caps)
      BY <1>0, <3>2 DEF LogInv, AuditExplainsMatrix, InForce, TypeOK
    <3>4. \A l \in Checks : CheckAt(l, "read")' =>
            \/ check'[l] = check[l] /\ CheckAt(l, "read")
            \/ InForce(check'[l].role, check'[l].caps)
      BY <3>2, <3>3 DEF CheckAt
    <3> QED BY <2>2, <3>4, QuietStep DEF RolePermissions
  <2>3. CASE Store(k)
    <3>1. InForce(check[k].role, check[k].caps)
      BY <2>3, CopiesInForce DEF Store, LogInv
    <3>2. \A r \in MatrixRoles : cache'[r] = cache[r] \/ InForce(r, cache'[r].caps)
      BY <1>0, <2>3, <3>1 DEF Store, TypeOK
    <3>3. \A l \in Checks : CheckAt(l, "read")' => check'[l] = check[l] /\ CheckAt(l, "read")
      BY <1>0, <2>3 DEF Store, TypeOK, CheckAt
    <3> QED BY <2>3, <3>2, <3>3, QuietStep DEF Store
  <2>4. CASE LeaveUncached(k)
    <3>1. \A l \in Checks : CheckAt(l, "read")' => check'[l] = check[l] /\ CheckAt(l, "read")
      BY <1>0, <2>4 DEF LeaveUncached, TypeOK, CheckAt
    <3> QED BY <2>4, <3>1, QuietStep DEF LeaveUncached
  <2> QED BY <1>1, <2>1, <2>2, <2>3, <2>4 DEF HasPermission
<1>2. ASSUME NEW u \in Updates, UpdatePermission(u) PROVE LogInv'
  <2>1. CASE CommitUpdate(u)
    BY <2>1, CommitKeepsLog
  <2>2. CASE ~ CommitUpdate(u)
    <3>1. /\ UNCHANGED <<matrix, audit, check>>
          /\ \A r \in MatrixRoles : cache'[r] \in {cache[r], NoEntry}
      BY <1>0, <1>2, <2>2
         DEF UpdatePermission, BeginUpdate, UpsertPermission, Invalidate, RollbackUpdate, TypeOK
    <3>2. \A l \in Checks : CheckAt(l, "read")' => check'[l] = check[l] /\ CheckAt(l, "read")
      BY <3>1 DEF CheckAt
    <3> QED BY <3>1, <3>2, QuietStep
  <2> QED BY <2>1, <2>2
<1>3. ASSUME NEW r \in MatrixRoles, Expire(r) PROVE LogInv'
  <2>1. /\ \A q \in MatrixRoles : cache'[q] \in {cache[q], NoEntry}
        /\ \A l \in Checks : CheckAt(l, "read")' => check'[l] = check[l] /\ CheckAt(l, "read")
    BY <1>0, <1>3 DEF Expire, TypeOK, CheckAt
  <2> QED BY <1>3, <2>1, QuietStep DEF Expire
<1>4. CASE UNCHANGED vars
  <2>1. \A l \in Checks : CheckAt(l, "read")' => check'[l] = check[l] /\ CheckAt(l, "read")
    BY <1>4 DEF vars, CheckAt
  <2> QED BY <1>4, <2>1, QuietStep DEF vars
<1> QED BY <1>1, <1>2, <1>3, <1>4 DEF Next

LEMMA LogHolds == Spec => []LogInv
  BY InitLog, LogStep, Invariance, PTL DEF Spec

(* The matrix is what the logged changes lead to, over any number of changes *)
(* that run at once, are rolled back or tried again.                         *)
THEOREM LogIsComplete == Spec => []AuditExplainsMatrix
  BY LogHolds, PTL DEF LogInv

(* A check answers from a matrix that was in force, whoever changed it while *)
(* the check read and stored it.                                             *)
THEOREM AnswersWereTrueOnce == Spec => []CopiesWereInForce
  BY LogHolds, PTL DEF LogInv
=============================================================================
