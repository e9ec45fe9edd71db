-------------------------- MODULE EmployeeDirectory --------------------------
(***************************************************************************)
(* The staff: EmployeeService Create, BulkCreate, Update and Deactivate,    *)
(* and the leave types whose balances an employee starts with              *)
(* (LeaveService.CreateLeaveType, UpdateLeaveType).  Each is a transaction  *)
(* under READ COMMITTED: a statement sees what was committed when it began, *)
(* and waits only for a row or a unique key that another one holds.        *)
(***************************************************************************)
EXTENDS EmployeeDocuments

CONSTANTS
  Seed,         \* the employees there are at the start
  MaxRows,      \* rows of a bulk upload
  Addresses,    \* 1..Addresses: the addresses automaticEmployeeEmail tries for a name
  Departments,  \* each with one position, which has its name
  Unchanged,    \* a field that a request leaves out
  NoTask        \* the record of a call that is none of these

VARIABLES
  email,     \* email[e]: the address in the committed users row; 0 without one
  place,     \* place[e]: department_id and position_id, given from the creation on
  contacts,  \* contacts[e]: the emergency contacts, each named by its request
  type,      \* type[c]: whether the leave type that c created grants a yearly quota
  balance,   \* leave_balances of this year, as pairs of employee and type
  task,      \* task[c]: how far call c is, with what it read and has not committed
  edited     \* history: the types that UpdateLeaveType changed

directory == <<email, place, contacts, type, balance, task, edited>>
vars == <<documents, directory>>

Places  == [department : Departments, position : Departments]
Changes == [department : Departments \cup {Unchanged}, position : Departments \cup {Unchanged}]
Nothing == [department |-> Unchanged, position |-> Unchanged]
Task == [op : {"create", "bulk", "type", "update", "deactivate"},
         step : {"naming", "named", "inserted", "validated", "locked", "opened", "done"},
         row : 1..MaxRows, person : People, email : 0..Addresses,
         change : Changes,
         opened : SUBSET (People \cup Calls), past : SUBSET Calls]

ASSUME DirectoryAssumption ==
  /\ MaxRows \in Nat \ {0} /\ Addresses \in Nat \ {0}
  /\ Departments # {} /\ Unchanged \notin Departments /\ NoTask \notin Task
  /\ Seed \subseteq People /\ Calls \X (1..MaxRows) \subseteq People \ Seed

Init ==
  /\ DocumentsInit(Seed)
  /\ email = [e \in People |-> 0]   \* the seeded staff has other names
  /\ \E d \in Departments :
       place = [e \in People |-> [department |-> d, position |-> d]]
  /\ contacts = [e \in People |-> {}]
  /\ type = [c \in Calls |-> "none"] /\ balance = {}
  /\ task = [c \in Calls |-> NoTask] /\ edited = {}
-----------------------------------------------------------------------------
Doing(c, step)    == task[c] # NoTask /\ task[c].step = step
Proceeds(c, step) == task' = [task EXCEPT ![c].step = step]
Ends(c) == task' = [task EXCEPT ![c] = [@ EXCEPT !.step = "done", !.email = 0,
                      !.change = Nothing, !.opened = {}]]
Creates(c)        == task[c] # NoTask /\ task[c].op \in {"create", "bulk"}

Begins(c, op, step, e) ==
  /\ upload[c] = NoUpload /\ task[c] = NoTask
  /\ task' = [task EXCEPT ![c] =
       [op |-> op, step |-> step, row |-> 1, person |-> e, email |-> 0,
        change |-> Nothing, opened |-> {},
        past |-> {d \in Calls : Doing(d, "done")}]]
  /\ UNCHANGED <<documents, email, place, contacts, type, balance, edited>>

(* The row is over, created or not, and BulkCreate takes the next one. *)
NextRow(c) ==
  IF task[c].op = "bulk" /\ task[c].row < MaxRows
  THEN task' = [task EXCEPT ![c].step = "naming", ![c].row = @ + 1, ![c].email = 0,
                            ![c].person = <<c, task[c].row + 1>>, ![c].opened = {}]
  ELSE Ends(c)
-----------------------------------------------------------------------------
(* Create and BulkCreate; ValidateCreate accepts a position of the department *)

Create(c) ==
  /\ upload[c] = NoUpload /\ task[c] = NoTask
  /\ \E a \in 1..Addresses :
       task' = [task EXCEPT ![c] =
         [op |-> "create", step |-> "named", row |-> 1, person |-> <<c, 1>>, email |-> a,
          change |-> Nothing, opened |-> {},
          past |-> {d \in Calls : Doing(d, "done")}]]
  /\ UNCHANGED <<documents, email, place, contacts, type, balance, edited>>

BulkCreate(c) == Begins(c, "bulk", "naming", <<c, 1>>)

Taken(a) == \E e \in People : email[e] = a

(* the first candidate that no committed users row has *)
FirstFree(a) == ~ Taken(a) /\ \A b \in 1..(a - 1) : Taken(b)

Name(c) ==
  /\ Doing(c, "naming")
  /\ \/ \E a \in 1..Addresses :
          FirstFree(a) /\ task' = [task EXCEPT ![c].step = "named", ![c].email = a]
     \/ (\A a \in 1..Addresses : Taken(a)) /\ NextRow(c)
  /\ UNCHANGED <<documents, email, place, contacts, type, balance, edited>>

(* A wrong key: what another transaction inserts is not waited for. *)
HeldByNobody(a) == FALSE

(* The unique key makes an INSERT wait for the transaction that holds it. *)
Held(a) == \E d \in Calls : Creates(d) /\ (Doing(d, "inserted") \/ Doing(d, "opened"))
                            /\ task[d].email = a

Insert(c) ==
  /\ Creates(c) /\ Doing(c, "named")
  /\ ~ Taken(task[c].email) /\ ~ Held(task[c].email)
  /\ Proceeds(c, "inserted")
  /\ UNCHANGED <<documents, email, place, contacts, type, balance, edited>>

Collide(c) ==
  /\ Creates(c) /\ Doing(c, "named") /\ Taken(task[c].email)
  /\ NextRow(c)
  /\ UNCHANGED <<documents, email, place, contacts, type, balance, edited>>

(* balances for the types that grant a quota, as committed at this statement *)
OpenBalances(c) ==
  /\ Creates(c) /\ Doing(c, "inserted")
  /\ task' = [task EXCEPT ![c].step = "opened", ![c].opened = {t \in Calls : type[t] = "quota"}]
  /\ UNCHANGED <<documents, email, place, contacts, type, balance, edited>>

CommitEmployee(c) ==
  LET e == task[c].person
  IN /\ Creates(c) /\ Doing(c, "opened")
     /\ employed' = employed \cup {e}
     /\ email' = [email EXCEPT ![e] = task[c].email]
     /\ contacts' = [contacts EXCEPT ![e] = IF task[c].op = "create" THEN {c} ELSE {}]
     /\ balance' = balance \cup ({e} \X task[c].opened)
     /\ NextRow(c)
     /\ UNCHANGED <<file, object, upload, offered, failed, place, type, edited>>
-----------------------------------------------------------------------------
(* CreateLeaveType *)

CreateLeaveType(c) == \E e \in Seed : Begins(c, "type", "inserted", e)

(* A wrong opening: it leaves out who was hired since the seeding. *)
OpensForSeed(c) == Seed \cap employed

(* every active employee committed before this statement *)
OpensFor(c) == employed

OpenForStaff(c) ==
  /\ Doing(c, "inserted") /\ task[c].op = "type"
  /\ task' = [task EXCEPT ![c].step = "opened", ![c].opened = OpensFor(c)]
  /\ UNCHANGED <<documents, email, place, contacts, type, balance, edited>>

(* With no quota, or of category izin, it opens nothing. *)
CommitType(c) ==
  /\ task[c] # NoTask /\ task[c].op = "type"
  /\ \/ Doing(c, "opened") /\ type' = [type EXCEPT ![c] = "quota"]
     \/ Doing(c, "inserted") /\ type' = [type EXCEPT ![c] = "free"]
  /\ balance' = balance \cup (task[c].opened \X {c})
  /\ Ends(c)
  /\ UNCHANGED <<documents, email, place, contacts, edited>>

(* UpdateLeaveType: quota, category or is_active; it opens no balances. *)
UpdateLeaveType(t) ==
  /\ type[t] # "none"
  /\ type' = [type EXCEPT ![t] = IF @ = "quota" THEN "free" ELSE "quota"]
  /\ edited' = edited \cup {t}
  /\ UNCHANGED <<documents, email, place, contacts, balance, task>>
-----------------------------------------------------------------------------
(* Update and Deactivate of an employee *)

Merged(old, change) ==
  [f \in {"department", "position"} |-> IF change[f] = Unchanged THEN old[f] ELSE change[f]]

(* A wrong check: of the fields of the request alone. *)
MatchesAlone(old, change) ==
  change.department = change.position \/ Unchanged \in {change.department, change.position}

(* ValidateMutation: the position belongs to the department, each of them *)
(* COALESCEd with the row as it is before the lock.                       *)
Matches(old, change) == LET new == Merged(old, change) IN new.department = new.position

Update(c) ==
  /\ upload[c] = NoUpload /\ task[c] = NoTask
  /\ \E e \in employed, change \in Changes :
       /\ change = Nothing \/ Matches(place[e], change)
       /\ task' = [task EXCEPT ![c] =
            [op |-> "update", step |-> "validated", row |-> 1, person |-> e, email |-> 0,
             change |-> change, opened |-> {},
             past |-> {d \in Calls : Doing(d, "done")}]]
  /\ UNCHANGED <<documents, email, place, contacts, type, balance, edited>>

Deactivate(c) == \E e \in employed : Begins(c, "deactivate", "validated", e)

(* A wrong lock: the SELECT without FOR UPDATE. *)
NeverHeld(e) == FALSE

(* FOR UPDATE OF e, and the UPDATE of SoftDelete *)
RowHeld(e) == \E d \in Calls : /\ task[d] # NoTask /\ task[d].op \in {"update", "deactivate"}
                               /\ Doing(d, "locked") \/ Doing(d, "opened")
                               /\ task[d].person = e

Lock(c) ==
  /\ Doing(c, "validated") /\ ~ RowHeld(task[c].person)
  /\ IF task[c].person \in employed THEN Proceeds(c, "locked") ELSE Ends(c)   \* ErrNotFound
  /\ UNCHANGED <<documents, email, place, contacts, type, balance, edited>>

(* DELETE of the list the request replaces: the rows this statement sees *)
DeleteContacts(c) ==
  /\ Doing(c, "locked") /\ task[c].op = "update"
  /\ task' = [task EXCEPT ![c].step = "opened", ![c].opened = contacts[task[c].person]]
  /\ UNCHANGED <<documents, email, place, contacts, type, balance, edited>>

(* The inserts and the commit; from "locked" when the request has no list. *)
CommitUpdate(c) ==
  LET e == task[c].person
  IN /\ task[c] # NoTask /\ task[c].op = "update"
     /\ \/ Doing(c, "locked") /\ UNCHANGED contacts
        \/ /\ Doing(c, "opened")
           /\ contacts' = [contacts EXCEPT ![e] = (@ \ task[c].opened) \cup {c}]
     /\ place' = [place EXCEPT ![e] = Merged(@, task[c].change)]
     /\ Ends(c)
     /\ UNCHANGED <<documents, email, type, balance, edited>>

CommitDeactivation(c) ==
  /\ Doing(c, "locked") /\ task[c].op = "deactivate"
  /\ employed' = employed \ {task[c].person}
  /\ Ends(c)
  /\ UNCHANGED <<file, object, upload, offered, failed,
                 email, place, contacts, type, balance, edited>>

(* An error rolls the transaction back; BulkCreate goes on with the next row. *)
RollBack(c) ==
  /\ task[c] # NoTask /\ ~ Doing(c, "done")
  /\ NextRow(c)
  /\ UNCHANGED <<documents, email, place, contacts, type, balance, edited>>

DirectoryStep(c) ==
  \/ Name(c) \/ Insert(c) \/ Collide(c) \/ OpenBalances(c) \/ CommitEmployee(c)
  \/ OpenForStaff(c) \/ CommitType(c)
  \/ Lock(c) \/ DeleteContacts(c) \/ CommitUpdate(c) \/ CommitDeactivation(c)
  \/ RollBack(c)

(* A call of the other module *)
Uploads(c) ==
  /\ task[c] = NoTask
  /\ \/ \E e \in People : UploadDocument(c, e) \/ UpdatePhoto(c, e)
     \/ AttachToRequest(c)
     \/ DocumentsStep(c)
  /\ UNCHANGED directory

Next ==
  \/ \E c \in Calls :
       \/ Create(c) \/ BulkCreate(c) \/ CreateLeaveType(c) \/ Update(c) \/ Deactivate(c)
       \/ DirectoryStep(c) \/ UpdateLeaveType(c) \/ Uploads(c)
  \/ \E b \in BOOLEAN : OfferDocumentType(b) /\ UNCHANGED directory

Spec == Init /\ [][Next]_vars
-----------------------------------------------------------------------------
(* Types of both modules *)
TypeOK ==
  /\ DocumentsTypeOK
  /\ email \in [People -> 0..Addresses] /\ place \in [People -> Places]
  /\ contacts \in [People -> SUBSET Calls]
  /\ type \in [Calls -> {"none", "quota", "free"}]
  /\ balance \subseteq People \X Calls /\ task \in [Calls -> Task \cup {NoTask}]
  /\ edited \subseteq Calls

Overlapped(c, d) ==
  /\ task[c] # NoTask /\ task[d] # NoTask
  /\ c \notin task[d].past /\ d \notin task[c].past

(* Every active employee has a balance of every type that grants a quota: of *)
(* the types there were when the employee was created, and of every type     *)
(* created since.  Only two creations that ran at the same time may miss     *)
(* each other, and a type that was edited opens nothing.                     *)
BalancesOpened ==
  \A e \in employed, t \in Calls \ edited :
    type[t] = "quota" /\ <<e, t>> \notin balance =>
      \E c \in Calls : /\ Creates(c) /\ \E row \in 1..MaxRows : e = <<c, row>>
                       /\ Overlapped(c, t)

(* No two employees are created with one address, though the first free one  *)
(* is read before the INSERT (automaticEmployeeEmail) and creations, single  *)
(* and in bulk, run at once; a deactivated employee keeps theirs.            *)
AddressesDistinct ==
  \A d, e \in People : email[d] # 0 /\ email[d] = email[e] => d = e

(* The emergency contacts of an employee come from one request, however many *)
(* updates ran at once: never a mixture of two lists.                        *)
ContactsFromOneRequest == \A e \in People : Cardinality(contacts[e]) <= 1

(* The position of an employee belongs to the department, unless two updates *)
(* of this employee ran at once: each checked its half against the old row.  *)
OrganisationHolds ==
  \A e \in employed :
    place[e].department = place[e].position \/
    \E c, d \in Calls : /\ c # d /\ Overlapped(c, d)
                        /\ {task[c].op, task[d].op} = {"update"}
                        /\ {task[c].person, task[d].person} = {e}
=============================================================================
